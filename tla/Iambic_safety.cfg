SPECIFICATION Spec
CONSTANTS
  Dits <- MCGentleDits
  WordSpace = 1
  Frames = 4
  MaxGap = 5
 
PROPERTY SymbolOrder
