SPECIFICATION DecSpec
CONSTANTS
  R = 4
  Kinds <- MCKinds
  MaxMarks = 4
  Silences <- MCSilences
INVARIANTS DecTypeOK  
