SPECIFICATION FairSpec
CONSTANTS
  Dits = {1}
  WordSpace = 1
  Frames = 2
  MaxGap = 2
PROPERTIES ComesToRest HeldKeepsSounding
