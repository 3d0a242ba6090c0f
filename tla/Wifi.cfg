SPECIFICATION FairSpec
CONSTANTS
  BackoffStart = 1
  BackoffMax = 3
  MaxPosted = 2
INVARIANTS RetryDiscipline ConnectedIsReal ConnectedAcrossReboots
PROPERTY AttemptsEnd
