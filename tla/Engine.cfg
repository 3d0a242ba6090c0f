SPECIFICATION FairSpec
CONSTANTS
  Letters <- MCLetters
  Texts <- MCTexts
INVARIANTS CountCovered EveryMarkKeyed EchoFollowsText
PROPERTIES PressConsumed NeverStuck OnAirMatchesSidetone
