SPECIFICATION SerialSpec
CONSTANTS
  audio = audio
  loop = loop
  paddle = paddle
  player = player
  kkey = kkey
  Tasks <- MCTasks
  Producers <- MCProducers
  RunsOn <- MCRunsOn
  Controllers <- MCControllers
INVARIANT UnkeyedWhenReleased
PROPERTY ImplementsKeyLine
