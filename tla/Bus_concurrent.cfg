SPECIFICATION Spec
CONSTANTS
  audio = audio
  loop = loop
  paddle = paddle
  player = player
  kkey = kkey
  Tasks <- MCTasks
  Producers <- MCProducers
  RunsOn <- MCRunsOn
  Controllers <- MCControllers
INVARIANTS EdgesBalance DemandCovered
