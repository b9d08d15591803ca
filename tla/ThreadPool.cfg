SPECIFICATION FairSpec
CONSTANTS
  w1 = w1
  w2 = w2
  w3 = w3
  Workers <- MCWorkers
  maxTaskNums = 2
  MaxTasks = 4
  Main = main
  NoThread = NoThread
INVARIANTS
  TypeOK
  NeverPopEmpty
  EachTaskOnce
PROPERTIES
  ImplementsTaskQueue
  EveryTaskRuns
  WorkersExit
