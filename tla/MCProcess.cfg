SPECIFICATION FairSpec
CONSTANTS
  NUM_PROC = 4
  MaxPid = 4
  MaxSleep = 2
INVARIANTS
  TypeOK
  ListsMatchStates
  OneRunning
  SleepersAreInCalls
  NoLostExit
  PidsIdentify
  ReapsOnlyKilled
PROPERTIES
  RoundRobin
  WaitOutlivesChild
  ReadyRuns
  SleepEnds
  AwaitedIsFreed
