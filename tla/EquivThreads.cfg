\* Any order of forks, refreshes and runs of three threads.
SPECIFICATION FairSpec
CONSTANTS
  MaxFork = 3
  Code <- MCCode
  Solo <- MCSolo
  TxDepth = 2
  MaxRuns = 4
INVARIANTS
  TypeOK
  HashIsSolo
  PanicsIffWrong
  LockStep
PROPERTIES
  ImplementsRoundRobin
  EveryThreadExits
CHECK_DEADLOCK FALSE
