\* Only the main program forks, as in every test of labs/6-threads.
SPECIFICATION FairSpec
CONSTANTS
  MaxFork = 5
  ThreadsMayFork = FALSE
PROPERTIES
  ImplementsFifo
  EveryThreadRuns
CHECK_DEADLOCK FALSE
