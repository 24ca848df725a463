\* Threads fork threads too.
SPECIFICATION Spec
CONSTANTS
  MaxFork = 5
  ThreadsMayFork = TRUE
INVARIANTS
  TypeOK
  QueuesRepresent
  BlocksPartitioned
  ResumesLiveContext
  LinkOfRunning
CHECK_DEADLOCK FALSE
