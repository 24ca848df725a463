\* An interrupt handler pushes, main pops.
SPECIFICATION FairSpec
CONSTANTS
  CQ_N = 4
  Multiple = 4
  Handler = "producer"
  PushOps = {"push", "push_n"}
  PopOps = {"pop", "pop_n", "pop_n_noblk"}
  MaxBatch = 3
  MaxItems = 7
INVARIANTS
  TypeOK
  ReadsOldest
PROPERTY EveryItemPopped
CHECK_DEADLOCK FALSE
