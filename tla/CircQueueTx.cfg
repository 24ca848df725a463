\* Main pushes, an interrupt handler pops and peeks.
SPECIFICATION Spec
CONSTANTS
  CQ_N = 4
  Multiple = 4
  Handler = "consumer"
  PushOps = {"push", "push_n"}
  PopOps = {"pop_nonblock", "pop_n_noblk", "peek", "peek_n"}
  MaxBatch = 3
  MaxItems = 8
INVARIANTS
  SlotsHold
  NeverPanics
PROPERTY ImplementsFifo
CHECK_DEADLOCK FALSE
