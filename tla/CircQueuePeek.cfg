\* An interrupt handler pushes while main is in cq_peek_n.
SPECIFICATION Spec
CONSTANTS
  CQ_N = 4
  Multiple = 4
  Handler = "producer"
  PushOps = {"push"}
  PopOps = {"pop", "peek_n"}
  MaxBatch = 3
  MaxItems = 4
INVARIANT PeekKeepsCount
CHECK_DEADLOCK FALSE
