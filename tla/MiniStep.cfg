\* Functions stepped through in any order, with watchpoints and a FIFO that
\* a handler can fill.
SPECIFICATION Spec
CONSTANTS
  Prog <- MCProg
  Entries <- MCEntries
  TxDepth = 2
  MaxPrint = 3
INVARIANTS
  TypeOK
  NeverReentered
  EveryInstructionReported
  TracesRepeat
  NoByteLost
PROPERTY RunReturns
