\* Stale bytes, collisions, resets, a faulty line, two runs of my-install.
SPECIFICATION Spec
CONSTANTS
  Program <- MCProgram
  GarbageLengths <- AnyGarbage
  FitsOutcomes <- MayCollide
  MaxFaults = 1
  MaxTries = 2
INVARIANTS
  TypeOK
  NoByteLost
PROPERTIES
  ImplementsTransfer
  
  BootCompletes
CHECK_DEADLOCK FALSE
