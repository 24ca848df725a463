\* The pi announces itself.
SPECIFICATION Spec
CONSTANTS
  Program <- MCShort
  GarbageLengths <- InStep
  FitsOutcomes <- Fits
  MaxFaults = 0
  MaxTries = 1
PROPERTY AnnouncesUntilData
CHECK_DEADLOCK FALSE
