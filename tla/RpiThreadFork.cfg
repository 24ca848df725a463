\* The comment on rpi_exit, with threads that fork.
SPECIFICATION Spec
CONSTANTS
  MaxFork = 4
  ThreadsMayFork = TRUE
INVARIANT ReturnsWhenIdle
CHECK_DEADLOCK FALSE
