\* The device may stop for good (phase "dead").
CHECK_DEADLOCK FALSE
SPECIFICATION InstallSpec
CONSTANTS
  a = a
  Images = {a}
  Factory = Factory
  FileCount = 2
  WRITE_FAIL_RETRY_CNT = 2
  BufferUnits = 4
INVARIANT InstallIsComplete
PROPERTIES InstallEnds InstallAdvances
