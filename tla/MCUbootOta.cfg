\* The loop of the environment ends in booting the package.
CHECK_DEADLOCK FALSE
SPECIFICATION UbootSpec
CONSTANTS
  a = a
  b = b
  Images = {a, b}
  Factory = Factory
  FileCount = 2
  WRITE_FAIL_RETRY_CNT = 1
  BufferUnits = 4
  Found <- FoundDef
PROPERTIES FlagFreezesFirmware FlagMeansReceived WriteEnds ServesDisk WriteAdvances
