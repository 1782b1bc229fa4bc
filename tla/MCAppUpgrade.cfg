SPECIFICATION AppSpec
CONSTANTS
  a = a
  b = b
  Images = {a, b}
  Factory = Factory
  FileCount = 2
  WRITE_FAIL_RETRY_CNT = 2
  BufferUnits = 4
SYMMETRY ImageSymmetry
INVARIANTS StageIsKept NoStaleTail CheckedImage
PROPERTY StagedIsReceived
