\* The device may stop for good (phase "dead"); DeadOnlyByHarm says when.
CHECK_DEADLOCK FALSE
SPECIFICATION SystemSpec
CONSTANTS
  a = a
  Images = {a}
  Factory = Factory
  FileCount = 2
  WRITE_FAIL_RETRY_CNT = 2
  BufferUnits = 4
INVARIANTS DeadOnlyByHarm CopyIsRedoable
PROPERTIES SystemFlagFreezes UpgradeIsAtomic
