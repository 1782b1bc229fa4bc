SPECIFICATION TrackingSpec
CONSTANTS
  Uids = {t0, t1, t2}
  Zero = t0
  NoUid = none
  TasMax = 2
  ConfMax = 1
  TasBeams = 2
  CycleLen = 7
  MaxMeas = 1
INVARIANTS
  TrackTypeOK
  SiblingsDistinct
  SnapshotFresh
  TasDwellFresh
  CycleFinishes
  SearchGoesOn
PROPERTY TasScanSpares
SYMMETRY TrackerSymmetry
