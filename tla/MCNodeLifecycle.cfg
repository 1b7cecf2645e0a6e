SPECIFICATION Spec
CONSTANTS
  Nodes = {n1}
  Handlers = {h1, h2}
  Reports <- MCReports
  Window = 0
  Hour = 2
  ArchiveAfter = 0
  MAX_HOURLY_GAIN = 13
  Absent = Absent
  Never = Never
  MaxTime = 2
  MaxHeartbeats = 3
  MaxRegistrations = 2
SYMMETRY HandlerSymmetry
INVARIANTS InactiveHidden ReactivatedOnce CountedOnce VerifiesOnce HourlyBudget
PROPERTIES ArchivesOnlySilent
CHECK_DEADLOCK FALSE
