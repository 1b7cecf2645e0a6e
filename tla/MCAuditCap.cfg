SPECIFICATION Spec
CONSTANTS
  None = None
  Requests = {q}
  Reporters = {x, y, z}
  Targets = {t}
  Faults = FALSE
INVARIANT ReportersCapped
CHECK_DEADLOCK FALSE
