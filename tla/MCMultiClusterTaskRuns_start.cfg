\* The readiness check and what follows it, for one run.
SPECIFICATION Spec
CONSTANTS
  r1 = r1
  r2 = r2
  None = None
  Run = {r1}
  MaxNavigations = 0
  MaxStale = 5
CHECK_DEADLOCK FALSE
PROPERTIES
  StartsPolling
