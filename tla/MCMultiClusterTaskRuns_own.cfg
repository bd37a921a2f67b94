\* Answers for an earlier run.
SPECIFICATION Spec
CONSTANTS
  r1 = r1
  r2 = r2
  None = None
  Run <- MCRun
  MaxNavigations = 1
  MaxStale = 2
CHECK_DEADLOCK FALSE
PROPERTIES
  ShowsItsOwnRun
