\* Details of a run that was pruned.
SPECIFICATION Spec
CONSTANTS
  r1 = r1
  r2 = r2
  r3 = r3
  n1 = n1
  n2 = n2
  None = None
  Run <- MCRun
  Namespace = {n1, n2}
  Home <- MCHome
  Namesakes <- MCNamesakes
  PageOf <- MCPageOf
  Creatable = {r2}
  MayFail = {None}
  MaxNavigations = 0
CHECK_DEADLOCK FALSE
PROPERTIES
  PrunedDetailsShown
