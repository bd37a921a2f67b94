\* Lists and details, with pruning and a change of namespace.
SPECIFICATION Spec
CONSTANTS
  r1 = r1
  r2 = r2
  r3 = r3
  n1 = n1
  n2 = n2
  None = None
  Run <- MCRun
  Namespace = {n1, n2}
  Home <- MCHome
  Namesakes <- MCNamesakes
  PageOf <- MCPageOf
  Creatable = {r2}
  MayFail = {None, n1}
  MaxNavigations = 1
CHECK_DEADLOCK FALSE
INVARIANTS
  TypeOK
  SettledRead
PROPERTIES
  LoadedInTheEnd
  PrunedRunsShown
