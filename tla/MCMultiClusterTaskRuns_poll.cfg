\* Polling, with the page given another run once.
SPECIFICATION Spec
CONSTANTS
  r1 = r1
  r2 = r2
  None = None
  Run <- MCRun
  MaxNavigations = 1
  MaxStale = 2
CHECK_DEADLOCK FALSE
INVARIANTS
  TypeOK
  ProxyConfirmedFirst
  CheckedOnce
PROPERTIES
  PollingStops
  PollsUntilAdmitted
  PollsOn
  ReadAfterTheEnd
