\* One Add dialog and two Remove dialogs, one fault.
SPECIFICATION Spec
CONSTANTS
  t1 = t1
  t2 = t2
  t3 = t3
  l1 = l1
  l2 = l2
  l3 = l3
  l4 = l4
  a1 = a1
  d1 = d1
  d2 = d2
  None = None
  Templates <- MCTemplates
  Listeners <- MCListeners
  Shared <- MCShared
  Triggerless <- MCTriggerless
  InitTemplates <- MCInitTemplates
  InitListeners <- MCInitListeners
  Adders <- MCAdders
  Removers <- MCRemovers
  Entries <- MCEntries
  MaxIteration = 1
  MaxFaults = 1
CHECK_DEADLOCK FALSE
INVARIANTS
  TypeOK
  CleanAtRest
PROPERTIES
  Implements
  SubmissionsEnd
  ExposureEnds
