SPECIFICATION PagesSpec
CONSTANTS
  None = None
  ns1 = ns1
  ns2 = ns2
  t1 = t1
  t2 = t2
  t3 = t3
  t4 = t4
  g1 = g1
  g2 = g2
  g3 = g3
  n1 = n1
  n2 = n2
  n3 = n3
  n4 = n4
  l1 = l1
  \* OverviewCards
  Watched <- MCWatched
  Namespaces <- MCNamespaces
  Timespans <- MCTimespans
  DefaultTimespan = 1
  DefaultInterval = 1
  Intervals <- MCIntervals
  Off = 99
  Timeout = 3
  Latencies <- MCLatencies
  MaxChoices = 2
  \* MetricsCards
  ScopesK8s <- MCNamespaces
  WatchedK8s <- MCWatchedK8s
  \* RunCounts
  Status <- MCStatus
  Success = "success"
  Lasts <- MCLasts
  MaxCounted = 4
  MaxPlaces = 4
  MaxRestarts = 2
  \* LogStream
  N = 2
  MaxRetries = 1
  MaxMcRetries = 1
  MaxLines = 2
  MaxLogFaults = 1
  \* Approvals
  Tasks <- MCTasks
  Projects <- MCNamespaces
  ProjectOf <- MCProjectOf
  UserTasks <- MCUserTasks
  GroupsOf <- MCGroupsOf
  Memberships <- MCMemberships
  MaxChanges = 2
  MaxRuns = 3
  MaxLookupFaults = 1
  \* SyncedEditor
  TaskName <- MCTaskName
  ListName = {l1}
  Resource = {n1}
  NoName = NoName
  Suffixed <- MCSuffixed
  InitialNode = InitialNode
  Existing <- MCExisting
  InitiallyThere = {n1}
  HubTasks = {}
  Deletable = {}
  Typed = {}
  Typings <- MCTypings
  MaxNodes = 2
  MaxInstalls = 0
  \* QuickSearch
  Terms <- MCTerms
  MaxSearches = 3
  MaxRenewals = 1
VIEW Live
INVARIANTS
  PagesTypeOK
  AllShowSelected
  AllSettleRight
  NoLineTwice
  WholeLogShown
  WaitingIsTold
  ToastsAreCurrent
  LookingKeepsTheForm
  RunAftersResolve
  FoundIsOfTheText
  SpinnerAwaits
  NumbersAddUp
PROPERTIES
  LoadingEnds
  StreamsConnectOrEnd
  LookupsEnd
  DecisionRecorded
CHECK_DEADLOCK FALSE
