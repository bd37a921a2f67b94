\* Installs from Artifact Hub, one at a time, a resource that others delete, and what becomes
\* of loading nodes.
SPECIFICATION Spec
CONSTANTS
  a = a
  b = b
  c = c
  d = d
  l1 = l1
  l2 = l2
  NoName = NoName
  None = None
  InitialNode = InitialNode
  Spacer <- MCSpacer
  FinallyNode <- MCFinallyNode
  TaskName <- MCHubTaskName
  ListName <- MCHubListName
  Resource <- MCHubResource
  Suffixed <- MCHubSuffixed
  Existing <- MCHubExisting
  InitiallyThere <- MCHubThere
  HubTasks = {a}
  Deletable = {b}
  Typed = {}
  MaxNodes = 2
  MaxInstalls = 1
VIEW Live
INVARIANTS
  TypeOK
PROPERTIES
  EditsKeepGraph
  CleanupKeepsGraph
  LoadingResolved
