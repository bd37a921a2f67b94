\* Editing without Artifact Hub, every reference resolving.
SPECIFICATION Spec
CONSTANTS
  a = a
  b = b
  c = c
  d = d
  l1 = l1
  l2 = l2
  NoName = NoName
  None = None
  InitialNode = InitialNode
  Spacer <- MCSpacer
  FinallyNode <- MCFinallyNode
  TaskName <- MCTaskName
  ListName <- MCListName
  Resource <- MCResource
  Suffixed <- MCSuffixed
  Existing <- MCExisting
  InitiallyThere <- MCResource
  HubTasks = {}
  Deletable = {}
  Typed <- MCTaskName
  MaxNodes = 4
  MaxInstalls = 0
SYMMETRY ListSymmetry
VIEW Live
INVARIANTS
  GraphInv
  DrawnAsEdited
PROPERTIES
  OrderKept
