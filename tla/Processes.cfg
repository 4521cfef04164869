SPECIFICATION AllSpec
CONSTANTS
  one = one
  other = other
  s1 = s1
  s2 = s2
  toolA = toolA
  toolB = toolB
  None = None
  Server = {s1, s2}
  Order <- SmallOrder
  Tool = {toolA, toolB}
  Lists <- SmallLists
  Ids = 2
  MaxOps = 2
  MaxFaults = 1
  HookPipe = 2
  HookPayload = 3
  HookOutput = 3
  Agents = {one, other}
  AgentFaults = 3
  ToolPipe = 1
  ToolLimit = 1
  ToolOutput = 2
  Requests <- AnyRequest
  MaxRequests = 6
  MaxPages = 2
  MaxNotes = 1
  MaxLate = 1
INVARIANTS VerdictsRight AgentsSound ServersAgree ToolsAnswerRight
PROPERTIES AbortEndsTheWait EndsAreKnown CallsKept WaitsEnd
CHECK_DEADLOCK FALSE
