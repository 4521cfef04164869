SPECIFICATION FairSpec
CONSTANTS
  Tools <- MCTools
  Inputs <- MCOneInput
  Policies <- MCPolicyAsk
  MaxIterations = 2
  Limited = {TRUE, FALSE}
  PreHooks = {0, 1}
  PreserveRecent = 2
  Threshold = 2
  MaxCalls = 4
  MaxTurns = 1
PROPERTIES TurnEnds ImplementsToolCalls
