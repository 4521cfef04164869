SPECIFICATION Spec
CONSTANTS
  Tools <- MCTools
  Inputs <- MCInputs
  Policies <- MCPolicies
  MaxIterations = 2
  Limited = {TRUE, FALSE}
  PreHooks = {0, 2}
  PreserveRecent = 2
  Threshold = 2
  MaxCalls = 2
  MaxTurns = 2
INVARIANTS TypeOK NoToolWithoutAuthority HistoryIsWhole RunsOnce ResultsAreTrue
PROPERTIES RecordedBeforeRun
