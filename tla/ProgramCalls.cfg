SPECIFICATION AllSpec
CONSTANTS
  mine = mine
  ours = ours
  first = first
  second = second
  PlanModes = {"read-only", "workspace-write"}
  PlanOps = 3
  PlanEdits = 2
  PlanCuts = 2
  CacheRequests = {first, second}
  CompletionTtl = 1
  PromptTtl = 2
  CacheTime = 4
  CacheCalls = 3
  CacheFaults = 1
  ChatFiles = {mine, ours}
  MaxSnapshots = 2
  ChatRequests = 3
  FileWrites = 2
  MaxRollbacks = 2
  FileFaults = 1
  Containers = {mine, ours}
  MaxPolls = 2
  DockerChanges = 1
  DockerFaults = 1
  DockerOps = 2
  LoginPrograms = {first, second}
  LoginGrants = 3
  LoginOps = 3
  LoginFaults = 1
  PluginsExternal = {mine}
  PluginsBundled = {ours}
  PluginVersions = 2
  PluginOps = 4
  PluginCuts = 1
  RuntimePlugins = 2
  RuntimeModes = {"read-only", "workspace-write"}
  RuntimeBuilds = 4
  RuntimeFaults = 2
  SessionIds = {1, 2}
  RotateAfter = 2
  MaxRotated = 1
  PreserveRecent = 1
  SessionMessages = 3
  SessionFaults = 1
  SessionRotations = 3
  AgentTools = {mine}
  AgentModes = {"read-only", "workspace-write"}
  AgentTurns = 2
  AgentCalls = 1
  AgentRequests = 2
  AgentOps = 2
  AgentFaults = 1
  SettingsWriters = {"turn", "agent"}
  SettingsStarts <- Starts
  SettingsTurns = 1
INVARIANTS NoCallIsLost
CHECK_DEADLOCK FALSE
