-------------------------------- MODULE Program --------------------------------
(***************************************************************************)
(* Components of the program in one behaviour each: plan mode, the prompt  *)
(* cache, the snapshots of the agent server, the monitor of containers of  *)
(* the desktop utility, the saved logins, the plugin store, the runtimes   *)
(* of the command line program, the session files, the chats of the agent  *)
(* server, the settings.  They have no state in common; `part' says whose  *)
(* behaviour this is, and its variables are x1 to x21 in the order in      *)
(* which its module declares them.  MCProgram adds the components that are *)
(* checked on small instances only.                                        *)
(***************************************************************************)
EXTENDS Integers, Sequences

CONSTANTS
  PlanModes, PlanOps, PlanEdits, PlanCuts,                     \* of PlanMode
  CacheRequests, CompletionTtl, PromptTtl,                     \* of PromptCache
  CacheTime, CacheCalls, CacheFaults,
  ChatFiles, MaxSnapshots,                                     \* of AgentSnapshots
  ChatRequests, FileWrites, MaxRollbacks, FileFaults,
  Containers, MaxPolls, DockerChanges, DockerFaults, DockerOps, \* of DockerMonitor
  LoginPrograms, LoginGrants, LoginOps, LoginFaults,            \* of Credentials
  PluginsExternal, PluginsBundled, PluginVersions,              \* of PluginStore
  PluginOps, PluginCuts,
  RuntimePlugins, RuntimeModes, RuntimeBuilds, RuntimeFaults,   \* of RuntimeLifecycle
  SessionIds, RotateAfter, MaxRotated, PreserveRecent,          \* of SessionStore
  SessionMessages, SessionFaults, SessionRotations,
  AgentTools, AgentModes, AgentTurns, AgentCalls,               \* of AgentChat
  AgentRequests, AgentOps, AgentFaults,
  SettingsWriters, SettingsStarts, SettingsTurns                \* of Settings

\* "taken" is not a mode but what PlanMode calls the user's plan mode beside a record.  The
\* times to live are seconds, and the server keeps a snapshot.
ASSUME ProgramAssumption ==
  /\ "taken" \notin PlanModes
  /\ CompletionTtl \in Nat /\ PromptTtl \in Nat /\ CacheTime \in Nat
  /\ MaxSnapshots \in Nat \ {0} /\ FileWrites \in Nat
  /\ MaxPolls \in Nat /\ DockerChanges \in Nat /\ DockerOps \in Nat
  /\ LoginGrants \in Nat /\ LoginOps \in Nat /\ LoginFaults \in Nat
  /\ PluginVersions \in Nat \ {0}
  /\ RuntimePlugins \in Nat /\ RuntimeBuilds \in Nat \ {0} /\ RuntimeFaults \in Nat
  /\ SessionIds \subseteq Nat /\ MaxRotated \in Nat /\ PreserveRecent \in Nat
  /\ SessionMessages \in Nat /\ SessionFaults \in Nat /\ SessionRotations \in Nat
  /\ AgentTurns \in Nat /\ AgentRequests \in Nat /\ AgentOps \in Nat /\ AgentFaults \in Nat

\* A file of the settings is there or not, and one that does not parse to an object has no keys.
ASSUME SettingsAssumption ==
  \A s \in SettingsStarts : \A i \in 1..5 :
    /\ s.files = [j \in 1..5 |-> [kind |-> s.files[j].kind, keys |-> s.files[j].keys]]
    /\ s.files[i].kind \in {"none", "torn", "list", "object"}
    /\ s.files[i].kind # "object" => s.files[i].keys = <<>>

VARIABLES part, x1, x2, x3, x4, x5, x6, x7, x8, x9, x10, x11, x12, x13, x14, x15,
          x16, x17, x18, x19, x20, x21

all == <<part, x1, x2, x3, x4, x5, x6, x7, x8, x9, x10, x11, x12, x13, x14, x15, x16, x17, x18, x19,
         x20, x21>>

Plans ==
  INSTANCE PlanMode WITH
    Modes <- PlanModes, MaxOps <- PlanOps, MaxEdits <- PlanEdits, MaxCuts <- PlanCuts,
    settings <- x1, record <- x2, tool <- x3, config <- x4, own <- x5, disturbed <- x6,
    ops <- x7, edits <- x8, cuts <- x9

Cache ==
  INSTANCE PromptCache WITH
    Requests <- CacheRequests, MaxTime <- CacheTime, MaxCalls <- CacheCalls, MaxFaults <- CacheFaults,
    clock <- x1, entries <- x2, memory <- x3, files <- x4, calls <- x5, result <- x6, born <- x7,
    contact <- x8, back <- x9, faults <- x10

Snapshots ==
  INSTANCE AgentSnapshots WITH
    Files <- ChatFiles, MaxRequests <- ChatRequests, MaxWrites <- FileWrites, MaxFaults <- FileFaults,
    disk <- x1, snapshots <- x2, past <- x3, serving <- x4, last <- x5, requests <- x6,
    writes <- x7, rollbacks <- x8, faults <- x9

Monitor ==
  INSTANCE DockerMonitor WITH
    MaxChanges <- DockerChanges, MaxFaults <- DockerFaults, MaxOps <- DockerOps,
    real <- x1, docker <- x2, connects <- x3, timers <- x4, polling <- x5, polls <- x6, cache <- x7,
    told <- x8, stops <- x9, alarms <- x10, clean <- x11, changes <- x12, faults <- x13, ops <- x14

Logins ==
  INSTANCE Credentials WITH
    Programs <- LoginPrograms, MaxGrants <- LoginGrants, MaxOps <- LoginOps, MaxFaults <- LoginFaults,
    path <- x1, temp <- x2, op <- x3, grants <- x4, valid <- x5, expired <- x6, ops <- x7, faults <- x8,
    promise <- x9, clash <- x10, lost <- x11, loggedOut <- x12, before <- x13

Plugins ==
  INSTANCE PluginStore WITH
    External <- PluginsExternal, Bundled <- PluginsBundled, Versions <- PluginVersions,
    MaxOps <- PluginOps, MaxCuts <- PluginCuts,
    source <- x1, dir <- x2, registry <- x3, settings <- x4, op <- x5, last <- x6, off <- x7,
    torn <- x8, ops <- x9, cuts <- x10

Runtimes ==
  INSTANCE RuntimeLifecycle WITH
    Registered <- RuntimePlugins, Modes <- RuntimeModes, MaxBuilds <- RuntimeBuilds,
    MaxFaults <- RuntimeFaults,
    cli <- x1, current <- x2, building <- x3, enabled <- x4, lifecycle <- x5, servers <- x6,
    saved <- x7, command <- x8, abandoned <- x9, stuck <- x10, builds <- x11, faults <- x12

Store ==
  INSTANCE SessionStore WITH
    Sessions <- SessionIds, MaxMessages <- SessionMessages, MaxFaults <- SessionFaults,
    MaxClock <- SessionRotations,
    disk <- x1, older <- x2, active <- x3, id <- x4, memory <- x5, step <- x6, for <- x7, warned <- x8,
    acked <- x9, used <- x10, next <- x11, faults <- x12, clock <- x13

Agent ==
  INSTANCE AgentChat WITH
    Tools <- AgentTools, Modes <- AgentModes, MaxTurns <- AgentTurns, MaxCalls <- AgentCalls,
    MaxRequests <- AgentRequests, MaxOps <- AgentOps, MaxFaults <- AgentFaults,
    chats <- x1, current <- x2, messages <- x3, lastId <- x4, starting <- x5, chat <- x6, wire <- x7,
    shown <- x8, waiting <- x9, mode <- x10, loop <- x11, asked <- x12, ids <- x13, ops <- x14,
    faults <- x15, ran <- x16, home <- x17, moved <- x18, gone <- x19, unheard <- x20, unsure <- x21

Config ==
  INSTANCE Settings WITH
    Writers <- SettingsWriters, Starts <- SettingsStarts, MaxTurns <- SettingsTurns,
    files <- x1, load <- x2, program <- x3, still <- x4, tools <- x5, owed <- x6, overlap <- x7,
    turns <- x8, sets <- x9, cuts <- x10

\* The variables from x8, x10, ... on belong to no one.
None18 == x18 = 0 /\ x19 = 0 /\ x20 = 0 /\ x21 = 0
None16 == x16 = 0 /\ x17 = 0 /\ None18
None15 == x15 = 0 /\ None16
None14 == x14 = 0 /\ None15
None13 == x13 = 0 /\ None14
None11 == x11 = 0 /\ x12 = 0 /\ None13
None10 == x10 = 0 /\ None11
None8 == x8 = 0 /\ x9 = 0 /\ None10

from18 == <<part, x18, x19, x20, x21>>
from16 == <<x16, x17, from18>>
from15 == <<x15, from16>>
from14 == <<x14, from15>>
from13 == <<x13, from14>>
from11 == <<x11, x12, from13>>
from10 == <<x10, from11>>
from8 == <<x8, x9, from10>>

ProgramInit ==
  \/ part = "plans" /\ Plans!Init /\ None10
  \/ part = "cache" /\ Cache!Init /\ None11
  \/ part = "snapshots" /\ Snapshots!Init /\ None10
  \/ part = "monitor" /\ Monitor!Init /\ None15
  \/ part = "logins" /\ Logins!Init /\ None14
  \/ part = "plugins" /\ Plugins!Init /\ None11
  \/ part = "runtimes" /\ Runtimes!Init /\ None13
  \/ part = "sessions" /\ Store!Init /\ None14
  \/ part = "agent" /\ Agent!Init
  \/ part = "settings" /\ Config!Init /\ None11

ProgramNext ==
  \/ part = "plans" /\ Plans!Next /\ UNCHANGED from10
  \/ part = "cache" /\ Cache!Next /\ UNCHANGED from11
  \/ part = "snapshots" /\ Snapshots!Next /\ UNCHANGED from10
  \/ part = "monitor" /\ Monitor!Next /\ UNCHANGED from15
  \/ part = "logins" /\ Logins!Next /\ UNCHANGED from14
  \/ part = "plugins" /\ Plugins!Next /\ UNCHANGED from11
  \/ part = "runtimes" /\ Runtimes!Next /\ UNCHANGED from13
  \/ part = "sessions" /\ Store!Next /\ UNCHANGED from14
  \/ part = "agent" /\ Agent!Next /\ UNCHANGED part
  \/ part = "settings" /\ Config!Next /\ UNCHANGED from11

ProgramSpec == ProgramInit /\ [][ProgramNext]_all

-----------------------------------------------------------------------------
\* The promises of PlanMode: the mode the user had is never lost and is given back.
PlanModeIsSound == part = "plans" => Plans!TypeOK /\ Plans!PlanModeIsSound

(* The promises of PromptCache: an answer from a file is the newest and    *)
(* fresh, "unexpected" means recent, the statistics add up.                *)
CacheIsSound == part = "cache" => Cache!TypeOK /\ Cache!CacheIsSound

\* The promises of AgentSnapshots: the newest rollback undoes its request.
RollbackIsSound == part = "snapshots" => Snapshots!TypeOK /\ Snapshots!RollbackIsSound

(* The promises of DockerMonitor: one timer, listeners that know what was  *)
(* last seen, and no false alarm unless polls overlap or requests fail.    *)
MonitorIsSound == part = "monitor" => Monitor!TypeOK /\ Monitor!MonitorIsSound

(* The promises of Credentials: saves that do not overlap are whole, the    *)
(* newest refresh token is kept, a logout lasts.                            *)
CredentialsAreSound == part = "logins" => Logins!TypeOK /\ Logins!CredentialsAreSound

\* A login that can be refreshed stays one.
RefreshStays == [][part = "logins" => Logins!RefreshKept]_all

(* The promises of PluginStore: an operation that succeeds did all of it,  *)
(* a registry that loads is whole, a disabled plugin stays off.            *)
StoreIsSound == part = "plugins" => Plugins!TypeOK /\ Plugins!StoreIsSound

\* The promises of RuntimeLifecycle: nothing of one runtime is left to the next.
RuntimesSound == part = "runtimes" => Runtimes!TypeOK /\ Runtimes!RuntimesSound

\* The promises of SessionStore: what was saved can be read again, in files of bounded number.
SavedIsSound == part = "sessions" => Store!TypeOK /\ Store!SavedIsSound

\* A command or a turn ends with the open session's file equal to the session in memory.
DoneMeansSaved == [][part = "sessions" => Store!SavedWhenDone]_all

(* The promises of AgentChat: what is shown is saved, answers stay with     *)
(* their questions and list what was run, under the mode that was shown.   *)
AgentIsSound == part = "agent" => Agent!TypeOK /\ Agent!AgentIsSound

\* The promises of Settings: a load gives what the files say, and what was set stays set.
SettingsAreSound == part = "settings" => Config!TypeOK /\ Config!SettingsAreSound
===============================================================================
