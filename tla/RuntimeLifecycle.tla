--------------------------- MODULE RuntimeLifecycle ---------------------------
(***************************************************************************)
(* LiveCli of the command line program and the BuiltRuntimes it makes: a   *)
(* new one for every turn and for every command that changes the session,  *)
(* the model, the permissions or the plugins.  Each one initializes the    *)
(* plugins and starts the MCP servers again, and takes the place of the    *)
(* one before, whose plugins and servers are shut down.                    *)
(*                                                                         *)
(* A command is the sequence of its steps.  A step that fails ends the     *)
(* program: run_repl passes every error on, and what is still alive is     *)
(* dropped.  Conversations are numbers; a session file is named by one.    *)
(***************************************************************************)
EXTENDS Naturals, Sequences

CONSTANTS
  Registered,  \* the plugins, numbered in the order of the plugin registry
  Modes,       \* permission modes (and, alike, models) a user switches between
  MaxBuilds,   \* bound: runtimes
  MaxFaults    \* bound: steps that fail

VARIABLES
  cli,        \* LiveCli: session, permission_mode and the effort asked for
  current,    \* LiveCli::runtime
  building,   \* the runtime that a command builds, or a turn runs on
  enabled,    \* the plugins the settings enable
  lifecycle,  \* the last lifecycle command of each plugin, and the runtime it was run for
  servers,    \* the runtimes whose MCP servers are alive
  saved,      \* the conversation each session file holds
  command,    \* the command in progress: what is left of it, and its target
  abandoned,  \* runtimes whose construction failed
  stuck,      \* runtimes some plugin or server of which could not be shut down
  builds, faults

vars == <<cli, current, building, enabled, lifecycle, servers, saved, command, abandoned, stuck,
          builds, faults>>

Plugin == 1..Registered
Conversation == 0..MaxBuilds + 1
None == MaxBuilds + 1
Efforts == {"default", "high"}

\* What build_runtime is given: the conversation s and the mode m; the effort is not among it.
\* plugins_active and mcp_active (built) hold from the end of the construction on.
Runtime(n, s, m) ==
  [id |-> n, built |-> FALSE, session |-> s, mode |-> m, plugins |-> {}, effort |-> "default"]

NoRuntime == Runtime(0, None, CHOOSE m \in Modes : TRUE)

Build == <<"load", "discover", "initialize">>

Init ==
  /\ \E m \in Modes, e \in Efforts :
       /\ cli = [session |-> 0, mode |-> m, effort |-> e]
       /\ building = Runtime(1, 0, m)
  /\ current = NoRuntime
  /\ enabled \in SUBSET Plugin
  /\ lifecycle = [p \in Plugin |-> [last |-> "none", of |-> 0]]
  /\ servers = {}
  /\ saved = [s \in Conversation |-> None]
  /\ command = [todo |-> Build \o <<"replace", "persist", "effort">>, target |-> 0]
  /\ abandoned = {} /\ stuck = {}
  /\ builds = 1 /\ faults = 0

-----------------------------------------------------------------------------
(* The plugins of a runtime.                                               *)

\* PluginRegistry::initialize goes through the plugins in order, and shutdown backwards: the
\* plugins that one has done, and that the other has done, when it ends early.
Beginnings(rt) ==
  {S \in SUBSET rt.plugins : \A p \in rt.plugins, q \in S : p < q => p \in S}
Endings(rt) ==
  {S \in SUBSET rt.plugins : \A p \in S, q \in rt.plugins : p < q => q \in S}

\* What the plugins S of a runtime were told last.
Told(rt, S, last) ==
  [p \in Plugin |-> IF p \in S THEN [last |-> last, of |-> rt.id] ELSE lifecycle[p]]
Initialized(rt, S) == Told(rt, S, "init")
ShutDown(rt, S) == Told(rt, S, "shutdown")

At(s) == command.todo # <<>> /\ Head(command.todo) = s
GoOn == command' = [command EXCEPT !.todo = Tail(@)]
Fault == faults < MaxFaults /\ faults' = faults + 1

\* Mutant of Error: the prompt comes back.
ErrorIsReported == command' = [command EXCEPT !.todo = <<"discard">>]

\* The error leaves the function, which drops its runtime, and ends run_repl.
Error == command' = [command EXCEPT !.todo = <<"discard", "quit">>]

\* Drop of BuiltRuntime, the servers first; errors are ignored.
Drop(rt) ==
  \/ /\ servers' = servers \ {rt.id} /\ lifecycle' = ShutDown(rt, rt.plugins)
     /\ UNCHANGED <<stuck, faults>>
  \/ /\ rt.id # 0 /\ Fault /\ stuck' = stuck \union {rt.id}
     /\ \/ servers' = servers /\ lifecycle' = ShutDown(rt, rt.plugins)
        \/ /\ servers' = servers \ {rt.id}
           /\ \E S \in Endings(rt) \ {rt.plugins} : lifecycle' = ShutDown(rt, S)

-----------------------------------------------------------------------------
(* build_runtime                                                           *)

\* The plugin registry loads, or a plugin that is broken fails it.
Load ==
  /\ At("load")
  /\ \/ building' = [building EXCEPT !.plugins = enabled] /\ GoOn /\ UNCHANGED faults
     \/ Fault /\ Error /\ UNCHANGED building
  /\ UNCHANGED <<cli, current, enabled, lifecycle, servers, saved, abandoned, stuck, builds>>

\* The MCP servers are started; their tools, or the tools of the plugins, may be refused then.
Discover ==
  /\ At("discover")
  /\ servers' = servers \union {building.id}
  /\ \/ GoOn /\ UNCHANGED <<faults, abandoned>>
     \/ Fault /\ Error /\ abandoned' = abandoned \union {building.id}
  /\ UNCHANGED <<cli, current, building, enabled, lifecycle, saved, stuck, builds>>

\* The plugins are initialized in order; then the policy and the client are made.
Initialize ==
  /\ At("initialize")
  /\ \/ /\ GoOn /\ lifecycle' = Initialized(building, building.plugins)
        /\ building' = [building EXCEPT !.built = TRUE]
        /\ UNCHANGED <<faults, abandoned>>
     \/ /\ Fault /\ Error
        /\ \E S \in Beginnings(building) : lifecycle' = Initialized(building, S)
        /\ abandoned' = abandoned \union {building.id}
        /\ UNCHANGED building
  /\ UNCHANGED <<cli, current, enabled, servers, saved, stuck, builds>>

-----------------------------------------------------------------------------
(* What the commands do with the runtime they built.                       *)

\* run_turn of the conversation.
RunTurn ==
  /\ At("run")
  /\ \/ GoOn /\ UNCHANGED faults
     \/ Fault /\ Error
  /\ UNCHANGED <<cli, current, building, enabled, lifecycle, servers, saved, abandoned, stuck, builds>>

\* replace_runtime: the old plugins are shut down after the new ones were initialized.
Replace ==
  /\ At("replace")
  /\ \/ /\ GoOn
        /\ current' = building /\ building' = NoRuntime
        /\ lifecycle' = ShutDown(current, current.plugins)
        /\ \/ servers' = servers \ {current.id} /\ UNCHANGED <<faults, stuck>>
           \/ current.id # 0 /\ Fault /\ stuck' = stuck \union {current.id} /\ UNCHANGED servers
     \/ /\ Fault /\ Error
        /\ \E S \in Endings(current) \ {current.plugins} : lifecycle' = ShutDown(current, S)
        /\ stuck' = stuck \union {current.id}
        /\ UNCHANGED <<current, building, servers>>
  /\ UNCHANGED <<cli, enabled, saved, abandoned, builds>>

\* Mutant of Settle: the handle of the session is left as it was.
SettleForgets ==
  /\ At("settle") /\ GoOn
  /\ UNCHANGED <<cli, current, building, enabled, lifecycle, servers, saved, abandoned, stuck, builds, faults>>

\* resume, switch and fork take the handle of the session last.
Settle ==
  /\ At("settle") /\ GoOn
  /\ cli' = [cli EXCEPT !.session = command.target]
  /\ UNCHANGED <<current, building, enabled, lifecycle, servers, saved, abandoned, stuck, builds, faults>>

\* persist_session: the conversation of the runtime to the file of the handle.
Persist ==
  /\ At("persist")
  /\ \/ GoOn /\ saved' = [saved EXCEPT ![cli.session] = current.session] /\ UNCHANGED faults
     \/ Fault /\ Error /\ UNCHANGED saved
  /\ UNCHANGED <<cli, current, building, enabled, lifecycle, servers, abandoned, stuck, builds>>

\* set_reasoning_effort, once, on the runtime that LiveCli::new made.
SetEffort ==
  /\ At("effort") /\ GoOn
  /\ current' = [current EXCEPT !.effort = cli.effort]
  /\ UNCHANGED <<cli, building, enabled, lifecycle, servers, saved, abandoned, stuck, builds, faults>>

\* Mutant of Discard: a runtime that was never adopted is forgotten.
DiscardForgets ==
  /\ At("discard") /\ GoOn
  /\ building' = NoRuntime
  /\ UNCHANGED <<cli, current, lifecycle, servers, stuck, faults, enabled, saved, abandoned, builds>>

\* The command's own runtime is dropped: if it was complete, it is shut down.
Discard ==
  /\ At("discard") /\ GoOn
  /\ IF building.built THEN Drop(building) ELSE UNCHANGED <<lifecycle, servers, stuck, faults>>
  /\ building' = NoRuntime
  /\ UNCHANGED <<cli, current, enabled, saved, abandoned, builds>>

\* LiveCli is dropped.
Quit ==
  /\ At("quit")
  /\ command' = [todo |-> <<"ended">>, target |-> 0]
  /\ Drop(current)
  /\ current' = NoRuntime
  /\ UNCHANGED <<cli, building, enabled, saved, abandoned, builds>>

-----------------------------------------------------------------------------
(* The commands.                                                           *)

Rebuild(s, m, target, todo) ==
  /\ builds < MaxBuilds /\ builds' = builds + 1
  /\ building' = Runtime(builds + 1, s, m)
  /\ command' = [todo |-> Build \o todo, target |-> target]
  /\ UNCHANGED <<current, lifecycle, servers, abandoned, stuck, faults>>

Idle == command.todo = <<>>

\* run_turn, run_prompt_compact, run_prompt_json
Turn ==
  /\ Idle /\ Rebuild(current.session, cli.mode, 0, <<"run", "replace", "persist">>)
  /\ UNCHANGED <<cli, enabled, saved>>

\* /permissions (and, alike but for the order, /model): the mode is set before the runtime is built.
SetPermissions ==
  /\ Idle
  /\ \E m \in Modes \ {cli.mode} :
       /\ cli' = [cli EXCEPT !.mode = m]
       /\ Rebuild(current.session, m, 0, <<"replace", "persist">>)
  /\ UNCHANGED <<enabled, saved>>

\* /clear takes the handle of the new session before its runtime is built.
ClearSession ==
  /\ Idle
  /\ cli' = [cli EXCEPT !.session = builds]
  /\ Rebuild(builds, cli.mode, 0, <<"replace", "persist">>)
  /\ UNCHANGED <<enabled, saved>>

\* /resume and /session switch
ResumeSession ==
  /\ Idle
  /\ \E s \in Conversation \ {None} :
       /\ saved[s] # None
       /\ Rebuild(saved[s], cli.mode, s, <<"replace", "settle", "persist">>)
  /\ UNCHANGED <<cli, enabled, saved>>

\* /session fork saves the copy before its runtime is built.
ForkSession ==
  /\ Idle
  /\ saved' = [saved EXCEPT ![builds] = builds]
  /\ Rebuild(builds, cli.mode, builds, <<"replace", "settle", "persist">>)
  /\ UNCHANGED <<cli, enabled>>

\* /plugins enable and disable; /compact is the same with nothing enabled.
ReloadFeatures ==
  /\ Idle
  /\ enabled' \in SUBSET Plugin
  /\ Rebuild(current.session, cli.mode, 0, <<"replace", "persist">>)
  /\ UNCHANGED <<cli, saved>>

\* /exit saves the session; a program that runs one prompt just ends.
Exit ==
  /\ Idle
  /\ \E todo \in {<<"persist", "quit">>, <<"quit">>} : command' = [todo |-> todo, target |-> 0]
  /\ UNCHANGED <<cli, current, building, enabled, lifecycle, servers, saved, abandoned, stuck, builds, faults>>

Next ==
  \/ Load \/ Discover \/ Initialize \/ RunTurn \/ Replace \/ Settle \/ Persist \/ SetEffort
  \/ Discard \/ Quit
  \/ Turn \/ SetPermissions \/ ClearSession \/ ResumeSession \/ ForkSession \/ ReloadFeatures \/ Exit

Spec == Init /\ [][Next]_vars

-----------------------------------------------------------------------------
(* Where the program is, and its inductive invariant.                      *)

Name == {"load", "discover", "initialize", "run", "replace", "settle", "persist", "effort",
         "discard", "quit", "ended"}

\* What is done with a runtime that was built, and what may be left of a command.
Uses == {<<"replace", "persist", "effort">>, <<"run", "replace", "persist">>,
         <<"replace", "persist">>, <<"replace", "settle", "persist">>}
Rests ==
  Uses \cup {Build \o u : u \in Uses} \cup {<<"discover", "initialize">> \o u : u \in Uses}
       \cup {<<"initialize">> \o u : u \in Uses}
       \cup {<<"settle", "persist">>, <<"persist", "effort">>, <<"effort">>, <<"persist">>, <<>>,
             <<"persist", "quit">>, <<"discard", "quit">>, <<"quit">>, <<"ended">>}

Now(todo) == IF todo = <<>> THEN "idle" ELSE Head(todo)
Settles(todo) == \E i \in DOMAIN todo : todo[i] = "settle"

\* A command builds a runtime, or the program has the one it built, or it ends.
Rebuilding == Now(command.todo) \in {"load", "discover", "initialize", "run", "replace"}
Having == Now(command.todo) \in {"settle", "persist", "effort", "idle"}
Ending == Now(command.todo) \in {"discard", "quit", "ended"}

RuntimeType ==
  [id : 0..builds, built : BOOLEAN, session : Conversation, mode : Modes, plugins : SUBSET Plugin,
   effort : Efforts]

TypeOK ==
  /\ cli \in [session : 0..MaxBuilds, mode : Modes, effort : Efforts]
  /\ current \in RuntimeType /\ building \in RuntimeType
  /\ enabled \subseteq Plugin
  /\ lifecycle \in [Plugin -> [last : {"none", "init", "shutdown"}, of : 0..builds]]
  /\ servers \subseteq 1..builds /\ stuck \subseteq 1..builds /\ abandoned \subseteq 1..builds
  /\ saved \in [Conversation -> Conversation]
  /\ command \in [todo : Seq(Name), target : 0..MaxBuilds]
  /\ builds \in 1..MaxBuilds /\ faults \in 0..MaxFaults

\* The runtimes are counted, and the ones that could not be shut down are older than the current.
InTurn ==
  /\ command.todo \in Rests
  /\ Rebuilding => current.id = builds - 1 /\ building.id = builds
  /\ Having => current.id = builds
  /\ Rebuilding => (building.built <=> Now(command.todo) \in {"run", "replace"})
  /\ Having \/ Now(command.todo) \in {"quit", "ended"} => building = NoRuntime
  /\ Now(command.todo) = "ended" => current = NoRuntime
  /\ current.id = 0 => current.plugins = {}
  /\ ~Ending => stuck \subseteq 1..current.id - 1

\* The servers that are alive are those of the current runtime and of the one being built.
Alive ==
  /\ Rebuilding =>
       servers \ stuck = ({current.id} \ {0}) \cup
         (IF Now(command.todo) \in {"load", "discover"} THEN {} ELSE {building.id})
  /\ Having => servers \ stuck = {current.id}
  /\ Ending =>
       servers \subseteq abandoned \cup stuck \cup {current.id} \cup
         (IF building.built THEN {building.id} ELSE {})

\* The plugins that are initialized are theirs, too.
Initializing ==
  /\ Rebuilding /\ Now(command.todo) # "load" => building.plugins = enabled
  /\ Having => current.plugins = enabled
  /\ Rebuilding /\ building.built =>
       \A p \in building.plugins : lifecycle[p] = [last |-> "init", of |-> building.id]
  /\ \A p \in Plugin : lifecycle[p].last = "init" =>
       \/ p \in current.plugins
       \/ building.built /\ p \in building.plugins
       \/ Ending /\ (abandoned # {} \/ stuck # {})

\* The runtime is on the conversation that is open, or that will be when the command settles.
Opened == IF Settles(command.todo) THEN command.target ELSE cli.session
OnTheOpened ==
  /\ Rebuilding => building.session = Opened /\ building.mode = cli.mode
  /\ Having => current.session = Opened /\ current.mode = cli.mode

-----------------------------------------------------------------------------
(* Properties.                                                             *)

(* A turn runs on what the user chose last: on the conversation that is    *)
(* open, with the mode that is set, with the servers started, and with     *)
(* every enabled plugin initialized for it and not shut down again by the  *)
(* runtime before it.                                                      *)
TurnFindsItsRuntime ==
  At("run") =>
    /\ building.session = cli.session /\ building.mode = cli.mode
    /\ building.id \in servers
    /\ \A p \in enabled : lifecycle[p] = [last |-> "init", of |-> building.id]

(* Between two commands there is one runtime with one set of servers, it   *)
(* is the one the handle and the settings speak of, and a plugin that was  *)
(* disabled has been shut down.                                            *)
IdleHasOneRuntime ==
  Idle =>
    /\ servers \ stuck = {current.id} /\ building = NoRuntime
    /\ current.session = cli.session /\ current.mode = cli.mode
    /\ \A p \in Plugin \ enabled : lifecycle[p].last # "init"

(* When the program has ended, by a failure too, nothing it started is     *)
(* left, but for a runtime that failed while it was built: its servers     *)
(* were started and are not shut down, and so may be its plugins.          *)
EndedIsQuiet ==
  At("ended") =>
    /\ servers \subseteq abandoned \union stuck
    /\ \A p \in Plugin :
         lifecycle[p].last = "init" => abandoned # {} \/ stuck # {}

(* No conversation is saved to the file of another session, whichever step *)
(* of a switch failed.                                                     *)
SavedUnderItsName == \A s \in Conversation : saved[s] \in {s, None}

\* Many runtimes, one program: nothing of one is left to the next.
RuntimesSound ==
  TurnFindsItsRuntime /\ IdleHasOneRuntime /\ EndedIsQuiet /\ SavedUnderItsName

\* The inductive invariant.
Inv == TypeOK /\ InTurn /\ Alive /\ Initializing /\ OnTheOpened /\ SavedUnderItsName

(* ROADMAP.md:494 calls it a gap that "the model runs without the          *)
(* requested effort level": the effort asked for is that of the turn.      *)
EffortReachesTheTurn == At("run") => building.effort = cli.effort
===============================================================================
