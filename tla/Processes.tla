------------------------------- MODULE Processes -------------------------------
(***************************************************************************)
(* Five components that wait for processes and threads, in one behaviour   *)
(* each: the process of a hook, the threads of the sub-agents, the manager *)
(* of the MCP servers, the process of a tool, and a tool server of the     *)
(* local agent server.  They have no state in common; `part' says whose    *)
(* behaviour this is, and its variables are x1 to x12 in the order in      *)
(* which its module declares them.                                         *)
(***************************************************************************)
EXTENDS McpServers

CONSTANTS
  HookPipe, HookPayload, HookOutput,            \* of HookProcess: its pipe and bounds
  Agents, AgentFaults,                          \* of SubAgents
  ToolPipe, ToolLimit, ToolOutput, Requests,    \* of ToolProcess
  MaxRequests, MaxPages, MaxNotes, MaxLate      \* of AgentServers: its bounds

\* A list has a page.
ASSUME ProcessesAssumption ==
  /\ HookPipe \in Nat /\ HookPayload \in Nat /\ HookOutput \in Nat /\ AgentFaults \in Nat
  /\ ToolPipe \in Nat /\ ToolLimit \in Nat /\ ToolOutput \in Nat
  /\ Requests \subseteq [enabled : BOOLEAN, namespace : BOOLEAN, network : BOOLEAN,
                        filesystem : BOOLEAN, supported : BOOLEAN]
  /\ MaxPages \in Nat \ {0} /\ MaxNotes \in Nat /\ MaxLate \in Nat

VARIABLES part, x1, x2, x3, x4, x5, x6, x7, x8, x9, x10, x11, x12

all == <<part, x1, x2, x3, x4, x5, x6, x7, x8, x9, x10, x11, x12>>

Hooks ==
  INSTANCE HookProcess WITH
    PipeCapacity <- HookPipe, MaxPayload <- HookPayload, MaxOutput <- HookOutput,
    runner <- x1, payload <- x2, script <- x3, stdin <- x4, stdout <- x5, child <- x6,
    parent <- x7, aborted <- x8, outcome <- x9, heir <- x10

Subs ==
  INSTANCE SubAgents WITH
    MaxFaults <- AgentFaults,
    step <- x1, turn <- x2, ending <- x3, output <- x4, manifest <- x5, answer <- x6,
    alive <- x7, faults <- x8

Servers ==
  INSTANCE McpManager WITH
    process <- x1, initialized <- x2, toolIndex <- x3, nextId <- x4, op <- x5, last <- x6,
    ran <- x7, program <- x8, orphans <- x9, faults <- x10, kills <- x11, ops <- x12

Tools ==
  INSTANCE ToolProcess WITH
    PipeCapacity <- ToolPipe, OutputLimit <- ToolLimit, MaxOutput <- ToolOutput,
    call <- x1, script <- x2, request <- x3, child <- x4, heir <- x5, pipe <- x6, sink <- x7,
    wrote <- x8, given <- x9, caller <- x10, timer <- x11, reply <- x12

Local ==
  INSTANCE AgentServers WITH
    server <- x1, pipe <- x2, reader <- x3, connected <- x4, tools <- x5, request <- x6,
    returned <- x7, lastId <- x8, program <- x9, late <- x10, notes <- x11, lost <- x12

None11 == x11 = 0 /\ x12 = 0

AllInit ==
  \/ part = "hooks" /\ Hooks!Init /\ None11
  \/ part = "agents" /\ Subs!Init /\ x9 = 0 /\ x10 = 0 /\ None11
  \/ part = "servers" /\ Servers!Init
  \/ part = "tools" /\ Tools!Init
  \/ part = "local" /\ Local!Init

from11 == <<part, x11, x12>>
from9 == <<x9, x10, from11>>

AllNext ==
  \/ part = "hooks" /\ Hooks!Next /\ UNCHANGED from11
  \/ part = "agents" /\ Subs!Next /\ UNCHANGED from9
  \/ part = "servers" /\ Servers!Next /\ UNCHANGED part
  \/ part = "tools" /\ Tools!Next /\ UNCHANGED part
  \/ part = "local" /\ Local!Next /\ UNCHANGED part

AllSafety == AllInit /\ [][AllNext]_all

\* What each component's scheduling justifies, the part being what it was in the beginning:
\* the parent and the child of the hook are processes, and so is the manager, of whose
\* servers nothing is asked; a tool and its command are processes, and the local agent
\* server is one thread.  Every sub-agent is a thread.
AllSpec ==
  /\ AllSafety
  /\ WF_all(\/ part = "hooks" /\ Hooks!Parent /\ UNCHANGED from11
            \/ part = "servers" /\ Servers!Manager /\ UNCHANGED part
            \/ part = "tools" /\ Tools!Waiter /\ UNCHANGED part
            \/ part = "local" /\ Local!Client /\ UNCHANGED part)
  /\ WF_all(\/ part = "hooks" /\ Hooks!Child /\ UNCHANGED from11
            \/ part = "tools" /\ Tools!World /\ UNCHANGED part)
  /\ \A a \in Agents : WF_all(part = "agents" /\ Subs!Thread(a) /\ UNCHANGED from9)

-----------------------------------------------------------------------------
\* The promises of HookProcess: a hook fails closed, and a clean exit allows the tool.
VerdictsRight == part = "hooks" => Hooks!TypeOK /\ Hooks!VerdictsRight

\* An abort ends the wait for a hook, even for one that is stuck, unless what the hook has
\* started outlives it and holds its pipes.
Hook(P) == part = "hooks" /\ P
AbortEndsTheWait == Hook(Hooks!AbortedWait) ~> Hook(Hooks!Returned \/ Hooks!HeldOpen)

\* The promises of SubAgents: the files of an agent tell one story, and a true one.
AgentsSound == part = "agents" => Subs!TypeOK /\ Subs!AgentsSound

\* The end of an agent reaches its manifest, unless the program ends or two writes fail.
EndsAreKnown ==
  \A a \in Agents : (part = "agents" /\ x1[a] = "run") ~> (part = "agents" /\ Subs!EndIsKnown(a))

\* The promises of McpManager, that pipes, flags, routes and retries agree with the children,
\* and of AgentServers, that answers are those to the requests and a reader finds back.
ServersAgree ==
  /\ part = "servers" => Servers!TypeOK /\ Servers!ServersAgree
  /\ part = "local" => Local!TypeOK /\ Local!AgentServersSound

\* The promises of ToolProcess: what a tool answers of its command is true.
ToolsAnswerRight == part = "tools" => Tools!TypeOK /\ Tools!AnswersRight

(* The caller's view of tools/call: McpManager implements McpCalls, so a    *)
(* tool runs at most once for a call and a success means that it ran.      *)
Calls == INSTANCE McpCalls WITH
  calling <- part = "servers" /\ Servers!Calling,
  ran <- IF part = "servers" THEN Len(x7) ELSE 0,
  answer <- IF part = "servers" THEN Servers!Returned ELSE "none"

CallsKept == Calls!Spec

(* Waits end.  A hook returns unless its output fills a pipe nobody reads, *)
(* or what it has started outlives it and holds its pipes.                 *)
(* Every operation of the manager ends whatever the servers do, for every  *)
(* request has its timeout.  A foreground tool returns, bash with a        *)
(* timeout whatever its command does.  A request of the local agent server *)
(* ends when its tool server has ended.  In one formula, the part being    *)
(* what it was in the beginning.                                           *)
Waiting ==
  \/ Hook(~Hooks!Returned)
  \/ part = "servers" /\ x5.stage # "idle"
  \/ part = "tools" /\ ~Tools!Done
  \/ part = "local" /\ Local!Waiting
WaitIsOver ==
  \/ Hook(Hooks!Returned \/ Hooks!Stuck \/ Hooks!HeldOpen)
  \/ part = "servers" /\ x5.stage = "idle"
  \/ part = "tools" /\ (Tools!Done \/ Tools!HeldBack)
  \/ part = "local" /\ ~Local!Waits
WaitsEnd == Waiting ~> WaitIsOver
===============================================================================
