------------------------------ MODULE McpManager ------------------------------
(***************************************************************************)
(* McpServerManager of runtime/src/mcp_stdio.rs: one child process for a   *)
(* server, spawned and initialized when it is first needed, reset when it  *)
(* failed, asked one request at a time over its pipes.  The program waits  *)
(* for each operation (block_on under a mutex); what runs beside it are    *)
(* the servers: they answer late, send notifications, refuse and die.      *)
(*                                                                         *)
(* A step of an operation runs from one await to the next.  Payloads are   *)
(* left out, but for the tools a server lists and the pages it lists them  *)
(* in.                                                                     *)
(***************************************************************************)
EXTENDS McpServers

VARIABLES
  process,      \* ManagedMcpServer::process: the child with its two pipes
  initialized,  \* ManagedMcpServer::initialized
  toolIndex,    \* tool_index: the server a tool is routed to
  nextId,       \* next_request_id
  op,           \* the operation in progress and where it stands
  last,         \* the operation that ended last
  ran,          \* the servers that ran the tool of this or the last operation, if it was a call
  program,      \* the runtime built from the discovery
  orphans,      \* processes whose kill failed: nobody has a handle on them
  faults, kills, ops  \* counters of the bounds

vars == <<process, initialized, toolIndex, nextId, op, last, ran, program, orphans, faults, kills, ops>>

\* "resource" stands for list_resources and read_resource of one server.
Kind == {"discover", "discoverAll", "call", "resource", "listAll", "shutdown"}
Error == {"Io", "Transport", "Timeout", "InvalidResponse", "JsonRpc", "UnknownTool", "Kill"}

\* The kinds that go through all servers, and those with the retry loop.
Sweep == {"discover", "discoverAll", "listAll", "shutdown"}
Discovery == {"discover", "discoverAll"}

Idle ==
  [kind |-> "none", stage |-> "idle", server |-> None, todo |-> <<>>, tool |-> None, id |-> 0,
   tries |-> 0, inits |-> 0, tools |-> <<>>, cursor |-> 0, offered |-> <<>>, working |-> {}, failed |-> {},
   faults |-> 0]

NoResult ==
  [kind |-> "none", faults |-> 0, offered |-> <<>>, working |-> {}, failed |-> {}, result |-> "none"]

\* next_request_id + 1, modulo Ids; 0 is the id of no request.
take_request_id == (nextId % Ids) + 1

\* The method of an operation's own request.
MethodOf(k) ==
  CASE k \in Discovery -> "tools/list" [] k = "call" -> "tools/call" [] OTHER -> "resources"

is_retryable_error(e) == e \in {"Transport", "Timeout"}

\* Mutant of should_reset_server: only a broken transport resets.
should_reset_transport(e) == e = "Transport"

should_reset_server(e) == is_retryable_error(e) \/ e = "InvalidResponse"

\* spawn: a new child, its pipes empty; greeted is the server's own view of the handshake.
Child == [alive |-> TRUE, greeted |-> FALSE, req |-> None, out |-> <<>>]

Init ==
  /\ process = [s \in Server |-> None]
  /\ initialized = [s \in Server |-> FALSE]
  /\ toolIndex = [t \in Tool |-> None]
  /\ nextId = 1
  /\ op = Idle /\ last = NoResult
  /\ ran = <<>>
  /\ program = "none"
  /\ orphans = 0
  /\ faults = 0 /\ kills = 0 /\ ops = 0

-----------------------------------------------------------------------------
(* Beginning and ending an operation.                                      *)

Begin(o) ==
  /\ op.stage = "idle" /\ program # "refused" /\ ops < MaxOps
  /\ ops' = ops + 1
  /\ op' = o
  /\ ran' = <<>> /\ last' = NoResult
  /\ UNCHANGED <<process, initialized, toolIndex, nextId, program, orphans, faults, kills>>

\* discover_tools, discover_tools_best_effort, list_resources_for_all_servers and shutdown.
BeginSweep ==
  \E k \in Sweep : Begin([Idle EXCEPT !.kind = k, !.stage = "next", !.todo = Order])

\* list_resources and read_resource of one server.
BeginResource ==
  \E s \in Server : Begin([Idle EXCEPT !.kind = "resource", !.stage = "enter", !.server = s])

\* call_tool: the route is looked up once, at the start.
BeginCall ==
  \E t \in Tool :
    Begin([Idle EXCEPT !.kind = "call", !.tool = t, !.server = toolIndex[t],
             !.stage = IF toolIndex[t] = None THEN "unknown" ELSE "enter"])

End(o, r) ==
  /\ op' = Idle
  /\ last' = [kind |-> o.kind, faults |-> o.faults, offered |-> o.offered,
              working |-> o.working, failed |-> o.failed, result |-> r]

UnknownTool ==
  /\ op.stage = "unknown"
  /\ End(op, "UnknownTool")
  /\ UNCHANGED <<process, initialized, toolIndex, nextId, ran, program, orphans, faults, kills, ops>>

-----------------------------------------------------------------------------
(* The parts of a step.                                                    *)

\* Mutant of reset_server: the flag is left for the next spawn to clear.
reset_server_keeps_child(s) ==
  /\ initialized' = [initialized EXCEPT ![s] = FALSE]
  /\ UNCHANGED <<process, orphans, kills>>

\* reset_server: the child is taken out and killed; an error of the kill is dropped.
reset_server(s) ==
  /\ process' = [process EXCEPT ![s] = None]
  /\ initialized' = [initialized EXCEPT ![s] = FALSE]
  /\ \/ UNCHANGED <<orphans, kills>>
     \/ /\ faults + kills < MaxFaults /\ process[s] # None /\ process[s].alive
        /\ kills' = kills + 1 /\ orphans' = orphans + 1

WithoutRoutes(s) == [t \in Tool |-> IF toolIndex[t] = s THEN None ELSE toolIndex[t]]

\* clear_routes_for_server, then one insert a tool: a later server takes over a name.
Routed(s, tools) == [t \in Tool |-> IF t \in Range(tools) THEN s ELSE WithoutRoutes(s)[t]]

\* The loop over all servers goes on after o.server.
GoOn(o) == op' = [o EXCEPT !.stage = "next", !.server = None] /\ UNCHANGED last

\* Mutant of Failed: a best-effort discovery leaves the routes of a server that failed.
FailedKeepsRoutes(o, e) ==
  IF o.kind \in {"discoverAll", "listAll"}
  THEN GoOn([o EXCEPT !.failed = @ \union {o.server}]) /\ UNCHANGED toolIndex
  ELSE End(o, e) /\ UNCHANGED toolIndex

\* An operation on o.server failed for good.
Failed(o, e) ==
  CASE o.kind = "discoverAll" ->
         GoOn([o EXCEPT !.failed = @ \union {o.server}]) /\ toolIndex' = WithoutRoutes(o.server)
    [] o.kind = "listAll" ->
         GoOn([o EXCEPT !.failed = @ \union {o.server}]) /\ UNCHANGED toolIndex
    [] OTHER -> End(o, e) /\ UNCHANGED toolIndex

\* An operation on o.server succeeded.
Succeeded(o) ==
  CASE o.kind \in Discovery ->
         /\ GoOn([o EXCEPT !.working = @ \union {o.server}, !.offered = @ \o o.tools])
         /\ toolIndex' = Routed(o.server, o.tools)
    [] o.kind = "listAll" ->
         GoOn([o EXCEPT !.working = @ \union {o.server}]) /\ UNCHANGED toolIndex
    [] OTHER -> End(o, "ok") /\ UNCHANGED toolIndex

\* Mutants of Retries: a tool call has the retry loop of the listings; nothing has one.
RetriesCalls(o) == o.tries = 0
RetriesNothing(o) == FALSE

\* list_resources, read_resource and discover_tools_for_server try twice, call_tool once.
Retries(o) == o.kind # "call" /\ o.tries = 0

\* Mutant of Again: what the first attempt listed is kept.
AgainKeepsPages(o) == [o EXCEPT !.stage = "enter", !.tries = 1, !.inits = 0, !.cursor = 0]

\* Mutant of Again: the attempts are not counted.
AgainUncounted(o) == [o EXCEPT !.stage = "enter", !.inits = 0, !.tools = <<>>, !.cursor = 0]

Again(o) == [o EXCEPT !.stage = "enter", !.tries = 1, !.inits = 0, !.tools = <<>>, !.cursor = 0]

(* A request failed with e: the retry of the handshake, the retry of the   *)
(* operation around it, or the end; the child is reset in all three cases  *)
(* unless the error came in a well-formed answer.                          *)
Fail(e) ==
  LET o == [op EXCEPT !.faults = IF is_retryable_error(e) THEN @ + 1 ELSE @] IN
  /\ IF should_reset_server(e) THEN reset_server(op.server)
     ELSE UNCHANGED <<process, initialized, orphans, kills>>
  /\ CASE op.stage = "init" /\ op.inits = 0 /\ is_retryable_error(e) ->
            op' = [o EXCEPT !.stage = "enter", !.inits = 1] /\ UNCHANGED <<last, toolIndex>>
       [] ~(op.stage = "init" /\ op.inits = 0) /\ is_retryable_error(e) /\ Retries(op) ->
            op' = Again(o) /\ UNCHANGED <<last, toolIndex>>
       [] OTHER -> Failed(o, e)

-----------------------------------------------------------------------------
(* The steps of an operation.                                              *)

\* The head of the loops over all servers, and what follows them.
NextServer ==
  /\ op.stage = "next"
  /\ IF op.todo # <<>>
     THEN /\ op' = [op EXCEPT !.server = Head(op.todo), !.todo = Tail(op.todo),
                      !.tries = 0, !.inits = 0, !.tools = <<>>,
                      !.cursor = 0, !.faults = 0, !.stage = IF op.kind = "shutdown" THEN "stop" ELSE "enter"]
          /\ UNCHANGED last
     ELSE End(op, IF op.kind = "listAll" /\ op.working = {} /\ op.failed # {} THEN "failed" ELSE "ok")
  /\ UNCHANGED <<process, initialized, toolIndex, nextId, ran, program, orphans, faults, kills, ops>>

\* A child that was seen to have exited is reset before it is used.
Exited(s) == process[s] # None /\ ~process[s].alive

\* Mutant of Usable: the flag is believed whatever became of the child.
UsableFlag(s) == initialized[s] /\ process[s] # None

Usable(s) == initialized[s] /\ process[s] # None /\ ~Exited(s)

\* ensure_server_ready up to its request: nothing to do, a failed spawn, or initialize is sent.
EnsureReady ==
  /\ op.stage = "enter"
  /\ LET s == op.server
         child == IF process[s] = None \/ Exited(s) THEN Child ELSE process[s] IN
     \/ /\ Usable(s)
        /\ op' = [op EXCEPT !.stage = "ask"]
        /\ UNCHANGED <<process, initialized, toolIndex, nextId, last, faults>>
     \/ /\ ~Usable(s) /\ (process[s] = None \/ Exited(s)) /\ faults + kills < MaxFaults
        /\ faults' = faults + 1
        /\ process' = [process EXCEPT ![s] = None]
        /\ initialized' = [initialized EXCEPT ![s] = FALSE]
        /\ Failed(op, "Io")
        /\ UNCHANGED nextId
     \/ /\ ~Usable(s)
        /\ process' = [process EXCEPT ![s] =
             [child EXCEPT !.req = [id |-> nextId, method |-> "initialize", from |-> 0]]]
        /\ initialized' = [initialized EXCEPT ![s] = FALSE]
        /\ op' = [op EXCEPT !.stage = "init", !.id = nextId]
        /\ nextId' = take_request_id
        /\ UNCHANGED <<toolIndex, last, faults>>
  /\ UNCHANGED <<ran, program, orphans, kills, ops>>

\* The operation's own request; from is the page cursor.
Request ==
  /\ op.stage = "ask"
  /\ process[op.server].alive
  /\ process' = [process EXCEPT ![op.server].req =
       [id |-> nextId, method |-> MethodOf(op.kind), from |-> op.cursor]]
  /\ op' = [op EXCEPT !.stage = "wait", !.id = nextId]
  /\ nextId' = take_request_id
  /\ UNCHANGED <<initialized, toolIndex, last, ran, program, orphans, faults, kills, ops>>

\* The write fails: the child has gone since it was looked at.
BrokenPipe ==
  /\ op.stage = "ask" /\ ~process[op.server].alive
  /\ nextId' = take_request_id
  /\ Fail("Transport")
  /\ UNCHANGED <<ran, program, faults, ops>>

Waiting == op.stage \in {"init", "wait"}

\* request: the next message in the pipe is the answer, if it is one and has the request's id.
Well(a) == a.id = op.id /\ a.kind \notin {"bad", "note"}

\* call_tool hands an answer without result on; everywhere else it is an invalid response.
Empty(a) == a.kind = "empty" /\ ~(op.kind = "call" /\ op.stage = "wait")

\* Mutant of Greeted: an error answer to initialize counts as one.
GreetedAnyway(a) == op.stage = "init" /\ a.kind \in {"ok", "error"}

\* The handshake is done.
Greeted(a) == op.stage = "init" /\ a.kind = "ok"

Answer ==
  /\ Waiting /\ process[op.server].out # <<>>
  /\ LET s == op.server
         a == Head(process[s].out)
         taken == [process EXCEPT ![s].out = Tail(@)]
         keep == UNCHANGED <<initialized, orphans, kills>> IN
     CASE ~Well(a) \/ Empty(a) -> Fail("InvalidResponse")
       [] Well(a) /\ ~Empty(a) /\ Greeted(a) ->
            /\ process' = taken
            /\ initialized' = [initialized EXCEPT ![s] = TRUE]
            /\ op' = [op EXCEPT !.stage = "ask"]
            /\ UNCHANGED <<toolIndex, last, orphans, kills>>
       [] Well(a) /\ ~Empty(a) /\ ~Greeted(a) /\ a.kind = "error" ->
            process' = taken /\ keep /\ Failed(op, "JsonRpc")
       [] Well(a) /\ a.kind = "empty" /\ ~Empty(a) ->
            process' = taken /\ keep /\ Failed(op, "InvalidResponse")
       [] OTHER ->
            /\ process' = taken /\ keep
            /\ IF a.more
               THEN /\ op' = [op EXCEPT !.stage = "ask", !.tools = @ \o a.items,
                                !.cursor = @ + Len(a.items)]
                    /\ UNCHANGED <<last, toolIndex>>
               ELSE Succeeded([op EXCEPT !.tools = @ \o a.items])
  /\ UNCHANGED <<nextId, ran, program, faults, ops>>

\* The pipe ends before an answer.
EndOfFile ==
  /\ Waiting /\ ~process[op.server].alive /\ process[op.server].out = <<>>
  /\ Fail("Transport")
  /\ UNCHANGED <<nextId, ran, program, faults, ops>>

\* Mutant of TimeOut: a tool may take as long as it likes.
TimeOutOfListings ==
  /\ Waiting /\ op.kind # "call"
  /\ Fail("Timeout")
  /\ UNCHANGED <<nextId, ran, program, faults, ops>>

\* run_process_request: the timeout may run out before any answer, and beside one that is coming.
TimeOut ==
  /\ Waiting
  /\ Fail("Timeout")
  /\ UNCHANGED <<nextId, ran, program, faults, ops>>

\* Mutant of Shutdown: a server that cannot be stopped is passed over.
ShutdownPasses ==
  /\ op.stage = "stop"
  /\ initialized' = [initialized EXCEPT ![op.server] = FALSE]
  /\ process' = [process EXCEPT ![op.server] =
       IF process[op.server] # None /\ faults + kills < MaxFaults THEN @ ELSE None]
  /\ GoOn(op)
  /\ UNCHANGED <<toolIndex, nextId, ran, program, orphans, faults, kills, ops>>

\* shutdown of one server; a kill that fails ends the whole operation.
Shutdown ==
  /\ op.stage = "stop"
  /\ \/ /\ process' = [process EXCEPT ![op.server] = None]
        /\ initialized' = [initialized EXCEPT ![op.server] = FALSE]
        /\ GoOn(op)
        /\ UNCHANGED kills
     \/ /\ faults + kills < MaxFaults /\ process[op.server] # None /\ process[op.server].alive
        /\ kills' = kills + 1
        /\ End(op, "Io")
        /\ UNCHANGED <<process, initialized>>
  /\ UNCHANGED <<toolIndex, nextId, ran, program, orphans, faults, ops>>

(* build_runtime_plugin_state: the tools of the first discovery are        *)
(* registered once; with_runtime_tools refuses a name that is there twice, *)
(* and with it the whole start of the program.                             *)
Build ==
  /\ op.stage = "idle" /\ program = "none" /\ last.kind = "discoverAll"
  /\ program' = IF IsInjective(last.offered) THEN "built" ELSE "refused"
  /\ UNCHANGED <<process, initialized, toolIndex, nextId, op, last, ran, orphans, faults, kills, ops>>

-----------------------------------------------------------------------------
(* The servers.                                                            *)

Message(id, kind, items, more) == [id |-> id, kind |-> kind, items |-> items, more |-> more]

Answered(s, msg, greeted) ==
  process' = [process EXCEPT ![s].req = None, ![s].out = Append(@, msg), ![s].greeted = greeted]

\* A server answers the request it was sent: as asked, with an error, without a result, or badly.
Serve(s) ==
  /\ process[s] # None /\ process[s].alive /\ process[s].req # None
  /\ LET r == process[s].req IN
     \/ /\ r.method = "tools/list"
        /\ \E n \in r.from .. Len(Lists[s]) :
             /\ n = r.from => n = Len(Lists[s])
             /\ Answered(s, Message(r.id, "ok", SubSeq(Lists[s], r.from + 1, n), n < Len(Lists[s])),
                         process[s].greeted)
        /\ UNCHANGED ran
     \/ /\ r.method # "tools/list"
        /\ Answered(s, Message(r.id, "ok", <<>>, FALSE), r.method = "initialize" \/ process[s].greeted)
        /\ ran' = IF r.method = "tools/call" THEN Append(ran, s) ELSE ran
     \/ /\ \E k \in {"error", "empty", "bad"} :
             Answered(s, Message(r.id, k, <<>>, FALSE), process[s].greeted)
        /\ \/ UNCHANGED ran
           \/ r.method = "tools/call" /\ ran' = Append(ran, s)
  /\ UNCHANGED <<initialized, toolIndex, nextId, op, last, program, orphans, faults, kills, ops>>

\* A notification of the server, with no id, at any time.
Notify(s) ==
  /\ faults + kills < MaxFaults
  /\ process[s] # None /\ process[s].alive
  /\ faults' = faults + 1
  /\ process' = [process EXCEPT ![s].out = Append(@, Message(0, "note", <<>>, FALSE))]
  /\ UNCHANGED <<initialized, toolIndex, nextId, op, last, ran, program, orphans, kills, ops>>

\* A server ends, with or without what it was about to write.
Die(s) ==
  /\ faults + kills < MaxFaults
  /\ process[s] # None /\ process[s].alive
  /\ faults' = faults + 1
  /\ \E out \in {<<>>, process[s].out} :
       process' = [process EXCEPT ![s].alive = FALSE, ![s].out = out]
  /\ UNCHANGED <<initialized, toolIndex, nextId, op, last, ran, program, orphans, kills, ops>>

Manager ==
  \/ UnknownTool \/ NextServer \/ EnsureReady \/ Request \/ BrokenPipe \/ Answer
  \/ EndOfFile \/ TimeOut \/ Shutdown

Next ==
  \/ BeginSweep \/ BeginResource \/ BeginCall
  \/ UnknownTool \/ NextServer \/ EnsureReady \/ Request \/ BrokenPipe \/ Answer
  \/ EndOfFile \/ TimeOut \/ Shutdown \/ Build
  \/ \E s \in Server : Serve(s) \/ Notify(s) \/ Die(s)

Spec == Init /\ [][Next]_vars

-----------------------------------------------------------------------------
(* Properties.                                                             *)

Operation ==
  [kind : Kind \union {"none"}, stage : {"idle", "unknown", "next", "enter", "init", "ask", "wait", "stop"},
   server : Server \union {None}, todo : Seq(Server), tool : Tool \union {None}, id : Nat,
   tries : 0..1, inits : 0..1, tools : Seq(Tool), cursor : Nat,
   offered : Seq(Tool), working : SUBSET Server, failed : SUBSET Server, faults : Nat]

Result ==
  [kind : Kind \union {"none"}, faults : Nat, offered : Seq(Tool), working : SUBSET Server,
   failed : SUBSET Server, result : {"none", "ok", "failed"} \union Error]

\* Types, over the states of ManagedMcpServer and of the operations.
TypeOK ==
  /\ \A s \in Server : process[s] = None \/ process[s] \in Process
  /\ initialized \in [Server -> BOOLEAN]
  /\ toolIndex \in [Tool -> Server \union {None}]
  /\ nextId \in 1..Ids
  /\ op \in Operation /\ last \in Result
  /\ ran \in Seq(Server)
  /\ program \in {"none", "built", "refused"}
  /\ orphans \in Nat /\ faults + kills \in 0..MaxFaults /\ ops \in 0..MaxOps

\* initialized belongs to the child that is there: the flag is never left over from
\* one that was reset, and no server is asked anything before it greeted.
InitializedIsOfThisChild ==
  \A s \in Server :
    /\ initialized[s] => process[s] # None /\ process[s].greeted
    /\ process[s] # None /\ process[s].req # None /\ ~process[s].greeted =>
         process[s].req.method = "initialize"

\* The pipes stay in step: an answer that came too late for its request is never
\* in the pipe of a child that is asked, or will be asked, something else.
NoStaleAnswer ==
  \A s \in {x \in Server : process[x] # None} :
    \A i \in 1..Len(process[s].out) :
      \/ process[s].out[i].kind = "note"
      \/ Waiting /\ op.server = s /\ process[s].out[i].id = op.id

\* A listing, a read or a discovery reports a broken transport or a timeout only if it
\* met two of them: one alone is healed by the retry.  (Transport and Timeout of one
\* server; a sweep goes on after them.)
OneFaultIsHealed ==
  last.kind \in {"resource", "discover"} /\ is_retryable_error(last.result) => last.faults >= 2

(* The pipes and the flag agree with the children, whatever was reset,     *)
(* died or answered late: no request is read by a server before it         *)
(* greeted, and no answer is taken for the answer to something else.       *)
ChildrenInStep == InitializedIsOfThisChild /\ NoStaleAnswer

\* No operation is repeated for ever: at most four timeouts a server, one for a tool call
\* besides the two of its handshake.
RetriesBounded ==
  /\ last.kind = "resource" => last.faults <= 4
  /\ last.kind = "call" => last.faults <= 2

\* The retry loops, nested as they are, heal one broken transport or timeout and then give up.
RetriesHealOnce == OneFaultIsHealed /\ RetriesBounded

\* After a best-effort discovery exactly the servers that answered have routes, and
\* every tool it offers is routed to a server that answered.
RoutesMatchDiscovery ==
  op.stage = "idle" /\ last.kind = "discoverAll" =>
    /\ \A t \in Tool : toolIndex[t] # None => toolIndex[t] \in last.working
    /\ Range(last.offered) = {t \in Tool : toolIndex[t] # None}
    /\ last.working \union last.failed = Server

\* Where a sequence has t, and where the lists of some servers have it.
Places(seq, t) == {i \in DOMAIN seq : seq[i] = t}
Listed(servers, t) == UNION {{s} \X Places(Lists[s], t) : s \in servers}

\* What a discovery offers lists no tool twice for the retry of a page that failed:
\* each tool is in the offer as often as in the lists of the servers that answered.
OfferedOnce ==
  op.stage = "idle" /\ last.kind \in Discovery /\ last.result = "ok" =>
    \A t \in Tool : Cardinality(Places(last.offered, t)) = Cardinality(Listed(last.working, t))

(* A discovery that is partly successful is exactly that: routes to the    *)
(* servers that answered and to no other, their tools offered once.        *)
DiscoveryIsExact == RoutesMatchDiscovery /\ OfferedOnce

\* A shutdown that reports success left no child behind, alive or not.
ShutdownStopsAll ==
  op.stage = "idle" /\ last.kind = "shutdown" /\ last.result = "ok" =>
    \A s \in Server : process[s] = None /\ ~initialized[s]

(* What the manager keeps about its servers is what is there: pipes, flags *)
(* and retries after faults, routes after a discovery, none after the end. *)
ServersAgree == ChildrenInStep /\ RetriesHealOnce /\ DiscoveryIsExact /\ ShutdownStopsAll

(* The caller's view of tools/call, that of McpCalls: a call is asked, the *)
(* tool runs, the call returns.                                            *)
Calling == op.kind = "call"
Returned ==
  IF Calling \/ last.kind # "call" THEN "none" ELSE IF last.result = "ok" THEN "ok" ELSE "error"
==============================================================================
