----------------------------- MODULE ToolProcess -----------------------------
(***************************************************************************)
(* One command of the model: the tools bash, PowerShell ("shell") and REPL *)
(* ("repl").  Before a workspace test the branch is compared with main;    *)
(* bash runs the command in a sandbox as far as the system has one.  The   *)
(* command writes, ends by itself or not, and may leave an heir, a process *)
(* that outlives it and holds its pipes, or has its output elsewhere.      *)
(*                                                                         *)
(* Without a timeout all three read while they wait.  With one, bash reads *)
(* and gives up, leaving the command alone; the others poll the command,   *)
(* kill it in the end, and read only then.  The two pipes are one here,    *)
(* counted in units; a unit is what one read or write moves.  Bash cuts    *)
(* what it returns of each at a limit, and says so.                        *)
(***************************************************************************)
EXTENDS Naturals

CONSTANTS
  PipeCapacity,  \* units the pipe holds
  OutputLimit,   \* MAX_OUTPUT_BYTES, in units
  MaxOutput,     \* bound: units of output
  Requests       \* what resolve_request may make of the input and the settings

VARIABLES
  call,     \* the tool, and whether it is given a timeout and run_in_background
  script,   \* units the command writes, whether it ends, its heir
  request,  \* the sandbox asked for, and whether the system has namespaces
  child,    \* the command: "none", "running", "exited" or "killed"
  heir,     \* "none", "running" or "ended"
  pipe,     \* units in the pipe
  sink,     \* where the output goes: "pipe", "null" or, the reader gone, "closed"
  wrote,    \* units written to the pipe so far
  given,    \* the isolation of the command
  caller,   \* where the tool is
  timer,    \* "off", "running" or "expired"
  reply     \* what the tool returns

vars == <<call, script, request, child, heir, pipe, sink, wrote, given, caller, timer, reply>>

Call == [tool : {"bash", "shell", "repl"}, timeout : BOOLEAN, background : BOOLEAN]
Script == [writes : 0..MaxOutput, ends : BOOLEAN, heir : {"none", "ends", "stays", "detached"}]
Request == [enabled : BOOLEAN, namespace : BOOLEAN, network : BOOLEAN, filesystem : BOOLEAN,
            supported : BOOLEAN]
Isolation == [namespace : BOOLEAN, network : BOOLEAN, filesystem : BOOLEAN]
Status == [namespace : BOOLEAN, network : BOOLEAN, filesystem : BOOLEAN, active : BOOLEAN,
           fallback : BOOLEAN]

Open == [namespace |-> FALSE, network |-> FALSE, filesystem |-> FALSE]

\* Mutant of resolve_sandbox_status_for_request: what is asked for is reported.
resolve_as_requested(r) ==
  [namespace |-> r.enabled /\ r.namespace,
   network |-> r.enabled /\ r.network,
   filesystem |-> r.enabled /\ r.filesystem,
   active |-> r.enabled,
   fallback |-> FALSE]

resolve_sandbox_status_for_request(r) ==
  [namespace |-> r.enabled /\ r.namespace /\ r.supported,
   network |-> r.enabled /\ r.network /\ r.supported,
   filesystem |-> r.enabled /\ r.filesystem,
   active |-> r.enabled /\ (r.namespace \/ r.network => r.supported),
   fallback |-> r.enabled /\ (r.namespace \/ r.network) /\ ~r.supported]

\* build_linux_sandbox_command and prepare_command: unshare takes every namespace but that
\* of the network, which it takes when it is asked for; it always moves HOME and TMPDIR.
Isolated(status) ==
  IF status.namespace \/ status.network
  THEN [namespace |-> TRUE, network |-> status.network, filesystem |-> TRUE]
  ELSE [Open EXCEPT !.filesystem = status.filesystem]

Answer(kind, output) == [kind |-> kind, output |-> output, cut |-> FALSE]

\* Mutant of truncate_output: an output that just fits is called cut.
truncate_at_limit(n) ==
  IF n < OutputLimit THEN [output |-> n, cut |-> FALSE] ELSE [output |-> OutputLimit, cut |-> TRUE]

\* What bash returns of n units: all, or as many as the limit and a line that says so.
truncate_output(n) ==
  IF n <= OutputLimit THEN [output |-> n, cut |-> FALSE] ELSE [output |-> OutputLimit, cut |-> TRUE]

Init ==
  /\ call \in {c \in Call : c.tool = "repl" => ~c.background}
  /\ script \in Script
  /\ request \in Requests
  /\ child = "none" /\ heir = "none"
  /\ pipe = 0 /\ sink = "null" /\ wrote = 0 /\ given = Open
  /\ caller = "start" /\ timer = "off"
  /\ reply = Answer("none", 0)

\* workspace_test_branch_preflight: a test of the workspace on a branch that misses
\* commits of main is answered without being run.
Blocked ==
  /\ caller = "start" /\ call.tool # "repl"
  /\ caller' = "done" /\ reply' = Answer("blocked", 0)
  /\ UNCHANGED <<call, script, request, child, heir, pipe, sink, wrote, given, timer>>

\* There is no such shell or language, or the process cannot be started.
NotStarted ==
  /\ caller = "start"
  /\ caller' = "done" /\ reply' = Answer("error", 0)
  /\ UNCHANGED <<call, script, request, child, heir, pipe, sink, wrote, given, timer>>

Spawned ==
  /\ child' = "running"
  /\ heir' = IF script.heir = "none" THEN "none" ELSE "running"
  /\ given' = IF call.tool = "bash" THEN Isolated(resolve_sandbox_status_for_request(request)) ELSE Open

\* run_in_background: the output is thrown away, and nobody waits.
Background ==
  /\ caller = "start" /\ call.background
  /\ Spawned
  /\ caller' = "done" /\ reply' = Answer("background", 0)
  /\ UNCHANGED <<call, script, request, pipe, sink, wrote, timer>>

Polled == call.timeout /\ call.tool # "bash"

Foreground ==
  /\ caller = "start" /\ ~call.background
  /\ Spawned
  /\ sink' = "pipe"
  /\ timer' = IF call.timeout THEN "running" ELSE "off"
  /\ caller' = IF Polled THEN "look" ELSE "await"
  /\ UNCHANGED <<call, script, request, pipe, wrote, reply>>

\* output() and wait_with_output read while they wait.
Read ==
  /\ caller \in {"await", "collect", "collect late"} /\ pipe > 0
  /\ pipe' = 0
  /\ UNCHANGED <<call, script, request, child, heir, sink, wrote, given, caller, timer, reply>>

Returns(kind, output) == caller' = "done" /\ reply' = Answer(kind, output)

\* The heir can write to the pipes of the tool.
HeirHolds == heir = "running" /\ script.heir # "detached"

\* Nobody holds the pipe any more, and it has been read.
AtEnd == pipe = 0 /\ child # "running" /\ ~HeirHolds

\* Mutant of Ended: what there is to read when the command has ended.
EndedEarly ==
  /\ caller = "await" /\ child = "exited"
  /\ Returns("ended", wrote - pipe)
  /\ UNCHANGED <<call, script, request, child, heir, pipe, sink, wrote, given, timer>>

\* output(): the command has ended, and so has its output, of which bash returns no more
\* than its limit.
Ended ==
  /\ caller = "await" /\ AtEnd
  /\ IF call.tool = "bash"
     THEN /\ caller' = "done"
          /\ reply' = [kind |-> "ended", output |-> truncate_output(wrote).output,
                       cut |-> truncate_output(wrote).cut]
     ELSE Returns("ended", wrote)
  /\ UNCHANGED <<call, script, request, child, heir, pipe, sink, wrote, given, timer>>

\* Mutant of GivesUp: the tool waits for the output of the command it gives up.
GivesUpAtEnd ==
  /\ caller = "await" /\ timer = "expired"
  /\ AtEnd
  /\ Returns("timeout", 0)
  /\ sink' = "closed" /\ pipe' = 0
  /\ UNCHANGED <<call, script, request, child, heir, wrote, given, timer>>

\* execute_bash_async drops the command's future: it closes the pipes and kills nothing.
GivesUp ==
  /\ caller = "await" /\ timer = "expired"
  /\ Returns("timeout", 0)
  /\ sink' = "closed" /\ pipe' = 0
  /\ UNCHANGED <<call, script, request, child, heir, wrote, given, timer>>

\* try_wait.
Look ==
  /\ caller = "look"
  /\ caller' = IF child = "exited" THEN "collect" ELSE "clock"
  /\ UNCHANGED <<call, script, request, child, heir, pipe, sink, wrote, given, timer, reply>>

\* Mutant of Clock: the command is left alone and its output awaited.
ClockSpares ==
  /\ caller = "clock"
  /\ caller' = IF timer = "expired" THEN "collect late" ELSE "look"
  /\ UNCHANGED <<call, script, request, child, heir, pipe, sink, wrote, given, timer, reply>>

\* Mutant of Clock: the timeout is answered without waiting for what is killed.
ClockReturns ==
  /\ caller = "clock"
  /\ IF timer = "expired" THEN Returns("timeout", 0) ELSE caller' = "look" /\ UNCHANGED reply
  /\ UNCHANGED <<call, script, request, child, heir, pipe, sink, wrote, given, timer>>

\* The deadline: the command is killed, whether or not it has ended since the last look.
Clock ==
  /\ caller = "clock"
  /\ IF timer = "expired"
     THEN caller' = "collect late" /\ child' = IF child = "running" THEN "killed" ELSE child
     ELSE caller' = "look" /\ UNCHANGED child
  /\ UNCHANGED <<call, script, request, heir, pipe, sink, wrote, given, timer, reply>>

\* Mutant of Collected: the output is what the pipe held when the command was seen to end.
CollectedAtOnce ==
  /\ caller \in {"collect", "collect late"} /\ child # "running"
  /\ IF caller = "collect" THEN Returns("ended", wrote - pipe) ELSE Returns("timeout", 0)
  /\ UNCHANGED <<call, script, request, child, heir, pipe, sink, wrote, given, timer>>

\* wait_with_output at the end: PowerShell gives what was written before the timeout.
Collected ==
  /\ caller \in {"collect", "collect late"} /\ AtEnd
  /\ \/ caller = "collect" /\ Returns("ended", wrote)
     \/ caller = "collect late" /\ Returns("timeout", IF call.tool = "shell" THEN wrote ELSE 0)
  /\ UNCHANGED <<call, script, request, child, heir, pipe, sink, wrote, given, timer>>

Expire ==
  /\ timer = "running"
  /\ timer' = "expired"
  /\ UNCHANGED <<call, script, request, child, heir, pipe, sink, wrote, given, caller, reply>>

\* The command blocks on a full pipe, and gets an error or a signal from a closed one.
CommandWrites ==
  /\ child = "running" /\ script.writes > 0
  /\ sink = "pipe" => pipe < PipeCapacity
  /\ script' = [script EXCEPT !.writes = @ - 1]
  /\ IF sink = "pipe" THEN pipe' = pipe + 1 /\ wrote' = wrote + 1 ELSE UNCHANGED <<pipe, wrote>>
  /\ \/ UNCHANGED child
     \/ sink = "closed" /\ child' = "killed"
  /\ UNCHANGED <<call, request, heir, sink, given, caller, timer, reply>>

CommandEnds ==
  /\ child = "running" /\ script.writes = 0 /\ script.ends
  /\ child' = "exited"
  /\ UNCHANGED <<call, script, request, heir, pipe, sink, wrote, given, caller, timer, reply>>

HeirEnds ==
  /\ heir = "running" /\ script.heir = "ends"
  /\ heir' = "ended"
  /\ UNCHANGED <<call, script, request, child, pipe, sink, wrote, given, caller, timer, reply>>

Start == Blocked \/ NotStarted \/ Background \/ Foreground
Waiter == Start \/ Read \/ Ended \/ GivesUp \/ Look \/ Clock \/ Collected
Command == CommandWrites \/ CommandEnds

World == Expire \/ Command \/ HeirEnds

Next == Waiter \/ World

(* The tool, the command and its heir are processes, which the system runs,*)
(* and time passes.  The steps of the world are finitely many and none of  *)
(* them takes another away, so that fairness to their disjunction is       *)
(* fairness to each.                                                       *)
Fairness == WF_vars(Waiter) /\ WF_vars(World)
-----------------------------------------------------------------------------
TypeOK ==
  /\ call \in Call /\ script \in Script /\ request \in Request
  /\ child \in {"none", "running", "exited", "killed"}
  /\ heir \in {"none", "running", "ended"}
  /\ pipe \in 0..PipeCapacity /\ wrote \in 0..MaxOutput
  /\ sink \in {"pipe", "null", "closed"}
  /\ given \in Isolation
  /\ caller \in {"start", "await", "look", "clock", "collect", "collect late", "done"}
  /\ timer \in {"off", "running", "expired"}
  /\ reply \in [kind : {"none", "blocked", "error", "background", "ended", "timeout"},
                output : 0..MaxOutput, cut : BOOLEAN]

(* An answer that is no timeout means that the command ended by itself.    *)
(* It holds all that was written, up to the end of the last who could      *)
(* write, or says that it was cut: which only bash's is, exactly when more *)
(* than the limit was written, and then it holds the limit.                *)
OutputIsTold ==
  reply.kind = "ended" =>
    /\ child = "exited" /\ script.writes = 0 /\ ~HeirHolds
    /\ reply.cut <=> call.tool = "bash" /\ wrote > OutputLimit
    /\ reply.output = IF reply.cut THEN OutputLimit ELSE wrote

(* "Exceeded timeout" is only said after the timeout; PowerShell and REPL  *)
(* then leave no process behind that holds their pipes, bash alone may.    *)
TimeoutsAreTrue ==
  reply.kind = "timeout" =>
    /\ call.timeout /\ timer = "expired"
    /\ call.tool # "bash" => child # "running" /\ ~HeirHolds

(* When a tool has answered, the command, or an heir of it that can still  *)
(* write to the tool, runs only if it was put in the background or bash    *)
(* gave it up; what was blocked or failed never ran.  A detached heir may  *)
(* run after any answer.                                                   *)
NothingElseRuns ==
  /\ caller = "done" /\ (child = "running" \/ HeirHolds) =>
       reply.kind = "background" \/ (call.tool = "bash" /\ reply.kind = "timeout")
  /\ reply.kind \in {"blocked", "error"} => child = "none" /\ heir = "none"

(* The sandbox status of bash's answer is what the command had: a network  *)
(* of its own exactly if it says so, the other isolation at least as much, *)
(* what was asked for and is missing is told as the fallback, and unshare  *)
(* is not called where it would fail instead of running the command.       *)
SandboxIsTold ==
  call.tool = "bash" /\ child # "none" =>
    LET told == resolve_sandbox_status_for_request(request) IN
    /\ told.network <=> given.network
    /\ told.namespace => given.namespace
    /\ told.filesystem => given.filesystem
    /\ given.namespace => request.supported
    /\ request.enabled /\ request.network /\ ~given.network => told.fallback /\ ~told.active
    /\ request.enabled /\ request.namespace /\ ~given.namespace => told.fallback /\ ~told.active

AnswersRight == OutputIsTold /\ TimeoutsAreTrue /\ NothingElseRuns /\ SandboxIsTold

(* A foreground tool returns: bash with a timeout whatever the command     *)
(* does, any tool with one when no heir stays, and without one when the    *)
(* command ends too.                                                       *)
Done == caller = "done"
HeldBack ==
  /\ ~(call.tool = "bash" /\ call.timeout)
  /\ script.heir = "stays" \/ (~call.timeout /\ ~script.ends)
-----------------------------------------------------------------------------
(* The inductive invariant behind AnswersRight: what each place of the     *)
(* tool's way says of the command, its pipe and its timer.                 *)
Unanswered == caller # "done" <=> reply.kind = "none"

NotRun ==
  caller = "start" \/ reply.kind \in {"blocked", "error"} =>
    child = "none" /\ heir = "none" /\ sink = "null" /\ timer = "off"

Waits ==
  /\ caller \notin {"start", "done"} => child # "none" /\ sink = "pipe" /\ ~call.background
  /\ caller = "await" => ~Polled
  /\ caller \in {"look", "clock", "collect", "collect late"} => Polled
  /\ caller = "collect" => child = "exited"
  /\ caller = "collect late" => child # "running" /\ timer = "expired"

\* Only what the tool gave up is killed, and its pipe closed.
GivenUp ==
  /\ child = "killed" => caller = "collect late" \/ reply.kind = "timeout"
  /\ sink = "closed" => reply.kind = "timeout"
  /\ timer # "off" => call.timeout

Written ==
  /\ wrote + script.writes <= MaxOutput
  /\ child = "exited" => script.writes = 0

Sandboxed ==
  child # "none" =>
    given = IF call.tool = "bash" THEN Isolated(resolve_sandbox_status_for_request(request)) ELSE Open

InStep ==
  /\ Unanswered /\ NotRun /\ Waits /\ GivenUp /\ Written
  /\ OutputIsTold /\ TimeoutsAreTrue /\ NothingElseRuns

Inv == TypeOK /\ Sandboxed /\ InStep
===============================================================================
