----------------------------- MODULE HookProcess -----------------------------
(***************************************************************************)
(* One hook command as a child process: output_with_stdin and what         *)
(* run_command makes of it.  The parent writes the payload to the child's  *)
(* stdin, then waits.  There are two copies of this code: the runtime's    *)
(* polls the child and the abort signal and reads the output once the      *)
(* child has ended; the plugins' reads the output while it waits, knows no *)
(* abort and takes no decision from the output.                            *)
(*                                                                         *)
(* Pipes are counted in units; a unit is what one read or write moves.     *)
(* The child is a shell: it reads some of its stdin, writes its output and *)
(* exits.  What it has started may hold the output pipes longer than the   *)
(* shell runs (the heir); both copies read them to their end.              *)
(***************************************************************************)
EXTENDS Naturals

CONSTANTS
  PipeCapacity,  \* units a pipe holds
  MaxPayload,    \* bound: units of the payload
  MaxOutput      \* bound: units of output

VARIABLES
  runner,   \* whose copy runs, "runtime" or "plugins"
  payload,  \* units the parent has to write
  script,   \* what the child does: units it reads and writes, its exit code, a decision to block
  stdin,    \* units in the child's stdin pipe
  stdout,   \* units in its stdout pipe
  child,    \* "running", "exited" or "killed"
  parent,   \* where output_with_stdin is: "reap" and "killed" are its two calls of
            \* wait_with_output, for a child that has ended and one it has killed
  aborted,  \* the HookAbortSignal
  outcome,  \* HookCommandOutcome
  heir      \* a process the child has started: "none", "holding" the pipes, or "gone"

vars == <<runner, payload, script, stdin, stdout, child, parent, aborted, outcome, heir>>

Script == [reads : 0..MaxPayload, writes : 0..MaxOutput, code : {0, 1, 2}, deny : BOOLEAN]

\* Mutant of OutcomeOf: the exit code alone decides in both copies.
OutcomeOfCode(code, deny) ==
  IF code = 0 THEN "Allow" ELSE IF code = 2 THEN "Deny" ELSE "Failed"

\* run_command: what the exit code means, and in the runtime's copy, which alone parses
\* the output, the decision in it.
OutcomeOf(code, deny) ==
  IF code = 0 THEN IF deny /\ runner = "runtime" THEN "Deny" ELSE "Allow"
  ELSE IF code = 2 THEN "Deny" ELSE "Failed"

Init ==
  /\ runner \in {"runtime", "plugins"}
  /\ payload \in 0..MaxPayload
  /\ script \in {s \in Script : s.reads <= payload}
  /\ stdin = 0 /\ stdout = 0
  /\ child = "running" /\ parent = "write" /\ aborted = FALSE
  /\ outcome = "none" /\ heir = "none"

Write ==
  /\ parent = "write" /\ payload > 0
  /\ child = "running" /\ stdin < PipeCapacity
  /\ stdin' = stdin + 1 /\ payload' = payload - 1
  /\ UNCHANGED <<runner, script, stdout, child, parent, aborted, outcome, heir>>

\* Mutant of BrokenPipe: an error of the write is no failure at all.
BrokenPipeAllows ==
  /\ parent = "write" /\ payload > 0
  /\ child = "exited"
  /\ parent' = "done" /\ outcome' = "Allow"
  /\ UNCHANGED <<runner, payload, script, stdin, stdout, child, aborted, heir>>

\* Mutant of BrokenPipe: the error is propagated by both copies.
BrokenPipePropagates ==
  /\ parent = "write" /\ payload > 0
  /\ child = "exited"
  /\ parent' = "done" /\ outcome' = "Failed"
  /\ UNCHANGED <<runner, payload, script, stdin, stdout, child, aborted, heir>>

\* Mutant of BrokenPipe: the write is tried again.
BrokenPipeRetries ==
  /\ parent = "write" /\ payload > 0
  /\ child = "exited"
  /\ stdin' = IF stdin < PipeCapacity THEN stdin + 1 ELSE 0
  /\ UNCHANGED <<runner, payload, script, stdout, child, parent, aborted, outcome, heir>>

(* The child has gone and the write fails with EPIPE: the plugins' copy    *)
(* goes on and waits, the runtime's returns the error, which run_command   *)
(* reports as a hook that failed to start.                                 *)
BrokenPipe ==
  /\ parent = "write" /\ payload > 0
  /\ child = "exited"
  /\ IF runner = "plugins"
     THEN parent' = "wait" /\ UNCHANGED outcome
     ELSE parent' = "done" /\ outcome' = "Failed"
  /\ UNCHANGED <<runner, payload, script, stdin, stdout, child, aborted, heir>>

\* The child's stdin is closed.
Written ==
  /\ parent = "write" /\ payload = 0
  /\ parent' = "wait"
  /\ UNCHANGED <<runner, payload, script, stdin, stdout, child, aborted, outcome, heir>>

\* The plugins' wait_with_output reads while the child runs.
Drain ==
  /\ runner = "plugins" /\ parent = "wait"
  /\ stdout > 0
  /\ stdout' = 0
  /\ UNCHANGED <<runner, payload, script, stdin, child, parent, aborted, outcome, heir>>

(* The child has ended: its exit code is taken.  The runtime's copy does    *)
(* not look at the abort signal any more.                                  *)
Reap ==
  /\ runner = "runtime" /\ parent = "wait"
  /\ child = "exited" /\ ~aborted
  /\ parent' = "reap"
  /\ UNCHANGED <<runner, payload, script, stdin, stdout, child, aborted, outcome, heir>>

\* Mutant of Cancel: the abort signal is looked at when the child has ended.
CancelAfterExit ==
  /\ runner = "runtime" /\ parent = "wait" /\ aborted
  /\ child = "exited"
  /\ parent' = "killed"
  /\ UNCHANGED <<runner, payload, script, stdin, stdout, child, aborted, outcome, heir>>

\* The poll looks at the abort signal first, and kills the child, the shell alone.
Cancel ==
  /\ runner = "runtime" /\ parent = "wait" /\ aborted
  /\ child' = IF child = "running" THEN "killed" ELSE child
  /\ parent' = "killed"
  /\ UNCHANGED <<runner, payload, script, stdin, stdout, aborted, outcome, heir>>

PipesAtEnd == child # "running" /\ heir # "holding"

(* wait_with_output reads the output to its end, which comes when nobody   *)
(* holds the pipes any more.  The plugins' copy has been in it since it    *)
(* has written the payload.                                                *)
Finished ==
  /\ parent = IF runner = "runtime" THEN "reap" ELSE "wait"
  /\ PipesAtEnd
  /\ parent' = "done" /\ stdout' = 0
  /\ outcome' = OutcomeOf(script.code, script.deny)
  /\ UNCHANGED <<runner, payload, script, stdin, child, aborted, heir>>

\* What is left of the output of a killed child is read to the end too, and dropped.
Cancelled ==
  /\ parent = "killed" /\ PipesAtEnd
  /\ parent' = "done" /\ stdout' = 0
  /\ outcome' = "Cancelled"
  /\ UNCHANGED <<runner, payload, script, stdin, child, aborted, heir>>

ChildReads ==
  /\ child = "running" /\ script.reads > 0 /\ stdin > 0
  /\ stdin' = stdin - 1
  /\ script' = [script EXCEPT !.reads = @ - 1]
  /\ UNCHANGED <<runner, payload, stdout, child, parent, aborted, outcome, heir>>

\* The child writes once it has read what it wants, and blocks on a full pipe.
ChildWrites ==
  /\ child = "running" /\ script.reads = 0 /\ script.writes > 0
  /\ stdout < PipeCapacity
  /\ stdout' = stdout + 1
  /\ script' = [script EXCEPT !.writes = @ - 1]
  /\ UNCHANGED <<runner, payload, stdin, child, parent, aborted, outcome, heir>>

ChildExits ==
  /\ child = "running" /\ script.reads = 0 /\ script.writes = 0
  /\ child' = "exited"
  /\ UNCHANGED <<runner, payload, script, stdin, stdout, parent, aborted, outcome, heir>>

\* The shell starts a process that inherits its output pipes; a background one has no stdin.
ChildForks ==
  /\ child = "running" /\ heir = "none"
  /\ heir' = "holding"
  /\ UNCHANGED <<runner, payload, script, stdin, stdout, child, parent, aborted, outcome>>

\* That process ends, or closes its output: whenever it likes.
HeirEnds ==
  /\ heir = "holding"
  /\ heir' = "gone"
  /\ UNCHANGED <<runner, payload, script, stdin, stdout, child, parent, aborted, outcome>>

Abort ==
  /\ runner = "runtime" /\ parent # "done" /\ ~aborted
  /\ aborted' = TRUE
  /\ UNCHANGED <<runner, payload, script, stdin, stdout, child, parent, outcome, heir>>

Parent == Write \/ BrokenPipe \/ Written \/ Drain \/ Reap \/ Finished \/ Cancel \/ Cancelled
Child == ChildReads \/ ChildWrites \/ ChildExits

Next == Parent \/ Child \/ ChildForks \/ HeirEnds \/ Abort

\* The parent and the child are processes of their own, which the system runs; the child
\* need not leave anything behind, and what it leaves need not end.
Fairness == WF_vars(Parent) /\ WF_vars(Child)

Spec == Init /\ [][Next]_vars /\ Fairness
-----------------------------------------------------------------------------
TypeOK ==
  /\ runner \in {"runtime", "plugins"}
  /\ payload \in 0..MaxPayload
  /\ script \in Script
  /\ stdin \in 0..PipeCapacity /\ stdout \in 0..PipeCapacity
  /\ child \in {"running", "exited", "killed"}
  /\ parent \in {"write", "wait", "reap", "killed", "done"}
  /\ aborted \in BOOLEAN
  /\ outcome \in {"none", "Allow", "Deny", "Failed", "Cancelled"}
  /\ heir \in {"none", "holding", "gone"}

(* A hook fails closed: the tool goes ahead only if the command ran to its *)
(* end, exited with 0 and, in the copy that reads decisions, did not       *)
(* decide to block.                                                        *)
AllowNeedsCleanExit ==
  outcome = "Allow" =>
    child = "exited" /\ script.code = 0 /\ (runner = "runtime" => ~script.deny)

(* The plugins' copy allows the tool after every hook that exits with 0,   *)
(* whether or not it has read its stdin.                                   *)
PluginsCleanExitAllows ==
  runner = "plugins" /\ parent = "done" /\ script.code = 0 => outcome = "Allow"

(* What a hook's end means for the tool, in both copies of the code.       *)
VerdictsRight == AllowNeedsCleanExit /\ PluginsCleanExitAllows

(* A hook command returns, unless its output has filled a pipe nobody      *)
(* reads (the runtime's copy reads it at the end only, the plugins' copy   *)
(* once it has written the payload), or the shell has gone and what it has *)
(* started still holds the pipes.  An abort ends the wait for a shell that *)
(* is stuck, and nothing ends the wait for its heir.                       *)
Returned == parent = "done"
Stuck ==
  /\ child = "running" /\ stdout = PipeCapacity
  /\ runner = "plugins" => parent = "write" /\ stdin = PipeCapacity
HeldOpen == child # "running" /\ heir = "holding"
AbortedWait == aborted /\ parent \in {"wait", "reap", "killed"}
HookEnds == (~Returned ~> Returned \/ Stuck \/ HeldOpen) /\ (AbortedWait ~> Returned \/ HeldOpen)
-----------------------------------------------------------------------------
(* The inductive invariant behind VerdictsRight.  There is no verdict      *)
(* before the parent is done.                                              *)
Undecided == parent # "done" => outcome = "none"

(* The verdict is the child's unless the parent had to do without it, and  *)
(* in the plugins' copy it never has to: nothing aborts it, and a broken   *)
(* pipe only makes it wait.                                                *)
Source ==
  parent = "done" =>
    \/ child = "exited" /\ outcome = OutcomeOf(script.code, script.deny)
    \/ runner # "plugins" /\ outcome \in {"Failed", "Cancelled"}

\* Only the runtime's copy is aborted, and kills; it reaps what has ended by itself.
OnlyRuntimeAborts ==
  /\ aborted \/ parent \in {"reap", "killed"} => runner = "runtime"
  /\ child = "killed" => parent \in {"killed", "done"}
  /\ parent = "reap" => child = "exited"

Inv == TypeOK /\ Undecided /\ Source /\ OnlyRuntimeAborts
===============================================================================
