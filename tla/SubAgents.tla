------------------------------- MODULE SubAgents -------------------------------
(***************************************************************************)
(* The Agent tool of tools/src/lib.rs: every sub-agent is a thread with a  *)
(* conversation of its own, an output file and a manifest in the agent     *)
(* store.  The caller gets the manifest at once and learns of the end only *)
(* from the files.                                                         *)
(*                                                                         *)
(* Each write may fail, a turn may succeed, return an error or panic, and  *)
(* the program may end, which ends every thread where it is.  What a       *)
(* failure says is left out, except whether there is one.                  *)
(***************************************************************************)
EXTENDS Naturals, SequencesExt

CONSTANTS
  Agents,    \* calls of the Agent tool
  MaxFaults  \* bound: writes and spawns that fail

VARIABLES
  step,      \* what the thread, or the caller for it, does next
  turn,      \* how run_turn ended: "none", "ok" (with a text), "commit" (with one that names a
             \* commit), "blank" (without a text), "error", "panic"
  ending,    \* the terminal state that is being persisted: its status, and if it has an error
  output,    \* the output file: the statuses of its sections, "prompt" for the first
  manifest,  \* the manifest file
  answer,    \* what the caller got: "none", "manifest" or "error"
  alive,     \* the program runs
  faults

vars == <<step, turn, ending, output, manifest, answer, alive, faults>>

\* The ends of a turn that succeeded.
Good == {"ok", "commit", "blank"}

NoEnding == [status |-> "none", error |-> FALSE]

\* A manifest is "none" until it is written, and "cut" by the end of the program.
NoManifest == [status |-> "none", events |-> <<>>, blocker |-> FALSE, error |-> FALSE, state |-> "none"]
Cut == [NoManifest EXCEPT !.status = "cut"]
Running ==
  [status |-> "running", events |-> <<"started">>, blocker |-> FALSE, error |-> FALSE, state |-> "working"]

Init ==
  /\ step = [a \in Agents |-> "new"] /\ turn = [a \in Agents |-> "none"]
  /\ ending = [a \in Agents |-> NoEnding]
  /\ output = [a \in Agents |-> <<>>] /\ manifest = [a \in Agents |-> NoManifest]
  /\ answer = [a \in Agents |-> "none"]
  /\ alive = TRUE /\ faults = 0

Go(a, s) == step' = [step EXCEPT ![a] = s]
At(a, s) == alive /\ step[a] = s
Fault == faults < MaxFaults /\ faults' = faults + 1
Persist(a, status, error) ==
  Go(a, "append") /\ ending' = [ending EXCEPT ![a] = [status |-> status, error |-> error]]

-----------------------------------------------------------------------------
(* The caller: execute_agent_with_spawn.                                   *)

\* Both files are written before the thread is spawned; an error of a write ends the call.
Prepare(a) ==
  /\ At(a, "new")
  /\ \/ /\ output' = [output EXCEPT ![a] = <<"prompt">>]
        /\ manifest' = [manifest EXCEPT ![a] = Running]
        /\ Go(a, "spawn") /\ UNCHANGED <<answer, faults>>
     \/ /\ Fault /\ Go(a, "end") /\ answer' = [answer EXCEPT ![a] = "error"]
        /\ \E written \in {<<>>, <<"prompt">>}, left \in {NoManifest, Cut} :
             /\ left = Cut => written # <<>>
             /\ output' = [output EXCEPT ![a] = written]
             /\ manifest' = [manifest EXCEPT ![a] = left]
  /\ UNCHANGED <<turn, ending, alive>>

\* A thread that cannot be spawned is a failure the caller persists and returns.
Spawn(a) ==
  /\ At(a, "spawn")
  /\ \/ Go(a, "run") /\ answer' = [answer EXCEPT ![a] = "manifest"] /\ UNCHANGED <<ending, faults>>
     \/ Fault /\ Persist(a, "failed", TRUE) /\ answer' = [answer EXCEPT ![a] = "error"]
  /\ UNCHANGED <<turn, output, manifest, alive>>

-----------------------------------------------------------------------------
(* The thread: spawn_agent_job and run_agent_job.                          *)

\* The turn is a turn of Conversation with another executor; it may take any time.
Run(a) ==
  /\ At(a, "run")
  /\ \E how \in Good \union {"error", "panic"} :
       /\ turn' = [turn EXCEPT ![a] = how]
       /\ IF how \in Good THEN Persist(a, "completed", FALSE) ELSE Persist(a, "failed", TRUE)
  /\ UNCHANGED <<output, manifest, answer, alive, faults>>

\* Mutant of NotPersisted: what cannot be persisted is dropped.
NotPersistedDropped(a) == Go(a, "end") /\ UNCHANGED ending

\* An end that could not be persisted is an error of run_agent_job, which is
\* persisted in its place; an error of that is dropped, by the caller's thread too.
NotPersisted(a) ==
  IF ending[a].status = "completed" THEN Persist(a, "failed", TRUE)
  ELSE Go(a, "end") /\ UNCHANGED ending

\* append_agent_output.
AppendOutput(a) ==
  /\ At(a, "append")
  /\ \/ /\ output' = [output EXCEPT ![a] = Append(@, ending[a].status)]
        /\ Go(a, "rewrite") /\ UNCHANGED <<ending, faults>>
     \/ Fault /\ NotPersisted(a) /\ UNCHANGED output
  /\ UNCHANGED <<turn, manifest, answer, alive>>

\* derive_agent_state of a terminal status; the causes of a failure are one.
StateOf(a) ==
  IF ending[a].status # "completed" THEN "stopped"
  ELSE IF turn[a] = "blank" THEN "finished_pending_report" ELSE "finished_cleanable"

\* Mutant of EndEvents: the commit has its event also when the end could not be persisted.
EndEventsOfTurn(a) ==
  (IF ending[a].error THEN <<"blocked", "failed">> ELSE <<"finished">>)
    \o (IF turn[a] = "commit" THEN <<"commit.created">> ELSE <<>>)

\* The events of an end.  A result with seven to forty hexadecimal digits in a row is taken
\* to name a commit (extract_commit_sha), which gets an event after that of the end.
EndEvents(a) ==
  IF ending[a].error THEN <<"blocked", "failed">>
  ELSE IF turn[a] = "commit" THEN <<"finished", "commit.created">> ELSE <<"finished">>

\* Mutant of Terminal: the events go on from the file, not from the job's manifest.
TerminalFromFile(a) ==
  LET error == ending[a].error IN
  [status |-> ending[a].status, error |-> error, blocker |-> error, state |-> StateOf(a),
   events |-> (IF output[a] = <<"prompt", ending[a].status>> THEN <<"started">>
               ELSE <<"started", "finished">>)
              \o EndEvents(a)]

\* Mutant of Terminal: the status is the turn's, whatever is persisted.
TerminalOfTurn(a) ==
  LET error == ending[a].error IN
  [status |-> IF turn[a] \in Good THEN "completed" ELSE "failed",
   error |-> error, blocker |-> error, state |-> StateOf(a),
   events |-> <<"started">> \o EndEvents(a)]

\* persist_agent_terminal_state: from the manifest the job was given, not from the file.
Terminal(a) ==
  LET error == ending[a].error IN
  [status |-> ending[a].status, error |-> error, blocker |-> error, state |-> StateOf(a),
   events |-> <<"started">> \o EndEvents(a)]

\* write_agent_manifest, in place: an error may have cut the file off.
Rewrite(a) ==
  /\ At(a, "rewrite")
  /\ \/ /\ manifest' = [manifest EXCEPT ![a] = Terminal(a)]
        /\ Go(a, "end") /\ UNCHANGED <<ending, faults>>
     \/ /\ Fault /\ NotPersisted(a)
        /\ \E m \in {manifest[a], Cut} : manifest' = [manifest EXCEPT ![a] = m]
  /\ UNCHANGED <<turn, output, answer, alive>>

\* The program ends and every thread with it, one in the midst of its write perhaps.
Exit ==
  /\ alive /\ alive' = FALSE
  /\ \/ UNCHANGED manifest
     \/ \E a \in Agents : step[a] = "rewrite" /\ manifest' = [manifest EXCEPT ![a] = Cut]
  /\ UNCHANGED <<step, turn, ending, output, answer, faults>>

Thread(a) == Run(a) \/ AppendOutput(a) \/ Rewrite(a)
Next == (\E a \in Agents : Prepare(a) \/ Spawn(a) \/ Thread(a)) \/ Exit

\* A thread goes on by itself; that its turn ends is what ConversationLive shows.
Fairness == \A a \in Agents : WF_vars(Thread(a))

Spec == Init /\ [][Next]_vars /\ Fairness

-----------------------------------------------------------------------------
(* lane_completion.rs: a lane may be closed when its agent is done.        *)

\* Mutant of detect_lane_completion: what has an error but no blocker left may be closed.
detect_by_event(m, test_green, has_pushed) ==
  m.status \notin {"none", "cut"} /\ ~m.blocker /\ test_green /\ has_pushed

detect_lane_completion(m, test_green, has_pushed) ==
  ~m.error /\ m.status = "completed" /\ ~m.blocker /\ test_green /\ has_pushed

-----------------------------------------------------------------------------
TypeOK ==
  /\ step \in [Agents -> {"new", "spawn", "run", "append", "rewrite", "end"}]
  /\ turn \in [Agents -> Good \union {"none", "error", "panic"}]
  /\ answer \in [Agents -> {"none", "manifest", "error"}]
  /\ \A a \in Agents : manifest[a].status \in {"none", "cut", "running", "completed", "failed"}

(* A manifest that can be read tells one story: it ran, and ended once,    *)
(* with an error, a blocker and their events, or without any of them; a    *)
(* commit has its event exactly if the result of a completed agent, and    *)
(* not that of one which failed in the end, names it.                      *)
OneStory(a) ==
  LET m == manifest[a] IN
  /\ m.error = m.blocker
  /\ m.status = "completed" =>
       /\ m.events = IF turn[a] = "commit" THEN <<"started", "finished", "commit.created">>
                     ELSE <<"started", "finished">>
       /\ ~m.error
  /\ m.status = "failed" => m.events = <<"started", "blocked", "failed">> /\ m.error

(* "completed" is never the word for a turn that failed, nor for a result  *)
(* that is not in the output file; the last section and the manifest agree.*)
CompletedIsTrue(a) ==
  /\ manifest[a].status = "completed" => turn[a] \in Good /\ "completed" \in ToSet(output[a])
  /\ manifest[a].status \in {"completed", "failed"} => manifest[a].status = Last(output[a])

(* A caller that got a manifest finds it: it says running until the end.   *)
AnswerIsFound(a) ==
  answer[a] = "manifest" /\ faults = 0 /\ alive =>
    manifest[a].status = IF step[a] = "end" THEN ending[a].status ELSE "running"

(* Only the lane of an agent whose turn succeeded is closed, at any time.  *)
ClosedIsDone(a) ==
  (\E green, pushed \in BOOLEAN : detect_lane_completion(manifest[a], green, pushed))
    => turn[a] \in Good /\ step[a] = "end"

AgentsSound == \A a \in Agents : OneStory(a) /\ CompletedIsTrue(a) /\ AnswerIsFound(a) /\ ClosedIsDone(a)

-----------------------------------------------------------------------------
(* What all these follow from, step by step.                               *)

Ending == [status : {"none", "completed", "failed"}, error : BOOLEAN]
Sections == Seq({"prompt", "completed", "failed"})

\* A terminal state is an error or the end of a turn that succeeded, and is
\* there while it is persisted.
EndingIsRight(a) ==
  /\ ending[a].error <=> ending[a].status = "failed"
  /\ ending[a].status = "completed" => turn[a] \in Good
  /\ step[a] \in {"append", "rewrite"} => ending[a].status # "none"

\* The output file ends with the section of the terminal state before the manifest has it.
Appended(a) == output[a] # <<>> /\ Last(output[a]) = ending[a].status

\* What a manifest may say before the agent has ended, and in the end.
Rewritten(a) == manifest[a] = Terminal(a) /\ ending[a].status # "none"
ManifestIsRight(a) ==
  /\ step[a] = "rewrite" => Appended(a)
  /\ manifest[a] \in {NoManifest, Cut, Running} \/ (step[a] = "end" /\ Rewritten(a) /\ Appended(a))

\* Without a fault the manifest says "running" from the answer to the end.
NothingLost(a) ==
  /\ step[a] \in {"new", "spawn"} => answer[a] = "none"
  /\ faults = 0 /\ alive /\ step[a] \in {"spawn", "run", "append", "rewrite"} => manifest[a] = Running
  /\ faults = 0 /\ alive /\ step[a] = "end" => Rewritten(a)

Inv ==
  /\ TypeOK
  /\ ending \in [Agents -> Ending] /\ output \in [Agents -> Sections]
  /\ manifest = [a \in Agents |-> manifest[a]]
  /\ alive \in BOOLEAN /\ faults \in Nat
  /\ \A a \in Agents : EndingIsRight(a) /\ ManifestIsRight(a) /\ NothingLost(a)
-----------------------------------------------------------------------------

(* An agent whose caller got a manifest leaves "running", unless the       *)
(* program ends or its writes fail; after a turn that succeeded one        *)
(* failure is made up for.                                                 *)
EndIsKnown(a) ==
  \/ manifest[a].status \in {"completed", "failed"}
  \/ ~alive \/ faults > 1 \/ (faults = 1 /\ turn[a] \in {"error", "panic"})
EndsAreKnown == \A a \in Agents : step[a] = "run" ~> EndIsKnown(a)
===============================================================================
