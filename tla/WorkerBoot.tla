------------------------------ MODULE WorkerBoot ------------------------------
(***************************************************************************)
(* The worker-boot control plane: the registry of coding workers that      *)
(* terminal snapshots and the control plane drive, and the file            *)
(* .claw/worker-state.json through which other processes watch it.         *)
(*                                                                         *)
(* Every operation holds the registry's mutex from its first statement to  *)
(* its return, the rewrites of the state file included.  Memory is private *)
(* to the holder, so an operation changes `workers` in one step; the file  *)
(* is not private, so its rewrites are steps of their own (EmitStateFile)  *)
(* and no other operation starts before the last of them.                  *)
(*                                                                         *)
(* A terminal snapshot is abstracted to what the detectors read off it:    *)
(* its trust, running and ready cues, the prompts visible on it and        *)
(* whether it shows a shell error or a foreign working directory.          *)
(***************************************************************************)
EXTENDS Naturals, Sequences, FiniteSets

CONSTANTS
  WorkerIds,      \* ids the registry can hand out
  Cwds,           \* working directories, each with its own state file
  Prompts,        \* non-blank prompts
  NoPrompt,       \* the absent or blank prompt
  NoWorker,       \* an id not handed out yet
  NoFile,         \* a file not written yet
  Torn,           \* a file whose writing was cut off, maybe before its first byte
  MaxFailures,    \* bound on the snapshots not written as they should be
  MaxEvents,      \* bound on the events of all workers
  MaxClock        \* bound on the clock

ASSUME NoPromptAssumption == NoPrompt \notin Prompts
ASSUME BoundsAssumption == MaxFailures \in Nat /\ MaxEvents \in Nat /\ MaxClock \in Nat

VARIABLES
  workers,    \* WorkerRegistryInner::workers
  stateFile,  \* what a poller of each directory's worker-state.json reads
  tempFile,   \* each directory's worker-state.json.tmp
  shown,      \* history: the last event of each worker that its state file has shown
  failures,   \* snapshots the file system refused or cut off so far
  writes,     \* snapshots the mutex holder has still to write; <<>> = mutex free
  clock       \* now_secs()

files == <<stateFile, tempFile, shown, failures>>
vars == <<workers, files, writes, clock>>

-----------------------------------------------------------------------------
WorkerStatus ==
  {"Spawning", "TrustRequired", "ReadyForPrompt", "Running", "Finished", "Failed"}

WorkerEventKind ==
  {"Spawning", "TrustRequired", "TrustResolved", "ReadyForPrompt",
   "PromptMisdelivery", "PromptReplayArmed", "Running", "Restarted",
   "Finished", "Failed"}

\* The kinds of last_error the registry produces, and its absence.
WorkerFailureKind == {"None", "TrustGate", "PromptDelivery", "Provider"}

Event == [kind : WorkerEventKind, status : WorkerStatus]

Worker ==
  [cwd : Cwds,
   status : WorkerStatus,
   trust_auto_resolve : BOOLEAN,
   trust_gate_cleared : BOOLEAN,
   auto_recover_prompt_misdelivery : BOOLEAN,
   prompt_delivery_attempts : Nat,
   prompt_in_flight : BOOLEAN,
   last_prompt : Prompts \cup {NoPrompt},
   replay_prompt : Prompts \cup {NoPrompt},
   last_error : WorkerFailureKind,
   events : Seq(Event)]

\* An id not handed out yet has no worker.
ASSUME NoWorkerAssumption == NoWorker \notin Worker

\* StateSnapshot; last_event is the event with number seq.
Snapshot ==
  [worker_id : WorkerIds,
   cwd : Cwds,
   status : WorkerStatus,
   is_ready : BOOLEAN,
   trust_gate_cleared : BOOLEAN,
   prompt_in_flight : BOOLEAN,
   seq : Nat,
   last_event : Event]

Stamped ==
  [snapshot : Snapshot, updated_at : Nat, seconds_since_update : Nat]

\* What is torn does not parse, and is not the absence of a file.
ASSUME TornAssumption == Torn \notin Stamped \cup {NoFile}

\* A terminal snapshot, as the detectors see it.
Screen ==
  [cues : SUBSET {"trust", "running", "ready"},
   prompts : SUBSET Prompts,
   misplaced : BOOLEAN]

-----------------------------------------------------------------------------
push_event(w, k, s) ==
  [w EXCEPT !.status = s, !.events = Append(@, [kind |-> k, status |-> s])]

SnapshotOf(id, w) ==
  [worker_id          |-> id,
   cwd                |-> w.cwd,
   status             |-> w.status,
   is_ready           |-> w.status = "ReadyForPrompt",
   trust_gate_cleared |-> w.trust_gate_cleared,
   prompt_in_flight   |-> w.prompt_in_flight,
   seq                |-> Len(w.events),
   last_event         |-> w.events[Len(w.events)]]

Known(id) == workers[id] # NoWorker

\* The events of all workers.
Happened == {e \in WorkerIds \X (1..MaxEvents) : Known(e[1]) /\ e[2] <= Len(workers[e[1]].events)}

\* Mutant of Commit: the mutex is let go before the file is written, and the
\* later write goes first.
CommitUnlocked(id, pushed, w) ==
  /\ Cardinality(Happened) + Len(pushed) <= MaxEvents
  /\ Len(writes) <= 1
  /\ workers' = [workers EXCEPT ![id] = w]
  /\ writes' = [i \in 1..Len(pushed) |-> SnapshotOf(id, pushed[i])] \o writes
  /\ UNCHANGED <<files, clock>>

\* Mutant of Commit: the file is written before the event is recorded.
CommitFileFirst(id, pushed, w) ==
  /\ writes = <<>>
  /\ Cardinality(Happened) + Len(pushed) <= MaxEvents
  /\ workers' = [workers EXCEPT ![id] = w]
  /\ writes' = [i \in 1..Len(pushed) |-> [SnapshotOf(id, pushed[i]) EXCEPT !.seq = @ - 1]]
  /\ UNCHANGED <<files, clock>>

(* An operation on worker id, under the mutex: `pushed` are the worker's   *)
(* values right after each push_event, `w` its value on return.            *)
Commit(id, pushed, w) ==
  /\ writes = <<>>
  /\ Cardinality(Happened) + Len(pushed) <= MaxEvents
  /\ workers' = [workers EXCEPT ![id] = w]
  /\ writes' = [i \in 1..Len(pushed) |-> SnapshotOf(id, pushed[i])]
  /\ UNCHANGED <<files, clock>>

-----------------------------------------------------------------------------
Fresh(c, allowlisted, auto) ==
  [cwd |-> c, status |-> "Spawning",
   trust_auto_resolve |-> allowlisted, trust_gate_cleared |-> FALSE,
   auto_recover_prompt_misdelivery |-> auto,
   prompt_delivery_attempts |-> 0, prompt_in_flight |-> FALSE,
   last_prompt |-> NoPrompt, replay_prompt |-> NoPrompt,
   last_error |-> "None", events |-> <<>>]

Created(c, allowlisted, auto) ==
  push_event(Fresh(c, allowlisted, auto), "Spawning", "Spawning")

Create(id, c, allowlisted, auto) ==
  /\ ~Known(id)
  /\ LET w == Created(c, allowlisted, auto) IN Commit(id, <<w>>, w)

-----------------------------------------------------------------------------
(* observe: the trust gate comes first ...                                 *)
TrustBlocked(w, screen) == ~w.trust_gate_cleared /\ "trust" \in screen.cues

Gated(w) ==
  push_event([w EXCEPT !.last_error = "TrustGate"], "TrustRequired", "TrustRequired")

\* Mutant of Cleared: last_error keeps blaming the gate.
ClearedKeepsError(w) ==
  push_event([w EXCEPT !.trust_gate_cleared = TRUE], "TrustResolved", "Spawning")

Cleared(w) ==
  push_event([w EXCEPT !.trust_gate_cleared = TRUE, !.last_error = "None"],
             "TrustResolved", "Spawning")

AtGate(w, screen) == TrustBlocked(w, screen) /\ ~w.trust_auto_resolve

\* The worker past the gate, and the values it was pushed with on the way.
PastGate(w, screen) == IF TrustBlocked(w, screen) THEN Cleared(Gated(w)) ELSE w

\* Mutant of GatePushes: the automatic resolution is not written out.
GatePushesUnresolved(w, screen) ==
  IF TrustBlocked(w, screen) THEN <<Gated(w)>> ELSE <<>>

GatePushes(w, screen) ==
  IF TrustBlocked(w, screen) THEN <<Gated(w), Cleared(Gated(w))>> ELSE <<>>

(* ... then a prompt that went to a shell or to another directory ...      *)
Misdelivered(w, screen) ==
  /\ w.prompt_in_flight
  /\ w.last_prompt # NoPrompt
  /\ w.last_prompt \in screen.prompts
  /\ screen.misplaced

Lost(w) ==
  push_event([w EXCEPT !.last_error = "PromptDelivery", !.prompt_in_flight = FALSE],
             "PromptMisdelivery", "Failed")

ReplayArmed(w) ==
  push_event([w EXCEPT !.replay_prompt = w.last_prompt],
             "PromptReplayArmed", "ReadyForPrompt")

(* ... then the running cue, which records no event, and the ready cue.    *)
Acknowledged(w, screen) ==
  IF "running" \in screen.cues /\ w.prompt_in_flight
  THEN [w EXCEPT !.prompt_in_flight = FALSE, !.status = "Running", !.last_error = "None"]
  ELSE w

BecomesReady(w, screen) == "ready" \in screen.cues /\ w.status # "ReadyForPrompt"

\* Mutant of Ready: the prompt in flight is not given up.
ReadyStillInFlight(w) ==
  push_event([w EXCEPT !.last_error = IF @ = "TrustGate" THEN "None" ELSE @],
             "ReadyForPrompt", "ReadyForPrompt")

Ready(w) ==
  push_event([w EXCEPT !.prompt_in_flight = FALSE,
                       !.last_error = IF @ = "TrustGate" THEN "None" ELSE @],
             "ReadyForPrompt", "ReadyForPrompt")

ObserveGate(id, screen) ==
  /\ Known(id)
  /\ AtGate(workers[id], screen)
  /\ Commit(id, <<Gated(workers[id])>>, Gated(workers[id]))

ObserveMisdelivery(id, screen) ==
  /\ Known(id)
  /\ ~AtGate(workers[id], screen)
  /\ LET past == PastGate(workers[id], screen)
         lost == Lost(past)
         pushed == Append(GatePushes(workers[id], screen), lost)
     IN /\ Misdelivered(past, screen)
        /\ \/ /\ past.auto_recover_prompt_misdelivery
              /\ Commit(id, Append(pushed, ReplayArmed(lost)), ReplayArmed(lost))
           \/ /\ ~past.auto_recover_prompt_misdelivery
              /\ Commit(id, pushed, lost)

ObserveCues(id, screen) ==
  /\ Known(id)
  /\ ~AtGate(workers[id], screen)
  /\ LET past == PastGate(workers[id], screen)
         acked == Acknowledged(past, screen)
         pushed == GatePushes(workers[id], screen)
     IN /\ ~Misdelivered(past, screen)
        /\ \/ /\ BecomesReady(acked, screen)
              /\ Commit(id, Append(pushed, Ready(acked)), Ready(acked))
           \/ /\ ~BecomesReady(acked, screen)
              /\ Commit(id, pushed, acked)

-----------------------------------------------------------------------------
ResolveTrust(id) ==
  /\ Known(id)
  /\ workers[id].status = "TrustRequired"
  /\ Commit(id, <<Cleared(workers[id])>>, Cleared(workers[id]))

\* The prompt given, or the armed replay when none is given.
NextPrompt(w, p) == IF p # NoPrompt THEN p ELSE w.replay_prompt

\* Mutant of Dispatched: the replay stays armed once it was sent.
DispatchedKeepsReplay(w, p) ==
  push_event([w EXCEPT !.prompt_delivery_attempts = @ + 1,
                       !.prompt_in_flight = TRUE,
                       !.last_prompt = NextPrompt(w, p),
                       !.last_error = "None"],
             "Running", "Running")

Dispatched(w, p) ==
  push_event([w EXCEPT !.prompt_delivery_attempts = @ + 1,
                       !.prompt_in_flight = TRUE,
                       !.last_prompt = NextPrompt(w, p),
                       !.replay_prompt = NoPrompt,
                       !.last_error = "None"],
             "Running", "Running")

\* Mutant of SendPrompt: the status is not looked at.
SendPromptAnyStatus(id, p) ==
  /\ Known(id)
  /\ NextPrompt(workers[id], p) # NoPrompt
  /\ Commit(id, <<Dispatched(workers[id], p)>>, Dispatched(workers[id], p))

SendPrompt(id, p) ==
  /\ Known(id)
  /\ workers[id].status = "ReadyForPrompt"
  /\ NextPrompt(workers[id], p) # NoPrompt
  /\ Commit(id, <<Dispatched(workers[id], p)>>, Dispatched(workers[id], p))

\* Mutant of Rebooted: the attempts of the earlier boot are kept.
RebootedKeepsAttempts(w) ==
  push_event([w EXCEPT !.trust_gate_cleared = FALSE,
                       !.last_prompt = NoPrompt, !.replay_prompt = NoPrompt,
                       !.last_error = "None", !.prompt_in_flight = FALSE],
             "Restarted", "Spawning")

\* Mutant of Rebooted: the gate stays cleared.
RebootedKeepsTrust(w) ==
  push_event([w EXCEPT !.last_prompt = NoPrompt, !.replay_prompt = NoPrompt,
                       !.last_error = "None",
                       !.prompt_delivery_attempts = 0,
                       !.prompt_in_flight = FALSE],
             "Restarted", "Spawning")

Rebooted(w) ==
  push_event([w EXCEPT !.trust_gate_cleared = FALSE,
                       !.last_prompt = NoPrompt, !.replay_prompt = NoPrompt,
                       !.last_error = "None",
                       !.prompt_delivery_attempts = 0,
                       !.prompt_in_flight = FALSE],
             "Restarted", "Spawning")

Restart(id) ==
  /\ Known(id)
  /\ Commit(id, <<Rebooted(workers[id])>>, Rebooted(workers[id]))

Terminated(w) ==
  push_event([w EXCEPT !.prompt_in_flight = FALSE], "Finished", "Finished")

Terminate(id) ==
  /\ Known(id)
  /\ Commit(id, <<Terminated(workers[id])>>, Terminated(workers[id]))

\* Mutant of Completed: the failure is classified as a protocol failure.
CompletedProtocol(w, degraded) ==
  push_event([w EXCEPT !.last_error = IF degraded THEN "Protocol" ELSE "None",
                       !.prompt_in_flight = FALSE],
             IF degraded THEN "Failed" ELSE "Finished",
             IF degraded THEN "Failed" ELSE "Finished")

\* observe_completion; degraded: finish "error", or "unknown" with no output.
Completed(w, degraded) ==
  IF degraded
  THEN push_event([w EXCEPT !.last_error = "Provider", !.prompt_in_flight = FALSE],
                  "Failed", "Failed")
  ELSE push_event([w EXCEPT !.last_error = "None", !.prompt_in_flight = FALSE],
                  "Finished", "Finished")

ObserveCompletion(id, degraded) ==
  /\ Known(id)
  /\ Commit(id, <<Completed(workers[id], degraded)>>, Completed(workers[id], degraded))

-----------------------------------------------------------------------------
\* fs::rename, of whatever the temporary file holds.
Renamed(c, content) ==
  /\ content # NoFile
  /\ stateFile' = [stateFile EXCEPT ![c] = content]
  /\ tempFile' = [tempFile EXCEPT ![c] = NoFile]
  /\ shown' = IF content = Torn THEN shown
              ELSE [shown EXCEPT ![c][content.snapshot.worker_id] = content.snapshot.seq]

NotRenamed(c, content) ==
  /\ tempFile' = [tempFile EXCEPT ![c] = content]
  /\ UNCHANGED <<stateFile, shown>>

(* emit_state_file: temporary file, then rename.  The errors of both are   *)
(* dropped, and the rename goes ahead after a write that failed: the       *)
(* temporary file is then cut off or, if it could not be opened, what it   *)
(* was.  (A directory that cannot be made is like a file that cannot be    *)
(* opened nor renamed.)  updated_at and the age are both taken from the    *)
(* clock at the time of writing.                                           *)
EmitStateFile ==
  /\ writes # <<>>
  /\ LET s == Head(writes)
         whole == [snapshot |-> s, updated_at |-> clock, seconds_since_update |-> 0]
     IN \/ Renamed(s.cwd, whole) /\ UNCHANGED failures
        \/ /\ failures < MaxFailures /\ failures' = failures + 1
           /\ \E content \in {whole, Torn, tempFile[s.cwd]} :
                Renamed(s.cwd, content) \/ NotRenamed(s.cwd, content)
  /\ writes' = Tail(writes)
  /\ UNCHANGED <<workers, clock>>

Tick ==
  /\ clock < MaxClock
  /\ clock' = clock + 1
  /\ UNCHANGED <<workers, files, writes>>

-----------------------------------------------------------------------------
Init ==
  /\ workers = [id \in WorkerIds |-> NoWorker]
  /\ stateFile = [c \in Cwds |-> NoFile] /\ tempFile = stateFile
  /\ shown = [c \in Cwds |-> [id \in WorkerIds |-> 0]] /\ failures = 0
  /\ writes = <<>>
  /\ clock = 0

Operation(id) ==
  \/ \E c \in Cwds, allowlisted, auto \in BOOLEAN : Create(id, c, allowlisted, auto)
  \/ \E screen \in Screen :
       \/ ObserveGate(id, screen)
       \/ ObserveMisdelivery(id, screen)
       \/ ObserveCues(id, screen)
  \/ ResolveTrust(id)
  \/ \E p \in Prompts \cup {NoPrompt} : SendPrompt(id, p)
  \/ Restart(id)
  \/ Terminate(id)
  \/ \E degraded \in BOOLEAN : ObserveCompletion(id, degraded)

Next == (\E id \in WorkerIds : Operation(id)) \/ EmitStateFile \/ Tick

Spec == Init /\ [][Next]_vars

-----------------------------------------------------------------------------
(* Type invariant.                                                         *)
TypeOK ==
  /\ workers \in [WorkerIds -> Worker \cup {NoWorker}]
  /\ stateFile \in [Cwds -> Stamped \cup {NoFile, Torn}]
  /\ tempFile \in [Cwds -> Stamped \cup {NoFile, Torn}]
  /\ shown \in [Cwds -> [WorkerIds -> Nat]] /\ failures \in Nat
  /\ writes \in Seq(Snapshot)
  /\ clock \in Nat

Kind(w, i) == w.events[i].kind

\* The events recorded since the worker was created or last restarted.
SinceBoot(w) ==
  {i \in 1..Len(w.events) : \A j \in i..Len(w.events) : Kind(w, j) # "Restarted"}

ReadyKinds == {"ReadyForPrompt", "PromptReplayArmed"}

(* ROADMAP.md "prompts are never sent before ready_for_prompt": in the     *)
(* event log of every worker each dispatch directly follows its own        *)
(* readiness, so no readiness is spent on two prompts and none of the      *)
(* status changes that observe makes without an event opens a second way.  *)
WorkerHandshake(w) ==
  \A i \in 1..Len(w.events) :
    Kind(w, i) = "Running" => i > 1 /\ Kind(w, i - 1) \in ReadyKinds

HandshakePerDispatch ==
  \A id \in WorkerIds : Known(id) => WorkerHandshake(workers[id])

(* prompt_delivery_attempts, which restart clears, is the number of        *)
(* dispatches on record since the worker booted.                           *)
AttemptsCountDispatches ==
  \A id \in WorkerIds : Known(id) =>
    workers[id].prompt_delivery_attempts =
      Cardinality({i \in SinceBoot(workers[id]) : Kind(workers[id], i) = "Running"})

(* An armed replay is the prompt that was lost: it is the last prompt      *)
(* sent, nothing is in flight, recovery was asked for, and the arming is   *)
(* on record after the last dispatch of this boot.                         *)
WorkerReplay(w) ==
  w.replay_prompt # NoPrompt =>
    /\ w.replay_prompt = w.last_prompt
    /\ w.auto_recover_prompt_misdelivery
    /\ ~w.prompt_in_flight
    /\ \E i \in SinceBoot(w) :
         /\ Kind(w, i) = "PromptReplayArmed"
         /\ \A j \in i..Len(w.events) : Kind(w, j) # "Running"

ReplayIsTheLostPrompt ==
  \A id \in WorkerIds : Known(id) => WorkerReplay(workers[id])

(* last_error and status tell the same story across all handlers: a failed *)
(* worker names a delivery or provider failure, a running or booting one   *)
(* names none, the trust gate is blamed exactly while it blocks (or after  *)
(* terminate, which leaves last_error alone).                              *)
WorkerError(w) ==
  /\ w.status = "Failed" => w.last_error \in {"PromptDelivery", "Provider"}
  /\ w.status \in {"Running", "Spawning"} => w.last_error = "None"
  /\ w.status = "TrustRequired" => w.last_error = "TrustGate"
  /\ w.last_error = "TrustGate" => w.status \in {"TrustRequired", "Finished"}

ErrorExplainsStatus ==
  \A id \in WorkerIds : Known(id) => WorkerError(workers[id])

(* A worker that can take a prompt has none in flight and no replay is     *)
(* armed for a prompt in flight, whatever cues shared the screens that led *)
(* there (a trust prompt may interrupt a prompt in flight).                *)
WorkerFlight(w) ==
  w.prompt_in_flight =>
    /\ w.status \in {"Running", "TrustRequired", "Spawning"}
    /\ w.last_prompt # NoPrompt
    /\ w.replay_prompt = NoPrompt

NoSecondPromptInFlight ==
  \A id \in WorkerIds : Known(id) => WorkerFlight(workers[id])

(* The gate counts as cleared only by a resolution on record after the     *)
(* last restart: an earlier boot's approval is never carried over.         *)
WorkerGate(w) ==
  w.trust_gate_cleared => \E i \in SinceBoot(w) : Kind(w, i) = "TrustResolved"

ClearedGateWasResolved ==
  \A id \in WorkerIds : Known(id) => WorkerGate(workers[id])

\* There is a file and its writing was not cut off.
Whole(file) == file \notin {NoFile, Torn}

(* Whatever calls fail, what a poller can parse is a moment of one worker  *)
(* of that directory: its event is the one the registry recorded under     *)
(* that number, its status is that event's, and it never offers a worker   *)
(* with a prompt in flight for another one.                                *)
FileIsAPastMoment ==
  \A c \in Cwds : Whole(stateFile[c]) =>
    LET s == stateFile[c].snapshot
        w == workers[s.worker_id]
    IN /\ w # NoWorker /\ w.cwd = c
       /\ s.seq \in 1..Len(w.events)
       /\ s.last_event = w.events[s.seq]
       /\ s.status = s.last_event.status
       /\ s.is_ready => ~s.prompt_in_flight

(* Once the mutex is free, and when no call failed, the file is whole and  *)
(* shows the newest event of the worker it names.                          *)
FileShowsNewestEvent ==
  writes = <<>> /\ failures = 0 =>
    \A c \in Cwds : stateFile[c] # NoFile =>
      LET s == stateFile[c].snapshot
      IN stateFile[c] # Torn /\ s.seq = Len(workers[s.worker_id].events)

(* A poller never goes back to an older event of a worker, nor to the same *)
(* one: whatever the file held since, of other workers or torn, and        *)
(* whatever was left behind by calls that failed, what it shows next of a  *)
(* worker is newer than all that it ever showed of it.                     *)
FileNeverGoesBack ==
  [][\A c \in Cwds :
       Whole(stateFile'[c]) /\ stateFile'[c] # stateFile[c] =>
         stateFile'[c].snapshot.seq > shown[c][stateFile'[c].snapshot.worker_id]]_vars

(* What the handlers keep beside the status agrees with the event log,     *)
(* whatever order they were called in: attempts, an armed replay, a prompt *)
(* in flight, an approval of the gate, and the file.                       *)
Bookkeeping ==
  /\ AttemptsCountDispatches
  /\ ReplayIsTheLostPrompt
  /\ NoSecondPromptInFlight
  /\ ClearedGateWasResolved
  /\ FileShowsNewestEvent
===============================================================================
