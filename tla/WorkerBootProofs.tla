--------------------------- MODULE WorkerBootProofs ---------------------------
(***************************************************************************)
(* Theorems about WorkerBoot for every set of workers, directories and     *)
(* prompts and every bound.                                                *)
(*                                                                         *)
(* Each operation of the registry is a composition of functions on one     *)
(* worker.  The lemmas show that each function keeps a worker sound        *)
(* (SoundWorker below); the step of the registry then follows once and for *)
(* all from Commit, which every operation ends with.                       *)
(***************************************************************************)
EXTENDS WorkerBoot, TLAPS, SequenceTheorems, FiniteSetTheorems

-----------------------------------------------------------------------------
(* What the event log shows of the boot under way: its dispatches, a       *)
(* replay armed after the last of them, a resolution of the trust gate.    *)
Dispatches(w) == {i \in SinceBoot(w) : Kind(w, i) = "Running"}

ArmedOnRecord(w) ==
  \E i \in SinceBoot(w) :
    /\ Kind(w, i) = "PromptReplayArmed"
    /\ \A j \in i..Len(w.events) : Kind(w, j) # "Running"

ResolvedOnRecord(w) == \E i \in SinceBoot(w) : Kind(w, i) = "TrustResolved"

(* What the handlers keep beside the status agrees with that log.          *)
Books(w) ==
  /\ w.prompt_delivery_attempts = Cardinality(Dispatches(w))
  /\ w.replay_prompt # NoPrompt =>
       /\ w.replay_prompt = w.last_prompt
       /\ w.auto_recover_prompt_misdelivery
       /\ ~w.prompt_in_flight
       /\ ArmedOnRecord(w)
  /\ w.trust_gate_cleared => ResolvedOnRecord(w)

(* A ready worker's newest event is a readiness, which is what makes the   *)
(* handshake survive the next dispatch.                                    *)
LastIsReadiness(w) ==
  w.status = "ReadyForPrompt" => Kind(w, Len(w.events)) \in ReadyKinds

(* The strengthening of the properties that is inductive for one worker.   *)
SoundWorker(w) ==
  /\ w \in Worker
  /\ w.events # <<>>
  /\ LastIsReadiness(w)
  /\ WorkerHandshake(w)
  /\ WorkerError(w)
  /\ WorkerFlight(w)
  /\ Books(w)

Sound == \A id \in WorkerIds : Known(id) => SoundWorker(workers[id])

(* The worker w is the worker old with one more event, just recorded.      *)
Recorded(old, w) ==
  /\ SoundWorker(w)
  /\ w.cwd = old.cwd
  /\ Len(w.events) = Len(old.events) + 1
  /\ \A i \in 1..Len(old.events) : w.events[i] = old.events[i]
  /\ w.status = w.events[Len(w.events)].status

(* The worker w is the worker old with the events of `pushed`, which holds *)
(* the worker as it was right after each of them.                          *)
Chain(old, pushed, w) ==
  /\ SoundWorker(w)
  /\ w.cwd = old.cwd
  /\ Len(w.events) = Len(old.events) + Len(pushed)
  /\ \A i \in 1..Len(old.events) : w.events[i] = old.events[i]
  /\ pushed \in Seq(Worker)
  /\ \A k \in 1..Len(pushed) :
       /\ SoundWorker(pushed[k])
       /\ pushed[k].cwd = old.cwd
       /\ pushed[k].status = pushed[k].events[Len(pushed[k].events)].status
       /\ Len(pushed[k].events) = Len(old.events) + k
       /\ \A i \in 1..Len(pushed[k].events) : w.events[i] = pushed[k].events[i]

-----------------------------------------------------------------------------
(* The snapshot s is a moment of the worker that it names among ws ...     *)
MomentOf(ws, s) ==
  LET w == ws[s.worker_id]
  IN /\ w # NoWorker /\ w.cwd = s.cwd
     /\ s.seq \in 1..Len(w.events)
     /\ s.last_event = w.events[s.seq]
     /\ s.status = s.last_event.status
     /\ s.is_ready => ~s.prompt_in_flight

(* ... and shows the newest event of it.                                   *)
Newest(ws, s) == s.seq = Len(ws[s.worker_id].events)

(* The events a worker has on record.                                      *)
Logged(ws, id) == IF ws[id] = NoWorker THEN 0 ELSE Len(ws[id].events)

(* What can be read of every file, of its directory's worker, and every    *)
(* snapshot still to write is a past moment; the snapshots are of one      *)
(* worker, oldest first, each newer than what any file, temporary or not,  *)
(* has shown of that worker.  What a temporary file holds was never shown. *)
Past(c, file) == Whole(file) => file.snapshot.cwd = c /\ MomentOf(workers, file.snapshot)

FilesArePast == \A c \in Cwds : Past(c, stateFile[c]) /\ Past(c, tempFile[c])

ShownIsPast == \A c \in Cwds, id \in WorkerIds : shown[c][id] <= Logged(workers, id)

WritesArePast == \A i \in 1..Len(writes) : MomentOf(workers, writes[i])

WritesInOrder ==
  \A i, j \in 1..Len(writes) :
    /\ writes[i].worker_id = writes[j].worker_id
    /\ i < j => writes[i].seq < writes[j].seq

Older(file, s) == Whole(file) /\ file.snapshot.worker_id = s.worker_id => file.snapshot.seq < s.seq

WritesAreNewer ==
  \A c \in Cwds, i \in 1..Len(writes) :
    shown[c][writes[i].worker_id] < writes[i].seq /\ Older(tempFile[c], writes[i])

TempsAreNewer ==
  \A c \in Cwds : Whole(tempFile[c]) => shown[c][tempFile[c].snapshot.worker_id] < tempFile[c].snapshot.seq

(* When no call failed, a file that does not show its worker's newest      *)
(* event will be written over: a snapshot of that event is to be written.  *)
FilesCatchUp ==
  failures = 0 =>
    /\ writes # <<>> => Newest(workers, writes[Len(writes)])
    /\ \A c \in Cwds : stateFile[c] # NoFile =>
         /\ stateFile[c] # Torn
         /\ \/ Newest(workers, stateFile[c].snapshot)
            \/ /\ writes # <<>>
               /\ writes[1].worker_id = stateFile[c].snapshot.worker_id

Files ==
  /\ FilesArePast /\ ShownIsPast /\ WritesArePast /\ WritesInOrder
  /\ WritesAreNewer /\ TempsAreNewer /\ FilesCatchUp

IInv == TypeOK /\ Sound /\ Files

-----------------------------------------------------------------------------
(* Recording an event: the log grows by that event and nothing else of the *)
(* worker changes but its status.                                          *)
LEMMA PushType ==
  ASSUME NEW w \in Worker, NEW k \in WorkerEventKind, NEW s \in WorkerStatus
  PROVE  /\ push_event(w, k, s) \in Worker
         /\ push_event(w, k, s).events # <<>>
         /\ Len(push_event(w, k, s).events) = Len(w.events) + 1
         /\ push_event(w, k, s).status = s
<1> DEFINE e == [kind |-> k, status |-> s]
<1>1. e \in Event
  BY DEF Event
<1>2. w.events \in Seq(Event)
  BY DEF Worker
<1>3. /\ Append(w.events, e) \in Seq(Event)
      /\ Append(w.events, e) # <<>>
      /\ Len(Append(w.events, e)) = Len(w.events) + 1
  BY <1>1, <1>2
<1> QED
  BY <1>3 DEF push_event, Worker

(* The new log keeps the old events and ends with the new one.             *)
LEMMA PushEvents ==
  ASSUME NEW w \in Worker, NEW k \in WorkerEventKind, NEW s \in WorkerStatus
  PROVE  /\ push_event(w, k, s).events[Len(w.events) + 1] = [kind |-> k, status |-> s]
         /\ \A i \in 1..Len(w.events) : push_event(w, k, s).events[i] = w.events[i]
<1> DEFINE e == [kind |-> k, status |-> s]
<1>1. w.events \in Seq(Event)
  BY DEF Worker
<1>2. e \in Event
  BY DEF Event
<1>3. push_event(w, k, s).events = Append(w.events, e)
  BY DEF push_event, Worker
<1>4. /\ Append(w.events, e)[Len(w.events) + 1] = e
      /\ \A i \in 1..Len(w.events) : Append(w.events, e)[i] = w.events[i]
  BY <1>1, <1>2
<1> QED
  BY <1>3, <1>4

LEMMA PushKinds ==
  ASSUME NEW w \in Worker, NEW k \in WorkerEventKind, NEW s \in WorkerStatus
  PROVE  /\ Kind(push_event(w, k, s), Len(w.events) + 1) = k
         /\ \A i \in 1..Len(w.events) : Kind(push_event(w, k, s), i) = Kind(w, i)
<1> DEFINE v == push_event(w, k, s)
<1>1. v.events[Len(w.events) + 1] = [kind |-> k, status |-> s]
  BY PushEvents
<1>2. \A i \in 1..Len(w.events) : v.events[i] = w.events[i]
  BY PushEvents
<1> HIDE DEF v
<1>3. Kind(v, Len(w.events) + 1) = k
  BY <1>1 DEF Kind
<1>4. \A i \in 1..Len(w.events) : Kind(v, i) = Kind(w, i)
  BY <1>2 DEF Kind
<1> QED
  BY <1>3, <1>4 DEF v

(* Two workers with one log have the same events of this boot.             *)
LEMMA SameLog ==
  ASSUME NEW v, NEW w, v.events = w.events
  PROVE  /\ Dispatches(v) = Dispatches(w)
         /\ ArmedOnRecord(v) <=> ArmedOnRecord(w)
         /\ ResolvedOnRecord(v) <=> ResolvedOnRecord(w)
         /\ WorkerHandshake(v) <=> WorkerHandshake(w)
<1>1. \A i : Kind(v, i) = Kind(w, i)
  BY DEF Kind
<1>2. SinceBoot(v) = SinceBoot(w)
  BY <1>1 DEF SinceBoot
<1> QED
  BY <1>1, <1>2 DEF Dispatches, ArmedOnRecord, ResolvedOnRecord, WorkerHandshake

(* A restart begins an empty boot; any other event joins the boot.         *)
LEMMA PushBoot ==
  ASSUME NEW w \in Worker, NEW k \in WorkerEventKind, NEW s \in WorkerStatus
  PROVE  SinceBoot(push_event(w, k, s)) =
           IF k = "Restarted" THEN {} ELSE SinceBoot(w) \cup {Len(w.events) + 1}
<1> DEFINE v == push_event(w, k, s)
           n == Len(w.events)
<1>1. n \in Nat /\ Len(v.events) = n + 1
  <2>1. w.events \in Seq(Event)
    BY DEF Worker
  <2> QED
    BY <2>1, PushType
<1>2. Kind(v, n + 1) = k /\ \A i \in 1..n : Kind(v, i) = Kind(w, i)
  BY PushKinds
<1>3. CASE k = "Restarted"
  BY <1>1, <1>2, <1>3 DEF SinceBoot
<1>4. CASE k # "Restarted"
  <2>1. ASSUME NEW i \in 1..n
        PROVE  i \in SinceBoot(v) <=> i \in SinceBoot(w)
    <3>1. i..(n + 1) = (i..n) \cup {n + 1} /\ i..n \subseteq 1..n
      BY <1>1
    <3>2. (\A j \in i..(n + 1) : Kind(v, j) # "Restarted")
            <=> (\A j \in i..n : Kind(w, j) # "Restarted")
      BY <1>2, <1>4, <3>1
    <3> QED
      BY <1>1, <3>2 DEF SinceBoot
  <2>2. n + 1 \in SinceBoot(v)
    BY <1>1, <1>2, <1>4 DEF SinceBoot
  <2>3. SinceBoot(v) \subseteq 1..(n + 1) /\ SinceBoot(w) \subseteq 1..n
    BY <1>1 DEF SinceBoot
  <2>4. 1..(n + 1) = (1..n) \cup {n + 1}
    BY <1>1
  <2> QED
    BY <1>4, <2>1, <2>2, <2>3, <2>4
<1> QED
  BY <1>3, <1>4

(* So a dispatch adds one to the dispatches of the boot, a restart leaves  *)
(* none, and no other event changes their number.                          *)
LEMMA PushDispatches ==
  ASSUME NEW w \in Worker, NEW k \in WorkerEventKind, NEW s \in WorkerStatus
  PROVE  Cardinality(Dispatches(push_event(w, k, s))) =
           CASE k = "Restarted" -> 0
             [] k = "Running"   -> Cardinality(Dispatches(w)) + 1
             [] OTHER           -> Cardinality(Dispatches(w))
<1> DEFINE v == push_event(w, k, s)
           n == Len(w.events)
<1>1. n \in Nat
  <2>1. w.events \in Seq(Event)
    BY DEF Worker
  <2> QED
    BY <2>1
<1>2. Kind(v, n + 1) = k /\ \A i \in 1..n : Kind(v, i) = Kind(w, i)
  BY PushKinds
<1>3. SinceBoot(w) \subseteq 1..n
  BY DEF SinceBoot
<1>4. IsFiniteSet(Dispatches(w)) /\ n + 1 \notin Dispatches(w)
  <2>1. IsFiniteSet(1..n)
    BY <1>1, FS_Interval
  <2>2. Dispatches(w) \subseteq 1..n
    BY <1>3 DEF Dispatches
  <2> QED
    BY <1>1, <2>1, <2>2, FS_Subset
<1>5. CASE k = "Restarted"
  <2>1. Dispatches(v) = {}
    BY <1>5, PushBoot DEF Dispatches
  <2> QED
    BY <1>5, <2>1, FS_EmptySet
<1>6. CASE k = "Running"
  <2>1. Dispatches(v) = Dispatches(w) \cup {n + 1}
    BY <1>2, <1>3, <1>6, PushBoot DEF Dispatches
  <2> QED
    BY <1>4, <1>6, <2>1, FS_AddElement
<1>7. CASE k \notin {"Restarted", "Running"}
  <2>1. Dispatches(v) = Dispatches(w)
    BY <1>2, <1>3, <1>7, PushBoot DEF Dispatches
  <2> QED
    BY <1>7, <2>1
<1> QED
  BY <1>5, <1>6, <1>7

(* The books of the worker v are in order for the event k to be recorded.  *)
Recordable(v, k) ==
  /\ v.prompt_delivery_attempts =
       CASE k = "Restarted" -> 0
         [] k = "Running"   -> Cardinality(Dispatches(v)) + 1
         [] OTHER           -> Cardinality(Dispatches(v))
  /\ v.replay_prompt # NoPrompt =>
       /\ v.replay_prompt = v.last_prompt
       /\ v.auto_recover_prompt_misdelivery
       /\ ~v.prompt_in_flight
       /\ k \notin {"Restarted", "Running"}
       /\ k = "PromptReplayArmed" \/ ArmedOnRecord(v)
  /\ v.trust_gate_cleared =>
       /\ k # "Restarted"
       /\ k = "TrustResolved" \/ ResolvedOnRecord(v)

LEMMA PushBooks ==
  ASSUME NEW v \in Worker, NEW k \in WorkerEventKind, NEW s \in WorkerStatus,
         Recordable(v, k)
  PROVE  Books(push_event(v, k, s))
<1> DEFINE w == push_event(v, k, s)
           n == Len(v.events)
<1>1. n \in Nat /\ Len(w.events) = n + 1
  <2>1. v.events \in Seq(Event)
    BY DEF Worker
  <2> QED
    BY <2>1, PushType
<1>2. Kind(w, n + 1) = k /\ \A i \in 1..n : Kind(w, i) = Kind(v, i)
  BY PushKinds
<1>3. SinceBoot(v) \subseteq 1..n
  BY DEF SinceBoot
<1>4. /\ w.prompt_delivery_attempts = v.prompt_delivery_attempts
      /\ w.replay_prompt = v.replay_prompt
      /\ w.last_prompt = v.last_prompt
      /\ w.auto_recover_prompt_misdelivery = v.auto_recover_prompt_misdelivery
      /\ w.prompt_in_flight = v.prompt_in_flight
      /\ w.trust_gate_cleared = v.trust_gate_cleared
  BY DEF push_event, Worker
<1>5. w.prompt_delivery_attempts = Cardinality(Dispatches(w))
  BY <1>4, PushDispatches DEF Recordable
<1>6. ASSUME w.replay_prompt # NoPrompt
      PROVE  ArmedOnRecord(w)
  <2>1. k \notin {"Restarted", "Running"} /\ (k = "PromptReplayArmed" \/ ArmedOnRecord(v))
    BY <1>4, <1>6 DEF Recordable
  <2>2. SinceBoot(w) = SinceBoot(v) \cup {n + 1}
    BY <2>1, PushBoot
  <2>3. CASE k = "PromptReplayArmed"
    BY <1>1, <1>2, <2>2, <2>3 DEF ArmedOnRecord
  <2>4. CASE ArmedOnRecord(v)
    <3>1. PICK i \in SinceBoot(v) :
            /\ Kind(v, i) = "PromptReplayArmed"
            /\ \A j \in i..n : Kind(v, j) # "Running"
      BY <2>4 DEF ArmedOnRecord
    <3>2. i \in 1..n /\ i..(n + 1) = (i..n) \cup {n + 1} /\ i..n \subseteq 1..n
      BY <1>1, <1>3
    <3>3. Kind(w, i) = "PromptReplayArmed" /\ \A j \in i..(n + 1) : Kind(w, j) # "Running"
      BY <1>2, <2>1, <3>1, <3>2
    <3> QED
      BY <1>1, <2>2, <3>3 DEF ArmedOnRecord
  <2> QED
    BY <2>1, <2>3, <2>4
<1>7. ASSUME w.trust_gate_cleared
      PROVE  ResolvedOnRecord(w)
  <2>1. k # "Restarted" /\ (k = "TrustResolved" \/ ResolvedOnRecord(v))
    BY <1>4, <1>7 DEF Recordable
  <2>2. SinceBoot(w) = SinceBoot(v) \cup {n + 1}
    BY <2>1, PushBoot
  <2> QED
    BY <1>2, <1>3, <2>1, <2>2 DEF ResolvedOnRecord
<1> QED
  BY <1>4, <1>5, <1>6, <1>7 DEF Books, Recordable

(* An event that is no dispatch keeps the handshake; a dispatch keeps it   *)
(* when the newest event before it is a readiness.                         *)
LEMMA PushHandshake ==
  ASSUME NEW w \in Worker, NEW k \in WorkerEventKind, NEW s \in WorkerStatus,
         WorkerHandshake(w),
         k = "Running" => w.events # <<>> /\ Kind(w, Len(w.events)) \in ReadyKinds
  PROVE  WorkerHandshake(push_event(w, k, s))
<1> DEFINE v == push_event(w, k, s)
           n == Len(w.events)
<1>1. n \in Nat /\ Len(v.events) = n + 1 /\ (w.events # <<>> => n > 0)
  <2>1. w.events \in Seq(Event)
    BY DEF Worker
  <2> QED
    BY <2>1, PushType, EmptySeq
<1>2. Kind(v, n + 1) = k /\ \A i \in 1..n : Kind(v, i) = Kind(w, i)
  BY PushKinds
<1>3. ASSUME NEW i \in 1..Len(v.events), Kind(v, i) = "Running"
      PROVE  i > 1 /\ Kind(v, i - 1) \in ReadyKinds
  <2>1. CASE i \in 1..n
    <3>1. Kind(w, i) = "Running"
      BY <1>2, <1>3, <2>1
    <3>2. i > 1 /\ Kind(w, i - 1) \in ReadyKinds
      BY <2>1, <3>1 DEF WorkerHandshake
    <3>3. i - 1 \in 1..n
      BY <1>1, <2>1, <3>2
    <3> QED
      BY <1>2, <3>2, <3>3
  <2>2. CASE i = n + 1
    <3>1. k = "Running"
      BY <1>2, <1>3, <2>2
    <3>2. n > 0 /\ Kind(w, n) \in ReadyKinds
      BY <1>1, <3>1
    <3> QED
      BY <1>1, <1>2, <2>2, <3>2
  <2> QED
    BY <1>1, <2>1, <2>2
<1> QED
  BY <1>3 DEF WorkerHandshake

(* What is left to show of an operation that ends with push_event: the     *)
(* worker v it recorded the event for is well-typed, has the log of the    *)
(* worker before and books that are in order for the event, and its error  *)
(* and flight suit the new status.                                         *)
LEMMA PushSound ==
  ASSUME NEW old, NEW v \in Worker, NEW k \in WorkerEventKind, NEW s \in WorkerStatus,
         v.events = old.events,
         v.cwd = old.cwd,
         WorkerHandshake(old),
         k = "Running" => old.events # <<>> /\ Kind(old, Len(old.events)) \in ReadyKinds,
         s = "ReadyForPrompt" => k \in ReadyKinds,
         Recordable(v, k),
         WorkerError([v EXCEPT !.status = s]),
         WorkerFlight([v EXCEPT !.status = s])
  PROVE  Recorded(old, push_event(v, k, s))
<1> DEFINE w == push_event(v, k, s)
<1>1. /\ w.status = s
      /\ w.cwd = v.cwd
      /\ w.last_error = v.last_error
      /\ w.prompt_in_flight = v.prompt_in_flight
      /\ w.last_prompt = v.last_prompt
      /\ w.replay_prompt = v.replay_prompt
  BY DEF push_event, Worker
<1>2. /\ [v EXCEPT !.status = s].status = s
      /\ [v EXCEPT !.status = s].last_error = v.last_error
      /\ [v EXCEPT !.status = s].prompt_in_flight = v.prompt_in_flight
      /\ [v EXCEPT !.status = s].last_prompt = v.last_prompt
      /\ [v EXCEPT !.status = s].replay_prompt = v.replay_prompt
  BY DEF Worker
<1>3. w \in Worker /\ w.events # <<>> /\ Len(w.events) = Len(v.events) + 1
  BY PushType
<1>4. LastIsReadiness(w)
  BY <1>1, <1>3, PushKinds DEF LastIsReadiness
<1>5. WorkerHandshake(w)
  <2>1. WorkerHandshake(v) /\ Kind(v, Len(v.events)) = Kind(old, Len(old.events))
    BY SameLog DEF Kind
  <2> QED
    BY <2>1, PushHandshake
<1>6. WorkerError(w)
  BY <1>1, <1>2 DEF WorkerError
<1>7. WorkerFlight(w)
  BY <1>1, <1>2 DEF WorkerFlight
<1>8. Books(w)
  BY PushBooks
<1>9. SoundWorker(w)
  BY <1>3, <1>4, <1>5, <1>6, <1>7, <1>8 DEF SoundWorker
<1>10. \A i \in 1..Len(old.events) : w.events[i] = old.events[i]
  <2>1. \A i \in 1..Len(v.events) : w.events[i] = v.events[i]
    BY PushEvents
  <2> QED
    BY <2>1
<1>11. w.status = w.events[Len(w.events)].status
  <2>1. w.events[Len(v.events) + 1] = [kind |-> k, status |-> s]
    BY PushEvents
  <2> QED
    BY <1>1, <1>3, <2>1
<1> QED
  BY <1>1, <1>3, <1>9, <1>10, <1>11 DEF Recorded

-----------------------------------------------------------------------------
(* The functions on one worker, one by one.                                *)
LEMMA CreatedSound ==
  ASSUME NEW c \in Cwds, NEW allowlisted \in BOOLEAN, NEW auto \in BOOLEAN
  PROVE  Recorded(Fresh(c, allowlisted, auto), Created(c, allowlisted, auto))
<1> DEFINE v == Fresh(c, allowlisted, auto)
<1>1. v \in Worker
  BY DEF Fresh, Worker, WorkerStatus, WorkerFailureKind
<1>2. WorkerHandshake(v)
  BY DEF Fresh, WorkerHandshake
<1>3. Recordable(v, "Spawning")
  <2>1. Dispatches(v) = {}
    BY DEF Dispatches, SinceBoot, Fresh
  <2> QED
    BY <2>1, FS_EmptySet DEF Recordable, Fresh
<1>4. WorkerError([v EXCEPT !.status = "Spawning"])
  BY DEF Fresh, WorkerError
<1>5. WorkerFlight([v EXCEPT !.status = "Spawning"])
  BY DEF Fresh, WorkerFlight
<1> QED
  BY <1>1, <1>2, <1>3, <1>4, <1>5, PushSound DEF Created, WorkerStatus, WorkerEventKind

LEMMA GatedSound ==
  ASSUME NEW w, SoundWorker(w)
  PROVE  Recorded(w, Gated(w))
<1> DEFINE v == [w EXCEPT !.last_error = "TrustGate"]
<1>1. w \in Worker /\ v.events = w.events /\ v.cwd = w.cwd
  BY DEF SoundWorker, Worker
<1>2. v \in Worker
  BY <1>1 DEF Worker, WorkerFailureKind
<1>3. WorkerHandshake(w)
  BY DEF SoundWorker
<1>4. Recordable(v, "TrustRequired")
  BY <1>1, SameLog DEF SoundWorker, Books, Recordable, Worker
<1>5. WorkerError([v EXCEPT !.status = "TrustRequired"])
  BY <1>1, <1>2 DEF WorkerError, Worker
<1>6. WorkerFlight([v EXCEPT !.status = "TrustRequired"])
  BY <1>1, <1>2 DEF SoundWorker, WorkerFlight, Worker
<1> QED
  BY <1>1, <1>2, <1>3, <1>4, <1>5, <1>6, PushSound
  DEF Gated, WorkerStatus, WorkerEventKind

LEMMA ClearedSound ==
  ASSUME NEW w, SoundWorker(w)
  PROVE  Recorded(w, Cleared(w))
<1> DEFINE v == [w EXCEPT !.trust_gate_cleared = TRUE, !.last_error = "None"]
<1>1. w \in Worker /\ v.events = w.events /\ v.cwd = w.cwd
  BY DEF SoundWorker, Worker
<1>2. v \in Worker
  BY <1>1 DEF Worker, WorkerFailureKind
<1>3. WorkerHandshake(w)
  BY DEF SoundWorker
<1>4. Recordable(v, "TrustResolved")
  BY <1>1, SameLog DEF SoundWorker, Books, Recordable, Worker
<1>5. WorkerError([v EXCEPT !.status = "Spawning"])
  BY <1>1, <1>2 DEF WorkerError, Worker
<1>6. WorkerFlight([v EXCEPT !.status = "Spawning"])
  BY <1>1, <1>2 DEF SoundWorker, WorkerFlight, Worker
<1> QED
  BY <1>1, <1>2, <1>3, <1>4, <1>5, <1>6, PushSound
  DEF Cleared, WorkerStatus, WorkerEventKind

LEMMA LostSound ==
  ASSUME NEW w, SoundWorker(w)
  PROVE  /\ Recorded(w, Lost(w))
         /\ ~Lost(w).prompt_in_flight
         /\ Lost(w).last_error = "PromptDelivery"
         /\ Lost(w).auto_recover_prompt_misdelivery = w.auto_recover_prompt_misdelivery
<1> DEFINE v == [w EXCEPT !.last_error = "PromptDelivery", !.prompt_in_flight = FALSE]
<1>1. w \in Worker /\ v.events = w.events /\ v.cwd = w.cwd
  BY DEF SoundWorker, Worker
<1>2. v \in Worker
  BY <1>1 DEF Worker, WorkerFailureKind
<1>3. WorkerHandshake(w)
  BY DEF SoundWorker
<1>4. Recordable(v, "PromptMisdelivery")
  BY <1>1, SameLog DEF SoundWorker, Books, Recordable, Worker
<1>5. WorkerError([v EXCEPT !.status = "Failed"])
  BY <1>1, <1>2 DEF WorkerError, Worker
<1>6. WorkerFlight([v EXCEPT !.status = "Failed"])
  BY <1>1, <1>2 DEF SoundWorker, WorkerFlight, Worker
<1>7. /\ ~Lost(w).prompt_in_flight
      /\ Lost(w).last_error = "PromptDelivery"
      /\ Lost(w).auto_recover_prompt_misdelivery = w.auto_recover_prompt_misdelivery
  BY <1>1 DEF Lost, push_event, Worker
<1> QED
  BY <1>1, <1>2, <1>3, <1>4, <1>5, <1>6, <1>7, PushSound
  DEF Lost, WorkerStatus, WorkerEventKind

LEMMA ReplayArmedSound ==
  ASSUME NEW w, SoundWorker(w), ~w.prompt_in_flight, w.last_error # "TrustGate",
         w.auto_recover_prompt_misdelivery
  PROVE  Recorded(w, ReplayArmed(w))
<1> DEFINE v == [w EXCEPT !.replay_prompt = w.last_prompt]
<1>1. w \in Worker /\ v.events = w.events /\ v.cwd = w.cwd
  BY DEF SoundWorker, Worker
<1>2. v \in Worker
  BY <1>1 DEF Worker, WorkerFailureKind
<1>3. WorkerHandshake(w)
  BY DEF SoundWorker
<1>4. Recordable(v, "PromptReplayArmed")
  BY <1>1, SameLog DEF SoundWorker, Books, Recordable, Worker
<1>5. WorkerError([v EXCEPT !.status = "ReadyForPrompt"])
  BY <1>1, <1>2 DEF WorkerError, Worker
<1>6. WorkerFlight([v EXCEPT !.status = "ReadyForPrompt"])
  BY <1>1, <1>2 DEF SoundWorker, WorkerFlight, Worker
<1> QED
  BY <1>1, <1>2, <1>3, <1>4, <1>5, <1>6, PushSound
  DEF ReplayArmed, WorkerStatus, WorkerEventKind, ReadyKinds

LEMMA AcknowledgedSound ==
  ASSUME NEW w, SoundWorker(w), NEW screen \in Screen
  PROVE  /\ SoundWorker(Acknowledged(w, screen))
         /\ Acknowledged(w, screen).cwd = w.cwd
         /\ Acknowledged(w, screen).events = w.events
<1>1. CASE "running" \in screen.cues /\ w.prompt_in_flight
  <2> DEFINE v == [w EXCEPT !.prompt_in_flight = FALSE, !.status = "Running",
                            !.last_error = "None"]
  <2>1. w \in Worker /\ v \in Worker /\ v.events = w.events /\ v.cwd = w.cwd
    BY DEF SoundWorker, Worker, WorkerStatus, WorkerFailureKind
  <2>2. WorkerHandshake(v)
    BY <2>1, SameLog DEF SoundWorker
  <2>3. LastIsReadiness(v) /\ WorkerError(v) /\ WorkerFlight(v)
    BY <2>1 DEF LastIsReadiness, WorkerError, WorkerFlight, Worker
  <2>4. Books(v)
    BY <2>1, SameLog DEF SoundWorker, Books, Worker
  <2> QED
    BY <1>1, <2>1, <2>2, <2>3, <2>4 DEF SoundWorker, Acknowledged
<1>2. CASE ~("running" \in screen.cues /\ w.prompt_in_flight)
  BY <1>2 DEF Acknowledged
<1> QED
  BY <1>1, <1>2

LEMMA ReadySound ==
  ASSUME NEW w, SoundWorker(w)
  PROVE  Recorded(w, Ready(w))
<1> DEFINE v == [w EXCEPT !.prompt_in_flight = FALSE,
                          !.last_error = IF @ = "TrustGate" THEN "None" ELSE @]
<1>1. w \in Worker /\ v.events = w.events /\ v.cwd = w.cwd
  BY DEF SoundWorker, Worker
<1>2. v \in Worker
  BY <1>1 DEF Worker, WorkerFailureKind
<1>3. WorkerHandshake(w)
  BY DEF SoundWorker
<1>4. Recordable(v, "ReadyForPrompt")
  BY <1>1, SameLog, ZenonT(40) DEF SoundWorker, Books, Recordable, Worker
<1>5. WorkerError([v EXCEPT !.status = "ReadyForPrompt"])
  BY <1>1, <1>2 DEF WorkerError, Worker
<1>6. WorkerFlight([v EXCEPT !.status = "ReadyForPrompt"])
  BY <1>1, <1>2 DEF SoundWorker, WorkerFlight, Worker
<1> QED
  BY <1>1, <1>2, <1>3, <1>4, <1>5, <1>6, PushSound
  DEF Ready, WorkerStatus, WorkerEventKind, ReadyKinds

LEMMA DispatchedSound ==
  ASSUME NEW w, SoundWorker(w), NEW p \in Prompts \cup {NoPrompt},
         w.status = "ReadyForPrompt",
         NextPrompt(w, p) # NoPrompt
  PROVE  Recorded(w, Dispatched(w, p))
<1> DEFINE v == [w EXCEPT !.prompt_delivery_attempts = @ + 1,
                          !.prompt_in_flight = TRUE,
                          !.last_prompt = NextPrompt(w, p),
                          !.replay_prompt = NoPrompt,
                          !.last_error = "None"]
<1>1. w \in Worker /\ v.events = w.events /\ v.cwd = w.cwd
  BY DEF SoundWorker, Worker
<1>2. v \in Worker
  <2>1. w.prompt_delivery_attempts + 1 \in Nat
    BY <1>1 DEF Worker
  <2>2. NextPrompt(w, p) \in Prompts \cup {NoPrompt}
    BY <1>1 DEF NextPrompt, Worker
  <2>3. w \in Worker
    BY <1>1
  <2> QED
    BY <2>1, <2>2, <2>3, Zenon DEF Worker, WorkerFailureKind
<1>3. WorkerHandshake(w) /\ w.events # <<>> /\ Kind(w, Len(w.events)) \in ReadyKinds
  BY DEF SoundWorker, LastIsReadiness
<1>4. Recordable(v, "Running")
  <2>1. v.prompt_delivery_attempts = Cardinality(Dispatches(v)) + 1
    <3>1. w.prompt_delivery_attempts = Cardinality(Dispatches(w))
      BY DEF SoundWorker, Books
    <3>2. v.prompt_delivery_attempts = w.prompt_delivery_attempts + 1
      BY <1>1 DEF Worker
    <3>3. Dispatches(v) = Dispatches(w)
      BY <1>1, SameLog
    <3> QED
      BY <3>1, <3>2, <3>3
  <2>2. v.replay_prompt = NoPrompt
    BY <1>1 DEF Worker
  <2>3. v.trust_gate_cleared => ResolvedOnRecord(v)
    BY <1>1, SameLog DEF SoundWorker, Books, Worker
  <2> QED
    BY <2>1, <2>2, <2>3 DEF Recordable
<1>5. WorkerError([v EXCEPT !.status = "Running"])
  BY <1>1, <1>2 DEF WorkerError, Worker
<1>6. WorkerFlight([v EXCEPT !.status = "Running"])
  BY <1>1, <1>2 DEF SoundWorker, WorkerFlight, Worker
<1> QED
  BY <1>1, <1>2, <1>3, <1>4, <1>5, <1>6, PushSound
  DEF Dispatched, WorkerStatus, WorkerEventKind

LEMMA RebootedSound ==
  ASSUME NEW w, SoundWorker(w)
  PROVE  Recorded(w, Rebooted(w))
<1> DEFINE v == [w EXCEPT !.trust_gate_cleared = FALSE,
                          !.last_prompt = NoPrompt, !.replay_prompt = NoPrompt,
                          !.last_error = "None",
                          !.prompt_delivery_attempts = 0,
                          !.prompt_in_flight = FALSE]
<1>1. w \in Worker /\ v.events = w.events /\ v.cwd = w.cwd
  BY DEF SoundWorker, Worker
<1>2. v \in Worker
  BY <1>1 DEF Worker, WorkerFailureKind
<1>3. WorkerHandshake(w)
  BY DEF SoundWorker
<1>4. Recordable(v, "Restarted")
  BY <1>1, SameLog DEF SoundWorker, Books, Recordable, Worker
<1>5. WorkerError([v EXCEPT !.status = "Spawning"])
  BY <1>1, <1>2 DEF WorkerError, Worker
<1>6. WorkerFlight([v EXCEPT !.status = "Spawning"])
  BY <1>1, <1>2 DEF SoundWorker, WorkerFlight, Worker
<1> QED
  BY <1>1, <1>2, <1>3, <1>4, <1>5, <1>6, PushSound
  DEF Rebooted, WorkerStatus, WorkerEventKind

LEMMA TerminatedSound ==
  ASSUME NEW w, SoundWorker(w)
  PROVE  Recorded(w, Terminated(w))
<1> DEFINE v == [w EXCEPT !.prompt_in_flight = FALSE]
<1>1. w \in Worker /\ v.events = w.events /\ v.cwd = w.cwd
  BY DEF SoundWorker, Worker
<1>2. v \in Worker
  BY <1>1 DEF Worker, WorkerFailureKind
<1>3. WorkerHandshake(w)
  BY DEF SoundWorker
<1>4. Recordable(v, "Finished")
  BY <1>1, SameLog DEF SoundWorker, Books, Recordable, Worker
<1>5. WorkerError([v EXCEPT !.status = "Finished"])
  BY <1>1, <1>2 DEF WorkerError, Worker
<1>6. WorkerFlight([v EXCEPT !.status = "Finished"])
  BY <1>1, <1>2 DEF SoundWorker, WorkerFlight, Worker
<1> QED
  BY <1>1, <1>2, <1>3, <1>4, <1>5, <1>6, PushSound
  DEF Terminated, WorkerStatus, WorkerEventKind

LEMMA CompletedSound ==
  ASSUME NEW w, SoundWorker(w), NEW degraded \in BOOLEAN
  PROVE  Recorded(w, Completed(w, degraded))
<1> DEFINE e == IF degraded THEN "Provider" ELSE "None"
           s == IF degraded THEN "Failed" ELSE "Finished"
           v == [w EXCEPT !.last_error = e, !.prompt_in_flight = FALSE]
<1>1. w \in Worker /\ v.events = w.events /\ v.cwd = w.cwd
  BY DEF SoundWorker, Worker
<1>2. v \in Worker
  BY <1>1 DEF Worker, WorkerFailureKind
<1>3. WorkerHandshake(w)
  BY DEF SoundWorker
<1>4. Recordable(v, s)
  BY <1>1, SameLog DEF SoundWorker, Books, Recordable, Worker
<1>5. WorkerError([v EXCEPT !.status = s])
  BY <1>1, <1>2 DEF WorkerError, Worker
<1>6. WorkerFlight([v EXCEPT !.status = s])
  BY <1>1, <1>2 DEF WorkerFlight, Worker
<1>7. Recorded(w, push_event(v, s, s))
  BY <1>1, <1>2, <1>3, <1>4, <1>5, <1>6, PushSound DEF WorkerStatus, WorkerEventKind
<1>8. Completed(w, degraded) = push_event(v, s, s)
  BY DEF Completed
<1> QED
  BY <1>7, <1>8

-----------------------------------------------------------------------------
(* Chains: none is pushed when the log did not change, a recorded event    *)
(* adds one, and a change that records nothing keeps the chain.            *)
LEMMA ChainNone ==
  ASSUME NEW w, SoundWorker(w)
  PROVE  Chain(w, <<>>, w)
<1>1. w.events \in Seq(Event)
  BY DEF SoundWorker, Worker
<1> QED
  BY <1>1 DEF Chain

LEMMA ChainMove ==
  ASSUME NEW old, NEW pushed, NEW v, Chain(old, pushed, v),
         NEW w, SoundWorker(w), w.cwd = v.cwd, w.events = v.events
  PROVE  Chain(old, pushed, w)
  BY DEF Chain

LEMMA ChainPush ==
  ASSUME NEW old \in Worker, NEW pushed, NEW v, Chain(old, pushed, v),
         NEW w, Recorded(v, w)
  PROVE  Chain(old, Append(pushed, w), w)
<1> DEFINE n == Len(old.events)
           m == Len(pushed)
           all == Append(pushed, w)
           size(u) == Len(u.events)
<1>1. n \in Nat
  <2>1. old.events \in Seq(Event)
    BY DEF Worker
  <2> QED
    BY <2>1
<1>2. pushed \in Seq(Worker) /\ m \in Nat /\ w \in Worker
  BY DEF Chain, Recorded, SoundWorker
<1>3. /\ all \in Seq(Worker)
      /\ Len(all) = m + 1
      /\ all[m + 1] = w
      /\ \A k \in 1..m : all[k] = pushed[k]
  BY <1>2
<1>4. /\ SoundWorker(w)
      /\ w.cwd = old.cwd
      /\ w.status = w.events[Len(w.events)].status
  BY DEF Chain, Recorded
<1>5. size(v) = n + m /\ size(w) = size(v) + 1
  BY DEF Chain, Recorded
<1>6. /\ \A i \in 1..n : v.events[i] = old.events[i]
      /\ \A i \in 1..size(v) : w.events[i] = v.events[i]
      /\ \A k \in 1..m :
           /\ SoundWorker(pushed[k])
           /\ pushed[k].cwd = old.cwd
           /\ pushed[k].status = pushed[k].events[Len(pushed[k].events)].status
           /\ size(pushed[k]) = n + k
           /\ \A i \in 1..size(pushed[k]) : v.events[i] = pushed[k].events[i]
  BY DEF Chain, Recorded
<1> HIDE DEF n, m, all, size
<1>7. size(w) = n + (m + 1)
  BY <1>1, <1>2, <1>5
<1>8. \A i \in 1..n : w.events[i] = old.events[i]
  <2>1. 1..n \subseteq 1..size(v)
    BY <1>1, <1>2, <1>5
  <2> QED
    BY <1>6, <2>1
<1>9. ASSUME NEW k \in 1..Len(all)
      PROVE  /\ SoundWorker(all[k])
             /\ all[k].cwd = old.cwd
             /\ all[k].status = all[k].events[Len(all[k].events)].status
             /\ size(all[k]) = n + k
             /\ \A i \in 1..size(all[k]) : w.events[i] = all[k].events[i]
  <2>1. CASE k = m + 1
    BY <1>3, <1>4, <1>7, <2>1
  <2>2. CASE k \in 1..m
    <3>1. 1..(n + k) \subseteq 1..size(v)
      BY <1>1, <1>2, <1>5, <2>2
    <3>2. \A i \in 1..size(pushed[k]) : w.events[i] = pushed[k].events[i]
      BY <1>6, <2>2, <3>1
    <3>3. all[k] = pushed[k]
      BY <1>3, <2>2
    <3> QED
      BY <1>6, <2>2, <3>2, <3>3
  <2> QED
    BY <1>2, <1>3, <2>1, <2>2
<1>10. size(w) = n + Len(all)
  BY <1>3, <1>7
<1> QED
  BY <1>3, <1>4, <1>8, <1>9, <1>10 DEF Chain, n, all, size

(* The worker past the trust gate, and the values pushed on the way there. *)
LEMMA PastGateSound ==
  ASSUME NEW w, SoundWorker(w), NEW screen \in Screen
  PROVE  Chain(w, GatePushes(w, screen), PastGate(w, screen))
<1> DEFINE gated == Gated(w)
           cleared == Cleared(gated)
<1>1. w \in Worker
  BY DEF SoundWorker
<1>2. Recorded(w, gated) /\ Recorded(gated, cleared)
  BY GatedSound, ClearedSound DEF Recorded
<1>3. Chain(w, <<>>, w)
  BY ChainNone
<1>4. Chain(w, Append(<<>>, gated), gated)
  BY <1>1, <1>2, <1>3, ChainPush
<1>5. Chain(w, Append(Append(<<>>, gated), cleared), cleared)
  BY <1>1, <1>2, <1>4, ChainPush
<1>6. Append(Append(<<>>, gated), cleared) = <<gated, cleared>>
  <2> DEFINE x == Append(<<gated>>, cleared)
             y == <<gated, cleared>>
  <2>1. gated \in Worker /\ cleared \in Worker
    BY <1>2 DEF Recorded, SoundWorker
  <2> HIDE DEF gated, cleared
  <2>2. Append(<<>>, gated) = <<gated>>
    OBVIOUS
  <2>3. x \in Seq(Worker) /\ Len(x) = 2 /\ x[1] = gated /\ x[2] = cleared
    BY <2>1, AppendProperties
  <2>4. y \in Seq(Worker) /\ Len(y) = 2 /\ y[1] = gated /\ y[2] = cleared
    BY <2>1
  <2> HIDE DEF x, y
  <2>5. \A i \in 1..2 : x[i] = y[i]
    BY <2>3, <2>4
  <2>6. x = y
    BY <2>3, <2>4, <2>5, SeqEqual
  <2> QED
    BY <2>2, <2>6 DEF x, y
<1> QED
  BY <1>3, <1>5, <1>6 DEF PastGate, GatePushes

-----------------------------------------------------------------------------
(* Every operation ends with Commit.                                       *)
LEMMA SnapshotType ==
  ASSUME NEW id \in WorkerIds, NEW w, SoundWorker(w)
  PROVE  SnapshotOf(id, w) \in Snapshot
<1>1. /\ w \in Worker
      /\ w.events \in Seq(Event)
      /\ w.events # <<>>
  BY DEF SoundWorker, Worker
<1>2. w.events[Len(w.events)] \in Event /\ Len(w.events) \in Nat
  BY <1>1, EmptySeq
<1> QED
  BY <1>1, <1>2 DEF SnapshotOf, Snapshot, Worker

(* A worker's past moments stay past moments when its log grows.           *)
LEMMA MomentsStay ==
  ASSUME TypeOK,
         NEW id \in WorkerIds, NEW old \in Worker, NEW pushed, NEW w,
         Chain(old, pushed, w),
         Known(id) => old = workers[id],
         NEW s \in Snapshot, MomentOf(workers, s)
  PROVE  MomentOf([workers EXCEPT ![id] = w], s)
<1> DEFINE ws == [workers EXCEPT ![id] = w]
<1>1. s.worker_id \in WorkerIds
  BY DEF Snapshot
<1>2. CASE s.worker_id # id
  <2>1. ws[s.worker_id] = workers[s.worker_id]
    BY <1>1, <1>2 DEF TypeOK
  <2> QED
    BY <2>1 DEF MomentOf
<1>3. CASE s.worker_id = id
  <2>1. ws[s.worker_id] = w /\ workers[s.worker_id] = old
    BY <1>1, <1>3 DEF TypeOK, MomentOf, Known
  <2>2. /\ old.cwd = s.cwd
        /\ s.seq \in 1..Len(old.events)
        /\ s.last_event = old.events[s.seq]
        /\ s.status = s.last_event.status
        /\ s.is_ready => ~s.prompt_in_flight
    BY <2>1 DEF MomentOf
  <2>3. w # NoWorker
    BY NoWorkerAssumption DEF Chain, SoundWorker
  <2>4. w.cwd = old.cwd /\ w.events[s.seq] = old.events[s.seq]
    BY <2>2 DEF Chain
  <2>5. 1..Len(old.events) \subseteq 1..Len(w.events)
    <3> DEFINE n == Len(old.events)
               m == Len(pushed)
               l == Len(w.events)
    <3>1. old.events \in Seq(Event) /\ pushed \in Seq(Worker)
      BY DEF Worker, Chain
    <3>2. n \in Nat /\ m \in Nat
      BY <3>1
    <3>3. l = n + m
      BY DEF Chain
    <3> HIDE DEF n, m, l
    <3>4. 1..n \subseteq 1..l
      BY <3>2, <3>3
    <3> QED
      BY <3>4 DEF n, l
  <2> QED
    BY <2>1, <2>2, <2>3, <2>4, <2>5 DEF MomentOf
<1> QED
  BY <1>2, <1>3

(* What Commit is to write down: past moments of the worker it stores,     *)
(* numbered from the next event of the worker before.                      *)
LEMMA PushedMoments ==
  ASSUME TypeOK,
         NEW id \in WorkerIds, NEW old \in Worker, NEW pushed, NEW w,
         Chain(old, pushed, w),
         NEW k \in 1..Len(pushed)
  PROVE  /\ SnapshotOf(id, pushed[k]).worker_id = id
         /\ SnapshotOf(id, pushed[k]).seq = Len(old.events) + k
         /\ SnapshotOf(id, pushed[k]) \in Snapshot
         /\ MomentOf([workers EXCEPT ![id] = w], SnapshotOf(id, pushed[k]))
<1> DEFINE u == pushed[k]
           s == SnapshotOf(id, u)
           n == Len(old.events)
           m == Len(pushed)
           l == Len(w.events)
           q == Len(u.events)
<1>1. old.events \in Seq(Event) /\ pushed \in Seq(Worker)
  BY DEF Worker, Chain
<1>2. n \in Nat /\ m \in Nat /\ l = n + m
  BY <1>1 DEF Chain
<1>3. /\ SoundWorker(u)
      /\ u.cwd = w.cwd
      /\ u.status = u.events[q].status
      /\ q = n + k
      /\ \A i \in 1..q : w.events[i] = u.events[i]
  BY DEF Chain
<1>4. q \in 1..l /\ q \in 1..q
  <2>1. k \in 1..m /\ q = n + k
    BY <1>3
  <2> HIDE DEF n, m, l, q
  <2> QED
    BY <1>2, <2>1
<1>5. /\ s.worker_id = id /\ s.seq = q /\ s.last_event = u.events[q]
      /\ s.cwd = u.cwd /\ s.status = u.status
      /\ s.is_ready = (u.status = "ReadyForPrompt")
      /\ s.prompt_in_flight = u.prompt_in_flight
  BY DEF SnapshotOf
<1>6. s.is_ready => ~s.prompt_in_flight
  BY <1>3, <1>5 DEF SoundWorker, WorkerFlight
<1>7. [workers EXCEPT ![id] = w][id] = w /\ w # NoWorker
  BY NoWorkerAssumption DEF TypeOK, Chain, SoundWorker
<1>8. s \in Snapshot
  BY <1>3, SnapshotType
<1>9. w.events[q] = u.events[q]
  BY <1>3, <1>4
<1> HIDE DEF s, u, q, l
<1>10. MomentOf([workers EXCEPT ![id] = w], s)
  BY <1>3, <1>4, <1>5, <1>6, <1>7, <1>9 DEF MomentOf, l
<1> QED
  BY <1>3, <1>5, <1>8, <1>10 DEF s, u, q

(* Commit finds no snapshot to write, so every file is of a past moment    *)
(* and, when no call failed, of its worker's newest event; what it leaves  *)
(* to write is newer.                                                      *)
LEMMA CommitFiles ==
  ASSUME TypeOK, Files,
         NEW id \in WorkerIds, NEW old \in Worker, NEW pushed, NEW w,
         Chain(old, pushed, w),
         Known(id) => old = workers[id],
         Commit(id, pushed, w)
  PROVE  Files'
<1> DEFINE n == Len(old.events)
           m == Len(pushed)
           l == Len(w.events)
           ws == [workers EXCEPT ![id] = w]
<1>1. n \in Nat /\ m \in Nat /\ l = n + m
  <2>1. old.events \in Seq(Event) /\ pushed \in Seq(Worker)
    BY DEF Worker, Chain
  <2> QED
    BY <2>1 DEF Chain
<1>2. /\ workers' = ws /\ stateFile' = stateFile /\ tempFile' = tempFile
      /\ shown' = shown /\ failures' = failures /\ writes = <<>>
      /\ writes' = [i \in 1..m |-> SnapshotOf(id, pushed[i])]
  BY DEF Commit, files
<1>3. Len(writes') = m /\ (writes' # <<>> => m > 0)
  BY <1>1, <1>2
<1>4. \A k \in 1..m :
        /\ writes'[k].worker_id = id
        /\ writes'[k].seq = n + k
        /\ MomentOf(ws, writes'[k])
  <2> SUFFICES ASSUME NEW k \in 1..m
               PROVE  /\ writes'[k].worker_id = id
                      /\ writes'[k].seq = n + k
                      /\ MomentOf(ws, writes'[k])
    OBVIOUS
  <2>1. writes'[k] = SnapshotOf(id, pushed[k])
    BY <1>2
  <2>2. /\ SnapshotOf(id, pushed[k]).worker_id = id
        /\ SnapshotOf(id, pushed[k]).seq = n + k
        /\ MomentOf(ws, SnapshotOf(id, pushed[k]))
    BY PushedMoments
  <2> QED
    BY <2>1, <2>2
<1>5. ASSUME NEW file \in Stamped \cup {NoFile, Torn}, NEW c \in Cwds, Past(c, file), Whole(file)
      PROVE  /\ file.snapshot \in Snapshot
             /\ file.snapshot.cwd = c
             /\ MomentOf(workers, file.snapshot)
             /\ MomentOf(ws, file.snapshot)
             /\ file.snapshot.worker_id = id => file.snapshot.seq \in 1..n
             /\ file.snapshot.worker_id # id => ws[file.snapshot.worker_id] = workers[file.snapshot.worker_id]
  <2>1. file.snapshot \in Snapshot
    BY <1>5 DEF Whole, Stamped
  <2>2. file.snapshot.cwd = c /\ MomentOf(workers, file.snapshot)
    BY <1>5 DEF Past
  <2>3. MomentOf(ws, file.snapshot)
    BY <2>1, <2>2, MomentsStay
  <2>4. file.snapshot.worker_id = id => file.snapshot.seq \in 1..n
    BY <2>2 DEF MomentOf, Known
  <2>5. file.snapshot.worker_id \in WorkerIds
    BY <2>1 DEF Snapshot
  <2>6. file.snapshot.worker_id # id => ws[file.snapshot.worker_id] = workers[file.snapshot.worker_id]
    BY <2>5 DEF TypeOK
  <2> QED
    BY <2>1, <2>2, <2>3, <2>4, <2>6
<1>6. FilesArePast' /\ ShownIsPast' /\ TempsAreNewer'
  <2>1. ASSUME NEW c \in Cwds PROVE Past(c, stateFile[c])' /\ Past(c, tempFile[c])'
    <3>1. /\ stateFile[c] \in Stamped \cup {NoFile, Torn} /\ tempFile[c] \in Stamped \cup {NoFile, Torn}
          /\ Past(c, stateFile[c]) /\ Past(c, tempFile[c])
      BY DEF TypeOK, Files, FilesArePast
    <3>2. Whole(stateFile[c]) => stateFile[c].snapshot.cwd = c /\ MomentOf(ws, stateFile[c].snapshot)
      BY <1>5, <3>1
    <3>3. Whole(tempFile[c]) => tempFile[c].snapshot.cwd = c /\ MomentOf(ws, tempFile[c].snapshot)
      BY <1>5, <3>1
    <3> QED
      BY <1>2, <3>2, <3>3 DEF Past
  <2>2. ASSUME NEW c \in Cwds, NEW v \in WorkerIds PROVE shown[c][v] <= Logged(ws, v)
    <3>1. shown[c][v] \in Nat /\ shown[c][v] <= Logged(workers, v)
      BY DEF TypeOK, Files, ShownIsPast
    <3>2. CASE v # id
      <4>1. ws[v] = workers[v]
        BY <3>2 DEF TypeOK
      <4> QED
        BY <3>1, <4>1 DEF Logged
    <3>3. CASE v = id
      <4>1. Logged(ws, v) = l
        BY <3>3, NoWorkerAssumption DEF TypeOK, Logged, Chain, SoundWorker
      <4>2. Logged(workers, v) = n \/ Logged(workers, v) = 0
        BY <3>3 DEF Logged, Known
      <4> QED
        BY <1>1, <3>1, <4>1, <4>2
    <3> QED
      BY <3>2, <3>3
  <2> QED
    BY <1>2, <2>1, <2>2 DEF FilesArePast, ShownIsPast, TempsAreNewer, Files
<1>7. WritesArePast'
  BY <1>2, <1>3, <1>4 DEF WritesArePast
<1>8. WritesInOrder'
  BY <1>1, <1>3, <1>4 DEF WritesInOrder
<1>9. WritesAreNewer'
  <2> SUFFICES ASSUME NEW c \in Cwds, NEW k \in 1..m
               PROVE  shown[c][writes'[k].worker_id] < writes'[k].seq /\ Older(tempFile[c], writes'[k])
    BY <1>2, <1>3 DEF WritesAreNewer
  <2>1. writes'[k].worker_id = id /\ writes'[k].seq = n + k
    BY <1>4
  <2>2. shown[c][id] \in Nat /\ shown[c][id] <= Logged(workers, id)
    BY DEF TypeOK, Files, ShownIsPast
  <2>3. Logged(workers, id) = n \/ Logged(workers, id) = 0
    BY DEF Logged, Known
  <2>4. tempFile[c] \in Stamped \cup {NoFile, Torn} /\ Past(c, tempFile[c])
    BY DEF TypeOK, Files, FilesArePast
  <2>5. Whole(tempFile[c]) /\ tempFile[c].snapshot.worker_id = id => tempFile[c].snapshot.seq \in 1..n
    BY <1>5, <2>4
  <2> HIDE DEF n, m
  <2> QED
    BY <1>1, <2>1, <2>2, <2>3, <2>5 DEF Older
<1>10. FilesCatchUp'
  <2> DEFINE seen(c) == stateFile[c].snapshot
  <2> SUFFICES ASSUME failures = 0
               PROVE  /\ writes' # <<>> => Newest(ws, writes'[m])
                      /\ \A c \in Cwds : stateFile[c] # NoFile =>
                           /\ stateFile[c] # Torn
                           /\ \/ Newest(ws, seen(c))
                              \/ /\ writes' # <<>>
                                 /\ writes'[1].worker_id = seen(c).worker_id
    BY <1>2, <1>3 DEF FilesCatchUp
  <2>1. ws[id] = w
    BY DEF TypeOK
  <2>2. ASSUME writes' # <<>>
        PROVE  Newest(ws, writes'[m])
    <3>1. m \in 1..m
      BY <1>1, <1>3, <2>2
    <3>2. writes'[m].worker_id = id /\ writes'[m].seq = l
      BY <1>1, <1>4, <3>1
    <3> QED
      BY <2>1, <3>2 DEF Newest
  <2>5. ASSUME NEW c \in Cwds, stateFile[c] # NoFile
        PROVE  /\ stateFile[c] # Torn /\ Newest(workers, seen(c)) /\ MomentOf(workers, seen(c))
               /\ seen(c).worker_id = id => seen(c).seq \in 1..n
               /\ seen(c).worker_id # id => ws[seen(c).worker_id] = workers[seen(c).worker_id]
    <3>1. stateFile[c] # Torn /\ Newest(workers, seen(c))
      BY <1>2, <2>5 DEF Files, FilesCatchUp
    <3>2. stateFile[c] \in Stamped \cup {NoFile, Torn} /\ Past(c, stateFile[c]) /\ Whole(stateFile[c])
      BY <2>5, <3>1 DEF TypeOK, Files, FilesArePast, Whole
    <3> QED
      BY <1>5, <3>1, <3>2
  <2>3. ASSUME NEW c \in Cwds, stateFile[c] # NoFile, seen(c).worker_id # id
        PROVE  Newest(ws, seen(c))
    BY <2>3, <2>5 DEF Newest
  <2>4. ASSUME NEW c \in Cwds, stateFile[c] # NoFile, seen(c).worker_id = id
        PROVE  \/ Newest(ws, seen(c))
               \/ writes' # <<>> /\ writes'[1].worker_id = seen(c).worker_id
    <3>1. CASE m = 0
      <4>1. Known(id)
        BY <2>4, <2>5 DEF MomentOf, Known
      <4>2. seen(c).seq = n
        BY <2>4, <2>5, <4>1 DEF Newest, Known
      <4>3. l = n
        BY <1>1, <3>1
      <4> QED
        BY <2>1, <2>4, <4>2, <4>3 DEF Newest
    <3>2. CASE m > 0
      <4>1. 1 \in 1..m
        BY <1>1, <3>2
      <4>2. writes' # <<>>
        BY <1>3, <3>2
      <4> QED
        BY <1>4, <2>4, <4>1, <4>2
    <3> QED
      BY <1>1, <3>1, <3>2
  <2> QED
    BY <2>2, <2>3, <2>4, <2>5
<1> QED
  BY <1>6, <1>7, <1>8, <1>9, <1>10 DEF Files

(* Every operation keeps the invariant when the worker it stores and the   *)
(* workers it wrote down are a chain from the worker before.               *)
LEMMA CommitSound ==
  ASSUME IInv,
         NEW id \in WorkerIds, NEW old \in Worker, NEW pushed, NEW w,
         Chain(old, pushed, w),
         Known(id) => old = workers[id],
         Commit(id, pushed, w)
  PROVE  IInv'
<1>1. workers' = [workers EXCEPT ![id] = w] /\ w \in Worker /\ SoundWorker(w)
  BY DEF Commit, Chain, SoundWorker
<1>2. workers' \in [WorkerIds -> Worker \cup {NoWorker}]
  BY <1>1 DEF IInv, TypeOK
<1>3. writes' \in Seq(Snapshot)
  <2>1. pushed \in Seq(Worker)
    BY DEF Chain
  <2>2. \A i \in 1..Len(pushed) : SnapshotOf(id, pushed[i]) \in Snapshot
    BY SnapshotType DEF Chain
  <2>3. Len(pushed) \in Nat
    BY <2>1
  <2>4. [i \in 1..Len(pushed) |-> SnapshotOf(id, pushed[i])] \in Seq(Snapshot)
    BY <2>2, <2>3, IsASeq
  <2> QED
    BY <2>4 DEF Commit
<1>4. UNCHANGED <<stateFile, tempFile, shown, failures, clock>>
  BY DEF Commit, files
<1>5. TypeOK'
  BY <1>2, <1>3, <1>4 DEF IInv, TypeOK
<1>6. Sound'
  <2> SUFFICES ASSUME NEW v \in WorkerIds, Known(v)'
               PROVE  SoundWorker(workers'[v])
    BY DEF Sound
  <2>1. CASE v = id
    BY <1>1, <2>1 DEF IInv, TypeOK
  <2>2. CASE v # id
    BY <1>1, <2>2 DEF IInv, TypeOK, Sound, Known
  <2> QED
    BY <2>1, <2>2
<1>7. Files'
  BY CommitFiles DEF IInv
<1> QED
  BY <1>5, <1>6, <1>7 DEF IInv

(* Most operations record one event.                                       *)
LEMMA CommitOne ==
  ASSUME IInv, NEW id \in WorkerIds, Known(id),
         NEW w, Recorded(workers[id], w), Commit(id, <<w>>, w)
  PROVE  IInv'
<1> DEFINE old == workers[id]
<1>1. old \in Worker /\ Chain(old, <<>>, old)
  BY ChainNone DEF IInv, Sound, SoundWorker
<1>2. Chain(old, Append(<<>>, w), w)
  BY <1>1, ChainPush
<1>3. Append(<<>>, w) = <<w>>
  OBVIOUS
<1> QED
  BY <1>1, <1>2, <1>3, CommitSound

-----------------------------------------------------------------------------
LEMMA CreateSound ==
  ASSUME IInv, NEW id \in WorkerIds,
         NEW c \in Cwds, NEW allowlisted \in BOOLEAN, NEW auto \in BOOLEAN,
         Create(id, c, allowlisted, auto)
  PROVE  IInv'
<1> DEFINE old == Fresh(c, allowlisted, auto)
           w == Created(c, allowlisted, auto)
<1>1. old \in Worker
  BY DEF Fresh, Worker, WorkerStatus, WorkerFailureKind
<1>2. Recorded(old, w)
  BY CreatedSound
<1>3. ~Known(id) /\ Commit(id, <<w>>, w)
  BY DEF Create
<1>4. Chain(old, <<w>>, w)
  <2>1. Len(old.events) = 0
    BY DEF Fresh
  <2>2. w \in Worker /\ <<w>> \in Seq(Worker) /\ Len(<<w>>) = 1 /\ <<w>>[1] = w
    BY <1>2 DEF Recorded, SoundWorker
  <2>3. Len(w.events) = 1
    BY <1>2, <2>1 DEF Recorded
  <2> HIDE DEF old, w
  <2>4. \A k \in 1..Len(<<w>>) : k = 1
    BY <2>2
  <2> QED
    BY <1>2, <2>1, <2>2, <2>3, <2>4 DEF Chain, Recorded
<1> QED
  BY <1>1, <1>3, <1>4, CommitSound

LEMMA ObserveMisdeliverySound ==
  ASSUME IInv, NEW id \in WorkerIds, NEW screen \in Screen,
         ObserveMisdelivery(id, screen)
  PROVE  IInv'
<1> DEFINE w == workers[id]
           past == PastGate(w, screen)
           lost == Lost(past)
           armed == ReplayArmed(lost)
           pushed == Append(GatePushes(w, screen), lost)
<1>1. w \in Worker /\ SoundWorker(w)
  BY DEF ObserveMisdelivery, IInv, Sound, SoundWorker
<1>2. Chain(w, GatePushes(w, screen), past)
  BY <1>1, PastGateSound
<1>3. SoundWorker(past)
  BY <1>2 DEF Chain
<1>4. /\ Recorded(past, lost)
      /\ ~lost.prompt_in_flight
      /\ lost.last_error = "PromptDelivery"
      /\ lost.auto_recover_prompt_misdelivery = past.auto_recover_prompt_misdelivery
  BY <1>3, LostSound
<1>5. Chain(w, pushed, lost)
  BY <1>1, <1>2, <1>4, ChainPush
<1>6. CASE past.auto_recover_prompt_misdelivery /\ Commit(id, Append(pushed, armed), armed)
  <2>1. Recorded(lost, armed)
    BY <1>4, <1>6, ReplayArmedSound DEF Recorded
  <2>2. Chain(w, Append(pushed, armed), armed)
    BY <1>1, <1>5, <2>1, ChainPush
  <2> QED
    BY <1>1, <1>6, <2>2, CommitSound
<1>7. CASE Commit(id, pushed, lost)
  BY <1>1, <1>5, <1>7, CommitSound
<1> QED
  BY <1>6, <1>7 DEF ObserveMisdelivery

LEMMA ObserveCuesSound ==
  ASSUME IInv, NEW id \in WorkerIds, NEW screen \in Screen,
         ObserveCues(id, screen)
  PROVE  IInv'
<1> DEFINE w == workers[id]
           past == PastGate(w, screen)
           acked == Acknowledged(past, screen)
           ready == Ready(acked)
           pushed == GatePushes(w, screen)
<1>1. w \in Worker /\ SoundWorker(w)
  BY DEF ObserveCues, IInv, Sound, SoundWorker
<1>2. Chain(w, pushed, past)
  BY <1>1, PastGateSound
<1>3. SoundWorker(past)
  BY <1>2 DEF Chain
<1>4. SoundWorker(acked) /\ acked.cwd = past.cwd /\ acked.events = past.events
  BY <1>3, AcknowledgedSound
<1>5. Chain(w, pushed, acked)
  BY <1>2, <1>4, ChainMove
<1>6. Chain(w, Append(pushed, ready), ready)
  BY <1>1, <1>4, <1>5, ReadySound, ChainPush
<1>7. Commit(id, Append(pushed, ready), ready) \/ Commit(id, pushed, acked)
  BY DEF ObserveCues
<1>8. CASE Commit(id, Append(pushed, ready), ready)
  BY <1>1, <1>6, <1>8, CommitSound
<1>9. CASE Commit(id, pushed, acked)
  BY <1>1, <1>5, <1>9, CommitSound
<1> QED
  BY <1>7, <1>8, <1>9

LEMMA OperationSound ==
  ASSUME IInv, NEW id \in WorkerIds, Operation(id)
  PROVE  IInv'
<1> DEFINE w == workers[id]
<1>1. Known(id) => SoundWorker(w)
  BY DEF IInv, Sound
<1>2. ASSUME NEW c \in Cwds, NEW allowlisted \in BOOLEAN, NEW auto \in BOOLEAN,
             Create(id, c, allowlisted, auto)
      PROVE  IInv'
  BY <1>2, CreateSound
<1>3. ASSUME NEW screen \in Screen, ObserveGate(id, screen)
      PROVE  IInv'
  BY <1>1, <1>3, GatedSound, CommitOne DEF ObserveGate
<1>4. ASSUME NEW screen \in Screen, ObserveMisdelivery(id, screen)
      PROVE  IInv'
  BY <1>4, ObserveMisdeliverySound
<1>5. ASSUME NEW screen \in Screen, ObserveCues(id, screen)
      PROVE  IInv'
  BY <1>5, ObserveCuesSound
<1>6. CASE ResolveTrust(id)
  BY <1>1, <1>6, ClearedSound, CommitOne DEF ResolveTrust
<1>7. ASSUME NEW p \in Prompts \cup {NoPrompt}, SendPrompt(id, p)
      PROVE  IInv'
  BY <1>1, <1>7, DispatchedSound, CommitOne DEF SendPrompt
<1>8. CASE Restart(id)
  BY <1>1, <1>8, RebootedSound, CommitOne DEF Restart
<1>9. CASE Terminate(id)
  BY <1>1, <1>9, TerminatedSound, CommitOne DEF Terminate
<1>10. ASSUME NEW degraded \in BOOLEAN, ObserveCompletion(id, degraded)
       PROVE  IInv'
  BY <1>1, <1>10, CompletedSound, CommitOne DEF ObserveCompletion
<1> QED
  BY <1>2, <1>3, <1>4, <1>5, <1>6, <1>7, <1>8, <1>9, <1>10 DEF Operation

-----------------------------------------------------------------------------
(* What the temporary file of a directory holds when it is renamed, or     *)
(* would be: the oldest snapshot, what is left of it, or what it held.  A  *)
(* snapshot in it was never shown, nor was a newer one of that worker.     *)
LEMMA Held ==
  ASSUME TypeOK, Files, EmitStateFile
  PROVE  LET s == Head(writes)
             n == Len(writes)
             whole == [snapshot |-> s, updated_at |-> clock, seconds_since_update |-> 0]
         IN /\ s = writes[1] /\ s \in Snapshot /\ s.cwd \in Cwds /\ MomentOf(workers, s)
            /\ whole \in Stamped /\ n \in Nat \ {0}
            /\ Tail(writes) \in Seq(Snapshot) /\ Len(Tail(writes)) = n - 1 /\ (Tail(writes) # <<>> <=> n > 1)
            /\ \A i \in 1..(n - 1) : i + 1 \in 1..n /\ Tail(writes)[i] = writes[i + 1]
            /\ \A content \in {whole, Torn, tempFile[s.cwd]} :
                 /\ content \in Stamped \cup {NoFile, Torn}
                 /\ Past(s.cwd, content)
                 /\ Whole(content) => content.snapshot \in Snapshot /\ content.snapshot.worker_id \in WorkerIds
                 /\ Whole(content) => shown[s.cwd][content.snapshot.worker_id] < content.snapshot.seq
                 /\ \A i \in 1..(n - 1) : Older(content, Tail(writes)[i])
<1> DEFINE s == Head(writes)
           n == Len(writes)
           whole == [snapshot |-> s, updated_at |-> clock, seconds_since_update |-> 0]
<1>1. writes \in Seq(Snapshot) /\ writes # <<>>
  BY DEF TypeOK, EmitStateFile
<1>2. n \in Nat \ {0} /\ s = writes[1] /\ s \in Snapshot
  BY <1>1, EmptySeq
<1>3. /\ Tail(writes) \in Seq(Snapshot) /\ Len(Tail(writes)) = n - 1
      /\ \A i \in 1..(n - 1) : i + 1 \in 1..n /\ Tail(writes)[i] = writes[i + 1]
  BY <1>1, <1>2
<1>4. Tail(writes) # <<>> <=> n > 1
  <2>1. Tail(writes) = <<>> => Len(Tail(writes)) = 0
    BY EmptySeq, Zenon
  <2>2. Len(Tail(writes)) = 0 => Tail(writes) = <<>>
    BY <1>3, EmptySeq
  <2> QED
    BY <1>2, <1>3, <2>1, <2>2
<1>5. s.cwd \in Cwds /\ MomentOf(workers, s) /\ s.worker_id \in WorkerIds
  BY <1>2 DEF Snapshot, Files, WritesArePast
<1>6. whole \in Stamped /\ whole.snapshot = s
  BY <1>2 DEF TypeOK, Stamped
<1>7. 1 \in 1..n
  BY <1>2
<1> HIDE DEF s, n, whole
<1>8. ASSUME NEW content \in {whole, Torn, tempFile[s.cwd]}
      PROVE  /\ content \in Stamped \cup {NoFile, Torn}
             /\ Past(s.cwd, content)
             /\ Whole(content) => content.snapshot \in Snapshot /\ content.snapshot.worker_id \in WorkerIds
             /\ Whole(content) => shown[s.cwd][content.snapshot.worker_id] < content.snapshot.seq
             /\ \A i \in 1..(n - 1) : Older(content, Tail(writes)[i])
  <2>1. content \in Stamped \cup {NoFile, Torn}
    BY <1>5, <1>6, <1>8 DEF TypeOK
  <2>2. Whole(content) => content.snapshot \in Snapshot /\ content.snapshot.worker_id \in WorkerIds
    BY <2>1 DEF Whole, Stamped, Snapshot
  <2>3. CASE content = whole
    <3>1. Past(s.cwd, content)
      BY <1>5, <1>6, <2>3 DEF Past
    <3>2. shown[s.cwd][content.snapshot.worker_id] < content.snapshot.seq
      BY <1>2, <1>5, <1>6, <1>7, <2>3 DEF Files, WritesAreNewer, n
    <3>3. ASSUME NEW i \in 1..(n - 1) PROVE Older(content, Tail(writes)[i])
      <4>1. /\ Tail(writes)[i] = writes[i + 1] /\ i + 1 \in 1..Len(writes) /\ 1 \in 1..Len(writes)
            /\ 1 < i + 1
        BY <1>2, <1>3, <1>7 DEF n
      <4>2. writes[1].seq < writes[i + 1].seq
        BY <4>1 DEF Files, WritesInOrder
      <4> QED
        BY <1>2, <1>6, <2>3, <4>1, <4>2 DEF Older
    <3> QED
      BY <2>1, <2>2, <3>1, <3>2, <3>3
  <2>4. CASE content = Torn
    BY <2>1, <2>4 DEF Whole, Past, Older
  <2>5. CASE content = tempFile[s.cwd]
    <3>1. Past(s.cwd, content)
      BY <1>5, <2>5 DEF Files, FilesArePast
    <3>2. Whole(content) => shown[s.cwd][content.snapshot.worker_id] < content.snapshot.seq
      BY <1>5, <2>5 DEF Files, TempsAreNewer
    <3>3. ASSUME NEW i \in 1..(n - 1) PROVE Older(content, Tail(writes)[i])
      <4>1. Tail(writes)[i] = writes[i + 1] /\ i + 1 \in 1..Len(writes)
        BY <1>3 DEF n
      <4> QED
        BY <1>5, <2>5, <4>1 DEF Files, WritesAreNewer
    <3> QED
      BY <2>1, <2>2, <3>1, <3>2, <3>3
  <2> QED
    BY <1>8, <2>3, <2>4, <2>5
<1> QED
  BY <1>2, <1>3, <1>4, <1>5, <1>6, <1>8 DEF s, n, whole

(* Writing the oldest snapshot down, or failing to: it is newer than what  *)
(* any file showed of its worker, and no other file shows that worker.     *)
LEMMA EmitFiles ==
  ASSUME TypeOK, Files, EmitStateFile
  PROVE  Files' /\ TypeOK'
<1> DEFINE s == Head(writes)
           rest == Tail(writes)
           n == Len(writes)
           d == s.cwd
           whole == [snapshot |-> s, updated_at |-> clock, seconds_since_update |-> 0]
<1>1. /\ workers' = workers /\ writes' = rest /\ clock' = clock /\ writes # <<>>
  BY DEF EmitStateFile
<1>2. /\ s = writes[1] /\ s \in Snapshot /\ d \in Cwds /\ MomentOf(workers, s)
      /\ whole \in Stamped /\ n \in Nat \ {0}
      /\ rest \in Seq(Snapshot) /\ Len(rest) = n - 1 /\ (rest # <<>> <=> n > 1)
      /\ \A i \in 1..(n - 1) : i + 1 \in 1..n /\ rest[i] = writes[i + 1]
  BY Held
<1>3. PICK content \in {whole, Torn, tempFile[d]} :
        /\ Renamed(d, content) \/ NotRenamed(d, content)
        /\ \/ content = whole /\ Renamed(d, content) /\ failures' = failures
           \/ failures' = failures + 1
  BY DEF EmitStateFile
<1>4. /\ content \in Stamped \cup {NoFile, Torn}
      /\ Past(d, content)
      /\ Whole(content) => content.snapshot \in Snapshot /\ content.snapshot.worker_id \in WorkerIds
      /\ Whole(content) => shown[d][content.snapshot.worker_id] < content.snapshot.seq
      /\ \A i \in 1..(n - 1) : Older(content, rest[i])
  BY <1>3, Held
<1>5. whole.snapshot = s /\ failures \in Nat
  BY DEF TypeOK
<1> HIDE DEF s, rest, n, d, whole
<1>6. /\ \A c \in Cwds : c # d => stateFile'[c] = stateFile[c] /\ tempFile'[c] = tempFile[c]
      /\ \/ stateFile'[d] = content /\ tempFile'[d] = NoFile /\ content # NoFile
         \/ stateFile' = stateFile /\ tempFile'[d] = content
  BY <1>2, <1>3 DEF TypeOK, Renamed, NotRenamed
<1>7. \A c \in Cwds, v \in WorkerIds :
        \/ shown'[c][v] = shown[c][v]
        \/ /\ Whole(content) /\ c = d /\ v = content.snapshot.worker_id
           /\ shown'[c][v] = content.snapshot.seq /\ tempFile'[c] = NoFile
  <2>1. CASE NotRenamed(d, content)
    BY <2>1 DEF NotRenamed
  <2>2. CASE Renamed(d, content) /\ content = Torn
    BY <2>2 DEF Renamed
  <2>3. CASE Renamed(d, content) /\ content # Torn
    <3>1. /\ Whole(content) /\ tempFile'[d] = NoFile
          /\ shown' = [shown EXCEPT ![d][content.snapshot.worker_id] = content.snapshot.seq]
      BY <1>2, <2>3 DEF Renamed, Whole, TypeOK
    <3> QED
      BY <1>2, <1>4, <3>1 DEF TypeOK
  <2> QED
    BY <1>3, <2>1, <2>2, <2>3
<1>8. TypeOK'
  <2>1. /\ stateFile' \in [Cwds -> Stamped \cup {NoFile, Torn}]
        /\ tempFile' \in [Cwds -> Stamped \cup {NoFile, Torn}]
    BY <1>2, <1>3, <1>4 DEF TypeOK, Renamed, NotRenamed
  <2>2. shown' \in [Cwds -> [WorkerIds -> Nat]]
    <3>1. CASE shown' = shown
      BY <3>1 DEF TypeOK
    <3>2. CASE shown' # shown
      <4>1. /\ content # Torn /\ content # NoFile
            /\ shown' = [shown EXCEPT ![d][content.snapshot.worker_id] = content.snapshot.seq]
        BY <1>3, <3>2 DEF Renamed, NotRenamed
      <4>2. content.snapshot.worker_id \in WorkerIds /\ content.snapshot.seq \in Nat
        BY <1>4, <4>1 DEF Whole, Snapshot
      <4> QED
        BY <1>2, <4>1, <4>2 DEF TypeOK
    <3> QED
      BY <3>1, <3>2
  <2> QED
    BY <1>1, <1>2, <1>3, <1>5, <2>1, <2>2 DEF TypeOK
<1>9. FilesArePast'
  <2> SUFFICES ASSUME NEW c \in Cwds
               PROVE  /\ Whole(stateFile'[c]) =>
                           /\ stateFile'[c].snapshot.cwd = c
                           /\ MomentOf(workers, stateFile'[c].snapshot)
                      /\ Whole(tempFile'[c]) =>
                           /\ tempFile'[c].snapshot.cwd = c
                           /\ MomentOf(workers, tempFile'[c].snapshot)
    BY <1>1 DEF FilesArePast, Past, Whole
  <2>1. /\ Past(c, stateFile[c]) /\ Past(c, tempFile[c])
        /\ Past(d, content)
    BY <1>4 DEF Files, FilesArePast
  <2>2. CASE c # d
    BY <1>6, <2>1, <2>2 DEF Past
  <2>3. CASE c = d
    BY <1>6, <2>1, <2>3 DEF Past, Whole
  <2> QED
    BY <2>2, <2>3
<1>10. ShownIsPast'
  <2> SUFFICES ASSUME NEW c \in Cwds, NEW v \in WorkerIds
               PROVE  shown'[c][v] <= Logged(workers, v)
    BY <1>1 DEF ShownIsPast
  <2>1. CASE shown'[c][v] = shown[c][v]
    BY <2>1 DEF Files, ShownIsPast
  <2>2. CASE shown'[c][v] # shown[c][v]
    <3>1. Whole(content) /\ v = content.snapshot.worker_id /\ shown'[c][v] = content.snapshot.seq
      BY <1>7, <2>2
    <3>2. content.snapshot.seq \in 1..Len(workers[v].events) /\ workers[v] # NoWorker
      BY <1>4, <3>1 DEF Past, MomentOf
    <3>3. workers[v].events \in Seq(Event)
      BY <3>2 DEF TypeOK, Worker
    <3> QED
      BY <3>1, <3>2, <3>3 DEF Logged
  <2> QED
    BY <2>1, <2>2
<1>11. WritesArePast'
  <2> SUFFICES ASSUME NEW i \in 1..(n - 1)
               PROVE  MomentOf(workers, rest[i])
    BY <1>1, <1>2 DEF WritesArePast
  <2> QED
    BY <1>2 DEF Files, WritesArePast, n
<1>12. WritesInOrder'
  <2> SUFFICES ASSUME NEW i \in 1..(n - 1), NEW j \in 1..(n - 1)
               PROVE  /\ rest[i].worker_id = rest[j].worker_id
                      /\ i < j => rest[i].seq < rest[j].seq
    BY <1>1, <1>2 DEF WritesInOrder
  <2>1. i + 1 \in 1..n /\ j + 1 \in 1..n /\ (i < j => i + 1 < j + 1)
    BY <1>2
  <2> QED
    BY <1>2, <2>1 DEF Files, WritesInOrder, n
<1>13. WritesAreNewer'
  <2> SUFFICES ASSUME NEW c \in Cwds, NEW i \in 1..(n - 1)
               PROVE  shown'[c][rest[i].worker_id] < rest[i].seq /\ Older(tempFile'[c], rest[i])
    BY <1>1, <1>2 DEF WritesAreNewer
  <2>1. /\ shown[c][rest[i].worker_id] < rest[i].seq /\ Older(tempFile[c], rest[i])
        /\ Older(content, rest[i]) /\ rest[i].worker_id \in WorkerIds
    <3>1. i + 1 \in 1..n /\ rest[i] = writes[i + 1]
      BY <1>2
    <3>2. shown[c][rest[i].worker_id] < rest[i].seq /\ Older(tempFile[c], rest[i])
      BY <3>1 DEF Files, WritesAreNewer, n
    <3>3. rest[i].worker_id \in WorkerIds
      <4>1. rest[i] \in Snapshot
        BY <1>2
      <4> QED
        BY <4>1 DEF Snapshot
    <3>4. Older(content, rest[i])
      BY <1>2, <1>4
    <3> QED
      BY <3>2, <3>3, <3>4
  <2>2. Older(tempFile'[c], rest[i])
    BY <1>6, <2>1 DEF Older, Whole
  <2>3. shown'[c][rest[i].worker_id] < rest[i].seq
    BY <1>7, <2>1 DEF Older
  <2> QED
    BY <2>2, <2>3
<1>14. TempsAreNewer'
  <2> SUFFICES ASSUME NEW c \in Cwds, Whole(tempFile'[c])
               PROVE  shown'[c][tempFile'[c].snapshot.worker_id] < tempFile'[c].snapshot.seq
    BY DEF TempsAreNewer, Whole
  <2>1. tempFile'[c] = tempFile[c] \/ (c = d /\ tempFile'[c] = content)
    BY <1>6 DEF Whole
  <2>2. tempFile'[c].snapshot.worker_id \in WorkerIds
    BY <1>4, <2>1 DEF TypeOK, Whole, Stamped, Snapshot
  <2>3. shown'[c][tempFile'[c].snapshot.worker_id] = shown[c][tempFile'[c].snapshot.worker_id]
    BY <1>7, <2>2 DEF Whole
  <2> QED
    BY <1>4, <2>1, <2>3 DEF Files, TempsAreNewer
<1>15. FilesCatchUp'
  <2> SUFFICES ASSUME failures' = 0
               PROVE  /\ rest # <<>> => Newest(workers, rest[n - 1])
                      /\ \A c \in Cwds : stateFile'[c] # NoFile =>
                           /\ stateFile'[c] # Torn
                           /\ \/ Newest(workers, stateFile'[c].snapshot)
                              \/ /\ rest # <<>>
                                 /\ rest[1].worker_id = stateFile'[c].snapshot.worker_id
    BY <1>1, <1>2 DEF FilesCatchUp
  <2>1. failures = 0 /\ content = whole /\ Renamed(d, content)
    BY <1>3, <1>5
  <2>2. Newest(workers, writes[n])
    BY <1>1, <2>1 DEF Files, FilesCatchUp, n
  <2>3. ASSUME rest # <<>>
        PROVE  /\ Newest(workers, rest[n - 1])
               /\ rest[1].worker_id = s.worker_id
    <3>1. n - 1 \in 1..(n - 1) /\ 1 \in 1..(n - 1) /\ (n - 1) + 1 = n
      BY <1>2, <2>3
    <3>2. rest[n - 1] = writes[n] /\ rest[1] = writes[1 + 1]
      BY <1>2, <3>1
    <3>3. 1 \in 1..n /\ 1 + 1 \in 1..n
      BY <1>2, <3>1
    <3> QED
      BY <1>2, <2>2, <3>2, <3>3 DEF Files, WritesInOrder, n
  <2>4. ASSUME NEW c \in Cwds, stateFile'[c] # NoFile
        PROVE  /\ stateFile'[c] # Torn
               /\ \/ Newest(workers, stateFile'[c].snapshot)
                  \/ /\ rest # <<>>
                     /\ rest[1].worker_id = stateFile'[c].snapshot.worker_id
    <3>1. CASE c = d
      <4>1. stateFile'[c] = whole /\ whole # Torn
        BY <1>2, <2>1, <3>1, TornAssumption DEF Renamed, TypeOK
      <4>2. CASE rest # <<>>
        BY <1>5, <2>3, <4>1, <4>2
      <4>3. CASE rest = <<>>
        <5>1. n = 1
          BY <1>2, <4>3
        <5> QED
          BY <1>2, <1>5, <2>2, <4>1, <5>1
      <4> QED
        BY <4>2, <4>3
    <3>2. CASE c # d
      <4>1. stateFile'[c] = stateFile[c]
        BY <1>6, <3>2
      <4>2. /\ stateFile[c] # Torn
            /\ \/ Newest(workers, stateFile[c].snapshot)
               \/ writes[1].worker_id = stateFile[c].snapshot.worker_id
        BY <2>1, <2>4, <4>1 DEF Files, FilesCatchUp
      <4>3. stateFile[c].snapshot.cwd = c /\ MomentOf(workers, stateFile[c].snapshot)
        BY <2>4, <4>1, <4>2 DEF Files, FilesArePast, Past, Whole
      <4>4. stateFile[c].snapshot.worker_id # s.worker_id
        BY <1>2, <3>2, <4>3 DEF MomentOf, d
      <4> QED
        BY <1>2, <4>1, <4>2, <4>4
    <3> QED
      BY <3>1, <3>2
  <2> QED
    BY <2>3, <2>4
<1> QED
  BY <1>8, <1>9, <1>10, <1>11, <1>12, <1>13, <1>14, <1>15 DEF Files

LEMMA EmitSound ==
  ASSUME IInv, EmitStateFile
  PROVE  IInv'
<1>1. Sound'
  BY DEF IInv, Sound, Known, EmitStateFile
<1>2. Files' /\ TypeOK'
  BY EmitFiles DEF IInv
<1> QED
  BY <1>1, <1>2 DEF IInv

LEMMA StepSound == IInv /\ [Next]_vars => IInv'
<1> SUFFICES ASSUME IInv, [Next]_vars
             PROVE  IInv'
  OBVIOUS
<1>1. ASSUME NEW id \in WorkerIds, Operation(id)
      PROVE  IInv'
  BY <1>1, OperationSound
<1>2. CASE EmitStateFile
  BY <1>2, EmitSound
<1>3. CASE Tick
  BY <1>3 DEF Tick, files, IInv, TypeOK, Sound, Known, Files, FilesArePast, Past, MomentOf, ShownIsPast,
              Logged, WritesArePast, WritesInOrder, WritesAreNewer, TempsAreNewer, FilesCatchUp
<1>4. CASE UNCHANGED vars
  BY <1>4 DEF vars, files, IInv, TypeOK, Sound, Known, Files, FilesArePast, Past, MomentOf, ShownIsPast,
              Logged, WritesArePast, WritesInOrder, WritesAreNewer, TempsAreNewer, FilesCatchUp
<1> QED
  BY <1>1, <1>2, <1>3, <1>4 DEF Next

LEMMA InitSound == Init => IInv
<1> SUFFICES ASSUME Init
             PROVE  IInv
  OBVIOUS
<1>1. TypeOK /\ Sound
  BY DEF Init, TypeOK, Sound, Known
<1>2. Files
  BY DEF Init, Files, FilesArePast, Past, Whole, ShownIsPast, Logged, WritesArePast, WritesInOrder,
         WritesAreNewer, Older, TempsAreNewer, FilesCatchUp
<1> QED
  BY <1>1, <1>2 DEF IInv

(* The inductive invariant.                                                *)
THEOREM Invariance == Spec => []IInv
  BY InitSound, StepSound, PTL DEF Spec

(* Every worker, file and snapshot is always well-typed.                   *)
THEOREM TypeCorrect == Spec => []TypeOK
<1>1. IInv => TypeOK
  BY DEF IInv
<1> QED
  BY <1>1, Invariance, PTL

(* Prompts are never sent before ready_for_prompt: every dispatch on       *)
(* record directly follows a readiness of its own.                         *)
THEOREM HandshakeCorrect == Spec => []HandshakePerDispatch
<1>1. IInv => HandshakePerDispatch
  BY DEF IInv, Sound, SoundWorker, HandshakePerDispatch
<1> QED
  BY <1>1, Invariance, PTL

(* last_error and status tell the same story across all handlers.          *)
THEOREM ErrorCorrect == Spec => []ErrorExplainsStatus
<1>1. IInv => ErrorExplainsStatus
  BY DEF IInv, Sound, SoundWorker, ErrorExplainsStatus
<1> QED
  BY <1>1, Invariance, PTL

(* No worker can take a prompt while one is in flight.                     *)
THEOREM FlightCorrect == Spec => []NoSecondPromptInFlight
<1>1. IInv => NoSecondPromptInFlight
  BY DEF IInv, Sound, SoundWorker, NoSecondPromptInFlight
<1> QED
  BY <1>1, Invariance, PTL

(* What the handlers keep beside the status agrees with the event log,     *)
(* whatever order they were called in, and so does the file when no call   *)
(* failed.                                                                 *)
THEOREM BookkeepingCorrect == Spec => []Bookkeeping
<1>1. IInv => AttemptsCountDispatches
  BY DEF IInv, Sound, SoundWorker, Books, Dispatches, AttemptsCountDispatches
<1>2. IInv => ReplayIsTheLostPrompt
  BY DEF IInv, Sound, SoundWorker, Books, ArmedOnRecord, ReplayIsTheLostPrompt,
         WorkerReplay
<1>3. IInv => NoSecondPromptInFlight
  BY DEF IInv, Sound, SoundWorker, NoSecondPromptInFlight
<1>4. IInv => ClearedGateWasResolved
  BY DEF IInv, Sound, SoundWorker, Books, ResolvedOnRecord, ClearedGateWasResolved,
         WorkerGate
<1>5. IInv => FileShowsNewestEvent
  BY DEF IInv, Files, FilesCatchUp, Newest, FileShowsNewestEvent
<1>6. IInv => Bookkeeping
  BY <1>1, <1>2, <1>3, <1>4, <1>5 DEF Bookkeeping
<1> QED
  BY <1>6, Invariance, PTL

(* Whatever calls fail, what a poller can parse is a moment of one worker  *)
(* of that directory.                                                      *)
THEOREM FileCorrect == Spec => []FileIsAPastMoment
<1>1. IInv => FileIsAPastMoment
  BY DEF IInv, Files, FilesArePast, Past, MomentOf, FileIsAPastMoment
<1> QED
  BY <1>1, Invariance, PTL

(* What a file comes to show of a worker is newer than all that it showed  *)
(* of it: what an operation has still to write is, and so is what calls    *)
(* that failed have left in the temporary file.                            *)
LEMMA FileMovesOn ==
  ASSUME IInv, [Next]_vars, NEW c \in Cwds,
         Whole(stateFile'[c]), stateFile'[c] # stateFile[c]
  PROVE  stateFile'[c].snapshot.seq > shown[c][stateFile'[c].snapshot.worker_id]
<1>1. EmitStateFile
  <2>1. \A id, pushed, w : Commit(id, pushed, w) => stateFile' = stateFile
    BY DEF Commit, files
  <2>2. ASSUME NEW id \in WorkerIds, Operation(id)
        PROVE  stateFile' = stateFile
    <3>1. ASSUME NEW a \in Cwds, NEW allowlisted \in BOOLEAN, NEW auto \in BOOLEAN,
                 Create(id, a, allowlisted, auto)
          PROVE  stateFile' = stateFile
      BY <2>1, <3>1 DEF Create
    <3>2. ASSUME NEW screen \in Screen, ObserveGate(id, screen)
          PROVE  stateFile' = stateFile
      BY <2>1, <3>2 DEF ObserveGate
    <3>3. ASSUME NEW screen \in Screen, ObserveMisdelivery(id, screen)
          PROVE  stateFile' = stateFile
      BY <2>1, <3>3 DEF ObserveMisdelivery
    <3>4. ASSUME NEW screen \in Screen, ObserveCues(id, screen)
          PROVE  stateFile' = stateFile
      BY <2>1, <3>4 DEF ObserveCues
    <3>5. ASSUME NEW p \in Prompts \cup {NoPrompt}, SendPrompt(id, p)
          PROVE  stateFile' = stateFile
      BY <2>1, <3>5 DEF SendPrompt
    <3>6. ASSUME NEW degraded \in BOOLEAN, ObserveCompletion(id, degraded)
          PROVE  stateFile' = stateFile
      BY <2>1, <3>6 DEF ObserveCompletion
    <3>7. ResolveTrust(id) \/ Restart(id) \/ Terminate(id) => stateFile' = stateFile
      BY <2>1 DEF ResolveTrust, Restart, Terminate
    <3> QED
      BY <2>2, <3>1, <3>2, <3>3, <3>4, <3>5, <3>6, <3>7 DEF Operation
  <2> QED
    BY <2>2 DEF Next, vars, files, Tick
<1> DEFINE s == Head(writes)
           d == s.cwd
           whole == [snapshot |-> s, updated_at |-> clock, seconds_since_update |-> 0]
<1>2. d \in Cwds
  BY <1>1, Held DEF IInv
<1>3. PICK content \in {whole, Torn, tempFile[d]} : Renamed(d, content) \/ NotRenamed(d, content)
  BY <1>1 DEF EmitStateFile
<1>4. Whole(content) => shown[d][content.snapshot.worker_id] < content.snapshot.seq
  BY <1>1, <1>3, Held DEF IInv
<1>5. Whole(content) => content.snapshot \in Snapshot /\ content.snapshot.worker_id \in WorkerIds
  BY <1>1, <1>3, Held DEF IInv
<1> HIDE DEF s, d, whole
<1>6. c = d /\ stateFile'[c] = content
  BY <1>2, <1>3 DEF IInv, TypeOK, Renamed, NotRenamed
<1>7. shown[c][content.snapshot.worker_id] \in Nat /\ content.snapshot.seq \in Nat
  BY <1>5, <1>6 DEF IInv, TypeOK, Snapshot
<1> QED
  BY <1>4, <1>6, <1>7

THEOREM PollerCorrect == Spec => FileNeverGoesBack
<1>1. IInv /\ [Next]_vars =>
        [\A c \in Cwds :
           Whole(stateFile'[c]) /\ stateFile'[c] # stateFile[c] =>
             stateFile'[c].snapshot.seq > shown[c][stateFile'[c].snapshot.worker_id]]_vars
  BY FileMovesOn
<1> QED
  BY <1>1, Invariance, PTL DEF Spec, FileNeverGoesBack
===============================================================================
