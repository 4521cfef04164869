---------------------------- MODULE AgentSnapshots ----------------------------
(***************************************************************************)
(* The snapshots of the local agent server, ui/agent_server.py: a request  *)
(* begins one, the tools of the request save a file in it before they      *)
(* first change it, and a rollback writes the saved files back.            *)
(*                                                                         *)
(* HTTPServer serves one request at a time, so the handlers do not         *)
(* interleave; the user's editor and the shell commands of the model       *)
(* change files without the server's knowledge.  A text is a number, 0 for *)
(* a file that does not exist; files are read and written as text, which   *)
(* does not keep line endings.                                             *)
(***************************************************************************)
EXTENDS Naturals, SequencesExt

CONSTANTS
  Files,
  MaxSnapshots,  \* _MAX_SNAPSHOTS
  MaxRequests, MaxWrites, MaxRollbacks, MaxFaults  \* bounds

VARIABLES
  disk,       \* the text of a file and its form: "plain", "crlf" or "closed" (unreadable)
  snapshots,  \* _snapshots: of each, the files saved in it
  past,       \* of each snapshot: the disk when it began, the files the tools have changed
              \* since, and those with changes since that no snapshot can undo
  serving,    \* a request is being served
  last,       \* the rollback that ended last, until something changes
  requests, writes, rollbacks, faults

vars == <<disk, snapshots, past, serving, last, requests, writes, rollbacks, faults>>

Content == [text : 0..MaxWrites + 1, form : {"plain", "crlf", "closed"}]
Absent == [text |-> 0, form |-> "plain"]
Text(n) == [text |-> n, form |-> "plain"]
NoRollback == [done |-> FALSE, errors |-> {}, past |-> <<>>, newest |-> FALSE]

Init ==
  /\ disk \in [Files -> {Absent} \cup [text : {1}, form : {"plain", "crlf", "closed"}]]
  /\ snapshots = <<>> /\ past = <<>> /\ serving = FALSE /\ last = NoRollback
  /\ requests = 0 /\ writes = 0 /\ rollbacks = 0 /\ faults = 0

Newest == Len(snapshots)
Limited(s) == IF Len(s) > MaxSnapshots THEN Tail(s) ELSE s

\* run_agent_loop begins with _create_snapshot, which forgets the oldest of too many.
Request ==
  /\ ~serving /\ requests < MaxRequests
  /\ serving' = TRUE /\ requests' = requests + 1
  /\ snapshots' = Limited(Append(snapshots, <<>>))
  /\ past' = Limited(Append(past, [disk |-> disk, others |-> {}, tools |-> {}]))
  /\ last' = NoRollback
  /\ UNCHANGED <<disk, writes, rollbacks, faults>>

\* The model answers without a tool call, the turns are used up, or the loop raises.
EndRequest ==
  /\ serving /\ serving' = FALSE
  /\ UNCHANGED <<disk, snapshots, past, last, requests, writes, rollbacks, faults>>

\* Mutant of Save: the newest state of the file is saved, not the first.
SaveAlways(p) == [f \in DOMAIN snapshots[Newest] \cup {p} |->
  IF f # p THEN snapshots[Newest][f] ELSE IF disk[p].form = "closed" THEN 0 ELSE disk[p].text]

\* Mutant of Save: a file that does not exist is not worth saving.
SaveExisting(p) ==
  IF p \in DOMAIN snapshots[Newest] \/ disk[p] = Absent THEN snapshots[Newest]
  ELSE [f \in DOMAIN snapshots[Newest] \cup {p} |->
          IF f # p THEN snapshots[Newest][f] ELSE IF disk[p].form = "closed" THEN 0 ELSE disk[p].text]

\* _snapshot_save_file: once per snapshot; a file that cannot be read counts as absent.
Save(p) ==
  IF p \in DOMAIN snapshots[Newest] THEN snapshots[Newest]
  ELSE [f \in DOMAIN snapshots[Newest] \cup {p} |->
          IF f # p THEN snapshots[Newest][f] ELSE IF disk[p].form = "closed" THEN 0 ELSE disk[p].text]

\* _run_write_file and _run_edit_file: the file is saved first and replaced at the end, if
\* nothing fails in between; only a file that is there and can be read is edited.
Change(p) ==
  /\ serving /\ writes < MaxWrites /\ writes' = writes + 1
  /\ snapshots' = IF Newest = 0 THEN snapshots ELSE [snapshots EXCEPT ![Newest] = Save(p)]
  /\ \/ /\ disk' = [disk EXCEPT ![p] = Text(writes + 2)]
        /\ past' = [i \in DOMAIN past |-> [past[i] EXCEPT !.tools = @ \cup {p}]]
     \/ UNCHANGED <<disk, past>>
  /\ last' = NoRollback
  /\ UNCHANGED <<serving, requests, rollbacks, faults>>

\* A shell command of the model, or the user: nothing is saved.
Outside(p) ==
  /\ writes < MaxWrites /\ writes' = writes + 1
  /\ \E c \in {Absent, Text(writes + 2)} : disk' = [disk EXCEPT ![p] = c]
  /\ past' = [i \in DOMAIN past |-> [past[i] EXCEPT !.others = @ \cup {p}]]
  /\ last' = NoRollback
  /\ UNCHANGED <<snapshots, serving, requests, rollbacks, faults>>

\* A rollback that restored anything forgets its snapshot and the newer ones.
Forgotten(i, restored) == IF restored = {} THEN Newest ELSE i - 1

\* What it forgets without having restored it.
LeftOver(i, errors) ==
  errors \cup ((UNION {DOMAIN snapshots[k] : k \in i + 1..Newest}) \ DOMAIN snapshots[i])

\* _rollback_snapshot: each file by itself; a file that did not exist is removed.
Rollback ==
  /\ ~serving /\ rollbacks < MaxRollbacks /\ rollbacks' = rollbacks + 1
  /\ \E i \in 1..Newest : \E errors \in SUBSET DOMAIN snapshots[i] :
       LET saved == snapshots[i]
           restored == {p \in DOMAIN saved \ errors : saved[p] # 0 \/ disk[p] # Absent} IN
       /\ errors # {} => faults < MaxFaults
       /\ faults' = IF errors = {} THEN faults ELSE faults + 1
       /\ disk' = [p \in Files |-> IF p \in restored THEN Text(saved[p]) ELSE disk[p]]
       /\ snapshots' = SubSeq(snapshots, 1, Forgotten(i, restored))
       /\ past' = [k \in 1..Forgotten(i, restored) |->
                     [past[k] EXCEPT !.others = @ \cup IF restored = {} THEN {} ELSE LeftOver(i, errors)]]
       /\ last' = [done |-> TRUE, errors |-> errors, past |-> past[i], newest |-> i = Newest]
  /\ UNCHANGED <<serving, requests, writes>>

Next == Request \/ EndRequest \/ Rollback \/ (\E p \in Files : Change(p) \/ Outside(p))
-----------------------------------------------------------------------------
TypeOK ==
  /\ disk \in [Files -> Content]
  /\ Len(snapshots) <= MaxSnapshots /\ Len(past) = Len(snapshots)
  /\ \A i \in DOMAIN snapshots : DOMAIN snapshots[i] \subseteq Files /\ \A p \in DOMAIN snapshots[i] : snapshots[i][p] \in 0..MaxWrites + 1

\* What a rollback can give back of a file: its text, unless it could not be read.
Kept(c) == IF c.form = "closed" THEN Absent ELSE Text(c.text)

(* A snapshot holds every file the tools changed in its request, as it was *)
(* when the request began, if nobody else changed the file meanwhile.      *)
SnapshotsAreOriginals ==
  serving /\ Newest > 0 =>
    LET began == past[Newest] IN
    \A p \in began.tools \ began.others :
      p \in DOMAIN snapshots[Newest] /\ Text(snapshots[Newest][p]) = Kept(began.disk[p])

(* A rollback without errors of the newest snapshot undoes its request,    *)
(* and one after another the requests before it: of all the files the      *)
(* tools changed since, none is left changed.                              *)
NewestIsUndone ==
  last.done /\ last.newest /\ last.errors = {} =>
    \A p \in last.past.tools \ last.past.others : disk[p] = Kept(last.past.disk[p])

RollbackIsSound == SnapshotsAreOriginals /\ NewestIsUndone

(* agent.html:1406: one can go back to a request, and all the files are as *)
(* they were before it.                                                    *)
AllFilesAreRestored ==
  last.done /\ last.errors = {} =>
    \A p \in last.past.tools \ last.past.others :
      last.past.disk[p].form = "plain" => disk[p] = last.past.disk[p]

-----------------------------------------------------------------------------
(* What all this follows from.                                             *)

\* None of the snapshots from i to j has saved the file.
Unsaved(p, i, j) == \A k \in i..j : p \notin DOMAIN snapshots[k]

\* The file is as it was when snapshot i began, or as a rollback left it; the latter if the
\* tools have changed it since, unless `tools' say that they have changed it later, too.
Unchanged(p, i, content, tools) ==
  /\ content \in {past[i].disk[p], Kept(past[i].disk[p])}
  /\ p \in past[i].tools \ tools => content = Kept(past[i].disk[p])

\* A file that nobody else changed and that was not saved is unchanged: when a later snapshot
\* began, and now.
Moments ==
  \A i \in 1..Newest : \A p \in Files \ past[i].others :
    /\ \A k \in i + 1..Newest : Unsaved(p, i, k - 1) => Unchanged(p, i, past[k].disk[p], past[k].tools)
    /\ Unsaved(p, i, Newest) => Unchanged(p, i, disk[p], {})

\* What is saved is the original.
Originals ==
  \A i \in 1..Newest : \A p \in DOMAIN snapshots[i] \ past[i].others :
    Text(snapshots[i][p]) = Kept(past[i].disk[p])

\* What others change, they change for every snapshot before.
OthersSince == \A i, k \in 1..Newest : i <= k => past[k].others \subseteq past[i].others

SavedFirst == serving /\ Newest > 0 => past[Newest].tools \subseteq DOMAIN snapshots[Newest]

Saves == UNION {[saved -> 0..MaxWrites + 1] : saved \in SUBSET Files}
Past == [disk : [Files -> Content], others : SUBSET Files, tools : SUBSET Files]

Typed ==
  /\ disk \in [Files -> Content] /\ writes \in 0..MaxWrites /\ serving \in BOOLEAN
  /\ snapshots \in Seq(Saves) /\ past \in Seq(Past)
  /\ Len(snapshots) <= MaxSnapshots /\ Len(past) = Len(snapshots)

Inv == Typed /\ Moments /\ Originals /\ OthersSince /\ SavedFirst /\ NewestIsUndone
===============================================================================
