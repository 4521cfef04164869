---------------------------- MODULE SessionStore ----------------------------
(***************************************************************************)
(* The session files of the interactive program: incremental appends,      *)
(* snapshots with rotation, and the commands that move between files       *)
(* (runtime/src/session.rs, rusty-claude-cli/src/main.rs).                 *)
(*                                                                         *)
(* A message is a number, 0 the summary that compaction leaves.  What a    *)
(* crash or a failed system call can separate is a step of its own: the    *)
(* two writes of writeln!, the rename of a rotation, the rename that       *)
(* publishes a snapshot, the removal of old rotations.                     *)
(***************************************************************************)
EXTENDS Naturals, Sequences, FiniteSets, SequencesExt

CONSTANTS RotateAfter,  \* ROTATE_AFTER_BYTES, in messages
          MaxRotated,   \* MAX_ROTATED_FILES
          PreserveRecent, \* preserve_recent_messages
          Sessions,     \* the ids that generate_session_id may hand out
          MaxMessages, MaxFaults, MaxClock  \* bounds on the behaviours

VARIABLES
  disk,     \* the session files, by their paths
  older,    \* for each the paths of those that were written before it
  active,   \* path of the open session
  id,       \* the id the session carries
  memory,   \* the messages of the session in memory
  step,     \* where the program is
  for,      \* what the append or the save is for
  warned,   \* the history of a prompt could not be written ("warning: ...")
  acked,    \* ghost: per session, the messages the program counts as saved
  used, next, faults, clock  \* ids used, messages, failures, rotation time

vars == <<disk, older, active, id, memory, step, for, warned, acked, used, next, faults, clock>>
files == <<disk, older>>
counters == <<used, next, clock>>

(* A path is the id its name starts with and the times of its rotations;   *)
(* the stem of an unrotated file is the id itself.                         *)
Files == DOMAIN disk
Exists(p) == p \in Files

\* The last one of these that was written.
Newest(p, paths) == p \in paths /\ paths \ {p} \subseteq older[p]

RotationsOf(p) == {q \in Files : IsStrictPrefix(p, q)}
OfSession(s) == {p \in Files : disk[p].id = s}

Removed(paths) ==
  /\ disk' = [p \in Files \ paths |-> disk[p]]
  /\ older' = [p \in Files \ paths |-> older[p] \ paths]

\* mutant: the new file stays where the old one was in the order
WrittenBeside(p, f) ==
  /\ disk' = [q \in Files \cup {p} |-> IF q = p THEN f ELSE disk[q]]
  /\ older' = [q \in Files \cup {p} |-> IF q \in Files THEN older[q] ELSE {}]

Written(p, f) ==
  /\ disk' = [q \in Files \cup {p} |-> IF q = p THEN f ELSE disk[q]]
  /\ older' = [q \in Files \cup {p} |-> IF q = p THEN Files \ {p} ELSE older[q] \ {p}]

Renamed(p, q) ==
  LET Now(r) == IF r = p THEN q ELSE r
      Before(r) == IF r = q THEN p ELSE r
  IN /\ disk' = [r \in {Now(o) : o \in Files} |-> disk[Before(r)]]
     /\ older' = [r \in {Now(o) : o \in Files} |-> {Now(o) : o \in older[Before(r)]}]

Snapshot == [id |-> id, msgs |-> memory, tail |-> "clean", spliced |-> FALSE]

(* from_jsonl: one bad line refuses the file, a missing last newline does not. *)
Loads(f) == f.tail # "partial" /\ ~f.spliced

(* A record written where the last line did not end becomes a part of it. *)
WithRecord(f, ms) ==
  [id |-> f.id, msgs |-> IF f.tail = "clean" THEN f.msgs \o ms ELSE f.msgs,
   tail |-> "unterminated", spliced |-> f.spliced \/ f.tail # "clean"]
WithPartOfRecord(f) ==
  [id |-> f.id, msgs |-> f.msgs, tail |-> "partial", spliced |-> f.spliced \/ f.tail # "clean"]

\* The program ends, by exit, by an error that reaches main, or by a crash.
Stop ==
  /\ step' = "stopped" /\ for' = "command" /\ memory' = <<>> /\ warned' = FALSE
  /\ active' = <<>>
  /\ UNCHANGED id

-----------------------------------------------------------------------------
\* generate_session_id: a clock and a counter, no id comes twice
NewId == {s \in Sessions \ used : \A r \in Sessions \ used : s <= r}

(* LiveCli::new and clear_session: a session with a fresh id, then saved.  *)
Fresh ==
  \E s \in NewId :
    /\ used' = used \cup {s}
    /\ id' = s /\ active' = <<s>> /\ memory' = <<>>
    /\ step' = "rotate" /\ for' = "command"
    /\ UNCHANGED <<files, warned, acked, next, faults, clock>>

Start == step = "stopped" /\ Fresh
Clear == step = "idle" /\ Fresh

(* A successful write: the prompt is in the history, the user's message    *)
(* comes next; a message is in the session; a command is done.             *)
StartMessage ==
  /\ next < MaxMessages
  /\ memory' = Append(memory, next + 1) /\ next' = next + 1
  /\ step' = "append" /\ for' = "message"

Done ==
  \/ /\ for = "prompt" /\ StartMessage /\ UNCHANGED acked
  \/ /\ for = "message" /\ step' = "turn" /\ acked' = [acked EXCEPT ![id] = memory]
     /\ UNCHANGED <<memory, next, for>>
  \/ /\ for = "command" /\ step' = "idle" /\ UNCHANGED <<memory, next, for, acked>>

(* A failed one: record_prompt_history warns and goes on to the turn; a    *)
(* push is undone and fails the turn, a save fails the command, and either *)
(* error ends the program.                                                 *)
Failed ==
  \/ /\ for = "prompt" /\ warned' = TRUE /\ StartMessage
     /\ UNCHANGED <<active, id>>
  \/ /\ for # "prompt" /\ Stop /\ UNCHANGED next

Fault == faults < MaxFaults /\ faults' = faults + 1

BeginTurn ==
  /\ step = "idle" /\ next < MaxMessages
  /\ step' = "append" /\ for' = "prompt"
  /\ UNCHANGED <<files, active, id, memory, warned, acked, faults, counters>>

PushMessage ==
  /\ step = "turn" /\ StartMessage
  /\ UNCHANGED <<files, active, id, warned, acked, used, faults, clock>>

-----------------------------------------------------------------------------
(* append_persisted_message and append_persisted_prompt_entry *)
Bootstrap ==
  /\ step = "append" /\ ~Exists(active)
  /\ step' = "rotate"
  /\ UNCHANGED <<files, active, id, memory, for, warned, acked, faults, counters>>

Record == IF for = "message" THEN <<Last(memory)>> ELSE <<>>

AppendRecord ==
  /\ step = "append" /\ Exists(active)
  /\ Written(active, WithRecord(disk[active], Record))
  /\ step' = "newline"
  /\ UNCHANGED <<active, id, memory, for, warned, acked, faults, counters>>

\* the record is cut short, or the file cannot be opened at all
AppendFails ==
  /\ step = "append" /\ Exists(active) /\ Fault
  /\ UNCHANGED files \/ Written(active, WithPartOfRecord(disk[active]))
  /\ Failed
  /\ UNCHANGED <<acked, used, clock>>

AppendNewline ==
  /\ step = "newline"
  /\ Written(active, [disk[active] EXCEPT !.tail = "clean"])
  /\ Done
  /\ UNCHANGED <<active, id, warned, faults, used, clock>>

NewlineFails ==
  /\ step = "newline" /\ Fault /\ Failed
  /\ UNCHANGED <<files, acked, used, clock>>

-----------------------------------------------------------------------------
(* save_to_path: rotate_session_file_if_needed, write_atomic,              *)
(* cleanup_rotated_logs.  A rotation keeps the file's modification time    *)
(* and has a name of its own: no two fall in one millisecond.              *)
\* mutant: the old file is removed before its successor exists
RotateRemoves ==
  /\ step = "rotate" /\ step' = "replace"
  /\ Removed({active})
  /\ UNCHANGED <<active, id, memory, for, warned, acked, faults, counters>>

Rotate ==
  /\ step = "rotate" /\ step' = "replace"
  /\ IF Exists(active) /\ Len(disk[active].msgs) >= RotateAfter
       THEN /\ clock < MaxClock /\ clock' = clock + 1
            /\ Renamed(active, Append(active, clock + 1))
       ELSE UNCHANGED <<files, clock>>
  /\ UNCHANGED <<active, id, memory, for, warned, acked, used, next, faults>>

Replace ==
  /\ step = "replace" /\ step' = "cleanup"
  /\ Written(active, Snapshot)
  /\ acked' = [acked EXCEPT ![id] = memory]
  /\ UNCHANGED <<active, id, memory, for, warned, faults, counters>>

\* The rotated copies that have too many behind them.
Later(p) == {q \in RotationsOf(active) : p \in older[q]}
Stale == {p \in RotationsOf(active) : Cardinality(Later(p)) >= MaxRotated}

\* mutant: one copy too many
CleanupKeepsOneMore ==
  /\ step = "cleanup"
  /\ Removed({p \in RotationsOf(active) : Cardinality(Later(p)) > MaxRotated})
  /\ Done
  /\ UNCHANGED <<active, id, warned, faults, used, clock>>

Cleanup ==
  /\ step = "cleanup"
  /\ Removed(Stale)
  /\ Done
  /\ UNCHANGED <<active, id, warned, faults, used, clock>>

SaveFails ==
  /\ step \in {"rotate", "replace"} /\ Fault /\ Failed
  /\ UNCHANGED <<files, acked, used, clock>>

\* The copies cannot be listed, or one cannot be removed: the older ones are gone, the younger stay.
CleanupFails ==
  /\ step = "cleanup" /\ Fault
  /\ \E gone \in SUBSET Stale :
       /\ gone # Stale \/ Stale = {}
       /\ \A p \in gone : Stale \cap older[p] \subseteq gone
       /\ Removed(gone)
  /\ Failed
  /\ UNCHANGED <<acked, used, clock>>

-----------------------------------------------------------------------------
Save(ms) ==
  /\ memory' = ms /\ step' = "rotate" /\ for' = "command"

(* compact_session: nothing to do unless more messages than are preserved  *)
(* follow the summary of an earlier compaction.                            *)
Compactable == Len(memory) - (IF memory # <<>> /\ memory[1] = 0 THEN 1 ELSE 0) > PreserveRecent
Compacted == <<0>> \o SubSeq(memory, Len(memory) - PreserveRecent + 1, Len(memory))
MaybeCompacted == {memory} \cup (IF Compactable THEN {Compacted} ELSE {})

\* mutant: the appends of the turn are trusted, only a compaction is written
PersistCompaction ==
  /\ step \in {"turn", "idle"}
  /\ \/ Compactable /\ Save(Compacted)
     \/ step' = "idle" /\ for' = "command" /\ UNCHANGED memory
  /\ UNCHANGED <<files, active, id, warned, acked, faults, counters>>

(* The end of a turn, and the commands that end in persist_session.        *)
PersistSession ==
  /\ step \in {"turn", "idle"}
  /\ \E ms \in MaybeCompacted : Save(ms)
  /\ UNCHANGED <<files, active, id, warned, acked, faults, counters>>

(* /session fork *)
Fork ==
  /\ step = "idle"
  /\ \E s \in NewId :
       used' = used \cup {s} /\ id' = s /\ active' = <<s>>
  /\ Save(memory)
  /\ UNCHANGED <<files, warned, acked, next, faults, clock>>

\* mutant: the resumed session is not written back
SwitchWithoutSave(p) ==
  /\ step = "idle" /\ Exists(p) /\ Loads(disk[p])
  /\ active' = p /\ id' = disk[p].id /\ memory' = disk[p].msgs
  /\ UNCHANGED <<files, step, for, warned, acked, faults, counters>>

(* /resume and /session switch: a file that does not load ends the program *)
Switch(p) ==
  /\ step = "idle" /\ Exists(p)
  /\ IF Loads(disk[p])
       THEN /\ active' = p /\ id' = disk[p].id /\ Save(disk[p].msgs)
            /\ UNCHANGED warned
       ELSE Stop
  /\ UNCHANGED <<files, acked, faults, counters>>

(* /session delete: the handle of an alias has the id in the file, that of *)
(* a name or a path has the stem of the file.                              *)
HandleIds(p) ==
  {p} \cup (IF Newest(p, Files) /\ Loads(disk[p]) THEN {<<disk[p].id>>} ELSE {})

Delete(p) ==
  /\ step = "idle" /\ Exists(p)
  /\ \E h \in HandleIds(p) : h # <<id>>
  /\ Removed({p})
  /\ acked' = [acked EXCEPT ![disk[p].id] = IF Newest(p, OfSession(disk[p].id)) THEN <<>> ELSE @]
  /\ UNCHANGED <<active, id, memory, step, for, warned, faults, counters>>

Crash ==
  /\ step # "stopped" /\ Stop
  /\ UNCHANGED <<files, acked, faults, counters>>

-----------------------------------------------------------------------------
Init ==
  /\ disk = <<>> /\ older = <<>> /\ active = <<>> /\ memory = <<>> /\ id \in Sessions
  /\ step = "stopped" /\ for = "command" /\ warned = FALSE
  /\ acked = [s \in Sessions |-> <<>>]
  /\ used = {} /\ next = 0 /\ faults = 0 /\ clock = 0

Next ==
  \/ Start \/ Clear \/ BeginTurn \/ PushMessage
  \/ Bootstrap \/ AppendRecord \/ AppendFails \/ AppendNewline \/ NewlineFails
  \/ Rotate \/ Replace \/ Cleanup \/ SaveFails \/ CleanupFails
  \/ PersistSession \/ Fork \/ Crash
  \/ \E p \in Files : Switch(p) \/ Delete(p)

Spec == Init /\ [][Next]_vars

-----------------------------------------------------------------------------
Paths == Seq(Nat) \ {<<>>}
Messages == Seq(0..MaxMessages)
File == [id : Sessions, msgs : Messages, tail : {"clean", "unterminated", "partial"}, spliced : BOOLEAN]

FilesType ==
  /\ Files \subseteq Paths /\ IsFiniteSet(Files)
  /\ disk \in [Files -> File] /\ older \in [Files -> SUBSET Files]

\* Every variable keeps its shape: what rotation, compaction and torn writes leave are session files.
TypeOK ==
  /\ FilesType
  /\ id \in Sessions /\ memory \in Messages
  /\ step \in {"stopped", "idle", "turn", "append", "newline", "rotate", "replace", "cleanup"}
  /\ for \in {"prompt", "message", "command"} /\ warned \in BOOLEAN
  /\ acked \in [Sessions -> Messages]
  /\ used \subseteq Sessions /\ next \in 0..MaxMessages
  /\ faults \in 0..MaxFaults /\ clock \in 0..MaxClock

\* The newest file of a session holds what the program counted as saved.
Kept(s) ==
  \E p \in OfSession(s) :
    /\ Newest(p, OfSession(s))
    /\ ~disk[p].spliced => IsPrefix(acked[s], disk[p].msgs) /\ Len(disk[p].msgs) <= Len(acked[s]) + 1

\* Whatever fails or crashes, the newest file of a session holds, line by line, every message the
\* program counted as saved, in order, and at most the one it was saving besides; a file in which a
\* record was joined to a torn line is excepted (see SplicedOnlyAfterWarning).
NothingSavedIsLost == \A s \in Sessions : acked[s] # <<>> => Kept(s)

\* A record is joined to a torn line only after the program has warned that it could not write
\* the history of a prompt: no other failure and no crash leaves a file that the next append spoils.
SplicedOnlyAfterWarning ==
  Exists(active) /\ disk[active].spliced => warned

\* A command or a turn ends with the open session's file equal to the session in memory, whatever
\* the appends before it left and even if the file had been deleted.
SavedWhenDone == step # "idle" /\ step' = "idle" => Exists(active)' /\ disk'[active'] = Snapshot'
DoneMeansSaved == [][SavedWhenDone]_vars

\* Once a command or a turn is done, a session has at most MAX_ROTATED_FILES rotated copies,
\* also when an earlier clean-up was cut off by a crash.
RotationsBounded ==
  step = "idle" => Cardinality(RotationsOf(active)) <= MaxRotated

\* What was saved can be read again, in files of bounded number.
SavedIsSound == NothingSavedIsLost /\ SplicedOnlyAfterWarning /\ RotationsBounded

(* The inductive invariant.  Of the files that there are, any have an       *)
(* oldest, and of two one was written before the other.                    *)
Ordered ==
  /\ \A p \in Files : p \notin older[p] /\ \A q \in older[p] : p \notin older[q]
  /\ \A paths \in SUBSET Files : paths # {} => \E p \in paths : \A q \in paths \ {p} : p \in older[q]

(* A path begins with the session of its file, which was handed out, and   *)
(* its rotations are not in the future: the next has a name of its own.    *)
Timely(p) == \A i \in 2..Len(p) : p[i] <= clock

OnDisk ==
  /\ FilesType /\ Ordered /\ NothingSavedIsLost
  /\ \A p \in Files : p[1] = disk[p].id /\ p[1] \in used /\ Timely(p)

OpenPath ==
  IF step = "stopped" THEN active = <<>>
  ELSE active \in Paths /\ active[1] = id /\ id \in used /\ Timely(active)

(* The open file is the newest of its session, and what it and `acked'     *)
(* have of the session in memory depends on the step.                      *)
Whole(p, ms) == disk[p].spliced \/ (disk[p].msgs = ms /\ acked[id] = ms)
Behind(p, ms) ==
  disk[p].spliced \/ (disk[p].msgs = ms /\ memory = Append(acked[id], Last(memory)))

OpenFile ==
  Exists(active) =>
    /\ step \in {"idle", "turn", "append", "newline", "cleanup"} => Newest(active, OfSession(id))
    /\ step \in {"idle", "cleanup"} \/ (step = "append" /\ for = "prompt") =>
         disk[active] = Snapshot /\ acked[id] = memory
    /\ step = "turn" \/ (step = "newline" /\ for = "prompt") => Whole(active, memory)
    /\ step = "append" /\ for = "message" => Behind(active, acked[id])
    /\ step = "newline" /\ for = "message" => Behind(active, memory)
    /\ step \in {"turn", "append"} /\ disk[active].tail # "clean" => warned

InStep ==
  /\ step \in {"append", "newline"} => for # "command"
  /\ step \in {"newline", "cleanup"} => Exists(active)
  /\ step \in {"rotate", "replace"} /\ for # "command" => ~Exists(active)
  /\ for = "message" /\ step \notin {"idle", "turn", "stopped"} => memory # <<>>

Inv == TypeOK /\ OnDisk /\ OpenPath /\ OpenFile /\ InStep /\ SplicedOnlyAfterWarning /\ RotationsBounded

\* "delete: refusing to delete the active session": the file of the open session is not deleted.
ActiveIsNotDeleted ==
  [][Exists(active) /\ step = "idle" /\ step' = "idle" => active \in Files']_vars
=============================================================================
