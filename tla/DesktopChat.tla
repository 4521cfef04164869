------------------------------ MODULE DesktopChat ------------------------------
(***************************************************************************)
(* The coding assistant of the desktop utility, lobstercode.service.ts:    *)
(* chat() asks the model, runs the tools it calls and asks again, while    *)
(* the window's requests (abort, clear, sessions, mode, workspace,         *)
(* rollback) arrive between any two of its waits.                          *)
(*                                                                         *)
(* JavaScript runs one callback to its end: `busy' is the chat whose       *)
(* callback runs, and nothing else happens before it waits again.  A chat  *)
(* waits for the model's first bytes ("ask"), for the end of its answer    *)
(* ("stream") and for tools that are asynchronous ("wait").  The text of a *)
(* file is a number, 0 for a file that does not exist.                     *)
(***************************************************************************)
EXTENDS Naturals, FiniteSets, SequencesExt, TLC

CONSTANTS
  Workspaces, Files,
  MaxTurns,      \* MAX_TURNS
  MaxSnapshots,  \* createSnapshot keeps 20
  MaxSends, MaxCalls, MaxSessions, MaxAborts, MaxOps, MaxClock  \* bounds

VARIABLES
  chats,     \* of each chat(): its phase, session, turns left and calls to run
  generating, active,  \* isGenerating; the chat whose request is activeRequest, or 0
  busy,      \* the chat whose callback runs, or 0
  sessions, current,   \* the sessions in their order; currentSessionId
  history,   \* the messages of every session there ever was
  mode, workspace, disk,
  snapshots, \* with the workspace, the file, its text and the time, when each was made
  undone,    \* the rollback that ended last, until something changes
  clock, aborts, ops

service == <<generating, active, sessions, current, mode, workspace>>
files == <<disk, snapshots, undone>>
bounds == <<clock, aborts, ops>>
vars == <<chats, busy, history, service, files, bounds>>

Chats == 1..MaxSends
Call == [tool : {"read", "outside"}] \cup [tool : {"write"}, file : Files]
NoChat == [phase |-> "none", home |-> 0, turns |-> MaxTurns, calls |-> <<>>]
Nothing == [done |-> FALSE]
Alive(c) == chats[c].phase \notin {"none", "end"}

Init ==
  /\ chats = [c \in Chats |-> NoChat] /\ busy = 0
  /\ generating = FALSE /\ active = 0
  /\ sessions = <<1>> /\ current = 1 /\ history = <<<<>>>>
  /\ mode \in {"read-only", "workspace-write"} /\ workspace \in Workspaces
  /\ disk = [at \in Workspaces \X Files |-> 0]
  /\ snapshots = <<>> /\ undone = Nothing
  /\ clock = 1 /\ aborts = 0 /\ ops = 0

Push(s, m) == history' = [history EXCEPT ![s] = Append(@, m)]
Said(c) == [from |-> "user", chat |-> c, calls |-> <<>>]
Asked(c, calls) == [from |-> "model", chat |-> c, calls |-> calls]
Result(c, call) == [from |-> "tool", chat |-> c, calls |-> <<call>>]

-----------------------------------------------------------------------------
\* Mutant of Refuses: a chat is refused only after an abort.
RefusesAborted == aborts > 0

Refuses == generating

\* chat: refused while another one generates; otherwise the user's message is in
\* the history and the first request under way before it waits.
Send(c) ==
  /\ busy = 0 /\ chats[c].phase = "none" /\ \A d \in Chats : d < c => chats[d].phase # "none"
  /\ IF Refuses THEN /\ chats' = [chats EXCEPT ![c].phase = "end"]
                     /\ UNCHANGED <<generating, active, history>>
     ELSE /\ generating' = TRUE /\ active' = c
          /\ chats' = [chats EXCEPT ![c] = [@ EXCEPT !.phase = "ask", !.home = current, !.turns = @ - 1]]
          /\ Push(current, Said(c))
  /\ UNCHANGED <<busy, sessions, current, mode, workspace, files, bounds>>

\* Mutant of Finally: the chat that ends leaves the flag to whoever aborted.
FinallyKeeps(c) == generating' = (generating /\ active # c) /\ active' = 0

\* The finally of chat() takes the flag and the request, whoever's they are now.
Finally(c) == generating' = FALSE /\ active' = 0

End(c) ==
  /\ chats' = [chats EXCEPT ![c] = [@ EXCEPT !.phase = "end", !.calls = <<>>]]
  /\ busy' = 0 /\ Finally(c)
  /\ UNCHANGED <<sessions, current, mode, workspace>>

\* The answer begins; 120 seconds of silence, another status or an error end the chat.
Respond(c) ==
  /\ busy = 0 /\ chats[c].phase = "ask"
  /\ chats' = [chats EXCEPT ![c].phase = "stream"]
  /\ UNCHANGED <<busy, history, service, files, bounds>>

Fail(c) ==
  /\ busy = 0 /\ chats[c].phase \in {"ask", "stream", "cut"}
  /\ End(c) /\ UNCHANGED <<history, files, bounds>>

\* A connection reset before the answer, which abort() causes, is an empty answer.
Reset(c) ==
  /\ busy = 0 /\ chats[c].phase \in {"ask", "reset"}
  /\ Push(chats[c].home, Asked(c, <<>>))
  /\ End(c) /\ UNCHANGED <<files, bounds>>

\* The answer is complete: its last list of calls, if it has any, and text.
Answer(c) ==
  /\ busy = 0 /\ chats[c].phase = "stream"
  /\ \/ End(c) /\ UNCHANGED history  \* "Risposta vuota da Ollama"
     \/ Push(chats[c].home, Asked(c, <<>>)) /\ End(c)
     \/ \E calls \in UNION {[1..n -> Call] : n \in 1..MaxCalls} :
          /\ Push(chats[c].home, Asked(c, calls))
          /\ chats' = [chats EXCEPT ![c] = [@ EXCEPT !.phase = "tools", !.calls = calls]]
          /\ busy' = c /\ UNCHANGED service
  /\ UNCHANGED <<files, bounds>>

-----------------------------------------------------------------------------
\* Mutant of generateSnapshotId: snapshots are numbered by their time in seconds.
generateSnapshotIdCoarse == clock \div 60

\* generateSnapshotId.
generateSnapshotId == clock

\* Mutant of Home: a message goes to the session that is shown.
HomeShown(c) == current

\* Where the messages of a chat go: to the session it began in.
Home(c) == chats[c].home

\* createSnapshot.
WithNew(f) ==
  LET all == Append(snapshots, [id |-> generateSnapshotId, files |-> <<>>, where |-> workspace,
                                file |-> f, was |-> disk[<<workspace, f>>], at |-> clock]) IN
  IF Len(all) > MaxSnapshots THEN Tail(all) ELSE all

\* Mutant of Saved: the file is saved after the tool has changed it.
SavedAfter(f, text) ==
  LET holder == SelectInSeq(WithNew(f), LAMBDA s : s.id = generateSnapshotId) IN
  [WithNew(f) EXCEPT ![holder].files = (f :> text) @@ @]

\* snapshotSaveFile: the file is saved in the first snapshot that has the new one's number.
Saved(f, text) ==
  LET holder == SelectInSeq(WithNew(f), LAMBDA s : s.id = generateSnapshotId) IN
  [WithNew(f) EXCEPT ![holder].files = (f :> disk[<<workspace, f>>]) @@ @]

Writable == mode # "read-only"

Answered(c) ==
  /\ Push(Home(c), Result(c, Head(chats[c].calls)))
  /\ chats' = [chats EXCEPT ![c] = [@ EXCEPT !.phase = "tools", !.calls = Tail(@)]]

\* One call of the answer, in the callback that got the answer or the result before it.
Run(c) ==
  /\ busy = c /\ chats[c].calls # <<>>
  /\ LET call == Head(chats[c].calls) IN
     \/ /\ call.tool = "read"  \* any tool that is asynchronous
        /\ chats' = [chats EXCEPT ![c].phase = "wait"] /\ busy' = 0
        /\ UNCHANGED <<history, service, files, bounds>>
     \/ /\ call.tool # "read" /\ ~Writable  \* checkPermission
        /\ Answered(c) /\ UNCHANGED <<busy, service, files, bounds>>
     \/ /\ call.tool = "outside" /\ Writable  \* snapshotSaveFile throws
        /\ End(c) /\ UNCHANGED <<history, files, bounds>>
     \/ /\ call.tool = "write" /\ Writable /\ ops < MaxOps /\ ops' = ops + 1
        /\ Answered(c) /\ undone' = Nothing
        /\ \E text \in {disk[<<workspace, call.file>>], ops + 1} :  \* the tool may fail
             /\ disk' = [disk EXCEPT ![<<workspace, call.file>>] = text]
             /\ snapshots' = Saved(call.file, text)
        /\ UNCHANGED <<busy, service, clock, aborts>>

\* All calls are answered: the model is asked again, ten times at most.
AskAgain(c) ==
  /\ busy = c /\ chats[c].calls = <<>>
  /\ \/ chats[c].turns = 0 /\ End(c)
     \/ /\ chats[c].turns > 0 /\ busy' = 0 /\ active' = c
        /\ chats' = [chats EXCEPT ![c] = [@ EXCEPT !.phase = "ask", !.turns = @ - 1]]
        /\ UNCHANGED <<generating, sessions, current, mode, workspace>>
  /\ UNCHANGED <<history, files, bounds>>

\* An asynchronous tool ends.
ToolEnds(c) ==
  /\ busy = 0 /\ chats[c].phase = "wait"
  /\ Answered(c) /\ busy' = c
  /\ UNCHANGED <<service, files, bounds>>

-----------------------------------------------------------------------------
\* What destroying its request does to a chat that waits for the model.
Cut(phase) == CASE phase = "ask" -> "reset" [] phase = "stream" -> "cut" [] OTHER -> phase

\* abort.
Abort ==
  /\ busy = 0 /\ aborts < MaxAborts /\ aborts' = aborts + 1
  /\ generating' = FALSE /\ active' = 0
  /\ chats' = IF active = 0 THEN chats ELSE [chats EXCEPT ![active].phase = Cut(@)]
  /\ UNCHANGED <<busy, history, sessions, current, mode, workspace, files, clock, ops>>

clearHistory ==
  /\ history' = [history EXCEPT ![current] = <<>>]
  /\ UNCHANGED <<sessions, current, mode, workspace, files>>

createSession ==
  /\ Len(history) < MaxSessions
  /\ history' = Append(history, <<>>) /\ sessions' = Append(sessions, Len(history) + 1)
  /\ UNCHANGED <<current, mode, workspace, files>>

switchSession ==
  /\ \E s \in ToSet(sessions) : current' = s
  /\ UNCHANGED <<history, sessions, mode, workspace, files>>

\* The sessions behind deleteSession: never none.
Remaining(s) ==
  IF Remove(sessions, s) = <<>> THEN <<Len(history) + 1>> ELSE Remove(sessions, s)

deleteSession ==
  /\ \E s \in ToSet(sessions) :
       /\ sessions' = Remaining(s)
       /\ current' = IF current = s THEN Head(Remaining(s)) ELSE current
       /\ history' = IF Len(sessions) = 1 THEN Append(history, <<>>) ELSE history
  /\ Len(history') <= MaxSessions
  /\ UNCHANGED <<mode, workspace, files>>

setPermission ==
  /\ mode' \in {"read-only", "workspace-write"}
  /\ UNCHANGED <<history, sessions, current, workspace, files>>

setWorkspace ==
  /\ workspace' \in Workspaces
  /\ UNCHANGED <<history, sessions, current, mode, files>>

\* rollbackSnapshot: the first snapshot of that number, in the workspace of now.
rollbackSnapshot ==
  /\ \E i \in DOMAIN snapshots :
       LET s == SelectInSeq(snapshots, LAMBDA t : t.id = snapshots[i].id)
           saved == snapshots[s].files IN
       /\ disk' = [at \in DOMAIN disk |->
            IF at[1] = workspace /\ at[2] \in DOMAIN saved THEN saved[at[2]] ELSE disk[at]]
       /\ undone' = [done |-> TRUE, snapshot |-> snapshots[i], where |-> workspace]
  /\ UNCHANGED <<history, sessions, current, mode, workspace, snapshots>>

\* The user, or a command of the model, changes a file.
Edit ==
  /\ \E at \in DOMAIN disk : disk' = [disk EXCEPT ![at] = ops + 1]
  /\ undone' = Nothing
  /\ UNCHANGED <<history, sessions, current, mode, workspace, snapshots>>

\* The requests of the window that no chat takes part in.
Window ==
  /\ busy = 0 /\ ops < MaxOps /\ ops' = ops + 1
  /\ clearHistory \/ createSession \/ switchSession \/ deleteSession \/ setPermission
     \/ setWorkspace \/ rollbackSnapshot \/ Edit
  /\ UNCHANGED <<chats, busy, generating, active, clock, aborts>>

Tick ==
  /\ clock < MaxClock /\ clock' = clock + 1
  /\ UNCHANGED <<chats, busy, history, service, files, aborts, ops>>

Next ==
  \/ \E c \in Chats :
       Send(c) \/ Respond(c) \/ Fail(c) \/ Reset(c) \/ Answer(c) \/ Run(c) \/ AskAgain(c) \/ ToolEnds(c)
  \/ Abort \/ Window \/ Tick

-----------------------------------------------------------------------------
TypeOK ==
  /\ \A c \in Chats : chats[c].phase \in
       {"none", "ask", "stream", "reset", "cut", "tools", "wait", "end"} /\ chats[c].turns \in 0..MaxTurns
  /\ active \in Chats \cup {0} /\ busy \in Chats \cup {0} /\ generating \in BOOLEAN
  /\ Len(history) <= MaxSessions /\ Len(snapshots) <= MaxSnapshots

\* There is always a session to chat in.
SessionIsThere == current \in ToSet(sessions)

(* A chat is refused only while there is one, and without abort() no two   *)
(* run at once; each abort() lets at most one more run beside.             *)
ChatsAreCounted ==
  /\ generating => \E c \in Chats : Alive(c)
  /\ Cardinality({c \in Chats : Alive(c)}) <= 1 + aborts

\* Until the first, an abort reaches the chat that waits for the model.
AbortReaches == aborts = 0 => \A c \in Chats : chats[c].phase \in {"ask", "stream"} => active = c

\* What a chat has said in its session, in order.
Words(c) == IF chats[c].home = 0 THEN <<>> ELSE SelectSeq(history[chats[c].home], LAMBDA m : m.chat = c)

(* Every result a session shows answers the call of its place, unless the  *)
(* history was cleared in between, and before a chat asks again all its    *)
(* calls are answered, whatever else is going on.                          *)
CallsAreAnswered ==
  \A c \in Chats : LET w == Words(c) IN
    \A i \in DOMAIN w :
      /\ w[i].from = "tool" =>
           \/ \A j \in 1..i : w[j].from = "tool"
           \/ \E j \in 1..i - 1 :
                /\ w[j].from = "model" /\ i - j <= Len(w[j].calls)
                /\ w[j].calls[i - j] = w[i].calls[1]
                /\ \A k \in j + 1..i : w[k].from = "tool"
      /\ w[i].from = "model" /\ (chats[c].phase \in {"ask", "stream"} \/ \E j \in i + 1..Len(w) : w[j].from = "model") =>
           /\ Len(w) >= i + Len(w[i].calls)
           /\ \A j \in i + 1..i + Len(w[i].calls) : w[j].from = "tool"

\* A session holds the words of its own chats, and without abort() they do not mix.
WordsStayHome ==
  /\ \A s \in DOMAIN history, c \in Chats : chats[c].home # s => \A i \in DOMAIN history[s] : history[s][i].chat # c
  /\ aborts = 0 => \A s \in DOMAIN history : \A i \in DOMAIN history[s] \ {1} : history[s][i - 1].chat <= history[s][i].chat

\* The snapshots that share their millisecond with no other.
Own(s) == \A t \in ToSet(snapshots) : t.at = s.at => t = s

(* A change can be undone: its snapshot holds the file as it was, and going *)
(* back to it in the workspace it is of leaves the file as it was.         *)
ChangesCanBeUndone ==
  /\ \A s \in ToSet(snapshots) : Own(s) => s.files = s.file :> s.was
  /\ undone.done /\ Own(undone.snapshot) /\ undone.where = undone.snapshot.where =>
       disk[<<undone.where, undone.snapshot.file>>] = undone.snapshot.was

ChatIsSound ==
  SessionIsThere /\ ChatsAreCounted /\ AbortReaches /\ CallsAreAnswered /\ WordsStayHome /\ ChangesCanBeUndone
===============================================================================
