------------------------------ MODULE MCProgram ------------------------------
(***************************************************************************)
(* Small instances of the components of Program, and with them in one run  *)
(* small instances of others: the stream of a model, its parser, and the   *)
(* chats of the desktop utility with their page.  What `part' and x1 to    *)
(* x21 are, Program says.                                                  *)
(***************************************************************************)
EXTENDS Program, FiniteSetsExt, TLC

CONSTANTS
  mine, ours,   \* an external and a bundled plugin of the store, two files
  first, second \* two requests, two programs

Streams ==
  INSTANCE ModelStream WITH
    MaxCalls <- 2, MaxParts <- 2, MaxRetries <- 1, Chain <- 2, MaxFaults <- 4,
    consumer <- x1, phase <- x2, entry <- x3, nudges <- x4, tries <- x5, message <- x6,
    server <- x7, state <- x8, taken <- x9, result <- x10, sends <- x11, faults <- x12

Frames ==
  INSTANCE SseFrames WITH
    MaxFrames <- 2, MaxChunk <- 5,
    provider <- x1, wire <- x2, at <- x3, buffer <- x4, delivered <- x5, observed <- x6, phase <- x7

\* Three chats at once; a chat that asks twice; the files that a chat changes.
Chats ==
  INSTANCE DesktopChat WITH
    Workspaces <- {1}, Files <- {}, MaxTurns <- 1, MaxSnapshots <- 2, MaxSends <- 3, MaxCalls <- 1,
    MaxSessions <- 2, MaxAborts <- 1, MaxOps <- 1, MaxClock <- 1,
    chats <- x1, generating <- x2, active <- x3, busy <- x4, sessions <- x5, current <- x6,
    history <- x7, mode <- x8, workspace <- x9, disk <- x10, snapshots <- x11, undone <- x12,
    clock <- x13, aborts <- x14, ops <- x15

Turns ==
  INSTANCE DesktopChat WITH
    Workspaces <- {1}, Files <- {}, MaxTurns <- 2, MaxSnapshots <- 2, MaxSends <- 2, MaxCalls <- 1,
    MaxSessions <- 2, MaxAborts <- 1, MaxOps <- 1, MaxClock <- 1,
    chats <- x1, generating <- x2, active <- x3, busy <- x4, sessions <- x5, current <- x6,
    history <- x7, mode <- x8, workspace <- x9, disk <- x10, snapshots <- x11, undone <- x12,
    clock <- x13, aborts <- x14, ops <- x15

Changes ==
  INSTANCE DesktopChat WITH
    Workspaces <- {1, 2}, Files <- {mine}, MaxTurns <- 1, MaxSnapshots <- 2, MaxSends <- 1,
    MaxCalls <- 2, MaxSessions <- 2, MaxAborts <- 0, MaxOps <- 4, MaxClock <- 2,
    chats <- x1, generating <- x2, active <- x3, busy <- x4, sessions <- x5, current <- x6,
    history <- x7, mode <- x8, workspace <- x9, disk <- x10, snapshots <- x11, undone <- x12,
    clock <- x13, aborts <- x14, ops <- x15

\* What may be written in a settings file.
Keys(path, values) == {[kind |-> "object", keys |-> (path :> v)] : v \in values}
Bad(kind) == [kind |-> kind, keys |-> <<>>]
Written ==
  {Bad("torn"), Bad("list"), Bad("object")}
    \cup Keys("permissionMode", {"acceptEdits", "nonsense"})
    \cup Keys("permissions.defaultMode", {"default", "dontAsk"})
    \cup Keys("enabledPlugins.p", BOOLEAN) \cup Keys("enabledPlugins.q", {TRUE})
    \cup Keys("plugins.enabled.p", BOOLEAN) \cup Keys("model", {"a name", "a number"})
    \cup Keys("theme", {"dark"}) \cup Keys("server.env", {"some"})
    \cup Keys("server.command", {"one", "other"})
    \cup {[kind |-> "object", keys |-> ("server.command" :> "one") @@ ("server.env" :> "some")]}

Files(n, contents) ==
  UNION {{[i \in 1..5 |-> IF i \in F THEN written[i] ELSE Bad("none")] :
            written \in [F -> contents \cup {Bad("none")}]} : F \in kSubset(n, 1..5)}

\* Every pair of settings files; and one file that is there while two writers set settings.
Starts ==
  {[files |-> f, sets |-> 0, cuts |-> 0] : f \in Files(2, Written)}
    \cup {[files |-> f, sets |-> 2, cuts |-> 1] :
            f \in Files(1, {Bad("torn")} \cup Keys("permissionMode", {"acceptEdits"})
                            \cup Keys("model", {"a name"}))}

Views ==
  INSTANCE DesktopPage WITH
    MaxAsked <- 2, MaxPieces <- 2, MaxOps <- 2,
    mounted <- x1, messages <- x2, generating <- x3, current <- x4, queue <- x5, wire <- x6, fix <- x7,
    due <- x8, senders <- x9, flag <- x10, running <- x11, told <- x12, asked <- x13, ops <- x14,
    alone <- x15, adrift <- x16, unrun <- x17

AllInit ==
  \/ ProgramInit
  \/ part = "frames" /\ Frames!Init /\ None8
  \/ part = "streams" /\ Streams!Init /\ None13
  \/ part = "chats" /\ Chats!Init /\ None16
  \/ part = "turns" /\ Turns!Init /\ None16
  \/ part = "changes" /\ Changes!Init /\ None16
  \/ part = "views" /\ Views!Init /\ None18

AllNext ==
  \/ ProgramNext
  \/ part = "frames" /\ Frames!Next /\ UNCHANGED from8
  \/ part = "streams" /\ Streams!Next /\ UNCHANGED from13
  \/ part = "chats" /\ Chats!Next /\ UNCHANGED from16
  \/ part = "turns" /\ Turns!Next /\ UNCHANGED from16
  \/ part = "changes" /\ Changes!Next /\ UNCHANGED from16
  \/ part = "views" /\ Views!Next /\ UNCHANGED from18

AllSpec == AllInit /\ [][AllNext]_all

-----------------------------------------------------------------------------
\* The promises of ModelStream: calls arrive whole, in order and in bounded time.
StreamsSound == part = "streams" => Streams!StreamsSound

\* The promises of SseFrames: the events do not depend on where the chunks end.
FramesAreWhole == part = "frames" => Frames!TypeOK /\ Frames!FramesAreWhole

(* The promises of DesktopChat: chats are counted, can be stopped, stay in  *)
(* their sessions, answer their calls, and what they change can be undone; *)
(* of DesktopPage: the page shows each answer as it was told.              *)
ChatIsSound ==
  /\ part = "chats" => Chats!TypeOK /\ Chats!ChatIsSound
  /\ part = "turns" => Turns!TypeOK /\ Turns!ChatIsSound
  /\ part = "changes" => Changes!TypeOK /\ Changes!ChatIsSound
  /\ part = "views" => Views!TypeOK /\ Views!PageIsTrue

\* The test at tools/src/lib.rs:7892: the settings that Config sets with success are
\* supported, so that the program, and the next turn, still load them.
SettingsStayLoadable == [][part = "settings" => Config!StaysLoadable]_all

\* ROADMAP.md:494: the model is not to run "without the requested effort level".
EffortReachesTheTurn == part = "runtimes" => Runtimes!EffortReachesTheTurn

\* The test at tools/src/lib.rs:6354, of every consumer: calls that mix are all delivered.
NoCallIsLost == part = "streams" => Streams!NoCallIsLost

\* agent.html:1406, of every rollback: all the files are as they were before the request.
AllFilesAreRestored == part = "snapshots" => Snapshots!AllFilesAreRestored
===============================================================================
