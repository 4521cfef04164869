---------------------------- MODULE AgentServers ----------------------------
(***************************************************************************)
(* A tool server of the local agent server: McpStdioTransport, McpClient   *)
(* and McpRegistry of ui/agent_server.py.  One thread writes a request and *)
(* reads frames until its answer comes.  It looks at its deadline between  *)
(* two bytes of a header only, so that a request which it gives up leaves  *)
(* the rest of a header in the pipe, and one that is not told anything is  *)
(* never given up.                                                         *)
(*                                                                         *)
(* A frame is written in two pieces, the first part of the header and all  *)
(* that follows.  Servers send no requests of their own.                   *)
(***************************************************************************)
EXTENDS Naturals, Sequences

CONSTANTS
  MaxRequests,  \* bound: requests
  MaxPages,     \* bound: pages of a list
  MaxNotes,     \* bound: notifications
  MaxLate       \* bound: deadlines that pass

VARIABLES
  server,     \* its process: "none", "up" or "down", the requests it has, the frame it is writing
  pipe,       \* what it wrote and nobody read
  reader,     \* where the reader stands: "between" frames, "inside" a header that it began, in
              \* the "rest" of one that was begun for an earlier request, before a "body" whose
              \* header is lost, or "behind" one, inside the next header
  connected,
  tools,      \* self.tools has the tools of the server
  request,    \* the request that waits: its kind, id and page
  returned,   \* the last one, [of, answer, result]: answer is the frame that was taken, 0 for none
  lastId,     \* _req_id
  program,    \* "starting", "serving" or "over"
  late, notes,
  lost        \* history: requests that failed although the server was up and had not refused them

vars == <<server, pipe, reader, connected, tools, request, returned, lastId, program, late, notes, lost>>

Idle == [kind |-> "none", id |-> 0, page |-> 0]
NoServer == [state |-> "none", inbox |-> {}, writing |-> <<>>]
Stopped == [NoServer EXCEPT !.state = IF server.state = "none" THEN "none" ELSE "down"]
Waits == request # Idle /\ program # "over"

Init ==
  /\ server = NoServer /\ pipe = <<>> /\ reader = "between" /\ connected = FALSE /\ tools = FALSE
  /\ request = Idle /\ returned = [of |-> 0, answer |-> 0, result |-> "none"] /\ lastId = 0
  /\ program = "starting" /\ late = 0 /\ notes = 0 /\ lost = 0

-----------------------------------------------------------------------------
\* The client.

\* _write_frame; a dead server shows when the answer is read.
Ask(kind, page, process) ==
  /\ request' = [kind |-> kind, id |-> lastId + 1, page |-> page]
  /\ lastId' = lastId + 1
  /\ server' = IF process.state = "up" THEN [process EXCEPT !.inbox = @ \union {lastId + 1}] ELSE process

\* connect: a command that cannot be started leaves a program without the server.
Connect ==
  /\ program = "starting" /\ request = Idle /\ server.state = "none"
  /\ \/ Ask("initialize", 0, [NoServer EXCEPT !.state = "up"]) /\ UNCHANGED program
     \/ program' = "serving" /\ UNCHANGED <<request, lastId, server>>
  /\ UNCHANGED <<pipe, reader, connected, tools, returned, late, notes, lost>>

\* call_tool, of a tool that was listed at the start, connected or not.
CallTool ==
  /\ program = "serving" /\ request = Idle /\ tools /\ lastId < MaxRequests
  /\ Ask("call", 0, server)
  /\ UNCHANGED <<pipe, reader, connected, tools, returned, program, late, notes, lost>>

\* Mutant of Failed: the process of a handshake that failed is kept.
FailedKeeps(answer) ==
  /\ returned' = [of |-> request.id, answer |-> answer, result |-> "error"]
  /\ request' = Idle /\ program' = "serving"
  /\ UNCHANGED <<server, lastId, connected, tools>>

\* The exceptions of a request: connect stops the server, discover_tools leaves it without tools,
\* call_tool answers with the error.
Failed(answer) ==
  /\ returned' = [of |-> request.id, answer |-> answer, result |-> "error"]
  /\ request' = Idle /\ program' = "serving"
  /\ server' = IF request.kind = "initialize" THEN Stopped ELSE server
  /\ UNCHANGED <<lastId, connected, tools>>

\* The answer to the handshake, to one page of the list, to a call.
Succeeded(answer) ==
  /\ returned' = [of |-> request.id, answer |-> answer, result |-> "ok"]
  /\ CASE request.kind = "initialize" ->
            connected' = TRUE /\ Ask("list", 1, server) /\ UNCHANGED <<tools, program>>
       [] request.kind = "list" ->
            \/ /\ request.page < MaxPages
               /\ Ask("list", request.page + 1, server) /\ UNCHANGED <<connected, tools, program>>
            \/ /\ tools' = TRUE /\ program' = "serving" /\ request' = Idle
               /\ UNCHANGED <<connected, server, lastId>>
       [] OTHER -> request' = Idle /\ UNCHANGED <<connected, server, lastId, tools, program>>

\* Mutant of Ours: whatever has an id is the answer.
OursAny(id) == id # 0

\* Notifications have no id, and an answer to a request that was given up has another one.
Ours(id) == id = request.id

\* The notification that ends the handshake finds the pipe of a dead server broken.
NotTold == request.kind = "initialize" /\ server.state = "down"

\* A complete frame: send_request goes on until it is the answer.
Frame(piece) ==
  /\ reader' = "between"
  /\ IF ~Ours(piece.id) THEN UNCHANGED <<server, request, returned, lastId, connected, tools, program>>
     ELSE \/ piece.good /\ Succeeded(piece.id)
          \/ (~piece.good \/ NotTold) /\ Failed(piece.id)

\* The first piece of a header, behind a body nobody took as well.
ReadHeader ==
  /\ Waits /\ pipe # <<>> /\ Head(pipe).part = "header" /\ pipe' = Tail(pipe)
  /\ reader' = IF reader = "body" THEN "behind" ELSE "inside"
  /\ UNCHANGED <<server, connected, tools, request, returned, lastId, program, late, notes, lost>>

\* Mutant of Found: the length is looked for at the beginning of what was read only.
FoundFirst == {reader = "inside"}

\* re.search finds the length in what was read; in the rest of a header it may be missing.
Found == IF reader = "rest" THEN BOOLEAN ELSE {TRUE}

ReadFrame ==
  /\ Waits /\ pipe # <<>> /\ Head(pipe).part = "frame" /\ pipe' = Tail(pipe)
  /\ \E found \in Found :
       IF found THEN Frame(Head(pipe)) /\ UNCHANGED lost
       ELSE reader' = "body" /\ Failed(0) /\ lost' = lost + 1
  /\ UNCHANGED <<late, notes>>

\* The deadline has passed when the last of these bytes comes, and the header is not complete.
TimeOut ==
  /\ Waits /\ late < MaxLate /\ late' = late + 1
  /\ \/ reader \in {"between", "body"} /\ pipe # <<>> /\ pipe' = Tail(pipe) /\ reader' = "rest"
     \/ reader \in {"inside", "behind", "rest"} /\ reader' = "rest" /\ UNCHANGED pipe
     \/ reader = "body" /\ UNCHANGED <<pipe, reader>>
  /\ Failed(0) /\ lost' = lost + 1
  /\ UNCHANGED notes

\* Mutant of Ended: the end of the file is not looked at.
EndedNever == FALSE

\* read returns nothing: the server has closed its end.
Ended == server.state = "down" /\ pipe = <<>>

EndOfFile ==
  /\ Waits /\ Ended
  /\ Failed(0)
  /\ UNCHANGED <<pipe, reader, late, notes, lost>>

\* Mutant of Shutdown: only servers that have tools are stopped.
ShutdownListed ==
  /\ program = "serving" /\ program' = "over" /\ connected' = FALSE
  /\ server' = IF tools THEN Stopped ELSE server
  /\ UNCHANGED <<pipe, reader, tools, request, returned, lastId, late, notes, lost>>

\* The user ends the program: shutdown_all terminates and, after a while, kills.
Shutdown ==
  /\ program = "serving" /\ program' = "over" /\ connected' = FALSE
  /\ server' = Stopped
  /\ UNCHANGED <<pipe, reader, tools, request, returned, lastId, late, notes, lost>>

-----------------------------------------------------------------------------
\* The server behind its pipes.

Others == <<reader, connected, tools, request, returned, lastId, program, late, lost>>

\* The first piece of a frame; the other one is to follow.
Begins(process, id, good) ==
  /\ server' = [process EXCEPT !.writing = <<[part |-> "frame", id |-> id, good |-> good]>>]
  /\ pipe' = Append(pipe, [part |-> "header", id |-> id, good |-> good])

\* It begins the answer to a request, or a notification.
Begin ==
  /\ server.state = "up" /\ server.writing = <<>>
  /\ \/ \E id \in server.inbox, good \in BOOLEAN :
          Begins([server EXCEPT !.inbox = @ \ {id}], id, good) /\ UNCHANGED notes
     \/ notes < MaxNotes /\ notes' = notes + 1 /\ Begins(server, 0, TRUE)
  /\ UNCHANGED Others

\* It writes the rest.
Write ==
  /\ server.state = "up" /\ server.writing # <<>>
  /\ server' = [server EXCEPT !.writing = <<>>]
  /\ pipe' = pipe \o server.writing
  /\ UNCHANGED <<Others, notes>>

Die == server.state = "up" /\ server' = Stopped /\ UNCHANGED <<pipe, Others, notes>>

Client == Connect \/ CallTool \/ ReadHeader \/ ReadFrame \/ TimeOut \/ EndOfFile
Next == Client \/ Shutdown \/ Begin \/ Write \/ Die

Spec == Init /\ [][Next]_vars

-----------------------------------------------------------------------------
Pieces(parts) == [part : parts, id : 0..lastId, good : BOOLEAN]

TypeOK ==
  /\ server \in [state : {"none", "up", "down"}, inbox : SUBSET (1..lastId), writing : Seq(Pieces({"frame"}))]
  /\ pipe \in Seq(Pieces({"header", "frame"}))
  /\ reader \in {"between", "inside", "rest", "body", "behind"}
  /\ connected \in BOOLEAN /\ tools \in BOOLEAN /\ program \in {"starting", "serving", "over"}
  /\ request \in [kind : {"none", "initialize", "list", "call"}, id : 0..lastId, page : 0..MaxPages]
  /\ returned \in [of : 0..lastId, answer : 0..lastId, result : {"none", "ok", "error"}]
  /\ lastId \in Nat /\ late \in 0..MaxLate /\ notes \in 0..MaxNotes /\ lost \in Nat

\* A result, and a refusal, is what the server said to this request, and not a late answer to
\* one that was given up.
OwnAnswers == returned.answer \in {0, returned.of} /\ (returned.result = "ok" => returned.answer # 0)

\* The reader finds its way back: a deadline that passes costs its own request and one more.
BackInStep == lost <= 2 * late

\* A server whose handshake failed does not stay, and none is left by the program.
NoneLeft == (program = "serving" /\ ~connected) \/ program = "over" => server.state # "up"

AgentServersSound == OwnAnswers /\ BackInStep /\ NoneLeft

\* The end of a server ends the wait for it.
Waiting == Waits /\ server.state = "down"
=============================================================================
