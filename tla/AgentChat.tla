------------------------------ MODULE AgentChat ------------------------------
(***************************************************************************)
(* A conversation with the local agent server: the page ui/agent.html with *)
(* its chats, and the loop of ui/agent_server.py that asks the model and   *)
(* runs its tools.                                                         *)
(*                                                                         *)
(* The server takes one request at a time, a chat for as long as its loop  *)
(* runs, so that all others wait, in any order.  The page goes on: the     *)
(* user stops the answer, opens, creates and deletes chats, switches the   *)
(* permissions, reloads.  A chat that nobody listens to any more runs to   *)
(* its end, also one that had not begun.  Events go to the page in order;  *)
(* a text is not looked at.                                                *)
(***************************************************************************)
EXTENDS Naturals, Sequences

CONSTANTS
  Tools,        \* names of tools
  Modes,        \* permission modes
  MaxTurns,     \* MAX_AGENT_TURNS
  MaxCalls,     \* bound: calls in one answer of the model
  MaxRequests,  \* bound: questions
  MaxOps,       \* bound: what else the user does
  MaxFaults     \* bound: connections that break

VARIABLES
  chats,      \* allChats, as in localStorage, the newest first: of each id the messages
  current,    \* currentChatId, 0 before there is one
  messages,   \* the messages that the page shows
  lastId,     \* lobster-current-chat in localStorage
  starting,   \* init waits for the server
  chat,       \* sendMessage: the question that is being answered and what has come of the answer
  wire,       \* the events on their way to it
  shown,      \* currentPermission
  waiting,    \* requests that the server has not taken
  mode,       \* PERMISSION_MODE
  loop,       \* run_agent_loop: the question it serves, its turns, the calls to run
  asked, ids, ops, faults,
  ran,        \* histories: the calls run for each question, with their results,
  home,       \* the chat each question was asked in,
  moved,      \* questions during which the user went to another chat, or the start did,
  gone,       \* deleted chats
  unheard,    \* questions whose page was reloaded
  unsure      \* a switch of the mode was lost, or met another one on the way

vars == <<chats, current, messages, lastId, starting, chat, wire, shown, waiting, mode, loop,
          asked, ids, ops, faults, ran, home, moved, gone, unheard, unsure>>

page == <<chats, current, messages, lastId, starting, shown, ids>>
server == <<mode, loop, ran>>
histories == <<home, moved, gone, unheard, unsure>>
bounds == <<asked, ops, faults>>

Question(k) == [role |-> "user", of |-> k, end |-> "whole", calls |-> <<>>]
Answer(k, end, calls) == [role |-> "assistant", of |-> k, end |-> end, calls |-> calls]
NoChat == [of |-> 0, at |-> "none", calls |-> <<>>]
NoLoop == [of |-> 0, turns |-> 0, calls |-> <<>>, began |-> "none"]
Event(kind, tool, id) == [kind |-> kind, tool |-> tool, id |-> id]
Plain(kind) == Event(kind, "none", 0)

Init ==
  /\ chats = <<>> /\ current = 0 /\ messages = <<>> /\ lastId = 0 /\ starting = TRUE
  /\ chat = NoChat /\ wire = <<>> /\ waiting = {} /\ loop = NoLoop
  /\ mode \in Modes /\ shown = mode
  /\ asked = 0 /\ ids = 0 /\ ops = 0 /\ faults = 0
  /\ ran = [k \in 1..MaxRequests |-> <<>>] /\ home = [k \in 1..MaxRequests |-> 0]
  /\ moved = {} /\ gone = {} /\ unheard = {} /\ unsure = FALSE

-----------------------------------------------------------------------------
\* The page.

User == ops < MaxOps /\ ops' = ops + 1
Fault == faults < MaxFaults /\ faults' = faults + 1

\* Mutant of Kept: what was said in the chat that is left is not saved.
KeptAsItWas(log) == chats

\* _saveCurrentChatQuiet.
Kept(log) == [i \in DOMAIN chats |-> IF i = current THEN log ELSE chats[i]]
Said(list) == [i \in {j \in DOMAIN list : list[j] # <<>>} |-> list[i]]
First(list) == {i \in DOMAIN list : \A j \in DOMAIN list : j <= i}

\* The chat of `list' that is shown from now on.
Shows(list, id) ==
  /\ chats' = list /\ current' = id /\ messages' = list[id] /\ lastId' = id
Fresh(list) ==
  /\ ids' = ids + 1
  /\ Shows([i \in DOMAIN list \union {ids + 1} |-> IF i = ids + 1 THEN <<>> ELSE list[i]], ids + 1)
Leaves == moved' = moved \union ({chat.of} \ {0})

\* The page says something in the chat it shows.
Push(m) ==
  /\ messages' = Append(messages, m)
  /\ chats' = IF current = 0 THEN chats ELSE Kept(Append(messages, m))
  /\ UNCHANGED <<current, lastId, starting, shown, ids>>

\* sendMessage, up to the request.
Send ==
  /\ chat.of = 0 /\ asked < MaxRequests /\ asked' = asked + 1
  /\ Push(Question(asked + 1))
  /\ chat' = [NoChat EXCEPT !.of = asked + 1, !.at = "reading"]
  /\ waiting' = waiting \union {[kind |-> "chat", of |-> asked + 1, mode |-> "none"]}
  /\ home' = [home EXCEPT ![asked + 1] = current]
  /\ UNCHANGED <<wire, server, ops, faults, moved, gone, unheard, unsure>>

\* Mutant of Resulted: the first call of that name has the result.
ResultedFirst(calls, tool, id) ==
  LET i == CHOOSE j \in DOMAIN calls : calls[j].tool = tool /\ \A n \in 1..j - 1 : calls[n].tool # tool
  IN [calls EXCEPT ![i].id = id]

\* A result belongs to the last call of that name.
Resulted(calls, tool, id) ==
  LET i == CHOOSE j \in DOMAIN calls : calls[j].tool = tool /\ \A n \in j + 1..Len(calls) : calls[n].tool # tool
  IN [calls EXCEPT ![i].id = id]

\* reader.read: what an event changes in the page.
Read ==
  /\ chat.at = "reading" /\ wire # <<>> /\ wire' = Tail(wire)
  /\ LET e == Head(wire) IN
     chat' = CASE e.kind = "tool_start" -> [chat EXCEPT !.calls = Append(@, [tool |-> e.tool, id |-> 0])]
               [] e.kind = "tool_result" -> [chat EXCEPT !.calls = Resulted(@, e.tool, e.id)]
               [] e.kind = "end" -> [chat EXCEPT !.at = "typing"]
               [] OTHER -> chat
  /\ UNCHANGED <<page, waiting, server, bounds, histories>>

\* The text has been typed out, and the answer is saved in the chat that is shown now.
Finish ==
  /\ chat.at = "typing"
  /\ Push(Answer(chat.of, "whole", chat.calls))
  /\ chat' = NoChat
  /\ UNCHANGED <<wire, waiting, server, bounds, histories>>

\* The catch of sendMessage: stopGeneration while the answer is read, or a connection that breaks.
Catch(end) ==
  /\ chat.at = "reading"
  /\ Push(Answer(chat.of, end, IF end = "stopped" THEN chat.calls ELSE <<>>))
  /\ chat' = NoChat /\ wire' = <<>>
  /\ UNCHANGED <<waiting, server, asked, histories>>
Stop == Catch("stopped") /\ User /\ UNCHANGED faults
Breaks == Catch("error") /\ Fault /\ UNCHANGED ops

newChat ==
  /\ User /\ Fresh(Said(Kept(messages))) /\ Leaves
  /\ UNCHANGED <<starting, shown, chat, wire, waiting, server, asked, faults, home, gone, unheard, unsure>>

loadChat(id) ==
  /\ User /\ id # current
  /\ Shows(Kept(messages), id) /\ Leaves
  /\ UNCHANGED <<ids, starting, shown, chat, wire, waiting, server, asked, faults, home, gone, unheard, unsure>>

deleteChat(id) ==
  LET others == [i \in DOMAIN chats \ {id} |-> chats[i]] IN
  /\ User /\ gone' = gone \union {id}
  /\ IF id # current
     THEN chats' = others /\ UNCHANGED <<current, messages, lastId, ids, moved>>
     ELSE /\ \/ DOMAIN others = {} /\ Fresh(others)
             \/ (\E i \in First(others) : Shows(others, i)) /\ UNCHANGED ids
          /\ Leaves
  /\ UNCHANGED <<starting, shown, chat, wire, waiting, server, asked, faults, home, unheard, unsure>>

\* The page is loaded again: loadChats takes the chats of localStorage that are not empty, and
\* shows the last one or the first.
Reload ==
  /\ User
  /\ LET list == Said(chats) IN
     /\ chats' = list
     /\ \/ DOMAIN list = {} /\ current' = 0 /\ messages' = <<>>
        \/ \E i \in IF lastId \in DOMAIN list THEN {lastId} ELSE First(list) :
             current' = i /\ messages' = list[i]
  /\ starting' = TRUE /\ chat' = NoChat /\ wire' = <<>>
  /\ unheard' = unheard \union ({chat.of} \ {0})
  /\ UNCHANGED <<lastId, shown, ids, waiting, server, asked, faults, home, moved, gone, unsure>>

\* init has heard from the server: the mode is the server's, and there is a chat.
Started ==
  /\ starting /\ loop.of = 0 /\ starting' = FALSE
  /\ shown' = mode
  /\ IF current = 0 THEN Fresh(Said(chats)) /\ Leaves
     ELSE UNCHANGED <<chats, current, messages, lastId, ids, moved>>
  /\ unsure' = (unsure \/ \E r \in waiting : r.kind = "mode")
  /\ UNCHANGED <<chat, wire, waiting, server, bounds, home, gone, unheard>>

\* selectPermission shows the mode at once; a failure of the request is only logged.
selectPermission(m) ==
  /\ User /\ shown' = m
  /\ \/ /\ waiting' = waiting \union {[kind |-> "mode", of |-> 0, mode |-> m]}
        /\ unsure' = (unsure \/ \E r \in waiting : r.kind = "mode")
        /\ UNCHANGED faults
     \/ Fault /\ unsure' = TRUE /\ UNCHANGED waiting
  /\ UNCHANGED <<chats, current, messages, lastId, starting, ids, chat, wire, server, asked, home, moved, gone, unheard>>

-----------------------------------------------------------------------------
\* The server.

Tell(events) == wire' = IF chat.of = loop.of /\ chat.at = "reading" THEN wire \o events ELSE wire

\* Mutant of Free: requests are served in threads of their own.
FreeToSwitch(r) == loop.of = 0 \/ r.kind = "mode"

\* HTTPServer serves one request after another.
Free(r) == loop.of = 0

\* do_POST takes a request: set-permission changes the mode, chat begins the loop.
Serve ==
  /\ \E r \in waiting :
       /\ Free(r) /\ waiting' = waiting \ {r}
       /\ IF r.kind = "mode"
          THEN mode' = r.mode /\ UNCHANGED loop
          ELSE loop' = [NoLoop EXCEPT !.of = r.of, !.began = mode] /\ UNCHANGED mode
  /\ UNCHANGED <<page, chat, wire, ran, bounds, histories>>

\* The last event and the end of the response.
Over(events) == Tell(events \o <<Plain("done"), Plain("end")>>) /\ loop' = NoLoop

\* call_ollama_streaming and what is made of its answer: tools to run, an answer without any,
\* or an exception of the loop.
Ask ==
  /\ loop.of # 0 /\ loop.calls = <<>> /\ loop.turns < MaxTurns
  /\ \/ \E n \in 1..MaxCalls : \E calls \in [1..n -> Tools] :
          loop' = [loop EXCEPT !.turns = @ + 1, !.calls = calls] /\ Tell(<<Plain("text")>>)
     \/ Over(<<Plain("text")>>)
     \/ Over(<<Plain("error")>>)
  /\ UNCHANGED <<page, chat, waiting, mode, ran, bounds, histories>>

\* Mutant of RunCall's events: a tool that fails leaves no result.
ToldStart(tool, id, fails) == IF fails THEN <<Event("tool_start", tool, id)>> ELSE <<Event("tool_start", tool, id), Event("tool_result", tool, id)>>

\* A tool is announced before, and its result after it ran, also when it raised.
Told(tool, id, fails) == <<Event("tool_start", tool, id), Event("tool_result", tool, id)>>

\* execute_tool under the mode of this moment, which may refuse it.
RunCall ==
  /\ loop.of # 0 /\ loop.calls # <<>>
  /\ LET tool == Head(loop.calls)
         id == Len(ran[loop.of]) + 1 IN
     /\ ran' = [ran EXCEPT ![loop.of] = Append(@, [tool |-> tool, id |-> id, mode |-> mode])]
     /\ \E fails \in BOOLEAN : Tell(Told(tool, id, fails))
  /\ loop' = [loop EXCEPT !.calls = Tail(@)]
  /\ UNCHANGED <<page, chat, waiting, mode, bounds, histories>>

\* The turns are used up.
Limit ==
  /\ loop.of # 0 /\ loop.calls = <<>> /\ loop.turns = MaxTurns
  /\ Over(<<Plain("error")>>)
  /\ UNCHANGED <<page, chat, waiting, mode, ran, bounds, histories>>

Next ==
  \/ Send \/ Read \/ Finish \/ Stop \/ Breaks \/ newChat \/ Reload \/ Started
  \/ \E id \in DOMAIN chats : loadChat(id) \/ deleteChat(id)
  \/ \E m \in Modes : selectPermission(m)
  \/ Serve \/ Ask \/ RunCall \/ Limit

Spec == Init /\ [][Next]_vars

-----------------------------------------------------------------------------
Calls == [tool : Tools, id : Nat]
Messages == [role : {"user", "assistant"}, of : 1..MaxRequests, end : {"whole", "stopped", "error"}, calls : Seq(Calls)]
Events == [kind : {"text", "tool_start", "tool_result", "error", "done", "end"}, tool : Tools \union {"none"}, id : Nat]

TypeOK ==
  /\ DOMAIN chats \subseteq 1..ids /\ (\A i \in DOMAIN chats : chats[i] \in Seq(Messages))
  /\ messages \in Seq(Messages) /\ current \in 0..ids /\ lastId \in 0..ids /\ starting \in BOOLEAN
  /\ chat \in [of : 0..asked, at : {"none", "reading", "typing"}, calls : Seq(Calls)] /\ wire \in Seq(Events)
  /\ {shown, mode} \subseteq Modes
  /\ waiting \subseteq {[kind |-> "chat", of |-> k, mode |-> "none"] : k \in 1..asked}
                        \union {[kind |-> "mode", of |-> 0, mode |-> m] : m \in Modes}
  /\ loop \in [of : 0..asked, turns : 0..MaxTurns, calls : Seq(Tools), began : Modes \union {"none"}]
  /\ ran \in [1..MaxRequests -> Seq([tool : Tools, id : Nat, mode : Modes])]
  /\ home \in [1..MaxRequests -> 0..ids] /\ gone \subseteq 1..ids /\ unsure \in BOOLEAN
  /\ asked \in 0..MaxRequests /\ ops \in 0..MaxOps /\ faults \in 0..MaxFaults /\ ids \in Nat

\* The chats as they are saved, and that of the page before it has one.
Logs == {chats[i] : i \in DOMAIN chats} \union (IF current = 0 THEN {messages} ELSE {})

\* What the page shows of a chat is what is saved of it.
ShownIsSaved == current # 0 => current \in DOMAIN chats /\ chats[current] = messages

\* A question stays in the chat it was asked in until that is deleted.
QuestionsStay ==
  \A k \in 1..asked : home[k] # 0 /\ home[k] \notin gone =>
    home[k] \in DOMAIN chats /\ \E n \in DOMAIN chats[home[k]] : chats[home[k]][n] = Question(k)

\* An answer follows its question, and a question has its answer, or it is on its way, unless
\* the user went elsewhere meanwhile or the page was reloaded.
AnswersFollow ==
  \A log \in Logs : \A n \in DOMAIN log :
    IF log[n].role = "assistant"
    THEN log[n].of \in moved \/ (n > 1 /\ log[n - 1] = Question(log[n].of))
    ELSE log[n].of \in moved \union unheard \union {chat.of} \/ (n < Len(log) /\ log[n + 1].of = log[n].of)

\* The calls that a list names are the first of those that were run, each with its own result,
\* but for the last, which may lack it.
Lists(calls, done) ==
  /\ Len(calls) <= Len(done)
  /\ \A i \in DOMAIN calls :
       calls[i].tool = done[i].tool /\ (calls[i].id = i \/ (i = Len(calls) /\ calls[i].id = 0))
Pending(calls) == calls # <<>> /\ calls[Len(calls)].id = 0

\* An answer lists the calls that were run for it in their order, each with its own result;
\* one that was stopped may lack what was not yet read.
ToolsShown ==
  \A log \in Logs : \A n \in DOMAIN log :
    log[n].role = "assistant" /\ log[n].end # "error" =>
      /\ Lists(log[n].calls, ran[log[n].of])
      /\ log[n].end = "whole" => Len(log[n].calls) = Len(ran[log[n].of]) /\ ~Pending(log[n].calls)

\* All the calls of a request run under the mode it began with, and when no switch is on its way
\* that is the mode the page shows, unless one was lost or overtaken.
ModesHold ==
  /\ loop.of # 0 => \A i \in DOMAIN ran[loop.of] : ran[loop.of][i].mode = loop.began
  /\ unsure \/ shown = mode \/ \E r \in waiting : r.kind = "mode" /\ r.mode = shown

AgentIsSound == ShownIsSaved /\ QuestionsStay /\ AnswersFollow /\ ToolsShown /\ ModesHold
-----------------------------------------------------------------------------
\* Why it is: how far the page, the events and the server are with a question.

\* Nothing is saved before there is a chat.
NoneYet == current = 0 => DOMAIN chats = {}

\* Messages are about questions that were asked.
AboutAsked == \A log \in Logs : \A n \in DOMAIN log : log[n].of <= asked

\* The question that waits for its answer is the last message that is shown, and nothing
\* else is about it, unless the user went elsewhere.
LastAsked ==
  chat.of # 0 /\ chat.of \notin moved =>
    /\ messages # <<>> /\ messages[Len(messages)] = Question(chat.of)
    /\ \A n \in DOMAIN messages : messages[n].of = chat.of => n = Len(messages)
    /\ \A i \in DOMAIN chats \ {current} : \A n \in DOMAIN chats[i] : chats[i][n].of # chat.of

\* The server is through with a question.
Through(k) == loop.of # k /\ \A r \in waiting : r.of # k

\* A request waits or is served, once; nothing has been run for it before.
ServedOnce ==
  /\ \A k \in 1..MaxRequests : k > asked \/ (\E r \in waiting : r.of = k) => ran[k] = <<>>
  /\ loop.of # 0 => \A r \in waiting : r.of # loop.of

WholeIsThrough ==
  \A log \in Logs : \A n \in DOMAIN log :
    log[n].role = "assistant" /\ log[n].end = "whole" => Through(log[n].of)

\* Events w are what the list still lacks: the calls in their order, each followed by its
\* result, and nothing behind the end.
OnTheWay(w, calls, done) ==
  /\ Pending(calls) => w # <<>> /\ w[1] = Event("tool_result", calls[Len(calls)].tool, Len(calls))
  /\ \A j \in DOMAIN w :
       /\ w[j].kind = "tool_start" =>
            /\ w[j].id \in Len(calls) + 1..Len(done) /\ w[j].tool = done[w[j].id].tool
            /\ j + 1 \in DOMAIN w /\ w[j + 1] = Event("tool_result", w[j].tool, w[j].id)
       /\ w[j].kind = "tool_result" => IF j = 1 THEN Pending(calls) ELSE w[j - 1].kind = "tool_start"
       /\ w[j].kind = "end" => j = Len(w)
  /\ \A i, j \in DOMAIN w :
       w[i].kind = "tool_start" /\ w[j].kind = "tool_start" /\ i < j => w[i].id < w[j].id
  /\ \A n \in Len(calls) + 1..Len(done) : \E j \in DOMAIN w : w[j].kind = "tool_start" /\ w[j].id = n
Ended(w) == \E j \in DOMAIN w : w[j].kind = "end"

Answering ==
  /\ (chat.of = 0 <=> chat.at = "none")
  /\ chat.at # "reading" => wire = <<>>
  /\ chat.at # "none" => Lists(chat.calls, ran[chat.of])
  /\ chat.at = "reading" => OnTheWay(wire, chat.calls, ran[chat.of]) /\ (Ended(wire) => Through(chat.of))
  /\ chat.at = "typing" =>
       Through(chat.of) /\ Len(chat.calls) = Len(ran[chat.of]) /\ ~Pending(chat.calls)

\* The mode changes between two questions only, and to the one that is shown.
OneMode ==
  /\ loop.of # 0 => mode = loop.began
  /\ unsure \/ \A r \in waiting : r.kind = "mode" => r.mode = shown

Inv ==
  /\ TypeOK /\ AgentIsSound
  /\ NoneYet /\ AboutAsked /\ LastAsked /\ ServedOnce /\ WholeIsThrough /\ Answering /\ OneMode
==============================================================================
