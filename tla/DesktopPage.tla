----------------------------- MODULE DesktopPage -----------------------------
(***************************************************************************)
(* The page of the coding assistant, LobsterCode.tsx, in front of the      *)
(* service of DesktopChat.  Requests go to the service in their order, and *)
(* replies and the events of chats come back in theirs; an event does not  *)
(* say of which chat it is.  A change of the messages is a function that   *)
(* React may run later: it then looks at the answer which is current at    *)
(* that time, and not when the event came.                                 *)
(*                                                                         *)
(* The page can be left while a chat goes on, and a prompt of the advisor  *)
(* is sent by an effect, after the workspace was switched and a pause.  A  *)
(* piece is some text of an answer or one of its tools.                    *)
(***************************************************************************)
EXTENDS Naturals, SequencesExt

CONSTANTS
  MaxAsked,   \* bound: questions
  MaxPieces,  \* bound: pieces of an answer
  MaxOps      \* bound: what the user does else

VARIABLES
  mounted, messages, generating,
  current,    \* currentMessageIdRef: the question whose answer is shown, 0 for none
  queue,      \* functions that React has not run yet
  wire,       \* events and replies that the page has not read
  fix,        \* pendingFixPrompt
  due,        \* something has changed that the effect which sends it depends on
  senders,    \* how many sendFixPrompt are in their pause, for this page and for one that was left
  flag,       \* isGenerating of the service
  running,    \* chats that go on
  told,       \* how many pieces each chat has told
  asked, ops,
  alone,      \* histories: questions asked while no chat ran and no end or piece was on its way,
  adrift,     \* chats that were aborted, left, or overtaken by a prompt of the advisor,
  unrun       \* how many pieces were queued when the end of an answer was read

vars == <<mounted, messages, generating, current, queue, wire, fix, due, senders, flag, running, told,
          asked, ops, alone, adrift, unrun>>

shownPage == <<mounted, messages, generating, current, queue>>
service == <<flag, running, told>>
advice == <<fix, due, senders>>
histories == <<alone, adrift, unrun>>

Event(kind, k, n) == [kind |-> kind, of |-> k, n |-> n]
Reply(kind) == Event(kind, 0, 0)
Message(k, answer) == [of |-> k, answer |-> answer, pieces |-> <<>>]

Init ==
  /\ mounted = TRUE /\ messages = <<>> /\ generating = FALSE /\ current = 0 /\ queue = <<>> /\ wire = <<>>
  /\ fix = FALSE /\ due = FALSE /\ senders = [mine |-> 0, left |-> 0]
  /\ flag = FALSE /\ running = {} /\ told = [k \in 1..MaxAsked |-> 0]
  /\ asked = 0 /\ ops = 0
  /\ alone = {} /\ adrift = {} /\ unrun = [k \in 1..MaxAsked |-> 0]

User == ops < MaxOps /\ ops' = ops + 1

-----------------------------------------------------------------------------
\* Changes of the messages.

\* last?.id === currentMessageIdRef.current
Belongs(list) == list # <<>> /\ Last(list).answer /\ Last(list).of = current

Changed(list, f) ==
  CASE f.kind = "ask" -> list \o <<Message(f.of, FALSE), Message(f.of, TRUE)>>
    [] f.kind = "cleared" -> <<>>
    [] OTHER -> IF Belongs(list)
                THEN [list EXCEPT ![Len(list)].pieces = Append(@, [of |-> f.of, n |-> f.n])] ELSE list

\* setMessages: React runs the function at once when it has no other one, or later.
Set(f) ==
  \/ queue = <<>> /\ messages' = Changed(messages, f) /\ UNCHANGED queue
  \/ queue' = Append(queue, f) /\ UNCHANGED messages

\* Mutant of Rendered: the functions start from the messages that are shown.
RenderedLast == Changed(messages, Last(queue))

\* React runs them one on the result of the other.
Rendered == FoldLeft(Changed, messages, queue)

Render ==
  /\ queue # <<>> /\ queue' = <<>>
  /\ messages' = Rendered
  /\ UNCHANGED <<mounted, generating, current, wire, advice, service, asked, ops, histories>>

-----------------------------------------------------------------------------
\* Requests to the service.

ChatEvents == {"piece", "error", "done"}
Ends == {"error", "done", "aborted"}

\* chat: the service takes the question, or says at once that it is generating.
Chat(replies, also) ==
  LET k == asked + 1 IN
  /\ asked < MaxAsked /\ asked' = k
  /\ alone' = IF running = {} /\ \A i \in DOMAIN wire : wire[i].kind \notin ChatEvents \union Ends
              THEN alone \union {k} ELSE alone
  /\ IF flag
     THEN /\ wire' = wire \o <<Event("error", k, 0)>> \o replies
          /\ UNCHANGED <<flag, running>>
     ELSE /\ wire' = wire \o replies
          /\ running' = running \union {k} /\ flag' = TRUE
  /\ adrift' = adrift \union also \union (IF flag THEN running ELSE {})
  /\ UNCHANGED <<told, unrun>>

\* handleSendMessage, up to the request.
Send == Set(Event("ask", asked + 1, 0)) /\ current' = asked + 1 /\ generating' = TRUE /\ UNCHANGED mounted

\* The user sends; a click is rendered before the next one.
Asks ==
  /\ mounted /\ ~generating
  /\ Send /\ Chat(<<>>, {})
  /\ UNCHANGED <<advice, ops>>

\* The effect: the prompt of the advisor waits, and nothing is generated.
FixBegins ==
  /\ mounted /\ fix /\ due /\ ~generating
  /\ due' = FALSE /\ senders' = [senders EXCEPT !.mine = @ + 1]
  /\ UNCHANGED <<shownPage, wire, fix, service, asked, ops, histories>>

\* After the pause it is sent, whether or not something is generated by now, and the page is
\* there; the reply takes the prompt away.
FixSends ==
  /\ \/ senders.mine > 0 /\ senders' = [senders EXCEPT !.mine = @ - 1] /\ Send
        /\ Chat(<<Reply("fixed")>>, {current} \ {0})
     \/ senders.left > 0 /\ senders' = [senders EXCEPT !.left = @ - 1] /\ UNCHANGED shownPage
        /\ Chat(<<Reply("fixed")>>, {asked + 1})
  /\ UNCHANGED <<fix, due, ops>>

\* handleAbort, up to the reply.
Abort ==
  /\ mounted /\ generating /\ User
  /\ flag' = FALSE /\ wire' = Append(wire, Reply("aborted"))
  /\ adrift' = adrift \union running
  /\ UNCHANGED <<shownPage, advice, running, told, asked, alone, unrun>>

\* handleClearChat, handleCreateSession and handleSwitchSession.
Clear ==
  /\ mounted /\ User
  /\ wire' = Append(wire, Reply("cleared"))
  /\ UNCHANGED <<shownPage, advice, service, asked, histories>>

\* The service tells a piece of an answer, and its end: it has then stopped generating.
Tell(k) ==
  /\ k \in running /\ told[k] < MaxPieces
  /\ told' = [told EXCEPT ![k] = @ + 1]
  /\ wire' = Append(wire, Event("piece", k, told[k] + 1))
  /\ UNCHANGED <<shownPage, advice, flag, running, asked, ops, histories>>
End(k) ==
  /\ k \in running /\ running' = running \ {k} /\ flag' = FALSE
  /\ \E kind \in {"error", "done"} : wire' = Append(wire, Event(kind, k, 0))
  /\ UNCHANGED <<shownPage, advice, told, asked, ops, histories>>

-----------------------------------------------------------------------------
\* What the page reads.

\* Mutant of Idle: an error does not end the answer.
IdleWhenDone(e) ==
  /\ IF e.kind = "error" THEN UNCHANGED <<generating, due>> ELSE generating' = FALSE /\ due' = TRUE
  /\ current' = 0
  /\ unrun' = IF current = 0 THEN unrun ELSE [unrun EXCEPT ![current] = Len(SelectSeq(queue, LAMBDA f : f.kind = "piece"))]

\* The answer has ended, has been refused or aborted.
Idle(e) ==
  /\ generating' = FALSE /\ due' = TRUE /\ current' = 0
  /\ unrun' = IF current = 0 THEN unrun ELSE [unrun EXCEPT ![current] = Len(SelectSeq(queue, LAMBDA f : f.kind = "piece"))]

\* handleChatEvent, and what follows the replies; a page that was left hears replies only, of
\* which one concerns more than its own state.
Read ==
  /\ wire # <<>> /\ wire' = Tail(wire)
  /\ LET e == Head(wire) IN
     /\ fix' = (fix /\ e.kind # "fixed")
     /\ IF ~mounted \/ e.kind = "fixed" \/ (e.kind = "piece" /\ current = 0)
        THEN UNCHANGED <<messages, queue, generating, due, current, unrun>>
        ELSE IF e.kind \in {"piece", "cleared"} THEN Set(e) /\ UNCHANGED <<generating, due, current, unrun>>
        ELSE Idle(e) /\ UNCHANGED <<messages, queue>>
  /\ UNCHANGED <<mounted, senders, service, asked, ops, alone, adrift>>

-----------------------------------------------------------------------------
\* The user goes to another page of the program, where the advisor may have a prompt, and back.

Leave ==
  /\ mounted /\ User
  /\ mounted' = FALSE /\ messages' = <<>> /\ queue' = <<>> /\ current' = 0 /\ generating' = FALSE
  /\ senders' = [mine |-> 0, left |-> senders.left + senders.mine]
  /\ adrift' = adrift \union running
  /\ UNCHANGED <<wire, fix, due, service, asked, alone, unrun>>

Advise ==
  /\ ~mounted /\ ~fix /\ User
  /\ fix' = TRUE
  /\ UNCHANGED <<shownPage, wire, due, senders, service, asked, histories>>

Enter ==
  /\ ~mounted /\ mounted' = TRUE /\ due' = TRUE
  /\ UNCHANGED <<messages, generating, current, queue, wire, fix, senders, service, asked, ops, histories>>

Next ==
  \/ Asks \/ FixBegins \/ FixSends \/ Abort \/ Clear \/ Render \/ Read
  \/ (\E k \in running : Tell(k) \/ End(k))
  \/ Leave \/ Advise \/ Enter

-----------------------------------------------------------------------------
TypeOK ==
  LET Numbered == [of : 1..asked, n : 1..MaxPieces] IN
  /\ mounted \in BOOLEAN /\ generating \in BOOLEAN /\ fix \in BOOLEAN /\ due \in BOOLEAN /\ flag \in BOOLEAN
  /\ messages \in Seq([of : 1..asked, answer : BOOLEAN, pieces : Seq(Numbered)])
  /\ current \in 0..asked /\ running \subseteq 1..asked /\ told \in [1..MaxAsked -> 0..MaxPieces]
  /\ queue \in Seq([kind : {"ask", "piece", "cleared"}, of : 0..asked, n : 0..MaxPieces])
  /\ wire \in Seq([kind : ChatEvents \union Ends \union {"cleared", "fixed"}, of : 0..asked, n : 0..MaxPieces])

Answers == {i \in DOMAIN messages : messages[i].answer /\ messages[i].of \in alone}

\* An answer is made of its own pieces, in their order from the first, when no other chat was
\* about as it was asked.
OwnPieces == \A i \in Answers : \A n \in DOMAIN messages[i].pieces : messages[i].pieces[n] = [of |-> messages[i].of, n |-> n]

\* It is whole when it has ended by itself, but for what was not yet run when its end was read.
WholeAnswers ==
  \A i \in Answers : LET k == messages[i].of IN
    k \notin running \union adrift /\ queue = <<>> /\ (\A j \in DOMAIN wire : wire[j].of # k) =>
      Len(messages[i].pieces) + unrun[k] >= told[k]

\* The page waits only for what is to come, and it does not wait only when nothing is, unless
\* the chat is adrift or was not alone.
WaitsRightly ==
  mounted => IF generating THEN running # {} \/ \E i \in DOMAIN wire : wire[i].kind \in Ends
             ELSE running \intersect alone \subseteq adrift

PageIsTrue == OwnPieces /\ WholeAnswers /\ WaitsRightly
==============================================================================
