----------------------------- MODULE ModelStream -----------------------------
(***************************************************************************)
(* One answer of a model, from the request to the events the conversation  *)
(* takes: the requests with their retries, the stream of a provider        *)
(* (Anthropic, or a chat completion that StreamState translates), and its  *)
(* two consumers, that of the command line and that of a sub-agent.        *)
(*                                                                         *)
(* A message is a text or none, and calls with arguments in parts.  A part *)
(* stands for the call it belongs to, so that the arguments a consumer     *)
(* gathers show whose they are.                                            *)
(***************************************************************************)
EXTENDS Naturals, Sequences, SequencesExt

CONSTANTS
  MaxCalls, MaxParts,  \* bounds: calls of a message, parts of the arguments of one
  MaxRetries,          \* retries of a request
  Chain,               \* bound: providers of a sub-agent, the first and its fallbacks
  MaxFaults            \* bound: refused requests, errors and early ends of streams

VARIABLES
  consumer,   \* "cli" or "agent", its providers, and whether tool results were sent
  phase,      \* "send" (a stream), "stream", "ask" (the whole answer), "done"
  entry,      \* the provider in use: its place in the chain
  nudges,     \* streams of the command line that stalled
  tries,      \* attempts of send_with_retry
  message,    \* what the server answers to this request
  server,     \* how far it has sent it
  state,      \* StreamState
  taken,      \* what the consumer keeps of the stream: open calls and events
  result,     \* what stream() returns
  sends, faults

vars == <<consumer, phase, entry, nudges, tries, message, server, state, taken, result, sends, faults>>

Call == 1..MaxCalls
Message == [text : BOOLEAN, calls : UNION {[1..n -> 0..MaxParts] : n \in 0..MaxCalls}]
Provider == {"anthropic", "openai"}
provider == consumer.chain[entry]

\* A new StreamState, or what an Anthropic stream keeps, which is nothing.
NoCall == [named |-> FALSE, args |-> 0, emitted |-> 0, started |-> FALSE, stopped |-> FALSE]
FreshState == [text |-> FALSE, begun |-> FALSE, calls |-> [c \in Call |-> NoCall]]

Nothing == [open |-> [c \in Call |-> <<>>], pending |-> {}, events |-> <<>>, stop |-> FALSE]
Unsent == [text |-> FALSE, named |-> {}, parts |-> [c \in Call |-> 0], block |-> 0, open |-> FALSE,
           finish |-> FALSE, complete |-> FALSE]

Init ==
  /\ consumer \in [kind : {"agent"}, chain : [1..Chain -> Provider], postTool : {FALSE}]
                    \union [kind : {"cli"}, chain : [1..1 -> Provider], postTool : BOOLEAN]
  /\ phase = "send" /\ entry = 1 /\ nudges = 0 /\ tries = 0
  /\ message \in Message
  /\ server = Unsent /\ state = FreshState /\ taken = Nothing
  /\ result = "none"
  /\ sends = 0 /\ faults = 0

-----------------------------------------------------------------------------
(* The consumers.  `pending' holds the calls a consumer has open: the      *)
(* sub-agent keeps them by the index of their block, the command line has  *)
(* one at a time.                                                          *)

Start(c) == [type |-> "start", call |-> c, parts |-> 0]
Json(c, n) == [type |-> "json", call |-> c, parts |-> n]
Stop(c) == [type |-> "stop", call |-> c, parts |-> 0]
Text == [type |-> "text", call |-> 0, parts |-> 0]
End == [type |-> "end", call |-> 0, parts |-> 0]

ToolUse(c, args) == [call |-> c, args |-> args]
Parts(c, n) == [i \in 1..n |-> c]

\* Mutant of OpenOnStart: the calls of the sub-agent share one place, too.
OpenOnlyLast(t, c) == [t EXCEPT !.pending = {c}, !.open[c] = <<>>]

\* push_output_block of a tool call.
OpenOnStart(t, c) ==
  [t EXCEPT !.pending = IF consumer.kind = "cli" THEN {c} ELSE @ \union {c}, !.open[c] = <<>>]

\* The call a delta or a stop of the block c is about.
Meant(t, c) == IF consumer.kind = "cli" THEN t.pending ELSE t.pending \intersect {c}

\* consume_stream and stream_with_provider: one event.
Consume(t, e) ==
  CASE e.type = "text" -> [t EXCEPT !.events = Append(@, ToolUse(0, <<>>))]
    [] e.type = "start" -> OpenOnStart(t, e.call)
    [] e.type = "json" -> [t EXCEPT !.open = [c \in Call |->
                             IF c \in Meant(t, e.call) THEN @[c] \o Parts(e.call, e.parts) ELSE @[c]]]
    [] e.type = "stop" ->
         IF Meant(t, e.call) = {} THEN t
         ELSE LET c == CHOOSE x \in Meant(t, e.call) : TRUE
              IN [t EXCEPT !.pending = @ \ {c}, !.events = Append(@, ToolUse(c, t.open[c]))]
    [] OTHER -> [t EXCEPT !.stop = TRUE]

Took(events) == FoldLeft(Consume, taken, events)

-----------------------------------------------------------------------------
(* StreamState: a chunk of a chat completion becomes events.               *)

\* A delta of one call: ToolCallState::apply, then what can be sent of it.
Applied(s, d) ==
  LET c == [s.calls[d.call] EXCEPT !.named = @ \/ d.named, !.args = @ + d.parts]
  IN [s EXCEPT !.calls[d.call] = IF c.named THEN [c EXCEPT !.started = TRUE, !.emitted = c.args] ELSE c]

\* The events of a call that is c before and d after.
Emitted(i, c, d) ==
  (IF d.started /\ ~c.started THEN <<Start(i)>> ELSE <<>>)
    \o (IF d.emitted > c.emitted THEN <<Json(i, d.emitted - c.emitted)>> ELSE <<>>)
    \o (IF d.stopped /\ ~c.stopped THEN <<Stop(i)>> ELSE <<>>)

EventsOf(s, t) ==
  FoldLeft(LAMBDA q, i : q \o Emitted(i, s.calls[i], t.calls[i]), <<>>, [i \in Call |-> i])

\* finish_reason "tool_calls" stops every call that was started.
Stopped(s) ==
  [s EXCEPT !.calls = [c \in Call |-> [s.calls[c] EXCEPT !.stopped = @ \/ s.calls[c].started]]]

\* Mutant of Finished: only calls that have arguments are stopped at the end.
FinishedWithArguments(s) ==
  [s EXCEPT !.calls = [c \in Call |-> [s.calls[c] EXCEPT !.stopped = @ \/ s.calls[c].args > 0]]]

\* finish(): calls that are still open are stopped, whether or not the server was done.
Finished(s) == Stopped(s)

Begun(s) == [s EXCEPT !.begun = TRUE]

Ingest(s, events) ==
  /\ state' = s
  /\ taken' = Took(events \o EventsOf(state, s))

-----------------------------------------------------------------------------
(* Requests.                                                               *)

Fault == faults < MaxFaults /\ faults' = faults + 1

\* What send_with_retry returns to a caller that waits for an answer.
Accepted(next) ==
  /\ phase' = next
  /\ tries' = 0 /\ UNCHANGED <<entry, nudges, faults, result>>

\* The next request: it is answered by another message.
Again(t) ==
  /\ message' \in Message
  /\ server' = Unsent /\ state' = FreshState /\ taken' = t
  /\ phase' = "send" /\ tries' = 0 /\ UNCHANGED result

\* Mutant of Failed: a sub-agent goes on with what the failed provider has sent.
FailedKeepsEvents(retryable) ==
  IF consumer.kind = "agent" /\ retryable /\ entry < Chain
  THEN entry' = entry + 1 /\ Again(taken)
  ELSE /\ result' = "error" /\ phase' = "done"
       /\ UNCHANGED <<entry, tries, message, server, state, taken>>

\* The error of a request or a stream: a sub-agent falls back to its next provider.
Failed(retryable) ==
  IF consumer.kind = "agent" /\ retryable /\ entry < Chain
  THEN entry' = entry + 1 /\ Again(Nothing)
  ELSE /\ result' = "error" /\ phase' = "done"
       /\ UNCHANGED <<entry, tries, message, server, state, taken>>

\* Mutant of Retries: one attempt more than max_retries allows.
RetriesOnce == tries <= MaxRetries

Retries == tries + 1 <= MaxRetries

\* send_with_retry: one attempt.
Send ==
  /\ phase \in {"send", "ask"}
  /\ sends' = sends + 1
  /\ \/ /\ Accepted(IF phase = "send" THEN "stream" ELSE "done")
        /\ IF phase = "send" THEN UNCHANGED <<message, server, state, taken>>
           ELSE /\ taken' = [Nothing EXCEPT !.stop = TRUE, !.events =
                     (IF message.text THEN <<ToolUse(0, <<>>)>> ELSE <<>>)
                       \o [c \in DOMAIN message.calls |-> ToolUse(c, Parts(c, message.calls[c]))]]
                /\ server' = [server EXCEPT !.complete = TRUE]
                /\ UNCHANGED <<message, state>>
     \/ /\ Fault /\ Retries /\ tries' = tries + 1
        /\ UNCHANGED <<phase, entry, nudges, message, server, state, taken, result>>
     \/ /\ Fault /\ \E retryable \in BOOLEAN : (retryable => ~Retries) /\ Failed(retryable)
        /\ UNCHANGED nudges
  /\ UNCHANGED consumer

-----------------------------------------------------------------------------
(* Streams.                                                                *)

Streaming(p) == phase = "stream" /\ provider = p
InStream == UNCHANGED <<consumer, phase, entry, nudges, tries, message, result, sends, faults>>

\* Anthropic: the blocks one after another, each opened, sent and closed.
ContentBlockStart ==
  /\ Streaming("anthropic") /\ ~server.open /\ ~server.complete
  /\ message.text => server.text
  /\ server.block < Len(message.calls)
  /\ server' = [server EXCEPT !.block = @ + 1, !.open = TRUE]
  /\ taken' = Took(<<Start(server.block + 1)>>)
  /\ UNCHANGED state /\ InStream

ContentBlockDelta ==
  /\ Streaming("anthropic") /\ server.open
  /\ server.parts[server.block] < message.calls[server.block]
  /\ server' = [server EXCEPT !.parts[server.block] = @ + 1]
  /\ taken' = Took(<<Json(server.block, 1)>>)
  /\ UNCHANGED state /\ InStream

ContentBlockStop ==
  /\ Streaming("anthropic") /\ server.open
  /\ server.parts[server.block] = message.calls[server.block]
  /\ server' = [server EXCEPT !.open = FALSE]
  /\ taken' = Took(<<Stop(server.block)>>)
  /\ UNCHANGED state /\ InStream

\* A text, before the calls; the stop of its block closes no call.
TextBlock ==
  /\ phase = "stream" /\ message.text /\ ~server.text /\ ~server.complete
  /\ server.block = 0 /\ server.named = {}
  /\ server' = [server EXCEPT !.text = TRUE]
  /\ IF provider = "openai" THEN Ingest([Begun(state) EXCEPT !.text = TRUE], <<Text>>)
     ELSE taken' = Took(<<Text>>) /\ UNCHANGED state
  /\ InStream

MessageStop ==
  /\ Streaming("anthropic") /\ ~server.open /\ server.block = Len(message.calls)
  /\ (message.text => server.text) /\ ~server.complete
  /\ server' = [server EXCEPT !.complete = TRUE]
  /\ taken' = Took(<<End>>)
  /\ UNCHANGED state /\ InStream

\* A chunk with deltas of one call: the calls begin in order, their parts may mix; the
\* name of a call is in its first delta or in a later one.
Delta(c) ==
  /\ Streaming("openai") /\ ~server.finish
  /\ message.text => server.text
  /\ c \in DOMAIN message.calls /\ (c > 1 => c - 1 \in server.named)
  /\ \E named \in BOOLEAN, parts \in 0..1 :
       /\ c \in server.named => ~named /\ parts = 1
       /\ named \/ parts > 0
       /\ server.parts[c] + parts <= message.calls[c]
       /\ server' = [server EXCEPT !.parts[c] = @ + parts,
                                   !.named = IF named THEN @ \union {c} ELSE @]
       /\ Ingest(Applied(Begun(state), [call |-> c, named |-> named, parts |-> parts]), <<>>)
  /\ InStream

\* The last chunk: "tool_calls", or "stop" as some servers say whatever they sent.
FinishReason ==
  /\ Streaming("openai") /\ ~server.finish
  /\ (message.text => server.text) /\ server.named = DOMAIN message.calls
  /\ \A c \in DOMAIN message.calls : server.parts[c] = message.calls[c]
  /\ server' = [server EXCEPT !.finish = TRUE, !.complete = TRUE]
  /\ \E reason \in {"tool_calls", "stop"} :
       Ingest(IF reason = "tool_calls" THEN Stopped(Begun(state)) ELSE Begun(state), <<>>)
  /\ InStream

\* The stream is at its end, in good order or cut off: what is left becomes the result.
\* Without a stop and without content the whole answer is asked for.
EndOfStream ==
  /\ phase = "stream"
  /\ IF server.complete THEN UNCHANGED faults ELSE Fault
  /\ LET s == IF provider = "openai" THEN Finished(state) ELSE state
         end == IF provider = "openai" /\ state.begun THEN <<End>> ELSE <<>>
         t == Took(EventsOf(state, s) \o end)
     IN IF t.stop \/ t.events # <<>>
        THEN /\ taken' = [t EXCEPT !.stop = TRUE] /\ state' = s
             /\ phase' = "done" /\ result' = "ok"
             /\ UNCHANGED <<message, server>>
        ELSE /\ phase' = "ask" /\ message' \in Message
             /\ server' = Unsent /\ state' = FreshState /\ taken' = Nothing
             /\ UNCHANGED result
  /\ UNCHANGED <<consumer, entry, nudges, tries, sends>>

\* The connection breaks, or a frame does not parse.
StreamFails ==
  /\ phase = "stream" /\ Fault
  /\ \E retryable \in BOOLEAN : Failed(retryable)
  /\ UNCHANGED <<consumer, nudges, sends>>

\* No event in time after tool results: the command line asks once more.
Stall ==
  /\ phase = "stream" /\ consumer.postTool /\ nudges = 0
  /\ server = Unsent
  /\ nudges' = 1 /\ Again(Nothing)
  /\ UNCHANGED <<consumer, entry, sends, faults>>

\* The whole answer, asked for without a stream, is the result.
Whole == phase = "done" /\ result = "none" /\ result' = "ok"
         /\ UNCHANGED <<consumer, phase, entry, nudges, tries, message, server, state, taken, sends, faults>>

Next ==
  \/ Send \/ ContentBlockStart \/ ContentBlockDelta \/ ContentBlockStop \/ TextBlock \/ MessageStop
  \/ \E c \in Call : Delta(c)
  \/ FinishReason \/ EndOfStream \/ StreamFails \/ Stall \/ Whole

Spec == Init /\ [][Next]_vars

-----------------------------------------------------------------------------
(* Properties.                                                             *)

Ok == phase = "done" /\ result = "ok"
Delivered == SelectSeq(taken.events, LAMBDA e : e.call # 0)
Asked == [c \in DOMAIN message.calls |-> ToolUse(c, Parts(c, message.calls[c]))]

\* The consumer of the command line has one place for a call.
OneByOne == consumer.kind = "agent" \/ provider = "anthropic"

(* What the conversation executes is what the model asked for: the calls   *)
(* of the message that was sent to the end, in order, with their own       *)
(* arguments and all of them, whatever attempts, providers and streams     *)
(* were given up before.                                                   *)
CallsArriveWhole == Ok /\ server.complete /\ OneByOne => Delivered = Asked

(* Of a stream that was cut off an Anthropic client takes whole calls; a   *)
(* chat completion may end in a call with the first of its arguments, and  *)
(* in no argument of another call.                                         *)
CutOffIsPrefix ==
  Ok /\ ~server.complete /\ OneByOne =>
    \A i \in DOMAIN Delivered :
      LET d == Delivered[i] IN
      /\ d.call = i /\ i \in DOMAIN Asked
      /\ IsPrefix(d.args, Parts(i, message.calls[i]))
      /\ provider = "anthropic" => d = Asked[i]

(* One answer costs a bounded number of requests, for all the retries,     *)
(* fallbacks and nudges that are nested in it.                             *)
SendsBounded ==
  sends <= (IF consumer.kind = "agent" THEN 2 * entry ELSE 2 + nudges) * (MaxRetries + 1)

StreamsSound == CallsArriveWhole /\ CutOffIsPrefix /\ SendsBounded

(* The test pending_tools_preserve_multiple_streaming_tool_calls_by_index  *)
(* (tools/src/lib.rs:6354), of every consumer: no call of a message that   *)
(* was sent to the end is lost.                                            *)
NoCallIsLost == Ok /\ server.complete => Len(Delivered) = Len(message.calls)
==============================================================================
