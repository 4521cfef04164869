------------------------------- MODULE SseFrames -------------------------------
(***************************************************************************)
(* The two parsers of event streams: SseParser of api/sse.rs, with the     *)
(* MessageStream that feeds it, and OpenAiSseParser of openai_compat.rs.   *)
(* The connection delivers the bytes of a stream in chunks that end        *)
(* anywhere; the events must not depend on where.                          *)
(*                                                                         *)
(* A byte is "r", "n" (the line ends) or a letter that stands for a data   *)
(* line: "a" and "b" parse, "x" does not, ":" is a comment.                *)
(***************************************************************************)
EXTENDS Integers, SequencesExt

CONSTANTS
  MaxFrames,  \* bound: frames of a stream
  MaxChunk    \* bound: bytes of a chunk

VARIABLES
  provider,   \* "anthropic" or "openai"
  wire,       \* the stream, in bytes; a history
  at,         \* how many of them have arrived
  buffer,     \* SseParser.buffer
  delivered,  \* the events the caller was given
  observed,   \* those of them observe_event has seen
  phase       \* "reading", "ended", or "failed" when a frame did not parse

vars == <<provider, wire, at, buffer, delivered, observed, phase>>

Byte == {"a", "b", "x", ":", "r", "n"}
Frame == {<<"a">>, <<"b">>, <<"x">>, <<":">>, <<"a", "b">>}

\* A server ends its lines in one way; the connection may be cut before the last blank line.
Line(ends) == IF ends = "lf" THEN <<"n">> ELSE <<"r", "n">>
Encoded(frame, ends) == FoldLeft(LAMBDA s, d : s \o <<d>> \o Line(ends), <<>>, frame) \o Line(ends)
Stream(frames, ends) == FoldLeft(LAMBDA s, f : s \o Encoded(f, ends), <<>>, frames)

\* What of the frames has come by itself, and what is left over at the end.
Whole(frames, complete) == IF complete THEN frames ELSE Front(frames)

Init ==
  /\ provider \in {"anthropic", "openai"}
  /\ \E n \in 1..MaxFrames : \E frames \in [1..n -> Frame], ends \in {"lf", "crlf"}, complete \in BOOLEAN :
       LET all == Stream(frames, ends) IN
       wire = [frames |-> frames, complete |-> complete,
               bytes |-> IF complete THEN all ELSE SubSeq(all, 1, Len(all) - Len(Line(ends)))]
  /\ at = 0 /\ buffer = <<>> /\ delivered = <<>> /\ observed = <<>> /\ phase = "reading"

-----------------------------------------------------------------------------
(* next_frame, the same in both parsers.                                   *)

\* The first place where a separator stands in the buffer, or 0.
Find(b, sep) ==
  LET places == {i \in 1..Len(b) - Len(sep) + 1 : SubSeq(b, i, i + Len(sep) - 1) = sep} IN
  IF places = {} THEN 0 ELSE CHOOSE i \in places : \A k \in places : i <= k

LfLf == <<"n", "n">>
CrLfCrLf == <<"r", "n", "r", "n">>

\* Mutant of Cut: what follows the separator in the chunk goes with it.
CutChunk(b) ==
  LET i == Find(b, LfLf)  k == Find(b, CrLfCrLf) IN
  IF i > 0 THEN <<SubSeq(b, 1, i - 1), <<>>>>
  ELSE IF k > 0 THEN <<SubSeq(b, 1, k - 1), <<>>>> ELSE <<>>

\* Mutant of Cut: only the separator of one kind of line end is known.
CutLf(b) ==
  LET i == Find(b, LfLf) IN
  IF i > 0 THEN <<SubSeq(b, 1, i - 1), SubSeq(b, i + 2, Len(b))>> ELSE <<>>

\* Frame and rest, or nothing; the pair of line feeds is looked for first, in all of the buffer.
Cut(b) ==
  LET i == Find(b, LfLf)  k == Find(b, CrLfCrLf) IN
  IF i > 0 THEN <<SubSeq(b, 1, i - 1), SubSeq(b, i + 2, Len(b))>>
  ELSE IF k > 0 THEN <<SubSeq(b, 1, k - 1), SubSeq(b, k + 4, Len(b))>> ELSE <<>>

\* parse_frame: the data lines; a frame of comments or of nothing is no event.
Data(bytes) == SelectSeq(bytes, LAMBDA c : c \in {"a", "b", "x"})
Parses(event) == "x" \notin ToSet(event)

\* push: the frames the buffer holds, one after another, until one does not parse.
Parsed(b) ==
  LET cut[c \in {SubSeq(b, i, Len(b)) : i \in 1..Len(b) + 1}] ==
        LET frame == Cut(c) IN
        IF frame = <<>> THEN [events |-> <<>>, rest |-> c, ok |-> TRUE]
        ELSE IF ~Parses(Data(frame[1])) THEN [events |-> <<>>, rest |-> frame[2], ok |-> FALSE]
        ELSE LET more == cut[frame[2]] IN
             [more EXCEPT !.events = (IF Data(frame[1]) = <<>> THEN <<>> ELSE <<Data(frame[1])>>) \o @]
  IN cut[b]

\* A chunk arrives; an error in it is returned instead of the events before it.
Push ==
  /\ phase = "reading" /\ at < Len(wire.bytes)
  /\ \E n \in 1..MaxChunk :
       LET to == IF at + n > Len(wire.bytes) THEN Len(wire.bytes) ELSE at + n
           p == Parsed(buffer \o SubSeq(wire.bytes, at + 1, to)) IN
       /\ at' = to /\ buffer' = p.rest
       /\ IF p.ok THEN delivered' = delivered \o p.events /\ observed' = observed \o p.events /\ UNCHANGED phase
          ELSE phase' = "failed" /\ UNCHANGED <<delivered, observed>>
  /\ UNCHANGED <<provider, wire>>

\* Mutant of Finish: both providers forget what is left in the buffer.
FinishForgets ==
  /\ phase = "reading" /\ at = Len(wire.bytes)
  /\ phase' = "ended" /\ UNCHANGED <<provider, wire, at, buffer, delivered, observed>>

\* The end of the connection: SseParser::finish parses the rest as a frame, whose event
\* next_event returns without observing it; the other parser has no finish.
Finish ==
  /\ phase = "reading" /\ at = Len(wire.bytes)
  /\ IF provider = "openai" THEN phase' = "ended" /\ UNCHANGED <<buffer, delivered>>
     ELSE /\ buffer' = <<>>
          /\ phase' = IF Parses(Data(buffer)) THEN "ended" ELSE "failed"
          /\ delivered' = IF Data(buffer) = <<>> \/ ~Parses(Data(buffer)) THEN delivered
                          ELSE Append(delivered, Data(buffer))
  /\ UNCHANGED <<provider, wire, at, observed>>

Next == Push \/ Finish
-----------------------------------------------------------------------------
TypeOK ==
  /\ at \in 0..Len(wire.bytes) /\ ToSet(buffer) \subseteq Byte
  /\ phase \in {"reading", "ended", "failed"}
  /\ IsPrefix(observed, delivered)

\* The events of frames, by their definition: no chunks, no buffer.
EventsOf(frames) == SelectSeq([i \in DOMAIN frames |-> Data(frames[i])], LAMBDA e : e # <<>>)
Good(frames) == \A i \in DOMAIN frames : Parses(Data(frames[i]))
Expected == EventsOf(IF provider = "openai" THEN Whole(wire.frames, wire.complete) ELSE wire.frames)

(* However the bytes are cut into chunks, the events are those of the      *)
(* frames, in order; of an unterminated last frame only SseParser makes one. *)
ChunksDoNotMatter == phase = "ended" => delivered = Expected

(* Before a frame that does not parse, events may be missing, but none is  *)
(* made up, and a stream of good frames never fails.                       *)
FailureIsHonest ==
  /\ IsPrefix(delivered, EventsOf(wire.frames))
  /\ phase = "failed" => ~Good(wire.frames)

(* Every event of a frame that ended is observed before it is returned.    *)
CompleteIsObserved == phase = "ended" /\ wire.complete => observed = delivered

FramesAreWhole == ChunksDoNotMatter /\ FailureIsHonest /\ CompleteIsObserved
===============================================================================
