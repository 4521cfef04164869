------------------------------ MODULE PromptCache ------------------------------
(***************************************************************************)
(* The prompt cache of api/src/prompt_cache.rs: answers to whole requests  *)
(* are kept in files for a short time, and the usage of each request is    *)
(* compared with the one before to notice that the provider's own cache    *)
(* was lost.                                                               *)
(*                                                                         *)
(* Every turn builds a new client, so the cache lives in its files: the    *)
(* entries, the statistics and the last request.  A write that fails is    *)
(* ignored, a file that cannot be read counts as missing, and the clock of *)
(* the system may be set back.  A request is its fingerprint.              *)
(***************************************************************************)
EXTENDS Integers

CONSTANTS
  Requests,
  CompletionTtl, PromptTtl,  \* seconds
  MaxTime,                   \* bound: the clock
  MaxCalls,                  \* bound: requests
  MaxFaults                  \* bound: writes that fail, clocks that are set back

VARIABLES
  clock,     \* now_unix_secs
  entries,   \* completions/: of each request, when it was cached, or -1
  memory,    \* PromptCacheInner: the statistics and the last request, with when and what it read
  files,     \* what stats.json and session-state.json hold of them
  calls,     \* what was asked and how it was answered
  result,    \* the outcome of the last call
  born,      \* when the provider last answered each request with a whole response, in real
  contact,   \* time, and when at all; histories
  back,      \* by how much the clock has been set back
  faults

vars == <<clock, entries, memory, files, calls, result, born, contact, back, faults>>

now == clock + back  \* real time

\* Tokens the provider read from its cache, in units of cache_break_min_drop.
Reads == 0..1
None == [request |-> "none", at |-> -1, read |-> 0]
NoStats == [hits |-> 0, misses |-> 0, tracked |-> 0, expected |-> 0, unexpected |-> 0]
NoResult == [kind |-> "none", request |-> "none", break |-> "none", age |-> 0]

Init ==
  /\ clock = 0 /\ entries = [r \in Requests |-> -1]
  /\ memory = [stats |-> NoStats, previous |-> None] /\ files = memory
  /\ calls = 0 /\ result = NoResult
  /\ born = [r \in Requests |-> -1] /\ contact = born /\ back = 0 /\ faults = 0

Fault == faults < MaxFaults /\ faults' = faults + 1
Sub(a, b) == IF a < b THEN 0 ELSE a - b  \* saturating_sub

\* persist_state: two files, each of which may not be written.
Persist(m) ==
  \/ files' = m /\ UNCHANGED faults
  \/ /\ Fault
     /\ \E f \in {files, [files EXCEPT !.stats = m.stats], [files EXCEPT !.previous = m.previous]} : files' = f

\* Mutant of Expired: an entry of the boundary is still good.
ExpiredLate(r) == Sub(clock, entries[r]) > CompletionTtl

\* lookup_completion: the age is measured with a clock that may have been set back.
Expired(r) == Sub(clock, entries[r]) >= CompletionTtl

\* A request whose answer is there and fresh is answered from the file; its usage, of which
\* the entry has what was read then, becomes the last one, as of now.
Hit(r) ==
  /\ calls < MaxCalls /\ calls' = calls + 1
  /\ entries[r] # -1 /\ ~Expired(r)
  /\ \E read \in Reads :
       memory' = [stats |-> [memory.stats EXCEPT !.hits = @ + 1],
                  previous |-> [request |-> r, at |-> clock, read |-> read]]
  /\ Persist(memory')
  /\ result' = [kind |-> "hit", request |-> r, break |-> "none", age |-> now - born[r]]
  /\ UNCHANGED <<clock, entries, born, contact, back>>

\* Mutant of detect_cache_break: the age of the prompt is not looked at.
detect_by_fingerprint(r, read) ==
  IF memory.previous = None \/ Sub(memory.previous.read, read) < 1 THEN "none"
  ELSE IF memory.previous.request # r THEN "expected" ELSE "unexpected"

\* detect_cache_break: a drop is expected if the request changed or the prompt is old.
detect_cache_break(r, read) ==
  IF memory.previous = None \/ Sub(memory.previous.read, read) < 1 THEN "none"
  ELSE IF memory.previous.request # r THEN "expected"
  ELSE IF Sub(clock, memory.previous.at) > PromptTtl THEN "expected" ELSE "unexpected"

Counted(stats, break) ==
  [stats EXCEPT !.tracked = @ + 1,
     !.expected = @ + IF break = "expected" THEN 1 ELSE 0,
     !.unexpected = @ + IF break = "unexpected" THEN 1 ELSE 0]

\* record_usage_internal, with the response or, of a stream, with its usage alone.
Recorded(r, stats, whole) ==
  \E read \in Reads :
    LET break == detect_cache_break(r, read) IN
    /\ memory' = [stats |-> Counted(stats, break), previous |-> [request |-> r, at |-> clock, read |-> read]]
    /\ result' = [kind |-> "answer", request |-> r, break |-> break,
                  age |-> now - contact[r]]
    /\ \/ entries' = IF whole THEN [entries EXCEPT ![r] = clock] ELSE entries
       \/ whole /\ entries' = [entries EXCEPT ![r] = -1]
    /\ born' = IF whole THEN [born EXCEPT ![r] = now] ELSE born
    /\ contact' = [contact EXCEPT ![r] = now]
    /\ Persist(memory')

\* send_message without an entry that can be used: an expired one is removed first.
Miss(r) ==
  /\ calls < MaxCalls /\ calls' = calls + 1
  /\ entries[r] = -1 \/ Expired(r)
  /\ Recorded(r, [memory.stats EXCEPT !.misses = @ + 1], TRUE)
  /\ UNCHANGED <<clock, back>>

\* The request fails after the lookup.
Failed(r) ==
  /\ calls < MaxCalls /\ calls' = calls + 1
  /\ entries[r] = -1 \/ Expired(r)
  /\ entries' = [entries EXCEPT ![r] = -1]
  /\ memory' = [memory EXCEPT !.stats.misses = @ + 1] /\ Persist(memory')
  /\ result' = NoResult
  /\ UNCHANGED <<clock, born, contact, back>>

\* A stream that came to its end; its answer is not kept.
Streamed(r) ==
  /\ calls < MaxCalls /\ calls' = calls + 1
  /\ Recorded(r, memory.stats, FALSE)
  /\ UNCHANGED <<clock, back>>

\* PromptCache::new for the next turn, or the next program: what the files say.
Reopen ==
  /\ memory # files /\ memory' = files /\ result' = NoResult
  /\ UNCHANGED <<clock, entries, files, calls, born, contact, back, faults>>

Tick ==
  /\ \/ clock < MaxTime /\ clock' = clock + 1 /\ UNCHANGED <<back, faults>>
     \/ clock > 0 /\ Fault /\ clock' = clock - 1 /\ back' = back + 1
  /\ result' = NoResult
  /\ UNCHANGED <<entries, memory, files, calls, born, contact>>

Next == (\E r \in Requests : Hit(r) \/ Miss(r) \/ Failed(r) \/ Streamed(r)) \/ Reopen \/ Tick
-----------------------------------------------------------------------------
TypeOK ==
  /\ clock \in 0..MaxTime /\ entries \in [Requests -> -1..MaxTime]
  /\ result.kind \in {"none", "hit", "answer"} /\ result.break \in {"none", "expected", "unexpected"}

(* An answer from the files is the newest one to its request, and no older *)
(* than its time to live, with what the clock was set back.                *)
HitIsFresh ==
  result.kind = "hit" => born[result.request] # -1 /\ result.age < CompletionTtl + back

(* A break is called unexpected only if the provider answered the same     *)
(* request not long ago.  A hit renews the request without asking the      *)
(* provider, so the time to live of an entry adds to the provider's own.   *)
UnexpectedIsRecent ==
  result.break = "unexpected" =>
    contact[result.request] # -1 /\ result.age <= PromptTtl + CompletionTtl + back

(* The statistics of a program that has lost no file count every lookup    *)
(* and every answer once, across all the clients.                          *)
StatsAddUp ==
  faults = 0 =>
    /\ files = memory
    /\ memory.stats.expected + memory.stats.unexpected <= memory.stats.tracked
    /\ memory.stats.hits + memory.stats.misses <= calls
    /\ memory.stats.tracked + memory.stats.hits <= calls

CacheIsSound == HitIsFresh /\ UnexpectedIsRecent /\ StatsAddUp

-----------------------------------------------------------------------------
(* What all this follows from.                                             *)

Stats == [hits : Nat, misses : Nat, tracked : Nat, expected : Nat, unexpected : Nat]
Usage == [request : Requests, at : Nat, read : Reads]
Memory == [stats : Stats, previous : {None} \cup Usage]

\* An entry holds an answer the provider gave no earlier than the entry's time.
EntryIsBorn(r) ==
  /\ born[r] <= contact[r] /\ contact[r] <= now
  /\ entries[r] # -1 => entries[r] <= born[r]

\* The last request was answered by the provider then, or by an entry that was fresh then.
PreviousIsRecent(m) ==
  m.previous # None => contact[m.previous.request] >= m.previous.at - CompletionTtl

Inv ==
  /\ clock \in 0..MaxTime /\ back \in Nat /\ calls \in Nat /\ faults \in Nat
  /\ entries \in [Requests -> -1..MaxTime]
  /\ born \in [Requests -> Int] /\ contact \in [Requests -> Int]
  /\ memory \in Memory /\ files \in Memory
  /\ \A r \in Requests : EntryIsBorn(r)
  /\ PreviousIsRecent(memory) /\ PreviousIsRecent(files)
  /\ result \in [kind : {"none", "hit", "answer"}, request : Requests \cup {"none"},
                 break : {"none", "expected", "unexpected"}, age : Int]
  /\ CacheIsSound
===============================================================================
