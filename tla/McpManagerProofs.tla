--------------------------- MODULE McpManagerProofs ---------------------------
(***************************************************************************)
(* What McpServerManager promises, for any servers with any lists of       *)
(* tools, and any number of operations and faults: that its flags and      *)
(* pipes agree with the children, that its retries heal one fault and then *)
(* end, that a discovery is exact, that a shutdown leaves nothing behind,  *)
(* and that a tool runs at most once for a call.                           *)
(***************************************************************************)
EXTENDS McpManager, TLAPS, SequenceTheorems, FiniteSetTheorems

(* The inductive invariant has three parts.  The first is about the        *)
(* operation: what it has at each of its stages.                           *)
Asking == {"init", "ask", "wait"}
Busy == {"enter"} \union Asking

Stages ==
  /\ op.stage = "idle" => op = Idle
  /\ op.stage = "unknown" => op.kind = "call" /\ op.faults = 0
  /\ op.stage = "next" => op.kind \in Sweep /\ op.server = None
  /\ op.stage = "stop" => op.kind = "shutdown" /\ op.server \in Server
  /\ op.stage \in Busy => op.kind \notin {"none", "shutdown"} /\ op.server \in Server

\* An attempt begins at the first page; a discovery has listed a part of what its server has.
Pages ==
  /\ op.stage \in {"enter", "init"} => op.cursor = 0
  /\ op.kind \in Discovery /\ op.stage \in Busy =>
       /\ op.cursor \in 0 .. Len(Lists[op.server])
       /\ op.tools = SubSeq(Lists[op.server], 1, op.cursor)

\* An attempt costs two timeouts at most, and there is a second one only after a first.
Tries ==
  op.stage \in Busy =>
    /\ op.faults <= 2 * op.tries + op.inits
    /\ op.tries = 1 => op.faults >= 1 /\ op.kind # "call"

\* The servers that a sweep has before it, the current one among them.
ToDo == Range(op.todo) \union (IF op.server = None THEN {} ELSE {op.server})

\* A server is visited once.
Sweeping ==
  op.kind \in Sweep => IsInjective(op.todo) /\ op.server \notin Range(op.todo)

\* What is offered are the lists of the servers that worked, and routes are to them or old.
Visited ==
  op.kind \in Discovery =>
    /\ op.working \union op.failed \union ToDo = Server
    /\ (op.working \union op.failed) \intersect ToDo = {}
    /\ \A t \in Tool :
         /\ IsFiniteSet(Listed(op.working, t))
         /\ Cardinality(Places(op.offered, t)) = Cardinality(Listed(op.working, t))
Routes ==
  op.kind = "discoverAll" =>
    \A t \in Tool :
      /\ toolIndex[t] \in {None} \union op.working \union ToDo
      /\ t \in Range(op.offered) <=> toolIndex[t] \in op.working

Operating ==
  /\ op \in Operation /\ toolIndex \in [Tool -> Server \union {None}]
  /\ Stages /\ Pages /\ Tries /\ Sweeping /\ Visited /\ Routes

(* The second part is about what the last operation reported.              *)
Reported == last \in Result /\ RetriesHealOnce /\ DiscoveryIsExact

(* The third part is about the children: one that nobody waits for is      *)
(* quiet, and the other has the request that is waited for, or answered it.*)
Notes(out) == \A i \in DOMAIN out : out[i].kind = "note"
Quiet(c) == c.req = None /\ Notes(c.out)

Asked(c) ==
  /\ Notes(c.out)
  /\ c.req = [id |-> op.id, from |-> op.cursor,
              method |-> IF op.stage = "init" THEN "initialize" ELSE MethodOf(op.kind)]
  /\ op.kind = "call" => ran = <<>>

\* An answer that is taken for a success is one.
True(greeted, m) ==
  /\ m.id = op.id
  /\ m.kind = "ok" /\ op.stage = "init" => greeted
  /\ m.kind = "ok" /\ op.stage = "wait" =>
       /\ op.kind = "call" => ran # <<>>
       /\ IF op.kind \in Discovery
          THEN \E n \in op.cursor .. Len(Lists[op.server]) :
                 /\ m.items = SubSeq(Lists[op.server], op.cursor + 1, n)
                 /\ m.more <=> n < Len(Lists[op.server])
          ELSE ~m.more
Told(c) ==
  /\ c.req = None
  /\ \E i \in DOMAIN c.out :
       True(c.greeted, c.out[i]) /\ \A j \in DOMAIN c.out \ {i} : c.out[j].kind = "note"

InStep(s) ==
  /\ initialized[s] => process[s] # None /\ process[s].greeted
  /\ process[s] # None =>
       Quiet(process[s]) \/ (Waiting /\ op.server = s /\ (Asked(process[s]) \/ Told(process[s])))

\* The tool of a call runs once, when the request is sent.
RunsOnce ==
  /\ ran \in Seq(Server) /\ Len(ran) <= 1
  /\ op.kind = "call" /\ op.stage # "wait" => ran = <<>>

\* What a shutdown has behind it is stopped.
Stopping ==
  op.kind = "shutdown" => \A s \in Server \ ToDo : process[s] = None /\ ~initialized[s]

Children ==
  /\ process \in [Server -> {None} \union Process] /\ initialized \in [Server -> BOOLEAN]
  /\ \A s \in Server : InStep(s)
  /\ op.stage \in Asking => process[op.server] # None
  /\ op.stage \in {"ask", "wait"} => initialized[op.server]
  /\ RunsOnce /\ Stopping /\ ShutdownStopsAll

\* The rest of the types.
Counters ==
  /\ nextId \in 1..Ids /\ program \in {"none", "built", "refused"}
  /\ orphans \in Nat /\ faults \in Nat /\ kills \in Nat /\ faults + kills <= MaxFaults
  /\ ops \in 0..MaxOps

Inv == Operating /\ Reported /\ Children /\ Counters

-----------------------------------------------------------------------------
(* Sequences and lists.                                                    *)

LEMMA NoOne == None \notin Server
BY NoneAssumption

LEMMA ListOf ==
  ASSUME NEW s \in Server
  PROVE  Lists[s] \in Seq(Tool) /\ Len(Lists[s]) \in Nat
BY ServersAssumption, LenProperties

\* A page goes on where the last one ended.
LEMMA PagesJoin ==
  ASSUME NEW s \in Server, NEW c \in 0 .. Len(Lists[s]), NEW n \in c .. Len(Lists[s])
  PROVE  /\ SubSeq(Lists[s], 1, c) \o SubSeq(Lists[s], c + 1, n) = SubSeq(Lists[s], 1, n)
         /\ c + Len(SubSeq(Lists[s], c + 1, n)) = n
<1>1. Lists[s] \in Seq(Tool) /\ Len(Lists[s]) \in Nat
  BY ListOf
<1>2. SubSeq(Lists[s], 1, c) \o SubSeq(Lists[s], c + 1, n) = SubSeq(Lists[s], 1, n)
  <2>1. 1 \in 1 .. Len(Lists[s]) + 1 /\ c \in 1 - 1 .. Len(Lists[s])
    BY <1>1
  <2> QED
    BY <1>1, <2>1, ConcatAdjacentSubSeq
<1>3. \A i \in c + 1 .. n : Lists[s][i] \in Tool
  BY <1>1, ElementOfSeq
<1>4. Len(SubSeq(Lists[s], c + 1, n)) = IF c + 1 <= n THEN n - (c + 1) + 1 ELSE 0
  BY <1>1, <1>3, SubSeqProperties
<1> QED
  BY <1>1, <1>2, <1>4

LEMMA NothingListed ==
  ASSUME NEW s \in Server
  PROVE  SubSeq(Lists[s], 1, 0) = <<>>
BY SubSeqEmpty

\* The rest of a sequence that has nothing twice.
LEMMA TailInjective ==
  ASSUME NEW S, NEW q \in Seq(S), q # <<>>, IsInjective(q)
  PROVE  /\ Head(q) \in S /\ Tail(q) \in Seq(S) /\ IsInjective(Tail(q))
         /\ Head(q) \notin Range(Tail(q))
         /\ Range(q) = {Head(q)} \union Range(Tail(q))
<1>1. /\ Head(q) \in S /\ Tail(q) \in Seq(S) /\ Len(Tail(q)) = Len(q) - 1
      /\ \A i \in 1 .. Len(Tail(q)) : Tail(q)[i] = q[i + 1]
      /\ Head(q) = q[1] /\ Len(q) \in Nat \ {0} /\ DOMAIN q = 1 .. Len(q)
      /\ DOMAIN Tail(q) = 1 .. Len(Tail(q))
  BY HeadTailProperties, LenProperties, EmptySeq
<1>2. IsInjective(Tail(q))
  BY <1>1 DEF IsInjective
<1>3. Head(q) \notin Range(Tail(q))
  BY <1>1 DEF IsInjective, Range
<1>4. ASSUME NEW i \in 1 .. Len(q) PROVE q[i] \in {Head(q)} \union Range(Tail(q))
  <2>1. CASE i = 1
    BY <2>1, <1>1
  <2>2. CASE i # 1
    <3>1. i - 1 \in 1 .. Len(Tail(q)) /\ Tail(q)[i - 1] = q[i]
      BY <2>2, <1>1
    <3> QED
      BY <3>1, <1>1 DEF Range
  <2> QED
    BY <2>1, <2>2
<1>5. {Head(q)} \union Range(Tail(q)) \subseteq Range(q)
  BY <1>1 DEF Range
<1> QED
  BY <1>1, <1>2, <1>3, <1>4, <1>5 DEF Range

LEMMA PlacesFinite ==
  ASSUME NEW q \in Seq(Tool), NEW t
  PROVE  IsFiniteSet(Places(q, t)) /\ Cardinality(Places(q, t)) \in Nat
<1>1. IsFiniteSet(1 .. Len(q)) /\ DOMAIN q = 1 .. Len(q)
  BY LenProperties, FS_Interval
<1> QED
  BY <1>1, FS_Subset, FS_CardinalityType DEF Places

LEMMA DisjointUnion ==
  ASSUME NEW S, NEW T, IsFiniteSet(S), IsFiniteSet(T), S \intersect T = {}
  PROVE  IsFiniteSet(S \union T) /\ Cardinality(S \union T) = Cardinality(S) + Cardinality(T)
<1>1. Cardinality(S \union T) = Cardinality(S) + Cardinality(T) - Cardinality({})
  BY FS_Union
<1>2. Cardinality(S) \in Nat /\ Cardinality(T) \in Nat /\ Cardinality({}) = 0
  BY FS_CardinalityType, FS_EmptySet
<1> QED
  BY <1>1, <1>2, FS_Union

\* A tool is in two sequences, one after the other, as often as in both.
LEMMA PlacesOfBoth ==
  ASSUME NEW a \in Seq(Tool), NEW b \in Seq(Tool), NEW t
  PROVE  Cardinality(Places(a \o b, t)) = Cardinality(Places(a, t)) + Cardinality(Places(b, t))
<1> DEFINE n == Len(a)
           behind == {n + j : j \in Places(b, t)}
           shift == [j \in Places(b, t) |-> n + j]
<1>1. /\ n \in Nat /\ Len(b) \in Nat /\ DOMAIN a = 1 .. n /\ DOMAIN b = 1 .. Len(b)
      /\ DOMAIN (a \o b) = 1 .. n + Len(b)
      /\ \A i \in 1 .. n + Len(b) : (a \o b)[i] = IF i <= n THEN a[i] ELSE b[i - n]
  BY ConcatProperties, LenProperties
<1> HIDE DEF n
<1>2. shift \in Bijection(Places(b, t), behind)
  BY <1>1 DEF Bijection, Injection, Surjection, IsInjective, Places
<1>3. IsFiniteSet(behind) /\ Cardinality(behind) = Cardinality(Places(b, t))
  BY <1>2, PlacesFinite, FS_Bijection DEF ExistsBijection
<1>4. Places(a \o b, t) = Places(a, t) \union behind
  <2>1. ASSUME NEW i \in Places(a \o b, t) PROVE i \in Places(a, t) \union behind
    <3>1. i \in 1 .. n + Len(b) /\ (a \o b)[i] = t
      BY <1>1 DEF Places
    <3>2. CASE i <= n
      BY <1>1, <3>1, <3>2 DEF Places
    <3>3. CASE ~(i <= n)
      <4>1. i - n \in 1 .. Len(b) /\ b[i - n] = t /\ i = n + (i - n)
        BY <1>1, <3>1, <3>3
      <4> QED
        BY <1>1, <4>1 DEF Places
    <3> QED
      BY <3>2, <3>3
  <2>2. Places(a, t) \subseteq Places(a \o b, t)
    BY <1>1 DEF Places
  <2>3. behind \subseteq Places(a \o b, t)
    BY <1>1 DEF Places
  <2> QED
    BY <2>1, <2>2, <2>3
<1>5. Places(a, t) \intersect behind = {}
  BY <1>1 DEF Places
<1> HIDE DEF behind
<1>6. IsFiniteSet(Places(a, t)) /\ Cardinality(Places(a, t)) + Cardinality(behind) = Cardinality(Places(a \o b, t))
  BY <1>3, <1>4, <1>5, PlacesFinite, DisjointUnion
<1> QED
  BY <1>3, <1>6

\* The lists of one more server.
LEMMA ListedByOneMore ==
  ASSUME NEW W \in SUBSET Server, NEW s \in Server \ W, NEW t, IsFiniteSet(Listed(W, t))
  PROVE  /\ IsFiniteSet(Listed(W \union {s}, t))
         /\ Cardinality(Listed(W \union {s}, t)) = Cardinality(Listed(W, t)) + Cardinality(Places(Lists[s], t))
<1> DEFINE P == Places(Lists[s], t)
           pair == [j \in P |-> <<s, j>>]
<1>1. IsFiniteSet(P) /\ Cardinality(P) \in Nat
  BY ListOf, PlacesFinite
<1>2. Listed(W \union {s}, t) = Listed(W, t) \union ({s} \X P)
  BY DEF Listed
<1>3. Listed(W, t) \intersect ({s} \X P) = {}
  BY DEF Listed
<1> HIDE DEF P
<1>4. pair \in Bijection(P, {s} \X P)
  BY DEF Bijection, Injection, Surjection, IsInjective
<1>5. IsFiniteSet({s} \X P) /\ Cardinality({s} \X P) = Cardinality(P)
  BY <1>1, <1>4, FS_Bijection DEF ExistsBijection
<1>6. /\ IsFiniteSet(Listed(W, t) \union ({s} \X P))
      /\ Cardinality(Listed(W, t) \union ({s} \X P)) = Cardinality(Listed(W, t)) + Cardinality({s} \X P)
  BY <1>3, <1>5, DisjointUnion
<1> QED
  BY <1>2, <1>5, <1>6 DEF P

-----------------------------------------------------------------------------
(* The operation and its report.                                           *)

\* What is asked of a step that leaves an operation, or one server of it, behind.
Left ==
  /\ Operating' /\ Reported'
  /\ op'.stage \in {"next", "idle"} /\ op'.kind \notin {"call", "shutdown"}
  /\ op'.stage = "idle" => last'.kind # "shutdown"

LEMMA IdleOperates ==
  ASSUME op' = Idle, toolIndex' \in [Tool -> Server \union {None}]
  PROVE  Operating'
<1>1. Idle \in Operation
  BY EmptySeq DEF Idle, Operation, Kind
<1> QED
  BY <1>1 DEF Operating, Idle, Stages, Busy, Asking, Pages, Tries, Sweeping, Visited, Routes, Sweep, Discovery

\* An operation that fails for good: what it reports was not reached for one fault.
LEMMA EndsInError ==
  ASSUME Operating, op.stage \in Busy, op.kind \notin {"discoverAll", "listAll"},
         NEW e \in Error, NEW f \in Nat, f <= 4, op.kind = "call" => f <= 2,
         op.kind # "call" /\ is_retryable_error(e) => f >= 2,
         End([op EXCEPT !.faults = f], e), UNCHANGED toolIndex
  PROVE  Left
<1>1. /\ op' = Idle
      /\ last' = [kind |-> op.kind, faults |-> f, offered |-> op.offered,
                  working |-> op.working, failed |-> op.failed, result |-> e]
  BY DEF End, Operating, Operation
<1>2. Operating'
  BY <1>1, IdleOperates DEF Operating
<1>3. last' \in Result
  BY <1>1 DEF Operating, Operation, Result
<1>4. RetriesHealOnce'
  BY <1>1 DEF RetriesHealOnce, OneFaultIsHealed, RetriesBounded, is_retryable_error
<1>5. DiscoveryIsExact'
  <2>1. last'.kind # "discoverAll" /\ last'.result # "ok"
    BY <1>1 DEF Error
  <2> QED
    BY <2>1 DEF DiscoveryIsExact, RoutesMatchDiscovery, OfferedOnce
<1>6. op'.stage = "idle" /\ op'.kind = "none" /\ last'.kind # "shutdown"
  BY <1>1 DEF Idle, Operating, Stages
<1> QED
  BY <1>2, <1>3, <1>4, <1>5, <1>6 DEF Left, Reported

\* A sweep goes on after a server, whether it failed or worked.
LEMMA GoesOn ==
  ASSUME Operating, Reported, op.stage \in Busy, op.kind \in Sweep,
         NEW W \in SUBSET Server, NEW F \in SUBSET Server, NEW f \in Nat, NEW q \in Seq(Tool), NEW p \in Seq(Tool),
         op' = [op EXCEPT !.stage = "next", !.server = None, !.working = W, !.failed = F,
                          !.faults = f, !.offered = q, !.tools = p],
         UNCHANGED last, toolIndex' \in [Tool -> Server \union {None}],
         Visited', Routes'
  PROVE  Left
<1>1. op' \in Operation
  BY DEF Operating, Operation
<1>2. /\ op'.stage = "next" /\ op'.server = None /\ op'.kind = op.kind /\ op'.todo = op.todo
  BY DEF Operating, Operation
<1>3. op.kind # "shutdown"
  BY DEF Operating, Stages
<1>4. Stages' /\ Pages' /\ Tries'
  BY <1>2 DEF Stages, Pages, Tries, Busy, Asking
<1>5. Sweeping'
  <2>1. op'.todo \in Seq(Server)
    BY <1>2 DEF Operating, Operation
  <2>2. None \notin Range(op'.todo)
    BY <2>1, RangeOfSeq, NoOne
  <2> QED
    BY <1>2, <2>2 DEF Operating, Sweeping
<1>6. Reported'
  BY <1>2 DEF Reported, RetriesHealOnce, OneFaultIsHealed, RetriesBounded,
              DiscoveryIsExact, RoutesMatchDiscovery, OfferedOnce
<1> QED
  BY <1>1, <1>2, <1>3, <1>4, <1>5, <1>6 DEF Left, Operating, Sweep

\* The server that a sweep is at is visited now, and is neither before it nor behind it.
LEMMA ServerVisited ==
  ASSUME Operating, op.stage \in Busy, op.kind \in Discovery
  PROVE  /\ ToDo = Range(op.todo) \union {op.server} /\ op.server \notin Range(op.todo)
         /\ op.server \in Server /\ op.server \notin op.working \union op.failed
         /\ op.working \in SUBSET Server /\ op.failed \in SUBSET Server
<1>1. op.server \in Server /\ op.server # None
  BY NoOne DEF Operating, Stages
<1>2. op.kind \in Sweep
  BY DEF Discovery, Sweep
<1> QED
  BY <1>1, <1>2 DEF ToDo, Operating, Sweeping, Visited, Operation

LEMMA FailedLeaves ==
  ASSUME Operating, Reported, op.stage \in Busy,
         NEW e \in Error, NEW f \in Nat, f <= 4, op.kind = "call" => f <= 2,
         op.kind # "call" /\ is_retryable_error(e) => f >= 2,
         Failed([op EXCEPT !.faults = f], e)
  PROVE  Left
<1> DEFINE o == [op EXCEPT !.faults = f]
           F == op.failed \union {op.server}
<1>1. /\ o.kind = op.kind /\ o.server = op.server /\ o.failed = op.failed
      /\ op.working \in SUBSET Server /\ op.offered \in Seq(Tool) /\ op.tools \in Seq(Tool)
      /\ F \in SUBSET Server
  BY DEF Operating, Operation, Stages
<1>2. ASSUME op.kind \in {"discoverAll", "listAll"}, GoOn([o EXCEPT !.failed = @ \union {o.server}])
      PROVE  /\ op' = [op EXCEPT !.stage = "next", !.server = None, !.working = op.working, !.failed = F,
                                  !.faults = f, !.offered = op.offered, !.tools = op.tools]
             /\ UNCHANGED last
  BY <1>1, <1>2 DEF GoOn, Operating, Operation
<1>3. CASE op.kind = "discoverAll"
  <2>1. GoOn([o EXCEPT !.failed = @ \union {o.server}]) /\ toolIndex' = WithoutRoutes(op.server)
    BY <1>1, <1>3 DEF Failed
  <2>2. /\ op' = [op EXCEPT !.stage = "next", !.server = None, !.working = op.working, !.failed = F,
                             !.faults = f, !.offered = op.offered, !.tools = op.tools]
        /\ UNCHANGED last
    BY <1>2, <1>3, <2>1
  <2>3. toolIndex' \in [Tool -> Server \union {None}]
    BY <2>1 DEF WithoutRoutes, Operating
  <2>4. /\ op'.kind = op.kind /\ op'.working = op.working /\ op'.failed = F /\ op'.offered = op.offered
        /\ op'.todo = op.todo /\ op'.server = None
    BY <2>2 DEF Operating, Operation
  <2>5. /\ ToDo' = Range(op.todo)
        /\ ToDo = Range(op.todo) \union {op.server} /\ op.server \notin Range(op.todo)
        /\ op.server \in Server /\ op.server \notin op.working
    BY <1>3, <2>4, ServerVisited DEF ToDo, Discovery
  <2>6. Visited'
    BY <1>3, <2>4, <2>5 DEF Operating, Visited, Discovery
  <2>7. Routes'
    <3> SUFFICES ASSUME NEW t \in Tool
                 PROVE  /\ toolIndex'[t] \in {None} \union op.working \union Range(op.todo)
                        /\ t \in Range(op.offered) <=> toolIndex'[t] \in op.working
      BY <2>4, <2>5 DEF Routes
    <3>1. toolIndex'[t] = IF toolIndex[t] = op.server THEN None ELSE toolIndex[t]
      BY <2>1 DEF WithoutRoutes
    <3>2. /\ toolIndex[t] \in {None} \union op.working \union ToDo
          /\ t \in Range(op.offered) <=> toolIndex[t] \in op.working
      BY <1>3 DEF Operating, Routes
    <3> QED
      BY <1>1, <2>5, <3>1, <3>2, NoOne
  <2> QED
    BY <1>1, <1>3, <2>2, <2>3, <2>6, <2>7, GoesOn DEF Sweep
<1>4. CASE op.kind = "listAll"
  <2>1. GoOn([o EXCEPT !.failed = @ \union {o.server}]) /\ UNCHANGED toolIndex
    BY <1>1, <1>4 DEF Failed
  <2>2. /\ op' = [op EXCEPT !.stage = "next", !.server = None, !.working = op.working, !.failed = F,
                             !.faults = f, !.offered = op.offered, !.tools = op.tools]
        /\ UNCHANGED last
    BY <1>2, <1>4, <2>1
  <2>3. op'.kind = "listAll" /\ toolIndex' \in [Tool -> Server \union {None}]
    BY <1>4, <2>1, <2>2 DEF Operating, Operation
  <2>4. Visited' /\ Routes'
    BY <2>3 DEF Visited, Routes, Discovery
  <2> QED
    BY <1>1, <1>4, <2>2, <2>3, <2>4, GoesOn DEF Sweep
<1>5. CASE op.kind \notin {"discoverAll", "listAll"}
  <2>1. End(o, e) /\ UNCHANGED toolIndex
    BY <1>1, <1>5 DEF Failed
  <2> QED
    BY <1>5, <2>1, EndsInError
<1> QED
  BY <1>3, <1>4, <1>5

\* Before its last fault an attempt has cost three at most, that of a call one.
LEMMA FaultsSoFar ==
  ASSUME Operating, op.stage \in Busy
  PROVE  /\ op.faults \in Nat /\ op.faults <= 3
         /\ op.kind = "call" => op.faults <= 1 /\ op.tries = 0
         /\ op.tries = 1 => op.faults >= 1
<1>1. op.tries \in 0..1 /\ op.inits \in 0..1 /\ op.faults \in Nat
  BY DEF Operating, Operation
<1> QED
  BY <1>1 DEF Operating, Tries

LEMMA SucceededCases ==
  ASSUME NEW o, Succeeded(o)
  PROVE  /\ o.kind \in Discovery =>
              /\ GoOn([o EXCEPT !.working = @ \union {o.server}, !.offered = @ \o o.tools])
              /\ toolIndex' = Routed(o.server, o.tools)
         /\ o.kind = "listAll" => GoOn([o EXCEPT !.working = @ \union {o.server}]) /\ UNCHANGED toolIndex
         /\ o.kind \notin Discovery \union {"listAll"} => End(o, "ok") /\ UNCHANGED toolIndex
<1>1. CASE o.kind \in Discovery
  BY <1>1 DEF Succeeded, Discovery
<1>2. CASE o.kind = "listAll"
  BY <1>2 DEF Succeeded, Discovery
<1>3. CASE o.kind \notin Discovery \union {"listAll"}
  BY <1>3 DEF Succeeded, Discovery
<1> QED
  BY <1>1, <1>2, <1>3

LEMMA SucceededLeaves ==
  ASSUME Operating, Reported, op.stage \in Busy, NEW items \in Seq(Tool),
         op.kind \in Discovery => op.tools \o items = Lists[op.server],
         Succeeded([op EXCEPT !.tools = @ \o items])
  PROVE  Left
<1> DEFINE o == [op EXCEPT !.tools = @ \o items]
           W == op.working \union {op.server}
           L == Lists[op.server]
<1>1. /\ o.kind = op.kind /\ o.server = op.server /\ o.tools = op.tools \o items /\ o.offered = op.offered
      /\ o.faults = op.faults /\ o.working = op.working /\ o.failed = op.failed
      /\ op.working \in SUBSET Server /\ op.failed \in SUBSET Server
      /\ op.offered \in Seq(Tool) /\ op.tools \in Seq(Tool)
      /\ op.server \in Server /\ W \in SUBSET Server /\ op.faults \in Nat
  BY DEF Operating, Operation, Stages
<1>2. o.tools \in Seq(Tool)
  BY <1>1, ConcatProperties
<1>3. CASE op.kind \in Discovery
  <2>1. /\ GoOn([o EXCEPT !.working = @ \union {o.server}, !.offered = @ \o o.tools])
        /\ toolIndex' = Routed(op.server, L)
    <3>1. o.kind \in Discovery /\ o.server = op.server /\ o.tools = L
      BY <1>1, <1>3
    <3>2. Succeeded(o)
      OBVIOUS
    <3> HIDE DEF o, L
    <3> QED
      BY <3>1, <3>2, SucceededCases
  <2>2. L \in Seq(Tool) /\ op.offered \o L \in Seq(Tool)
    BY <1>1, ListOf, ConcatProperties
  <2>3. /\ op' = [op EXCEPT !.stage = "next", !.server = None, !.working = W, !.failed = op.failed,
                             !.faults = op.faults, !.offered = op.offered \o L, !.tools = o.tools]
        /\ UNCHANGED last
    BY <1>1, <1>3, <2>1 DEF GoOn, Operating, Operation
  <2>4. /\ op'.kind = op.kind /\ op'.working = W /\ op'.failed = op.failed
        /\ op'.offered = op.offered \o L /\ op'.todo = op.todo /\ op'.server = None
    BY <2>3 DEF Operating, Operation
  <2>5. toolIndex' \in [Tool -> Server \union {None}]
    BY <1>1, <2>1 DEF Routed, WithoutRoutes, Operating
  <2>6. /\ ToDo' = Range(op.todo)
        /\ ToDo = Range(op.todo) \union {op.server} /\ op.server \notin Range(op.todo)
        /\ op.server \notin op.working \union op.failed
    BY <1>3, <2>4, ServerVisited DEF ToDo
  <2>7. Visited'
    <3>1. /\ W \union op.failed \union Range(op.todo) = Server
          /\ (W \union op.failed) \intersect Range(op.todo) = {}
      BY <1>3, <2>6 DEF Operating, Visited
    <3>2. ASSUME NEW t \in Tool
          PROVE  /\ IsFiniteSet(Listed(W, t))
                 /\ Cardinality(Places(op.offered \o L, t)) = Cardinality(Listed(W, t))
      <4>1. /\ IsFiniteSet(Listed(op.working, t))
            /\ Cardinality(Places(op.offered, t)) = Cardinality(Listed(op.working, t))
        BY <1>3 DEF Operating, Visited
      <4>2. Cardinality(Places(op.offered \o L, t)) = Cardinality(Places(op.offered, t)) + Cardinality(Places(L, t))
        BY <1>1, <2>2, PlacesOfBoth
      <4>3. /\ IsFiniteSet(Listed(W, t))
            /\ Cardinality(Listed(W, t)) = Cardinality(Listed(op.working, t)) + Cardinality(Places(L, t))
        <5>1. op.working \in SUBSET Server /\ op.server \in Server \ op.working
          BY <1>1, <2>6
        <5> QED
          BY <4>1, <5>1, ListedByOneMore
      <4> QED
        BY <4>1, <4>2, <4>3
    <3> QED
      BY <2>4, <2>6, <3>1, <3>2 DEF Visited
  <2>8. Routes'
    <3> SUFFICES ASSUME op.kind = "discoverAll", NEW t \in Tool
                 PROVE  /\ toolIndex'[t] \in {None} \union W \union Range(op.todo)
                        /\ t \in Range(op.offered \o L) <=> toolIndex'[t] \in W
      BY <2>4, <2>6 DEF Routes
    <3>1. toolIndex'[t] = IF t \in Range(L) THEN op.server
                          ELSE IF toolIndex[t] = op.server THEN None ELSE toolIndex[t]
      BY <2>1 DEF Routed, WithoutRoutes
    <3>2. /\ toolIndex[t] \in {None} \union op.working \union ToDo
          /\ t \in Range(op.offered) <=> toolIndex[t] \in op.working
      BY DEF Operating, Routes
    <3>3. Range(op.offered \o L) = Range(op.offered) \union Range(L)
      BY <1>1, <2>2, RangeConcatenation
    <3> HIDE DEF L
    <3> QED
      BY <1>1, <2>6, <3>1, <3>2, <3>3, NoOne
  <2> QED
    BY <1>1, <1>2, <1>3, <2>2, <2>3, <2>5, <2>7, <2>8, GoesOn DEF Discovery, Sweep
<1>4. CASE op.kind = "listAll"
  <2>1. GoOn([o EXCEPT !.working = @ \union {o.server}]) /\ UNCHANGED toolIndex
    BY <1>1, <1>4 DEF Succeeded, Discovery
  <2>2. /\ op' = [op EXCEPT !.stage = "next", !.server = None, !.working = W, !.failed = op.failed,
                             !.faults = op.faults, !.offered = op.offered, !.tools = o.tools]
        /\ UNCHANGED last
    BY <1>1, <2>1 DEF GoOn, Operating, Operation
  <2>3. op'.kind = "listAll" /\ toolIndex' \in [Tool -> Server \union {None}]
    BY <1>4, <2>1, <2>2 DEF Operating, Operation
  <2>4. Visited' /\ Routes'
    BY <2>3 DEF Visited, Routes, Discovery
  <2> QED
    BY <1>1, <1>2, <1>4, <2>2, <2>3, <2>4, GoesOn DEF Sweep
<1>5. CASE op.kind \notin Discovery \union {"listAll"}
  <2>1. End(o, "ok") /\ UNCHANGED toolIndex
    BY <1>1, <1>5 DEF Succeeded
  <2>2. /\ op' = Idle
        /\ last' = [kind |-> op.kind, faults |-> op.faults, offered |-> op.offered,
                    working |-> op.working, failed |-> op.failed, result |-> "ok"]
    BY <1>1, <2>1 DEF End
  <2>3. Operating'
    BY <2>1, <2>2, IdleOperates DEF Operating
  <2>4. last' \in Result
    BY <2>2 DEF Operating, Operation, Result
  <2>5. RetriesHealOnce'
    BY <2>2, FaultsSoFar DEF RetriesHealOnce, OneFaultIsHealed, RetriesBounded, is_retryable_error
  <2>6. DiscoveryIsExact'
    BY <1>5, <2>2 DEF DiscoveryIsExact, RoutesMatchDiscovery, OfferedOnce, Discovery
  <2>7. op'.stage = "idle" /\ op'.kind = "none" /\ last'.kind # "shutdown"
    BY <2>2 DEF Idle, Operating, Stages
  <2> QED
    BY <2>3, <2>4, <2>5, <2>6, <2>7 DEF Left, Reported
<1> QED
  BY <1>3, <1>4, <1>5

LEMMA TriesTyped ==
  ASSUME NEW o \in Operation, NEW i \in 0..1, NEW j \in 0..1
  PROVE  /\ [o EXCEPT !.stage = "enter", !.inits = i] \in Operation
         /\ [o EXCEPT !.stage = "enter", !.tries = j, !.inits = i, !.tools = <<>>, !.cursor = 0] \in Operation
<1>1. [o EXCEPT !.stage = "enter", !.inits = i] \in Operation
  BY DEF Operation
<1>2. [o EXCEPT !.stage = "enter", !.tries = j, !.inits = i, !.tools = <<>>, !.cursor = 0] \in Operation
  BY EmptySeq DEF Operation
<1> QED
  BY <1>1, <1>2

(* A request that failed: the operation begins again, or leaves the server *)
(* behind.                                                                 *)
LEMMA FailOperates ==
  ASSUME Operating, Reported, op.stage \in Asking, NEW e \in {"Transport", "Timeout", "InvalidResponse"}, Fail(e)
  PROVE  \/ Left
         \/ /\ Operating' /\ Reported' /\ op'.stage = "enter" /\ UNCHANGED last
            /\ op'.kind = op.kind /\ op'.server = op.server /\ op'.todo = op.todo
            /\ op.kind = "call" => op.stage = "init"
<1> DEFINE f == IF is_retryable_error(e) THEN op.faults + 1 ELSE op.faults
           o == [op EXCEPT !.faults = f]
<1>0. op.stage \in Busy /\ op.kind \in Kind /\ op.kind \notin {"none", "shutdown"} /\ op.server \in Server
  BY DEF Busy, Operating, Operation, Stages
<1>1. /\ op.faults \in Nat /\ op.faults <= 3 /\ op.tries \in 0..1 /\ op.inits \in 0..1
      /\ op.kind = "call" => op.faults <= 1 /\ op.tries = 0
      /\ op.tries = 1 => op.faults >= 1
      /\ op.faults <= 2 * op.tries + op.inits
  BY <1>0, FaultsSoFar DEF Operating, Operation, Tries
<1>2. f \in Nat /\ f <= 4
  BY <1>1
<1>3. o = [op EXCEPT !.faults = IF is_retryable_error(e) THEN @ + 1 ELSE @]
  BY DEF Operating, Operation
<1>7. o \in Operation
  <2>1. op \in Operation
    BY DEF Operating
  <2> HIDE DEF f
  <2> QED
    BY <1>2, <2>1 DEF Operation
<1>4. CASE op.stage = "init" /\ op.inits = 0 /\ is_retryable_error(e)
  <2>1. op' = [o EXCEPT !.stage = "enter", !.inits = 1] /\ UNCHANGED <<last, toolIndex>>
    BY <1>3, <1>4 DEF Fail
  <2>2. op' \in Operation
    <3>1. 0 \in 0..1 /\ 1 \in 0..1
      OBVIOUS
    <3> HIDE DEF o
    <3> QED
      BY <1>7, <2>1, <3>1, TriesTyped
  <2>3. /\ op'.stage = "enter" /\ op'.inits = 1 /\ op'.faults = op.faults + 1
        /\ op'.kind = op.kind /\ op'.server = op.server /\ op'.todo = op.todo /\ op'.tries = op.tries
        /\ op'.tools = op.tools /\ op'.cursor = op.cursor /\ op'.working = op.working
        /\ op'.failed = op.failed /\ op'.offered = op.offered
    BY <1>4, <2>1 DEF Operating, Operation
  <2>4. Stages' /\ Pages'
    BY <1>0, <1>4, <2>3 DEF Operating, Stages, Pages, Busy, Asking
  <2>5. Tries'
    BY <1>1, <1>4, <2>3 DEF Operating, Tries
  <2>6. Sweeping' /\ Visited' /\ Routes'
    BY <2>1, <2>3 DEF Operating, Sweeping, Visited, Routes, ToDo
  <2>7. Reported'
    BY <2>1, <2>3 DEF Reported, RetriesHealOnce, OneFaultIsHealed, RetriesBounded,
                DiscoveryIsExact, RoutesMatchDiscovery, OfferedOnce
  <2> QED
    BY <1>4, <2>1, <2>2, <2>3, <2>4, <2>5, <2>6, <2>7 DEF Operating
<1>5. CASE ~(op.stage = "init" /\ op.inits = 0) /\ is_retryable_error(e) /\ Retries(op)
  <2>1. op' = Again(o) /\ UNCHANGED <<last, toolIndex>>
    BY <1>3, <1>5 DEF Fail
  <2>2. op' \in Operation
    <3>1. 0 \in 0..1 /\ 1 \in 0..1
      OBVIOUS
    <3> HIDE DEF o
    <3> QED
      BY <1>7, <2>1, <3>1, TriesTyped DEF Again
  <2>3. /\ op'.stage = "enter" /\ op'.inits = 0 /\ op'.faults = op.faults + 1
        /\ op'.kind = op.kind /\ op'.server = op.server /\ op'.todo = op.todo /\ op'.tries = 1
        /\ op'.tools = <<>> /\ op'.cursor = 0 /\ op'.working = op.working
        /\ op'.failed = op.failed /\ op'.offered = op.offered
    BY <1>5, <2>1 DEF Again, Operating, Operation
  <2>4. Stages'
    BY <1>0, <2>3 DEF Stages, Busy, Asking
  <2>5. Pages'
    BY <1>0, <2>3, ListOf, NothingListed DEF Pages
  <2>6. Tries'
    BY <1>1, <1>5, <2>3 DEF Tries, Retries
  <2>7. Sweeping' /\ Visited' /\ Routes'
    BY <2>1, <2>3 DEF Operating, Sweeping, Visited, Routes, ToDo
  <2>8. Reported'
    BY <2>1, <2>3 DEF Reported, RetriesHealOnce, OneFaultIsHealed, RetriesBounded,
                DiscoveryIsExact, RoutesMatchDiscovery, OfferedOnce
  <2> QED
    BY <1>5, <2>1, <2>2, <2>3, <2>4, <2>5, <2>6, <2>7, <2>8 DEF Operating, Retries
<1>6. CASE /\ ~(op.stage = "init" /\ op.inits = 0 /\ is_retryable_error(e))
           /\ ~(~(op.stage = "init" /\ op.inits = 0) /\ is_retryable_error(e) /\ Retries(op))
  <2>1. Failed(o, e)
    BY <1>3, <1>6 DEF Fail
  <2>2. op.kind # "call" /\ is_retryable_error(e) => f >= 2
    BY <1>1, <1>6 DEF Retries
  <2>3. op.kind = "call" => f <= 2
    BY <1>1
  <2> QED
    BY <1>0, <1>2, <2>1, <2>2, <2>3, FailedLeaves DEF Error
<1> QED
  BY <1>4, <1>5, <1>6

-----------------------------------------------------------------------------
(* Steps that begin and end an operation.                                  *)

LEMMA IdleTyped == Idle \in Operation /\ NoResult \in Result
<1>1. Idle \in Operation
  BY EmptySeq DEF Idle, Operation, Kind
<1>2. NoResult \in Result
  BY EmptySeq DEF NoResult, Result, Kind
<1> QED
  BY <1>1, <1>2

LEMMA NothingReported ==
  ASSUME last' = NoResult
  PROVE  Reported'
BY IdleTyped DEF NoResult, Reported, RetriesHealOnce, OneFaultIsHealed, RetriesBounded,
     DiscoveryIsExact, RoutesMatchDiscovery, OfferedOnce, Discovery

\* Before an operation begins, and when it is not asking, all children are quiet.
LEMMA AllQuiet ==
  ASSUME Children, NEW s \in Server, ~(Waiting /\ op.server = s), process[s] # None
  PROVE  Quiet(process[s])
BY DEF Children, InStep

LEMMA BeginChildren ==
  ASSUME Children, op.stage = "idle", UNCHANGED <<process, initialized>>, ran' = <<>>,
         op'.stage \notin Asking \union {"idle"}, Stopping'
  PROVE  Children'
<1>1. ASSUME NEW s \in Server PROVE InStep(s)'
  <2>1. process[s] # None => Quiet(process[s])
    BY AllQuiet DEF Waiting
  <2> QED
    BY <2>1 DEF Children, InStep, Quiet, Notes
<1>2. RunsOnce'
  BY EmptySeq DEF RunsOnce
<1> QED
  BY <1>1, <1>2 DEF Children, ShutdownStopsAll, Asking

\* A step of an operation that touches no child and neither was nor will be waiting.
LEMMA SameChildren ==
  ASSUME Children, ~Waiting, UNCHANGED <<process, initialized, ran>>,
         op'.stage \notin Asking, op'.kind = "call" => op.kind = "call", Stopping', ShutdownStopsAll'
  PROVE  Children'
<1>1. ASSUME NEW s \in Server PROVE InStep(s)'
  <2>1. process[s] # None => Quiet(process[s])
    BY AllQuiet
  <2> QED
    BY <2>1 DEF Children, InStep, Quiet, Notes
<1>2. RunsOnce'
  BY DEF Children, RunsOnce, Waiting
<1> QED
  BY <1>1, <1>2 DEF Children, Asking

LEMMA BeginSweepInv ==
  ASSUME Inv, BeginSweep
  PROVE  Inv'
<1>1. PICK k \in Sweep : Begin([Idle EXCEPT !.kind = k, !.stage = "next", !.todo = Order])
  BY DEF BeginSweep
<1>2. op' \in Operation
  BY <1>1, IdleTyped, ServersAssumption, ZenonT(40) DEF Begin, Operation, Sweep, Kind
<1>3. /\ op'.kind = k /\ op'.stage = "next" /\ op'.todo = Order /\ op'.server = None
      /\ op'.working = {} /\ op'.failed = {} /\ op'.offered = <<>>
      /\ UNCHANGED <<process, initialized, toolIndex, nextId, program, orphans, faults, kills>>
      /\ ran' = <<>> /\ last' = NoResult /\ op.stage = "idle" /\ ops < MaxOps /\ ops' = ops + 1
  BY <1>1 DEF Begin, Idle
<1>4. Stages' /\ Pages' /\ Tries'
  BY <1>3 DEF Stages, Pages, Tries, Busy, Asking
<1>5. Sweeping' /\ ToDo' = Server
  BY <1>3, ServersAssumption, NoOne DEF Sweeping, ToDo
<1>6. Visited'
  <2>1. ASSUME NEW t PROVE Places(<<>>, t) = {} /\ Listed({}, t) = {}
    BY DEF Places, Listed
  <2> QED
    BY <1>3, <1>5, <2>1, FS_EmptySet DEF Visited
<1>7. Routes'
  <2>1. Range(<<>>) = {}
    BY DEF Range
  <2> QED
    BY <1>3, <1>5, <2>1 DEF Inv, Operating, Routes
<1>8. Operating' /\ Reported'
  BY <1>2, <1>3, <1>4, <1>5, <1>6, <1>7, NothingReported DEF Inv, Operating
<1>9. Children'
  <2>1. Stopping'
    BY <1>5 DEF Stopping
  <2> QED
    BY <1>3, <2>1, BeginChildren DEF Inv, Asking
<1> QED
  BY <1>3, <1>8, <1>9, BoundsAssumption DEF Inv, Counters

LEMMA BeginOneInv ==
  ASSUME Inv, BeginResource \/ BeginCall
  PROVE  Inv'
<1>1. PICK o \in Operation :
        /\ Begin(o) /\ o.kind \in {"resource", "call"} /\ o.stage \in {"enter", "unknown"}
        /\ o.stage = "unknown" => o.kind = "call"
        /\ o.stage = "enter" => o.server \in Server
        /\ o.cursor = 0 /\ o.faults = 0 /\ o.tries = 0 /\ o.inits = 0
  <2>1. CASE BeginResource
    <3>1. PICK s \in Server : Begin([Idle EXCEPT !.kind = "resource", !.stage = "enter", !.server = s])
      BY <2>1 DEF BeginResource
    <3> DEFINE o == [Idle EXCEPT !.kind = "resource", !.stage = "enter", !.server = s]
    <3>2. o \in Operation
      BY IdleTyped DEF Operation, Kind
    <3>3. /\ o.kind = "resource" /\ o.stage = "enter" /\ o.server = s
          /\ o.cursor = 0 /\ o.faults = 0 /\ o.tries = 0 /\ o.inits = 0
      BY DEF Idle
    <3> HIDE DEF o
    <3> QED
      BY <3>1, <3>2, <3>3 DEF o
  <2>2. CASE BeginCall
    <3>1. PICK t \in Tool :
            Begin([Idle EXCEPT !.kind = "call", !.tool = t, !.server = toolIndex[t],
                     !.stage = IF toolIndex[t] = None THEN "unknown" ELSE "enter"])
      BY <2>2 DEF BeginCall
    <3> DEFINE o == [Idle EXCEPT !.kind = "call", !.tool = t, !.server = toolIndex[t],
                       !.stage = IF toolIndex[t] = None THEN "unknown" ELSE "enter"]
    <3>2. toolIndex[t] \in Server \union {None}
      BY DEF Inv, Operating
    <3>3. o \in Operation
      BY <3>2, IdleTyped DEF Operation, Kind
    <3>4. /\ o.kind = "call" /\ o.stage \in {"enter", "unknown"} /\ (o.stage = "enter" => o.server \in Server)
          /\ o.cursor = 0 /\ o.faults = 0 /\ o.tries = 0 /\ o.inits = 0
      BY <3>2 DEF Idle
    <3> HIDE DEF o
    <3> QED
      BY <3>1, <3>3, <3>4 DEF o
  <2> QED
    BY <2>1, <2>2
<1>2. op' \in Operation
  BY <1>1 DEF Begin
<1>3. /\ op' = o /\ UNCHANGED <<process, initialized, toolIndex, nextId, program, orphans, faults, kills>>
      /\ ran' = <<>> /\ last' = NoResult /\ op.stage = "idle" /\ ops < MaxOps /\ ops' = ops + 1
  BY <1>1 DEF Begin
<1>4. Stages' /\ Pages' /\ Tries'
  BY <1>1, <1>3 DEF Stages, Pages, Tries, Busy, Asking, Discovery
<1>5. Sweeping' /\ Visited' /\ Routes'
  BY <1>1, <1>3 DEF Sweeping, Visited, Routes, Sweep, Discovery
<1>6. Operating' /\ Reported'
  BY <1>2, <1>3, <1>4, <1>5, NothingReported DEF Inv, Operating
<1>7. Children'
  <2>1. Stopping'
    BY <1>1, <1>3 DEF Stopping
  <2> QED
    BY <1>1, <1>3, <2>1, BeginChildren DEF Inv, Asking
<1> QED
  BY <1>3, <1>6, <1>7, BoundsAssumption DEF Inv, Counters

LEMMA UnknownToolInv ==
  ASSUME Inv, UnknownTool
  PROVE  Inv'
<1>1. /\ op.kind = "call" /\ op.faults = 0 /\ op.stage = "unknown" /\ op' = Idle
      /\ last' = [kind |-> op.kind, faults |-> op.faults, offered |-> op.offered,
                  working |-> op.working, failed |-> op.failed, result |-> "UnknownTool"]
      /\ UNCHANGED <<process, initialized, toolIndex, nextId, ran, program, orphans, faults, kills, ops>>
  BY DEF UnknownTool, End, Inv, Operating, Stages
<1>2. Operating'
  BY <1>1, IdleOperates DEF Inv, Operating
<1>3. last' \in Result
  BY <1>1 DEF Inv, Operating, Operation, Result, Error
<1>4. Reported'
  BY <1>1, <1>3 DEF Reported, RetriesHealOnce, OneFaultIsHealed, RetriesBounded,
       DiscoveryIsExact, RoutesMatchDiscovery, OfferedOnce, Discovery
<1>5. Children'
  <2>1. ASSUME NEW s \in Server PROVE InStep(s)'
    <3>1. process[s] # None => Quiet(process[s])
      BY <1>1, AllQuiet DEF Inv, Waiting
    <3> QED
      BY <1>1, <3>1 DEF Inv, Children, InStep, Quiet, Notes
  <2>2. op'.kind = "none" /\ op'.stage = "idle" /\ last'.kind = "call"
    BY <1>1 DEF Idle
  <2> QED
    BY <1>1, <2>1, <2>2 DEF Inv, Children, RunsOnce, Stopping, ShutdownStopsAll, Asking
<1> QED
  BY <1>1, <1>2, <1>4, <1>5 DEF Inv, Counters

-----------------------------------------------------------------------------
(* The loop over all servers.                                              *)

\* The next server is entered, or stopped.
Entering(j, i) ==
  [op EXCEPT !.server = Head(op.todo), !.todo = Tail(op.todo), !.tries = j, !.inits = i, !.tools = <<>>,
             !.cursor = 0, !.faults = 0, !.stage = IF op.kind = "shutdown" THEN "stop" ELSE "enter"]

LEMMA EnteringTyped ==
  ASSUME Operating, op.todo # <<>>, Head(op.todo) \in Server, Tail(op.todo) \in Seq(Server),
         NEW i \in 0..1, NEW j \in 0..1
  PROVE  Entering(j, i) \in Operation
BY EmptySeq DEF Operating, Operation, Entering

LEMMA EntersInv ==
  ASSUME Inv, NextServer, op.todo # <<>>
  PROVE  Inv'
<1>1. /\ op' = Entering(0, 0) /\ op.stage = "next"
      /\ UNCHANGED <<last, process, initialized, toolIndex, nextId, ran, program, orphans, faults, kills, ops>>
  BY DEF NextServer, Entering
<1>2. op.kind \in Sweep /\ op.server = None /\ op.todo \in Seq(Server) /\ IsInjective(op.todo)
  BY <1>1 DEF Inv, Operating, Operation, Stages, Sweeping
<1>3. /\ Head(op.todo) \in Server /\ Tail(op.todo) \in Seq(Server) /\ IsInjective(Tail(op.todo))
      /\ Head(op.todo) \notin Range(Tail(op.todo))
      /\ Range(op.todo) = {Head(op.todo)} \union Range(Tail(op.todo))
  BY <1>2, TailInjective
<1>4. op' \in Operation
  <2>1. 0 \in 0..1
    OBVIOUS
  <2> QED
    BY <1>1, <1>3, <2>1, EnteringTyped DEF Inv
<1>5. /\ op'.server = Head(op.todo) /\ op'.todo = Tail(op.todo) /\ op'.tools = <<>> /\ op'.cursor = 0
      /\ op'.faults = 0 /\ op'.tries = 0 /\ op'.inits = 0 /\ op'.kind = op.kind
      /\ op'.working = op.working /\ op'.failed = op.failed /\ op'.offered = op.offered
      /\ op'.stage = IF op.kind = "shutdown" THEN "stop" ELSE "enter"
  BY <1>1 DEF Entering, Inv, Operating, Operation
<1>6. Stages'
  BY <1>2, <1>3, <1>5 DEF Stages, Busy, Asking, Sweep
<1>7. Pages'
  <2>1. op'.kind \in Discovery => op'.tools = SubSeq(Lists[op'.server], 1, op'.cursor)
    BY <1>3, <1>5, NothingListed
  <2> QED
    BY <1>3, <1>5, <2>1, ListOf DEF Pages
<1>8. Tries'
  BY <1>5 DEF Tries
<1>9. ToDo' = ToDo /\ Sweeping'
  BY <1>2, <1>3, <1>5, NoOne DEF ToDo, Sweeping
<1>10. Visited' /\ Routes'
  BY <1>1, <1>5, <1>9 DEF Inv, Operating, Visited, Routes
<1>11. Reported'
  BY <1>1, <1>5 DEF Inv, Reported, RetriesHealOnce, OneFaultIsHealed, RetriesBounded,
                    DiscoveryIsExact, RoutesMatchDiscovery, OfferedOnce
<1>12. Children'
  <2>1. Stopping' /\ ShutdownStopsAll'
    BY <1>1, <1>5, <1>9 DEF Inv, Children, Stopping, ShutdownStopsAll
  <2> QED
    BY <1>1, <1>5, <2>1, SameChildren DEF Inv, Waiting, Asking
<1> QED
  BY <1>1, <1>4, <1>6, <1>7, <1>8, <1>9, <1>10, <1>11, <1>12 DEF Inv, Operating, Counters

LEMMA EndsSweepInv ==
  ASSUME Inv, NextServer, op.todo = <<>>
  PROVE  Inv'
<1> DEFINE r == IF op.kind = "listAll" /\ op.working = {} /\ op.failed # {} THEN "failed" ELSE "ok"
<1>1. /\ op' = Idle /\ op.stage = "next"
      /\ last' = [kind |-> op.kind, faults |-> op.faults, offered |-> op.offered,
                  working |-> op.working, failed |-> op.failed, result |-> r]
      /\ UNCHANGED <<process, initialized, toolIndex, nextId, ran, program, orphans, faults, kills, ops>>
  BY DEF NextServer, End
<1>2. op.kind \in Sweep /\ op.server = None /\ ToDo = {}
  BY <1>1 DEF Inv, Operating, Stages, ToDo, Range
<1>3. Operating'
  BY <1>1, IdleOperates DEF Inv, Operating
<1>4. last' \in Result
  BY <1>1 DEF Inv, Operating, Operation, Result
<1>5. RetriesHealOnce'
  BY <1>1, <1>2 DEF RetriesHealOnce, OneFaultIsHealed, RetriesBounded, is_retryable_error, Sweep
<1>6. DiscoveryIsExact'
  <2>1. RoutesMatchDiscovery'
    <3> SUFFICES ASSUME op.kind = "discoverAll"
                 PROVE  /\ \A t \in Tool : toolIndex[t] # None => toolIndex[t] \in op.working
                        /\ Range(op.offered) = {t \in Tool : toolIndex[t] # None}
                        /\ op.working \union op.failed = Server
      BY <1>1 DEF RoutesMatchDiscovery
    <3>1. op.working \union op.failed = Server /\ op.working \subseteq Server
      BY <1>2 DEF Inv, Operating, Operation, Visited, Discovery
    <3>2. ASSUME NEW t \in Tool
          PROVE  /\ toolIndex[t] \in {None} \union op.working
                 /\ t \in Range(op.offered) <=> toolIndex[t] \in op.working
      BY <1>2 DEF Inv, Operating, Routes
    <3>3. Range(op.offered) \subseteq Tool
      BY RangeOfSeq DEF Inv, Operating, Operation
    <3> QED
      BY <3>1, <3>2, <3>3, NoOne
  <2>2. OfferedOnce'
    BY <1>1 DEF OfferedOnce, Inv, Operating, Visited
  <2> QED
    BY <2>1, <2>2 DEF DiscoveryIsExact
<1>7. Children'
  <2>1. op'.kind = "none" /\ op'.stage = "idle" /\ last'.kind = op.kind
    BY <1>1 DEF Idle
  <2>2. Stopping' /\ ShutdownStopsAll'
    BY <1>1, <1>2, <2>1 DEF Inv, Children, Stopping, ShutdownStopsAll
  <2> QED
    BY <1>1, <2>1, <2>2, SameChildren DEF Inv, Waiting, Asking
<1> QED
  BY <1>1, <1>3, <1>4, <1>5, <1>6, <1>7 DEF Inv, Reported, Counters

LEMMA ShutdownInv ==
  ASSUME Inv, Shutdown
  PROVE  Inv'
<1>1. /\ op.stage = "stop" /\ op.kind = "shutdown" /\ op.server \in Server /\ op.server # None
      /\ op.server \notin Range(op.todo) /\ ToDo = Range(op.todo) \union {op.server}
      /\ UNCHANGED <<toolIndex, nextId, ran, program, orphans, faults, ops>>
  BY NoOne DEF Shutdown, Inv, Operating, Stages, Sweeping, Sweep, ToDo
<1>2. CASE /\ process' = [process EXCEPT ![op.server] = None]
           /\ initialized' = [initialized EXCEPT ![op.server] = FALSE]
           /\ GoOn(op) /\ UNCHANGED kills
  <2>1. op' = [op EXCEPT !.stage = "next", !.server = None] /\ UNCHANGED last
    BY <1>2 DEF GoOn
  <2>2. op' \in Operation
    BY <2>1 DEF Inv, Operating, Operation
  <2>3. op'.stage = "next" /\ op'.server = None /\ op'.kind = "shutdown" /\ op'.todo = op.todo
    BY <1>1, <2>1 DEF Inv, Operating, Operation
  <2>4. Stages' /\ Pages' /\ Tries'
    BY <2>3 DEF Stages, Pages, Tries, Busy, Asking, Sweep
  <2>5. ToDo' = Range(op.todo) /\ None \notin Range(op.todo)
    <3>1. op.todo \in Seq(Server)
      BY DEF Inv, Operating, Operation
    <3> QED
      BY <2>3, <3>1, RangeOfSeq, NoOne DEF ToDo
  <2>6. Sweeping' /\ Visited' /\ Routes'
    BY <1>1, <2>3, <2>5 DEF Inv, Operating, Sweeping, Visited, Routes, Sweep, Discovery
  <2>7. Reported'
    BY <1>1, <2>1, <2>3 DEF Inv, Reported, RetriesHealOnce, OneFaultIsHealed, RetriesBounded,
                      DiscoveryIsExact, RoutesMatchDiscovery, OfferedOnce
  <2>8. ASSUME NEW s \in Server PROVE InStep(s)'
    <3>1. process[s] # None => Quiet(process[s])
      BY <1>1, AllQuiet DEF Inv, Waiting
    <3> QED
      BY <1>2, <3>1 DEF Inv, Children, InStep, Quiet, Notes
  <2>9. Stopping' /\ ShutdownStopsAll' /\ RunsOnce'
    BY <1>1, <1>2, <2>3, <2>5 DEF Inv, Children, Stopping, ShutdownStopsAll, RunsOnce
  <2>10. Children'
    BY <1>2, <2>3, <2>8, <2>9 DEF Inv, Children, Asking
  <2> QED
    BY <1>1, <1>2, <2>2, <2>4, <2>6, <2>7, <2>10 DEF Inv, Operating, Counters
<1>3. CASE /\ faults + kills < MaxFaults /\ kills' = kills + 1
           /\ End(op, "Io") /\ UNCHANGED <<process, initialized>>
  <2>1. /\ op' = Idle
        /\ last' = [kind |-> op.kind, faults |-> op.faults, offered |-> op.offered,
                    working |-> op.working, failed |-> op.failed, result |-> "Io"]
    BY <1>3 DEF End
  <2>2. Operating'
    BY <1>1, <2>1, IdleOperates DEF Inv, Operating
  <2>3. last' \in Result
    BY <2>1 DEF Inv, Operating, Operation, Result, Error
  <2>4. Reported'
    BY <1>1, <2>1, <2>3 DEF Reported, RetriesHealOnce, OneFaultIsHealed, RetriesBounded,
         DiscoveryIsExact, RoutesMatchDiscovery, OfferedOnce, Discovery
  <2>5. op'.kind = "none" /\ op'.stage = "idle" /\ last'.result = "Io"
    BY <2>1 DEF Idle
  <2>6. Children'
    BY <1>1, <1>3, <2>5, SameChildren DEF Inv, Stopping, ShutdownStopsAll, Waiting, Asking
  <2> QED
    BY <1>1, <1>3, <2>2, <2>4, <2>6, BoundsAssumption DEF Inv, Counters
<1> QED
  BY <1>2, <1>3 DEF Shutdown

-----------------------------------------------------------------------------
(* Requests and answers.                                                   *)

LEMMA IdsTyped ==
  ASSUME nextId \in 1..Ids
  PROVE  take_request_id \in 1..Ids /\ nextId \in Nat
BY BoundsAssumption DEF take_request_id

\* Every failed request resets its server, and all the others are quiet.
LEMMA FailInv ==
  ASSUME Inv, op.stage \in Asking, NEW e \in {"Transport", "Timeout", "InvalidResponse"}, Fail(e),
         UNCHANGED <<ran, program, faults, ops>>, nextId' \in 1..Ids
  PROVE  Inv'
<1>1. reset_server(op.server) /\ op.server \in Server
  BY DEF Fail, should_reset_server, is_retryable_error, Inv, Operating, Stages, Busy
<1>2. /\ process' = [process EXCEPT ![op.server] = None]
      /\ initialized' = [initialized EXCEPT ![op.server] = FALSE]
      /\ UNCHANGED <<orphans, kills>> \/ (faults + kills < MaxFaults /\ kills' = kills + 1 /\ orphans' = orphans + 1)
  BY <1>1 DEF reset_server
<1>3. \/ Left
      \/ /\ Operating' /\ Reported' /\ op'.stage = "enter" /\ UNCHANGED last
         /\ op'.kind = op.kind /\ op'.server = op.server /\ op'.todo = op.todo
         /\ op.kind = "call" => op.stage = "init"
  BY FailOperates DEF Inv
<1>4. ASSUME NEW s \in Server PROVE InStep(s)'
  <2>1. CASE s = op.server
    BY <1>2, <2>1 DEF Inv, Children, InStep
  <2>2. CASE s # op.server
    <3>1. process[s] # None => Quiet(process[s])
      BY <2>2, AllQuiet DEF Inv
    <3> QED
      BY <1>2, <2>2, <3>1 DEF Inv, Children, InStep, Quiet, Notes
  <2> QED
    BY <2>1, <2>2
<1>5. op.kind # "shutdown"
  BY DEF Inv, Operating, Stages, Busy
<1>6. RunsOnce' /\ Stopping' /\ ShutdownStopsAll'
  BY <1>3, <1>5 DEF Inv, Children, Left, RunsOnce, Stopping, ShutdownStopsAll
<1>7. Children'
  BY <1>2, <1>3, <1>4, <1>6 DEF Inv, Children, Left, Asking
<1>8. Counters'
  BY <1>2, BoundsAssumption DEF Inv, Counters
<1> QED
  BY <1>3, <1>7, <1>8 DEF Inv, Left

LEMMA TypedChild == Child \in Process
BY EmptySeq DEF Child, Process

\* The server is ready, cannot be spawned, or is sent the handshake.
LEMMA ReadyInv ==
  ASSUME Inv, op.stage = "enter", Usable(op.server), op' = [op EXCEPT !.stage = "ask"],
         UNCHANGED <<process, initialized, toolIndex, nextId, last, faults, ran, program, orphans, kills, ops>>
  PROVE  Inv'
<1>1. op' \in Operation
  BY DEF Inv, Operating, Operation
<1>2. /\ op'.stage = "ask" /\ op'.server = op.server /\ op'.kind = op.kind /\ op'.cursor = op.cursor
      /\ op'.tools = op.tools /\ op'.faults = op.faults /\ op'.tries = op.tries /\ op'.inits = op.inits
      /\ op'.todo = op.todo /\ op'.working = op.working /\ op'.failed = op.failed /\ op'.offered = op.offered
  BY DEF Inv, Operating, Operation
<1>3. Stages' /\ Pages' /\ Tries' /\ Sweeping' /\ Visited' /\ Routes'
  BY <1>2 DEF Inv, Operating, Stages, Pages, Tries, Sweeping, Visited, Routes, ToDo, Busy, Asking
<1>4. Reported'
  BY <1>2 DEF Inv, Reported, RetriesHealOnce, OneFaultIsHealed, RetriesBounded,
              DiscoveryIsExact, RoutesMatchDiscovery, OfferedOnce
<1>5. ASSUME NEW s \in Server PROVE InStep(s)'
  <2>1. process[s] # None => Quiet(process[s])
    BY AllQuiet DEF Inv, Waiting
  <2> QED
    BY <2>1 DEF Inv, Children, InStep, Quiet, Notes
<1>6. Children'
  BY <1>2, <1>5 DEF Inv, Children, RunsOnce, Stopping, ShutdownStopsAll, ToDo, Asking, Usable
<1> QED
  BY <1>1, <1>3, <1>4, <1>6 DEF Inv, Operating, Counters

\* A failure that no retry is for.
LEMMA NoRetryLeaves ==
  ASSUME Operating, Reported, op.stage \in Busy, NEW e \in {"Io", "JsonRpc", "InvalidResponse"}, Failed(op, e)
  PROVE  Left
<1>1. op = [op EXCEPT !.faults = op.faults]
  BY DEF Operating, Operation
<1>2. op.faults \in Nat /\ op.faults <= 4 /\ (op.kind = "call" => op.faults <= 2)
  BY FaultsSoFar
<1>3. Failed([op EXCEPT !.faults = op.faults], e)
  BY <1>1, Zenon
<1>4. e \in Error /\ ~is_retryable_error(e)
  BY DEF Error, is_retryable_error
<1> QED
  BY <1>2, <1>3, <1>4, FailedLeaves

LEMMA NotSpawnedInv ==
  ASSUME Inv, op.stage = "enter", Failed(op, "Io"),
         faults + kills < MaxFaults, faults' = faults + 1,
         process' = [process EXCEPT ![op.server] = None],
         initialized' = [initialized EXCEPT ![op.server] = FALSE],
         UNCHANGED <<nextId, ran, program, orphans, kills, ops>>
  PROVE  Inv'
<1>3. Left
  BY NoRetryLeaves DEF Inv, Busy
<1>4. ASSUME NEW s \in Server PROVE InStep(s)'
  <2>1. process[s] # None => Quiet(process[s])
    BY AllQuiet DEF Inv, Waiting
  <2> QED
    BY <2>1 DEF Inv, Children, InStep, Quiet, Notes
<1>5. RunsOnce' /\ Stopping' /\ ShutdownStopsAll'
  BY <1>3 DEF Inv, Children, Left, RunsOnce, Stopping, ShutdownStopsAll
<1>6. Children'
  BY <1>3, <1>4, <1>5 DEF Inv, Children, Left, Asking
<1> QED
  BY <1>3, <1>6, BoundsAssumption DEF Inv, Left, Counters

\* A request is sent to a quiet child.
LEMMA SendsInv ==
  ASSUME Inv, op.stage \in {"enter", "ask"}, NEW c \in Process, Quiet(c),
         NEW stage \in {"init", "wait"}, (stage = "init") <=> (op.stage = "enter"),
         initialized' \in [Server -> BOOLEAN], initialized'[op.server] <=> stage = "wait",
         \A s \in Server \ {op.server} : initialized'[s] = initialized[s],
         stage = "wait" => c.greeted,
         process' = [process EXCEPT ![op.server] =
           [c EXCEPT !.req = [id |-> nextId, from |-> op.cursor,
                              method |-> IF stage = "init" THEN "initialize" ELSE MethodOf(op.kind)]]],
         op' = [op EXCEPT !.stage = stage, !.id = nextId], nextId' = take_request_id,
         UNCHANGED <<toolIndex, last, faults, ran, program, orphans, kills, ops>>
  PROVE  Inv'
<1> DEFINE d == [c EXCEPT !.req = [id |-> nextId, from |-> op.cursor,
                                   method |-> IF stage = "init" THEN "initialize" ELSE MethodOf(op.kind)]]
<1>1. op.server \in Server /\ op.kind \notin {"none", "shutdown"} /\ op.cursor \in Nat
  BY DEF Inv, Operating, Operation, Stages, Busy, Asking
<1>2. nextId \in Nat /\ nextId' \in 1..Ids
  BY IdsTyped DEF Inv, Counters
<1>3. op' \in Operation
  BY <1>2 DEF Inv, Operating, Operation
<1>4. /\ op'.stage = stage /\ op'.server = op.server /\ op'.kind = op.kind /\ op'.cursor = op.cursor
      /\ op'.tools = op.tools /\ op'.faults = op.faults /\ op'.tries = op.tries /\ op'.inits = op.inits
      /\ op'.todo = op.todo /\ op'.working = op.working /\ op'.failed = op.failed /\ op'.offered = op.offered
      /\ op'.id = nextId
  BY DEF Inv, Operating, Operation
<1>5. Stages' /\ Pages' /\ Tries' /\ Sweeping' /\ Visited' /\ Routes'
  BY <1>4 DEF Inv, Operating, Stages, Pages, Tries, Sweeping, Visited, Routes, ToDo, Busy, Asking
<1>6. Reported'
  BY <1>4 DEF Inv, Reported, RetriesHealOnce, OneFaultIsHealed, RetriesBounded,
              DiscoveryIsExact, RoutesMatchDiscovery, OfferedOnce
<1>7. d \in Process /\ d # None
  BY <1>1, <1>2, NoneAssumption DEF Process, Requested, Method, MethodOf
<1>8. /\ d.out = c.out /\ d.greeted = c.greeted
      /\ d.req = [id |-> nextId, from |-> op.cursor,
                  method |-> IF stage = "init" THEN "initialize" ELSE MethodOf(op.kind)]
  BY DEF Process
<1> HIDE DEF d
<1>9. process \in [Server -> {None} \union Process] /\ initialized \in [Server -> BOOLEAN]
  BY DEF Inv, Children
<1>10. process' = [process EXCEPT ![op.server] = d]
  BY DEF d
<1>11. ran = ran' /\ (op.kind = "call" => ran = <<>>)
  BY DEF Inv, Children, RunsOnce
<1>12. ASSUME NEW s \in Server PROVE InStep(s)'
  <2>1. CASE s = op.server
    <3>1. process'[s] = d /\ Waiting' /\ op'.server = s
      BY <1>1, <1>4, <1>9, <1>10, <2>1 DEF Waiting
    <3>2. Asked(process[s])'
      BY <1>4, <1>8, <1>11, <3>1 DEF Asked, Quiet, Notes, MethodOf
    <3>3. initialized'[s] => process'[s].greeted
      BY <1>8, <2>1, <3>1
    <3> QED
      BY <1>7, <3>1, <3>2, <3>3 DEF InStep
  <2>2. CASE s # op.server
    <3>1. process[s] # None => Quiet(process[s])
      BY <2>2, AllQuiet DEF Inv
    <3>2. process'[s] = process[s] /\ initialized'[s] = initialized[s]
      BY <1>9, <1>10, <2>2
    <3>3. initialized[s] => process[s] # None /\ process[s].greeted
      BY DEF Inv, Children, InStep
    <3> QED
      BY <3>1, <3>2, <3>3 DEF InStep, Quiet, Notes
  <2> QED
    BY <2>1, <2>2
<1>13. RunsOnce' /\ Stopping' /\ ShutdownStopsAll'
  BY <1>1, <1>4, <1>11 DEF Inv, Children, RunsOnce, Stopping, ShutdownStopsAll
<1>14. Children'
  BY <1>1, <1>4, <1>7, <1>9, <1>10, <1>12, <1>13 DEF Children, Asking
<1> QED
  BY <1>2, <1>3, <1>5, <1>6, <1>14 DEF Inv, Operating, Counters

LEMMA EnsureReadyInv ==
  ASSUME Inv, EnsureReady
  PROVE  Inv'
<1> DEFINE s == op.server
           child == IF process[s] = None \/ Exited(s) THEN Child ELSE process[s]
<1>1. op.stage = "enter" /\ s \in Server /\ op.cursor = 0
  BY DEF EnsureReady, Inv, Operating, Stages, Pages, Busy
<1>2. UNCHANGED <<ran, program, orphans, kills, ops>>
  BY DEF EnsureReady
<1>3. CASE /\ Usable(s) /\ op' = [op EXCEPT !.stage = "ask"]
           /\ UNCHANGED <<process, initialized, toolIndex, nextId, last, faults>>
  BY <1>1, <1>2, <1>3, ReadyInv
<1>4. CASE /\ faults + kills < MaxFaults /\ faults' = faults + 1
           /\ process' = [process EXCEPT ![s] = None]
           /\ initialized' = [initialized EXCEPT ![s] = FALSE]
           /\ Failed(op, "Io") /\ UNCHANGED nextId
  BY <1>1, <1>2, <1>4, NotSpawnedInv
<1>5. CASE /\ ~Usable(s)
           /\ process' = [process EXCEPT ![s] =
                [child EXCEPT !.req = [id |-> nextId, method |-> "initialize", from |-> 0]]]
           /\ initialized' = [initialized EXCEPT ![s] = FALSE]
           /\ op' = [op EXCEPT !.stage = "init", !.id = nextId]
           /\ nextId' = take_request_id
           /\ UNCHANGED <<toolIndex, last, faults>>
  <2>1. child \in Process
    BY <1>1, TypedChild DEF Inv, Children
  <2>2. Quiet(child)
    <3>1. Quiet(Child)
      BY DEF Quiet, Notes, Child
    <3>2. process[s] # None => Quiet(process[s])
      BY <1>1, AllQuiet DEF Inv, Waiting
    <3> QED
      BY <3>1, <3>2
  <2>3. /\ initialized' \in [Server -> BOOLEAN] /\ ~initialized'[s]
        /\ \A x \in Server \ {s} : initialized'[x] = initialized[x]
    BY <1>1, <1>5 DEF Inv, Children
  <2>4. [child EXCEPT !.req = [id |-> nextId, method |-> "initialize", from |-> 0]]
          = [child EXCEPT !.req = [id |-> nextId, from |-> op.cursor,
                                   method |-> IF "init" = "init" THEN "initialize" ELSE MethodOf(op.kind)]]
    BY <1>1
  <2> QED
    BY <1>1, <1>2, <1>5, <2>1, <2>2, <2>3, <2>4, SendsInv
<1> QED
  BY <1>3, <1>4, <1>5 DEF EnsureReady

LEMMA RequestInv ==
  ASSUME Inv, Request
  PROVE  Inv'
<1> DEFINE s == op.server
           c == process[s]
<1>1. /\ op.stage = "ask" /\ s \in Server /\ c # None /\ initialized[s]
      /\ UNCHANGED <<initialized, toolIndex, last, ran, program, orphans, faults, kills, ops>>
      /\ process' = [process EXCEPT ![s].req =
           [id |-> nextId, method |-> MethodOf(op.kind), from |-> op.cursor]]
      /\ op' = [op EXCEPT !.stage = "wait", !.id = nextId] /\ nextId' = take_request_id
  BY DEF Request, Inv, Operating, Stages, Busy, Asking, Children
<1>2. c \in Process /\ c.greeted
  BY <1>1 DEF Inv, Children, InStep
<1>3. Quiet(c)
  BY <1>1, AllQuiet DEF Inv, Waiting
<1>4. process' = [process EXCEPT ![s] = [c EXCEPT !.req =
        [id |-> nextId, from |-> op.cursor,
         method |-> IF "wait" = "init" THEN "initialize" ELSE MethodOf(op.kind)]]]
  BY <1>1
<1>5. /\ initialized' \in [Server -> BOOLEAN] /\ initialized'[s]
      /\ \A x \in Server \ {s} : initialized'[x] = initialized[x]
  BY <1>1 DEF Inv, Children
<1> QED
  BY <1>1, <1>2, <1>3, <1>4, <1>5, SendsInv

LEMMA FailingInv ==
  ASSUME Inv, BrokenPipe \/ EndOfFile \/ TimeOut
  PROVE  Inv'
<1>1. nextId \in 1..Ids /\ take_request_id \in 1..Ids
  BY IdsTyped DEF Inv, Counters
<1> QED
  BY <1>1, FailInv DEF BrokenPipe, EndOfFile, TimeOut, Waiting, Asking

\* What an answer that is taken leaves behind is quiet.
LEMMA TakenIsQuiet ==
  ASSUME Inv, Waiting, process[op.server].out # <<>>, Well(Head(process[op.server].out))
  PROVE  /\ op.server \in Server /\ process[op.server] \in Process
         /\ Told(process[op.server]) /\ True(process[op.server].greeted, Head(process[op.server].out))
         /\ Head(process[op.server].out) \in Messages
         /\ [process[op.server] EXCEPT !.out = Tail(@)] \in Process
         /\ Quiet([process[op.server] EXCEPT !.out = Tail(@)])
<1> DEFINE s == op.server
           c == process[s]
           d == [c EXCEPT !.out = Tail(@)]
<1>1. s \in Server /\ c # None /\ c \in Process
  BY DEF Inv, Children, Operating, Stages, Busy, Asking, Waiting
<1>2. /\ c.out \in Seq(Messages) /\ DOMAIN c.out = 1 .. Len(c.out) /\ Len(c.out) \in Nat \ {0}
      /\ Head(c.out) = c.out[1]
  BY <1>1, EmptySeq, LenProperties DEF Process
<1>3. c.out[1].kind # "note"
  BY <1>2 DEF Well
<1>4. ~Notes(c.out)
  BY <1>2, <1>3 DEF Notes
<1>5. Told(c)
  BY <1>1, <1>4 DEF Inv, Children, InStep, Quiet, Asked
<1>6. PICK i \in DOMAIN c.out : True(c.greeted, c.out[i]) /\ \A j \in DOMAIN c.out \ {i} : c.out[j].kind = "note"
  BY <1>5 DEF Told
<1>7. i = 1
  BY <1>2, <1>3, <1>6
<1>8. /\ Tail(c.out) \in Seq(Messages) /\ Len(Tail(c.out)) = Len(c.out) - 1
      /\ \A j \in 1 .. Len(Tail(c.out)) : Tail(c.out)[j] = c.out[j + 1]
      /\ DOMAIN Tail(c.out) = 1 .. Len(Tail(c.out)) /\ Head(c.out) \in Messages
  <2>1. c.out # <<>>
    OBVIOUS
  <2> QED
    BY <1>2, <2>1, HeadTailProperties, LenProperties
<1>9. d \in Process /\ d.out = Tail(c.out) /\ d.req = None
  BY <1>1, <1>5, <1>8 DEF Process, Told
<1>10. Notes(Tail(c.out))
  BY <1>2, <1>6, <1>7, <1>8 DEF Notes
<1> QED
  BY <1>1, <1>2, <1>5, <1>6, <1>7, <1>8, <1>9, <1>10 DEF Quiet

\* The children after an answer was taken, whatever the operation does next, unless it waits.
LEMMA TakenChildren ==
  ASSUME Inv, Waiting, process[op.server].out # <<>>, Well(Head(process[op.server].out)),
         process' = [process EXCEPT ![op.server].out = Tail(@)], UNCHANGED ran,
         initialized' \in [Server -> BOOLEAN],
         \A s \in Server \ {op.server} : initialized'[s] = initialized[s],
         initialized'[op.server] => initialized[op.server] \/ process[op.server].greeted
  PROVE  /\ process' \in [Server -> {None} \union Process] /\ process'[op.server] # None
         /\ \A s \in Server : InStep(s)'
<1> DEFINE s == op.server
           d == [process[s] EXCEPT !.out = Tail(@)]
<1>1. s \in Server /\ process[s] \in Process /\ d \in Process /\ Quiet(d)
  BY TakenIsQuiet
<1>2. process' = [process EXCEPT ![s] = d] /\ d.greeted = process[s].greeted /\ d # None
  BY <1>1, NoneAssumption DEF Process
<1> HIDE DEF d
<1>3. process \in [Server -> {None} \union Process]
  BY DEF Inv, Children
<1>4. ASSUME NEW x \in Server PROVE InStep(x)'
  <2>1. CASE x = s
    <3>1. process'[x] = d
      BY <1>1, <1>2, <1>3, <2>1
    <3>2. initialized[s] => process[s].greeted
      BY <1>1 DEF Inv, Children, InStep
    <3> QED
      BY <1>1, <1>2, <2>1, <3>1, <3>2 DEF InStep, Quiet, Notes
  <2>2. CASE x # s
    <3>1. process[x] # None => Quiet(process[x])
      BY <2>2, AllQuiet DEF Inv
    <3>2. process'[x] = process[x] /\ initialized'[x] = initialized[x]
      BY <1>2, <1>3, <2>2
    <3>3. initialized[x] => process[x] # None /\ process[x].greeted
      BY DEF Inv, Children, InStep
    <3> QED
      BY <3>1, <3>2, <3>3 DEF InStep, Quiet, Notes
  <2> QED
    BY <2>1, <2>2
<1> QED
  BY <1>1, <1>2, <1>3, <1>4

\* An answer that ends the visit of a server.
LEMMA AnsweredInv ==
  ASSUME Inv, Waiting, process[op.server].out # <<>>, Well(Head(process[op.server].out)),
         process' = [process EXCEPT ![op.server].out = Tail(@)], Left,
         UNCHANGED <<initialized, orphans, kills, nextId, ran, program, faults, ops>>
  PROVE  Inv'
<1>1. /\ process' \in [Server -> {None} \union Process] /\ process'[op.server] # None
      /\ \A s \in Server : InStep(s)'
  BY TakenChildren DEF Inv, Children
<1>2. RunsOnce' /\ Stopping' /\ ShutdownStopsAll'
  BY DEF Inv, Children, Left, RunsOnce, Stopping, ShutdownStopsAll
<1>3. Children'
  BY <1>1, <1>2 DEF Inv, Children, Left, Asking
<1> QED
  BY <1>3 DEF Inv, Left, Counters

\* The handshake is answered: the operation's own request is next.
LEMMA GreetedInv ==
  ASSUME Inv, Waiting, process[op.server].out # <<>>, Well(Head(process[op.server].out)),
         Greeted(Head(process[op.server].out)),
         process' = [process EXCEPT ![op.server].out = Tail(@)],
         initialized' = [initialized EXCEPT ![op.server] = TRUE],
         op' = [op EXCEPT !.stage = "ask"],
         UNCHANGED <<toolIndex, last, orphans, kills, nextId, ran, program, faults, ops>>
  PROVE  Inv'
<1>1. op' \in Operation /\ op.stage = "init"
  BY DEF Inv, Operating, Operation, Greeted
<1>2. /\ op'.stage = "ask" /\ op'.server = op.server /\ op'.kind = op.kind /\ op'.cursor = op.cursor
      /\ op'.tools = op.tools /\ op'.faults = op.faults /\ op'.tries = op.tries /\ op'.inits = op.inits
      /\ op'.todo = op.todo /\ op'.working = op.working /\ op'.failed = op.failed /\ op'.offered = op.offered
  BY DEF Inv, Operating, Operation
<1>3. Stages' /\ Pages' /\ Tries' /\ Sweeping' /\ Visited' /\ Routes'
  BY <1>1, <1>2 DEF Inv, Operating, Stages, Pages, Tries, Sweeping, Visited, Routes, ToDo, Busy, Asking
<1>4. Reported'
  BY <1>2 DEF Inv, Reported, RetriesHealOnce, OneFaultIsHealed, RetriesBounded,
              DiscoveryIsExact, RoutesMatchDiscovery, OfferedOnce
<1>5. process[op.server].greeted
  BY <1>1, TakenIsQuiet DEF True, Greeted
<1>6. /\ initialized' \in [Server -> BOOLEAN] /\ \A s \in Server \ {op.server} : initialized'[s] = initialized[s]
      /\ initialized'[op.server] = TRUE
  BY TakenIsQuiet DEF Inv, Children
<1>7. /\ process' \in [Server -> {None} \union Process] /\ process'[op.server] # None
      /\ \A s \in Server : InStep(s)'
  BY <1>5, <1>6, TakenChildren
<1>8. op.kind # "shutdown"
  BY <1>1 DEF Inv, Operating, Stages, Busy, Asking
<1>9. RunsOnce' /\ Stopping' /\ ShutdownStopsAll'
  BY <1>1, <1>2, <1>8 DEF Inv, Children, RunsOnce, Stopping, ShutdownStopsAll
<1>10. Children'
  BY <1>2, <1>6, <1>7, <1>9 DEF Children
<1> QED
  BY <1>1, <1>3, <1>4, <1>10 DEF Inv, Operating, Counters

\* What a success that is taken says of the pages.
LEMMA PageTaken ==
  ASSUME Inv, op.stage = "wait", process[op.server].out # <<>>, Well(Head(process[op.server].out)),
         Head(process[op.server].out).kind = "ok"
  PROVE  LET a == Head(process[op.server].out) IN
         /\ a.items \in Seq(Tool) /\ op.tools \o a.items \in Seq(Tool) /\ Len(a.items) \in Nat
         /\ a.more => op.kind \in Discovery
         /\ op.kind \in Discovery =>
              /\ op.cursor + Len(a.items) \in 0 .. Len(Lists[op.server])
              /\ op.tools \o a.items = SubSeq(Lists[op.server], 1, op.cursor + Len(a.items))
              /\ ~a.more => op.tools \o a.items = Lists[op.server]
<1> DEFINE a == Head(process[op.server].out)
           L == Lists[op.server]
<1>1. op.server \in Server /\ a \in Messages /\ True(process[op.server].greeted, a)
  BY TakenIsQuiet DEF Waiting
<1>2. a.items \in Seq(Tool) /\ op.tools \in Seq(Tool) /\ Len(a.items) \in Nat
  BY <1>1, LenProperties DEF Messages, Inv, Operating, Operation
<1>3. op.tools \o a.items \in Seq(Tool)
  BY <1>2, ConcatProperties
<1>4. a.more => op.kind \in Discovery
  BY <1>1 DEF True
<1>5. ASSUME op.kind \in Discovery
      PROVE  /\ op.cursor + Len(a.items) \in 0 .. Len(L)
             /\ op.tools \o a.items = SubSeq(L, 1, op.cursor + Len(a.items))
             /\ ~a.more => op.tools \o a.items = L
  <2>1. PICK n \in op.cursor .. Len(L) : a.items = SubSeq(L, op.cursor + 1, n) /\ (a.more <=> n < Len(L))
    BY <1>1, <1>5 DEF True
  <2>2. op.cursor \in 0 .. Len(L) /\ op.tools = SubSeq(L, 1, op.cursor)
    BY <1>5 DEF Inv, Operating, Pages, Busy, Asking
  <2>3. L \in Seq(Tool) /\ Len(L) \in Nat /\ SubSeq(L, 1, Len(L)) = L
    BY <1>1, ListOf, SubSeqFull
  <2>4. op.tools \o a.items = SubSeq(L, 1, n) /\ op.cursor + Len(a.items) = n
    BY <1>1, <2>1, <2>2, PagesJoin
  <2>5. n \in 0 .. Len(L) /\ (~a.more => n = Len(L))
    BY <2>1, <2>2, <2>3
  <2> HIDE DEF a, L
  <2> QED
    BY <2>3, <2>4, <2>5
<1> QED
  BY <1>2, <1>3, <1>4, <1>5

\* A page that is not the last: the next one is asked for.
LEMMA PageInv ==
  ASSUME Inv, op.stage = "wait", process[op.server].out # <<>>, Well(Head(process[op.server].out)),
         Head(process[op.server].out).kind = "ok", Head(process[op.server].out).more,
         process' = [process EXCEPT ![op.server].out = Tail(@)],
         op' = [op EXCEPT !.stage = "ask", !.tools = @ \o Head(process[op.server].out).items,
                          !.cursor = @ + Len(Head(process[op.server].out).items)],
         UNCHANGED <<initialized, toolIndex, last, orphans, kills, nextId, ran, program, faults, ops>>
  PROVE  Inv'
<1> DEFINE items == Head(process[op.server].out).items
           n == Len(items)
           p == op.tools \o items
<1>1. /\ p \in Seq(Tool) /\ n \in Nat /\ op.kind \in Discovery
      /\ op.cursor + n \in 0 .. Len(Lists[op.server]) /\ p = SubSeq(Lists[op.server], 1, op.cursor + n)
  BY PageTaken
<1>2. op' = [op EXCEPT !.stage = "ask", !.tools = p, !.cursor = op.cursor + n]
  BY DEF Inv, Operating, Operation
<1>3. Waiting /\ op.stage \in Busy
  BY DEF Waiting, Busy, Asking
<1> HIDE DEF p, n
<1>4. op.cursor + n \in Nat
  BY <1>1 DEF Inv, Operating, Operation
<1>5. op' \in Operation
  BY <1>1, <1>2, <1>4, ZenonT(40) DEF Inv, Operating, Operation
<1>6. /\ op'.stage = "ask" /\ op'.server = op.server /\ op'.kind = op.kind /\ op'.cursor = op.cursor + n
      /\ op'.tools = p /\ op'.faults = op.faults /\ op'.tries = op.tries /\ op'.inits = op.inits
      /\ op'.todo = op.todo /\ op'.working = op.working /\ op'.failed = op.failed /\ op'.offered = op.offered
  BY <1>2 DEF Inv, Operating, Operation
<1>7. Stages' /\ Tries' /\ Sweeping' /\ Visited' /\ Routes'
  <2>1. Stages' /\ Tries'
    BY <1>3, <1>6 DEF Inv, Operating, Stages, Tries, Busy, Asking
  <2>2. Sweeping'
    BY <1>6 DEF Inv, Operating, Sweeping
  <2>3. Visited'
    <3>1. ToDo' = ToDo
      BY <1>6 DEF ToDo
    <3>2. Visited
      BY DEF Inv, Operating
    <3>3. Visited' <=> Visited
      BY <1>6, <3>1 DEF Visited
    <3> QED
      BY <3>2, <3>3
  <2>4. Routes'
    BY <1>6 DEF Inv, Operating, Routes, ToDo
  <2> QED
    BY <2>1, <2>2, <2>3, <2>4
<1>8. Pages'
  BY <1>1, <1>6 DEF Pages
<1>9. Reported'
  BY <1>6 DEF Inv, Reported, RetriesHealOnce, OneFaultIsHealed, RetriesBounded,
              DiscoveryIsExact, RoutesMatchDiscovery, OfferedOnce
<1>10. /\ process' \in [Server -> {None} \union Process] /\ process'[op.server] # None
       /\ \A s \in Server : InStep(s)'
  BY <1>3, TakenChildren DEF Inv, Children
<1>11. RunsOnce' /\ Stopping' /\ ShutdownStopsAll'
  BY <1>1, <1>6 DEF Inv, Children, RunsOnce, Stopping, ShutdownStopsAll, Discovery
<1>12. Children'
  BY <1>6, <1>10, <1>11 DEF Inv, Children
<1> QED
  BY <1>5, <1>7, <1>8, <1>9, <1>12 DEF Inv, Operating, Counters

LEMMA AnswerInv ==
  ASSUME Inv, Answer
  PROVE  Inv'
<1> DEFINE a == Head(process[op.server].out)
           taken == [process EXCEPT ![op.server].out = Tail(@)]
           keep == UNCHANGED <<initialized, orphans, kills>>
<1>1. /\ Waiting /\ process[op.server].out # <<>> /\ op.stage \in Asking /\ op.stage \in Busy
      /\ UNCHANGED <<nextId, ran, program, faults, ops>>
  BY DEF Answer, Waiting, Asking, Busy
<1>2. CASE ~Well(a) \/ Empty(a)
  <2>1. Fail("InvalidResponse")
    BY <1>2 DEF Answer
  <2> QED
    BY <1>1, <2>1, FailInv DEF Inv, Counters
<1>3. CASE Well(a) /\ ~Empty(a) /\ Greeted(a)
  <2>1. /\ process' = taken
        /\ initialized' = [initialized EXCEPT ![op.server] = TRUE]
        /\ op' = [op EXCEPT !.stage = "ask"]
        /\ UNCHANGED <<toolIndex, last, orphans, kills>>
    BY <1>3 DEF Answer, Greeted
  <2> QED
    BY <1>1, <1>3, <2>1, GreetedInv
<1>4. CASE Well(a) /\ ~Empty(a) /\ ~Greeted(a) /\ a.kind = "error"
  <2>1. process' = taken /\ keep /\ Failed(op, "JsonRpc")
    BY <1>4 DEF Answer
  <2>2. Left
    BY <1>1, <2>1, NoRetryLeaves DEF Inv
  <2> QED
    BY <1>1, <1>4, <2>1, <2>2, AnsweredInv
<1>5. CASE Well(a) /\ a.kind = "empty" /\ ~Empty(a)
  <2>1. process' = taken /\ keep /\ Failed(op, "InvalidResponse")
    BY <1>5 DEF Answer, Greeted
  <2>2. Left
    BY <1>1, <2>1, NoRetryLeaves DEF Inv
  <2> QED
    BY <1>1, <1>5, <2>1, <2>2, AnsweredInv
<1>6. CASE Well(a) /\ ~Empty(a) /\ ~Greeted(a) /\ a.kind \notin {"error", "empty"}
  <2>1. /\ process' = taken /\ keep
        /\ IF a.more
           THEN /\ op' = [op EXCEPT !.stage = "ask", !.tools = @ \o a.items, !.cursor = @ + Len(a.items)]
                /\ UNCHANGED <<last, toolIndex>>
           ELSE Succeeded([op EXCEPT !.tools = @ \o a.items])
    BY <1>6 DEF Answer
  <2>2. a \in Messages
    BY <1>1, <1>6, TakenIsQuiet
  <2>3. a.kind = "ok" /\ op.stage = "wait"
    BY <1>1, <1>6, <2>2 DEF Messages, Well, Greeted, Waiting
  <2>4. CASE a.more
    BY <1>1, <1>6, <2>1, <2>3, <2>4, PageInv
  <2>5. CASE ~a.more
    <3>1. a.items \in Seq(Tool) /\ (op.kind \in Discovery => op.tools \o a.items = Lists[op.server])
      BY <1>6, <2>3, <2>5, <1>1, PageTaken
    <3>2. Succeeded([op EXCEPT !.tools = @ \o a.items])
      BY <2>1, <2>5
    <3>3. Left
      BY <1>1, <3>1, <3>2, SucceededLeaves DEF Inv
    <3> QED
      BY <1>1, <1>6, <2>1, <3>3, AnsweredInv
  <2> QED
    BY <2>4, <2>5
<1> QED
  BY <1>2, <1>3, <1>4, <1>5, <1>6

-----------------------------------------------------------------------------
(* The start of the program, and the servers.                              *)

LEMMA BuildInv ==
  ASSUME Inv, Build
  PROVE  Inv'
<1>1. /\ UNCHANGED <<process, initialized, toolIndex, nextId, op, last, ran, orphans, faults, kills, ops>>
      /\ program' \in {"none", "built", "refused"}
  BY DEF Build
<1>2. Operating' /\ Reported'
  BY <1>1 DEF Inv, Operating, Stages, Pages, Tries, Sweeping, Visited, Routes, ToDo,
              Reported, RetriesHealOnce, OneFaultIsHealed, RetriesBounded,
              DiscoveryIsExact, RoutesMatchDiscovery, OfferedOnce
<1>3. Children'
  BY <1>1 DEF Inv, Children, InStep, Quiet, Asked, Told, True, Waiting, RunsOnce, Stopping, ToDo, ShutdownStopsAll
<1> QED
  BY <1>1, <1>2, <1>3 DEF Inv, Counters

\* A step of a server touches its own child and, at most, the record of the call it was sent.
LEMMA ServerStep ==
  ASSUME Inv, NEW s \in Server, process[s] # None, NEW c \in Process, process[s].greeted => c.greeted,
         process' = [process EXCEPT ![s] = c], UNCHANGED <<initialized, toolIndex, op, last>>,
         ran' = ran \/ op.server = s, RunsOnce',
         \/ Quiet(c)
         \/ Waiting /\ op.server = s /\ (Asked(c) \/ Told(c))'
  PROVE  Operating' /\ Reported' /\ Children'
<1>1. Operating' /\ Reported'
  BY DEF Inv, Operating, Stages, Pages, Tries, Sweeping, Visited, Routes, ToDo,
         Reported, RetriesHealOnce, OneFaultIsHealed, RetriesBounded,
         DiscoveryIsExact, RoutesMatchDiscovery, OfferedOnce
<1>2. /\ process \in [Server -> {None} \union Process] /\ c # None
      /\ process'[s] = c /\ \A x \in Server \ {s} : process'[x] = process[x]
  BY NoneAssumption DEF Inv, Children
<1>3. ASSUME NEW x \in Server PROVE InStep(x)'
  <2>1. InStep(x)
    BY DEF Inv, Children
  <2>2. CASE x = s
    <3>1. process'[x] = c /\ (initialized[x] => c.greeted) /\ initialized' = initialized
      BY <1>2, <2>1, <2>2 DEF InStep
    <3>2. CASE Quiet(c)
      BY <1>2, <3>1, <3>2 DEF InStep, Quiet, Notes
    <3>3. CASE Waiting /\ op.server = s /\ Asked(c)'
      BY <1>2, <2>2, <3>1, <3>3 DEF InStep, Asked, Notes, Waiting
    <3>4. CASE Waiting /\ op.server = s /\ Told(c)'
      <4>1. Told(process[x])'
        BY <3>1, <3>4 DEF Told
      <4> QED
        BY <1>2, <2>2, <3>1, <3>4, <4>1 DEF InStep, Waiting
    <3> QED
      BY <3>2, <3>3, <3>4
  <2>3. CASE x # s
    <3>1. process'[x] = process[x]
      BY <1>2, <2>3
    <3>2. CASE process[x] # None /\ ~Quiet(process[x])
      <4>1. Waiting /\ op.server = x /\ ran' = ran /\ (Asked(process[x]) \/ Told(process[x]))
        BY <2>1, <2>3, <3>2 DEF InStep
      <4>2. CASE Asked(process[x])
        BY <2>1, <3>1, <4>1, <4>2 DEF InStep, Asked, Notes, Waiting
      <4>3. CASE Told(process[x])
        <5>1. ASSUME NEW g, NEW m, True(g, m) PROVE True(g, m)'
          BY <4>1, <5>1 DEF True
        <5>2. Told(process[x])'
          BY <3>1, <4>3, <5>1 DEF Told
        <5> QED
          BY <2>1, <3>1, <4>1, <5>2 DEF InStep, Waiting
      <4> QED
        BY <4>1, <4>2, <4>3
    <3>3. CASE process[x] = None \/ Quiet(process[x])
      BY <2>1, <3>1, <3>3 DEF InStep, Quiet, Notes
    <3> QED
      BY <3>2, <3>3
  <2> QED
    BY <2>2, <2>3
<1>4. Stopping'
  <2>1. op.kind = "shutdown" => s \in ToDo
    BY DEF Inv, Children, Stopping
  <2> QED
    BY <1>2, <2>1 DEF Inv, Children, Stopping, ToDo
<1>5. ShutdownStopsAll'
  BY DEF Inv, Children, ShutdownStopsAll
<1>6. op.stage \in Asking => process'[op.server] # None
  <2>1. op.stage \in Asking => op.server \in Server
    BY DEF Inv, Operating, Stages, Busy
  <2> QED
    BY <1>2, <2>1 DEF Inv, Children
<1>7. process' \in [Server -> {None} \union Process]
  BY <1>2
<1> QED
  BY <1>1, <1>3, <1>4, <1>5, <1>6, <1>7 DEF Inv, Children

\* A server answers: what it tells is true, of the request and of the pages.
LEMMA TellsInv ==
  ASSUME Inv, NEW s \in Server, process[s] \in Process, Waiting, op.server = s, Notes(process[s].out),
         NEW m \in Messages, NEW g \in BOOLEAN, process[s].greeted => g,
         Answered(s, m, g), UNCHANGED <<initialized, toolIndex, op, last>>, RunsOnce',
         True(g, m)'
  PROVE  Operating' /\ Reported' /\ Children'
<1>1. process[s].out \in Seq(Messages) /\ Append(process[s].out, m) \in Seq(Messages)
  BY AppendProperties DEF Process
<1>2. PICK out \in Seq(Messages) : out = Append(process[s].out, m)
  BY <1>1
<1>3. PICK c \in Process : c = [process[s] EXCEPT !.req = None, !.out = out, !.greeted = g]
  BY <1>2 DEF Process
<1>4. c.req = None /\ c.out = out /\ c.greeted = g /\ process' = [process EXCEPT ![s] = c]
  BY <1>2, <1>3 DEF Answered, Process
<1>5. /\ Len(process[s].out) \in Nat /\ Len(out) = Len(process[s].out) + 1
      /\ \A j \in 1 .. Len(process[s].out) : out[j] = process[s].out[j]
      /\ out[Len(out)] = m
      /\ DOMAIN out = 1 .. Len(out) /\ DOMAIN process[s].out = 1 .. Len(process[s].out)
  BY <1>1, <1>2, AppendProperties, LenProperties
<1>6. /\ Len(out) \in DOMAIN out
      /\ \A j \in DOMAIN out \ {Len(out)} : out[j].kind = "note"
  <2> DEFINE n == Len(process[s].out)
             k == Len(out)
  <2>1. n \in Nat /\ k = n + 1 /\ DOMAIN out = 1 .. k /\ DOMAIN process[s].out = 1 .. n
    BY <1>5
  <2>2. \A j \in 1 .. n : out[j] = process[s].out[j] /\ process[s].out[j].kind = "note"
    BY <1>5, <2>1 DEF Notes
  <2> HIDE DEF n, k
  <2>3. k \in 1 .. k /\ \A j \in 1 .. k \ {k} : j \in 1 .. n
    BY <2>1
  <2> QED
    BY <2>1, <2>2, <2>3 DEF k
<1>7. Told(c)'
  <2>1. True(c.greeted, m)'
    BY <1>4, Zenon
  <2>2. /\ c.req = None
        /\ True(c.greeted, c.out[Len(out)])' /\ Len(out) \in DOMAIN c.out
        /\ \A j \in DOMAIN c.out \ {Len(out)} : c.out[j].kind = "note"
    BY <1>4, <1>5, <1>6, <2>1
  <2> QED
    BY <2>2 DEF Told
<1>8. process[s] # None
  BY NoneAssumption
<1> QED
  BY <1>4, <1>7, <1>8, ServerStep

LEMMA MessageTyped ==
  ASSUME NEW id \in Nat, NEW kind \in {"ok", "error", "empty", "bad", "note"}, NEW items \in Seq(Tool),
         NEW more \in BOOLEAN
  PROVE  Message(id, kind, items, more) \in Messages
BY DEF Message, Messages

LEMMA ServeInv ==
  ASSUME Inv, NEW s \in Server, Serve(s)
  PROVE  Inv'
<1> DEFINE r == process[s].req
<1>1. /\ process[s] \in Process /\ process[s].greeted \in BOOLEAN /\ r # None
      /\ UNCHANGED <<initialized, toolIndex, nextId, op, last, program, orphans, faults, kills, ops>>
  BY DEF Inv, Children, Serve, Process
<1>2. Waiting /\ op.server = s /\ Asked(process[s])
  BY <1>1, NoneAssumption DEF Inv, Children, InStep, Quiet, Told
<1>3. /\ r.id = op.id /\ r.from = op.cursor /\ Notes(process[s].out)
      /\ r.method = IF op.stage = "init" THEN "initialize" ELSE MethodOf(op.kind)
      /\ op.id \in Nat /\ op.cursor \in Nat
  BY <1>2 DEF Asked, Inv, Operating, Operation
<1>4. r.method = "tools/list" <=> op.stage = "wait" /\ op.kind \in Discovery
  BY <1>2, <1>3 DEF MethodOf, Waiting, Discovery
<1>5. r.method = "tools/call" <=> op.stage = "wait" /\ op.kind = "call"
  BY <1>2, <1>3 DEF MethodOf, Waiting, Discovery
<1>6. r.method = "initialize" <=> op.stage = "init"
  BY <1>2, <1>3 DEF MethodOf, Waiting, Discovery
<1>7. /\ RunsOnce /\ (op.kind = "call" => ran = <<>>)
      /\ Append(ran, s) \in Seq(Server) /\ Len(Append(ran, s)) = Len(ran) + 1 /\ Len(ran) \in Nat
      /\ Append(ran, s) # <<>>
  BY <1>2, AppendProperties, LenProperties DEF Inv, Children, RunsOnce, Asked
<1>8. CASE /\ r.method = "tools/list"
           /\ \E n \in r.from .. Len(Lists[s]) :
                /\ n = r.from => n = Len(Lists[s])
                /\ Answered(s, Message(r.id, "ok", SubSeq(Lists[s], r.from + 1, n), n < Len(Lists[s])),
                            process[s].greeted)
           /\ UNCHANGED ran
  <2>1. PICK n \in op.cursor .. Len(Lists[s]) :
          Answered(s, Message(op.id, "ok", SubSeq(Lists[s], op.cursor + 1, n), n < Len(Lists[s])), process[s].greeted)
    BY <1>3, <1>8
  <2>2. Lists[s] \in Seq(Tool) /\ Len(Lists[s]) \in Nat
    BY ListOf
  <2>3. SubSeq(Lists[s], op.cursor + 1, n) \in Seq(Tool)
    <3>1. \A i \in op.cursor + 1 .. n : Lists[s][i] \in Tool
      BY <1>3, <2>2, ElementOfSeq
    <3> QED
      BY <1>3, <2>2, <3>1, SubSeqProperties
  <2>4. PICK m \in Messages : m = Message(op.id, "ok", SubSeq(Lists[s], op.cursor + 1, n), n < Len(Lists[s]))
    <3>1. (n < Len(Lists[s])) \in BOOLEAN
      OBVIOUS
    <3> QED
      BY <1>3, <2>3, <3>1, MessageTyped
  <2>5. /\ m.id = op.id /\ m.kind = "ok" /\ m.items = SubSeq(Lists[s], op.cursor + 1, n)
        /\ m.more <=> n < Len(Lists[s])
    BY <2>4 DEF Message
  <2>6. op.stage = "wait" /\ op.kind \in Discovery /\ op.kind # "call"
    BY <1>4, <1>8 DEF Discovery
  <2>7. PICK g \in BOOLEAN : g = process[s].greeted
    BY <1>1
  <2>8. True(g, m)'
    BY <1>1, <1>2, <2>5, <2>6 DEF True
  <2>9. RunsOnce'
    BY <1>1, <1>7, <1>8 DEF RunsOnce
  <2>10. Operating' /\ Reported' /\ Children'
    BY <1>1, <1>2, <1>3, <2>1, <2>4, <2>7, <2>8, <2>9, TellsInv
  <2> QED
    BY <1>1, <2>10 DEF Inv, Counters
<1>9. CASE /\ r.method # "tools/list"
           /\ Answered(s, Message(r.id, "ok", <<>>, FALSE), r.method = "initialize" \/ process[s].greeted)
           /\ ran' = IF r.method = "tools/call" THEN Append(ran, s) ELSE ran
  <2>1. PICK m \in Messages : m = Message(op.id, "ok", <<>>, FALSE)
    BY <1>3, EmptySeq, MessageTyped
  <2>2. m.id = op.id /\ ~m.more
    BY <2>1 DEF Message
  <2>3. PICK g \in BOOLEAN : g <=> r.method = "initialize" \/ process[s].greeted
    OBVIOUS
  <2>4. (r.method = "initialize" \/ process[s].greeted) \in BOOLEAN
    BY <1>1
  <2>5. g = (r.method = "initialize" \/ process[s].greeted)
    BY <2>3, <2>4
  <2>6. ran' # <<>> \/ op.kind # "call" \/ op.stage # "wait"
    BY <1>5, <1>7, <1>9
  <2>7. True(g, m)'
    BY <1>1, <1>4, <1>6, <1>9, <2>2, <2>3, <2>6 DEF True
  <2>8. RunsOnce'
    BY <1>1, <1>5, <1>7, <1>9, LenProperties DEF RunsOnce
  <2>9. Operating' /\ Reported' /\ Children'
    BY <1>1, <1>2, <1>3, <1>9, <2>1, <2>3, <2>5, <2>7, <2>8, TellsInv
  <2> QED
    BY <1>1, <2>9 DEF Inv, Counters
<1>10. CASE /\ \E k \in {"error", "empty", "bad"} :
                 Answered(s, Message(r.id, k, <<>>, FALSE), process[s].greeted)
            /\ UNCHANGED ran \/ (r.method = "tools/call" /\ ran' = Append(ran, s))
  <2>1. PICK k \in {"error", "empty", "bad"} :
          Answered(s, Message(op.id, k, <<>>, FALSE), process[s].greeted)
    BY <1>3, <1>10
  <2>2. PICK m \in Messages : m = Message(op.id, k, <<>>, FALSE)
    BY <1>3, EmptySeq, MessageTyped
  <2>3. m.id = op.id /\ m.kind # "ok"
    BY <2>2 DEF Message
  <2>4. PICK g \in BOOLEAN : g = process[s].greeted
    BY <1>1
  <2>5. True(g, m)'
    BY <1>1, <2>3 DEF True
  <2>6. RunsOnce'
    BY <1>1, <1>5, <1>7, <1>10, LenProperties DEF RunsOnce
  <2>7. Operating' /\ Reported' /\ Children'
    BY <1>1, <1>2, <1>3, <2>1, <2>2, <2>4, <2>5, <2>6, TellsInv
  <2> QED
    BY <1>1, <2>7 DEF Inv, Counters
<1> QED
  BY <1>8, <1>9, <1>10 DEF Serve

\* The bound of the faults.
LEMMA FaultCounted ==
  ASSUME Counters, faults + kills < MaxFaults, faults' = faults + 1,
         UNCHANGED <<nextId, program, orphans, kills, ops>>
  PROVE  Counters'
BY BoundsAssumption DEF Counters

LEMMA NotifyInv ==
  ASSUME Inv, NEW s \in Server, Notify(s)
  PROVE  Inv'
<1>1. /\ process[s] \in Process /\ process[s] # None
      /\ UNCHANGED <<initialized, toolIndex, nextId, op, last, ran, program, orphans, kills, ops>>
  BY DEF Inv, Children, Notify
<1>2. PICK m \in Messages : m = Message(0, "note", <<>>, FALSE)
  BY EmptySeq, MessageTyped
<1>3. process[s].out \in Seq(Messages) /\ Append(process[s].out, m) \in Seq(Messages)
  BY <1>1, AppendProperties DEF Process
<1>4. PICK out \in Seq(Messages) : out = Append(process[s].out, m)
  BY <1>3
<1>5. PICK c \in Process : c = [process[s] EXCEPT !.out = out]
  BY <1>1, <1>4 DEF Process
<1>6. c.out = out /\ c.req = process[s].req /\ c.greeted = process[s].greeted /\ process' = [process EXCEPT ![s] = c]
  BY <1>1, <1>2, <1>4, <1>5 DEF Process, Notify
<1>7. /\ DOMAIN process[s].out \subseteq DOMAIN out
      /\ \A i \in DOMAIN process[s].out : out[i] = process[s].out[i]
      /\ \A i \in DOMAIN out \ DOMAIN process[s].out : out[i].kind = "note"
  <2> DEFINE n == Len(process[s].out)
             k == Len(out)
  <2>1. /\ n \in Nat /\ k = n + 1 /\ DOMAIN out = 1 .. k /\ DOMAIN process[s].out = 1 .. n
        /\ \A j \in 1 .. n : out[j] = process[s].out[j]
        /\ out[k] = m
    BY <1>3, <1>4, AppendProperties, LenProperties
  <2>2. m.kind = "note"
    BY <1>2 DEF Message
  <2> HIDE DEF n, k
  <2>3. 1 .. n \subseteq 1 .. k /\ \A j \in 1 .. k \ 1 .. n : j = k
    BY <2>1
  <2> QED
    BY <2>1, <2>2, <2>3
<1>8. \/ Quiet(c)
      \/ Waiting /\ op.server = s /\ (Asked(c) \/ Told(c))'
  <2>1. InStep(s)
    BY DEF Inv, Children
  <2>2. CASE Quiet(process[s])
    BY <1>6, <1>7, <2>2 DEF Quiet, Notes
  <2>3. CASE Waiting /\ op.server = s /\ Asked(process[s])
    BY <1>1, <1>6, <1>7, <2>3 DEF Asked, Notes
  <2>4. CASE Waiting /\ op.server = s /\ Told(process[s])
    <3>1. ASSUME NEW g, NEW x, True(g, x) PROVE True(g, x)'
      BY <1>1, <3>1 DEF True
    <3>2. PICK i \in DOMAIN process[s].out :
            /\ True(process[s].greeted, process[s].out[i])
            /\ \A j \in DOMAIN process[s].out \ {i} : process[s].out[j].kind = "note"
      BY <2>4 DEF Told
    <3>3. c.req = None
      BY <1>6, <2>4 DEF Told
    <3>4. i \in DOMAIN c.out /\ True(c.greeted, c.out[i])'
      BY <1>6, <1>7, <3>1, <3>2
    <3>5. \A j \in DOMAIN c.out \ {i} : c.out[j].kind = "note"
      BY <1>6, <1>7, <3>2
    <3>6. Told(c)'
      BY <3>3, <3>4, <3>5 DEF Told
    <3> QED
      BY <2>4, <3>6
  <2> QED
    BY <1>1, <2>1, <2>2, <2>3, <2>4 DEF InStep
<1>9. RunsOnce'
  BY <1>1 DEF Inv, Children, RunsOnce
<1>10. Operating' /\ Reported' /\ Children'
  BY <1>1, <1>6, <1>8, <1>9, ServerStep
<1> QED
  BY <1>1, <1>10, FaultCounted DEF Inv, Notify

LEMMA DieInv ==
  ASSUME Inv, NEW s \in Server, Die(s)
  PROVE  Inv'
<1>1. /\ process[s] \in Process /\ process[s] # None
      /\ UNCHANGED <<initialized, toolIndex, nextId, op, last, ran, program, orphans, kills, ops>>
  BY DEF Inv, Children, Die
<1>2. PICK out \in {<<>>, process[s].out} : process' = [process EXCEPT ![s].alive = FALSE, ![s].out = out]
  BY DEF Die
<1>3. out \in Seq(Messages)
  BY <1>1, EmptySeq DEF Process
<1>4. PICK c \in Process : c = [process[s] EXCEPT !.alive = FALSE, !.out = out]
  BY <1>1, <1>3 DEF Process
<1>5. c.out = out /\ c.req = process[s].req /\ c.greeted = process[s].greeted /\ process' = [process EXCEPT ![s] = c]
  BY <1>1, <1>2, <1>4 DEF Process
<1>6. out = <<>> => Notes(out)
  BY DEF Notes
<1>7. \/ Quiet(c)
      \/ Waiting /\ op.server = s /\ (Asked(c) \/ Told(c))'
  <2>1. InStep(s)
    BY DEF Inv, Children
  <2>2. CASE Quiet(process[s])
    BY <1>5, <1>6, <2>2 DEF Quiet
  <2>3. CASE Waiting /\ op.server = s /\ Asked(process[s])
    BY <1>1, <1>5, <1>6, <2>3 DEF Asked, Notes
  <2>4. CASE Waiting /\ op.server = s /\ Told(process[s]) /\ out = <<>>
    BY <1>5, <1>6, <2>4 DEF Told, Quiet
  <2>5. CASE Waiting /\ op.server = s /\ Told(process[s]) /\ out = process[s].out
    <3>1. ASSUME NEW g, NEW x, True(g, x) PROVE True(g, x)'
      BY <1>1, <3>1 DEF True
    <3>2. Told(c)'
      BY <1>5, <2>5, <3>1 DEF Told
    <3> QED
      BY <2>5, <3>2
  <2> QED
    BY <1>1, <2>1, <2>2, <2>3, <2>4, <2>5 DEF InStep
<1>8. RunsOnce'
  BY <1>1 DEF Inv, Children, RunsOnce
<1>9. Operating' /\ Reported' /\ Children'
  BY <1>1, <1>5, <1>7, <1>8, ServerStep
<1> QED
  BY <1>1, <1>9, FaultCounted DEF Inv, Die

-----------------------------------------------------------------------------
(* The theorems.                                                           *)

LEMMA InitInv ==
  ASSUME Init
  PROVE  Inv
<1>1. Operating
  BY IdleTyped DEF Init, Operating, Idle, Stages, Busy, Asking, Pages, Tries, Sweeping, Visited, Routes, Sweep, Discovery
<1>2. Reported
  BY IdleTyped DEF Init, NoResult, Reported, RetriesHealOnce, OneFaultIsHealed, RetriesBounded,
                   DiscoveryIsExact, RoutesMatchDiscovery, OfferedOnce, Discovery
<1>3. Children
  BY EmptySeq DEF Init, Idle, NoResult, Children, InStep, Asking, RunsOnce, Stopping, ShutdownStopsAll
<1>4. Counters
  BY BoundsAssumption DEF Init, Counters
<1> QED
  BY <1>1, <1>2, <1>3, <1>4 DEF Inv

LEMMA NextInv ==
  ASSUME Inv, [Next]_vars
  PROVE  Inv'
<1>1. CASE UNCHANGED vars
  <2>1. Operating' /\ Reported'
    BY <1>1 DEF vars, Inv, Operating, Stages, Pages, Tries, Sweeping, Visited, Routes, ToDo,
                Reported, RetriesHealOnce, OneFaultIsHealed, RetriesBounded,
                DiscoveryIsExact, RoutesMatchDiscovery, OfferedOnce
  <2>2. Children'
    BY <1>1 DEF vars, Inv, Children, InStep, Quiet, Asked, Told, True, Waiting, RunsOnce,
                Stopping, ToDo, ShutdownStopsAll
  <2> QED
    BY <1>1, <2>1, <2>2 DEF vars, Inv, Counters
<1>2. CASE BeginSweep
  BY <1>2, BeginSweepInv
<1>3. CASE BeginResource \/ BeginCall
  BY <1>3, BeginOneInv
<1>4. CASE UnknownTool
  BY <1>4, UnknownToolInv
<1>5. CASE NextServer
  BY <1>5, EntersInv, EndsSweepInv
<1>6. CASE EnsureReady
  BY <1>6, EnsureReadyInv
<1>7. CASE Request
  BY <1>7, RequestInv
<1>8. CASE BrokenPipe \/ EndOfFile \/ TimeOut
  BY <1>8, FailingInv
<1>9. CASE Answer
  BY <1>9, AnswerInv
<1>10. CASE Shutdown
  BY <1>10, ShutdownInv
<1>11. CASE Build
  BY <1>11, BuildInv
<1>12. CASE \E s \in Server : Serve(s) \/ Notify(s) \/ Die(s)
  BY <1>12, ServeInv, NotifyInv, DieInv
<1> QED
  BY <1>1, <1>2, <1>3, <1>4, <1>5, <1>6, <1>7, <1>8, <1>9, <1>10, <1>11, <1>12 DEF Next

LEMMA InvAgrees ==
  ASSUME Inv
  PROVE  TypeOK /\ ServersAgree
<1>1. TypeOK
  BY DEF Inv, Operating, Reported, Children, RunsOnce, Counters, TypeOK
<1>2. InitializedIsOfThisChild
  <2> SUFFICES ASSUME NEW s \in Server
               PROVE  /\ initialized[s] => process[s] # None /\ process[s].greeted
                      /\ process[s] # None /\ process[s].req # None /\ ~process[s].greeted =>
                           process[s].req.method = "initialize"
    BY DEF InitializedIsOfThisChild
  <2>1. InStep(s)
    BY DEF Inv, Children
  <2>2. ASSUME process[s] # None, process[s].req # None, ~process[s].greeted
        PROVE  process[s].req.method = "initialize"
    <3>1. Waiting /\ op.server = s /\ Asked(process[s]) /\ ~initialized[s]
      BY <2>1, <2>2 DEF InStep, Quiet, Told
    <3>2. op.stage = "init"
      BY <3>1 DEF Inv, Children, Waiting
    <3> QED
      BY <3>1, <3>2 DEF Asked
  <2> QED
    BY <2>1, <2>2 DEF InStep
<1>3. NoStaleAnswer
  <2> SUFFICES ASSUME NEW s \in Server, process[s] # None, NEW i \in 1 .. Len(process[s].out)
               PROVE  \/ process[s].out[i].kind = "note"
                      \/ Waiting /\ op.server = s /\ process[s].out[i].id = op.id
    BY DEF NoStaleAnswer
  <2>1. InStep(s) /\ DOMAIN process[s].out = 1 .. Len(process[s].out)
    BY LenProperties DEF Inv, Children, Process
  <2> QED
    BY <2>1 DEF InStep, Quiet, Asked, Told, True, Notes
<1> QED
  BY <1>1, <1>2, <1>3 DEF Inv, Reported, Children, ServersAgree, ChildrenInStep

\* What the manager keeps of its servers is what is there: whatever dies, answers late,
\* notifies or does not end, its flags and pipes agree with the children, a retry heals one
\* fault, a discovery offers what the servers that answered list, and a shutdown is complete.
THEOREM ServersCorrect == Spec => [](TypeOK /\ ServersAgree)
<1>1. Init => Inv
  BY InitInv
<1>2. Inv /\ [Next]_vars => Inv'
  BY NextInv
<1>3. Inv => TypeOK /\ ServersAgree
  BY InvAgrees
<1> QED
  BY <1>1, <1>2, <1>3, PTL DEF Spec

-----------------------------------------------------------------------------
(* The caller's view of a tool call.  A step begins an operation, ends it, *)
(* is a step in it, or lets a server run the tool.                         *)
Calls == INSTANCE McpCalls WITH calling <- Calling, ran <- Len(ran), answer <- Returned

Begun == op.stage = "idle" /\ op'.stage # "idle" /\ last' = NoResult /\ ran' = <<>>

Ended ==
  /\ op.stage # "idle" /\ op' = Idle /\ last'.kind = op.kind /\ UNCHANGED ran
  /\ op.kind = "call" /\ last'.result = "ok" => ran # <<>>

Continued == op.stage # "idle" /\ op'.stage # "idle" /\ op'.kind = op.kind /\ UNCHANGED <<last, ran>>

Served ==
  /\ UNCHANGED <<op, last>>
  /\ ran' = ran \/ (op.kind = "call" /\ ran = <<>> /\ Len(ran') = 1)

\* A failure of a request is no success of the call.
LEMMA FailedEnds ==
  ASSUME Operating, op.stage \in Busy, NEW f, NEW e, e # "ok", Failed([op EXCEPT !.faults = f], e), UNCHANGED ran
  PROVE  Ended \/ Continued
<1> DEFINE o == [op EXCEPT !.faults = f]
<1>1. o.kind = op.kind
  BY DEF Operating, Operation
<1>2. op.stage # "idle"
  BY DEF Busy, Asking
<1>3. CASE op.kind \in {"discoverAll", "listAll"}
  <2>1. op' = [[o EXCEPT !.failed = @ \union {o.server}] EXCEPT !.stage = "next", !.server = None] /\ UNCHANGED last
    BY <1>1, <1>3 DEF Failed, GoOn
  <2>2. op'.stage = "next" /\ op'.kind = op.kind
    BY <2>1 DEF Operating, Operation
  <2> QED
    BY <1>2, <2>1, <2>2 DEF Continued
<1>4. CASE op.kind \notin {"discoverAll", "listAll"}
  <2>1. End(o, e)
    BY <1>1, <1>4 DEF Failed
  <2>2. op' = Idle /\ last'.kind = op.kind /\ last'.result = e
    BY <1>1, <2>1 DEF End
  <2> QED
    BY <1>2, <2>2 DEF Ended
<1> QED
  BY <1>3, <1>4

LEMMA FailEnds ==
  ASSUME Operating, op.stage \in Asking, NEW e, e # "ok", Fail(e), UNCHANGED ran
  PROVE  Ended \/ Continued
<1>1. op.stage # "idle" /\ op.stage \in Busy
  BY DEF Busy, Asking
<1> DEFINE f == IF is_retryable_error(e) THEN op.faults + 1 ELSE op.faults
           o == [op EXCEPT !.faults = f]
<1>2. o = [op EXCEPT !.faults = IF is_retryable_error(e) THEN @ + 1 ELSE @]
  BY DEF Operating, Operation
<1>3. CASE op' = [o EXCEPT !.stage = "enter", !.inits = 1] /\ UNCHANGED <<last, toolIndex>>
  BY <1>1, <1>3 DEF Operating, Operation, Continued
<1>4. CASE op' = Again(o) /\ UNCHANGED <<last, toolIndex>>
  BY <1>1, <1>4 DEF Operating, Operation, Continued, Again
<1>5. CASE Failed(o, e)
  BY <1>1, <1>5, FailedEnds
<1> QED
  BY <1>2, <1>3, <1>4, <1>5 DEF Fail

\* A success of a call is an answer of the server that ran its tool.
LEMMA AnswerEnds ==
  ASSUME Inv, Answer
  PROVE  Ended \/ Continued
<1> DEFINE a == Head(process[op.server].out)
<1>1. /\ Operating /\ Waiting /\ process[op.server].out # <<>> /\ op.stage \in Asking /\ op.stage \in Busy
      /\ op.stage # "idle" /\ UNCHANGED ran
  BY DEF Inv, Answer, Waiting, Asking, Busy
<1>2. op = [op EXCEPT !.faults = op.faults]
  BY DEF Inv, Operating, Operation
<1>3. CASE ~Well(a) \/ Empty(a)
  <2>1. Fail("InvalidResponse")
    BY <1>3 DEF Answer
  <2> QED
    BY <1>1, <2>1, FailEnds
<1>4. CASE Well(a) /\ ~Empty(a) /\ Greeted(a)
  <2>1. op' = [op EXCEPT !.stage = "ask"] /\ UNCHANGED last
    BY <1>4 DEF Answer, Greeted
  <2> QED
    BY <1>1, <2>1 DEF Operating, Operation, Continued
<1>5. CASE Well(a) /\ ~Empty(a) /\ ~Greeted(a) /\ a.kind \in {"error", "empty"}
  <2>1. Failed(op, "JsonRpc") \/ Failed(op, "InvalidResponse")
    BY <1>5 DEF Answer
  <2> QED
    BY <1>1, <1>2, <2>1, FailedEnds
<1>6. CASE Well(a) /\ ~Empty(a) /\ ~Greeted(a) /\ a.kind \notin {"error", "empty"}
  <2>1. IF a.more
        THEN /\ op' = [op EXCEPT !.stage = "ask", !.tools = @ \o a.items, !.cursor = @ + Len(a.items)]
             /\ UNCHANGED last
        ELSE Succeeded([op EXCEPT !.tools = @ \o a.items])
    BY <1>6 DEF Answer
  <2>2. a.kind = "ok" /\ op.stage = "wait" /\ True(process[op.server].greeted, a)
    BY <1>1, <1>6, TakenIsQuiet DEF Messages, Well, Greeted, Waiting
  <2>3. op.kind = "call" => ran # <<>>
    BY <2>2 DEF True
  <2>4. CASE a.more
    <3>1. /\ op' = [op EXCEPT !.stage = "ask", !.tools = @ \o a.items, !.cursor = @ + Len(a.items)]
          /\ UNCHANGED last
      BY <2>1, <2>4
    <3>2. op'.stage = "ask" /\ op'.kind = op.kind
      BY <1>1, <3>1 DEF Operating, Operation
    <3> QED
      BY <1>1, <3>1, <3>2 DEF Continued
  <2>5. CASE ~a.more
    <3> DEFINE o == [op EXCEPT !.tools = @ \o a.items]
    <3>1. Succeeded(o) /\ o.kind = op.kind
      BY <1>1, <2>1, <2>5 DEF Operating, Operation
    <3>2. CASE op.kind \in Discovery
      <4>1. GoOn([o EXCEPT !.working = @ \union {o.server}, !.offered = @ \o o.tools])
        BY <3>1, <3>2, SucceededCases
      <4> QED
        BY <1>1, <4>1 DEF GoOn, Operating, Operation, Continued
    <3>3. CASE op.kind = "listAll"
      <4>1. GoOn([o EXCEPT !.working = @ \union {o.server}])
        BY <3>1, <3>3, SucceededCases
      <4> QED
        BY <1>1, <4>1 DEF GoOn, Operating, Operation, Continued
    <3>4. CASE op.kind \notin Discovery \union {"listAll"}
      <4>1. End(o, "ok")
        BY <3>1, <3>4, SucceededCases
      <4> QED
        BY <1>1, <2>3, <3>1, <4>1 DEF End, Ended
    <3> QED
      BY <3>2, <3>3, <3>4
  <2> QED
    BY <2>4, <2>5
<1> QED
  BY <1>3, <1>4, <1>5, <1>6

LEMMA CallSteps ==
  ASSUME Inv, Next
  PROVE  Begun \/ Ended \/ Continued \/ Served
<1>1. Operating /\ op \in Operation
  BY DEF Inv, Operating
<1>2. CASE BeginSweep
  BY <1>2 DEF BeginSweep, Begin, Begun, Idle
<1>3. CASE BeginResource
  BY <1>3 DEF BeginResource, Begin, Begun, Idle
<1>4. CASE BeginCall
  BY <1>4 DEF BeginCall, Begin, Begun, Idle
<1>5. CASE UnknownTool
  BY <1>5 DEF UnknownTool, End, Ended
<1>6. CASE NextServer
  <2>1. op.stage = "next" /\ op.kind # "call" /\ UNCHANGED ran
    BY <1>1, <1>6 DEF NextServer, Operating, Stages, Sweep
  <2>2. CASE op.todo # <<>>
    <3>1. op' = Entering(0, 0) /\ UNCHANGED last
      BY <1>6, <2>2 DEF NextServer, Entering
    <3>2. op'.stage # "idle" /\ op'.kind = op.kind
      BY <1>1, <3>1 DEF Entering, Operation
    <3> QED
      BY <2>1, <3>1, <3>2 DEF Continued
  <2>3. CASE op.todo = <<>>
    <3>1. op' = Idle /\ last'.kind = op.kind
      BY <1>6, <2>3 DEF NextServer, End
    <3> QED
      BY <2>1, <3>1 DEF Ended
  <2> QED
    BY <2>2, <2>3
<1>7. CASE EnsureReady
  <2>1. op.stage = "enter" /\ op.stage \in Busy /\ UNCHANGED ran
    BY <1>7 DEF EnsureReady, Busy
  <2>2. CASE Failed(op, "Io")
    <3>1. op = [op EXCEPT !.faults = op.faults]
      BY <1>1 DEF Operation
    <3> QED
      BY <1>1, <2>1, <2>2, <3>1, FailedEnds
  <2>3. CASE ~Failed(op, "Io")
    <3>1. UNCHANGED last /\ (op' = [op EXCEPT !.stage = "ask"] \/ op' = [op EXCEPT !.stage = "init", !.id = nextId])
      BY <1>7, <2>3 DEF EnsureReady
    <3> QED
      BY <1>1, <2>1, <3>1 DEF Continued, Operation
  <2> QED
    BY <2>2, <2>3
<1>8. CASE Request
  BY <1>1, <1>8 DEF Request, Continued, Operation
<1>9. CASE BrokenPipe \/ EndOfFile \/ TimeOut
  BY <1>1, <1>9, FailEnds DEF BrokenPipe, EndOfFile, TimeOut, Waiting, Asking
<1>10. CASE Answer
  BY <1>10, AnswerEnds
<1>11. CASE Shutdown
  <2>1. op.stage = "stop" /\ op.kind # "call" /\ UNCHANGED ran
    BY <1>1, <1>11 DEF Shutdown, Operating, Stages
  <2>2. CASE GoOn(op)
    <3>1. op'.stage # "idle" /\ op'.kind = op.kind /\ UNCHANGED last
      BY <1>1, <2>2 DEF GoOn, Operation
    <3> QED
      BY <2>1, <3>1 DEF Continued
  <2>3. CASE End(op, "Io")
    <3>1. op' = Idle /\ last'.kind = op.kind
      BY <2>3 DEF End
    <3> QED
      BY <2>1, <3>1 DEF Ended
  <2> QED
    BY <1>11, <2>2, <2>3 DEF Shutdown
<1>12. CASE Build
  BY <1>12 DEF Build, Served
<1>13. ASSUME NEW s \in Server, Serve(s) PROVE Served
  <2>1. process[s] \in Process /\ process[s] # None /\ process[s].req # None /\ UNCHANGED <<op, last>>
    BY <1>13 DEF Serve, Inv, Children
  <2>2. Waiting /\ op.server = s /\ Asked(process[s])
    BY <2>1 DEF Inv, Children, InStep, Quiet, Told
  <2>3. process[s].req.method = "tools/call" => op.kind = "call"
    BY <2>2 DEF Asked, MethodOf, Waiting, Discovery
  <2>4. ran' = ran \/ (process[s].req.method = "tools/call" /\ ran' = Append(ran, s))
    BY <1>13 DEF Serve
  <2>5. ran \in Seq(Server) /\ (op.kind = "call" => ran = <<>>)
    BY <2>2 DEF Asked, Inv, Children, RunsOnce
  <2>6. ran = <<>> => Len(Append(ran, s)) = 1
    <3> DEFINE n == Len(ran)
               k == Len(Append(ran, s))
    <3>1. k = n + 1 /\ (ran = <<>> => n = 0)
      BY <2>5, AppendProperties, EmptySeq
    <3> HIDE DEF n, k
    <3>2. ran = <<>> => k = 1
      BY <3>1
    <3> QED
      BY <3>2 DEF k
  <2>7. CASE ran' = ran
    BY <2>1, <2>7 DEF Served
  <2>8. CASE process[s].req.method = "tools/call" /\ ran' = Append(ran, s)
    BY <2>1, <2>3, <2>5, <2>6, <2>8, Zenon DEF Served
  <2> QED
    BY <2>4, <2>7, <2>8
<1>14. CASE \E s \in Server : Notify(s) \/ Die(s)
  BY <1>14 DEF Notify, Die, Served
<1> QED
  BY <1>2, <1>3, <1>4, <1>5, <1>6, <1>7, <1>8, <1>9, <1>10, <1>11, <1>12, <1>13, <1>14 DEF Next

\* While an operation is in progress there is no report of a call.
CallInv == Inv /\ (op.stage # "idle" => last.kind # "call")

LEMMA CallInvKept ==
  ASSUME CallInv, [Next]_vars
  PROVE  CallInv'
<1>1. Inv'
  BY NextInv DEF CallInv
<1>2. CASE Next
  <2>1. op'.stage # "idle" => last'.kind # "call"
    BY <1>2, CallSteps DEF CallInv, Begun, Ended, Continued, Served, NoResult, Idle
  <2> QED
    BY <1>1, <2>1 DEF CallInv
<1>3. CASE UNCHANGED vars
  BY <1>1, <1>3 DEF CallInv, vars
<1> QED
  BY <1>1, <1>2, <1>3 DEF CallInv

LEMMA CallsStep ==
  ASSUME CallInv, [Next]_vars
  PROVE  [Calls!Next]_(Calls!vars)
<1>1. /\ ran \in Seq(Server) /\ Len(ran) \in 0..1 /\ (ran # <<>> => Len(ran) = 1) /\ Len(<<>>) = 0
      /\ op.stage = "idle" => op.kind = "none"
  <2>1. ran \in Seq(Server) /\ Len(ran) <= 1
    BY DEF CallInv, Inv, Children, RunsOnce
  <2>2. Len(ran) \in Nat /\ (ran # <<>> => Len(ran) # 0) /\ Len(<<>>) = 0
    BY <2>1, LenProperties, EmptySeq
  <2>3. op.stage = "idle" => op.kind = "none"
    BY DEF CallInv, Inv, Operating, Stages, Idle
  <2> DEFINE n == Len(ran)
  <2>4. n \in Nat /\ n <= 1
    BY <2>1, <2>2
  <2> HIDE DEF n
  <2>5. n \in 0..1 /\ (n # 0 => n = 1)
    BY <2>4
  <2> QED
    BY <2>1, <2>2, <2>3, <2>5 DEF n
<1>2. CASE UNCHANGED vars
  BY <1>2 DEF vars, Calls!vars, Calling, Returned
<1>3. CASE Begun
  <2>1. ~Calling /\ Len(ran') = 0 /\ Returned' = "none"
    BY <1>1, <1>3 DEF Begun, Calling, Returned, NoResult
  <2> QED
    BY <2>1 DEF Calls!Next, Calls!Ask, Calls!Forget, Calling
<1>4. CASE Ended
  <2>1. ~Calling' /\ Len(ran') = Len(ran)
    BY <1>4 DEF Ended, Calling, Idle
  <2>2. CASE op.kind = "call"
    <3>1. Returned' = "error" \/ (Returned' = "ok" /\ Len(ran) = 1)
      BY <1>1, <1>4, <2>1, <2>2 DEF Ended, Returned
    <3> QED
      BY <2>1, <2>2, <3>1 DEF Calls!Next, Calls!Return, Calling
  <2>3. CASE op.kind # "call"
    <3>1. Returned = "none" /\ Returned' = "none"
      BY <1>4, <2>3 DEF Ended, Returned, CallInv
    <3> QED
      BY <2>1, <2>3, <3>1 DEF Calls!vars, Calling
  <2> QED
    BY <2>2, <2>3
<1>5. CASE Continued
  BY <1>5 DEF Continued, Calls!vars, Calling, Returned
<1>6. CASE Served
  <2>1. Calling' = Calling /\ Returned' = Returned
    BY <1>6 DEF Served, Calling, Returned
  <2>2. CASE ran' = ran
    BY <2>1, <2>2 DEF Calls!vars
  <2>3. CASE op.kind = "call" /\ ran = <<>> /\ Len(ran') = 1
    BY <1>1, <2>1, <2>3 DEF Calls!Next, Calls!Run, Calling
  <2> QED
    BY <1>6, <2>2, <2>3 DEF Served
<1> QED
  BY <1>2, <1>3, <1>4, <1>5, <1>6, CallSteps DEF CallInv

LEMMA CallsBegin == Init => CallInv /\ Calls!Init
<1> SUFFICES ASSUME Init PROVE CallInv /\ Calls!Init
  OBVIOUS
<1>1. Inv
  BY InitInv
<1>2. Calls!Init
  BY EmptySeq DEF Init, Calls!Init, Calling, Returned, Idle, NoResult
<1> QED
  BY <1>1, <1>2 DEF Init, CallInv, NoResult

\* Whatever the servers do and whatever is retried, a tool runs at most once for a call
\* and only while the caller waits, and a call that reports success did run it.
THEOREM CallsImplemented == Spec => Calls!Safety
BY CallsBegin, CallInvKept, CallsStep, PTL DEF Spec, Calls!Safety
===============================================================================
