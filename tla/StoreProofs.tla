----------------------------- MODULE StoreProofs ------------------------------
(***************************************************************************)
(* The promises of the components of Program about what several programs   *)
(* keep in files: the saved logins, the installed plugins, the session     *)
(* files and the settings, for every value of their constants.  As in      *)
(* ProgramProofs, the part never changes.                                  *)
(***************************************************************************)
EXTENDS Program, SequenceTheorems, FiniteSetTheorems, TLAPS

-----------------------------------------------------------------------------
(* The saved logins.                                                       *)

\* Everything that is not a token, and what it holds.
LEMMA LoginTypes ==
  ASSUME x4 \in Nat
  PROVE  /\ Logins!NoToken \in Logins!Tokens /\ Logins!Idle \in Logins!Operations
         /\ \A token \in Logins!Tokens, other \in BOOLEAN : Logins!Object(token, other) \in Logins!Contents
         /\ Logins!Absent \in Logins!Contents /\ Logins!Empty \in Logins!Contents /\ Logins!Garbled \in Logins!Contents
         /\ Logins!Empty.token = Logins!NoToken /\ Logins!Garbled.token = Logins!NoToken
         /\ Logins!Absent.token = Logins!NoToken /\ Logins!NoToken.refresh = 0 /\ Logins!NoToken.access = 0
<1>1. Logins!NoToken \in Logins!Tokens /\ Logins!NoToken.refresh = 0 /\ Logins!NoToken.access = 0
  BY DEF Logins!NoToken, Logins!Tokens
<1>2. \A token \in Logins!Tokens, other \in BOOLEAN : Logins!Object(token, other) \in Logins!Contents
  BY DEF Logins!Object, Logins!Contents
<1>3. Logins!Absent \in Logins!Contents /\ Logins!Absent.token = Logins!NoToken
  BY <1>1 DEF Logins!Absent, Logins!Contents
<1>4. /\ Logins!Empty \in Logins!Contents /\ Logins!Garbled \in Logins!Contents
      /\ Logins!Empty.token = Logins!NoToken /\ Logins!Garbled.token = Logins!NoToken
  BY <1>1 DEF Logins!Absent, Logins!Empty, Logins!Garbled, Logins!Contents
<1>5. Logins!Idle \in Logins!Operations
  BY <1>1, <1>4 DEF Logins!Idle, Logins!Operations
<1> QED
  BY <1>1, <1>2, <1>3, <1>4, <1>5

LEMMA LoginInit == Logins!Init => Logins!Inv
<1> SUFFICES ASSUME Logins!Init PROVE Logins!Inv
  OBVIOUS
<1>1. /\ x3 = [p \in LoginPrograms |-> Logins!Idle] /\ x2 = Logins!Absent /\ x4 = 0 /\ x9 = x1 /\ x5 = {}
      /\ x1 \in Logins!Contents /\ x1.token = Logins!NoToken /\ x10 = FALSE /\ x12 = FALSE
  <2>1. x4 = 0 /\ x1 \in {Logins!Absent, Logins!Object(Logins!NoToken, TRUE)}
    BY DEF Logins!Init
  <2>2. /\ Logins!Object(Logins!NoToken, TRUE) \in Logins!Contents /\ Logins!Absent \in Logins!Contents
        /\ Logins!Absent.token = Logins!NoToken
    BY <2>1, LoginTypes
  <2>3. Logins!Object(Logins!NoToken, TRUE).token = Logins!NoToken
    BY DEF Logins!Object
  <2> QED
    BY <2>1, <2>2, <2>3, Zenon DEF Logins!Init
<1>2. Logins!Typed
  <2>1. x3 \in [LoginPrograms -> Logins!Operations] /\ x2 \in Logins!Contents
    BY <1>1, LoginTypes
  <2>2. x4 \in 0..LoginGrants /\ x7 \in 0..LoginOps /\ x8 \in 0..LoginFaults
    BY ProgramAssumption DEF Logins!Init
  <2>3. x5 = {} /\ x6 = {} /\ x10 = FALSE /\ x11 = FALSE /\ x12 = FALSE /\ x13 = {}
    BY DEF Logins!Init
  <2> QED
    BY <1>1, <2>1, <2>2, <2>3 DEF Logins!Typed
<1>3. ASSUME NEW p \in LoginPrograms
      PROVE  /\ Logins!InStep(p) /\ Logins!Alone(p) /\ Logins!OwnToken(p) /\ Logins!NewestToken(p)
             /\ x3[p].file = "none"
  BY <1>1 DEF Logins!InStep, Logins!Alone, Logins!OwnToken, Logins!NewestToken, Logins!Idle, Logins!Saving, Logins!Holds
<1>4. Logins!NewestIsKept
  BY <1>1, LoginTypes DEF Logins!NewestIsKept
<1> QED
  BY <1>1, <1>2, <1>3, <1>4 DEF Logins!Inv, Logins!FileIsThePromise, Logins!LogoutIsLast

\* A save that met no other has every other program outside of a save.
LEMMA LoginAlone ==
  ASSUME Logins!Inv, NEW p \in LoginPrograms, Logins!Saving(p), NEW q \in LoginPrograms \ {p}, Logins!Saving(q)
  PROVE  x3[q].mixed
BY DEF Logins!Inv, Logins!Alone, Logins!Typed, Logins!Operations

\* An operation that ends without its save leaves everything right, whatever is lost with it.
LEMMA LoginStops ==
  ASSUME Logins!Inv, NEW p \in LoginPrograms, NEW replaced \in BOOLEAN, Logins!Stops(p, replaced),
         UNCHANGED <<x4, x5, x6, x7, x9, x10, x12, x13>>, x8' \in 0..LoginFaults,
         \/ x1' = x1 /\ x2' = x2
         \/ /\ Logins!Saving(p) /\ x1' \in {x1, Logins!Garbled} /\ x2' \in {x2, Logins!Garbled}
            /\ x10 \/ x1' = x1
  PROVE  Logins!Inv'
<1>1. /\ x3' = [x3 EXCEPT ![p] = Logins!Idle] /\ x3 \in [LoginPrograms -> Logins!Operations] /\ x4 \in Nat
      /\ x11' = (x11 \/ replaced \/ (Logins!Holds(p) /\ x3[p].kind = "start")) /\ x11 \in BOOLEAN
  BY DEF Logins!Stops, Logins!Inv, Logins!Typed
<1>2. /\ x3'[p] = Logins!Idle /\ \A q \in LoginPrograms \ {p} : x3'[q] = x3[q]
      /\ x3' \in [LoginPrograms -> Logins!Operations] /\ x11' \in BOOLEAN /\ (x11 => x11')
  BY <1>1, LoginTypes
<1>a. /\ x1' \in Logins!Contents /\ x1'.token \in {x1.token, Logins!NoToken} /\ (x10 \/ x1' = x1)
      /\ x2' \in Logins!Contents /\ x2'.token \in {x2.token, Logins!NoToken} /\ Logins!NoToken.refresh = 0
  BY <1>1, LoginTypes DEF Logins!Inv, Logins!Typed
<1>3. Logins!Typed'
  BY <1>2, <1>a DEF Logins!Inv, Logins!Typed, Logins!Operations, Logins!Contents, Logins!Tokens
<1>4. Logins!InStep(p)' /\ Logins!Alone(p)' /\ Logins!OwnToken(p)' /\ Logins!NewestToken(p)' /\ x3'[p].file = "none"
  BY <1>2 DEF Logins!InStep, Logins!Alone, Logins!OwnToken, Logins!NewestToken, Logins!Idle, Logins!Saving, Logins!Holds
<1>5. ASSUME NEW q \in LoginPrograms \ {p}
      PROVE  Logins!InStep(q)' /\ Logins!Alone(q)' /\ Logins!OwnToken(q)' /\ Logins!NewestToken(q)'
  <2>1. /\ x3'[q] = x3[q] /\ Logins!InStep(q) /\ Logins!Alone(q) /\ Logins!OwnToken(q) /\ Logins!NewestToken(q)
    BY <1>2 DEF Logins!Inv
  <2>2. Logins!InStep(q)' /\ Logins!NewestToken(q)'
    BY <1>2, <2>1 DEF Logins!InStep, Logins!NewestToken, Logins!Saving, Logins!Holds
  <2>3. Logins!Alone(q)'
    <3>1. Logins!Saving(p)' = FALSE /\ \A r \in LoginPrograms \ {p} : Logins!Saving(r)' = Logins!Saving(r)
      BY <1>2 DEF Logins!Saving, Logins!Idle
    <3>2. Logins!Content(q)' = Logins!Content(q)
      BY <2>1 DEF Logins!Content, Logins!Kept
    <3> QED
      BY <2>1, <3>1, <3>2 DEF Logins!Alone
  <2>4. Logins!OwnToken(q)'
    BY <1>2, <1>a, <2>1 DEF Logins!OwnToken, Logins!Idle, Logins!Holds
  <2> QED
    BY <2>2, <2>3, <2>4
<1>6. Logins!NewestIsKept'
  BY <1>1, <1>2, <1>a DEF Logins!Inv, Logins!NewestIsKept, Logins!Holds
<1>7. Logins!LogoutIsLast'
  BY <1>2, <1>a DEF Logins!Inv, Logins!LogoutIsLast, Logins!Idle
<1> QED
  BY <1>2, <1>a, <1>3, <1>4, <1>5, <1>6, <1>7 DEF Logins!Inv, Logins!FileIsThePromise

\* A program that goes on outside of a save disturbs no other.
LEMMA LoginMoves ==
  ASSUME Logins!Inv, NEW p \in LoginPrograms, ~Logins!Saving(p), ~Logins!Saving(p)', Logins!Typed',
         \A q \in LoginPrograms \ {p} : x3'[q] = x3[q] /\ Logins!OwnToken(q)' /\ Logins!NewestToken(q)',
         UNCHANGED <<x1, x2, x9, x10, x12, x13>>,
         Logins!InStep(p)', Logins!OwnToken(p)', Logins!NewestToken(p)', Logins!NewestIsKept',
         x12 /\ x3'[p].kind = "start" /\ x3'[p].at # "loading" => p \in x13
  PROVE  Logins!Inv'
<1>1. Logins!Alone(p)' /\ x3'[p].file # "path"
  BY DEF Logins!Alone, Logins!InStep, Logins!Saving
<1>2. ASSUME NEW q \in LoginPrograms \ {p}
      PROVE  Logins!InStep(q)' /\ Logins!Alone(q)' /\ (~x10 => x3'[q].file # "path")
  <2>1. x3'[q] = x3[q] /\ Logins!InStep(q) /\ Logins!Alone(q) /\ (~x10 => x3[q].file # "path")
    BY DEF Logins!Inv
  <2>2. Logins!InStep(q)'
    BY <2>1 DEF Logins!InStep, Logins!Saving
  <2>3. \A r \in LoginPrograms : Logins!Saving(r)' = Logins!Saving(r)
    BY DEF Logins!Saving
  <2>4. Logins!Saving(q)' = Logins!Saving(q) /\ Logins!Content(q)' = Logins!Content(q)
    BY <2>1 DEF Logins!Saving, Logins!Content, Logins!Kept
  <2>5. Logins!Alone(q)'
    BY <2>1, <2>3, <2>4 DEF Logins!Alone
  <2> QED
    BY <2>1, <2>2, <2>5
<1>3. Logins!LogoutIsLast'
  BY DEF Logins!Inv, Logins!LogoutIsLast
<1>4. \A q \in LoginPrograms :
        /\ Logins!InStep(q)' /\ Logins!Alone(q)' /\ Logins!OwnToken(q)' /\ Logins!NewestToken(q)'
        /\ ~x10' => x3'[q].file # "path"
  BY <1>1, <1>2
<1> QED
  BY <1>3, <1>4 DEF Logins!Inv, Logins!FileIsThePromise

LEMMA LoginBegin == ASSUME Logins!Inv, NEW p \in LoginPrograms, Logins!Begin(p) PROVE Logins!Inv'
<1>1. /\ x3 \in [LoginPrograms -> Logins!Operations] /\ x4 \in Nat /\ x7' \in 0..LoginOps
      /\ UNCHANGED <<x1, x2, x4, x5, x6, x8, x9, x10, x11, x12, x13>>
  BY ProgramAssumption DEF Logins!Inv, Logins!Typed, Logins!Begin, Logins!Files, Logins!Provider, Logins!Histories
<1>2. PICK kind \in {"login", "logout", "start"}, at \in {"waiting", "saving", "loading"} :
        /\ x3' = [x3 EXCEPT ![p].kind = kind, ![p].at = at]
        /\ kind = "login" => at = "waiting"
        /\ kind = "logout" => at = "saving"
        /\ kind = "start" => at = "loading"
  BY DEF Logins!Begin
<1>3. /\ x3' \in [LoginPrograms -> Logins!Operations] /\ \A q \in LoginPrograms \ {p} : x3'[q] = x3[q]
      /\ x3'[p].kind = kind /\ x3'[p].at = at /\ x3'[p].token = Logins!NoToken /\ x3'[p].file = "none"
      /\ x3'[p].mixed = FALSE /\ ~Logins!Holds(p)
  BY <1>1, <1>2 DEF Logins!Begin, Logins!Idle, Logins!Operations, Logins!Holds
<1>4. Logins!Typed'
  BY <1>1, <1>3 DEF Logins!Inv, Logins!Typed, Logins!Operations, Logins!Contents, Logins!Tokens
<1>5. /\ Logins!InStep(p)' /\ Logins!OwnToken(p)' /\ Logins!NewestToken(p)' /\ ~Logins!Saving(p)'
      /\ ~Logins!Saving(p) /\ ~(x3'[p].kind = "start" /\ x3'[p].at # "loading")
  BY <1>2, <1>3 DEF Logins!InStep, Logins!OwnToken, Logins!NewestToken, Logins!Saving, Logins!Holds, Logins!Begin, Logins!Idle
<1>6. ASSUME NEW q \in LoginPrograms \ {p} PROVE Logins!OwnToken(q)' /\ Logins!NewestToken(q)'
  BY <1>1, <1>3, LoginTypes DEF Logins!Inv, Logins!OwnToken, Logins!NewestToken, Logins!Holds
<1>7. Logins!NewestIsKept'
  BY <1>1, <1>3 DEF Logins!Inv, Logins!NewestIsKept, Logins!Holds
<1> QED
  BY <1>1, <1>3, <1>4, <1>5, <1>6, <1>7, LoginMoves

\* A program that goes on with a token.
LEMMA LoginGoes ==
  ASSUME x3 \in [LoginPrograms -> Logins!Operations], NEW p \in LoginPrograms,
         NEW at \in {"refreshing", "saving"}, NEW token, token \in Logins!Tokens',
         Logins!Operations \subseteq Logins!Operations', x3[p].file = "none", ~x3[p].mixed,
         x3' = [x3 EXCEPT ![p].at = at, ![p].token = token]
  PROVE  /\ x3' \in [LoginPrograms -> Logins!Operations'] /\ \A q \in LoginPrograms \ {p} : x3'[q] = x3[q]
         /\ x3'[p].kind = x3[p].kind /\ x3'[p].at = at /\ x3'[p].token = token
         /\ x3'[p].file = "none" /\ x3'[p].mixed = FALSE
<1> DEFINE o == [x3[p] EXCEPT !.at = at]
           n == [o EXCEPT !.token = token]
<1>1. x3[p] \in Logins!Operations' /\ x3[p].mixed \in BOOLEAN
  BY DEF Logins!Operations
<1>2. o \in Logins!Operations' /\ o.kind = x3[p].kind /\ o.at = at /\ o.file = "none" /\ o.mixed = FALSE
  BY <1>1 DEF Logins!Operations
<1>3. /\ n \in Logins!Operations' /\ n.kind = x3[p].kind /\ n.at = at /\ n.token = token /\ n.file = "none"
      /\ n.mixed = FALSE
  BY <1>2 DEF Logins!Operations
<1>4. x3' = [x3 EXCEPT ![p] = n]
  OBVIOUS
<1> HIDE DEF o, n
<1> QED
  BY <1>3, <1>4, ZenonT(40)

LEMMA LoginLoad == ASSUME Logins!Inv, NEW p \in LoginPrograms, Logins!Load(p) PROVE Logins!Inv'
<1>1. /\ x3 \in [LoginPrograms -> Logins!Operations] /\ x4 \in Nat /\ x3[p].at = "loading" /\ x3[p].kind = "start"
      /\ UNCHANGED <<x1, x2, x4, x5, x6, x7, x8, x9, x10, x11, x12, x13>> /\ x8 \in 0..LoginFaults
      /\ x1 \in Logins!Contents /\ x3[p].file = "none" /\ ~x3[p].mixed
  BY DEF Logins!Inv, Logins!Typed, Logins!Load, Logins!Files, Logins!Provider, Logins!Histories, Logins!InStep, Logins!Saving
<1>2. CASE x3' = [x3 EXCEPT ![p] = Logins!Idle]
  <2>1. Logins!Stops(p, FALSE)
    BY <1>1, <1>2 DEF Logins!Stops, Logins!Holds, Logins!Inv, Logins!Typed
  <2> QED
    BY <1>1, <2>1, LoginStops
<1>3. CASE /\ x1.token.access \in x6 /\ x1.token.refresh # 0
           /\ x3' = [x3 EXCEPT ![p].at = "refreshing", ![p].token = x1.token]
  <2>1. /\ x3' \in [LoginPrograms -> Logins!Operations] /\ \A q \in LoginPrograms \ {p} : x3'[q] = x3[q]
        /\ x3'[p].kind = "start" /\ x3'[p].at = "refreshing" /\ x3'[p].token = x1.token /\ x3'[p].file = "none"
        /\ x3'[p].mixed = FALSE
    <3>1. x1.token \in Logins!Tokens' /\ Logins!Operations = Logins!Operations'
      BY <1>1 DEF Logins!Operations, Logins!Contents, Logins!Tokens
    <3> QED
      BY <1>1, <1>3, <3>1, LoginGoes
  <2>2. Logins!Typed'
    BY <1>1, <2>1 DEF Logins!Inv, Logins!Typed, Logins!Operations, Logins!Contents, Logins!Tokens
  <2>3. /\ Logins!InStep(p)' /\ Logins!OwnToken(p)' /\ Logins!NewestToken(p)' /\ ~Logins!Saving(p)'
        /\ ~Logins!Saving(p)
    BY <1>1, <1>3, <2>1 DEF Logins!InStep, Logins!OwnToken, Logins!NewestToken, Logins!Saving, Logins!Holds
  <2>4. x1.token # Logins!NoToken
    BY <1>1, <1>3, LoginTypes
  <2>5. ~x12
    BY <2>4 DEF Logins!Inv, Logins!LogoutIsLast
  <2>6. ASSUME NEW q \in LoginPrograms \ {p} PROVE Logins!OwnToken(q)' /\ Logins!NewestToken(q)'
    BY <1>1, <2>1, LoginTypes DEF Logins!Inv, Logins!OwnToken, Logins!NewestToken, Logins!Holds
  <2>7. Logins!NewestIsKept'
    BY <1>1, <2>1 DEF Logins!Inv, Logins!NewestIsKept, Logins!Holds
  <2> QED
    BY <1>1, <2>1, <2>2, <2>3, <2>5, <2>6, <2>7, LoginMoves
<1> QED
  BY <1>2, <1>3 DEF Logins!Load

\* A new token is not one that any program, or file, has.
LEMMA LoginIssued ==
  ASSUME Logins!Inv
  PROVE  /\ x4 \in Nat /\ x5 \subseteq 1..x4 /\ x1.token.refresh \in 0..x4 /\ x2.token.refresh \in 0..x4
         /\ \A q \in LoginPrograms : x3[q].token.refresh \in 0..x4
BY ProgramAssumption DEF Logins!Inv, Logins!Typed, Logins!Operations, Logins!Contents, Logins!Tokens

\* What was typed stays so when a token is issued.
LEMMA LoginGrows ==
  ASSUME Logins!Typed, x4' \in {x4, x4 + 1}, x4' \in 0..LoginGrants
  PROVE  /\ Logins!Tokens \subseteq Logins!Tokens' /\ Logins!Contents \subseteq Logins!Contents'
         /\ Logins!Operations \subseteq Logins!Operations'
<1>1. x4 \in Nat /\ 0..x4 \subseteq 0..x4'
  BY ProgramAssumption DEF Logins!Typed
<1>2. Logins!Tokens \subseteq Logins!Tokens'
  BY <1>1 DEF Logins!Tokens
<1>3. Logins!Contents \subseteq Logins!Contents'
  BY <1>2 DEF Logins!Contents
<1> QED
  BY <1>2, <1>3 DEF Logins!Operations

LEMMA LoginCallback == ASSUME Logins!Inv, NEW p \in LoginPrograms, Logins!Callback(p) PROVE Logins!Inv'
<1>1. /\ x3 \in [LoginPrograms -> Logins!Operations] /\ x3[p].at = "waiting" /\ x3[p].kind = "login"
      /\ UNCHANGED <<x1, x2, x7, x8, x9, x10, x12, x13>> /\ x8 \in 0..LoginFaults
      /\ x3[p].file = "none" /\ ~x3[p].mixed /\ Logins!Typed
  BY DEF Logins!Inv, Logins!Typed, Logins!Callback, Logins!Files, Logins!InStep, Logins!Saving
<1>2. CASE Logins!Stops(p, FALSE) /\ UNCHANGED Logins!Provider
  BY <1>1, <1>2, LoginStops DEF Logins!Provider
<1>3. ASSUME x4 < LoginGrants, x4' = x4 + 1, NEW refresh \in {0, x4'},
             x3' = [x3 EXCEPT ![p].at = "saving", ![p].token = [access |-> x4', refresh |-> refresh]],
             x5' = x5 \cup ({refresh} \ {0}), UNCHANGED <<x6, x11>>
      PROVE  Logins!Inv'
  <2> DEFINE token == [access |-> x4', refresh |-> refresh]
  <2>1. x4 \in Nat /\ x4' \in 0..LoginGrants /\ token \in Logins!Tokens'
    BY <1>3, LoginIssued, ProgramAssumption DEF Logins!Tokens
  <2>2. /\ Logins!Tokens \subseteq Logins!Tokens' /\ Logins!Contents \subseteq Logins!Contents'
        /\ Logins!Operations \subseteq Logins!Operations'
    BY <1>1, <1>3, <2>1, LoginGrows
  <2>3. /\ x3' \in [LoginPrograms -> Logins!Operations'] /\ \A q \in LoginPrograms \ {p} : x3'[q] = x3[q]
        /\ x3'[p].kind = "login" /\ x3'[p].at = "saving" /\ x3'[p].token = token
        /\ x3'[p].file = "none" /\ x3'[p].mixed = FALSE
    <3>1. PICK t : t = token
      OBVIOUS
    <3>2. x3' = [x3 EXCEPT ![p].at = "saving", ![p].token = t] /\ t \in Logins!Tokens'
      BY <1>3, <2>1, <3>1
    <3>3. /\ x3' \in [LoginPrograms -> Logins!Operations'] /\ \A q \in LoginPrograms \ {p} : x3'[q] = x3[q]
          /\ x3'[p].kind = x3[p].kind /\ x3'[p].at = "saving" /\ x3'[p].token = t
          /\ x3'[p].file = "none" /\ x3'[p].mixed = FALSE
      BY <1>1, <2>2, <3>2, LoginGoes
    <3> QED
      BY <1>1, <3>1, <3>3
  <2>4. Logins!Typed'
    <3>1. x5' \subseteq 1..x4' /\ x6' \subseteq 1..x4'
      BY <1>1, <1>3, <2>1 DEF Logins!Typed
    <3> QED
      BY <1>1, <1>3, <2>1, <2>2, <2>3, <3>1 DEF Logins!Typed
  <2>5. ~Logins!Saving(p) /\ ~Logins!Saving(p)' /\ Logins!InStep(p)' /\ Logins!NewestToken(p)'
    BY <1>1, <2>3 DEF Logins!Saving, Logins!InStep, Logins!NewestToken
  <2>6. Logins!OwnToken(p)'
    <3>1. token.refresh = refresh
      OBVIOUS
    <3>2. ASSUME refresh # 0
          PROVE  /\ refresh \in x5' /\ x1'.token.refresh # refresh /\ x2'.token.refresh # refresh
                 /\ \A q \in LoginPrograms \ {p} : x3'[q].token.refresh # refresh
      BY <1>1, <1>3, <2>3, <3>2, LoginIssued
    <3> QED
      BY <2>3, <3>1, <3>2 DEF Logins!OwnToken
  <2>7. ASSUME NEW q \in LoginPrograms \ {p} PROVE Logins!OwnToken(q)' /\ Logins!NewestToken(q)'
    <3>1. /\ x3'[q] = x3[q] /\ Logins!OwnToken(q) /\ Logins!NewestToken(q) /\ x3'[p].token.refresh \in {0, x4 + 1}
          /\ x3[q].token.refresh \in 0..x4 /\ x4 \in Nat
      BY <1>3, <2>3, LoginIssued DEF Logins!Inv
    <3>2. Logins!NewestToken(q)'
      BY <1>3, <3>1 DEF Logins!NewestToken, Logins!Holds
    <3>3. x3'[p].token.refresh # x3[q].token.refresh \/ x3[q].token.refresh = 0
      BY <3>1
    <3>4. Logins!OwnToken(q)'
      BY <1>1, <1>3, <2>3, <3>1, <3>3, LoginTypes DEF Logins!OwnToken, Logins!Holds
    <3> QED
      BY <3>2, <3>4
  <2>8. Logins!NewestIsKept'
    BY <1>1, <1>3, <2>3 DEF Logins!Inv, Logins!NewestIsKept, Logins!Holds
  <2> QED
    BY <1>1, <2>3, <2>4, <2>5, <2>6, <2>7, <2>8, LoginMoves
<1> QED
  BY <1>1, <1>2, <1>3 DEF Logins!Callback

LEMMA LoginRefresh == ASSUME Logins!Inv, NEW p \in LoginPrograms, Logins!Refresh(p) PROVE Logins!Inv'
<1> DEFINE old == x3[p].token.refresh
<1>1. /\ x3 \in [LoginPrograms -> Logins!Operations] /\ x3[p].at = "refreshing" /\ x3[p].kind = "start"
      /\ UNCHANGED <<x1, x2, x7, x9, x10, x12, x13>> /\ x8 \in 0..LoginFaults
      /\ x3[p].file = "none" /\ ~x3[p].mixed /\ Logins!Typed /\ x11 \in BOOLEAN /\ Logins!Idle \in Logins!Operations
      /\ old \in 1..x4 /\ x4 \in Nat /\ ~Logins!Holds(p) /\ ~Logins!Saving(p)
  <2>1. /\ x3 \in [LoginPrograms -> Logins!Operations] /\ x3[p].at = "refreshing" /\ x3[p].kind = "start"
        /\ UNCHANGED <<x1, x2, x7, x9, x10, x12, x13>> /\ x8 \in 0..LoginFaults
        /\ x3[p].file = "none" /\ ~x3[p].mixed /\ Logins!Typed /\ x11 \in BOOLEAN /\ old # 0
    BY DEF Logins!Inv, Logins!Typed, Logins!Refresh, Logins!Files, Logins!InStep, Logins!Saving
  <2> QED
    BY <2>1, LoginIssued, LoginTypes DEF Logins!Holds, Logins!Saving
<1>2. CASE Logins!Stops(p, FALSE) /\ UNCHANGED <<Logins!Provider, x8>>
  BY <1>1, <1>2, LoginStops DEF Logins!Provider
<1>3. ASSUME old \in x5, x4 < LoginGrants, x4' = x4 + 1, NEW replaced \in BOOLEAN,
             x5' = IF replaced THEN (x5 \ {old}) \cup {x4'} ELSE x5, x6' = x6,
             \/ /\ x3' = [x3 EXCEPT ![p].at = "saving", ![p].token = Logins!Refreshed(x3[p].token, replaced)]
                /\ x11' = (x11 \/ (replaced /\ \E q \in LoginPrograms \ {p} : Logins!Holds(q) /\ x3[q].token.refresh = old))
                /\ UNCHANGED x8
             \/ Logins!Fault /\ Logins!Stops(p, replaced)
      PROVE  Logins!Inv'
  <2>1. x4' \in 0..LoginGrants /\ x5' \subseteq 1..x4' /\ x6' \subseteq 1..x4' /\ x8' \in 0..LoginFaults
    <3>1. x5 \subseteq 1..x4 /\ x6 \subseteq 1..x4
      BY <1>1 DEF Logins!Typed
    <3>2. x5' \subseteq 1..x4' /\ x6' \subseteq 1..x4'
      BY <1>1, <1>3, <3>1
    <3>3. x4' \in 0..LoginGrants /\ x8' \in 0..LoginFaults
      BY <1>1, <1>3, ProgramAssumption DEF Logins!Fault
    <3> QED
      BY <3>2, <3>3
  <2>2. /\ Logins!Tokens \subseteq Logins!Tokens' /\ Logins!Contents \subseteq Logins!Contents'
        /\ Logins!Operations \subseteq Logins!Operations'
    BY <1>1, <1>3, <2>1, LoginGrows
  <2>3. /\ x3' \in [LoginPrograms -> Logins!Operations'] /\ \A q \in LoginPrograms \ {p} : x3'[q] = x3[q]
        /\ x3'[p].token.refresh \in {0, old, x4'} /\ x3'[p].mixed = FALSE /\ x3'[p].file = "none"
        /\ x11' \in BOOLEAN /\ (x11 => x11')
        /\ \A q \in LoginPrograms \ {p} : replaced /\ Logins!Holds(q) /\ x3[q].token.refresh = old => x11'
        /\ \/ /\ x3'[p].kind = "start" /\ x3'[p].at = "saving" /\ x3'[p].token # Logins!NoToken
              /\ x3'[p].token.refresh \in x5' /\ x3'[p].token.refresh # 0
           \/ x3'[p] = Logins!Idle /\ (replaced => x11')
    <3>1. CASE /\ x3' = [x3 EXCEPT ![p].at = "saving", ![p].token = Logins!Refreshed(x3[p].token, replaced)]
               /\ x11' = (x11 \/ (replaced /\ \E q \in LoginPrograms \ {p} : Logins!Holds(q) /\ x3[q].token.refresh = old))
      <4>0. PICK token : token = Logins!Refreshed(x3[p].token, replaced)
        OBVIOUS
      <4>1. /\ token \in Logins!Tokens' /\ token.access = x4 + 1
            /\ token.refresh = IF replaced THEN x4 + 1 ELSE old
        BY <1>1, <1>3, <4>0 DEF Logins!Refreshed, Logins!Tokens, Logins!Operations
      <4>2. token # Logins!NoToken /\ token.refresh \in {old, x4'} /\ token.refresh # 0 /\ token.refresh \in x5'
        BY <1>1, <1>3, <4>1, LoginTypes
      <4>3. x3' = [x3 EXCEPT ![p].at = "saving", ![p].token = token]
        BY <3>1, <4>0
      <4>4. /\ x3' \in [LoginPrograms -> Logins!Operations'] /\ \A q \in LoginPrograms \ {p} : x3'[q] = x3[q]
            /\ x3'[p].kind = x3[p].kind /\ x3'[p].at = "saving" /\ x3'[p].token = token
            /\ x3'[p].file = "none" /\ x3'[p].mixed = FALSE
        BY <1>1, <2>2, <4>1, <4>3, LoginGoes
      <4>5. /\ x11' \in BOOLEAN /\ (x11 => x11')
            /\ \A q \in LoginPrograms \ {p} : replaced /\ Logins!Holds(q) /\ x3[q].token.refresh = old => x11'
        BY <1>1, <3>1
      <4> QED
        BY <1>1, <4>2, <4>4, <4>5
    <3>2. CASE Logins!Stops(p, replaced)
      BY <1>1, <2>2, <3>2, LoginTypes DEF Logins!Stops, Logins!Idle
    <3> QED
      BY <1>3, <3>1, <3>2
  <2>4. Logins!Typed'
    BY <1>1, <2>1, <2>2, <2>3 DEF Logins!Typed
  <2>5. ~Logins!Saving(p)' /\ Logins!InStep(p)' /\ Logins!NewestToken(p)' /\ Logins!OwnToken(p)'
    BY <1>1, <2>3 DEF Logins!Saving, Logins!InStep, Logins!NewestToken, Logins!OwnToken, Logins!Idle
  <2>6. ASSUME NEW q \in LoginPrograms \ {p} PROVE Logins!OwnToken(q)' /\ Logins!NewestToken(q)'
    <3>1. /\ x3'[q] = x3[q] /\ Logins!OwnToken(q) /\ Logins!NewestToken(q) /\ x3[q].token.refresh \in 0..x4
          /\ Logins!Holds(q)' = Logins!Holds(q)
      BY <2>3, LoginIssued DEF Logins!Inv, Logins!Holds
    <3>2. \A r \in x5 : r # old => r \in x5'
      BY <1>3
    <3>3. Logins!NewestToken(q)'
      BY <1>3, <2>3, <3>1, <3>2 DEF Logins!NewestToken
    <3>4. Logins!OwnToken(q)'
      BY <1>1, <1>3, <2>3, <3>1, <3>2 DEF Logins!OwnToken
    <3> QED
      BY <3>3, <3>4
  <2>7. Logins!NewestIsKept'
    <3>1. CASE x3'[p].kind = "start" /\ x3'[p].at = "saving" /\ x3'[p].token # Logins!NoToken
      BY <3>1 DEF Logins!NewestIsKept, Logins!Holds
    <3>2. CASE x3'[p] = Logins!Idle /\ (replaced => x11')
      BY <1>1, <1>3, <2>3, <3>2 DEF Logins!Inv, Logins!NewestIsKept, Logins!Holds
    <3> QED
      BY <2>3, <3>1, <3>2
  <2>8. x12 => p \in x13
    BY <1>1 DEF Logins!Inv, Logins!LogoutIsLast
  <2> QED
    BY <1>1, <2>3, <2>4, <2>5, <2>6, <2>7, <2>8, LoginMoves
<1> QED
  BY <1>1, <1>2, <1>3 DEF Logins!Refresh

\* A step of a save keeps what is true of the tokens.
LEMMA LoginSaves ==
  ASSUME Logins!Inv, NEW p \in LoginPrograms,
         \A q \in LoginPrograms : /\ x3'[q].token = x3[q].token /\ x3'[q].kind = x3[q].kind
                                  /\ x3[q].mixed => x3'[q].mixed,
         \A q \in LoginPrograms \ {p} : x3'[q].at = x3[q].at,
         x3[p].at \in {"saving", "opening", "writing"}, x3'[p].at \in {"opening", "writing", "renaming"},
         UNCHANGED <<x4, x5, x6, x10, x11, x12, x13>>,
         x1'.token \in {x1.token, Logins!NoToken, x3[p].token}, x1' = x1 \/ (x10 /\ x3[p].mixed),
         x2'.token \in {x2.token, Logins!NoToken, x3[p].token}
  PROVE  /\ \A q \in LoginPrograms : Logins!OwnToken(q)' /\ Logins!NewestToken(q)'
         /\ Logins!NewestIsKept' /\ Logins!LogoutIsLast'
<1>1. \A q \in LoginPrograms : Logins!Holds(q)' = Logins!Holds(q) /\ Logins!OwnToken(q) /\ Logins!NewestToken(q)
  BY DEF Logins!Inv, Logins!Holds
<1>2. ASSUME NEW q \in LoginPrograms PROVE Logins!OwnToken(q)'
  <2>1. x4 \in Nat /\ Logins!NoToken.refresh = 0
    BY LoginIssued, LoginTypes
  <2>2. CASE q = p
    BY <1>1, <2>1, <2>2 DEF Logins!OwnToken
  <2>3. CASE q # p
    BY <1>1, <2>1, <2>3 DEF Logins!OwnToken
  <2> QED
    BY <2>2, <2>3
<1>3. \A q \in LoginPrograms : Logins!NewestToken(q)'
  BY <1>1 DEF Logins!NewestToken
<1>4. Logins!NewestIsKept'
  BY <1>1 DEF Logins!Inv, Logins!NewestIsKept
<1>5. Logins!LogoutIsLast'
  BY DEF Logins!Inv, Logins!LogoutIsLast
<1> QED
  BY <1>2, <1>3, <1>4, <1>5

LEMMA LoginReadRoot == ASSUME Logins!Inv, NEW p \in LoginPrograms, Logins!ReadRoot(p) PROVE Logins!Inv'
<1>1. /\ x3 \in [LoginPrograms -> Logins!Operations] /\ x3[p].at = "saving" /\ x8 \in 0..LoginFaults
      /\ UNCHANGED <<x1, x2, x4, x5, x6, x7, x8, x9, x10, x12, x13>>
      /\ x1 \in Logins!Contents /\ Logins!InStep(p)
  BY DEF Logins!Inv, Logins!Typed, Logins!ReadRoot, Logins!Files, Logins!Provider
<1>2. CASE Logins!Stops(p, FALSE)
  BY <1>1, <1>2, LoginStops
<1>3. CASE /\ x3' = [q \in LoginPrograms |->
                       IF q = p THEN [x3[p] EXCEPT !.at = "opening", !.root = x1,
                                                   !.mixed = \E r \in LoginPrograms \ {p} : Logins!Saving(r)]
                       ELSE [x3[q] EXCEPT !.mixed = @ \/ Logins!Saving(q)]]
           /\ x11' = x11
  <2>1. /\ x3'[p] \in Logins!Operations /\ x3'[p].kind = x3[p].kind /\ x3'[p].token = x3[p].token
        /\ x3'[p].at = "opening" /\ x3'[p].root = x1 /\ x3'[p].file = x3[p].file
        /\ x3'[p].mixed = \E r \in LoginPrograms \ {p} : Logins!Saving(r)
    <3> DEFINE o == [x3[p] EXCEPT !.at = "opening"]
               n == [o EXCEPT !.root = x1]
               met == \E r \in LoginPrograms \ {p} : Logins!Saving(r)
    <3>1. /\ o \in Logins!Operations /\ o.kind = x3[p].kind /\ o.token = x3[p].token /\ o.at = "opening"
          /\ o.file = x3[p].file
      BY <1>1 DEF Logins!Operations
    <3>2. /\ n \in Logins!Operations /\ n.kind = x3[p].kind /\ n.token = x3[p].token /\ n.at = "opening"
          /\ n.file = x3[p].file /\ n.root = x1
      BY <1>1, <3>1 DEF Logins!Operations
    <3>3. x3'[p] = [n EXCEPT !.mixed = met] /\ met \in BOOLEAN
      BY <1>3
    <3> HIDE DEF o, n, met
    <3>4. /\ x3'[p] \in Logins!Operations /\ x3'[p].kind = x3[p].kind /\ x3'[p].token = x3[p].token
          /\ x3'[p].at = "opening" /\ x3'[p].root = x1 /\ x3'[p].file = x3[p].file /\ x3'[p].mixed = met
      BY <3>2, <3>3 DEF Logins!Operations
    <3> QED
      BY <3>4 DEF met
  <2>2. ASSUME NEW q \in LoginPrograms \ {p}
        PROVE  /\ x3'[q] \in Logins!Operations /\ x3'[q].kind = x3[q].kind /\ x3'[q].token = x3[q].token
               /\ x3'[q].at = x3[q].at /\ x3'[q].root = x3[q].root /\ x3'[q].file = x3[q].file
               /\ x3'[q].mixed = (x3[q].mixed \/ Logins!Saving(q))
    <3>1. x3'[q] = [x3[q] EXCEPT !.mixed = @ \/ Logins!Saving(q)] /\ x3[q] \in Logins!Operations
      BY <1>1, <1>3
    <3> QED
      BY <3>1 DEF Logins!Operations
  <2>3. Logins!Typed'
    <3>1. x3' \in [LoginPrograms -> Logins!Operations]
      BY <1>3, <2>1, <2>2
    <3>2. Logins!Operations' = Logins!Operations /\ Logins!Contents' = Logins!Contents
      BY <1>1 DEF Logins!Operations, Logins!Contents, Logins!Tokens
    <3> QED
      BY <1>1, <1>3, <3>1, <3>2 DEF Logins!Inv, Logins!Typed
  <2>4. /\ \A q \in LoginPrograms : Logins!OwnToken(q)' /\ Logins!NewestToken(q)'
        /\ Logins!NewestIsKept' /\ Logins!LogoutIsLast'
    <3>1. x3[p].mixed = FALSE
      BY <1>1 DEF Logins!InStep, Logins!Saving, Logins!Operations
    <3>2. \A q \in LoginPrograms : /\ x3'[q].token = x3[q].token /\ x3'[q].kind = x3[q].kind
                                   /\ x3[q].mixed => x3'[q].mixed
      BY <2>1, <2>2, <3>1
    <3> QED
      BY <1>1, <1>3, <2>1, <2>2, <3>2, LoginSaves, ZenonT(40)
  <2>5. \A q \in LoginPrograms \ {p} : Logins!Saving(q)' = Logins!Saving(q)
    BY <2>2 DEF Logins!Saving
  <2>6. Logins!InStep(p)' /\ Logins!Alone(p)' /\ (~x10' => x3'[p].file # "path")
    BY <1>1, <2>1, <2>5 DEF Logins!InStep, Logins!Alone, Logins!Saving
  <2>7. ASSUME NEW q \in LoginPrograms \ {p}
        PROVE  Logins!InStep(q)' /\ Logins!Alone(q)' /\ (~x10' => x3'[q].file # "path")
    <3>1. Logins!InStep(q) /\ (~x10 => x3[q].file # "path")
      BY DEF Logins!Inv
    <3> QED
      BY <1>1, <2>2, <2>5, <3>1 DEF Logins!InStep, Logins!Alone, Logins!Saving
  <2>8. \A q \in LoginPrograms :
          /\ Logins!InStep(q)' /\ Logins!Alone(q)' /\ Logins!OwnToken(q)' /\ Logins!NewestToken(q)'
          /\ ~x10' => x3'[q].file # "path"
    BY <2>4, <2>6, <2>7
  <2> QED
    BY <1>1, <2>3, <2>4, <2>8 DEF Logins!Inv, Logins!FileIsThePromise
<1> QED
  BY <1>2, <1>3 DEF Logins!ReadRoot

LEMMA LoginOpen == ASSUME Logins!Inv, NEW p \in LoginPrograms, Logins!Open(p) PROVE Logins!Inv'
<1>1. /\ x3 \in [LoginPrograms -> Logins!Operations] /\ x3[p].at = "opening" /\ x2' = Logins!Empty
      /\ UNCHANGED <<x1, x4, x5, x6, x7, x8, x9, x10, x11, x12, x13>> /\ Logins!InStep(p) /\ Logins!Alone(p)
      /\ x3' = [x3 EXCEPT ![p].at = "writing", ![p].file = "temp"] /\ Logins!Saving(p)
  BY DEF Logins!Inv, Logins!Typed, Logins!Open, Logins!Provider, Logins!Histories, Logins!Saving
<1>2. /\ x3' \in [LoginPrograms -> Logins!Operations] /\ \A q \in LoginPrograms \ {p} : x3'[q] = x3[q]
      /\ x3'[p].kind = x3[p].kind /\ x3'[p].token = x3[p].token /\ x3'[p].root = x3[p].root
      /\ x3'[p].mixed = x3[p].mixed /\ x3'[p].at = "writing" /\ x3'[p].file = "temp"
  <2> DEFINE o == [x3[p] EXCEPT !.at = "writing"]
  <2>1. /\ o \in Logins!Operations /\ o.kind = x3[p].kind /\ o.token = x3[p].token /\ o.root = x3[p].root
        /\ o.mixed = x3[p].mixed /\ o.at = "writing"
    BY <1>1 DEF Logins!Operations
  <2>2. x3' = [x3 EXCEPT ![p] = [o EXCEPT !.file = "temp"]]
    BY <1>1
  <2> HIDE DEF o
  <2>3. [o EXCEPT !.file = "temp"] \in Logins!Operations
    BY <2>1 DEF Logins!Operations
  <2>4. x3 \in [LoginPrograms -> Logins!Operations]
    BY <1>1
  <2> QED
    BY <2>1, <2>2, <2>3, <2>4 DEF Logins!Operations
<1>3. x2' \in Logins!Contents /\ x2'.token = Logins!NoToken /\ Logins!NoToken.refresh = 0
  BY <1>1, LoginIssued, LoginTypes
<1>4. Logins!Typed'
  <2>1. Logins!Operations' = Logins!Operations /\ Logins!Contents' = Logins!Contents
    BY <1>1 DEF Logins!Operations, Logins!Contents, Logins!Tokens
  <2> QED
    BY <1>1, <1>2, <1>3, <2>1 DEF Logins!Inv, Logins!Typed
<1>5. /\ \A q \in LoginPrograms : Logins!OwnToken(q)' /\ Logins!NewestToken(q)'
      /\ Logins!NewestIsKept' /\ Logins!LogoutIsLast'
  BY <1>1, <1>2, <1>3, LoginSaves
<1>6. \A q \in LoginPrograms : Logins!Saving(q)' = Logins!Saving(q)
  BY <1>1, <1>2 DEF Logins!Saving
<1>7. Logins!InStep(p)' /\ Logins!Alone(p)' /\ (~x10' => x3'[p].file # "path")
  BY <1>1, <1>2, <1>6 DEF Logins!InStep, Logins!Alone
<1>8. ASSUME NEW q \in LoginPrograms \ {p}
      PROVE  Logins!InStep(q)' /\ Logins!Alone(q)' /\ (~x10' => x3'[q].file # "path")
  <2>1. Logins!InStep(q) /\ (~x10 => x3[q].file # "path") /\ (Logins!Saving(q) => x3[q].mixed)
    BY <1>1, LoginAlone DEF Logins!Inv
  <2> QED
    BY <1>1, <1>2, <1>6, <2>1 DEF Logins!InStep, Logins!Alone
<1>9. \A q \in LoginPrograms :
        /\ Logins!InStep(q)' /\ Logins!Alone(q)' /\ Logins!OwnToken(q)' /\ Logins!NewestToken(q)'
        /\ ~x10' => x3'[q].file # "path"
  BY <1>5, <1>7, <1>8
<1> QED
  BY <1>1, <1>4, <1>5, <1>9 DEF Logins!Inv, Logins!FileIsThePromise

LEMMA LoginWrite == ASSUME Logins!Inv, NEW p \in LoginPrograms, Logins!Write(p) PROVE Logins!Inv'
<1> DEFINE new == Logins!Content(p)
           found == IF x3[p].file = "path" THEN x1 ELSE x2
<1>1. /\ x3 \in [LoginPrograms -> Logins!Operations] /\ x3[p].at = "writing" /\ Logins!Saving(p) /\ x8 \in 0..LoginFaults
      /\ UNCHANGED <<x4, x5, x6, x7, x9, x10, x12, x13>> /\ Logins!InStep(p) /\ Logins!Alone(p)
      /\ (~x10 => x3[p].file # "path")
  BY DEF Logins!Inv, Logins!Typed, Logins!Write, Logins!Provider, Logins!Saving
<1>2. CASE Logins!Fault /\ Logins!Written(x3[p].file, {Logins!Garbled}) /\ Logins!Stops(p, FALSE)
  <2>1. x8' \in 0..LoginFaults
    BY <1>1, <1>2, ProgramAssumption DEF Logins!Fault
  <2>2. x1' \in {x1, Logins!Garbled} /\ x2' \in {x2, Logins!Garbled} /\ (x10 \/ x1' = x1)
    BY <1>1, <1>2 DEF Logins!Written, Logins!Files
  <2> QED
    BY <1>1, <1>2, <2>1, <2>2, LoginStops
<1>3. CASE /\ Logins!Written(x3[p].file, Logins!Over(found, new))
           /\ x3' = [x3 EXCEPT ![p].at = "renaming", ![p].file = "none"] /\ UNCHANGED <<x8, x11>>
  <2>1. /\ x3' \in [LoginPrograms -> Logins!Operations] /\ \A q \in LoginPrograms \ {p} : x3'[q] = x3[q]
        /\ x3'[p].kind = x3[p].kind /\ x3'[p].token = x3[p].token /\ x3'[p].root = x3[p].root
        /\ x3'[p].mixed = x3[p].mixed /\ x3'[p].at = "renaming" /\ x3'[p].file = "none"
    <3> DEFINE o == [x3[p] EXCEPT !.at = "renaming"]
    <3>1. /\ o \in Logins!Operations /\ o.kind = x3[p].kind /\ o.token = x3[p].token /\ o.root = x3[p].root
          /\ o.mixed = x3[p].mixed /\ o.at = "renaming"
      BY <1>1 DEF Logins!Operations
    <3>2. x3' = [x3 EXCEPT ![p] = [o EXCEPT !.file = "none"]]
      BY <1>3
    <3> HIDE DEF o
    <3>3. [o EXCEPT !.file = "none"] \in Logins!Operations
      BY <3>1 DEF Logins!Operations
    <3> QED
      BY <1>1, <3>1, <3>2, <3>3 DEF Logins!Operations
  <2>2. new \in Logins!Contents /\ new.token = x3[p].token
    <3>1. x3[p].token \in Logins!Tokens /\ x3[p].root.other \in BOOLEAN
      BY <1>1 DEF Logins!Operations, Logins!Contents
    <3> QED
      BY <3>1, LoginIssued, LoginTypes DEF Logins!Content, Logins!Kept, Logins!Object
  <2> HIDE DEF new
  <2>3. /\ Logins!Over(found, new) \subseteq {new, Logins!Garbled} /\ (found = Logins!Empty => Logins!Over(found, new) = {new})
    BY DEF Logins!Over
  <2>4. /\ x1' = x1 \/ (x3[p].file = "path" /\ x1' \in {new, Logins!Garbled})
        /\ x2' \in {x2, new, Logins!Garbled}
        /\ x3[p].file = "temp" /\ x2 = Logins!Empty => x2' = new
    BY <1>3, <2>3 DEF Logins!Written, Logins!Files
  <2>5. /\ x1' \in Logins!Contents /\ x1'.token \in {x1.token, Logins!NoToken, x3[p].token}
        /\ x2' \in Logins!Contents /\ x2'.token \in {x2.token, Logins!NoToken, x3[p].token}
        /\ Logins!NoToken.refresh = 0
    BY <2>2, <2>4, LoginIssued, LoginTypes DEF Logins!Inv, Logins!Typed
  <2>6. x1' = x1 \/ (x10 /\ x3[p].mixed)
    BY <1>1, <2>4 DEF Logins!Alone, Logins!Inv, Logins!Typed, Logins!Operations
  <2>7. Logins!Typed'
    <3>1. Logins!Operations' = Logins!Operations /\ Logins!Contents' = Logins!Contents
      BY <1>1 DEF Logins!Operations, Logins!Contents, Logins!Tokens
    <3> QED
      BY <1>1, <1>3, <2>1, <2>5, <3>1 DEF Logins!Inv, Logins!Typed
  <2>8. /\ \A q \in LoginPrograms : Logins!OwnToken(q)' /\ Logins!NewestToken(q)'
        /\ Logins!NewestIsKept' /\ Logins!LogoutIsLast'
    BY <1>1, <1>3, <2>1, <2>5, <2>6, LoginSaves
  <2>9. \A q \in LoginPrograms : Logins!Saving(q)' = Logins!Saving(q)
    BY <1>1, <2>1 DEF Logins!Saving
  <2>10. Logins!InStep(p)' /\ Logins!Alone(p)' /\ (~x10' => x3'[p].file # "path")
    <3>1. Logins!Content(p)' = new
      BY <2>1 DEF new, Logins!Content, Logins!Kept
    <3> QED
      BY <1>1, <2>1, <2>4, <2>6, <2>9, <3>1 DEF Logins!InStep, Logins!Alone
  <2>11. ASSUME NEW q \in LoginPrograms \ {p}
         PROVE  Logins!InStep(q)' /\ Logins!Alone(q)' /\ (~x10' => x3'[q].file # "path")
    <3>1. Logins!InStep(q) /\ (~x10 => x3[q].file # "path") /\ (Logins!Saving(q) => x3[q].mixed)
      BY <1>1, LoginAlone DEF Logins!Inv
    <3> QED
      BY <1>1, <2>1, <2>9, <3>1 DEF Logins!InStep, Logins!Alone
  <2>12. \A q \in LoginPrograms :
           /\ Logins!InStep(q)' /\ Logins!Alone(q)' /\ Logins!OwnToken(q)' /\ Logins!NewestToken(q)'
           /\ ~x10' => x3'[q].file # "path"
    BY <2>8, <2>10, <2>11
  <2>13. Logins!FileIsThePromise'
    BY <1>1, <2>6 DEF Logins!Inv, Logins!FileIsThePromise
  <2> QED
    BY <2>7, <2>8, <2>12, <2>13 DEF Logins!Inv
<1> QED
  BY <1>1, <1>2, <1>3 DEF Logins!Write

LEMMA LoginRename == ASSUME Logins!Inv, NEW p \in LoginPrograms, Logins!Rename(p) PROVE Logins!Inv'
<1>1. /\ x3 \in [LoginPrograms -> Logins!Operations] /\ x3[p].at = "renaming" /\ Logins!Saving(p) /\ x8 \in 0..LoginFaults
      /\ UNCHANGED <<x4, x5, x6, x7, x8>> /\ Logins!InStep(p) /\ Logins!Alone(p)
      /\ Logins!OwnToken(p) /\ Logins!NewestToken(p) /\ x10 \in BOOLEAN /\ x11 \in BOOLEAN /\ x12 \in BOOLEAN
  BY DEF Logins!Inv, Logins!Typed, Logins!Rename, Logins!Provider, Logins!Saving
<1>2. CASE Logins!Stops(p, FALSE) /\ UNCHANGED <<Logins!Files, x9, x10, x12, x13>>
  BY <1>1, <1>2, LoginStops DEF Logins!Files
<1>3. ASSUME x1' = x2, x2' = Logins!Absent,
             x3' = [q \in LoginPrograms |->
                      IF q = p THEN Logins!Idle
                      ELSE [x3[q] EXCEPT !.file = IF @ = "temp" THEN "path" ELSE IF @ = "path" THEN "gone" ELSE @]],
             x10' = x3[p].mixed, x9' = Logins!Promised(p),
             x11' = (x11 /\ (x3[p].kind = "start" \/ \E q \in LoginPrograms \ {p} : Logins!Holds(q) /\ x3[q].kind = "start")),
             x12' = ((x3[p].kind = "logout" /\ ~x3[p].mixed) \/ (x12 /\ x3[p].kind = "start" /\ p \notin x13)),
             x13' = IF x3[p].kind = "logout" THEN {q \in LoginPrograms \ {p} : x3[q] # Logins!Idle} ELSE x13 \ {p}
      PROVE  Logins!Inv'
  <2>1. x3'[p] = Logins!Idle /\ Logins!Idle \in Logins!Operations
    BY <1>3, LoginIssued, LoginTypes
  <2>2. ASSUME NEW q \in LoginPrograms \ {p}
        PROVE  /\ x3'[q] \in Logins!Operations /\ x3'[q].kind = x3[q].kind /\ x3'[q].token = x3[q].token
               /\ x3'[q].at = x3[q].at /\ x3'[q].root = x3[q].root /\ x3'[q].mixed = x3[q].mixed
               /\ (x3[q].file = "none" => x3'[q].file = "none") /\ (x3[q].file # "none" => x3'[q].file # "none")
    <3> DEFINE file == IF x3[q].file = "temp" THEN "path" ELSE IF x3[q].file = "path" THEN "gone" ELSE x3[q].file
    <3>1. x3'[q] = [x3[q] EXCEPT !.file = file] /\ x3[q] \in Logins!Operations
      BY <1>1, <1>3
    <3>2. /\ file \in {"none", "temp", "path", "gone"} /\ (x3[q].file = "none" => file = "none")
          /\ (x3[q].file # "none" => file # "none")
      BY <3>1 DEF Logins!Operations
    <3> HIDE DEF file
    <3> QED
      BY <3>1, <3>2 DEF Logins!Operations
  <2>3. /\ x1' \in Logins!Contents /\ x2' \in Logins!Contents /\ x2'.token = Logins!NoToken
        /\ Logins!NoToken.refresh = 0 /\ x9' \in Logins!Contents
    <3>1. /\ x3[p].token \in Logins!Tokens /\ x3[p].root.other \in BOOLEAN /\ x9.other \in BOOLEAN
          /\ x2 \in Logins!Contents
      BY <1>1 DEF Logins!Inv, Logins!Typed, Logins!Operations, Logins!Contents
    <3>2. (IF x10 THEN x3[p].root.other ELSE x9.other) \in BOOLEAN
      BY <3>1
    <3> QED
      BY <1>3, <3>1, <3>2, LoginIssued, LoginTypes DEF Logins!Promised
  <2>4. ~(x12 /\ x3[p].kind = "start" /\ p \notin x13)
    BY <1>1 DEF Logins!Inv, Logins!LogoutIsLast
  <2>5. x10' \in BOOLEAN /\ x11' \in BOOLEAN /\ x12' \in BOOLEAN /\ x13' \subseteq LoginPrograms
    BY <1>1, <1>3, <2>4 DEF Logins!Inv, Logins!Typed, Logins!Operations
  <2>6. Logins!Typed'
    <3>1. Logins!Operations' = Logins!Operations /\ Logins!Contents' = Logins!Contents
      BY <1>1 DEF Logins!Operations, Logins!Contents, Logins!Tokens
    <3>2. x3' \in [LoginPrograms -> Logins!Operations]
      BY <1>3, <2>1, <2>2
    <3> QED
      BY <1>1, <2>3, <2>5, <3>1, <3>2 DEF Logins!Inv, Logins!Typed
  <2>7. /\ Logins!InStep(p)' /\ Logins!Alone(p)' /\ Logins!OwnToken(p)' /\ Logins!NewestToken(p)'
        /\ x3'[p].file = "none"
    BY <2>1 DEF Logins!InStep, Logins!Alone, Logins!OwnToken, Logins!NewestToken, Logins!Idle, Logins!Saving, Logins!Holds
  <2>8. ASSUME NEW q \in LoginPrograms \ {p}
        PROVE  /\ Logins!InStep(q)' /\ Logins!Alone(q)' /\ Logins!OwnToken(q)' /\ Logins!NewestToken(q)'
               /\ ~x10' => x3'[q].file # "path"
    <3>1. /\ Logins!InStep(q) /\ (Logins!Saving(q) => x3[q].mixed) /\ Logins!OwnToken(q) /\ Logins!NewestToken(q)
          /\ Logins!Saving(q)' = Logins!Saving(q) /\ Logins!Holds(q)' = Logins!Holds(q)
      BY <1>1, <2>2, LoginAlone DEF Logins!Inv, Logins!Saving, Logins!Holds
    <3>2. Logins!InStep(q)' /\ Logins!Alone(q)'
      BY <2>2, <3>1 DEF Logins!InStep, Logins!Alone
    <3>3. ~x10' => x3'[q].file # "path"
      BY <1>1, <1>3, <2>2, <3>1 DEF Logins!Alone, Logins!InStep, Logins!Saving
    <3>4. Logins!NewestToken(q)'
      <4>1. Logins!Holds(q) /\ x3[q].kind = "start" /\ x11 => x11'
        BY <1>3
      <4>2. x3'[q].token = x3[q].token /\ x3'[q].kind = x3[q].kind /\ x5' = x5
        BY <1>1, <2>2
      <4> QED
        BY <3>1, <4>1, <4>2 DEF Logins!NewestToken
    <3>5. Logins!OwnToken(q)'
      <4> SUFFICES ASSUME x3[q].kind = "login", Logins!Holds(q), ~x3[q].mixed, x3[q].token.refresh # 0
                   PROVE  /\ x3[q].token.refresh \in x5 /\ x2.token.refresh # x3[q].token.refresh
                          /\ \A r \in LoginPrograms \ {q} : x3'[r].token.refresh # x3[q].token.refresh
        <5>1. x3'[q].token = x3[q].token /\ x3'[q].kind = x3[q].kind /\ x3'[q].mixed = x3[q].mixed /\ x5' = x5
          BY <1>1, <2>2
        <5>2. x1' = x2 /\ x2'.token.refresh = 0
          BY <1>3, <2>3
        <5> QED
          BY <3>1, <5>1, <5>2 DEF Logins!OwnToken
      <4>1. x3[q].at = "saving"
        BY <3>1 DEF Logins!Holds, Logins!Saving
      <4>2. x3'[p].token.refresh = 0
        BY <2>1, <2>3 DEF Logins!Idle
      <4> QED
        BY <2>2, <3>1, <4>1, <4>2 DEF Logins!OwnToken
    <3> QED
      BY <3>2, <3>3, <3>4, <3>5
  <2>9. CASE x3[p].mixed
    <3>1. x10' /\ ~x12'
      BY <1>3, <2>4, <2>9
    <3> QED
      BY <2>6, <2>7, <2>8, <3>1 DEF Logins!Inv, Logins!FileIsThePromise, Logins!NewestIsKept, Logins!LogoutIsLast
  <2>10. CASE ~x3[p].mixed
    <3>1. /\ x2 = Logins!Content(p) /\ x3[p].root = x1 /\ x2.token = x3[p].token
      BY <1>1, <2>10 DEF Logins!Alone, Logins!Content, Logins!Object
    <3>2. Logins!FileIsThePromise'
      BY <1>1, <1>3, <3>1 DEF Logins!Inv, Logins!FileIsThePromise, Logins!Promised, Logins!Content, Logins!Kept
    <3>3. x11' \/ x1'.token.refresh \in x5 \cup {0}
      BY <1>1, <1>3, <2>3, <2>10, <3>1 DEF Logins!OwnToken, Logins!NewestToken, Logins!InStep, Logins!Holds, Logins!Operations
    <3>4. Logins!LogoutIsLast'
      <4> SUFFICES ASSUME x12' PROVE ~x10' /\ x1'.token = Logins!NoToken
                                     /\ \A q \in LoginPrograms : x3'[q].kind = "start" => q \in x13'
        BY DEF Logins!LogoutIsLast
      <4>1. x3[p].kind = "logout"
        BY <1>3, <2>4
      <4> QED
        BY <1>1, <1>3, <2>1, <2>2, <2>10, <3>1, <4>1 DEF Logins!InStep, Logins!Idle
    <3> QED
      BY <1>1, <2>6, <2>7, <2>8, <3>2, <3>3, <3>4 DEF Logins!Inv, Logins!NewestIsKept
  <2> QED
    BY <2>9, <2>10
<1> QED
  BY <1>1, <1>2, <1>3 DEF Logins!Rename

LEMMA LoginDies == ASSUME Logins!Inv, NEW p \in LoginPrograms, Logins!Dies(p) PROVE Logins!Inv'
<1>1. /\ Logins!Stops(p, FALSE) /\ UNCHANGED <<x1, x2, x4, x5, x6, x7, x9, x10, x12, x13>>
  BY DEF Logins!Dies, Logins!Files, Logins!Provider
<1>2. x8' \in 0..LoginFaults
  BY ProgramAssumption DEF Logins!Dies, Logins!Fault, Logins!Inv, Logins!Typed
<1> QED
  BY <1>1, <1>2, LoginStops

LEMMA LoginExpire ==
  ASSUME Logins!Inv, UNCHANGED <<x1, x2, x3, x4, x5, x7, x8, x9, x10, x11, x12, x13>>, x6' \subseteq 1..x4
  PROVE  Logins!Inv'
<1>1. Logins!Typed'
  BY DEF Logins!Inv, Logins!Typed, Logins!Operations, Logins!Contents, Logins!Tokens
<1>2. ASSUME NEW p \in LoginPrograms
      PROVE  /\ Logins!InStep(p)' /\ Logins!Alone(p)' /\ Logins!OwnToken(p)' /\ Logins!NewestToken(p)'
             /\ ~x10' => x3'[p].file # "path"
  BY DEF Logins!Inv, Logins!InStep, Logins!Alone, Logins!OwnToken, Logins!NewestToken, Logins!Saving, Logins!Holds,
     Logins!Content, Logins!Kept
<1>3. Logins!FileIsThePromise' /\ Logins!NewestIsKept' /\ Logins!LogoutIsLast'
  BY DEF Logins!Inv, Logins!FileIsThePromise, Logins!NewestIsKept, Logins!LogoutIsLast, Logins!Holds
<1> QED
  BY <1>1, <1>2, <1>3 DEF Logins!Inv

LEMMA LoginStep == Logins!Inv /\ [Logins!Next]_(Logins!vars) => Logins!Inv'
<1> SUFFICES ASSUME Logins!Inv, [Logins!Next]_(Logins!vars) PROVE Logins!Inv'
  OBVIOUS
<1>1. x6 \subseteq 1..x4
  BY DEF Logins!Inv, Logins!Typed
<1>2. CASE UNCHANGED Logins!vars
  BY <1>1, <1>2, LoginExpire DEF Logins!vars
<1>3. CASE Logins!Expire
  <2>1. x6' \subseteq 1..x4
    BY <1>1, <1>3 DEF Logins!Expire
  <2> QED
    BY <1>3, <2>1, LoginExpire DEF Logins!Expire, Logins!Files, Logins!Histories
<1> QED
  BY <1>2, <1>3, LoginBegin, LoginCallback, LoginLoad, LoginRefresh, LoginReadRoot, LoginOpen, LoginWrite,
     LoginRename, LoginDies DEF Logins!Next

LEMMA LoginSound == Logins!Inv => Logins!TypeOK /\ Logins!CredentialsAreSound
<1> SUFFICES ASSUME Logins!Inv PROVE Logins!TypeOK /\ Logins!CredentialsAreSound
  OBVIOUS
<1> DEFINE Tokens == [access : 0..LoginGrants, refresh : 0..LoginGrants]
           Contents == [is : {"object", "absent", "empty", "garbled"}, token : Tokens, other : BOOLEAN]
           Operations == [kind : {"idle", "login", "logout", "start"},
                          at : {"idle", "waiting", "loading", "refreshing", "saving", "opening", "writing", "renaming"},
                          token : Tokens, root : Contents, file : {"none", "temp", "path", "gone"}, mixed : BOOLEAN]
<1>1. Logins!Tokens \subseteq Tokens
  BY ProgramAssumption DEF Logins!Inv, Logins!Typed, Logins!Tokens
<1>2. Logins!Contents \subseteq Contents
  <2> HIDE DEF Tokens
  <2> QED
    BY <1>1 DEF Logins!Contents
<1>3. Logins!Operations \subseteq Operations
  <2> HIDE DEF Tokens, Contents
  <2> QED
    BY <1>1, <1>2 DEF Logins!Operations
<1>4. Logins!TypeOK
  <2>1. {x1, x2, x9} \subseteq Contents /\ x3 \in [LoginPrograms -> Operations]
    <3> HIDE DEF Contents, Operations
    <3> QED
      BY <1>2, <1>3 DEF Logins!Inv, Logins!Typed
  <2>2. /\ x4 \in 0..LoginGrants /\ x5 \subseteq 1..x4 /\ x6 \subseteq 1..x4 /\ x7 \in 0..LoginOps
        /\ x8 \in 0..LoginFaults /\ {x10, x11, x12} \subseteq BOOLEAN /\ x13 \subseteq LoginPrograms
    BY DEF Logins!Inv, Logins!Typed
  <2> QED
    BY <2>1, <2>2, Zenon DEF Logins!TypeOK
<1> QED
  BY <1>4 DEF Logins!Inv, Logins!CredentialsAreSound, Logins!LogoutHolds, Logins!LogoutIsLast

\* Only a save that had the file to itself, or a login, or a logout takes a refresh token away.
LEMMA LoginKept == Logins!Inv /\ [Logins!Next]_(Logins!vars) => Logins!RefreshKept
<1> SUFFICES ASSUME Logins!Inv, [Logins!Next]_(Logins!vars),
                    x1.token.refresh # 0, x1'.token # Logins!NoToken, x1'.token.refresh = 0, ~x10, ~x10'
             PROVE  \E p \in LoginPrograms : x3[p].kind = "login" /\ x3'[p] = Logins!Idle
  BY DEF Logins!RefreshKept
<1>1. x1' # x1
  OBVIOUS
<1>2. ASSUME NEW p \in LoginPrograms, Logins!Write(p) PROVE x1' = x1
  <2>1. x3[p].file # "path"
    BY DEF Logins!Inv
  <2> QED
    BY <1>2, <2>1 DEF Logins!Write, Logins!Written, Logins!Files
<1>3. PICK p \in LoginPrograms : Logins!Rename(p)
  <2>1. CASE UNCHANGED Logins!vars
    BY <1>1, <2>1 DEF Logins!vars
  <2>2. CASE Logins!Expire
    BY <1>1, <2>2 DEF Logins!Expire, Logins!Files
  <2>3. ASSUME NEW p \in LoginPrograms,
               \/ Logins!Begin(p) \/ Logins!Callback(p) \/ Logins!Load(p) \/ Logins!Refresh(p) \/ Logins!ReadRoot(p)
               \/ Logins!Open(p) \/ Logins!Dies(p)
        PROVE  x1' = x1
    BY <2>3 DEF Logins!Begin, Logins!Callback, Logins!Load, Logins!Refresh, Logins!ReadRoot, Logins!Open, Logins!Dies,
       Logins!Files
  <2> QED
    BY <1>1, <1>2, <2>1, <2>2, <2>3 DEF Logins!Next
<1>4. x1' = x2 /\ x10' = x3[p].mixed /\ x3[p].at = "renaming" /\ x3'[p] = Logins!Idle
  BY <1>1, <1>3 DEF Logins!Rename, Logins!Files
<1>5. x1'.token = x3[p].token
  BY <1>4 DEF Logins!Inv, Logins!Alone, Logins!Saving, Logins!Content, Logins!Object
<1>6. x3[p].kind = "login"
  <2>1. x3[p].kind \in {"idle", "login", "logout", "start"}
    BY DEF Logins!Inv, Logins!Typed, Logins!Operations
  <2> QED
    BY <1>4, <1>5, <2>1 DEF Logins!Inv, Logins!InStep
<1> QED
  BY <1>4, <1>6

\* Credentials: a save that met no other leaves exactly what it promised, the newest refresh
\* token is kept or its loss is known, and a logout lasts.
THEOREM CredentialsCorrect == ProgramSpec => []CredentialsAreSound
<1>1. ProgramInit /\ part = "logins" => Logins!Inv
  BY LoginInit DEF ProgramInit
<1>2. part = "logins" /\ [ProgramNext]_all => (part = "logins")' /\ [Logins!Next]_(Logins!vars)
  BY DEF ProgramNext, all, from10, from11, from13, from14, from15, from16, from18, Logins!vars
<1>3. ~(part = "logins") /\ [ProgramNext]_all => (~(part = "logins"))'
  BY DEF ProgramNext, all, from10, from11, from13, from14, from15, from16, from18
<1>4. Logins!Inv => CredentialsAreSound
  BY LoginSound DEF CredentialsAreSound
<1>5. ~(part = "logins") => CredentialsAreSound
  BY DEF CredentialsAreSound
<1> QED
  BY <1>1, <1>2, <1>3, <1>4, <1>5, LoginStep, PTL DEF ProgramSpec

\* A login that can be refreshed stays one, unless saves overlap, until a login or a logout.
THEOREM RefreshCorrect == ProgramSpec => RefreshStays
<1>1. ProgramInit /\ part = "logins" => Logins!Inv
  BY LoginInit DEF ProgramInit
<1>2. part = "logins" /\ [ProgramNext]_all => (part = "logins")' /\ [Logins!Next]_(Logins!vars)
  BY DEF ProgramNext, all, from10, from11, from13, from14, from15, from16, from18, Logins!vars
<1>3. ~(part = "logins") /\ [ProgramNext]_all => (~(part = "logins"))'
  BY DEF ProgramNext, all, from10, from11, from13, from14, from15, from16, from18
<1>4. Logins!Inv /\ [Logins!Next]_(Logins!vars) => [part = "logins" => Logins!RefreshKept]_all
  BY LoginKept
<1>5. ~(part = "logins") => [part = "logins" => Logins!RefreshKept]_all
  OBVIOUS
<1> QED
  BY <1>1, <1>2, <1>3, <1>4, <1>5, LoginStep, PTL DEF ProgramSpec, RefreshStays

-----------------------------------------------------------------------------
(* The plugin store.                                                       *)

\* The operations, step by step.
LEMMA PluginSteps ==
  /\ Plugins!Steps("install") = <<"fetch", "remove", "copy", "record", "on">>
  /\ Plugins!Steps("update") = <<"known", "fetch", "remove", "copy", "record">>
  /\ Plugins!Steps("uninstall") = <<"known", "remove", "forget", "unset">>
  /\ Plugins!Steps("enable") = <<"sync", "recorded", "prune", "load", "on">>
  /\ Plugins!Steps("disable") = <<"sync", "recorded", "prune", "load", "off">>
  /\ Plugins!Steps("report") = <<"sync", "recorded", "prune", "load">>
<1>1. /\ "install" \notin {"update", "uninstall", "enable", "disable", "report"}
      /\ "update" \notin {"install", "uninstall", "enable", "disable", "report"}
      /\ "uninstall" \notin {"install", "update", "enable", "disable", "report"}
      /\ "enable" \notin {"install", "update", "uninstall", "disable", "report"}
      /\ "disable" \notin {"install", "update", "uninstall", "enable", "report"}
      /\ "report" \notin {"install", "update", "uninstall", "enable", "disable"}
  OBVIOUS
<1>2. \A s \in STRING : Plugins!Report \o <<s>> = <<"sync", "recorded", "prune", "load", s>>
  <2> SUFFICES ASSUME NEW d \in STRING
               PROVE  Plugins!Report \o <<d>> = <<"sync", "recorded", "prune", "load", d>>
    OBVIOUS
  <2> DEFINE s == Plugins!Report
             t == <<d>>
             w == <<"sync", "recorded", "prune", "load", d>>
             S == {"sync", "recorded", "prune", "load", d}
  <2>1. /\ s \in Seq(S) /\ Len(s) = 4 /\ t \in Seq(S) /\ Len(t) = 1 /\ w \in Seq(S) /\ Len(w) = 5
        /\ s[1] = w[1] /\ s[2] = w[2] /\ s[3] = w[3] /\ s[4] = w[4] /\ t[1] = w[5]
    BY DEF Plugins!Report
  <2> HIDE DEF s, t, w, S
  <2>2. s \o t \in Seq(S) /\ Len(s \o t) = 5 /\ \A i \in 1..5 : (s \o t)[i] = w[i]
    <3>1. /\ s \o t \in Seq(S) /\ Len(s \o t) = Len(s) + Len(t)
          /\ \A i \in 1..(Len(s) + Len(t)) : (s \o t)[i] = IF i <= Len(s) THEN s[i] ELSE t[i - Len(s)]
      BY <2>1, ConcatProperties, ZenonT(40)
    <3> QED
      BY <2>1, <3>1
  <2>3. s \o t = w
    BY <2>1, <2>2, SeqEqual
  <2> QED
    BY <2>3 DEF s, t, w
<1>3. /\ Plugins!Steps("enable") = Plugins!Report \o <<"on">>
      /\ Plugins!Steps("disable") = Plugins!Report \o <<"off">>
      /\ Plugins!Steps("report") = Plugins!Report
  BY DEF Plugins!Steps
<1>4. /\ Plugins!Steps("install") = Plugins!install
      /\ Plugins!Steps("update") = Plugins!update
      /\ Plugins!Steps("uninstall") = Plugins!uninstall
  BY DEF Plugins!Steps
<1> QED
  BY <1>2, <1>3, <1>4 DEF Plugins!install, Plugins!update, Plugins!uninstall, Plugins!Report

LEMMA PluginLengths ==
  \A k \in {"install", "update", "uninstall", "enable", "disable", "report"} :
    /\ Plugins!Steps(k) \in Seq(Plugins!Step)
    /\ Len(Plugins!Steps(k)) = IF k \in {"uninstall", "report"} THEN 4 ELSE 5
<1>1. /\ <<"fetch", "remove", "copy", "record", "on">> \in Seq(Plugins!Step)
      /\ <<"known", "fetch", "remove", "copy", "record">> \in Seq(Plugins!Step)
      /\ <<"known", "remove", "forget", "unset">> \in Seq(Plugins!Step)
      /\ <<"sync", "recorded", "prune", "load", "on">> \in Seq(Plugins!Step)
      /\ <<"sync", "recorded", "prune", "load", "off">> \in Seq(Plugins!Step)
      /\ <<"sync", "recorded", "prune", "load">> \in Seq(Plugins!Step)
  <2>1. <<"fetch", "remove", "copy", "record", "on">> \in Seq(Plugins!Step)
    BY DEF Plugins!Step
  <2>2. <<"known", "fetch", "remove", "copy", "record">> \in Seq(Plugins!Step)
    BY DEF Plugins!Step
  <2>3. <<"known", "remove", "forget", "unset">> \in Seq(Plugins!Step)
    BY DEF Plugins!Step
  <2>4. <<"sync", "recorded", "prune", "load", "on">> \in Seq(Plugins!Step)
    BY DEF Plugins!Step
  <2>5. <<"sync", "recorded", "prune", "load", "off">> \in Seq(Plugins!Step)
    BY DEF Plugins!Step
  <2>6. <<"sync", "recorded", "prune", "load">> \in Seq(Plugins!Step)
    BY DEF Plugins!Step
  <2> QED
    BY <2>1, <2>2, <2>3, <2>4, <2>5, <2>6, Zenon
<1>2. /\ Len(Plugins!Steps("install")) = 5 /\ Len(Plugins!Steps("update")) = 5
      /\ Len(Plugins!Steps("uninstall")) = 4 /\ Len(Plugins!Steps("enable")) = 5
      /\ Len(Plugins!Steps("disable")) = 5 /\ Len(Plugins!Steps("report")) = 4
  BY PluginSteps
<1>3. /\ Plugins!Steps("install") \in Seq(Plugins!Step) /\ Plugins!Steps("update") \in Seq(Plugins!Step)
      /\ Plugins!Steps("uninstall") \in Seq(Plugins!Step) /\ Plugins!Steps("enable") \in Seq(Plugins!Step)
      /\ Plugins!Steps("disable") \in Seq(Plugins!Step) /\ Plugins!Steps("report") \in Seq(Plugins!Step)
  BY <1>1, PluginSteps, Zenon
<1> QED
  BY <1>2, <1>3

\* The step that comes next is the one of its operation's steps that the number of those left says.
LEMMA PluginAt ==
  ASSUME Plugins!Operation, NEW s \in Plugins!Step, Plugins!At(s)
  PROVE  /\ x5.kind # "none" /\ x5.plugin \in Plugins!Plugin
         /\ x5.todo \in Seq(Plugins!Step) /\ x5.todo # <<>>
         /\ Plugins!Left \in Nat /\ Plugins!Left >= 1
         /\ \/ x5.kind = "install" /\ Plugins!Left <= 5 /\ s = <<"fetch", "remove", "copy", "record", "on">>[6 - Plugins!Left]
            \/ x5.kind = "update" /\ Plugins!Left <= 5 /\ s = <<"known", "fetch", "remove", "copy", "record">>[6 - Plugins!Left]
            \/ x5.kind = "uninstall" /\ Plugins!Left <= 4 /\ s = <<"known", "remove", "forget", "unset">>[5 - Plugins!Left]
            \/ x5.kind = "enable" /\ Plugins!Left <= 5 /\ s = <<"sync", "recorded", "prune", "load", "on">>[6 - Plugins!Left]
            \/ x5.kind = "disable" /\ Plugins!Left <= 5 /\ s = <<"sync", "recorded", "prune", "load", "off">>[6 - Plugins!Left]
            \/ x5.kind = "report" /\ Plugins!Left <= 4 /\ s = <<"sync", "recorded", "prune", "load">>[5 - Plugins!Left]
<1>1. /\ x5.kind # "none" /\ x5.plugin \in Plugins!Plugin
      /\ x5.todo \in Seq(Plugins!Step) /\ x5.todo # <<>> /\ Head(x5.todo) = s
  BY DEF Plugins!At, Plugins!Operation
<1>2. /\ Plugins!Left = Len(x5.todo) /\ Plugins!Left \in Nat /\ Plugins!Left >= 1 /\ x5.todo[1] = s
  BY <1>1 DEF Plugins!Left
<1>3. /\ x5.kind \in {"install", "update", "uninstall", "enable", "disable", "report"}
      /\ Plugins!Left <= Len(Plugins!Steps(x5.kind))
      /\ s = Plugins!Steps(x5.kind)[1 + (Len(Plugins!Steps(x5.kind)) - Plugins!Left)]
  BY <1>1, <1>2 DEF Plugins!Operation
<1>4. CASE x5.kind \in {"install", "update", "enable", "disable"}
  <2>1. Len(Plugins!Steps(x5.kind)) = 5
    BY <1>4, PluginSteps
  <2>2. 1 + (5 - Plugins!Left) = 6 - Plugins!Left
    BY <1>2
  <2> QED
    BY <1>1, <1>2, <1>3, <1>4, <2>1, <2>2, PluginSteps, Zenon
<1>5. CASE x5.kind \in {"uninstall", "report"}
  <2>1. Len(Plugins!Steps(x5.kind)) = 4
    BY <1>5, PluginSteps
  <2>2. 1 + (4 - Plugins!Left) = 5 - Plugins!Left
    BY <1>2
  <2> QED
    BY <1>1, <1>2, <1>3, <1>5, <2>1, <2>2, PluginSteps, Zenon
<1> QED
  BY <1>3, <1>4, <1>5

\* A step that goes on leaves one step less.
LEMMA PluginGoesOn ==
  ASSUME Plugins!Operation, NEW s \in Plugins!Step, Plugins!At(s), Plugins!GoOn
  PROVE  /\ Plugins!Operation' /\ x6' = x6
         /\ x5'.kind = x5.kind /\ x5'.plugin = x5.plugin /\ Plugins!Left' = Plugins!Left - 1
<1>1. /\ x5 = [kind |-> x5.kind, plugin |-> x5.plugin, todo |-> x5.todo]
      /\ x5.kind # "none" /\ x5.todo \in Seq(Plugins!Step) /\ x5.todo # <<>>
      /\ x5.kind \in {"install", "update", "uninstall", "enable", "disable", "report"}
      /\ x5.plugin \in Plugins!Plugin
      /\ x5' = [x5 EXCEPT !.todo = Tail(@)] /\ x6' = x6
  BY DEF Plugins!Operation, Plugins!At, Plugins!GoOn
<1>2. x5' = [kind |-> x5.kind, plugin |-> x5.plugin, todo |-> Tail(x5.todo)]
  BY <1>1
<1>3. x5'.kind = x5.kind /\ x5'.plugin = x5.plugin /\ x5'.todo = Tail(x5.todo)
  BY <1>2
<1>4. /\ Tail(x5.todo) \in Seq(Plugins!Step) /\ Plugins!Left \in Nat /\ Plugins!Left >= 1
      /\ Len(Tail(x5.todo)) = Plugins!Left - 1
      /\ \A i \in 1..(Plugins!Left - 1) : Tail(x5.todo)[i] = x5.todo[i + 1]
  BY <1>1 DEF Plugins!Left
<1>5. Plugins!Left' = Plugins!Left - 1
  BY <1>3, <1>4 DEF Plugins!Left
<1>6. Len(Plugins!Steps(x5.kind)) \in Nat
  BY <1>1, PluginSteps
<1>7. \A i \in 1..(Plugins!Left - 1) :
        Tail(x5.todo)[i] = Plugins!Steps(x5.kind)[i + (Len(Plugins!Steps(x5.kind)) - (Plugins!Left - 1))]
  <2> SUFFICES ASSUME NEW i \in 1..(Plugins!Left - 1)
               PROVE  Tail(x5.todo)[i] = Plugins!Steps(x5.kind)[i + (Len(Plugins!Steps(x5.kind)) - (Plugins!Left - 1))]
    OBVIOUS
  <2>1. i + 1 \in 1..Plugins!Left
    BY <1>4
  <2>2. x5.todo[i + 1] = Plugins!Steps(x5.kind)[(i + 1) + (Len(Plugins!Steps(x5.kind)) - Plugins!Left)]
    BY <1>1, <2>1 DEF Plugins!Operation
  <2>3. (i + 1) + (Len(Plugins!Steps(x5.kind)) - Plugins!Left) = i + (Len(Plugins!Steps(x5.kind)) - (Plugins!Left - 1))
    BY <1>4, <1>6
  <2> QED
    BY <1>4, <2>2, <2>3, Zenon
<1>8. Plugins!Left - 1 <= Len(Plugins!Steps(x5.kind))
  BY <1>1, <1>4, <1>6 DEF Plugins!Operation
<1>9. Plugins!Operation'
  BY <1>1, <1>2, <1>3, <1>4, <1>5, <1>7, <1>8, Zenon DEF Plugins!Operation
<1> QED
  BY <1>1, <1>3, <1>5, <1>9

\* While an operation is at something nothing is promised of the one before.
LEMMA PluginBusy ==
  ASSUME x5'.kind # "none"
  PROVE  Plugins!SuccessIsWhole' /\ Plugins!LoadedMeansWhole'
BY DEF Plugins!SuccessIsWhole, Plugins!LoadedMeansWhole, Plugins!Ended

\* An operation that fails promises nothing but that who is off stays off.
LEMMA PluginReturns ==
  ASSUME NEW r \in {"error", "cut"}, Plugins!Return(r)
  PROVE  /\ Plugins!Operation' /\ Plugins!Progress' /\ Plugins!SuccessIsWhole' /\ Plugins!LoadedMeansWhole'
         /\ x5'.kind = "none"
<1>1. x5' = Plugins!Idle /\ x6'.result = r /\ r # "ok"
  BY DEF Plugins!Return
<1>2. x5'.kind = "none" /\ x5' = [kind |-> x5'.kind, plugin |-> x5'.plugin, todo |-> x5'.todo]
  BY <1>1 DEF Plugins!Idle
<1> QED
  BY <1>1, <1>2 DEF Plugins!Operation, Plugins!Progress, Plugins!Installing, Plugins!Updating, Plugins!Uninstalling,
     Plugins!Reporting, Plugins!SuccessIsWhole, Plugins!LoadedMeansWhole, Plugins!Ended

LEMMA PluginInit == Plugins!Init => Plugins!Inv
<1> SUFFICES ASSUME Plugins!Init PROVE Plugins!Inv
  OBVIOUS
<1>1. /\ x1 = [p \in Plugins!Plugin |-> 1] /\ x2 = [p \in Plugins!Plugin |-> Plugins!Gone("absent")]
      /\ x3 = [state |-> "read", records |-> Plugins!NoRecords]
      /\ x4 = [state |-> "read", flags |-> Plugins!NoFlags]
      /\ x5 = Plugins!Idle /\ x6.result = "none" /\ x7 = {}
  BY DEF Plugins!Init
<1>2. Plugins!TypeOK
  BY <1>1, ProgramAssumption DEF Plugins!TypeOK, Plugins!Gone, Plugins!Dir, Plugins!NoRecords, Plugins!NoFlags,
     Plugins!FileState
<1>3. Plugins!Files
  BY <1>1, <1>2 DEF Plugins!Files, Plugins!Records, Plugins!NoRecords, Plugins!Loads, Plugins!Gone
<1>4. x5.kind = "none" /\ x5 = [kind |-> x5.kind, plugin |-> x5.plugin, todo |-> x5.todo]
  BY <1>1 DEF Plugins!Idle
<1> QED
  BY <1>1, <1>3, <1>4 DEF Plugins!Inv, Plugins!Operation, Plugins!Progress, Plugins!Installing, Plugins!Updating,
     Plugins!Uninstalling, Plugins!Reporting, Plugins!Flagged, Plugins!SuccessIsWhole, Plugins!LoadedMeansWhole,
     Plugins!Ended

\* What the files say is the same when they are.
LEMMA PluginFilesKept == Plugins!Files /\ UNCHANGED <<x1, x2, x3, x4, x7>> => Plugins!Files'
BY DEF Plugins!Files, Plugins!TypeOK, Plugins!Records, Plugins!Loads

LEMMA PluginBegin == Plugins!Inv /\ Plugins!Begin => Plugins!Inv'
<1> SUFFICES ASSUME Plugins!Inv, Plugins!Begin PROVE Plugins!Inv'
  OBVIOUS
<1> PICK k \in {"install", "update", "uninstall", "enable", "disable", "report"}, p \in Plugins!Plugin :
      /\ x5' = [kind |-> k, plugin |-> p, todo |-> Plugins!Steps(k)]
      /\ x7' = IF k \in {"install", "enable"} THEN x7 \ {p} ELSE x7
  BY DEF Plugins!Begin
<1>1. UNCHANGED <<x1, x2, x3, x4, x6, x8>>
  BY DEF Plugins!Begin
<1>2. x5'.kind = k /\ x5'.plugin = p /\ x5'.todo = Plugins!Steps(k) /\ k # "none"
  OBVIOUS
<1>3. /\ Plugins!Steps(k) \in Seq(Plugins!Step) /\ Plugins!Left' = Len(Plugins!Steps(k))
      /\ Len(Plugins!Steps(k)) = IF k \in {"uninstall", "report"} THEN 4 ELSE 5
  <2>1. Plugins!Steps(k) \in Seq(Plugins!Step) /\ Len(Plugins!Steps(k)) = IF k \in {"uninstall", "report"} THEN 4 ELSE 5
    BY PluginLengths
  <2> QED
    BY <1>2, <2>1 DEF Plugins!Left
<1>4. Plugins!Operation'
  <2>1. \A i \in 1..Len(Plugins!Steps(k)) : i + (Len(Plugins!Steps(k)) - Len(Plugins!Steps(k))) = i
    BY <1>3
  <2>2. Len(Plugins!Steps(k)) <= Len(Plugins!Steps(k))
    BY <1>3
  <2> QED
    BY <1>2, <1>3, <2>1, <2>2, Zenon DEF Plugins!Operation
<1>5. Plugins!Progress'
  BY <1>2, <1>3 DEF Plugins!Progress, Plugins!Installing, Plugins!Updating, Plugins!Uninstalling, Plugins!Reporting,
     Plugins!ReportLeft
<1>6. Plugins!Flagged'
  BY <1>1, <1>2, <1>3 DEF Plugins!Inv, Plugins!Flagged, Plugins!Flags
<1>7. Plugins!Files'
  BY <1>1 DEF Plugins!Inv, Plugins!Files, Plugins!TypeOK, Plugins!Records, Plugins!Loads
<1> QED
  BY <1>2, <1>4, <1>5, <1>6, <1>7, PluginBusy DEF Plugins!Inv

LEMMA PluginFinish == Plugins!Inv /\ Plugins!Finish => Plugins!Inv'
<1> SUFFICES ASSUME Plugins!Inv, Plugins!Finish PROVE Plugins!Inv'
  OBVIOUS
<1>1. /\ UNCHANGED <<x1, x2, x3, x4, x8>> /\ x5' = Plugins!Idle
      /\ x5.kind # "none" /\ x5.todo = <<>>
      /\ x7' = IF x5.kind = "disable" THEN x7 \union {x5.plugin} ELSE x7
      /\ x6' = [kind |-> x5.kind, plugin |-> x5.plugin, result |-> "ok"]
  BY DEF Plugins!Finish, Plugins!Return
<1>2. /\ x5'.kind = "none" /\ x5' = [kind |-> x5'.kind, plugin |-> x5'.plugin, todo |-> x5'.todo]
      /\ x6'.kind = x5.kind /\ x6'.plugin = x5.plugin
      /\ x5.plugin \in Plugins!Plugin /\ Plugins!Left = 0
  BY <1>1 DEF Plugins!Idle, Plugins!Inv, Plugins!Operation, Plugins!Left
<1>3. Plugins!Operation' /\ Plugins!Progress'
  BY <1>2 DEF Plugins!Operation, Plugins!Progress, Plugins!Installing, Plugins!Updating, Plugins!Uninstalling,
     Plugins!Reporting
<1>4. Plugins!Files'
  BY <1>1, <1>2 DEF Plugins!Inv, Plugins!Files, Plugins!TypeOK, Plugins!Records, Plugins!Loads
<1>5. Plugins!Flagged'
  BY <1>1, <1>2 DEF Plugins!Inv, Plugins!Flagged, Plugins!Flags
<1>6. Plugins!SuccessIsWhole'
  <2>1. x1 \in [Plugins!Plugin -> 1..PluginVersions] /\ UNCHANGED <<Plugins!Records, Plugins!Flags>>
    BY <1>1 DEF Plugins!Inv, Plugins!Files, Plugins!TypeOK, Plugins!Records, Plugins!Flags
  <2>2. CASE x5.kind = "install"
    <3>1. /\ x2[x5.plugin] = Plugins!Whole(x1[x5.plugin]) /\ Plugins!Records[x5.plugin] = x1[x5.plugin]
          /\ Plugins!Flags[x5.plugin] = "on"
      BY <1>2, <2>2 DEF Plugins!Inv, Plugins!Progress, Plugins!Installing
    <3> QED
      BY <1>1, <1>2, <2>1, <2>2, <3>1 DEF Plugins!SuccessIsWhole, Plugins!Ended, Plugins!Loads, Plugins!Whole
  <2>3. CASE x5.kind = "update"
    <3>1. x2[x5.plugin] = Plugins!Whole(x1[x5.plugin]) /\ Plugins!Records[x5.plugin] = x1[x5.plugin]
      BY <1>2, <2>3 DEF Plugins!Inv, Plugins!Progress, Plugins!Updating
    <3> QED
      BY <1>1, <1>2, <2>1, <2>3, <3>1 DEF Plugins!SuccessIsWhole, Plugins!Ended, Plugins!Loads, Plugins!Whole
  <2>4. CASE x5.kind = "uninstall"
    <3>1. /\ x2[x5.plugin].kind = "absent" /\ Plugins!Records[x5.plugin] = 0
          /\ Plugins!Flags[x5.plugin] = "unset"
      BY <1>2, <2>4 DEF Plugins!Inv, Plugins!Progress, Plugins!Uninstalling
    <3> QED
      BY <1>1, <1>2, <2>1, <2>4, <3>1 DEF Plugins!SuccessIsWhole, Plugins!Ended
  <2> QED
    BY <1>2, <2>2, <2>3, <2>4 DEF Plugins!SuccessIsWhole, Plugins!Ended
<1>7. Plugins!LoadedMeansWhole'
  <2> SUFFICES ASSUME x5.kind = "report"
               PROVE  /\ \A p \in Plugins!Plugin : Plugins!Records'[p] # 0 => x2[p].kind = "whole"
                      /\ \A b \in PluginsBundled : Plugins!Records'[b] = x2[b].version
    BY <1>1, <1>2 DEF Plugins!LoadedMeansWhole, Plugins!Ended, Plugins!Loads
  <2>1. Plugins!Records' = Plugins!Records
    BY <1>1 DEF Plugins!Records
  <2>2. /\ \A b \in PluginsBundled : x2[b] = Plugins!Whole(x1[b]) /\ Plugins!Records[b] = x1[b]
        /\ Plugins!Stale = {} /\ Plugins!RegistryLoads
    BY <1>2 DEF Plugins!Inv, Plugins!Progress, Plugins!Reporting, Plugins!ReportLeft
  <2>3. \A p \in Plugins!Plugin : x2[p].kind \in {"absent", "bare", "broken", "whole"}
    BY DEF Plugins!Inv, Plugins!Files, Plugins!TypeOK, Plugins!Dir
  <2>4. \A b \in PluginsBundled : Plugins!Records[b] = x2[b].version
    <3>1. \A v : Plugins!Whole(v).version = v
      BY DEF Plugins!Whole
    <3> QED
      BY <2>2, <3>1, Zenon
  <2>5. \A p \in Plugins!Plugin : Plugins!Records[p] # 0 => x2[p].kind = "whole"
    BY <2>2, <2>3 DEF Plugins!Stale, Plugins!RegistryLoads
  <2> QED
    BY <2>1, <2>4, <2>5
<1> QED
  BY <1>3, <1>4, <1>5, <1>6, <1>7 DEF Plugins!Inv

\* Where the operations are when a step comes next.
LEMMA PluginWhere ==
  ASSUME Plugins!Operation, NEW s \in Plugins!Step, Plugins!At(s)
  PROVE  /\ s = "known" => \/ x5.kind = "update" /\ Plugins!Left = 5
                           \/ x5.kind = "uninstall" /\ Plugins!Left = 4
         /\ s = "fetch" => \/ x5.kind = "install" /\ Plugins!Left = 5
                           \/ x5.kind = "update" /\ Plugins!Left = 4
         /\ s = "remove" => \/ x5.kind = "install" /\ Plugins!Left = 4
                            \/ x5.kind = "update" /\ Plugins!Left = 3
                            \/ x5.kind = "uninstall" /\ Plugins!Left = 3
         /\ s = "copy" => \/ x5.kind = "install" /\ Plugins!Left = 3
                          \/ x5.kind = "update" /\ Plugins!Left = 2
         /\ s = "record" => \/ x5.kind = "install" /\ Plugins!Left = 2
                            \/ x5.kind = "update" /\ Plugins!Left = 1
         /\ s = "forget" => x5.kind = "uninstall" /\ Plugins!Left = 2
         /\ s = "unset" => x5.kind = "uninstall" /\ Plugins!Left = 1
         /\ s = "on" => x5.kind \in {"install", "enable"} /\ Plugins!Left = 1
         /\ s = "off" => x5.kind = "disable" /\ Plugins!Left = 1
         /\ s \in {"sync", "recorded", "prune", "load"} => x5.kind \in {"enable", "disable", "report"}
         /\ s = "sync" => Plugins!ReportLeft = 4
         /\ s = "recorded" => Plugins!ReportLeft = 3
         /\ s = "prune" => Plugins!ReportLeft = 2
         /\ s = "load" => Plugins!ReportLeft = 1
<1>1. Plugins!Left \in Nat /\ Plugins!Left >= 1 /\ (Plugins!Left <= 5 => Plugins!Left \in {1, 2, 3, 4, 5})
  BY PluginAt
<1>2. CASE x5.kind = "install"
  <2>1. Plugins!Left <= 5 /\ s = <<"fetch", "remove", "copy", "record", "on">>[6 - Plugins!Left]
    BY <1>2, PluginAt
  <2> QED
    BY <1>1, <1>2, <2>1
<1>3. CASE x5.kind = "update"
  <2>1. Plugins!Left <= 5 /\ s = <<"known", "fetch", "remove", "copy", "record">>[6 - Plugins!Left]
    BY <1>3, PluginAt
  <2> QED
    BY <1>1, <1>3, <2>1
<1>4. CASE x5.kind = "uninstall"
  <2>1. Plugins!Left <= 4 /\ s = <<"known", "remove", "forget", "unset">>[5 - Plugins!Left]
    BY <1>4, PluginAt
  <2> QED
    BY <1>1, <1>4, <2>1
<1>5. CASE x5.kind = "enable"
  <2>1. Plugins!Left <= 5 /\ s = <<"sync", "recorded", "prune", "load", "on">>[6 - Plugins!Left]
    BY <1>5, PluginAt
  <2>2. Plugins!ReportLeft = Plugins!Left - 1
    BY <1>5 DEF Plugins!ReportLeft
  <2> QED
    BY <1>1, <1>5, <2>1, <2>2
<1>6. CASE x5.kind = "disable"
  <2>1. Plugins!Left <= 5 /\ s = <<"sync", "recorded", "prune", "load", "off">>[6 - Plugins!Left]
    BY <1>6, PluginAt
  <2>2. Plugins!ReportLeft = Plugins!Left - 1
    BY <1>6 DEF Plugins!ReportLeft
  <2> QED
    BY <1>1, <1>6, <2>1, <2>2
<1>7. CASE x5.kind = "report"
  <2>1. Plugins!Left <= 4 /\ s = <<"sync", "recorded", "prune", "load">>[5 - Plugins!Left]
    BY <1>7, PluginAt
  <2>2. Plugins!ReportLeft = Plugins!Left
    BY <1>7 DEF Plugins!ReportLeft
  <2> QED
    BY <1>1, <1>7, <2>1, <2>2
<1> QED
  BY <1>2, <1>3, <1>4, <1>5, <1>6, <1>7, PluginAt, Zenon

\* A step leaves the flags of those who are off alone, unless it writes them.
LEMMA PluginFlagged ==
  ASSUME Plugins!Inv, UNCHANGED <<x4, x7, x8>>,
         \/ x5'.kind = "none"
         \/ x5'.kind = x5.kind /\ x5'.plugin = x5.plugin /\ x5.kind # "disable"
         \/ x5'.kind = x5.kind /\ x5'.plugin = x5.plugin /\ ~(Plugins!Left' <= 0)
         \/ x5'.kind = x5.kind /\ x5'.plugin = x5.plugin /\ Plugins!Left' = Plugins!Left
  PROVE  Plugins!Flagged'
<1>1. Plugins!Flags' = Plugins!Flags
  BY DEF Plugins!Flags
<1> QED
  BY <1>1 DEF Plugins!Inv, Plugins!Flagged

\* The operation ends without success.
LEMMA PluginFails ==
  ASSUME Plugins!Inv, NEW r \in {"error", "cut"}, Plugins!Return(r), Plugins!Files', UNCHANGED <<x4, x7, x8>>
  PROVE  Plugins!Inv'
<1>1. /\ Plugins!Operation' /\ Plugins!Progress' /\ Plugins!SuccessIsWhole' /\ Plugins!LoadedMeansWhole'
      /\ x5'.kind = "none"
  BY PluginReturns
<1> QED
  BY <1>1, PluginFlagged DEF Plugins!Inv

\* The operation goes on to its next step.
LEMMA PluginMoves ==
  ASSUME Plugins!Inv, NEW s \in Plugins!Step, Plugins!At(s), Plugins!GoOn,
         Plugins!Files', Plugins!Progress', Plugins!Flagged'
  PROVE  Plugins!Inv'
<1>1. Plugins!Operation' /\ x5'.kind = x5.kind /\ x5.kind # "none"
  BY PluginGoesOn, PluginAt DEF Plugins!Inv
<1> QED
  BY <1>1, PluginBusy DEF Plugins!Inv

LEMMA PluginFetch == Plugins!Inv /\ Plugins!Fetch => Plugins!Inv'
<1> SUFFICES ASSUME Plugins!Inv, Plugins!Fetch PROVE Plugins!Inv'
  OBVIOUS
<1>1. Plugins!At("fetch") /\ UNCHANGED <<x1, x2, x3, x4, x7, x8>> /\ (Plugins!GoOn \/ Plugins!Return("error"))
  BY DEF Plugins!Fetch
<1>2. Plugins!Files' /\ "fetch" \in Plugins!Step
  BY <1>1, PluginFilesKept DEF Plugins!Inv, Plugins!Step
<1>3. CASE Plugins!GoOn
  <2>1. \/ x5'.kind = "install" /\ Plugins!Left' = 4
        \/ x5'.kind = "update" /\ Plugins!Left' = 3
    BY <1>1, <1>2, <1>3, PluginWhere, PluginGoesOn DEF Plugins!Inv
  <2>2. Plugins!Progress'
    BY <2>1 DEF Plugins!Progress, Plugins!Installing, Plugins!Updating, Plugins!Uninstalling, Plugins!Reporting
  <2>3. Plugins!Flagged'
    BY <1>1, <1>2, <1>3, <2>1, PluginFlagged, PluginGoesOn DEF Plugins!Inv
  <2> QED
    BY <1>1, <1>2, <1>3, <2>2, <2>3, PluginMoves
<1> QED
  BY <1>1, <1>2, <1>3, PluginFails

LEMMA PluginKnown == Plugins!Inv /\ Plugins!Known => Plugins!Inv'
<1> SUFFICES ASSUME Plugins!Inv, Plugins!Known PROVE Plugins!Inv'
  OBVIOUS
<1>1. /\ Plugins!At("known") /\ UNCHANGED <<x1, x2, x3, x4, x7, x8>>
      /\ \/ Plugins!GoOn /\ (x5.kind = "uninstall" => x5.plugin \notin PluginsBundled)
         \/ Plugins!Return("error")
  BY DEF Plugins!Known
<1>2. Plugins!Files' /\ "known" \in Plugins!Step
  BY <1>1, PluginFilesKept DEF Plugins!Inv, Plugins!Step
<1>3. CASE Plugins!GoOn /\ (x5.kind = "uninstall" => x5.plugin \notin PluginsBundled)
  <2>1. \/ x5'.kind = "update" /\ Plugins!Left' = 4
        \/ x5'.kind = "uninstall" /\ Plugins!Left' = 3 /\ x5'.plugin \notin PluginsBundled
    BY <1>1, <1>2, <1>3, PluginWhere, PluginGoesOn DEF Plugins!Inv
  <2>2. Plugins!Progress'
    BY <2>1 DEF Plugins!Progress, Plugins!Installing, Plugins!Updating, Plugins!Uninstalling, Plugins!Reporting
  <2>3. Plugins!Flagged'
    BY <1>1, <1>2, <1>3, <2>1, PluginFlagged, PluginGoesOn DEF Plugins!Inv
  <2> QED
    BY <1>1, <1>2, <1>3, <2>2, <2>3, PluginMoves
<1> QED
  BY <1>1, <1>2, <1>3, PluginFails

\* A directory changes, and nothing else.
LEMMA PluginDir ==
  ASSUME Plugins!Inv, NEW p \in Plugins!Plugin, NEW d \in Plugins!Dir, x2' = [x2 EXCEPT ![p] = d],
         UNCHANGED <<x1, x3, x4, x7>>, d.kind = "whole" => d = Plugins!Whole(x1[p])
  PROVE  /\ Plugins!Files' /\ Plugins!Records' = Plugins!Records
         /\ x2'[p] = d /\ \A q \in Plugins!Plugin \ {p} : x2'[q] = x2[q]
<1>1. Plugins!Records' = Plugins!Records
  BY DEF Plugins!Records
<1>2. /\ x1 \in [Plugins!Plugin -> 1..PluginVersions] /\ x2 \in [Plugins!Plugin -> Plugins!Dir]
      /\ x2' \in [Plugins!Plugin -> Plugins!Dir]
      /\ x2'[p] = d /\ \A q \in Plugins!Plugin \ {p} : x2'[q] = x2[q]
  BY DEF Plugins!Inv, Plugins!Files, Plugins!TypeOK
<1>3. Plugins!TypeOK'
  BY <1>2 DEF Plugins!Inv, Plugins!Files, Plugins!TypeOK
<1>4. \A q \in Plugins!Plugin :
        /\ Plugins!Records[q] <= x1[q]
        /\ x2[q].kind = "whole" => Plugins!Records[q] <= x2[q].version /\ x2[q].version <= x1[q]
  BY DEF Plugins!Inv, Plugins!Files, Plugins!Loads
<1>5. d.kind = "whole" => d.version = x1[p]
  BY DEF Plugins!Whole
<1>6. x1[p] <= x1[p]
  BY <1>2
<1>7. \A q \in Plugins!Plugin :
        /\ Plugins!Records[q] <= x1[q]
        /\ x2'[q].kind = "whole" => Plugins!Records[q] <= x2'[q].version /\ x2'[q].version <= x1[q]
  <2> SUFFICES ASSUME NEW q \in Plugins!Plugin, x2'[q].kind = "whole"
               PROVE  Plugins!Records[q] <= x2'[q].version /\ x2'[q].version <= x1[q]
    BY <1>4
  <2>1. CASE q = p
    <3>1. x2'[q].version = x1[q]
      BY <1>2, <1>5, <2>1
    <3> QED
      BY <1>4, <1>6, <2>1, <3>1
  <2>2. CASE q # p
    BY <1>2, <1>4, <2>2
  <2> QED
    BY <2>1, <2>2
<1> QED
  BY <1>1, <1>2, <1>3, <1>7 DEF Plugins!Files, Plugins!Loads

LEMMA PluginPartial ==
  /\ \A d \in Plugins!Partial : d \in Plugins!Dir /\ d.kind # "whole"
  /\ Plugins!Gone("absent") \in Plugins!Dir /\ Plugins!Gone("absent").kind = "absent"
BY DEF Plugins!Partial, Plugins!Gone, Plugins!Dir

LEMMA PluginWhole ==
  ASSUME NEW v \in 1..PluginVersions
  PROVE  Plugins!Whole(v) \in Plugins!Dir /\ Plugins!Whole(v).kind = "whole" /\ Plugins!Whole(v).version = v
BY DEF Plugins!Whole, Plugins!Dir

LEMMA PluginRemove == Plugins!Inv /\ Plugins!Remove => Plugins!Inv'
<1> SUFFICES ASSUME Plugins!Inv, Plugins!Remove PROVE Plugins!Inv'
  OBVIOUS
<1>1. /\ Plugins!At("remove") /\ UNCHANGED <<x1, x3, x4, x7, x8>>
      /\ \/ Plugins!GoOn /\ x2' = [x2 EXCEPT ![x5.plugin] = Plugins!Gone("absent")]
         \/ Plugins!Return("cut") /\ \E d \in Plugins!Partial : x2' = [x2 EXCEPT ![x5.plugin] = d]
  BY DEF Plugins!Remove, Plugins!Cut
<1>2. x5.plugin \in Plugins!Plugin /\ "remove" \in Plugins!Step
  BY <1>1, PluginAt DEF Plugins!Inv, Plugins!Step
<1>3. CASE Plugins!GoOn /\ x2' = [x2 EXCEPT ![x5.plugin] = Plugins!Gone("absent")]
  <2>1. Plugins!Files' /\ x2'[x5.plugin].kind = "absent"
    <3>1. Plugins!Files' /\ x2'[x5.plugin] = Plugins!Gone("absent")
      BY <1>1, <1>2, <1>3, PluginPartial, PluginDir
    <3> QED
      BY <3>1, PluginPartial
  <2>2. /\ x5'.plugin = x5.plugin
        /\ \/ x5'.kind = "install" /\ Plugins!Left' = 3
           \/ x5'.kind = "update" /\ Plugins!Left' = 2
           \/ x5.kind = "uninstall" /\ x5'.kind = "uninstall" /\ Plugins!Left = 3 /\ Plugins!Left' = 2
    BY <1>1, <1>2, <1>3, PluginWhere, PluginGoesOn DEF Plugins!Inv
  <2>3. x5.kind = "uninstall" /\ Plugins!Left = 3 => x5.plugin \notin PluginsBundled
    BY DEF Plugins!Inv, Plugins!Progress, Plugins!Uninstalling
  <2>4. Plugins!Progress'
    BY <2>1, <2>2, <2>3 DEF Plugins!Progress, Plugins!Installing, Plugins!Updating, Plugins!Uninstalling,
       Plugins!Reporting
  <2>5. Plugins!Flagged'
    BY <1>1, <1>2, <1>3, <2>2, PluginFlagged, PluginGoesOn DEF Plugins!Inv
  <2> QED
    BY <1>1, <1>2, <1>3, <2>1, <2>4, <2>5, PluginMoves
<1>4. CASE Plugins!Return("cut") /\ \E d \in Plugins!Partial : x2' = [x2 EXCEPT ![x5.plugin] = d]
  <2>1. Plugins!Files'
    BY <1>1, <1>2, <1>4, PluginPartial, PluginDir
  <2> QED
    BY <1>1, <1>4, <2>1, PluginFails
<1> QED
  BY <1>1, <1>3, <1>4

LEMMA PluginCopy == Plugins!Inv /\ Plugins!Copy => Plugins!Inv'
<1> SUFFICES ASSUME Plugins!Inv, Plugins!Copy PROVE Plugins!Inv'
  OBVIOUS
<1>1. /\ Plugins!At("copy") /\ UNCHANGED <<x1, x3, x4, x7, x8>>
      /\ \/ Plugins!GoOn /\ x2' = [x2 EXCEPT ![x5.plugin] = Plugins!Whole(x1[x5.plugin])]
         \/ Plugins!Return("cut") /\ \E d \in Plugins!Partial : x2' = [x2 EXCEPT ![x5.plugin] = d]
  BY DEF Plugins!Copy, Plugins!Cut
<1>2. x5.plugin \in Plugins!Plugin /\ "copy" \in Plugins!Step
  BY <1>1, PluginAt DEF Plugins!Inv, Plugins!Step
<1>3. CASE Plugins!GoOn /\ x2' = [x2 EXCEPT ![x5.plugin] = Plugins!Whole(x1[x5.plugin])]
  <2>1. Plugins!Files' /\ x2'[x5.plugin] = Plugins!Whole(x1[x5.plugin])
    <3>1. x1[x5.plugin] \in 1..PluginVersions
      BY <1>2 DEF Plugins!Inv, Plugins!Files, Plugins!TypeOK
    <3>2. PICK d \in Plugins!Dir : d = Plugins!Whole(x1[x5.plugin])
      BY <3>1, PluginWhole
    <3> QED
      BY <1>1, <1>2, <1>3, <3>2, PluginDir
  <2>2. /\ x5'.plugin = x5.plugin
        /\ \/ x5'.kind = "install" /\ Plugins!Left' = 2
           \/ x5'.kind = "update" /\ Plugins!Left' = 1
    BY <1>1, <1>2, <1>3, PluginWhere, PluginGoesOn DEF Plugins!Inv
  <2>3. Plugins!Progress'
    <3>1. x2'[x5'.plugin] = Plugins!Whole(x1'[x5'.plugin])
      BY <1>1, <2>1, <2>2
    <3> QED
      BY <2>2, <3>1 DEF Plugins!Progress, Plugins!Installing, Plugins!Updating, Plugins!Uninstalling,
         Plugins!Reporting
  <2>4. Plugins!Flagged'
    BY <1>1, <1>2, <1>3, <2>2, PluginFlagged, PluginGoesOn DEF Plugins!Inv
  <2> QED
    BY <1>1, <1>2, <1>3, <2>1, <2>3, <2>4, PluginMoves
<1>4. CASE Plugins!Return("cut") /\ \E d \in Plugins!Partial : x2' = [x2 EXCEPT ![x5.plugin] = d]
  <2>1. Plugins!Files'
    BY <1>1, <1>2, <1>4, PluginPartial, PluginDir
  <2> QED
    BY <1>1, <1>4, <2>1, PluginFails
<1> QED
  BY <1>1, <1>3, <1>4

LEMMA PluginCrash == Plugins!Inv /\ Plugins!Crash => Plugins!Inv'
<1> SUFFICES ASSUME Plugins!Inv, Plugins!Crash PROVE Plugins!Inv'
  OBVIOUS
<1>1. Plugins!Return("cut") /\ UNCHANGED <<x1, x2, x3, x4, x7, x8>>
  BY DEF Plugins!Crash, Plugins!Cut
<1>2. Plugins!Files'
  BY <1>1, PluginFilesKept DEF Plugins!Inv
<1> QED
  BY <1>1, <1>2, PluginFails

\* The registry is stored, or the store is cut off and there are no records left.
LEMMA PluginStored ==
  ASSUME Plugins!Inv, NEW r \in [Plugins!Plugin -> 0..PluginVersions], Plugins!Store(r),
         UNCHANGED <<x1, x2, x4, x7>>,
         \A p \in Plugins!Plugin : /\ r[p] <= x1[p]
                                   /\ x2[p].kind = "whole" => r[p] <= x2[p].version
  PROVE  /\ Plugins!Files'
         /\ \/ Plugins!GoOn /\ Plugins!Records' = r
            \/ Plugins!Return("cut")
<1>1. /\ x1 \in [Plugins!Plugin -> 1..PluginVersions] /\ x2 \in [Plugins!Plugin -> Plugins!Dir]
      /\ Plugins!NoRecords \in [Plugins!Plugin -> 0..PluginVersions]
      /\ \A p \in Plugins!Plugin : Plugins!NoRecords[p] = 0
      /\ \A p \in Plugins!Plugin : x2[p].kind = "whole" => x2[p].version <= x1[p]
  BY ProgramAssumption DEF Plugins!Inv, Plugins!Files, Plugins!TypeOK, Plugins!NoRecords, Plugins!Loads
<1>2. \A p \in Plugins!Plugin : x1[p] \in 1..PluginVersions /\ x2[p].version \in 0..PluginVersions
  BY <1>1, ProgramAssumption DEF Plugins!Dir
<1>3. PICK rec \in [Plugins!Plugin -> 0..PluginVersions] :
        /\ x3' \in [state : Plugins!FileState, records : [Plugins!Plugin -> 0..PluginVersions]]
        /\ Plugins!Records' = rec
        /\ \/ Plugins!GoOn /\ rec = r
           \/ Plugins!Return("cut") /\ rec = Plugins!NoRecords
  <2>1. CASE Plugins!GoOn /\ x3' = [state |-> "read", records |-> r]
    <3>1. Plugins!Records' = r
      BY <2>1 DEF Plugins!Records
    <3>2. x3' \in [state : Plugins!FileState, records : [Plugins!Plugin -> 0..PluginVersions]]
      BY <2>1 DEF Plugins!FileState
    <3> QED
      BY <2>1, <3>1, <3>2
  <2>2. CASE Plugins!Return("cut") /\ \E s \in {"empty", "garbled"} : x3' = [state |-> s, records |-> Plugins!NoRecords]
    <3>1. Plugins!Records' = Plugins!NoRecords
      BY <2>2 DEF Plugins!Records, Plugins!NoRecords
    <3>2. x3' \in [state : Plugins!FileState, records : [Plugins!Plugin -> 0..PluginVersions]]
      BY <1>1, <2>2 DEF Plugins!FileState
    <3> QED
      BY <1>1, <2>2, <3>1, <3>2
  <2> QED
    BY <2>1, <2>2 DEF Plugins!Store, Plugins!Cut
<1>4. \A p \in Plugins!Plugin :
        /\ rec[p] <= x1[p]
        /\ x2[p].kind = "whole" => rec[p] <= x2[p].version /\ x2[p].version <= x1[p]
  BY <1>1, <1>2, <1>3
<1>5. Plugins!TypeOK'
  BY <1>3 DEF Plugins!Inv, Plugins!Files, Plugins!TypeOK
<1>6. Plugins!Files'
  BY <1>3, <1>4, <1>5 DEF Plugins!Files, Plugins!Loads
<1> QED
  BY <1>3, <1>6

\* The records as they are.
LEMMA PluginRecords ==
  ASSUME Plugins!Inv
  PROVE  /\ Plugins!Records \in [Plugins!Plugin -> 0..PluginVersions]
         /\ x1 \in [Plugins!Plugin -> 1..PluginVersions]
         /\ \A p \in Plugins!Plugin :
              /\ Plugins!Records[p] <= x1[p]
              /\ x2[p].kind = "whole" => Plugins!Records[p] <= x2[p].version /\ x2[p].version <= x1[p]
BY ProgramAssumption DEF Plugins!Inv, Plugins!Files, Plugins!TypeOK, Plugins!Records, Plugins!NoRecords, Plugins!Loads

LEMMA PluginRecord == Plugins!Inv /\ Plugins!Record => Plugins!Inv'
<1> SUFFICES ASSUME Plugins!Inv, Plugins!Record PROVE Plugins!Inv'
  OBVIOUS
<1> DEFINE r == [Plugins!Records EXCEPT ![x5.plugin] = x1[x5.plugin]]
<1>1. /\ Plugins!At("record") /\ UNCHANGED <<x1, x2, x4, x7, x8>>
      /\ \/ Plugins!Return("error") /\ UNCHANGED x3
         \/ Plugins!Store(r)
  BY DEF Plugins!Record
<1>2. x5.plugin \in Plugins!Plugin /\ "record" \in Plugins!Step
  BY <1>1, PluginAt DEF Plugins!Inv, Plugins!Step
<1>3. \/ x5.kind = "install" /\ Plugins!Left = 2
      \/ x5.kind = "update" /\ Plugins!Left = 1
  BY <1>1, <1>2, PluginWhere DEF Plugins!Inv
<1>4. x2[x5.plugin] = Plugins!Whole(x1[x5.plugin]) /\ x2[x5.plugin].version = x1[x5.plugin]
  <2>1. x2[x5.plugin] = Plugins!Whole(x1[x5.plugin])
    BY <1>3 DEF Plugins!Inv, Plugins!Progress, Plugins!Installing, Plugins!Updating
  <2>2. \A v : Plugins!Whole(v).version = v
    BY DEF Plugins!Whole
  <2> QED
    BY <2>1, <2>2, Zenon
<1>5. CASE Plugins!Return("error") /\ UNCHANGED x3
  BY <1>1, <1>5, PluginFilesKept, PluginFails DEF Plugins!Inv
<1>6. CASE Plugins!Store(r)
  <2>1. /\ r \in [Plugins!Plugin -> 0..PluginVersions] /\ r[x5.plugin] = x1[x5.plugin]
        /\ \A p \in Plugins!Plugin \ {x5.plugin} : r[p] = Plugins!Records[p]
    BY <1>2, PluginRecords
  <2>2. x1[x5.plugin] <= x1[x5.plugin]
    BY <1>2, PluginRecords
  <2> HIDE DEF r
  <2>3. \A p \in Plugins!Plugin : r[p] <= x1[p] /\ (x2[p].kind = "whole" => r[p] <= x2[p].version)
    BY <1>4, <2>1, <2>2, PluginRecords
  <2>4. /\ Plugins!Files'
        /\ \/ Plugins!GoOn /\ Plugins!Records' = r
           \/ Plugins!Return("cut")
    BY <1>1, <1>6, <2>1, <2>3, PluginStored
  <2>5. CASE Plugins!GoOn /\ Plugins!Records' = r
    <3>1. /\ x5'.plugin = x5.plugin
          /\ \/ x5'.kind = "install" /\ Plugins!Left' = 1
             \/ x5'.kind = "update" /\ Plugins!Left' = 0
      BY <1>1, <1>2, <1>3, <2>5, PluginGoesOn DEF Plugins!Inv
    <3>2. x2'[x5'.plugin] = Plugins!Whole(x1'[x5'.plugin]) /\ Plugins!Records'[x5'.plugin] = x1'[x5'.plugin]
      BY <1>1, <1>4, <2>1, <2>5, <3>1
    <3>3. Plugins!Progress'
      BY <3>1, <3>2 DEF Plugins!Progress, Plugins!Installing, Plugins!Updating, Plugins!Uninstalling,
         Plugins!Reporting
    <3>4. Plugins!Flagged'
      <4>1. x5'.kind = x5.kind /\ x5.kind # "disable"
        BY <1>3, <1>1, <1>2, <2>5, PluginGoesOn DEF Plugins!Inv
      <4> QED
        BY <1>1, <3>1, <4>1, PluginFlagged
    <3> QED
      BY <1>1, <1>2, <2>4, <2>5, <3>3, <3>4, PluginMoves
  <2> QED
    BY <1>1, <2>4, <2>5, PluginFails
<1> QED
  BY <1>1, <1>5, <1>6

LEMMA PluginForget == Plugins!Inv /\ Plugins!Forget => Plugins!Inv'
<1> SUFFICES ASSUME Plugins!Inv, Plugins!Forget PROVE Plugins!Inv'
  OBVIOUS
<1> DEFINE r == [Plugins!Records EXCEPT ![x5.plugin] = 0]
<1>1. Plugins!At("forget") /\ UNCHANGED <<x1, x2, x4, x7, x8>> /\ Plugins!Store(r)
  BY DEF Plugins!Forget
<1>2. x5.plugin \in Plugins!Plugin /\ "forget" \in Plugins!Step
  BY <1>1, PluginAt DEF Plugins!Inv, Plugins!Step
<1>3. x5.kind = "uninstall" /\ Plugins!Left = 2
  BY <1>1, <1>2, PluginWhere DEF Plugins!Inv
<1>4. x2[x5.plugin].kind = "absent" /\ x5.plugin \notin PluginsBundled
  BY <1>3 DEF Plugins!Inv, Plugins!Progress, Plugins!Uninstalling
<1>5. /\ r \in [Plugins!Plugin -> 0..PluginVersions] /\ r[x5.plugin] = 0
      /\ \A p \in Plugins!Plugin \ {x5.plugin} : r[p] = Plugins!Records[p]
  BY <1>2, ProgramAssumption, PluginRecords
<1>6. 0 <= x1[x5.plugin]
  BY <1>2, ProgramAssumption, PluginRecords
<1> HIDE DEF r
<1>7. \A p \in Plugins!Plugin : r[p] <= x1[p] /\ (x2[p].kind = "whole" => r[p] <= x2[p].version)
  BY <1>4, <1>5, <1>6, PluginRecords
<1>8. /\ Plugins!Files'
      /\ \/ Plugins!GoOn /\ Plugins!Records' = r
         \/ Plugins!Return("cut")
  BY <1>1, <1>5, <1>7, PluginStored
<1>9. CASE Plugins!GoOn /\ Plugins!Records' = r
  <2>1. x5'.plugin = x5.plugin /\ x5'.kind = "uninstall" /\ x5'.kind = x5.kind /\ Plugins!Left' = 1
    BY <1>1, <1>2, <1>3, <1>9, PluginGoesOn DEF Plugins!Inv
  <2>2. Plugins!Progress'
    BY <1>1, <1>4, <1>5, <1>9, <2>1 DEF Plugins!Progress, Plugins!Installing, Plugins!Updating, Plugins!Uninstalling,
       Plugins!Reporting
  <2>3. Plugins!Flagged'
    BY <1>1, <2>1, PluginFlagged
  <2> QED
    BY <1>1, <1>2, <1>8, <1>9, <2>2, <2>3, PluginMoves
<1> QED
  BY <1>1, <1>8, <1>9, PluginFails

\* A report goes on to its next step; whether somebody is off does not depend on it.
LEMMA PluginReports ==
  ASSUME Plugins!Inv, NEW s \in {"sync", "recorded", "prune", "load"}, Plugins!At(s), Plugins!GoOn,
         UNCHANGED <<x4, x7, x8>>
  PROVE  /\ Plugins!ReportLeft' = Plugins!ReportLeft - 1
         /\ s = "sync" => Plugins!ReportLeft = 4
         /\ s = "recorded" => Plugins!ReportLeft = 3
         /\ s = "prune" => Plugins!ReportLeft = 2
         /\ s = "load" => Plugins!ReportLeft = 1
         /\ Plugins!Reporting' => Plugins!Progress'
         /\ Plugins!Flagged'
<1>1. /\ Plugins!Left \in Nat /\ x5'.kind = x5.kind /\ x5'.plugin = x5.plugin /\ Plugins!Left' = Plugins!Left - 1
      /\ s \in Plugins!Step
  BY PluginAt, PluginGoesOn DEF Plugins!Inv, Plugins!Step
<1>2. /\ x5.kind \in {"enable", "disable", "report"}
      /\ s = "sync" => Plugins!ReportLeft = 4
      /\ s = "recorded" => Plugins!ReportLeft = 3
      /\ s = "prune" => Plugins!ReportLeft = 2
      /\ s = "load" => Plugins!ReportLeft = 1
  BY <1>1, PluginWhere DEF Plugins!Inv
<1>3. Plugins!ReportLeft' = Plugins!ReportLeft - 1 /\ Plugins!ReportLeft >= 1
  BY <1>1, <1>2 DEF Plugins!ReportLeft
<1>4. Plugins!Reporting' => Plugins!Progress'
  BY <1>1, <1>2 DEF Plugins!Progress, Plugins!Installing, Plugins!Updating, Plugins!Uninstalling
<1>5. x5.kind = "disable" => ~(Plugins!Left' <= 0)
  BY <1>1, <1>3 DEF Plugins!ReportLeft
<1>6. Plugins!Flagged'
  BY <1>1, <1>5, PluginFlagged
<1> QED
  BY <1>2, <1>3, <1>4, <1>6

\* What a report has done before each of its steps.
LEMMA PluginReported ==
  ASSUME Plugins!Inv, NEW s \in {"sync", "recorded", "prune", "load"}, Plugins!At(s)
  PROVE  /\ s # "sync" => \A b \in PluginsBundled : x2[b] = Plugins!Whole(x1[b])
         /\ s \in {"prune", "load"} => \A b \in PluginsBundled : Plugins!Records[b] = x1[b]
         /\ s = "load" => Plugins!Stale = {}
<1>1. s \in Plugins!Step
  BY DEF Plugins!Step
<1>2. /\ x5.kind \in {"enable", "disable", "report"}
      /\ s = "recorded" => Plugins!ReportLeft = 3
      /\ s = "prune" => Plugins!ReportLeft = 2
      /\ s = "load" => Plugins!ReportLeft = 1
  BY <1>1, PluginWhere DEF Plugins!Inv
<1> QED
  BY <1>2 DEF Plugins!Inv, Plugins!Progress, Plugins!Reporting

\* A bundled plugin that needs no copy has the version of its source, in its directory and on record.
LEMMA PluginSynced ==
  ASSUME Plugins!Inv, NEW b \in PluginsBundled, ~Plugins!NeedsSync(b)
  PROVE  x2[b] = Plugins!Whole(x1[b])
<1>1. b \in Plugins!Plugin
  BY DEF Plugins!Plugin
<1>2. Plugins!Records[b] = x1[b] /\ x2[b].kind = "whole"
  BY DEF Plugins!NeedsSync
<1>3. x1[b] \in 1..PluginVersions /\ x1[b] <= x2[b].version /\ x2[b].version <= x1[b]
  BY <1>1, <1>2, PluginRecords
<1>4. x2[b] \in [kind : {"whole"}, version : 1..PluginVersions]
  BY <1>1, <1>2 DEF Plugins!Inv, Plugins!Files, Plugins!TypeOK, Plugins!Dir
<1>5. x2[b].version = x1[b]
  BY <1>3, <1>4
<1> QED
  BY <1>4, <1>5 DEF Plugins!Whole

LEMMA PluginSync == Plugins!Inv /\ Plugins!Sync => Plugins!Inv'
<1> SUFFICES ASSUME Plugins!Inv, Plugins!Sync PROVE Plugins!Inv'
  OBVIOUS
<1>1. /\ Plugins!At("sync") /\ UNCHANGED <<x1, x3, x4, x7, x8>>
      /\ \/ Plugins!Return("error") /\ UNCHANGED x2
         \/ Plugins!GoOn /\ x2' = [p \in Plugins!Plugin |->
              IF p \in PluginsBundled /\ Plugins!NeedsSync(p) THEN Plugins!Whole(x1[p]) ELSE x2[p]]
         \/ Plugins!Return("cut") /\ \E p \in PluginsBundled, d \in Plugins!Partial : x2' = [x2 EXCEPT ![p] = d]
  BY DEF Plugins!Sync, Plugins!Cut
<1>2. CASE Plugins!Return("error") /\ UNCHANGED x2
  BY <1>1, <1>2, PluginFilesKept, PluginFails DEF Plugins!Inv
<1>3. CASE Plugins!Return("cut") /\ \E p \in PluginsBundled, d \in Plugins!Partial : x2' = [x2 EXCEPT ![p] = d]
  <2>1. PluginsBundled \subseteq Plugins!Plugin
    BY DEF Plugins!Plugin
  <2>2. Plugins!Files'
    BY <1>1, <1>3, <2>1, PluginPartial, PluginDir
  <2> QED
    BY <1>1, <1>3, <2>2, PluginFails
<1>4. CASE Plugins!GoOn /\ x2' = [p \in Plugins!Plugin |->
             IF p \in PluginsBundled /\ Plugins!NeedsSync(p) THEN Plugins!Whole(x1[p]) ELSE x2[p]]
  <2>1. \A p \in Plugins!Plugin : x2'[p] = x2[p] \/ x2'[p] = Plugins!Whole(x1[p])
    BY <1>4, Zenon
  <2>2. \A b \in PluginsBundled : b \in Plugins!Plugin /\ x2'[b] = Plugins!Whole(x1[b])
    <3>1. \A b \in PluginsBundled : b \in Plugins!Plugin
      BY DEF Plugins!Plugin
    <3>2. \A b \in PluginsBundled : x2'[b] = IF Plugins!NeedsSync(b) THEN Plugins!Whole(x1[b]) ELSE x2[b]
      BY <1>4, <3>1, Zenon
    <3> QED
      BY <3>1, <3>2, PluginSynced, Zenon
  <2>3. Plugins!Records' = Plugins!Records
    BY <1>1 DEF Plugins!Records
  <2>4. \A p \in Plugins!Plugin : x2[p] \in Plugins!Dir /\ x1[p] \in 1..PluginVersions /\ x1[p] <= x1[p]
    BY DEF Plugins!Inv, Plugins!Files, Plugins!TypeOK
  <2>5. \A p \in Plugins!Plugin :
          /\ x2'[p] \in Plugins!Dir
          /\ x2'[p].kind = "whole" => Plugins!Records[p] <= x2'[p].version /\ x2'[p].version <= x1[p]
    <3> SUFFICES ASSUME NEW p \in Plugins!Plugin
                 PROVE  /\ x2'[p] \in Plugins!Dir
                        /\ x2'[p].kind = "whole" => Plugins!Records[p] <= x2'[p].version /\ x2'[p].version <= x1[p]
      OBVIOUS
    <3>1. CASE x2'[p] = x2[p]
      BY <2>4, <3>1, PluginRecords
    <3>2. CASE x2'[p] = Plugins!Whole(x1[p])
      <4>1. Plugins!Whole(x1[p]) \in Plugins!Dir /\ Plugins!Whole(x1[p]).version = x1[p]
        BY <2>4, PluginWhole
      <4>2. x2'[p] \in Plugins!Dir /\ x2'[p].version = x1[p]
        BY <3>2, <4>1
      <4> QED
        BY <2>4, <4>2, PluginRecords
    <3> QED
      BY <2>1, <3>1, <3>2
  <2>6. x2' \in [Plugins!Plugin -> Plugins!Dir]
    <3>1. x2' = [p \in Plugins!Plugin |-> x2'[p]]
      BY <1>4
    <3> QED
      BY <2>5, <3>1
  <2>7. Plugins!Files'
    BY <1>1, <2>3, <2>5, <2>6, PluginRecords DEF Plugins!Inv, Plugins!Files, Plugins!TypeOK, Plugins!Loads
  <2>8. Plugins!Reporting'
    <3>1. Plugins!ReportLeft' = 3
      BY <1>1, <1>4, PluginReports
    <3> QED
      BY <1>1, <2>2, <3>1 DEF Plugins!Reporting
  <2>9. Plugins!Progress' /\ Plugins!Flagged' /\ "sync" \in Plugins!Step
    BY <1>1, <1>4, <2>8, PluginReports DEF Plugins!Step
  <2> QED
    BY <1>1, <1>4, <2>7, <2>9, PluginMoves
<1> QED
  BY <1>1, <1>2, <1>3, <1>4

LEMMA PluginRecorded == Plugins!Inv /\ Plugins!Recorded => Plugins!Inv'
<1> SUFFICES ASSUME Plugins!Inv, Plugins!Recorded PROVE Plugins!Inv'
  OBVIOUS
<1> DEFINE r == [p \in Plugins!Plugin |-> IF p \in PluginsBundled THEN x1[p] ELSE Plugins!Records[p]]
<1>1. /\ Plugins!At("recorded") /\ UNCHANGED <<x1, x2, x4, x7, x8>>
      /\ \/ Plugins!GoOn /\ UNCHANGED x3 /\ r = Plugins!Records
         \/ Plugins!Store(r)
  BY DEF Plugins!Recorded
<1>2. /\ \A b \in PluginsBundled : b \in Plugins!Plugin /\ x2[b] = Plugins!Whole(x1[b]) /\ x2[b].version = x1[b]
      /\ "recorded" \in Plugins!Step
  <2>1. \A b \in PluginsBundled : x2[b] = Plugins!Whole(x1[b])
    BY <1>1, PluginReported
  <2>2. \A v : Plugins!Whole(v).version = v
    BY DEF Plugins!Whole
  <2>3. \A b \in PluginsBundled : x2[b].version = x1[b]
    BY <2>1, <2>2, Zenon
  <2> QED
    BY <2>1, <2>3 DEF Plugins!Plugin, Plugins!Step
<1>3. /\ r \in [Plugins!Plugin -> 0..PluginVersions]
      /\ \A b \in PluginsBundled : r[b] = x1[b]
      /\ \A p \in Plugins!Plugin \ PluginsBundled : r[p] = Plugins!Records[p]
  BY <1>2, PluginRecords, ProgramAssumption
<1> HIDE DEF r
<1>4. \A p \in Plugins!Plugin : r[p] <= x1[p] /\ (x2[p].kind = "whole" => r[p] <= x2[p].version)
  <2>1. \A p \in Plugins!Plugin : x1[p] <= x1[p]
    BY PluginRecords
  <2> QED
    BY <1>2, <1>3, <2>1, PluginRecords
<1>5. /\ Plugins!Files'
      /\ \/ Plugins!GoOn /\ Plugins!Records' = r
         \/ Plugins!Return("cut")
  <2>1. CASE Plugins!GoOn /\ UNCHANGED x3 /\ r = Plugins!Records
    <3>1. Plugins!Records' = Plugins!Records
      BY <2>1 DEF Plugins!Records
    <3> QED
      BY <1>1, <2>1, <3>1, PluginFilesKept DEF Plugins!Inv
  <2>2. CASE Plugins!Store(r)
    BY <1>1, <1>3, <1>4, <2>2, PluginStored
  <2> QED
    BY <1>1, <2>1, <2>2
<1>6. CASE Plugins!GoOn /\ Plugins!Records' = r
  <2>1. Plugins!ReportLeft' = 2
    BY <1>1, <1>6, PluginReports
  <2>2. Plugins!Reporting'
    BY <1>1, <1>2, <1>3, <1>6, <2>1 DEF Plugins!Reporting
  <2>3. Plugins!Progress' /\ Plugins!Flagged'
    BY <1>1, <1>6, <2>2, PluginReports
  <2> QED
    BY <1>1, <1>2, <1>5, <1>6, <2>3, PluginMoves
<1> QED
  BY <1>1, <1>5, <1>6, PluginFails

LEMMA PluginPrune == Plugins!Inv /\ Plugins!Prune => Plugins!Inv'
<1> SUFFICES ASSUME Plugins!Inv, Plugins!Prune PROVE Plugins!Inv'
  OBVIOUS
<1> DEFINE r == [p \in Plugins!Plugin |-> IF p \in Plugins!Stale THEN 0 ELSE Plugins!Records[p]]
<1>1. /\ Plugins!At("prune") /\ UNCHANGED <<x1, x2, x4, x7, x8>>
      /\ \/ Plugins!GoOn /\ UNCHANGED x3 /\ Plugins!Stale = {}
         \/ Plugins!Store(r)
  BY DEF Plugins!Prune
<1>2. /\ \A b \in PluginsBundled : b \in Plugins!Plugin /\ x2[b] = Plugins!Whole(x1[b]) /\ x2[b].kind = "whole"
      /\ \A b \in PluginsBundled : Plugins!Records[b] = x1[b]
      /\ "prune" \in Plugins!Step
  <2>1. \A b \in PluginsBundled : x2[b] = Plugins!Whole(x1[b]) /\ Plugins!Records[b] = x1[b]
    BY <1>1, PluginReported
  <2>2. \A v : Plugins!Whole(v).kind = "whole"
    BY DEF Plugins!Whole
  <2>3. \A b \in PluginsBundled : x2[b].kind = "whole"
    BY <2>1, <2>2, Zenon
  <2> QED
    BY <2>1, <2>3 DEF Plugins!Plugin, Plugins!Step
<1>3. \A p \in Plugins!Plugin \ Plugins!Stale : Plugins!Records[p] # 0 => x2[p].kind \notin {"absent", "bare"}
  BY DEF Plugins!Stale
<1>4. /\ r \in [Plugins!Plugin -> 0..PluginVersions]
      /\ \A p \in Plugins!Stale : p \in Plugins!Plugin /\ r[p] = 0
      /\ \A p \in Plugins!Plugin \ Plugins!Stale : r[p] = Plugins!Records[p]
  <2>1. Plugins!Stale \subseteq Plugins!Plugin
    BY DEF Plugins!Stale
  <2> QED
    BY <2>1, PluginRecords, ProgramAssumption
<1>5. \A b \in PluginsBundled : b \notin Plugins!Stale
  BY <1>2 DEF Plugins!Stale
<1> HIDE DEF r
<1>6. \A p \in Plugins!Plugin : r[p] <= x1[p] /\ (x2[p].kind = "whole" => r[p] <= x2[p].version)
  <2> SUFFICES ASSUME NEW p \in Plugins!Plugin
               PROVE  r[p] <= x1[p] /\ (x2[p].kind = "whole" => r[p] <= x2[p].version)
    OBVIOUS
  <2>1. CASE p \in Plugins!Stale
    <3>1. x2[p].kind # "whole"
      BY <2>1 DEF Plugins!Stale
    <3> QED
      BY <1>4, <2>1, <3>1, PluginRecords, ProgramAssumption
  <2>2. CASE p \notin Plugins!Stale
    BY <1>4, <2>2, PluginRecords
  <2> QED
    BY <2>1, <2>2
<1>7. /\ Plugins!Files'
      /\ \/ Plugins!GoOn /\ Plugins!Stale' = {} /\ \A b \in PluginsBundled : Plugins!Records'[b] = x1[b]
         \/ Plugins!Return("cut")
  <2>1. CASE Plugins!GoOn /\ UNCHANGED x3 /\ Plugins!Stale = {}
    <3>1. Plugins!Records' = Plugins!Records
      BY <2>1 DEF Plugins!Records
    <3>2. Plugins!Stale' = {}
      BY <1>1, <2>1, <3>1 DEF Plugins!Stale
    <3> QED
      BY <1>1, <1>2, <2>1, <3>1, <3>2, PluginFilesKept DEF Plugins!Inv
  <2>2. CASE Plugins!Store(r)
    <3>1. /\ Plugins!Files'
          /\ \/ Plugins!GoOn /\ Plugins!Records' = r
             \/ Plugins!Return("cut")
      BY <1>1, <1>4, <1>6, <2>2, PluginStored
    <3>2. Plugins!Records' = r => Plugins!Stale' = {}
      <4>1. \A p \in Plugins!Plugin : ~(r[p] # 0 /\ x2[p].kind \in {"absent", "bare"})
        BY <1>3, <1>4
      <4> QED
        BY <1>1, <4>1 DEF Plugins!Stale
    <3>3. \A b \in PluginsBundled : r[b] = x1[b]
      BY <1>2, <1>4, <1>5
    <3> QED
      BY <3>1, <3>2, <3>3
  <2> QED
    BY <1>1, <2>1, <2>2
<1>8. CASE Plugins!GoOn /\ Plugins!Stale' = {} /\ \A b \in PluginsBundled : Plugins!Records'[b] = x1[b]
  <2>1. Plugins!ReportLeft' = 1
    BY <1>1, <1>8, PluginReports
  <2>2. Plugins!Reporting'
    BY <1>1, <1>2, <1>8, <2>1 DEF Plugins!Reporting
  <2>3. Plugins!Progress' /\ Plugins!Flagged'
    BY <1>1, <1>8, <2>2, PluginReports
  <2> QED
    BY <1>1, <1>2, <1>7, <1>8, <2>3, PluginMoves
<1> QED
  BY <1>1, <1>7, <1>8, PluginFails

LEMMA PluginLoad == Plugins!Inv /\ Plugins!Load => Plugins!Inv'
<1> SUFFICES ASSUME Plugins!Inv, Plugins!Load PROVE Plugins!Inv'
  OBVIOUS
<1>1. /\ Plugins!At("load") /\ UNCHANGED <<x1, x2, x3, x4, x7, x8>>
      /\ (Plugins!GoOn /\ Plugins!RegistryLoads) \/ Plugins!Return("error")
  BY DEF Plugins!Load
<1>2. Plugins!Files' /\ "load" \in Plugins!Step
  BY <1>1, PluginFilesKept DEF Plugins!Inv, Plugins!Step
<1>3. CASE Plugins!GoOn /\ Plugins!RegistryLoads
  <2>1. Plugins!ReportLeft' = 0
    BY <1>1, <1>3, PluginReports
  <2>2. /\ \A b \in PluginsBundled : x2[b] = Plugins!Whole(x1[b])
        /\ \A b \in PluginsBundled : Plugins!Records[b] = x1[b]
        /\ Plugins!Stale = {}
    BY <1>1, PluginReported
  <2>3. Plugins!Records' = Plugins!Records /\ Plugins!Stale' = Plugins!Stale /\ Plugins!RegistryLoads'
    BY <1>1, <1>3 DEF Plugins!Records, Plugins!Stale, Plugins!RegistryLoads
  <2>4. Plugins!Reporting'
    BY <1>1, <2>1, <2>2, <2>3 DEF Plugins!Reporting
  <2>5. Plugins!Progress' /\ Plugins!Flagged'
    BY <1>1, <1>3, <2>4, PluginReports
  <2> QED
    BY <1>1, <1>2, <1>3, <2>5, PluginMoves
<1> QED
  BY <1>1, <1>2, <1>3, PluginFails

\* The settings are written, and the flags of the others kept, or the write is cut off.
LEMMA PluginFlag ==
  ASSUME Plugins!Inv, NEW s \in Plugins!Step, NEW flag \in {"unset", "on", "off"}, Plugins!WriteFlag(s, flag)
  PROVE  /\ Plugins!At(s) /\ UNCHANGED <<x1, x2, x3, x7>> /\ Plugins!Files'
         /\ \/ /\ Plugins!GoOn /\ x8' = x8 /\ Plugins!Flags'[x5.plugin] = flag
               /\ \A p \in Plugins!Plugin \ {x5.plugin} : Plugins!Flags'[p] = Plugins!Flags[p]
            \/ Plugins!Return("error") /\ UNCHANGED <<x4, x8>>
            \/ Plugins!Return("cut") /\ x8' = TRUE
<1>1. /\ Plugins!At(s) /\ UNCHANGED <<x1, x2, x3, x7>>
      /\ \/ Plugins!Return("error") /\ UNCHANGED <<x4, x8>>
         \/ /\ Plugins!GoOn /\ x8' = x8
            /\ x4' = [state |-> "read", flags |-> [Plugins!Flags EXCEPT ![x5.plugin] = flag]]
         \/ /\ Plugins!Return("cut") /\ x8' = TRUE
            /\ \E x \in {"empty", "garbled"} : x4' = [state |-> x, flags |-> Plugins!NoFlags]
  BY DEF Plugins!WriteFlag, Plugins!Cut
<1>2. /\ Plugins!Flags \in [Plugins!Plugin -> {"unset", "on", "off"}]
      /\ Plugins!NoFlags \in [Plugins!Plugin -> {"unset", "on", "off"}]
  BY DEF Plugins!Inv, Plugins!Files, Plugins!TypeOK, Plugins!Flags, Plugins!NoFlags
<1>3. x5.plugin \in Plugins!Plugin
  BY <1>1, PluginAt DEF Plugins!Inv
<1>4. x4' \in [state : Plugins!FileState, flags : [Plugins!Plugin -> {"unset", "on", "off"}]] => Plugins!Files'
  BY <1>1 DEF Plugins!Inv, Plugins!Files, Plugins!TypeOK, Plugins!Records, Plugins!Loads
<1>5. CASE Plugins!Return("error") /\ UNCHANGED <<x4, x8>>
  BY <1>1, <1>5, PluginFilesKept DEF Plugins!Inv
<1>6. CASE /\ Plugins!GoOn /\ x8' = x8
           /\ x4' = [state |-> "read", flags |-> [Plugins!Flags EXCEPT ![x5.plugin] = flag]]
  <2> PICK f \in [Plugins!Plugin -> {"unset", "on", "off"}] : f = [Plugins!Flags EXCEPT ![x5.plugin] = flag]
    BY <1>2, <1>3
  <2>1. f[x5.plugin] = flag /\ \A p \in Plugins!Plugin \ {x5.plugin} : f[p] = Plugins!Flags[p]
    BY <1>2, <1>3
  <2>2. x4' = [state |-> "read", flags |-> f]
    BY <1>6
  <2>3. Plugins!Flags' = f
    BY <2>2 DEF Plugins!Flags
  <2>4. x4' \in [state : Plugins!FileState, flags : [Plugins!Plugin -> {"unset", "on", "off"}]]
    BY <2>2 DEF Plugins!FileState
  <2> QED
    BY <1>1, <1>4, <1>6, <2>1, <2>3, <2>4
<1>7. CASE /\ Plugins!Return("cut") /\ x8' = TRUE
           /\ \E x \in {"empty", "garbled"} : x4' = [state |-> x, flags |-> Plugins!NoFlags]
  <2>1. x4' \in [state : Plugins!FileState, flags : [Plugins!Plugin -> {"unset", "on", "off"}]]
    BY <1>2, <1>7 DEF Plugins!FileState
  <2> QED
    BY <1>1, <1>4, <1>7, <2>1
<1> QED
  BY <1>1, <1>5, <1>6, <1>7

\* A write of a flag that does not succeed.
LEMMA PluginFlagFails ==
  ASSUME Plugins!Inv, Plugins!Files', UNCHANGED x7,
         \/ Plugins!Return("error") /\ UNCHANGED <<x4, x8>>
         \/ Plugins!Return("cut") /\ x8' = TRUE
  PROVE  Plugins!Inv'
<1>1. CASE Plugins!Return("error") /\ UNCHANGED <<x4, x8>>
  BY <1>1, PluginFails
<1>2. CASE Plugins!Return("cut") /\ x8' = TRUE
  <2>1. /\ Plugins!Operation' /\ Plugins!Progress' /\ Plugins!SuccessIsWhole' /\ Plugins!LoadedMeansWhole'
        /\ x5'.kind = "none"
    BY <1>2, PluginReturns
  <2>2. Plugins!Flagged'
    BY <1>2, <2>1 DEF Plugins!Flagged
  <2> QED
    BY <2>1, <2>2 DEF Plugins!Inv
<1> QED
  BY <1>1, <1>2

LEMMA PluginEnable == Plugins!Inv /\ Plugins!Enable => Plugins!Inv'
<1> SUFFICES ASSUME Plugins!Inv, Plugins!Enable PROVE Plugins!Inv'
  OBVIOUS
<1>1. /\ Plugins!At("on") /\ UNCHANGED <<x1, x2, x3, x7>> /\ Plugins!Files' /\ "on" \in Plugins!Step
      /\ \/ /\ Plugins!GoOn /\ x8' = x8 /\ Plugins!Flags'[x5.plugin] = "on"
            /\ \A p \in Plugins!Plugin \ {x5.plugin} : Plugins!Flags'[p] = Plugins!Flags[p]
         \/ Plugins!Return("error") /\ UNCHANGED <<x4, x8>>
         \/ Plugins!Return("cut") /\ x8' = TRUE
  <2>1. "on" \in Plugins!Step /\ "on" \in {"unset", "on", "off"}
    BY DEF Plugins!Step
  <2> QED
    BY <2>1, PluginFlag DEF Plugins!Enable
<1>2. CASE /\ Plugins!GoOn /\ x8' = x8 /\ Plugins!Flags'[x5.plugin] = "on"
           /\ \A p \in Plugins!Plugin \ {x5.plugin} : Plugins!Flags'[p] = Plugins!Flags[p]
  <2>1. /\ x5.kind \in {"install", "enable"} /\ Plugins!Left = 1
        /\ x5'.kind = x5.kind /\ x5'.plugin = x5.plugin /\ Plugins!Left' = 0
    BY <1>1, <1>2, PluginWhere, PluginGoesOn DEF Plugins!Inv
  <2>2. Plugins!Records' = Plugins!Records /\ Plugins!Stale' = Plugins!Stale
        /\ Plugins!RegistryLoads' = Plugins!RegistryLoads
    BY <1>1 DEF Plugins!Records, Plugins!Stale, Plugins!RegistryLoads
  <2>3. Plugins!Progress'
    <3>1. CASE x5.kind = "install"
      BY <1>1, <1>2, <2>1, <2>2, <3>1 DEF Plugins!Inv, Plugins!Progress, Plugins!Installing, Plugins!Updating,
         Plugins!Uninstalling, Plugins!Reporting
    <3>2. CASE x5.kind = "enable"
      <4>1. Plugins!ReportLeft = 0
        BY <2>1, <3>2 DEF Plugins!ReportLeft
      <4>2. /\ \A b \in PluginsBundled : x2[b] = Plugins!Whole(x1[b]) /\ Plugins!Records[b] = x1[b]
            /\ Plugins!Stale = {} /\ Plugins!RegistryLoads
        BY <3>2, <4>1 DEF Plugins!Inv, Plugins!Progress, Plugins!Reporting
      <4> QED
        BY <1>1, <2>1, <2>2, <3>2, <4>2 DEF Plugins!Progress, Plugins!Installing, Plugins!Updating,
           Plugins!Uninstalling, Plugins!Reporting
    <3> QED
      BY <2>1, <3>1, <3>2
  <2>4. Plugins!Flagged'
    <3>1. x5.plugin \notin x7 /\ x7 \subseteq Plugins!Plugin
      BY <2>1 DEF Plugins!Inv, Plugins!Flagged, Plugins!Files, Plugins!TypeOK
    <3> QED
      BY <1>1, <1>2, <2>1, <3>1 DEF Plugins!Inv, Plugins!Flagged
  <2> QED
    BY <1>1, <1>2, <2>3, <2>4, PluginMoves
<1> QED
  BY <1>1, <1>2, PluginFlagFails

LEMMA PluginDisable == Plugins!Inv /\ Plugins!Disable => Plugins!Inv'
<1> SUFFICES ASSUME Plugins!Inv, Plugins!Disable PROVE Plugins!Inv'
  OBVIOUS
<1>1. /\ Plugins!At("off") /\ UNCHANGED <<x1, x2, x3, x7>> /\ Plugins!Files' /\ "off" \in Plugins!Step
      /\ \/ /\ Plugins!GoOn /\ x8' = x8 /\ Plugins!Flags'[x5.plugin] = "off"
            /\ \A p \in Plugins!Plugin \ {x5.plugin} : Plugins!Flags'[p] = Plugins!Flags[p]
         \/ Plugins!Return("error") /\ UNCHANGED <<x4, x8>>
         \/ Plugins!Return("cut") /\ x8' = TRUE
  <2>1. "off" \in Plugins!Step /\ "off" \in {"unset", "on", "off"}
    BY DEF Plugins!Step
  <2> QED
    BY <2>1, PluginFlag DEF Plugins!Disable
<1>2. CASE /\ Plugins!GoOn /\ x8' = x8 /\ Plugins!Flags'[x5.plugin] = "off"
           /\ \A p \in Plugins!Plugin \ {x5.plugin} : Plugins!Flags'[p] = Plugins!Flags[p]
  <2>1. /\ x5.kind = "disable" /\ Plugins!Left = 1
        /\ x5'.kind = x5.kind /\ x5'.plugin = x5.plugin /\ Plugins!Left' = 0
    BY <1>1, <1>2, PluginWhere, PluginGoesOn DEF Plugins!Inv
  <2>2. Plugins!Records' = Plugins!Records /\ Plugins!Stale' = Plugins!Stale
        /\ Plugins!RegistryLoads' = Plugins!RegistryLoads
    BY <1>1 DEF Plugins!Records, Plugins!Stale, Plugins!RegistryLoads
  <2>3. Plugins!Progress'
    <3>1. Plugins!ReportLeft = 0
      BY <2>1 DEF Plugins!ReportLeft
    <3>2. /\ \A b \in PluginsBundled : x2[b] = Plugins!Whole(x1[b]) /\ Plugins!Records[b] = x1[b]
          /\ Plugins!Stale = {} /\ Plugins!RegistryLoads
      BY <2>1, <3>1 DEF Plugins!Inv, Plugins!Progress, Plugins!Reporting
    <3> QED
      BY <1>1, <2>1, <2>2, <3>2 DEF Plugins!Progress, Plugins!Installing, Plugins!Updating,
         Plugins!Uninstalling, Plugins!Reporting
  <2>4. Plugins!Flagged'
    <3>1. x7 \subseteq Plugins!Plugin
      BY DEF Plugins!Inv, Plugins!Files, Plugins!TypeOK
    <3> QED
      BY <1>1, <1>2, <2>1, <3>1 DEF Plugins!Inv, Plugins!Flagged
  <2> QED
    BY <1>1, <1>2, <2>3, <2>4, PluginMoves
<1> QED
  BY <1>1, <1>2, PluginFlagFails

LEMMA PluginUnset == Plugins!Inv /\ Plugins!Unset => Plugins!Inv'
<1> SUFFICES ASSUME Plugins!Inv, Plugins!Unset PROVE Plugins!Inv'
  OBVIOUS
<1>1. /\ Plugins!At("unset") /\ UNCHANGED <<x1, x2, x3, x7>> /\ Plugins!Files' /\ "unset" \in Plugins!Step
      /\ \/ /\ Plugins!GoOn /\ x8' = x8 /\ Plugins!Flags'[x5.plugin] = "unset"
            /\ \A p \in Plugins!Plugin \ {x5.plugin} : Plugins!Flags'[p] = Plugins!Flags[p]
         \/ Plugins!Return("error") /\ UNCHANGED <<x4, x8>>
         \/ Plugins!Return("cut") /\ x8' = TRUE
  <2>1. "unset" \in Plugins!Step /\ "unset" \in {"unset", "on", "off"}
    BY DEF Plugins!Step
  <2> QED
    BY <2>1, PluginFlag DEF Plugins!Unset
<1>2. CASE /\ Plugins!GoOn /\ x8' = x8 /\ Plugins!Flags'[x5.plugin] = "unset"
           /\ \A p \in Plugins!Plugin \ {x5.plugin} : Plugins!Flags'[p] = Plugins!Flags[p]
  <2>1. /\ x5.kind = "uninstall" /\ Plugins!Left = 1
        /\ x5'.kind = x5.kind /\ x5'.plugin = x5.plugin /\ Plugins!Left' = 0
    BY <1>1, <1>2, PluginWhere, PluginGoesOn DEF Plugins!Inv
  <2>2. Plugins!Records' = Plugins!Records
    BY <1>1 DEF Plugins!Records
  <2>3. x5.plugin \notin PluginsBundled /\ x2[x5.plugin].kind = "absent" /\ Plugins!Records[x5.plugin] = 0
    BY <2>1 DEF Plugins!Inv, Plugins!Progress, Plugins!Uninstalling
  <2>4. Plugins!Progress'
    BY <1>1, <1>2, <2>1, <2>2, <2>3 DEF Plugins!Progress, Plugins!Installing, Plugins!Updating,
       Plugins!Uninstalling, Plugins!Reporting
  <2>5. Plugins!Flagged'
    <3>1. x7 \subseteq Plugins!Plugin
      BY DEF Plugins!Inv, Plugins!Files, Plugins!TypeOK
    <3> QED
      BY <1>1, <1>2, <2>1, <2>3, <3>1 DEF Plugins!Inv, Plugins!Flagged
  <2> QED
    BY <1>1, <1>2, <2>4, <2>5, PluginMoves
<1> QED
  BY <1>1, <1>2, PluginFlagFails

\* Between operations a source has a new version, or a file is repaired.
LEMMA PluginBetween ==
  ASSUME Plugins!Inv, x5.kind = "none", UNCHANGED <<x2, x5, x6, x7, x8>>,
         Plugins!Records' = Plugins!Records, Plugins!Flags' = Plugins!Flags, Plugins!Files'
  PROVE  Plugins!Inv'
<1>1. Plugins!Operation' /\ Plugins!Progress'
  BY DEF Plugins!Inv, Plugins!Operation, Plugins!Progress, Plugins!Installing, Plugins!Updating,
     Plugins!Uninstalling, Plugins!Reporting
<1>2. Plugins!Flagged'
  BY DEF Plugins!Inv, Plugins!Flagged
<1>3. Plugins!SuccessIsWhole' /\ Plugins!LoadedMeansWhole'
  BY DEF Plugins!Inv, Plugins!SuccessIsWhole, Plugins!LoadedMeansWhole, Plugins!Ended, Plugins!Loads
<1> QED
  BY <1>1, <1>2, <1>3 DEF Plugins!Inv

LEMMA PluginRelease == Plugins!Inv /\ Plugins!Release => Plugins!Inv'
<1> SUFFICES ASSUME Plugins!Inv, Plugins!Release PROVE Plugins!Inv'
  OBVIOUS
<1>1. x5.kind = "none" /\ UNCHANGED <<x2, x3, x4, x5, x6, x7, x8>>
  BY DEF Plugins!Release
<1>2. PICK p \in Plugins!Plugin : x1[p] < PluginVersions /\ x1' = [x1 EXCEPT ![p] = @ + 1]
  BY DEF Plugins!Release
<1>3. Plugins!Records' = Plugins!Records /\ Plugins!Flags' = Plugins!Flags
  BY <1>1 DEF Plugins!Records, Plugins!Flags
<1>4. /\ x1' \in [Plugins!Plugin -> 1..PluginVersions]
      /\ \A q \in Plugins!Plugin : x1[q] <= x1'[q] /\ x1[q] \in Nat /\ x1'[q] \in Nat
  BY <1>2, PluginRecords, ProgramAssumption
<1>5. \A q \in Plugins!Plugin : Plugins!Records[q] \in Nat /\ x2[q].version \in Nat
  BY PluginRecords, ProgramAssumption DEF Plugins!Inv, Plugins!Files, Plugins!TypeOK, Plugins!Dir
<1>6. \A q \in Plugins!Plugin :
        /\ Plugins!Records[q] <= x1'[q]
        /\ x2[q].kind = "whole" => Plugins!Records[q] <= x2[q].version /\ x2[q].version <= x1'[q]
  BY <1>4, <1>5, PluginRecords
<1>7. Plugins!Files'
  BY <1>1, <1>3, <1>4, <1>6 DEF Plugins!Inv, Plugins!Files, Plugins!TypeOK, Plugins!Loads
<1> QED
  BY <1>1, <1>3, <1>7, PluginBetween

LEMMA PluginRepair == Plugins!Inv /\ Plugins!Repair => Plugins!Inv'
<1> SUFFICES ASSUME Plugins!Inv, Plugins!Repair PROVE Plugins!Inv'
  OBVIOUS
<1>1. /\ x5.kind = "none" /\ UNCHANGED <<x1, x2, x5, x6, x7, x8>>
      /\ \/ x3.state = "garbled" /\ x3' = [x3 EXCEPT !.state = "empty"] /\ UNCHANGED x4
         \/ x4.state = "garbled" /\ x4' = [x4 EXCEPT !.state = "empty"] /\ UNCHANGED x3
  BY DEF Plugins!Repair
<1>2. Plugins!TypeOK' /\ Plugins!Records' = Plugins!Records /\ Plugins!Flags' = Plugins!Flags
  BY <1>1 DEF Plugins!Inv, Plugins!Files, Plugins!TypeOK, Plugins!FileState, Plugins!Records, Plugins!Flags
<1>3. Plugins!Files'
  BY <1>1, <1>2 DEF Plugins!Inv, Plugins!Files, Plugins!Loads
<1> QED
  BY <1>1, <1>2, <1>3, PluginBetween

LEMMA PluginStep == Plugins!Inv /\ [Plugins!Next]_(Plugins!vars) => Plugins!Inv'
<1> SUFFICES ASSUME Plugins!Inv, [Plugins!Next]_(Plugins!vars) PROVE Plugins!Inv'
  OBVIOUS
<1>1. CASE UNCHANGED Plugins!vars
  <2>1. /\ UNCHANGED <<x1, x2, x3, x4, x5, x6, x7, x8>>
        /\ UNCHANGED <<Plugins!Records, Plugins!Flags, Plugins!Stale, Plugins!RegistryLoads, Plugins!Left,
                       Plugins!ReportLeft>>
    BY <1>1 DEF Plugins!vars, Plugins!Records, Plugins!Flags, Plugins!Stale, Plugins!RegistryLoads, Plugins!Left,
       Plugins!ReportLeft
  <2>2. Plugins!Files'
    BY <2>1, PluginFilesKept DEF Plugins!Inv
  <2>3. Plugins!Operation' /\ Plugins!Progress' /\ Plugins!Flagged'
    BY <2>1 DEF Plugins!Inv, Plugins!Operation, Plugins!Progress, Plugins!Installing, Plugins!Updating,
       Plugins!Uninstalling, Plugins!Reporting, Plugins!Flagged
  <2>4. Plugins!SuccessIsWhole' /\ Plugins!LoadedMeansWhole'
    BY <2>1 DEF Plugins!Inv, Plugins!SuccessIsWhole, Plugins!LoadedMeansWhole, Plugins!Ended, Plugins!Loads
  <2> QED
    BY <2>2, <2>3, <2>4 DEF Plugins!Inv
<1> QED
  BY <1>1, PluginBegin, PluginFinish, PluginFetch, PluginKnown, PluginRemove, PluginCopy, PluginRecord, PluginForget,
     PluginSync, PluginRecorded, PluginPrune, PluginLoad, PluginEnable, PluginDisable, PluginUnset, PluginCrash,
     PluginRelease, PluginRepair DEF Plugins!Next

LEMMA PluginSound == Plugins!Inv => Plugins!TypeOK /\ Plugins!StoreIsSound
<1> SUFFICES ASSUME Plugins!Inv PROVE Plugins!TypeOK /\ Plugins!StoreIsSound
  OBVIOUS
<1>1. \A p \in x7 : p \in Plugins!Plugin /\ (x8 \/ Plugins!Flags[p] = "off" \/ (Plugins!Flags[p] = "unset" /\ p \notin PluginsBundled))
  BY DEF Plugins!Inv, Plugins!Files, Plugins!TypeOK, Plugins!Flagged
<1>2. Plugins!DisabledStaysOff
  BY <1>1 DEF Plugins!DisabledStaysOff, Plugins!is_enabled
<1> QED
  BY <1>2 DEF Plugins!Inv, Plugins!Files, Plugins!StoreIsSound

(* An operation of the plugin store that reports success did all of it, a  *)
(* registry that loads is whole, and a disabled plugin stays off, wherever *)
(* earlier operations were cut off.                                        *)
THEOREM PluginsCorrect == ProgramSpec => []StoreIsSound
<1>1. ProgramInit /\ part = "plugins" => Plugins!Inv
  BY PluginInit DEF ProgramInit
<1>2. part = "plugins" /\ [ProgramNext]_all => (part = "plugins")' /\ [Plugins!Next]_(Plugins!vars)
  BY DEF ProgramNext, all, from10, from11, from13, from14, from15, from16, from18, Plugins!vars
<1>3. ~(part = "plugins") /\ [ProgramNext]_all => (~(part = "plugins"))'
  BY DEF ProgramNext, all, from10, from11, from13, from14, from15, from16, from18
<1>4. Plugins!Inv => StoreIsSound
  BY PluginSound DEF StoreIsSound
<1>5. ~(part = "plugins") => StoreIsSound
  BY DEF StoreIsSound
<1> QED
  BY <1>1, <1>2, <1>3, <1>4, <1>5, PluginStep, PTL DEF ProgramSpec

-----------------------------------------------------------------------------
(* The session files.                                                      *)

LEMMA StoreCardinality == \A S : Store!Cardinality(S) = Cardinality(S) /\ (Store!IsFiniteSet(S) <=> IsFiniteSet(S))
<1>1. \A S : Store!Cardinality(S) = Cardinality(S)
  BY Zenon DEF Store!Cardinality, Cardinality
<1>2. \A S : Store!IsFiniteSet(S) <=> IsFiniteSet(S)
  BY DEF Store!IsFiniteSet, IsFiniteSet
<1> QED
  BY <1>1, <1>2

LEMMA StorePrefix ==
  ASSUME NEW S, NEW s \in Seq(S)
  PROVE  Store!IsPrefix(s, s) /\ \A x \in S : Store!IsPrefix(s, Append(s, x))
BY DEF Store!IsPrefix

\* The files alone: what they are, and their order.
LEMMA StoreFilesType ==
  /\ Store!FilesType <=>
       /\ DOMAIN x1 \subseteq Store!Paths /\ IsFiniteSet(DOMAIN x1)
       /\ x1 \in [DOMAIN x1 -> Store!File] /\ x2 \in [DOMAIN x1 -> SUBSET DOMAIN x1]
  /\ Store!FilesType' <=>
       /\ DOMAIN x1' \subseteq Store!Paths /\ IsFiniteSet(DOMAIN x1')
       /\ x1' \in [DOMAIN x1' -> Store!File] /\ x2' \in [DOMAIN x1' -> SUBSET DOMAIN x1']
BY StoreCardinality DEF Store!FilesType, Store!Files

LEMMA StoreWritten ==
  ASSUME Store!FilesType, Store!Ordered,
         NEW p \in Store!Paths, NEW f \in Store!File, Store!Written(p, f)
  PROVE  /\ DOMAIN x1' = DOMAIN x1 \cup {p}
         /\ x1'[p] = f /\ \A q \in DOMAIN x1 \ {p} : x1'[q] = x1[q]
         /\ x2'[p] = DOMAIN x1 \ {p} /\ \A q \in DOMAIN x1 \ {p} : x2'[q] = x2[q] \ {p}
         /\ Store!FilesType' /\ Store!Ordered'
<1> /\ DOMAIN x1 \subseteq Store!Paths /\ IsFiniteSet(DOMAIN x1)
    /\ x1 \in [DOMAIN x1 -> Store!File] /\ x2 \in [DOMAIN x1 -> SUBSET DOMAIN x1]
  BY StoreFilesType
<1>1. /\ x1' = [q \in DOMAIN x1 \cup {p} |-> IF q = p THEN f ELSE x1[q]]
      /\ x2' = [q \in DOMAIN x1 \cup {p} |-> IF q = p THEN DOMAIN x1 \ {p} ELSE x2[q] \ {p}]
  BY DEF Store!Written, Store!Files
<1>2. IsFiniteSet(DOMAIN x1 \cup {p})
  BY FS_AddElement
<1>3. /\ DOMAIN x1' = DOMAIN x1 \cup {p}
      /\ x1' \in [DOMAIN x1' -> Store!File]
      /\ x1'[p] = f /\ \A q \in DOMAIN x1 \ {p} : x1'[q] = x1[q]
  BY <1>1
<1>4. /\ x2' \in [DOMAIN x1' -> SUBSET DOMAIN x1']
      /\ x2'[p] = DOMAIN x1 \ {p} /\ \A q \in DOMAIN x1 \ {p} : x2'[q] = x2[q] \ {p}
  BY <1>1, <1>3
<1>5. ASSUME NEW q \in DOMAIN x1'
      PROVE  q \notin x2'[q] /\ \A r \in x2'[q] : q \notin x2'[r]
  BY <1>3, <1>4 DEF Store!Ordered, Store!Files
<1>6. ASSUME NEW paths \in SUBSET DOMAIN x1', paths # {}
      PROVE  \E q \in paths : \A r \in paths \ {q} : q \in x2'[r]
  <2>1. CASE paths \ {p} = {}
    BY <2>1, <1>6
  <2>2. CASE paths \ {p} # {}
    <3>1. paths \ {p} \in SUBSET DOMAIN x1
      BY <1>3
    <3>2. PICK q \in paths \ {p} : \A r \in (paths \ {p}) \ {q} : q \in x2[r]
      BY <2>2, <3>1 DEF Store!Ordered, Store!Files
    <3> QED
      BY <3>1, <3>2, <1>3, <1>4
  <2> QED
    BY <2>1, <2>2
<1> QED
  BY StoreFilesType, <1>2, <1>3, <1>4, <1>5, <1>6 DEF Store!Ordered, Store!Files

LEMMA StoreRemoved ==
  ASSUME Store!FilesType, Store!Ordered,
         NEW gone, Store!Removed(gone)
  PROVE  /\ DOMAIN x1' = DOMAIN x1 \ gone
         /\ \A q \in DOMAIN x1' : x1'[q] = x1[q] /\ x2'[q] = x2[q] \ gone
         /\ Store!FilesType' /\ Store!Ordered'
<1> /\ DOMAIN x1 \subseteq Store!Paths /\ IsFiniteSet(DOMAIN x1)
    /\ x1 \in [DOMAIN x1 -> Store!File] /\ x2 \in [DOMAIN x1 -> SUBSET DOMAIN x1]
  BY StoreFilesType
<1>1. /\ x1' = [q \in DOMAIN x1 \ gone |-> x1[q]]
      /\ x2' = [q \in DOMAIN x1 \ gone |-> x2[q] \ gone]
  BY DEF Store!Removed, Store!Files
<1>2. IsFiniteSet(DOMAIN x1 \ gone)
  BY FS_Subset
<1>3. /\ DOMAIN x1' = DOMAIN x1 \ gone
      /\ x1' \in [DOMAIN x1' -> Store!File]
      /\ \A q \in DOMAIN x1' : x1'[q] = x1[q] /\ x2'[q] = x2[q] \ gone
      /\ x2' \in [DOMAIN x1' -> SUBSET DOMAIN x1']
  BY <1>1
<1>4. ASSUME NEW q \in DOMAIN x1'
      PROVE  q \notin x2'[q] /\ \A r \in x2'[q] : q \notin x2'[r]
  BY <1>3 DEF Store!Ordered, Store!Files
<1>5. ASSUME NEW paths \in SUBSET DOMAIN x1', paths # {}
      PROVE  \E q \in paths : \A r \in paths \ {q} : q \in x2'[r]
  <2>1. PICK q \in paths : \A r \in paths \ {q} : q \in x2[r]
    BY <1>3, <1>5 DEF Store!Ordered, Store!Files
  <2> QED
    BY <2>1, <1>3
<1> QED
  BY StoreFilesType, <1>2, <1>3, <1>4, <1>5 DEF Store!Ordered, Store!Files

LEMMA StoreRenamed ==
  ASSUME Store!FilesType, Store!Ordered,
         NEW p \in DOMAIN x1, NEW n \in Store!Paths, n \notin DOMAIN x1, Store!Renamed(p, n)
  PROVE  /\ DOMAIN x1' = (DOMAIN x1 \ {p}) \cup {n}
         /\ x1'[n] = x1[p] /\ \A q \in DOMAIN x1 \ {p} : x1'[q] = x1[q]
         /\ x2'[n] = x2[p]
         /\ \A q \in DOMAIN x1 \ {p} :
              (n \in x2'[q] <=> p \in x2[q]) /\ \A o \in DOMAIN x1 \ {p} : o \in x2'[q] <=> o \in x2[q]
         /\ Store!FilesType' /\ Store!Ordered'
<1> DEFINE Now(r) == IF r = p THEN n ELSE r
           Before(r) == IF r = n THEN p ELSE r
           Named == {Now(o) : o \in DOMAIN x1}
<1> /\ DOMAIN x1 \subseteq Store!Paths /\ IsFiniteSet(DOMAIN x1)
    /\ x1 \in [DOMAIN x1 -> Store!File] /\ x2 \in [DOMAIN x1 -> SUBSET DOMAIN x1]
  BY StoreFilesType
<1>1. /\ x1' = [r \in Named |-> x1[Before(r)]]
      /\ x2' = [r \in Named |-> {Now(o) : o \in x2[Before(r)]}]
  BY DEF Store!Renamed, Store!Files
<1>2. Named = (DOMAIN x1 \ {p}) \cup {n}
  OBVIOUS
<1>3. IsFiniteSet((DOMAIN x1 \ {p}) \cup {n})
  BY FS_Subset, FS_AddElement
<1>4. /\ DOMAIN x1' = (DOMAIN x1 \ {p}) \cup {n}
      /\ x1' \in [DOMAIN x1' -> Store!File]
      /\ x1'[n] = x1[p] /\ \A q \in DOMAIN x1 \ {p} : x1'[q] = x1[q]
  BY <1>1, <1>2
<1>5. /\ DOMAIN x2' = (DOMAIN x1 \ {p}) \cup {n}
      /\ x2'[n] = {Now(o) : o \in x2[p]} /\ \A q \in DOMAIN x1 \ {p} : x2'[q] = {Now(o) : o \in x2[q]}
      /\ x2' = [r \in DOMAIN x2' |-> x2'[r]]
  <2> HIDE DEF Named
  <2> QED
    BY <1>1, <1>2
<1>6. p \notin x2[p] /\ n \notin x2[p]
  BY DEF Store!Ordered, Store!Files
<1>7. x2'[n] = x2[p]
  BY <1>5, <1>6
<1>8. ASSUME NEW q \in DOMAIN x1 \ {p}
      PROVE  /\ n \in x2'[q] <=> p \in x2[q]
             /\ \A o \in DOMAIN x1 \ {p} : o \in x2'[q] <=> o \in x2[q]
             /\ x2'[q] \subseteq (DOMAIN x1 \ {p}) \cup {n}
  <2>1. x2'[q] = {Now(o) : o \in x2[q]} /\ x2[q] \subseteq DOMAIN x1
    BY <1>5
  <2> QED
    BY <2>1
<1>9. x2' \in [DOMAIN x1' -> SUBSET DOMAIN x1']
  <2>1. \A q \in DOMAIN x1' : x2'[q] \subseteq DOMAIN x1'
    BY <1>4, <1>6, <1>7, <1>8
  <2> QED
    BY <2>1, <1>4, <1>5
<1>10. ASSUME NEW q \in DOMAIN x1'
       PROVE  q \notin x2'[q] /\ \A r \in x2'[q] : q \notin x2'[r]
  <2>1. CASE q = n
    BY <2>1, <1>4, <1>6, <1>7, <1>8, <1>9 DEF Store!Ordered, Store!Files
  <2>2. CASE q # n
    <3>1. q \in DOMAIN x1 \ {p} /\ q \notin x2[q] /\ \A r \in x2[q] : q \notin x2[r]
      BY <2>2, <1>4 DEF Store!Ordered, Store!Files
    <3>2. q \notin x2'[q]
      BY <3>1, <1>8
    <3>3. ASSUME NEW r \in x2'[q] PROVE q \notin x2'[r]
      <4>1. CASE r = n
        BY <3>1, <3>3, <4>1, <1>7, <1>8
      <4>2. CASE r # n
        BY <3>1, <3>3, <4>2, <1>8
      <4> QED
        BY <4>1, <4>2
    <3> QED
      BY <3>2, <3>3
  <2> QED
    BY <2>1, <2>2
<1>11. ASSUME NEW paths \in SUBSET DOMAIN x1', paths # {}
       PROVE  \E q \in paths : \A r \in paths \ {q} : q \in x2'[r]
  <2> DEFINE was == IF n \in paths THEN (paths \ {n}) \cup {p} ELSE paths
  <2>1. was \in SUBSET DOMAIN x1 /\ was # {} /\ p \notin paths
    BY <1>4, <1>11
  <2> HIDE DEF was
  <2>2. PICK q \in was : \A r \in was \ {q} : q \in x2[r]
    BY ONLY <2>1, Store!Ordered DEF Store!Ordered, Store!Files
  <2> USE DEF was
  <2>3. \A r \in paths : r = n \/ (r \in DOMAIN x1 \ {p} /\ r \in was)
    BY <2>1, <1>4
  <2>4. CASE q = p
    <3>1. n \in paths
      BY <2>1, <2>4
    <3>2. ASSUME NEW r \in paths \ {n} PROVE n \in x2'[r]
      <4>1. r \in DOMAIN x1 \ {p} /\ r \in was \ {q}
        BY <2>3, <2>4
      <4> QED
        BY <4>1, <2>2, <2>4, <1>8
    <3> QED
      BY <3>1, <3>2
  <2>5. CASE q # p
    <3>1. q \in paths /\ q \in DOMAIN x1 \ {p} /\ q # n
      BY <2>1, <2>2, <2>5
    <3>2. ASSUME NEW r \in paths \ {q} PROVE q \in x2'[r]
      <4>1. CASE r = n
        <5>1. p \in was \ {q}
          BY <4>1, <3>2, <2>5
        <5> QED
          BY <5>1, <4>1, <2>2, <1>7
      <4>2. CASE r # n
        <5>1. r \in was \ {q} /\ r \in DOMAIN x1 \ {p}
          BY <4>2, <3>2, <2>3
        <5> QED
          BY <5>1, <3>1, <2>2, <1>8
      <4> QED
        BY <4>1, <4>2
    <3> QED
      BY <3>1, <3>2
  <2> QED
    BY <2>4, <2>5
<1> QED
  BY StoreFilesType, <1>3, <1>4, <1>7, <1>8, <1>9, <1>10, <1>11 DEF Store!Ordered, Store!Files

\* What the newest file of a session is after it, and that no other session is concerned.
LEMMA StoreKeptWritten ==
  ASSUME Store!FilesType, Store!Ordered, \A q \in DOMAIN x1 : q[1] = x1[q].id,
         NEW p \in Store!Paths, NEW f \in Store!File, f.id = p[1], Store!Written(p, f)
  PROVE  /\ Store!Newest(p, Store!OfSession(f.id))'
         /\ \A q \in DOMAIN x1' : q[1] = x1'[q].id
         /\ \A s : s # f.id /\ x9'[s] = x9[s] /\ Store!Kept(s) => Store!Kept(s)'
<1>1. /\ DOMAIN x1' = DOMAIN x1 \cup {p}
      /\ x1'[p] = f /\ \A q \in DOMAIN x1 \ {p} : x1'[q] = x1[q]
      /\ x2'[p] = DOMAIN x1 \ {p} /\ \A q \in DOMAIN x1 \ {p} : x2'[q] = x2[q] \ {p}
  BY StoreWritten
<1>2. Store!Newest(p, Store!OfSession(f.id))'
  BY <1>1 DEF Store!Newest, Store!OfSession, Store!Files
<1>3. \A q \in DOMAIN x1' : q[1] = x1'[q].id
  BY <1>1
<1>4. ASSUME NEW s, s # f.id, x9'[s] = x9[s], Store!Kept(s)
      PROVE  Store!Kept(s)'
  <2>1. PICK q \in Store!OfSession(s) :
          /\ Store!Newest(q, Store!OfSession(s))
          /\ ~x1[q].spliced => Store!IsPrefix(x9[s], x1[q].msgs) /\ Len(x1[q].msgs) <= Len(x9[s]) + 1
    BY <1>4 DEF Store!Kept
  <2>2. q \in DOMAIN x1 /\ x1[q].id = s /\ q # p
    BY <1>4 DEF Store!OfSession, Store!Files
  <2>3. x1'[q] = x1[q]
    BY <1>1, <2>2
  <2>4. Store!OfSession(s)' = Store!OfSession(s)
    BY <1>1, <1>4 DEF Store!OfSession, Store!Files
  <2>5. Store!Newest(q, Store!OfSession(s))'
    BY <1>1, <2>1, <2>2, <2>4, <1>4 DEF Store!Newest, Store!OfSession, Store!Files
  <2> QED
    BY <1>4, <2>1, <2>3, <2>4, <2>5 DEF Store!Kept
<1> QED
  BY <1>2, <1>3, <1>4

LEMMA StoreKeptRemoved ==
  ASSUME Store!FilesType, Store!Ordered, NEW gone, Store!Removed(gone),
         NEW s, \A q \in gone : ~Store!Newest(q, Store!OfSession(s)),
         x9'[s] = x9[s], Store!Kept(s)
  PROVE  Store!Kept(s)'
<1>1. /\ DOMAIN x1' = DOMAIN x1 \ gone
      /\ \A q \in DOMAIN x1' : x1'[q] = x1[q] /\ x2'[q] = x2[q] \ gone
  BY StoreRemoved
<1>2. PICK q \in Store!OfSession(s) :
        /\ Store!Newest(q, Store!OfSession(s))
        /\ ~x1[q].spliced => Store!IsPrefix(x9[s], x1[q].msgs) /\ Len(x1[q].msgs) <= Len(x9[s]) + 1
  BY DEF Store!Kept
<1>3. q \in DOMAIN x1' /\ x1'[q] = x1[q] /\ x2'[q] = x2[q] \ gone
  BY <1>1, <1>2 DEF Store!OfSession, Store!Files
<1>4. Store!OfSession(s)' = Store!OfSession(s) \ gone
  BY <1>1 DEF Store!OfSession, Store!Files
<1>5. q \in Store!OfSession(s)' /\ Store!Newest(q, Store!OfSession(s))'
  BY <1>2, <1>3, <1>4 DEF Store!Newest
<1> QED
  BY <1>2, <1>3, <1>5 DEF Store!Kept

LEMMA StoreKeptRenamed ==
  ASSUME Store!FilesType, Store!Ordered, NEW p \in DOMAIN x1, NEW n \in Store!Paths, n \notin DOMAIN x1,
         Store!Renamed(p, n), NEW s, x9'[s] = x9[s], Store!Kept(s)
  PROVE  Store!Kept(s)'
<1>1. /\ DOMAIN x1' = (DOMAIN x1 \ {p}) \cup {n}
      /\ x1'[n] = x1[p] /\ \A q \in DOMAIN x1 \ {p} : x1'[q] = x1[q]
      /\ x2'[n] = x2[p]
      /\ \A q \in DOMAIN x1 \ {p} :
           (n \in x2'[q] <=> p \in x2[q]) /\ \A o \in DOMAIN x1 \ {p} : o \in x2'[q] <=> o \in x2[q]
  BY StoreRenamed
<1>2. PICK q \in Store!OfSession(s) :
        /\ Store!Newest(q, Store!OfSession(s))
        /\ ~x1[q].spliced => Store!IsPrefix(x9[s], x1[q].msgs) /\ Len(x1[q].msgs) <= Len(x9[s]) + 1
  BY DEF Store!Kept
<1> DEFINE now == IF q = p THEN n ELSE q
<1>3. q \in DOMAIN x1 /\ x1[q].id = s /\ \A r \in DOMAIN x1 : x1[r].id = s /\ r # q => r \in x2[q]
  BY <1>2 DEF Store!Newest, Store!OfSession, Store!Files
<1>4. now \in DOMAIN x1' /\ x1'[now] = x1[q]
  BY <1>1, <1>3
<1>5. ASSUME NEW r \in DOMAIN x1', x1'[r].id = s, r # now PROVE r \in x2'[now]
  <2>1. CASE q = p
    BY <1>1, <1>3, <1>5, <2>1
  <2>2. CASE q # p
    <3>1. CASE r = n
      BY <1>1, <1>3, <1>5, <2>2, <3>1
    <3>2. CASE r # n
      BY <1>1, <1>3, <1>5, <2>2, <3>2
    <3> QED
      BY <3>1, <3>2
  <2> QED
    BY <2>1, <2>2
<1> HIDE DEF now
<1>6. now \in Store!OfSession(s)' /\ Store!Newest(now, Store!OfSession(s))'
  BY <1>3, <1>4, <1>5 DEF Store!Newest, Store!OfSession, Store!Files
<1> QED
  BY <1>2, <1>4, <1>6 DEF Store!Kept

LEMMA StoreKeptStays ==
  ASSUME UNCHANGED <<x1, x2>>, NEW s, x9'[s] = x9[s], Store!Kept(s)
  PROVE  Store!Kept(s)'
<1>1. PICK q \in Store!OfSession(s) :
        /\ Store!Newest(q, Store!OfSession(s))
        /\ ~x1[q].spliced => Store!IsPrefix(x9[s], x1[q].msgs) /\ Len(x1[q].msgs) <= Len(x9[s]) + 1
  BY DEF Store!Kept
<1>2. Store!OfSession(s)' = Store!OfSession(s) /\ Store!Newest(q, Store!OfSession(s))'
  BY <1>1 DEF Store!OfSession, Store!Newest, Store!Files
<1> QED
  BY <1>1, <1>2 DEF Store!Kept

\* cleanup_rotated_logs leaves no more than it is to leave: of those it leaves, the oldest has
\* fewer than that behind it.
LEMMA StoreCleaned ==
  ASSUME Store!FilesType, Store!Ordered, NEW p, NEW most \in Nat,
         Store!Removed({q \in Store!RotationsOf(p) : Store!Cardinality({r \in Store!RotationsOf(p) : q \in x2[r]}) >= most})
  PROVE  Store!Cardinality(Store!RotationsOf(p)') <= most
<1> DEFINE rotated == {q \in DOMAIN x1 : Store!IsStrictPrefix(p, q)}
           Behind(q) == {r \in rotated : q \in x2[r]}
           gone == {q \in rotated : Cardinality(Behind(q)) >= most}
           left == rotated \ gone
<1>1. IsFiniteSet(DOMAIN x1)
  BY StoreFilesType
<1>2. IsFiniteSet(rotated)
  BY <1>1, FS_Subset
<1>3. Store!Removed(gone)
  BY StoreCardinality DEF Store!RotationsOf, Store!Files
<1>4. DOMAIN x1' = DOMAIN x1 \ gone
  <2> HIDE DEF gone
  <2> QED
    BY <1>3, StoreRemoved
<1>5. Store!RotationsOf(p)' = left
  BY <1>4 DEF Store!RotationsOf, Store!Files
<1>6. \A q \in rotated : IsFiniteSet(Behind(q)) /\ Cardinality(Behind(q)) \in Nat
  BY <1>2, FS_Subset, FS_CardinalityType
<1>7. IsFiniteSet(left) /\ Cardinality(left) \in Nat
  BY <1>2, FS_Subset, FS_CardinalityType
<1>8. \A q \in left : q \in rotated /\ Cardinality(Behind(q)) < most
  BY <1>6
<1>9. Cardinality(left) <= most
  <2>1. CASE left = {}
    <3> HIDE DEF left
    <3> QED
      BY <2>1, FS_EmptySet
  <2>2. CASE left # {}
    <3>1. left \in SUBSET DOMAIN x1
      OBVIOUS
    <3>2. PICK q \in left : \A r \in left \ {q} : q \in x2[r]
      <4> HIDE DEF left
      <4> QED
        BY <2>2, <3>1 DEF Store!Ordered, Store!Files
    <3>3. left \ {q} \subseteq Behind(q)
      BY <3>2, <1>8
    <3>4. Cardinality(left \ {q}) <= Cardinality(Behind(q))
      BY <3>3, <1>6, <1>8, FS_Subset
    <3>5. Cardinality(left \ {q}) = Cardinality(left) - 1
      BY <3>2, <1>7, FS_RemoveElement
    <3>6. Cardinality(Behind(q)) < most /\ Cardinality(Behind(q)) \in Nat
      BY <1>6, <1>8
    <3> HIDE DEF left, Behind
    <3> QED
      BY <3>4, <3>5, <3>6, <1>7
  <2> QED
    BY <2>1, <2>2
<1> QED
  BY <1>5, <1>9, StoreCardinality

\* What is on disk stays right when nothing is written.
LEMMA StoreDiskStays ==
  ASSUME Store!OnDisk, UNCHANGED <<x1, x2, x9, x13>>, x10 \subseteq x10'
  PROVE  Store!OnDisk'
<1>1. Store!FilesType' /\ Store!Ordered'
  BY DEF Store!OnDisk, Store!FilesType, Store!Ordered, Store!Files
<1>2. Store!NothingSavedIsLost'
  BY StoreKeptStays DEF Store!OnDisk, Store!NothingSavedIsLost
<1>3. \A p \in DOMAIN x1' : p[1] = x1'[p].id /\ p[1] \in x10' /\ Store!Timely(p)'
  BY DEF Store!OnDisk, Store!Files, Store!Timely
<1> QED
  BY <1>1, <1>2, <1>3 DEF Store!OnDisk, Store!Files

LEMMA StoreDiskWritten ==
  ASSUME Store!OnDisk, NEW p \in Store!Paths, NEW f \in Store!File, f.id = p[1], p[1] \in x10, Store!Timely(p),
         Store!Written(p, f), UNCHANGED <<x10, x13>>, \A s \in SessionIds : s # f.id => x9'[s] = x9[s],
         x9'[f.id] # <<>> /\ ~f.spliced => Store!IsPrefix(x9'[f.id], f.msgs) /\ Len(f.msgs) <= Len(x9'[f.id]) + 1
  PROVE  Store!OnDisk' /\ Store!Newest(p, Store!OfSession(f.id))'
<1>1. Store!FilesType /\ Store!Ordered /\ \A q \in DOMAIN x1 : q[1] = x1[q].id /\ q[1] \in x10 /\ Store!Timely(q)
  BY DEF Store!OnDisk, Store!Files
<1>2. /\ DOMAIN x1' = DOMAIN x1 \cup {p}
      /\ x1'[p] = f /\ \A q \in DOMAIN x1 \ {p} : x1'[q] = x1[q]
      /\ Store!FilesType' /\ Store!Ordered'
  BY <1>1, StoreWritten
<1>3. /\ Store!Newest(p, Store!OfSession(f.id))'
      /\ \A q \in DOMAIN x1' : q[1] = x1'[q].id
      /\ \A s : s # f.id /\ x9'[s] = x9[s] /\ Store!Kept(s) => Store!Kept(s)'
  BY <1>1, StoreKeptWritten
<1>4. ASSUME NEW s \in SessionIds, x9'[s] # <<>> PROVE Store!Kept(s)'
  <2>1. CASE s = f.id
    <3>1. p \in Store!OfSession(s)'
      BY <2>1, <1>2 DEF Store!OfSession, Store!Files
    <3> QED
      BY <3>1, <2>1, <1>2, <1>3, <1>4 DEF Store!Kept
  <2>2. CASE s # f.id
    BY <2>2, <1>3, <1>4 DEF Store!OnDisk, Store!NothingSavedIsLost
  <2> QED
    BY <2>1, <2>2
<1>5. Store!NothingSavedIsLost'
  BY <1>4 DEF Store!NothingSavedIsLost
<1>6. \A q \in DOMAIN x1' : q[1] = x1'[q].id /\ q[1] \in x10' /\ Store!Timely(q)'
  BY <1>1, <1>2, <1>3 DEF Store!Timely
<1> QED
  BY <1>2, <1>3, <1>5, <1>6 DEF Store!OnDisk, Store!Files

LEMMA StoreDiskRemoved ==
  ASSUME Store!OnDisk, NEW gone, Store!Removed(gone), UNCHANGED <<x10, x13>>,
         \A s \in SessionIds : x9'[s] # <<>> =>
           x9'[s] = x9[s] /\ \A q \in gone : ~Store!Newest(q, Store!OfSession(s))
  PROVE  Store!OnDisk'
<1>1. Store!FilesType /\ Store!Ordered
  BY DEF Store!OnDisk
<1>2. /\ DOMAIN x1' = DOMAIN x1 \ gone /\ \A q \in DOMAIN x1' : x1'[q] = x1[q]
      /\ Store!FilesType' /\ Store!Ordered'
  BY <1>1, StoreRemoved
<1>3. ASSUME NEW s \in SessionIds, x9'[s] # <<>> PROVE Store!Kept(s)'
  <2>1. Store!Kept(s) /\ x9'[s] = x9[s] /\ \A q \in gone : ~Store!Newest(q, Store!OfSession(s))
    BY <1>3 DEF Store!OnDisk, Store!NothingSavedIsLost
  <2> QED
    BY <2>1, <1>1, StoreKeptRemoved
<1>4. \A p \in DOMAIN x1' : p[1] = x1'[p].id /\ p[1] \in x10' /\ Store!Timely(p)'
  BY <1>2 DEF Store!OnDisk, Store!Files, Store!Timely
<1> QED
  BY <1>2, <1>3, <1>4 DEF Store!OnDisk, Store!NothingSavedIsLost, Store!Files

\* A rotation has a name that no file has: the clock has gone on.
LEMMA StoreRotationIsNew ==
  ASSUME Store!OnDisk, x13 \in Nat, NEW p \in Store!Paths, Store!Timely(p)
  PROVE  /\ Append(p, x13 + 1) \in Store!Paths /\ Append(p, x13 + 1) \notin DOMAIN x1
         /\ Append(p, x13 + 1)[1] = p[1]
         /\ \A i \in 2..Len(Append(p, x13 + 1)) : Append(p, x13 + 1)[i] <= x13 + 1
         /\ Append(p, x13 + 1) # p
<1> DEFINE n == Append(p, x13 + 1)
<1>1. p \in Seq(Nat) /\ p # <<>> /\ Len(p) \in Nat \ {0} /\ \A i \in 1..Len(p) : p[i] \in Nat
  BY EmptySeq, ElementOfSeq DEF Store!Paths
<1>2. n \in Seq(Nat) /\ Len(n) = Len(p) + 1 /\ n[Len(p) + 1] = x13 + 1 /\ \A i \in 1..Len(p) : n[i] = p[i]
  BY <1>1
<1> HIDE DEF n
<1>3. n \in Store!Paths /\ n # p
  BY <1>1, <1>2 DEF Store!Paths
<1>4. n[1] = p[1]
  BY <1>1, <1>2
<1>5. ASSUME NEW i \in 2..Len(n) PROVE n[i] <= x13 + 1
  <2>1. CASE i = Len(p) + 1
    BY <2>1, <1>2
  <2>2. CASE i # Len(p) + 1
    <3>1. i \in 2..Len(p) /\ i \in 1..Len(p)
      BY <2>2, <1>1, <1>2
    <3>2. p[i] <= x13 /\ p[i] \in Nat /\ n[i] = p[i]
      BY <3>1, <1>1, <1>2 DEF Store!Timely
    <3> QED
      BY <3>2
  <2> QED
    BY <2>1, <2>2
<1>6. n \notin DOMAIN x1
  <2>1. Len(n) \in 2..Len(n) /\ n[Len(n)] = x13 + 1
    BY <1>1, <1>2
  <2> QED
    BY <2>1 DEF Store!OnDisk, Store!Files, Store!Timely
<1> QED
  BY <1>3, <1>4, <1>5, <1>6 DEF n

LEMMA StoreDiskRenamed ==
  ASSUME Store!OnDisk, x13 \in Nat, NEW p \in DOMAIN x1, Store!Renamed(p, Append(p, x13 + 1)),
         x13' = x13 + 1, UNCHANGED <<x9, x10>>
  PROVE  /\ Store!OnDisk' /\ p \notin DOMAIN x1'
<1> DEFINE n == Append(p, x13 + 1)
<1>1. Store!FilesType /\ Store!Ordered /\ p \in Store!Paths /\ Store!Timely(p)
  BY StoreFilesType DEF Store!OnDisk, Store!Files
<1>2. n \in Store!Paths /\ n \notin DOMAIN x1 /\ n[1] = p[1] /\ n # p /\ \A i \in 2..Len(n) : n[i] <= x13 + 1
  BY <1>1, StoreRotationIsNew
<1>3. Store!Renamed(p, n)
  OBVIOUS
<1> HIDE DEF n
<1>4. /\ DOMAIN x1' = (DOMAIN x1 \ {p}) \cup {n}
      /\ x1'[n] = x1[p] /\ \A q \in DOMAIN x1 \ {p} : x1'[q] = x1[q]
      /\ Store!FilesType' /\ Store!Ordered'
  BY <1>1, <1>2, <1>3, StoreRenamed
<1>5. ASSUME NEW s \in SessionIds, x9'[s] # <<>> PROVE Store!Kept(s)'
  <2>1. Store!Kept(s) /\ x9'[s] = x9[s]
    BY <1>5 DEF Store!OnDisk, Store!NothingSavedIsLost
  <2> QED
    BY <2>1, <1>1, <1>2, <1>3, StoreKeptRenamed
<1>6. ASSUME NEW q \in DOMAIN x1' PROVE q[1] = x1'[q].id /\ q[1] \in x10' /\ Store!Timely(q)'
  <2>1. CASE q = n
    BY <2>1, <1>2, <1>4 DEF Store!OnDisk, Store!Files, Store!Timely
  <2>2. CASE q # n
    <3>1. q \in DOMAIN x1 /\ x1'[q] = x1[q] /\ Store!Timely(q) /\ q[1] = x1[q].id /\ q[1] \in x10
      BY <2>2, <1>4 DEF Store!OnDisk, Store!Files
    <3>2. \A i \in 2..Len(q) : q[i] \in Nat
      BY <3>1, StoreFilesType, <1>1, ElementOfSeq DEF Store!Paths
    <3>3. Store!Timely(q)'
      BY <3>1, <3>2 DEF Store!Timely
    <3> QED
      BY <3>1, <3>3
  <2> QED
    BY <2>1, <2>2
<1>7. p \notin DOMAIN x1'
  BY <1>2, <1>4
<1> QED
  BY <1>4, <1>5, <1>6, <1>7 DEF Store!OnDisk, Store!NothingSavedIsLost, Store!Files

\* The program ends: what matters is on disk.
LEMMA StoreStops ==
  ASSUME ProgramAssumption, Store!Inv, Store!OnDisk', Store!Stop, x9' \in [SessionIds -> Store!Messages],
         UNCHANGED <<x10, x13>>, x11' = x11, x12' \in 0..SessionFaults
  PROVE  Store!Inv'
<1>1. Store!TypeOK'
  BY EmptySeq DEF Store!Inv, Store!TypeOK, Store!OnDisk, Store!Stop, Store!Messages
<1>2. x3' = <<>> /\ x6' = "stopped" /\ <<>> \notin Store!Paths
  BY DEF Store!Stop, Store!Paths
<1>3. x3' \notin DOMAIN x1'
  BY <1>2, StoreFilesType DEF Store!OnDisk
<1> QED
  BY <1>1, <1>2, <1>3 DEF Store!Inv, Store!OpenPath, Store!OpenFile, Store!InStep, Store!SplicedOnlyAfterWarning,
     Store!RotationsBounded, Store!Exists, Store!Files

\* What the next message needs: the open file, if it is there, has what is in memory and counts
\* as saved, or is spliced.
LEMMA StoreToMessage ==
  ASSUME ProgramAssumption, Store!Inv, Store!OnDisk', Store!StartMessage, UNCHANGED <<x3, x4, x10, x13>>,
         x9' \in [SessionIds -> Store!Messages], x8' \in BOOLEAN, x12' \in 0..SessionFaults, x6 # "stopped",
         x3 \in DOMAIN x1' =>
           /\ Store!Newest(x3, Store!OfSession(x4))'
           /\ x1'[x3].spliced \/ (x1'[x3].msgs = x5 /\ x9'[x4] = x5)
           /\ x1'[x3].spliced \/ x1'[x3].tail # "clean" => x8'
  PROVE  Store!Inv'
<1>1. x11 \in Nat /\ x11 + 1 \in 0..SessionMessages /\ x5 \in Seq(0..SessionMessages)
  BY DEF Store!Inv, Store!TypeOK, Store!StartMessage, Store!Messages, ProgramAssumption
<1>2. x5' = Append(x5, x11 + 1) /\ x5' \in Seq(0..SessionMessages) /\ x5' # <<>> /\ Store!Last(x5') = x11 + 1
  BY <1>1 DEF Store!StartMessage, Store!Last
<1>3. Store!TypeOK'
  BY <1>1, <1>2 DEF Store!Inv, Store!TypeOK, Store!OnDisk, Store!StartMessage, Store!Messages
<1>4. x6' = "append" /\ x7' = "message"
  BY DEF Store!StartMessage
<1>5. Store!OpenPath'
  BY <1>4 DEF Store!Inv, Store!OpenPath, Store!Timely
<1>6. Store!OpenFile' /\ Store!SplicedOnlyAfterWarning'
  BY <1>2, <1>4 DEF Store!OpenFile, Store!Behind, Store!SplicedOnlyAfterWarning, Store!Exists, Store!Files
<1>7. Store!InStep' /\ Store!RotationsBounded'
  BY <1>2, <1>4 DEF Store!InStep, Store!RotationsBounded
<1> QED
  BY <1>3, <1>5, <1>6, <1>7 DEF Store!Inv

\* A save begins: the open file, if it is there, may have anything but a spliced line.
LEMMA StoreSaves ==
  ASSUME ProgramAssumption, Store!Inv, Store!OnDisk', x6' = "rotate", x7' = "command",
         x5' \in Store!Messages, x4' \in SessionIds, x3' \in Store!Paths, x3'[1] = x4', x4' \in x10', Store!Timely(x3)',
         x3' \in DOMAIN x1' /\ x1'[x3'].spliced => x8',
         x10' \subseteq SessionIds, UNCHANGED <<x8, x9, x11, x12, x13>>
  PROVE  Store!Inv'
<1>1. Store!TypeOK'
  BY DEF Store!Inv, Store!TypeOK, Store!OnDisk
<1> QED
  BY <1>1 DEF Store!Inv, Store!OpenPath, Store!OpenFile, Store!InStep, Store!SplicedOnlyAfterWarning,
     Store!RotationsBounded, Store!Exists, Store!Files

LEMMA StoreInit == ProgramAssumption /\ Store!Init => Store!Inv
<1> SUFFICES ASSUME ProgramAssumption, Store!Init PROVE Store!Inv
  OBVIOUS
<1>1. /\ x1 = <<>> /\ x2 = <<>> /\ x3 = <<>> /\ x5 = <<>> /\ x4 \in SessionIds /\ x6 = "stopped" /\ x7 = "command"
      /\ x8 = FALSE /\ x9 = [s \in SessionIds |-> <<>>] /\ x10 = {} /\ x11 = 0 /\ x12 = 0 /\ x13 = 0
  BY DEF Store!Init
<1>2. DOMAIN x1 = {} /\ DOMAIN x2 = {}
  BY <1>1
<1>3. Store!FilesType
  BY <1>1, <1>2, StoreFilesType, FS_EmptySet
<1>4. Store!Ordered
  BY <1>2 DEF Store!Ordered, Store!Files
<1>5. Store!TypeOK
  <2>1. <<>> \in Store!Messages
    BY EmptySeq DEF Store!Messages
  <2>2. 0 \in 0..SessionMessages /\ 0 \in 0..SessionFaults /\ 0 \in 0..SessionRotations
    BY DEF ProgramAssumption
  <2>3. x9 \in [SessionIds -> Store!Messages]
    BY <1>1, <2>1
  <2> QED
    BY <1>1, <1>3, <2>1, <2>2, <2>3 DEF Store!TypeOK
<1>6. Store!OnDisk
  BY <1>1, <1>2, <1>3, <1>4 DEF Store!OnDisk, Store!NothingSavedIsLost, Store!Files
<1> QED
  BY <1>1, <1>2, <1>5, <1>6 DEF Store!Inv, Store!OpenPath, Store!OpenFile, Store!InStep,
     Store!SplicedOnlyAfterWarning, Store!RotationsBounded, Store!Exists, Store!Files

LEMMA StoreFreshStep ==
  ASSUME ProgramAssumption, Store!Inv, Store!Fresh
  PROVE  Store!Inv'
<1>1. PICK s \in SessionIds \ x10 :
        /\ x10' = x10 \cup {s} /\ x4' = s /\ x3' = <<s>> /\ x5' = <<>> /\ x6' = "rotate" /\ x7' = "command"
        /\ UNCHANGED <<x1, x2, x8, x9, x11, x12, x13>>
  BY DEF Store!Fresh, Store!NewId, Store!files
<1>2. <<s>> \in Store!Paths /\ <<s>>[1] = s /\ Len(<<s>>) = 1
  BY DEF Store!Paths, ProgramAssumption
<1>3. Store!Timely(x3)'
  BY <1>1, <1>2 DEF Store!Timely
<1>4. Store!OnDisk'
  BY <1>1, StoreDiskStays DEF Store!Inv
<1>5. <<s>> \notin DOMAIN x1
  BY <1>2 DEF Store!Inv, Store!OnDisk, Store!Files
<1>6. <<>> \in Store!Messages /\ x10' \subseteq SessionIds
  BY <1>1, EmptySeq DEF Store!Messages, Store!Inv, Store!TypeOK
<1> QED
  BY <1>1, <1>2, <1>3, <1>4, <1>5, <1>6, StoreSaves

LEMMA StoreBeginTurnStep ==
  ASSUME ProgramAssumption, Store!Inv, Store!BeginTurn
  PROVE  Store!Inv'
<1>1. /\ x6 = "idle" /\ x6' = "append" /\ x7' = "prompt"
      /\ UNCHANGED <<x1, x2, x3, x4, x5, x8, x9, x10, x11, x12, x13>>
  BY DEF Store!BeginTurn, Store!files, Store!counters
<1>2. Store!OnDisk'
  BY <1>1, StoreDiskStays DEF Store!Inv
<1>3. Store!TypeOK'
  BY <1>1, <1>2 DEF Store!Inv, Store!TypeOK, Store!OnDisk
<1>4. Store!OpenPath' /\ Store!InStep' /\ Store!SplicedOnlyAfterWarning' /\ Store!RotationsBounded'
  BY <1>1 DEF Store!Inv, Store!OpenPath, Store!InStep, Store!SplicedOnlyAfterWarning, Store!RotationsBounded,
     Store!Timely, Store!Exists, Store!Files
<1>5. Store!OpenFile'
  BY <1>1 DEF Store!Inv, Store!OpenFile, Store!Newest, Store!OfSession, Store!Snapshot, Store!Exists, Store!Files
<1> QED
  BY <1>2, <1>3, <1>4, <1>5 DEF Store!Inv

LEMMA StorePushMessageStep ==
  ASSUME ProgramAssumption, Store!Inv, Store!PushMessage
  PROVE  Store!Inv'
<1>1. x6 = "turn" /\ Store!StartMessage /\ UNCHANGED <<x1, x2, x3, x4, x8, x9, x10, x12, x13>>
  BY DEF Store!PushMessage, Store!files
<1>2. Store!OnDisk'
  BY <1>1, StoreDiskStays DEF Store!Inv
<1>3. x3 \in DOMAIN x1' =>
        /\ Store!Newest(x3, Store!OfSession(x4))'
        /\ x1'[x3].spliced \/ (x1'[x3].msgs = x5 /\ x9'[x4] = x5)
        /\ x1'[x3].spliced \/ x1'[x3].tail # "clean" => x8'
  BY <1>1 DEF Store!Inv, Store!OpenFile, Store!Whole, Store!SplicedOnlyAfterWarning, Store!Newest, Store!OfSession,
     Store!Exists, Store!Files
<1>4. x9' \in [SessionIds -> Store!Messages] /\ x8' \in BOOLEAN /\ x12' \in 0..SessionFaults
  BY <1>1 DEF Store!Inv, Store!TypeOK
<1> QED
  BY <1>1, <1>2, <1>3, <1>4, StoreToMessage

LEMMA StoreBootstrapStep ==
  ASSUME ProgramAssumption, Store!Inv, Store!Bootstrap
  PROVE  Store!Inv'
<1>1. /\ x6 = "append" /\ x3 \notin DOMAIN x1 /\ x6' = "rotate"
      /\ UNCHANGED <<x1, x2, x3, x4, x5, x7, x8, x9, x10, x11, x12, x13>>
  BY DEF Store!Bootstrap, Store!files, Store!counters, Store!Exists, Store!Files
<1>2. Store!OnDisk'
  BY <1>1, StoreDiskStays DEF Store!Inv
<1>3. Store!TypeOK'
  BY <1>1, <1>2 DEF Store!Inv, Store!TypeOK, Store!OnDisk
<1> QED
  BY <1>1, <1>2, <1>3 DEF Store!Inv, Store!OpenPath, Store!InStep, Store!OpenFile, Store!SplicedOnlyAfterWarning,
     Store!RotationsBounded, Store!Timely, Store!Exists, Store!Files

\* A record is written, whole or not, at the end of the open file.
LEMMA StoreOpenFileType ==
  ASSUME Store!Inv, x3 \in DOMAIN x1
  PROVE  /\ x1[x3] \in Store!File /\ x1[x3].id = x4 /\ x3 \in Store!Paths /\ x3[1] = x4 /\ x4 \in x10
         /\ Store!Timely(x3) /\ x6 # "stopped" /\ x4 \in SessionIds
<1>1. x3 \in Store!Paths /\ x1[x3] \in Store!File /\ x3[1] = x1[x3].id /\ x3[1] \in x10 /\ Store!Timely(x3)
  BY StoreFilesType DEF Store!Inv, Store!OnDisk, Store!Files
<1>2. x6 # "stopped"
  BY <1>1 DEF Store!Inv, Store!OpenPath, Store!Paths
<1> QED
  BY <1>1, <1>2 DEF Store!Inv, Store!OpenPath, Store!TypeOK

LEMMA StoreAppendRecordStep ==
  ASSUME ProgramAssumption, Store!Inv, Store!AppendRecord
  PROVE  Store!Inv'
<1> DEFINE f == Store!WithRecord(x1[x3], Store!Record)
<1>1. /\ x6 = "append" /\ x3 \in DOMAIN x1 /\ x6' = "newline" /\ Store!Written(x3, f)
      /\ UNCHANGED <<x3, x4, x5, x7, x8, x9, x10, x11, x12, x13>>
  BY DEF Store!AppendRecord, Store!counters, Store!Exists, Store!Files
<1>2. /\ x1[x3] \in Store!File /\ x1[x3].id = x4 /\ x3 \in Store!Paths /\ x3[1] = x4 /\ x4 \in x10
      /\ Store!Timely(x3) /\ x4 \in SessionIds
  BY <1>1, StoreOpenFileType
<1>3. x7 \in {"prompt", "message"} /\ x5 \in Seq(0..SessionMessages) /\ (x7 = "message" => x5 # <<>>)
  BY <1>1 DEF Store!Inv, Store!InStep, Store!TypeOK, Store!Messages
<1>4. x7 = "message" => Store!Record = <<Store!Last(x5)>> /\ Store!Last(x5) \in 0..SessionMessages
  BY <1>3, EmptySeq, ElementOfSeq DEF Store!Record, Store!Last
<1>5. x7 = "prompt" => Store!Record = <<>>
  BY DEF Store!Record
<1>6. Store!Record \in Seq(0..SessionMessages)
  <2>1. x7 = "message" => <<Store!Last(x5)>> \in Seq(0..SessionMessages)
    BY <1>4
  <2> QED
    BY <2>1, <1>3, <1>4, <1>5, EmptySeq
<1>7. x1[x3].msgs \in Seq(0..SessionMessages) /\ x1[x3].spliced \in BOOLEAN
  BY <1>2 DEF Store!File, Store!Messages
<1>8. x1[x3].msgs \o Store!Record \in Seq(0..SessionMessages)
  BY <1>6, <1>7, ConcatProperties
<1>9. f = [id |-> x4, msgs |-> IF x1[x3].tail = "clean" THEN x1[x3].msgs \o Store!Record ELSE x1[x3].msgs,
           tail |-> "unterminated", spliced |-> x1[x3].spliced \/ x1[x3].tail # "clean"]
  BY <1>2 DEF Store!WithRecord
<1>10. f \in Store!File /\ f.id = x4 /\ (~f.spliced => ~x1[x3].spliced /\ x1[x3].tail = "clean" /\ f.msgs = x1[x3].msgs \o Store!Record)
       /\ (f.spliced => x1[x3].spliced \/ x1[x3].tail # "clean")
  <2>1. (x1[x3].spliced \/ x1[x3].tail # "clean") \in BOOLEAN
    OBVIOUS
  <2> HIDE DEF f
  <2>2. f \in Store!File
    BY <1>2, <1>7, <1>8, <1>9, <2>1 DEF Store!File, Store!Messages
  <2> QED
    BY <2>2, <1>7, <1>9
<1> HIDE DEF f
<1>11. x9[x4] \in Seq(0..SessionMessages)
  BY <1>2 DEF Store!Inv, Store!TypeOK, Store!Messages
<1>12. ASSUME ~f.spliced, x7 = "prompt" PROVE f.msgs = x5 /\ x9[x4] = x5
  <2>1. x1[x3] = Store!Snapshot /\ x9[x4] = x5
    BY <1>1, <1>12 DEF Store!Inv, Store!OpenFile, Store!Exists, Store!Files
  <2>2. x1[x3].msgs = x5
    BY <2>1 DEF Store!Snapshot
  <2> QED
    BY <2>1, <2>2, <1>3, <1>5, <1>10, <1>12, ConcatEmptySeq
<1>13. ASSUME ~f.spliced, x7 = "message" PROVE f.msgs = x5 /\ x5 = Append(x9[x4], Store!Last(x5))
  <2>1. x1[x3].msgs = x9[x4] /\ x5 = Append(x9[x4], Store!Last(x5))
    BY <1>1, <1>10, <1>13 DEF Store!Inv, Store!OpenFile, Store!Behind, Store!Exists, Store!Files
  <2>2. x9[x4] \o <<Store!Last(x5)>> = Append(x9[x4], Store!Last(x5))
    BY <1>4, <1>11, <1>13
  <2> QED
    BY <2>1, <2>2, <1>4, <1>10, <1>13
<1>14. ~f.spliced => Store!IsPrefix(x9[x4], f.msgs) /\ Len(f.msgs) <= Len(x9[x4]) + 1
  <2>1. Store!IsPrefix(x9[x4], x9[x4]) /\ Len(x9[x4]) \in Nat
    BY <1>11, StorePrefix, LenProperties
  <2>2. x7 = "message" => Store!IsPrefix(x9[x4], Append(x9[x4], Store!Last(x5)))
                          /\ Len(Append(x9[x4], Store!Last(x5))) = Len(x9[x4]) + 1
    BY <1>4, <1>11, StorePrefix
  <2>3. CASE x7 = "prompt"
    BY <2>1, <2>3, <1>12
  <2>4. CASE x7 = "message"
    <3>1. ASSUME ~f.spliced PROVE f.msgs = Append(x9[x4], Store!Last(x5))
      BY <3>1, <2>4, <1>13
    <3>2. ~f.spliced => Store!IsPrefix(x9[x4], f.msgs) /\ Len(f.msgs) = Len(x9[x4]) + 1
      BY <2>2, <2>4, <3>1, Zenon
    <3> QED
      BY <2>1, <3>2
  <2> QED
    BY <2>3, <2>4, <1>3
<1>15. Store!OnDisk' /\ Store!Newest(x3, Store!OfSession(x4))'
  <2>1. \A s \in SessionIds : s # f.id => x9'[s] = x9[s]
    BY <1>1
  <2>2. Store!OnDisk
    BY DEF Store!Inv
  <2> QED
    BY <1>1, <1>2, <1>10, <1>14, <2>1, <2>2, StoreDiskWritten
<1>16. x1'[x3] = f /\ x3 \in DOMAIN x1'
  BY <1>1, <1>2, <1>10, StoreWritten DEF Store!Inv, Store!OnDisk
<1>17. Store!TypeOK'
  BY <1>1, <1>15 DEF Store!Inv, Store!TypeOK, Store!OnDisk
<1>18. Store!OpenPath' /\ Store!InStep' /\ Store!RotationsBounded'
  BY <1>1, <1>16 DEF Store!Inv, Store!OpenPath, Store!InStep, Store!RotationsBounded, Store!Timely, Store!Exists, Store!Files
<1>19. Store!SplicedOnlyAfterWarning'
  BY <1>1, <1>10, <1>16 DEF Store!Inv, Store!OpenFile, Store!SplicedOnlyAfterWarning, Store!Exists, Store!Files
<1>20. Store!OpenFile'
  BY <1>1, <1>12, <1>13, <1>15, <1>16 DEF Store!OpenFile, Store!Whole, Store!Behind, Store!Exists, Store!Files
<1> QED
  BY <1>15, <1>17, <1>18, <1>19, <1>20 DEF Store!Inv

LEMMA StoreAppendFailsStep ==
  ASSUME ProgramAssumption, Store!Inv, Store!AppendFails
  PROVE  Store!Inv'
<1> DEFINE f == Store!WithPartOfRecord(x1[x3])
<1>1. /\ x6 = "append" /\ x3 \in DOMAIN x1 /\ (UNCHANGED <<x1, x2>> \/ Store!Written(x3, f))
      /\ Store!Failed /\ x12' \in 0..SessionFaults /\ UNCHANGED <<x9, x10, x13>>
  BY DEF Store!AppendFails, Store!Fault, Store!files, Store!Exists, Store!Files, Store!Inv, Store!TypeOK, ProgramAssumption
<1>2. /\ x1[x3] \in Store!File /\ x1[x3].id = x4 /\ x3 \in Store!Paths /\ x3[1] = x4 /\ x4 \in x10
      /\ Store!Timely(x3) /\ x4 \in SessionIds
  BY <1>1, StoreOpenFileType
<1>3. f = [id |-> x4, msgs |-> x1[x3].msgs, tail |-> "partial", spliced |-> x1[x3].spliced \/ x1[x3].tail # "clean"]
  BY <1>2 DEF Store!WithPartOfRecord
<1>4. f \in Store!File /\ f.id = x4 /\ f.msgs = x1[x3].msgs /\ (~f.spliced => ~x1[x3].spliced)
  <2>1. (x1[x3].spliced \/ x1[x3].tail # "clean") \in BOOLEAN
    OBVIOUS
  <2> HIDE DEF f
  <2>2. f \in Store!File
    BY <1>2, <1>3, <2>1 DEF Store!File
  <2>3. x1[x3].spliced \in BOOLEAN
    BY <1>2 DEF Store!File
  <2> QED
    BY <2>2, <2>3, <1>3
<1> HIDE DEF f
<1>5. x9[x4] \in Seq(0..SessionMessages) /\ x9' \in [SessionIds -> Store!Messages]
  BY <1>1, <1>2 DEF Store!Inv, Store!TypeOK, Store!Messages
<1>6. x7 \in {"prompt", "message"}
  BY <1>1 DEF Store!Inv, Store!InStep, Store!TypeOK
<1>7. x7 = "prompt" => x1[x3].msgs = x5 /\ x9[x4] = x5
  BY <1>1 DEF Store!Inv, Store!OpenFile, Store!Snapshot, Store!Exists, Store!Files
<1>8. ~x1[x3].spliced => x1[x3].msgs = x9[x4]
  BY <1>1, <1>6, <1>7 DEF Store!Inv, Store!OpenFile, Store!Behind, Store!Exists, Store!Files
<1>9. Store!Newest(x3, Store!OfSession(x4)) /\ Store!OnDisk
  BY <1>1 DEF Store!Inv, Store!OpenFile, Store!Exists, Store!Files
<1>10. /\ Store!OnDisk' /\ x3 \in DOMAIN x1' /\ x1'[x3] \in {x1[x3], f}
       /\ (x4' = x4 /\ x3' = x3 => Store!Newest(x3, Store!OfSession(x4))')
  <2>1. CASE UNCHANGED <<x1, x2>>
    BY <2>1, <1>1, <1>9, StoreDiskStays DEF Store!Newest, Store!OfSession, Store!Files
  <2>2. CASE Store!Written(x3, f)
    <3>1. x9'[f.id] # <<>> /\ ~f.spliced => Store!IsPrefix(x9'[f.id], f.msgs) /\ Len(f.msgs) <= Len(x9'[f.id]) + 1
      BY <1>1, <1>4, <1>5, <1>8, StorePrefix, LenProperties
    <3>2. \A s \in SessionIds : s # f.id => x9'[s] = x9[s]
      BY <1>1
    <3>3. PICK p \in Store!Paths, g \in Store!File : p = x3 /\ g = f
      BY <1>2, <1>4
    <3>4. Store!OnDisk' /\ Store!Newest(p, Store!OfSession(g.id))'
      BY <3>1, <3>2, <3>3, <2>2, <1>1, <1>2, <1>4, <1>9, StoreDiskWritten
    <3>5. x1'[p] = g /\ p \in DOMAIN x1'
      <4>1. Store!FilesType /\ Store!Ordered /\ Store!Written(p, g)
        BY <3>3, <2>2, <1>9 DEF Store!OnDisk
      <4> QED
        BY ONLY <3>3, <4>1, StoreWritten
    <3>6. x4' = x4 /\ x3' = x3 => Store!Newest(x3, Store!OfSession(x4))'
      BY <3>3, <3>4, <1>4 DEF Store!Newest, Store!OfSession, Store!Files
    <3> QED
      BY <3>3, <3>4, <3>5, <3>6
  <2> QED
    BY <2>1, <2>2, <1>1
<1>11. CASE x7 = "prompt"
  <2>1. x8' = TRUE /\ Store!StartMessage /\ UNCHANGED <<x3, x4>>
    BY <1>1, <1>11 DEF Store!Failed
  <2>2. x1'[x3].msgs = x5 /\ x9'[x4] = x5
    BY <1>1, <1>4, <1>7, <1>10, <1>11
  <2> QED
    BY <2>1, <2>2, <1>1, <1>5, <1>10, StoreToMessage
<1>12. CASE x7 # "prompt"
  BY <1>1, <1>5, <1>10, <1>12, StoreStops DEF Store!Failed
<1> QED
  BY <1>11, <1>12

LEMMA StoreAppendNewlineStep ==
  ASSUME ProgramAssumption, Store!Inv, Store!AppendNewline
  PROVE  Store!Inv'
<1> DEFINE f == [x1[x3] EXCEPT !.tail = "clean"]
<1>1. x6 = "newline" /\ Store!Written(x3, f) /\ Store!Done /\ UNCHANGED <<x3, x4, x8, x10, x12, x13>>
  BY DEF Store!AppendNewline
<1>2. x3 \in DOMAIN x1 /\ x7 \in {"prompt", "message"}
  BY <1>1 DEF Store!Inv, Store!InStep, Store!TypeOK, Store!Exists, Store!Files
<1>3. /\ x1[x3] \in Store!File /\ x1[x3].id = x4 /\ x3 \in Store!Paths /\ x3[1] = x4 /\ x4 \in x10
      /\ Store!Timely(x3) /\ x4 \in SessionIds
  BY <1>2, StoreOpenFileType
<1>4. f \in Store!File /\ f.id = x4 /\ f.msgs = x1[x3].msgs /\ f.spliced = x1[x3].spliced /\ f.tail = "clean"
  BY <1>3 DEF Store!File
<1> HIDE DEF f
<1>5. x9 \in [SessionIds -> Store!Messages] /\ x5 \in Seq(0..SessionMessages) /\ x9[x4] \in Seq(0..SessionMessages)
  BY <1>3 DEF Store!Inv, Store!TypeOK, Store!Messages
<1>6. f.spliced \/ f.msgs = x5
  BY <1>1, <1>2, <1>4 DEF Store!Inv, Store!OpenFile, Store!Whole, Store!Behind, Store!Exists, Store!Files
<1>7. x7 = "prompt" => f.spliced \/ x9[x4] = x5
  BY <1>1, <1>2, <1>4 DEF Store!Inv, Store!OpenFile, Store!Whole, Store!Exists, Store!Files
<1>8. /\ x7 = "prompt" => Store!StartMessage /\ x9' = x9
      /\ x7 = "message" => x6' = "turn" /\ x9' = [x9 EXCEPT ![x4] = x5] /\ UNCHANGED <<x5, x7, x11>>
  BY <1>1 DEF Store!Done
<1>9. x9' \in [SessionIds -> Store!Messages] /\ (f.spliced \/ x9'[x4] = x5)
      /\ \A s \in SessionIds : s # f.id => x9'[s] = x9[s]
  BY <1>2, <1>3, <1>4, <1>5, <1>7, <1>8 DEF Store!Messages
<1>10. ~f.spliced => Store!IsPrefix(x9'[f.id], f.msgs) /\ Len(f.msgs) <= Len(x9'[f.id]) + 1
  <2>1. Store!IsPrefix(x5, x5) /\ Len(x5) \in Nat
    BY <1>5, StorePrefix, LenProperties
  <2> QED
    BY <2>1, <1>4, <1>6, <1>9
<1>11. Store!OnDisk' /\ Store!Newest(x3, Store!OfSession(x4))'
  <2>1. Store!OnDisk
    BY DEF Store!Inv
  <2> QED
    BY <2>1, <1>1, <1>3, <1>4, <1>9, <1>10, StoreDiskWritten
<1>12. x1'[x3] = f /\ x3 \in DOMAIN x1'
  <2>1. Store!FilesType /\ Store!Ordered
    BY DEF Store!Inv, Store!OnDisk
  <2>2. PICK p \in Store!Paths, g \in Store!File : p = x3 /\ g = f
    BY <1>3, <1>4
  <2>3. Store!Written(p, g)
    BY <2>2, <1>1
  <2> QED
    BY ONLY <2>1, <2>2, <2>3, StoreWritten
<1>13. f.spliced => x8
  BY <1>2, <1>4 DEF Store!Inv, Store!SplicedOnlyAfterWarning, Store!Exists, Store!Files
<1>14. CASE x7 = "prompt"
  <2>1. x8' \in BOOLEAN /\ x12' \in 0..SessionFaults
    BY <1>1 DEF Store!Inv, Store!TypeOK
  <2> QED
    BY <2>1, <1>1, <1>4, <1>6, <1>8, <1>9, <1>11, <1>12, <1>13, <1>14, StoreToMessage
<1>15. CASE x7 = "message"
  <2>1. Store!TypeOK'
    BY <1>1, <1>8, <1>9, <1>11, <1>15 DEF Store!Inv, Store!TypeOK, Store!OnDisk
  <2>2. Store!OpenPath' /\ Store!InStep' /\ Store!RotationsBounded' /\ Store!SplicedOnlyAfterWarning'
    BY <1>1, <1>8, <1>12, <1>13, <1>15 DEF Store!Inv, Store!OpenPath, Store!InStep, Store!RotationsBounded,
       Store!SplicedOnlyAfterWarning, Store!Timely, Store!Exists, Store!Files
  <2>3. Store!OpenFile'
    BY <1>1, <1>4, <1>6, <1>8, <1>9, <1>11, <1>12, <1>15 DEF Store!OpenFile, Store!Whole, Store!Exists, Store!Files
  <2> QED
    BY <2>1, <2>2, <2>3, <1>11 DEF Store!Inv
<1> QED
  BY <1>2, <1>14, <1>15

LEMMA StoreNewlineFailsStep ==
  ASSUME ProgramAssumption, Store!Inv, Store!NewlineFails
  PROVE  Store!Inv'
<1>1. /\ x6 = "newline" /\ Store!Failed /\ x12' \in 0..SessionFaults /\ UNCHANGED <<x1, x2, x9, x10, x13>>
  BY DEF Store!NewlineFails, Store!Fault, Store!files, Store!Inv, Store!TypeOK, ProgramAssumption
<1>2. Store!OnDisk' /\ x9' \in [SessionIds -> Store!Messages]
  BY <1>1, StoreDiskStays DEF Store!Inv, Store!TypeOK
<1>3. CASE x7 = "prompt"
  <2>1. x8' = TRUE /\ Store!StartMessage /\ UNCHANGED <<x3, x4>>
    BY <1>1, <1>3 DEF Store!Failed
  <2>2. x3 \in DOMAIN x1' =>
          Store!Newest(x3, Store!OfSession(x4))' /\ (x1'[x3].spliced \/ (x1'[x3].msgs = x5 /\ x9'[x4] = x5))
    BY <1>1, <1>3, <2>1 DEF Store!Inv, Store!OpenFile, Store!Whole, Store!Newest, Store!OfSession, Store!Exists, Store!Files
  <2> QED
    BY <2>1, <2>2, <1>1, <1>2, StoreToMessage
<1>4. CASE x7 # "prompt"
  BY <1>1, <1>2, <1>4, StoreStops DEF Store!Failed
<1> QED
  BY <1>3, <1>4

LEMMA StoreRotateStep ==
  ASSUME ProgramAssumption, Store!Inv, Store!Rotate
  PROVE  Store!Inv'
<1>1. x6 = "rotate" /\ x6' = "replace" /\ UNCHANGED <<x3, x4, x5, x7, x8, x9, x10, x11, x12>>
  BY DEF Store!Rotate
<1>2. x13 \in Nat /\ x3 \in Store!Paths /\ Store!Timely(x3)
  BY <1>1 DEF Store!Inv, Store!TypeOK, Store!OpenPath, ProgramAssumption
<1>3. CASE x3 \in DOMAIN x1 /\ x13' = x13 + 1 /\ x13 < SessionRotations /\ Store!Renamed(x3, Append(x3, x13 + 1))
  <2>1. Store!OnDisk' /\ x3 \notin DOMAIN x1'
    <3>1. PICK p \in DOMAIN x1 : p = x3
      BY <1>3
    <3> QED
      BY <3>1, <1>1, <1>2, <1>3, StoreDiskRenamed DEF Store!Inv
  <2>2. x13' \in 0..SessionRotations
    BY <1>2, <1>3 DEF ProgramAssumption
  <2>3. Store!TypeOK'
    BY <1>1, <2>1, <2>2 DEF Store!Inv, Store!TypeOK, Store!OnDisk
  <2>4. Store!Timely(x3)'
    <3>1. \A i \in 2..Len(x3) : x3[i] \in Nat
      BY <1>2, ElementOfSeq, LenProperties DEF Store!Paths
    <3> QED
      BY <3>1, <1>1, <1>2, <1>3 DEF Store!Timely
  <2> QED
    BY <1>1, <2>1, <2>3, <2>4 DEF Store!Inv, Store!OpenPath, Store!InStep, Store!OpenFile,
       Store!SplicedOnlyAfterWarning, Store!RotationsBounded, Store!Exists, Store!Files
<1>4. CASE UNCHANGED <<x1, x2, x13>>
  <2>1. Store!OnDisk'
    BY <1>1, <1>4, StoreDiskStays DEF Store!Inv
  <2>2. Store!TypeOK'
    BY <1>1, <1>4, <2>1 DEF Store!Inv, Store!TypeOK, Store!OnDisk
  <2> QED
    BY <1>1, <1>4, <2>1, <2>2 DEF Store!Inv, Store!OpenPath, Store!InStep, Store!OpenFile, Store!Timely,
       Store!SplicedOnlyAfterWarning, Store!RotationsBounded, Store!Exists, Store!Files
<1> QED
  BY <1>3, <1>4 DEF Store!Rotate, Store!Exists, Store!Files, Store!files

LEMMA StoreReplaceStep ==
  ASSUME ProgramAssumption, Store!Inv, Store!Replace
  PROVE  Store!Inv'
<1> DEFINE f == Store!Snapshot
<1>1. /\ x6 = "replace" /\ x6' = "cleanup" /\ Store!Written(x3, f) /\ x9' = [x9 EXCEPT ![x4] = x5]
      /\ UNCHANGED <<x3, x4, x5, x7, x8, x10, x11, x12, x13>>
  BY DEF Store!Replace, Store!counters
<1>2. x3 \in Store!Paths /\ x3[1] = x4 /\ x4 \in x10 /\ Store!Timely(x3)
  BY <1>1 DEF Store!Inv, Store!OpenPath
<1>3. x4 \in SessionIds /\ x5 \in Store!Messages /\ x9 \in [SessionIds -> Store!Messages]
  BY DEF Store!Inv, Store!TypeOK
<1>4. f \in Store!File /\ f.id = x4 /\ f.msgs = x5 /\ ~f.spliced
  BY <1>3 DEF Store!Snapshot, Store!File
<1>5. f = f'
  BY <1>1 DEF Store!Snapshot
<1> HIDE DEF f
<1>6. x9' \in [SessionIds -> Store!Messages] /\ x9'[x4] = x5 /\ \A s \in SessionIds : s # f.id => x9'[s] = x9[s]
  BY <1>1, <1>3, <1>4
<1>7. Store!IsPrefix(x5, x5) /\ Len(x5) \in Nat
  BY <1>3, StorePrefix, LenProperties DEF Store!Messages
<1>8. Store!OnDisk' /\ Store!Newest(x3, Store!OfSession(x4))'
  <2>1. Store!OnDisk
    BY DEF Store!Inv
  <2> QED
    BY <2>1, <1>1, <1>2, <1>4, <1>6, <1>7, StoreDiskWritten
<1>9. x1'[x3] = f /\ x3 \in DOMAIN x1'
  <2>1. Store!FilesType /\ Store!Ordered
    BY DEF Store!Inv, Store!OnDisk
  <2>2. PICK p \in Store!Paths, g \in Store!File : p = x3 /\ g = f
    BY <1>2, <1>4
  <2>3. Store!Written(p, g)
    BY <2>2, <1>1
  <2> QED
    BY ONLY <2>1, <2>2, <2>3, StoreWritten
<1>10. Store!TypeOK'
  BY <1>1, <1>6, <1>8 DEF Store!Inv, Store!TypeOK, Store!OnDisk
<1>11. Store!OpenPath' /\ Store!InStep' /\ Store!RotationsBounded' /\ Store!SplicedOnlyAfterWarning'
  BY <1>1, <1>4, <1>9 DEF Store!Inv, Store!OpenPath, Store!InStep, Store!RotationsBounded,
     Store!SplicedOnlyAfterWarning, Store!Timely, Store!Exists, Store!Files
<1>12. Store!Snapshot' = f
  BY <1>5 DEF f
<1>13. Store!OpenFile'
  BY <1>1, <1>6, <1>8, <1>9, <1>12 DEF Store!OpenFile, Store!Exists, Store!Files
<1> QED
  BY <1>8, <1>10, <1>11, <1>13 DEF Store!Inv

\* Removing rotated copies leaves the open file, and what the program counted as saved.
LEMMA StoreCleaning ==
  ASSUME ProgramAssumption, Store!Inv, x6 = "cleanup", NEW gone \in SUBSET Store!RotationsOf(x3),
         Store!Removed(gone), UNCHANGED <<x10, x13>>, \A s \in SessionIds : x9'[s] = x9[s]
  PROVE  /\ Store!OnDisk' /\ x3 \in DOMAIN x1' /\ x1'[x3] = x1[x3]
         /\ UNCHANGED <<x3, x4>> => Store!Newest(x3, Store!OfSession(x4))'
<1>1. x3 \in DOMAIN x1 /\ Store!OnDisk /\ Store!FilesType /\ Store!Ordered
  BY DEF Store!Inv, Store!OnDisk, Store!InStep, Store!Exists, Store!Files
<1>2. Store!Newest(x3, Store!OfSession(x4))
  BY <1>1 DEF Store!Inv, Store!OpenFile, Store!Exists, Store!Files
<1>3. x3 \in Store!Paths /\ x3[1] = x4 /\ x4 \in SessionIds /\ x1[x3].id = x4
  BY <1>1, StoreOpenFileType
<1>4. \A p \in gone : p \in DOMAIN x1 /\ p # x3 /\ Store!IsStrictPrefix(x3, p)
  BY DEF Store!RotationsOf, Store!Files, Store!IsStrictPrefix
<1>5. ASSUME NEW p \in gone PROVE x1[p].id = x4
  <2>1. p \in Seq(Nat) /\ x3 \in Seq(Nat) /\ x3 # <<>> /\ p[1] = x1[p].id
    BY <1>1, <1>3, <1>4, StoreFilesType DEF Store!Paths, Store!OnDisk, Store!Files
  <2>2. Len(x3) <= Len(p) /\ SubSeq(x3, 1, Len(x3)) = SubSeq(p, 1, Len(x3))
    BY <1>4 DEF Store!IsStrictPrefix, Store!IsPrefix
  <2>3. 1 \in 1..Len(x3) /\ Len(x3) \in Nat /\ Len(p) \in Nat
    BY <2>1, EmptySeq, LenProperties
  <2>4. SubSeq(x3, 1, Len(x3))[1] = x3[1] /\ SubSeq(p, 1, Len(x3))[1] = p[1]
    BY <2>1, <2>2, <2>3
  <2> QED
    BY <2>1, <2>2, <2>4, <1>3
<1>6. \A s \in SessionIds : \A p \in gone : ~Store!Newest(p, Store!OfSession(s))
  BY <1>1, <1>2, <1>4, <1>5 DEF Store!Newest, Store!OfSession, Store!Ordered, Store!Files
<1>7. Store!OnDisk'
  BY <1>1, <1>6, StoreDiskRemoved
<1>8. /\ DOMAIN x1' = DOMAIN x1 \ gone
       /\ \A q \in DOMAIN x1' : x1'[q] = x1[q] /\ x2'[q] = x2[q] \ gone
  BY <1>1, StoreRemoved
<1>9. x3 \in DOMAIN x1' /\ x1'[x3] = x1[x3]
  BY <1>8, <1>1, <1>4
<1>10. ASSUME UNCHANGED <<x3, x4>> PROVE Store!Newest(x3, Store!OfSession(x4))'
  <2>1. Store!OfSession(x4)' = Store!OfSession(x4) \ gone
    BY <1>8, <1>10 DEF Store!OfSession, Store!Files
  <2> QED
    BY <2>1, <1>2, <1>8, <1>9, <1>10 DEF Store!Newest
<1> QED
  BY <1>7, <1>9, <1>10

LEMMA StoreCleanupStep ==
  ASSUME ProgramAssumption, Store!Inv, Store!Cleanup
  PROVE  Store!Inv'
<1>1. x6 = "cleanup" /\ Store!Removed(Store!Stale) /\ Store!Done /\ UNCHANGED <<x3, x4, x8, x10, x12, x13>>
  BY DEF Store!Cleanup
<1>2. x3 \in DOMAIN x1 /\ Store!FilesType /\ Store!Ordered
  BY <1>1 DEF Store!Inv, Store!OnDisk, Store!InStep, Store!Exists, Store!Files
<1>3. x1[x3] = Store!Snapshot /\ x9[x4] = x5
  BY <1>1, <1>2 DEF Store!Inv, Store!OpenFile, Store!Exists, Store!Files
<1>4. x1[x3].msgs = x5 /\ ~x1[x3].spliced /\ x1[x3].tail = "clean" /\ x4 \in SessionIds
  BY <1>3 DEF Store!Snapshot, Store!Inv, Store!TypeOK
<1>5. /\ x7 = "prompt" => Store!StartMessage /\ x9' = x9
      /\ x7 = "message" => x6' = "turn" /\ x9' = [x9 EXCEPT ![x4] = x5] /\ UNCHANGED <<x5, x7, x11>>
      /\ x7 = "command" => x6' = "idle" /\ UNCHANGED <<x5, x7, x9, x11>>
      /\ x7 \in {"prompt", "message", "command"}
  BY <1>1 DEF Store!Done
<1>6. x9' \in [SessionIds -> Store!Messages] /\ x9'[x4] = x5 /\ \A s \in SessionIds : x9'[s] = x9[s]
  <2>1. x9 \in [SessionIds -> Store!Messages] /\ x5 \in Store!Messages
    BY DEF Store!Inv, Store!TypeOK
  <2> QED
    BY <2>1, <1>3, <1>4, <1>5
<1>7. Store!OnDisk' /\ x3 \in DOMAIN x1' /\ x1'[x3] = x1[x3] /\ Store!Newest(x3, Store!OfSession(x4))'
  <2>1. Store!Stale \in SUBSET Store!RotationsOf(x3)
    BY DEF Store!Stale
  <2>2. PICK gone \in SUBSET Store!RotationsOf(x3) : gone = Store!Stale
    BY <2>1
  <2> QED
    BY <2>2, <1>1, <1>6, StoreCleaning
<1>8. CASE x7 = "prompt"
  <2>1. x8' \in BOOLEAN /\ x12' \in 0..SessionFaults
    BY <1>1 DEF Store!Inv, Store!TypeOK
  <2> QED
    BY <2>1, <1>1, <1>4, <1>5, <1>6, <1>7, <1>8, StoreToMessage
<1>9. CASE x7 \in {"message", "command"}
  <2>1. Store!TypeOK'
    BY <1>1, <1>5, <1>6, <1>7, <1>9 DEF Store!Inv, Store!TypeOK, Store!OnDisk
  <2>2. Store!OpenPath' /\ Store!InStep' /\ Store!SplicedOnlyAfterWarning'
    BY <1>1, <1>4, <1>5, <1>7, <1>9 DEF Store!Inv, Store!OpenPath, Store!InStep, Store!SplicedOnlyAfterWarning,
       Store!Timely, Store!Exists, Store!Files
  <2>3. Store!Snapshot' = Store!Snapshot
    BY <1>1, <1>5, <1>9 DEF Store!Snapshot
  <2>4. Store!OpenFile'
    BY <1>1, <1>3, <1>4, <1>5, <1>6, <1>7, <1>9, <2>3 DEF Store!OpenFile, Store!Whole, Store!Exists, Store!Files
  <2>5. Store!RotationsBounded'
    <3>1. PICK p : p = x3
      OBVIOUS
    <3>2. Store!Removed({q \in Store!RotationsOf(p) : Store!Cardinality({r \in Store!RotationsOf(p) : q \in x2[r]}) >= MaxRotated})
      BY <1>1, <3>1 DEF Store!Stale, Store!Later
    <3>3. Store!Cardinality(Store!RotationsOf(p)') <= MaxRotated
      BY <3>2, <1>2, StoreCleaned DEF ProgramAssumption
    <3> QED
      BY <3>1, <3>3, <1>1 DEF Store!RotationsBounded
  <2> QED
    BY <2>1, <2>2, <2>4, <2>5, <1>7 DEF Store!Inv
<1> QED
  BY <1>5, <1>8, <1>9

LEMMA StoreSaveFailsStep ==
  ASSUME ProgramAssumption, Store!Inv, Store!SaveFails
  PROVE  Store!Inv'
<1>1. /\ x6 \in {"rotate", "replace"} /\ Store!Failed /\ x12' \in 0..SessionFaults
      /\ UNCHANGED <<x1, x2, x9, x10, x13>>
  BY DEF Store!SaveFails, Store!Fault, Store!files, Store!Inv, Store!TypeOK, ProgramAssumption
<1>2. Store!OnDisk' /\ x9' \in [SessionIds -> Store!Messages]
  BY <1>1, StoreDiskStays DEF Store!Inv, Store!TypeOK
<1>3. CASE x7 = "prompt"
  <2>1. x8' = TRUE /\ Store!StartMessage /\ UNCHANGED <<x3, x4>>
    BY <1>1, <1>3 DEF Store!Failed
  <2>2. x3 \notin DOMAIN x1'
    BY <1>1, <1>3, <2>1 DEF Store!Inv, Store!InStep, Store!Exists, Store!Files
  <2> QED
    BY <2>1, <2>2, <1>1, <1>2, StoreToMessage
<1>4. CASE x7 # "prompt"
  BY <1>1, <1>2, <1>4, StoreStops DEF Store!Failed
<1> QED
  BY <1>3, <1>4

LEMMA StoreCleanupFailsStep ==
  ASSUME ProgramAssumption, Store!Inv, Store!CleanupFails
  PROVE  Store!Inv'
<1>1. PICK gone \in SUBSET Store!RotationsOf(x3) : Store!Removed(gone)
  BY DEF Store!CleanupFails, Store!Stale
<1>2. /\ x6 = "cleanup" /\ Store!Failed /\ x12' \in 0..SessionFaults /\ UNCHANGED <<x9, x10, x13>>
  BY DEF Store!CleanupFails, Store!Fault, Store!Inv, Store!TypeOK, ProgramAssumption
<1>3. /\ Store!OnDisk' /\ x3 \in DOMAIN x1' /\ x1'[x3] = x1[x3]
      /\ UNCHANGED <<x3, x4>> => Store!Newest(x3, Store!OfSession(x4))'
  BY <1>1, <1>2, StoreCleaning
<1>4. x9' \in [SessionIds -> Store!Messages]
  BY <1>2 DEF Store!Inv, Store!TypeOK
<1>5. CASE x7 = "prompt"
  <2>1. x8' = TRUE /\ Store!StartMessage /\ UNCHANGED <<x3, x4>>
    BY <1>2, <1>5 DEF Store!Failed
  <2>2. x1[x3] = Store!Snapshot /\ x9[x4] = x5
    BY <1>2 DEF Store!Inv, Store!OpenFile, Store!InStep, Store!Exists, Store!Files
  <2>3. x1'[x3].msgs = x5 /\ x9'[x4] = x5
    BY <2>2, <1>2, <1>3 DEF Store!Snapshot
  <2> QED
    BY <2>1, <2>3, <1>2, <1>3, <1>4, StoreToMessage
<1>6. CASE x7 # "prompt"
  BY <1>2, <1>3, <1>4, <1>6, StoreStops DEF Store!Failed
<1> QED
  BY <1>5, <1>6

LEMMA StoreCrashStep ==
  ASSUME ProgramAssumption, Store!Inv, Store!Crash
  PROVE  Store!Inv'
<1>1. Store!Stop /\ UNCHANGED <<x1, x2, x9, x10, x11, x12, x13>>
  BY DEF Store!Crash, Store!files, Store!counters
<1>2. Store!OnDisk' /\ x9' \in [SessionIds -> Store!Messages] /\ x12' \in 0..SessionFaults
  BY <1>1, StoreDiskStays DEF Store!Inv, Store!TypeOK
<1> QED
  BY <1>1, <1>2, StoreStops

LEMMA StorePersistStep ==
  ASSUME ProgramAssumption, Store!Inv, Store!PersistSession
  PROVE  Store!Inv'
<1>1. PICK ms \in Store!MaybeCompacted : Store!Save(ms)
  BY DEF Store!PersistSession
<1>2. x6 \in {"turn", "idle"} /\ UNCHANGED <<x1, x2, x3, x4, x8, x9, x10, x11, x12, x13>>
  BY DEF Store!PersistSession, Store!files, Store!counters
<1>3. ms \in Store!Messages
  <2>1. x5 \in Seq(0..SessionMessages)
    BY DEF Store!Inv, Store!TypeOK, Store!Messages
  <2>2. ASSUME Store!Compactable PROVE Store!Compacted \in Store!Messages
    <3>1. Len(x5) \in Nat /\ Len(x5) - PreserveRecent > 0 /\ PreserveRecent \in Nat
      BY <2>1, <2>2, LenProperties DEF Store!Compactable, ProgramAssumption
    <3>2. \A i \in Len(x5) - PreserveRecent + 1 .. Len(x5) : x5[i] \in 0..SessionMessages
      BY <2>1, <3>1, ElementOfSeq
    <3>3. SubSeq(x5, Len(x5) - PreserveRecent + 1, Len(x5)) \in Seq(0..SessionMessages)
      BY <3>1, <3>2, SubSeqProperties
    <3>4. <<0>> \in Seq(0..SessionMessages)
      BY DEF ProgramAssumption
    <3> QED
      BY <3>3, <3>4, ConcatProperties DEF Store!Compacted, Store!Messages
  <2> QED
    BY <2>1, <2>2 DEF Store!MaybeCompacted, Store!Messages
<1>4. Store!OnDisk'
  BY <1>2, StoreDiskStays DEF Store!Inv
<1>5. x3' \in Store!Paths /\ x3'[1] = x4' /\ x4' \in x10' /\ Store!Timely(x3)' /\ x4' \in SessionIds /\ x10' \subseteq SessionIds
  BY <1>2 DEF Store!Inv, Store!TypeOK, Store!OpenPath, Store!Timely
<1>6. x3' \in DOMAIN x1' /\ x1'[x3'].spliced => x8'
  BY <1>2 DEF Store!Inv, Store!SplicedOnlyAfterWarning, Store!Exists, Store!Files
<1> QED
  BY <1>1, <1>2, <1>3, <1>4, <1>5, <1>6, StoreSaves DEF Store!Save

LEMMA StoreForkStep ==
  ASSUME ProgramAssumption, Store!Inv, Store!Fork
  PROVE  Store!Inv'
<1>1. PICK s \in SessionIds \ x10 :
        /\ x10' = x10 \cup {s} /\ x4' = s /\ x3' = <<s>> /\ x5' = x5 /\ x6' = "rotate" /\ x7' = "command"
        /\ UNCHANGED <<x1, x2, x8, x9, x11, x12, x13>>
  BY DEF Store!Fork, Store!NewId, Store!Save, Store!files
<1>2. <<s>> \in Store!Paths /\ <<s>>[1] = s /\ Len(<<s>>) = 1
  BY DEF Store!Paths, ProgramAssumption
<1>3. Store!Timely(x3)'
  BY <1>1, <1>2 DEF Store!Timely
<1>4. Store!OnDisk'
  BY <1>1, StoreDiskStays DEF Store!Inv
<1>5. <<s>> \notin DOMAIN x1
  BY <1>2 DEF Store!Inv, Store!OnDisk, Store!Files
<1>6. x5' \in Store!Messages /\ x10' \subseteq SessionIds
  BY <1>1 DEF Store!Inv, Store!TypeOK
<1> QED
  BY <1>1, <1>2, <1>3, <1>4, <1>5, <1>6, StoreSaves

LEMMA StoreSwitchStep ==
  ASSUME ProgramAssumption, Store!Inv, NEW p \in Store!Files, Store!Switch(p)
  PROVE  Store!Inv'
<1>1. p \in DOMAIN x1 /\ UNCHANGED <<x1, x2, x9, x10, x11, x12, x13>>
  BY DEF Store!Switch, Store!files, Store!counters, Store!Files
<1>2. Store!OnDisk' /\ x9' \in [SessionIds -> Store!Messages] /\ x12' \in 0..SessionFaults /\ x10' \subseteq SessionIds
  BY <1>1, StoreDiskStays DEF Store!Inv, Store!TypeOK
<1>3. CASE Store!Loads(x1[p])
  <2>1. x3' = p /\ x4' = x1[p].id /\ x5' = x1[p].msgs /\ x6' = "rotate" /\ x7' = "command" /\ x8' = x8
    BY <1>3 DEF Store!Switch, Store!Save
  <2>2. x1[p] \in Store!File /\ p \in Store!Paths /\ p[1] = x1[p].id /\ p[1] \in x10 /\ Store!Timely(p)
    BY <1>1, StoreFilesType DEF Store!Inv, Store!OnDisk, Store!Files
  <2>3. x4' \in SessionIds /\ x5' \in Store!Messages
    BY <2>1, <2>2 DEF Store!File
  <2>4. Store!Timely(x3)'
    BY <2>1, <2>2, <1>1 DEF Store!Timely
  <2>5. ~x1'[x3'].spliced
    BY <2>1, <1>1, <1>3 DEF Store!Loads
  <2> QED
    BY <2>1, <2>2, <2>3, <2>4, <2>5, <1>1, <1>2, StoreSaves
<1>4. CASE ~Store!Loads(x1[p])
  BY <1>1, <1>2, <1>4, StoreStops DEF Store!Switch
<1> QED
  BY <1>3, <1>4

LEMMA StoreDeleteStep ==
  ASSUME ProgramAssumption, Store!Inv, NEW p \in Store!Files, Store!Delete(p)
  PROVE  Store!Inv'
<1>1. /\ x6 = "idle" /\ p \in DOMAIN x1 /\ Store!Removed({p})
      /\ x9' = [x9 EXCEPT ![x1[p].id] = IF Store!Newest(p, Store!OfSession(x1[p].id)) THEN <<>> ELSE @]
      /\ UNCHANGED <<x3, x4, x5, x6, x7, x8, x10, x11, x12, x13>>
  BY DEF Store!Delete, Store!counters, Store!Files
<1>2. Store!OnDisk /\ Store!FilesType /\ Store!Ordered /\ x9 \in [SessionIds -> Store!Messages]
  BY DEF Store!Inv, Store!OnDisk, Store!TypeOK
<1>3. x1[p] \in Store!File /\ x1[p].id \in SessionIds
  BY <1>1, <1>2, StoreFilesType DEF Store!File
<1>4. x9' \in [SessionIds -> Store!Messages]
  <2>1. <<>> \in Store!Messages
    BY EmptySeq DEF Store!Messages
  <2> QED
    BY <2>1, <1>1, <1>2, <1>3
<1>5. ASSUME NEW s \in SessionIds, x9'[s] # <<>> PROVE x9'[s] = x9[s] /\ ~Store!Newest(p, Store!OfSession(s))
  <2>1. CASE s = x1[p].id
    BY <2>1, <1>1, <1>2, <1>5
  <2>2. CASE s # x1[p].id
    BY <2>2, <1>1, <1>2, <1>5 DEF Store!Newest, Store!OfSession
  <2> QED
    BY <2>1, <2>2
<1>6. Store!OnDisk'
  BY <1>1, <1>2, <1>5, StoreDiskRemoved
<1>7. /\ DOMAIN x1' = DOMAIN x1 \ {p}
      /\ \A q \in DOMAIN x1' : x1'[q] = x1[q] /\ x2'[q] = x2[q] \ {p}
  BY <1>1, <1>2, StoreRemoved
<1>8. Store!TypeOK'
  BY <1>1, <1>4, <1>6 DEF Store!Inv, Store!TypeOK, Store!OnDisk
<1>9. Store!OpenPath' /\ Store!InStep' /\ Store!SplicedOnlyAfterWarning'
  BY <1>1, <1>7 DEF Store!Inv, Store!OpenPath, Store!InStep, Store!SplicedOnlyAfterWarning, Store!Timely,
     Store!Exists, Store!Files
<1>10. ASSUME x3 \in DOMAIN x1'
       PROVE  Store!Newest(x3, Store!OfSession(x4))' /\ x1'[x3] = Store!Snapshot' /\ x9'[x4] = x5
  <2>1. x3 \in DOMAIN x1 /\ x3 # p /\ x4 \in SessionIds
    BY <1>7, <1>10 DEF Store!Inv, Store!TypeOK
  <2>2. Store!Newest(x3, Store!OfSession(x4)) /\ x1[x3] = Store!Snapshot /\ x9[x4] = x5
    BY <2>1, <1>1 DEF Store!Inv, Store!OpenFile, Store!Exists, Store!Files
  <2>3. Store!Newest(x3, Store!OfSession(x4))'
    BY <2>1, <2>2, <1>1, <1>7 DEF Store!Newest, Store!OfSession, Store!Files
  <2>4. ~Store!Newest(p, Store!OfSession(x4))
    BY <2>1, <2>2, <1>2 DEF Store!Newest, Store!OfSession, Store!Ordered, Store!Files
  <2>5. x9'[x4] = x9[x4]
    BY <2>1, <2>4, <1>1, <1>2, <1>3
  <2>6. Store!Snapshot' = Store!Snapshot
    BY <1>1 DEF Store!Snapshot
  <2> QED
    BY <2>1, <2>2, <2>3, <2>5, <2>6, <1>7, <1>10
<1>11. Store!OpenFile'
  BY <1>1, <1>10 DEF Store!OpenFile, Store!Exists, Store!Files
<1>12. Store!RotationsBounded'
  <2>1. Store!RotationsOf(x3)' \subseteq Store!RotationsOf(x3) /\ Store!RotationsOf(x3) \subseteq DOMAIN x1
    BY <1>1, <1>7 DEF Store!RotationsOf, Store!Files
  <2>2. IsFiniteSet(Store!RotationsOf(x3)) /\ IsFiniteSet(Store!RotationsOf(x3)')
    BY <2>1, <1>2, StoreFilesType, FS_Subset
  <2>3. Cardinality(Store!RotationsOf(x3)') <= Cardinality(Store!RotationsOf(x3))
    BY <2>1, <2>2, FS_Subset
  <2>4. Cardinality(Store!RotationsOf(x3)) <= MaxRotated
    BY <1>1, StoreCardinality DEF Store!Inv, Store!RotationsBounded
  <2>5. Cardinality(Store!RotationsOf(x3)') \in Nat /\ Cardinality(Store!RotationsOf(x3)) \in Nat /\ MaxRotated \in Nat
    BY <2>2, FS_CardinalityType DEF ProgramAssumption
  <2>6. Cardinality(Store!RotationsOf(x3)') <= MaxRotated
    BY <2>3, <2>4, <2>5
  <2> QED
    BY <2>6, StoreCardinality DEF Store!RotationsBounded
<1> QED
  BY <1>6, <1>8, <1>9, <1>11, <1>12 DEF Store!Inv

LEMMA StoreNext ==
  ASSUME ProgramAssumption, Store!Inv, Store!Next
  PROVE  Store!Inv'
<1>1. CASE Store!Start \/ Store!Clear
  BY <1>1, StoreFreshStep DEF Store!Start, Store!Clear
<1>2. CASE Store!BeginTurn
  BY <1>2, StoreBeginTurnStep
<1>3. CASE Store!PushMessage
  BY <1>3, StorePushMessageStep
<1>4. CASE Store!Bootstrap
  BY <1>4, StoreBootstrapStep
<1>5. CASE Store!AppendRecord
  BY <1>5, StoreAppendRecordStep
<1>6. CASE Store!AppendFails
  BY <1>6, StoreAppendFailsStep
<1>7. CASE Store!AppendNewline
  BY <1>7, StoreAppendNewlineStep
<1>8. CASE Store!NewlineFails
  BY <1>8, StoreNewlineFailsStep
<1>9. CASE Store!Rotate
  BY <1>9, StoreRotateStep
<1>10. CASE Store!Replace
  BY <1>10, StoreReplaceStep
<1>11. CASE Store!Cleanup
  BY <1>11, StoreCleanupStep
<1>12. CASE Store!SaveFails
  BY <1>12, StoreSaveFailsStep
<1>13. CASE Store!CleanupFails
  BY <1>13, StoreCleanupFailsStep
<1>14. CASE Store!PersistSession
  BY <1>14, StorePersistStep
<1>15. CASE Store!Fork
  BY <1>15, StoreForkStep
<1>16. CASE Store!Crash
  BY <1>16, StoreCrashStep
<1>17. CASE \E p \in Store!Files : Store!Switch(p) \/ Store!Delete(p)
  BY <1>17, StoreSwitchStep, StoreDeleteStep
<1> QED
  BY <1>1, <1>2, <1>3, <1>4, <1>5, <1>6, <1>7, <1>8, <1>9, <1>10, <1>11, <1>12, <1>14, <1>15, <1>16, <1>17,
     <1>13 DEF Store!Next

LEMMA StoreStep == ProgramAssumption /\ Store!Inv /\ [Store!Next]_(Store!vars) => Store!Inv'
<1> SUFFICES ASSUME ProgramAssumption, Store!Inv, [Store!Next]_(Store!vars) PROVE Store!Inv'
  OBVIOUS
<1>1. CASE Store!Next
  BY <1>1, StoreNext
<1>2. CASE UNCHANGED Store!vars
  <2>1. UNCHANGED <<x1, x2, x3, x4, x5, x6, x7, x8, x9, x10, x11, x12, x13>>
    BY <1>2 DEF Store!vars
  <2>2. Store!OnDisk'
    BY <2>1, StoreDiskStays DEF Store!Inv
  <2>3. Store!TypeOK'
    BY <2>1, <2>2 DEF Store!Inv, Store!TypeOK, Store!OnDisk
  <2>4. Store!OpenFile'
    BY <2>1 DEF Store!Inv, Store!OpenFile, Store!Newest, Store!OfSession, Store!Snapshot, Store!Whole, Store!Behind,
       Store!Exists, Store!Files
  <2> QED
    BY <2>1, <2>2, <2>3, <2>4 DEF Store!Inv, Store!OpenPath, Store!InStep, Store!SplicedOnlyAfterWarning,
       Store!RotationsBounded, Store!RotationsOf, Store!Timely, Store!Exists, Store!Files
<1> QED
  BY <1>1, <1>2

\* A command ends with the clean-up of the save: its file is there, and it is the session in memory.
LEMMA StoreDone ==
  ProgramAssumption /\ Store!Inv /\ [Store!Next]_(Store!vars) => Store!SavedWhenDone
<1> SUFFICES ASSUME ProgramAssumption, Store!Inv, [Store!Next]_(Store!vars), x6 # "idle", x6' = "idle"
             PROVE  x3' \in DOMAIN x1' /\ x1'[x3'] = Store!Snapshot'
  BY DEF Store!SavedWhenDone, Store!Exists, Store!Files
<1>1. Store!Inv'
  BY StoreStep
<1>2. Store!Next
  BY DEF Store!vars
<1>3. CASE Store!Cleanup
  <2>1. Store!Removed(Store!Stale) /\ x3' = x3 /\ x3 \in DOMAIN x1 /\ Store!FilesType /\ Store!Ordered
    BY <1>3 DEF Store!Cleanup, Store!Inv, Store!InStep, Store!OnDisk, Store!Exists, Store!Files
  <2>2. x3 \notin Store!Stale /\ Store!Stale \subseteq Store!Files
    BY DEF Store!Stale, Store!RotationsOf, Store!IsStrictPrefix
  <2>3. PICK gone \in SUBSET Store!Files : gone = Store!Stale
    BY <2>2
  <2>4. DOMAIN x1' = DOMAIN x1 \ gone
    BY <2>1, <2>3, StoreRemoved DEF Store!Files
  <2>5. x3' \in DOMAIN x1'
    BY <2>1, <2>2, <2>3, <2>4
  <2> QED
    BY <2>5, <1>1 DEF Store!Inv, Store!OpenFile, Store!Exists, Store!Files
<1>4. CASE Store!AppendNewline
  BY <1>4 DEF Store!AppendNewline, Store!Done, Store!StartMessage, Store!Inv, Store!InStep
<1>5. ~Store!Start /\ ~Store!Clear /\ ~Store!BeginTurn /\ ~Store!PushMessage /\ ~Store!Bootstrap /\ ~Store!AppendRecord
  BY DEF Store!Start, Store!Clear, Store!Fresh, Store!BeginTurn, Store!PushMessage, Store!Bootstrap,
     Store!AppendRecord, Store!StartMessage
<1>6. ~Store!AppendFails /\ ~Store!NewlineFails /\ ~Store!SaveFails /\ ~Store!CleanupFails /\ ~Store!Crash
  BY DEF Store!AppendFails, Store!NewlineFails, Store!SaveFails, Store!CleanupFails,
     Store!Failed, Store!StartMessage, Store!Stop, Store!Crash
<1>7. ~Store!Rotate /\ ~Store!Replace /\ ~Store!PersistSession /\ ~Store!Fork
  BY DEF Store!Rotate, Store!Replace, Store!PersistSession, Store!Save, Store!Fork
<1>8. \A p \in Store!Files : ~Store!Switch(p) /\ ~Store!Delete(p)
  BY DEF Store!Switch, Store!Save, Store!Stop, Store!Delete
<1> QED
  BY <1>2, <1>3, <1>4, <1>5, <1>6, <1>7, <1>8 DEF Store!Next

LEMMA StoreSound == Store!Inv => Store!TypeOK /\ Store!SavedIsSound
BY DEF Store!Inv, Store!OnDisk, Store!SavedIsSound

\* The newest file of a session holds, in order, every message that the program counted as
\* saved, whatever fails or crashes; only a record that follows a warning is written onto a torn
\* line; and a command that is done leaves no more rotations than it is to.
THEOREM SavedCorrect == ProgramSpec => []SavedIsSound
<1>1. ProgramInit /\ part = "sessions" => Store!Inv
  BY ProgramAssumption, StoreInit DEF ProgramInit
<1>2. part = "sessions" /\ [ProgramNext]_all => (part = "sessions")' /\ [Store!Next]_(Store!vars)
  BY DEF ProgramNext, all, from10, from11, from13, from14, from15, from16, from18, Store!vars
<1>3. ~(part = "sessions") /\ [ProgramNext]_all => (~(part = "sessions"))'
  BY DEF ProgramNext, all, from10, from11, from13, from14, from15, from16, from18
<1>4. Store!Inv /\ [Store!Next]_(Store!vars) => Store!Inv'
  BY ProgramAssumption, StoreStep
<1>5. Store!Inv => SavedIsSound
  BY StoreSound DEF SavedIsSound
<1>6. ~(part = "sessions") => SavedIsSound
  BY DEF SavedIsSound
<1> QED
  BY <1>1, <1>2, <1>3, <1>4, <1>5, <1>6, PTL DEF ProgramSpec

\* A command or a turn is done when the file of the open session is the session in memory,
\* whatever its appends had left in the file.
THEOREM DoneCorrect == ProgramSpec => DoneMeansSaved
<1>1. ProgramInit /\ part = "sessions" => Store!Inv
  BY ProgramAssumption, StoreInit DEF ProgramInit
<1>2. part = "sessions" /\ [ProgramNext]_all => (part = "sessions")' /\ [Store!Next]_(Store!vars)
  BY DEF ProgramNext, all, from10, from11, from13, from14, from15, from16, from18, Store!vars
<1>3. ~(part = "sessions") /\ [ProgramNext]_all => (~(part = "sessions"))'
  BY DEF ProgramNext, all, from10, from11, from13, from14, from15, from16, from18
<1>4. Store!Inv /\ [Store!Next]_(Store!vars) => Store!Inv'
  BY ProgramAssumption, StoreStep
<1>5. Store!Inv /\ [Store!Next]_(Store!vars) => [part = "sessions" => Store!SavedWhenDone]_all
  BY ProgramAssumption, StoreDone
<1>6. ~(part = "sessions") => [part = "sessions" => Store!SavedWhenDone]_all
  OBVIOUS
<1> QED
  BY <1>1, <1>2, <1>3, <1>4, <1>5, <1>6, PTL DEF ProgramSpec, DoneMeansSaved

-----------------------------------------------------------------------------
(* The settings.                                                           *)

\* The largest of some of the numbers of files.
LEMMA LargestFile ==
  ASSUME NEW S \in SUBSET (0..5), 0 \in S
  PROVE  Config!Max(S) \in S /\ \A k \in S : Config!Max(S) >= k
<1>1. \E k \in S : \A j \in S : k >= j
  OBVIOUS
<1> QED
  BY <1>1 DEF Config!Max

LEMMA LastFile ==
  ASSUME NEW STATE path
  PROVE  /\ Config!Last(x1, path) \in 0..5
         /\ Config!Last(x1, path) = 0 => \A i \in Config!Order : path \notin DOMAIN x1[i].keys
         /\ Config!Last(x1, path) # 0 =>
              /\ Config!Last(x1, path) \in Config!Order
              /\ path \in DOMAIN x1[Config!Last(x1, path)].keys
              /\ Config!Value(x1, path) = x1[Config!Last(x1, path)].keys[path]
         /\ \A j \in Config!Order : j > Config!Last(x1, path) => path \notin DOMAIN x1[j].keys
<1> DEFINE S == {i \in Config!Order : path \in DOMAIN x1[i].keys} \union {0}
<1>1. S \in SUBSET (0..5) /\ 0 \in S
  BY DEF Config!Order
<1>2. Config!Max(S) \in S /\ \A k \in S : Config!Max(S) >= k
  BY <1>1, LargestFile
<1>3. Config!Last(x1, path) = Config!Max(S)
  BY DEF Config!Last
<1> HIDE DEF S
<1>4. Config!Last(x1, path) \in S /\ \A k \in S : Config!Last(x1, path) >= k
  BY <1>2, <1>3
<1> QED
  BY <1>1, <1>4 DEF S, Config!Order, Config!Value

\* What a load that has read all the files takes from them is what they say.
LEMMA SettingsRead ==
  ASSUME Config!TypeOK, Config!MergedSoFar, x4.load, x2 # Config!NoLoad, x2.at \notin Config!Order
  PROVE  Config!Parsed(x2.merged, x2.server) = Config!Said(x1)
<1> DEFINE Said(path) == Config!Last(x1, path) # 0
           Serves(i) == Config!Server \cap DOMAIN x1[i].keys # {}
           mode == IF Said("permissionMode") THEN Config!Value(x1, "permissionMode")
                   ELSE Config!Value(x1, "permissions.defaultMode")
           server == Config!Max({0} \union {Config!Last(x1, path) : path \in Config!Server})
           named == \E p \in Config!Plugins : Said(Config!NewPath(p))
           on == {p \in Config!Plugins : LET path == IF named THEN Config!NewPath(p) ELSE Config!OldPath(p) IN
                               Said(path) /\ Config!Value(x1, path)}
<1>1. x2.at = 6 /\ 1..(x2.at - 1) = Config!Order
  BY DEF Config!TypeOK, Config!Order
<1>2. /\ \A i \in Config!Order : Config!Skipped(i, x1[i]) \/ ~Config!Refused(x1[i])
      /\ DOMAIN x2.merged = UNION {DOMAIN x1[i].keys : i \in Config!Order}
      /\ \A i \in Config!Order : \A p \in DOMAIN x1[i].keys :
           (\A j \in Config!Order : j > i => p \notin DOMAIN x1[j].keys) => x2.merged[p] = x1[i].keys[p]
      /\ (\A i \in Config!Order : ~Serves(i)) => x2.server = <<>>
      /\ \A i \in Config!Order :
           Serves(i) /\ (\A j \in Config!Order : j > i => ~Serves(j))
             => x2.server = Config!Restrict(x1[i].keys, Config!Server \cap DOMAIN x1[i].keys)
  BY <1>1 DEF Config!MergedSoFar
<1>3. ASSUME NEW path
      PROVE  /\ Said(path) <=> path \in DOMAIN x2.merged
             /\ Config!Value(x1, path) = IF path \in DOMAIN x2.merged THEN x2.merged[path] ELSE "unset"
  <2>1. CASE Said(path)
    BY <1>2, <2>1, LastFile
  <2>2. CASE ~Said(path)
    <3>1. path \notin DOMAIN x2.merged
      BY <1>2, <2>2, LastFile
    <3> QED
      BY <2>2, <3>1 DEF Config!Value
  <2> QED
    BY <2>1, <2>2
<1>4. Config!ModeOf(x2.merged) = mode
  BY <1>3 DEF Config!ModeOf
<1>5. Config!Enabled(x2.merged) = on
  BY <1>3 DEF Config!Enabled
<1>6. x2.server = IF server = 0 THEN <<>>
                  ELSE Config!Restrict(x1[server].keys, Config!Server \cap DOMAIN x1[server].keys)
  <2> DEFINE S == {0} \union {Config!Last(x1, path) : path \in Config!Server}
  <2>1. S \in SUBSET (0..5) /\ 0 \in S
    BY LastFile
  <2>2. server \in S /\ \A k \in S : server >= k
    BY <2>1, LargestFile
  <2> HIDE DEF server
  <2>3. ASSUME NEW j \in Config!Order, j > server PROVE ~Serves(j)
    <3>1. ASSUME NEW path \in Config!Server PROVE path \notin DOMAIN x1[j].keys
      <4>1. Config!Last(x1, path) \in S /\ Config!Last(x1, path) \in 0..5 /\ j \in 1..5
        BY LastFile DEF Config!Order
      <4>2. j > Config!Last(x1, path)
        BY <2>1, <2>2, <2>3, <4>1
      <4> QED
        BY <4>2, LastFile
    <3> QED
      BY <3>1
  <2>4. CASE server = 0
    BY <1>2, <2>3, <2>4 DEF Config!Order
  <2>5. CASE server # 0
    <3>1. server \in Config!Order /\ Serves(server)
      BY <2>2, <2>5, LastFile
    <3> QED
      BY <1>2, <2>3, <2>5, <3>1
  <2> QED
    BY <2>4, <2>5
<1>7. Config!Said(x1) = IF mode = "nonsense" THEN Config!Failure
                        ELSE Config!Loaded(mode, Config!Value(x1, "model"), on,
                               IF server = 0 THEN <<>>
                               ELSE Config!Restrict(x1[server].keys, Config!Server \cap DOMAIN x1[server].keys))
  BY <1>2 DEF Config!Said
<1>8. Config!Value(x1, "model") = IF "model" \in DOMAIN x2.merged THEN x2.merged["model"] ELSE "unset"
  BY <1>3
<1> HIDE DEF mode, on, server
<1> QED
  BY <1>4, <1>5, <1>6, <1>7, <1>8 DEF Config!Parsed

LEMMA ConfigInit == Config!Init => Config!Inv
<1> SUFFICES ASSUME Config!Init PROVE Config!Inv
  OBVIOUS
<1>1. x2 = Config!NoLoad /\ x3 = Config!Off /\ x4 = [load |-> FALSE, start |-> FALSE] /\ x7 = FALSE
      /\ x5 = [w \in SettingsWriters |-> Config!NoTool] /\ x6 = <<>>
  BY DEF Config!Init
<1>2. PICK s \in SettingsStarts : x1 = s.files
  BY DEF Config!Init
<1>3. /\ x1 = [i \in Config!Order |-> [kind |-> x1[i].kind, keys |-> x1[i].keys]]
      /\ \A i \in Config!Order : x1[i].kind \in Config!Kinds /\ (x1[i].kind # "object" => x1[i].keys = <<>>)
  BY <1>2, SettingsAssumption DEF Config!Order, Config!Kinds
<1>4. Config!TypeOK
  <2>1. x5 = [w \in SettingsWriters |-> x5[w]] /\ {v \in SettingsWriters : x5[v] # Config!NoTool} = {}
    BY <1>1
  <2>2. DOMAIN x6 = {}
    BY <1>1
  <2>3. x3 = [phase |-> x3.phase, asked |-> x3.asked, mode |-> x3.mode, settings |-> x3.settings]
        /\ x3.phase = "off"
    BY <1>1 DEF Config!Off
  <2> QED
    BY <1>1, <1>3, <2>1, <2>2, <2>3 DEF Config!TypeOK
<1>5. Config!MergedSoFar /\ Config!LoadIsExact /\ Config!ModeFollows
  BY <1>1 DEF Config!MergedSoFar, Config!LoadIsExact, Config!ModeFollows, Config!Off, Config!NoLoad
<1>6. Config!WritersKeep /\ Config!SetsAreKept
  BY <1>1 DEF Config!WritersKeep, Config!SetsAreKept
<1> QED
  BY <1>4, <1>5, <1>6 DEF Config!Inv

\* Settings are set in two of the files.
LEMMA SupportedFile == \A s \in Config!Supported : s.file \in Config!Order
<1>1. Config!Global \in Config!Order /\ Config!Local \in Config!Order
  BY DEF Config!Global, Config!Local, Config!Order
<1>2. ASSUME NEW s \in Config!Supported PROVE s.file = Config!Global \/ s.file = Config!Local
  <2>1. PICK p, v : \/ s = [file |-> Config!Global, path |-> p, value |-> v]
                    \/ s = [file |-> Config!Local, path |-> p, value |-> v]
    BY Zenon DEF Config!Supported
  <2> QED
    BY <2>1
<1> QED
  BY <1>1, <1>2

\* What a step leaves alone that changes no file and no setting.
LEMMA ConfigFrame ==
  ASSUME UNCHANGED <<x1, x5, x6, x7>>, Config!WritersKeep, Config!SetsAreKept
  PROVE  Config!WritersKeep' /\ Config!SetsAreKept'
BY DEF Config!WritersKeep, Config!SetsAreKept

\* What a step leaves alone that does not load.
LEMMA ConfigSame ==
  ASSUME UNCHANGED <<x1, x2, x4>>, Config!MergedSoFar
  PROVE  Config!MergedSoFar'
BY DEF Config!MergedSoFar

\* What has its type after a step of the program.
LEMMA ConfigTypes ==
  ASSUME Config!TypeOK, UNCHANGED <<x1, x5, x6, x7>>, x4' \in [load : BOOLEAN, start : BOOLEAN],
         x3' = [phase |-> x3'.phase, asked |-> x3'.asked, mode |-> x3'.mode, settings |-> x3'.settings],
         x3'.phase \in {"off", "start", "idle", "turn", "ended"},
         x2' # Config!NoLoad =>
           /\ x2' = [for |-> x2'.for, at |-> x2'.at, merged |-> x2'.merged, server |-> x2'.server]
           /\ x2'.for \in {"mode", "build"} /\ x2'.at \in 1..6
  PROVE  Config!TypeOK'
BY DEF Config!TypeOK

\* A load that begins has read nothing.
LEMMA ConfigBegins ==
  ASSUME NEW for \in {"mode", "build"}, x2' = Config!Begin(for)
  PROVE  /\ x2' # Config!NoLoad /\ x2'.for = for
         /\ x2' = [for |-> x2'.for, at |-> x2'.at, merged |-> x2'.merged, server |-> x2'.server]
         /\ x2'.at \in 1..6 /\ Config!MergedSoFar'
<1>1. /\ x2' # Config!NoLoad /\ x2'.for = for /\ x2'.at = 1 /\ x2'.merged = <<>> /\ x2'.server = <<>>
      /\ x2' = [for |-> x2'.for, at |-> x2'.at, merged |-> x2'.merged, server |-> x2'.server]
  BY DEF Config!Begin, Config!NoLoad
<1>2. 1..(x2'.at - 1) = {} /\ DOMAIN x2'.merged = {}
  BY <1>1
<1> QED
  BY <1>1, <1>2 DEF Config!MergedSoFar

\* A change of a file disturbs the load under way and what the start has found.
LEMMA ConfigChanged ==
  ASSUME x4' = [load |-> FALSE, start |-> FALSE]
  PROVE  Config!MergedSoFar' /\ Config!LoadIsExact'
BY DEF Config!MergedSoFar, Config!LoadIsExact

LEMMA ConfigStart == Config!Inv /\ Config!Start => Config!Inv'
<1> SUFFICES ASSUME Config!Inv, Config!Start PROVE Config!Inv'
  OBVIOUS
<1>1. PICK asked \in {"unset", "read-only"} :
        /\ x3' = [Config!Off EXCEPT !.phase = "start", !.asked = asked, !.mode = asked]
        /\ x2' = Config!Begin(IF asked = "unset" THEN "mode" ELSE "build")
  BY DEF Config!Start
<1>2. /\ x4' = [load |-> TRUE, start |-> TRUE] /\ UNCHANGED <<x1, x5, x6, x7>>
  BY DEF Config!Start
<1>3. x3' = [phase |-> "start", asked |-> asked, mode |-> asked, settings |-> Config!Failure]
  BY <1>1 DEF Config!Off
<1>4. /\ x2' # Config!NoLoad /\ x2'.for = (IF asked = "unset" THEN "mode" ELSE "build")
      /\ x2' = [for |-> x2'.for, at |-> x2'.at, merged |-> x2'.merged, server |-> x2'.server]
      /\ x2'.at \in 1..6 /\ Config!MergedSoFar'
  BY <1>1, ConfigBegins
<1>5. Config!TypeOK'
  BY <1>2, <1>3, <1>4, ConfigTypes DEF Config!Inv
<1>6. Config!LoadIsExact'
  BY <1>4 DEF Config!LoadIsExact
<1>7. Config!ModeFollows'
  BY <1>2, <1>3, <1>4 DEF Config!ModeFollows
<1>8. Config!WritersKeep' /\ Config!SetsAreKept'
  BY <1>2, ConfigFrame DEF Config!Inv
<1> QED
  BY <1>4, <1>5, <1>6, <1>7, <1>8 DEF Config!Inv

LEMMA ConfigTurn == Config!Inv /\ Config!Turn => Config!Inv'
<1> SUFFICES ASSUME Config!Inv, Config!Turn PROVE Config!Inv'
  OBVIOUS
<1>1. /\ x3.phase = "idle" /\ x3' = [x3 EXCEPT !.phase = "turn"] /\ x2' = Config!Begin("build")
      /\ x4' = [x4 EXCEPT !.load = TRUE] /\ UNCHANGED <<x1, x5, x6, x7>>
  BY DEF Config!Turn
<1>2. x3' = [phase |-> "turn", asked |-> x3.asked, mode |-> x3.mode, settings |-> x3.settings]
  BY <1>1 DEF Config!Inv, Config!TypeOK
<1>3. x4' = [load |-> TRUE, start |-> x4.start] /\ x4.start \in BOOLEAN
  BY <1>1 DEF Config!Inv, Config!TypeOK
<1>4. /\ x2' # Config!NoLoad /\ x2'.for = "build"
      /\ x2' = [for |-> x2'.for, at |-> x2'.at, merged |-> x2'.merged, server |-> x2'.server]
      /\ x2'.at \in 1..6 /\ Config!MergedSoFar'
  BY <1>1, ConfigBegins
<1>5. Config!TypeOK'
  BY <1>1, <1>2, <1>3, <1>4, ConfigTypes DEF Config!Inv
<1>6. Config!LoadIsExact'
  BY <1>4 DEF Config!LoadIsExact
<1>7. Config!ModeFollows'
  BY <1>1, <1>2, <1>3, <1>4 DEF Config!Inv, Config!ModeFollows
<1>8. Config!WritersKeep' /\ Config!SetsAreKept'
  BY <1>1, ConfigFrame DEF Config!Inv
<1> QED
  BY <1>4, <1>5, <1>6, <1>7, <1>8 DEF Config!Inv

LEMMA ConfigTurnEnds == Config!Inv /\ Config!TurnEnds => Config!Inv'
<1> SUFFICES ASSUME Config!Inv, Config!TurnEnds PROVE Config!Inv'
  OBVIOUS
<1>1. /\ x3.phase = "turn" /\ x2 = Config!NoLoad /\ x3' = [x3 EXCEPT !.phase = "idle"]
      /\ UNCHANGED <<x1, x2, x4, x5, x6, x7>>
  BY DEF Config!TurnEnds
<1>2. x3' = [phase |-> "idle", asked |-> x3.asked, mode |-> x3.mode, settings |-> x3.settings]
  BY <1>1 DEF Config!Inv, Config!TypeOK
<1>3. Config!TypeOK'
  <2>1. x4 \in [load : BOOLEAN, start : BOOLEAN]
    BY DEF Config!Inv, Config!TypeOK
  <2> QED
    BY <1>1, <1>2, <2>1, ConfigTypes DEF Config!Inv
<1>4. Config!MergedSoFar' /\ Config!LoadIsExact'
  BY <1>1, <1>2, ConfigSame DEF Config!Inv, Config!LoadIsExact
<1>5. Config!ModeFollows'
  BY <1>1, <1>2 DEF Config!Inv, Config!ModeFollows, Config!NoLoad
<1>6. Config!WritersKeep' /\ Config!SetsAreKept'
  BY <1>1, ConfigFrame DEF Config!Inv
<1> QED
  BY <1>3, <1>4, <1>5, <1>6 DEF Config!Inv

\* The end of a load that gives what the files say, if nothing was written beside it.
LEMMA ConfigEnd ==
  ASSUME Config!Inv, x2 # Config!NoLoad, NEW STATE settings, Config!End(settings),
         x4.load => settings = Config!Said(x1), UNCHANGED <<x1, x5, x6, x7>>
  PROVE  Config!Inv'
<1>1. CASE x2.for = "mode"
  <2>1. /\ x3' = [x3 EXCEPT !.mode = Config!Default(settings)] /\ x2' = Config!Begin("build")
        /\ x4' = [x4 EXCEPT !.load = TRUE]
    BY <1>1 DEF Config!End
  <2>2. x3' = [phase |-> x3.phase, asked |-> x3.asked, mode |-> Config!Default(settings),
               settings |-> x3.settings]
    BY <2>1 DEF Config!Inv, Config!TypeOK
  <2>3. x4' = [load |-> TRUE, start |-> x4.start] /\ x4.start \in BOOLEAN
    BY <2>1 DEF Config!Inv, Config!TypeOK
  <2>4. /\ x2' # Config!NoLoad /\ x2'.for = "build"
        /\ x2' = [for |-> x2'.for, at |-> x2'.at, merged |-> x2'.merged, server |-> x2'.server]
        /\ x2'.at \in 1..6 /\ Config!MergedSoFar'
    BY <2>1, ConfigBegins
  <2>5. Config!TypeOK'
    <3>1. x3'.phase \in {"off", "start", "idle", "turn", "ended"}
      BY <2>2 DEF Config!Inv, Config!TypeOK
    <3> QED
      BY <2>2, <2>3, <2>4, <3>1, ConfigTypes DEF Config!Inv
  <2>6. Config!LoadIsExact'
    BY <2>4 DEF Config!LoadIsExact
  <2>7. Config!ModeFollows'
    BY <1>1, <2>2, <2>3, <2>4 DEF Config!Inv, Config!ModeFollows
  <2>8. Config!WritersKeep' /\ Config!SetsAreKept'
    BY ConfigFrame DEF Config!Inv
  <2> QED
    BY <2>4, <2>5, <2>6, <2>7, <2>8 DEF Config!Inv
<1>2. CASE x2.for # "mode"
  <2>1. /\ x3' = [x3 EXCEPT !.settings = settings,
                     !.phase = IF ~settings.ok THEN "ended" ELSE IF @ = "start" THEN "idle" ELSE @]
        /\ x2' = Config!NoLoad /\ x4' = x4
    BY <1>2 DEF Config!End
  <2>2. x3' = [phase |-> IF ~settings.ok THEN "ended" ELSE IF x3.phase = "start" THEN "idle" ELSE x3.phase,
               asked |-> x3.asked, mode |-> x3.mode, settings |-> settings]
    BY <2>1 DEF Config!Inv, Config!TypeOK
  <2>3. x2.for = "build" /\ x3.phase \in {"start", "turn"}
    BY <1>2 DEF Config!Inv, Config!TypeOK, Config!ModeFollows
  <2>4. Config!TypeOK'
    <3>1. x3'.phase \in {"off", "start", "idle", "turn", "ended"} /\ x4' \in [load : BOOLEAN, start : BOOLEAN]
      BY <2>1, <2>2, <2>3 DEF Config!Inv, Config!TypeOK
    <3> QED
      BY <2>1, <2>2, <3>1, ConfigTypes DEF Config!Inv
  <2>5. Config!MergedSoFar' /\ Config!LoadIsExact'
    BY <2>1, <2>2 DEF Config!MergedSoFar, Config!LoadIsExact
  <2>6. Config!ModeFollows'
    BY <2>1, <2>2, <2>3 DEF Config!Inv, Config!ModeFollows, Config!NoLoad
  <2>7. Config!WritersKeep' /\ Config!SetsAreKept'
    BY ConfigFrame DEF Config!Inv
  <2> QED
    BY <2>4, <2>5, <2>6, <2>7 DEF Config!Inv
<1> QED
  BY <1>1, <1>2

\* A load reads the next file.
LEMMA ConfigReadsOn ==
  ASSUME Config!Inv, x2 # Config!NoLoad, x2.at \in Config!Order, UNCHANGED <<x1, x3, x4, x5, x6, x7>>,
         NEW keys, NEW server, x2' = [for |-> x2.for, at |-> x2.at + 1, merged |-> keys, server |-> server],
         Config!Skipped(x2.at, x1[x2.at]) \/ ~Config!Refused(x1[x2.at]),
         DOMAIN keys = DOMAIN x2.merged \union DOMAIN x1[x2.at].keys,
         \A p \in DOMAIN keys : keys[p] = IF p \in DOMAIN x1[x2.at].keys THEN x1[x2.at].keys[p] ELSE x2.merged[p],
         server = IF Config!Server \cap DOMAIN x1[x2.at].keys = {} THEN x2.server
                  ELSE Config!Restrict(x1[x2.at].keys, Config!Server \cap DOMAIN x1[x2.at].keys)
  PROVE  Config!Inv'
<1>1. /\ x2' # Config!NoLoad /\ x2'.for = x2.for /\ x2'.at = x2.at + 1 /\ x2'.merged = keys /\ x2'.server = server
      /\ x2' = [for |-> x2'.for, at |-> x2'.at, merged |-> x2'.merged, server |-> x2'.server]
  BY DEF Config!NoLoad
<1>2. x2.at \in 1..5 /\ x2'.at \in 2..6 /\ x2.for \in {"mode", "build"}
  <2>1. x2.at \in 1..5
    BY DEF Config!Order
  <2>2. x2.for \in {"mode", "build"}
    BY DEF Config!Inv, Config!TypeOK
  <2> QED
    BY <1>1, <2>1, <2>2
<1>3. Config!TypeOK'
  <2>1. x2'.for \in {"mode", "build"} /\ x2'.at \in 1..6
    BY <1>1, <1>2
  <2>2. /\ x4' \in [load : BOOLEAN, start : BOOLEAN] /\ x3'.phase \in {"off", "start", "idle", "turn", "ended"}
        /\ x3' = [phase |-> x3'.phase, asked |-> x3'.asked, mode |-> x3'.mode, settings |-> x3'.settings]
    BY DEF Config!Inv, Config!TypeOK
  <2> QED
    BY <1>1, <2>1, <2>2, ConfigTypes DEF Config!Inv
<1>4. Config!LoadIsExact'
  BY <1>1 DEF Config!LoadIsExact
<1>5. Config!ModeFollows'
  BY <1>1 DEF Config!Inv, Config!ModeFollows
<1>6. Config!WritersKeep' /\ Config!SetsAreKept'
  BY ConfigFrame DEF Config!Inv
<1>7. ASSUME x4.load PROVE Config!MergedSoFar'
  <2> DEFINE before == 1..(x2.at - 1)
             next == 1..(x2'.at - 1)
             Serves(i) == Config!Server \cap DOMAIN x1[i].keys # {}
  <2>1. next = before \union {x2.at} /\ \A i \in before : i \in Nat /\ i < x2.at
    BY <1>1, <1>2
  <2>2. /\ \A i \in before : Config!Skipped(i, x1[i]) \/ ~Config!Refused(x1[i])
        /\ DOMAIN x2.merged = UNION {DOMAIN x1[i].keys : i \in before}
        /\ \A i \in before : \A p \in DOMAIN x1[i].keys :
             (\A j \in before : j > i => p \notin DOMAIN x1[j].keys) => x2.merged[p] = x1[i].keys[p]
        /\ (\A i \in before : ~Serves(i)) => x2.server = <<>>
        /\ \A i \in before :
             Serves(i) /\ (\A j \in before : j > i => ~Serves(j))
               => x2.server = Config!Restrict(x1[i].keys, Config!Server \cap DOMAIN x1[i].keys)
    BY <1>7 DEF Config!Inv, Config!MergedSoFar
  <2> HIDE DEF before, next
  <2>3. \A i \in next : Config!Skipped(i, x1[i]) \/ ~Config!Refused(x1[i])
    BY <2>1, <2>2
  <2>4. DOMAIN keys = UNION {DOMAIN x1[i].keys : i \in next}
    BY <2>1, <2>2
  <2>5. ASSUME NEW i \in next, NEW p \in DOMAIN x1[i].keys, \A j \in next : j > i => p \notin DOMAIN x1[j].keys
        PROVE  keys[p] = x1[i].keys[p]
    <3>1. CASE i = x2.at
      BY <3>1, <2>5
    <3>2. CASE i \in before
      <4>1. x2.at > i
        BY <2>1, <3>2, <1>2
      <4>2. p \notin DOMAIN x1[x2.at].keys /\ x2.merged[p] = x1[i].keys[p] /\ p \in DOMAIN x2.merged
        BY <2>1, <2>2, <2>5, <3>2, <4>1
      <4> QED
        BY <4>2
    <3> QED
      BY <2>1, <3>1, <3>2
  <2>6. (\A i \in next : ~Serves(i)) => server = <<>>
    BY <2>1, <2>2
  <2>7. ASSUME NEW i \in next, Serves(i), \A j \in next : j > i => ~Serves(j)
        PROVE  server = Config!Restrict(x1[i].keys, Config!Server \cap DOMAIN x1[i].keys)
    <3>1. CASE i = x2.at
      BY <3>1, <2>7
    <3>2. CASE i \in before
      <4>1. x2.at > i
        BY <2>1, <3>2, <1>2
      <4>2. ~Serves(x2.at)
        BY <2>1, <2>7, <4>1
      <4> QED
        BY <2>1, <2>2, <2>7, <3>2, <4>2
    <3> QED
      BY <2>1, <3>1, <3>2
  <2>8. /\ \A i \in next : Config!Skipped(i, x1'[i]) \/ ~Config!Refused(x1'[i])
        /\ DOMAIN x2'.merged = UNION {DOMAIN x1'[i].keys : i \in next}
        /\ \A i \in next : \A p \in DOMAIN x1'[i].keys :
             (\A j \in next : j > i => p \notin DOMAIN x1'[j].keys) => x2'.merged[p] = x1'[i].keys[p]
        /\ (\A i \in next : Config!Server \cap DOMAIN x1'[i].keys = {}) => x2'.server = <<>>
    <3>1. x1' = x1 /\ x2'.merged = keys /\ x2'.server = server
      BY <1>1
    <3>2. \A i \in next : Config!Skipped(i, x1'[i]) \/ ~Config!Refused(x1'[i])
      BY <2>3, <3>1
    <3>3. DOMAIN x2'.merged = UNION {DOMAIN x1'[i].keys : i \in next}
      BY <2>4, <3>1
    <3>4. \A i \in next : \A p \in DOMAIN x1'[i].keys :
             (\A j \in next : j > i => p \notin DOMAIN x1'[j].keys) => x2'.merged[p] = x1'[i].keys[p]
      BY <2>5, <3>1
    <3>5. (\A i \in next : Config!Server \cap DOMAIN x1'[i].keys = {}) => x2'.server = <<>>
      BY <2>6, <3>1
    <3> QED
      BY <3>2, <3>3, <3>4, <3>5
  <2>9. \A i \in next :
          Config!Server \cap DOMAIN x1'[i].keys # {}
            /\ (\A j \in next : j > i => Config!Server \cap DOMAIN x1'[j].keys = {})
          => x2'.server = Config!Restrict(x1'[i].keys, Config!Server \cap DOMAIN x1'[i].keys)
    BY <1>1, <2>7
  <2> QED
    BY <2>8, <2>9 DEF Config!MergedSoFar, next
<1>8. ~x4.load => Config!MergedSoFar'
  BY DEF Config!MergedSoFar
<1> QED
  BY <1>3, <1>4, <1>5, <1>6, <1>7, <1>8 DEF Config!Inv

LEMMA ConfigLoad == Config!Inv /\ Config!Load => Config!Inv'
<1> SUFFICES ASSUME Config!Inv, Config!Load PROVE Config!Inv'
  OBVIOUS
<1> DEFINE c == x1[x2.at]
<1>1. x2 # Config!NoLoad /\ UNCHANGED <<x1, x5, x6, x7>>
  BY DEF Config!Load
<1>2. CASE x2.at \notin Config!Order
  <2>1. Config!End(Config!Parsed(x2.merged, x2.server))
    BY <1>2 DEF Config!Load
  <2>2. x4.load => Config!Parsed(x2.merged, x2.server) = Config!Said(x1)
    BY <1>1, <1>2, SettingsRead DEF Config!Inv
  <2> QED
    BY <1>1, <2>1, <2>2, ConfigEnd
<1>3. CASE x2.at \in Config!Order /\ ~Config!Skipped(x2.at, c) /\ Config!Refused(c)
  <2>1. Config!End(Config!Failure)
    BY <1>3 DEF Config!Load
  <2>2. Config!Failure = Config!Said(x1)
    BY <1>3 DEF Config!Said
  <2> QED
    BY <1>1, <2>1, <2>2, ConfigEnd
<1>4. CASE x2.at \in Config!Order /\ Config!Skipped(x2.at, c)
  <2>1. x2' = [x2 EXCEPT !.at = x2.at + 1] /\ UNCHANGED <<x3, x4>>
    BY <1>4 DEF Config!Load
  <2>2. x2' = [for |-> x2.for, at |-> x2.at + 1, merged |-> x2.merged, server |-> x2.server]
    BY <1>1, <2>1 DEF Config!Inv, Config!TypeOK
  <2>3. DOMAIN c.keys = {}
    BY <1>4 DEF Config!Inv, Config!TypeOK, Config!Skipped
  <2> QED
    BY <1>1, <1>4, <2>1, <2>2, <2>3, ConfigReadsOn
<1>5. CASE x2.at \in Config!Order /\ ~Config!Skipped(x2.at, c) /\ ~Config!Refused(c)
  <2>1. /\ x2' = [x2 EXCEPT !.at = x2.at + 1, !.merged = Config!Merged(x2.merged, c.keys),
                           !.server = Config!MergedServer(x2.server, c.keys)]
        /\ UNCHANGED <<x3, x4>>
    BY <1>5 DEF Config!Load
  <2>2. x2' = [for |-> x2.for, at |-> x2.at + 1, merged |-> Config!Merged(x2.merged, c.keys),
               server |-> Config!MergedServer(x2.server, c.keys)]
    BY <1>1, <2>1 DEF Config!Inv, Config!TypeOK
  <2>3. /\ DOMAIN Config!Merged(x2.merged, c.keys) = DOMAIN x2.merged \union DOMAIN c.keys
        /\ \A p \in DOMAIN Config!Merged(x2.merged, c.keys) : Config!Merged(x2.merged, c.keys)[p] =
             IF p \in DOMAIN c.keys THEN c.keys[p] ELSE x2.merged[p]
    BY DEF Config!Merged, Config!Over
  <2>4. Config!MergedServer(x2.server, c.keys) =
          IF Config!Server \cap DOMAIN c.keys = {} THEN x2.server
          ELSE Config!Restrict(c.keys, Config!Server \cap DOMAIN c.keys)
    BY DEF Config!MergedServer
  <2> QED
    BY <1>1, <1>5, <2>1, <2>2, <2>3, <2>4, ConfigReadsOn
<1> QED
  BY <1>2, <1>3, <1>4, <1>5

-----------------------------------------------------------------------------
(* Tools that set settings, beside one another and beside loads.           *)

LEMMA ConfigRead ==
  ASSUME Config!Inv, NEW w \in SettingsWriters, Config!Read(w) PROVE Config!Inv'
<1>1. PICK s \in Config!Supported :
        /\ x1[s.file].kind \in {"none", "object"}
        /\ x5' = [x5 EXCEPT ![w] = [at |-> "read", keys |-> x1[s.file].keys, set |-> s]]
        /\ x7' = (x7 \/ \E v \in SettingsWriters : x5[v] # Config!NoTool /\ x5[v].set.file = s.file)
  BY DEF Config!Read
<1> DEFINE tool == [at |-> "read", keys |-> x1[s.file].keys, set |-> s]
<1>2. x5[w] = Config!NoTool /\ UNCHANGED <<x1, x2, x3, x4, x6>>
  BY DEF Config!Read
<1>3. /\ x5' = [v \in SettingsWriters |-> IF v = w THEN tool ELSE x5[v]]
      /\ tool # Config!NoTool /\ tool.at = "read" /\ tool.keys = x1[s.file].keys /\ tool.set = s
  BY <1>1 DEF Config!Inv, Config!TypeOK, Config!NoTool
<1> HIDE DEF tool
<1>4. Config!TypeOK'
  <2>1. tool = [at |-> tool.at, keys |-> tool.keys, set |-> tool.set]
    BY DEF tool
  <2>2. \A v \in SettingsWriters : x5'[v] # Config!NoTool =>
          /\ x5'[v] = [at |-> x5'[v].at, keys |-> x5'[v].keys, set |-> x5'[v].set]
          /\ x5'[v].at \in {"read", "truncated"} /\ x5'[v].set \in Config!Supported
    BY <1>3, <2>1 DEF Config!Inv, Config!TypeOK
  <2>3. x5' = [v \in SettingsWriters |-> x5'[v]] /\ x7' \in BOOLEAN
    BY <1>1, <1>3
  <2> QED
    BY <1>2, <2>2, <2>3 DEF Config!Inv, Config!TypeOK
<1>5. Config!MergedSoFar' /\ Config!LoadIsExact' /\ Config!ModeFollows'
  BY <1>2, ConfigSame DEF Config!Inv, Config!LoadIsExact, Config!ModeFollows
<1>6. Config!SetsAreKept'
  <2>1. \A v \in SettingsWriters : x5[v].at = "truncated" => x5'[v] = x5[v]
    BY <1>2, <1>3 DEF Config!NoTool
  <2>2. ~x7' => ~x7
    BY <1>1
  <2> QED
    BY <1>2, <2>1, <2>2 DEF Config!Inv, Config!SetsAreKept
<1>7. Config!WritersKeep'
  <2> SUFFICES ASSUME ~x7', NEW v \in SettingsWriters, x5'[v] # Config!NoTool
               PROVE  /\ \A u \in SettingsWriters \ {v} : x5'[u] # Config!NoTool => x5'[u].set.file # x5'[v].set.file
                      /\ x5'[v].at = "read" => x1'[x5'[v].set.file].keys = x5'[v].keys
                      /\ \A at \in DOMAIN x6' : at[1] = x5'[v].set.file =>
                           at[2] \in DOMAIN x5'[v].keys /\ x5'[v].keys[at[2]] = x6'[at]
    BY DEF Config!WritersKeep
  <2>1. ~x7 /\ \A u \in SettingsWriters : x5[u] # Config!NoTool => x5[u].set.file # s.file
    BY <1>1
  <2>2. CASE v = w
    <3>1. x5'[v] = tool /\ \A u \in SettingsWriters \ {v} : x5'[u] = x5[u]
      BY <1>3, <2>2
    <3>2. \A at \in DOMAIN x6 : at[1] = s.file =>
            at[2] \in DOMAIN x1[s.file].keys /\ x1[s.file].keys[at[2]] = x6[at]
      BY <2>1 DEF Config!Inv, Config!SetsAreKept, Config!NoTool
    <3> QED
      BY <1>2, <1>3, <2>1, <3>1, <3>2
  <2>3. CASE v # w
    <3>1. x5'[v] = x5[v] /\ x5[v] # Config!NoTool
      BY <1>3, <2>3
    <3> QED
      BY <1>2, <1>3, <2>1, <3>1 DEF Config!Inv, Config!WritersKeep
  <2> QED
    BY <2>2, <2>3
<1> QED
  BY <1>4, <1>5, <1>6, <1>7 DEF Config!Inv

LEMMA ConfigTruncate ==
  ASSUME Config!Inv, NEW w \in SettingsWriters, Config!Truncate(w) PROVE Config!Inv'
<1> DEFINE f == x5[w].set.file
           tool == [at |-> "truncated", keys |-> x5[w].keys, set |-> x5[w].set]
<1>1. /\ x5[w].at = "read" /\ x5' = [x5 EXCEPT ![w].at = "truncated"]
      /\ x1' = [x1 EXCEPT ![f] = [kind |-> "object", keys |-> <<>>]]
      /\ x4' = [load |-> FALSE, start |-> FALSE] /\ UNCHANGED <<x2, x3, x6, x7>>
  BY DEF Config!Truncate, Config!Changed, Config!Object
<1>2. x5[w] # Config!NoTool /\ x5[w].set \in Config!Supported /\ f \in Config!Order
  <2>1. x5[w] # Config!NoTool
    BY <1>1 DEF Config!NoTool
  <2>2. x5[w].set \in Config!Supported
    BY <2>1 DEF Config!Inv, Config!TypeOK
  <2> QED
    BY <2>1, <2>2, SupportedFile
<1>3. /\ x5' = [v \in SettingsWriters |-> IF v = w THEN tool ELSE x5[v]]
      /\ tool # Config!NoTool /\ tool.at = "truncated" /\ tool.keys = x5[w].keys /\ tool.set = x5[w].set
  <2>1. x5[w] = [at |-> x5[w].at, keys |-> x5[w].keys, set |-> x5[w].set] /\ x5 = [v \in SettingsWriters |-> x5[v]]
    BY <1>2 DEF Config!Inv, Config!TypeOK
  <2>2. tool = [x5[w] EXCEPT !.at = "truncated"]
    BY <2>1
  <2> QED
    BY <1>1, <2>1, <2>2 DEF Config!NoTool
<1>4. x1' = [i \in Config!Order |-> IF i = f THEN [kind |-> "object", keys |-> <<>>] ELSE x1[i]]
  BY <1>1 DEF Config!Inv, Config!TypeOK
<1> HIDE DEF tool
<1>5. Config!TypeOK'
  <2>1. tool = [at |-> tool.at, keys |-> tool.keys, set |-> tool.set]
    BY DEF tool
  <2>2. \A v \in SettingsWriters : x5'[v] # Config!NoTool =>
          /\ x5'[v] = [at |-> x5'[v].at, keys |-> x5'[v].keys, set |-> x5'[v].set]
          /\ x5'[v].at \in {"read", "truncated"} /\ x5'[v].set \in Config!Supported
    BY <1>2, <1>3, <2>1 DEF Config!Inv, Config!TypeOK
  <2>3. x5' = [v \in SettingsWriters |-> x5'[v]]
    BY <1>3
  <2>4. \A i \in Config!Order : /\ x1'[i] = [kind |-> x1'[i].kind, keys |-> x1'[i].keys]
                              /\ x1'[i].kind \in Config!Kinds /\ (x1'[i].kind # "object" => x1'[i].keys = <<>>)
    BY <1>4 DEF Config!Inv, Config!TypeOK, Config!Kinds
  <2>5. x1' = [i \in Config!Order |-> [kind |-> x1'[i].kind, keys |-> x1'[i].keys]]
    BY <1>4, <2>4
  <2> QED
    BY <1>1, <2>2, <2>3, <2>4, <2>5 DEF Config!Inv, Config!TypeOK
<1>6. Config!MergedSoFar' /\ Config!LoadIsExact'
  BY <1>1, ConfigChanged
<1>7. Config!ModeFollows'
  BY <1>1 DEF Config!Inv, Config!ModeFollows
<1>8. Config!SetsAreKept'
  <2> SUFFICES ASSUME ~x7', NEW at \in DOMAIN x6'
               PROVE  \/ \E v \in SettingsWriters : x5'[v].at = "truncated" /\ x5'[v].set.file = at[1]
                      \/ at[2] \in DOMAIN x1'[at[1]].keys /\ x1'[at[1]].keys[at[2]] = x6'[at]
    BY DEF Config!SetsAreKept
  <2>1. CASE at[1] = f
    BY <1>3, <2>1
  <2>2. CASE at[1] # f
    <3>1. at[1] \in Config!Order
      <4>1. PICK s \in Config!Supported : at = <<s.file, s.path>>
        BY <1>1 DEF Config!Inv, Config!TypeOK
      <4> QED
        BY <4>1, SupportedFile
    <3>2. x1'[at[1]] = x1[at[1]]
      BY <1>4, <2>2, <3>1
    <3>3. \A v \in SettingsWriters : x5[v].at = "truncated" => v # w
      BY <1>1
    <3> QED
      BY <1>1, <1>3, <3>2, <3>3 DEF Config!Inv, Config!SetsAreKept
  <2> QED
    BY <2>1, <2>2
<1>9. Config!WritersKeep'
  <2> SUFFICES ASSUME ~x7', NEW v \in SettingsWriters, x5'[v] # Config!NoTool
               PROVE  /\ \A u \in SettingsWriters \ {v} : x5'[u] # Config!NoTool => x5'[u].set.file # x5'[v].set.file
                      /\ x5'[v].at = "read" => x1'[x5'[v].set.file].keys = x5'[v].keys
                      /\ \A at \in DOMAIN x6' : at[1] = x5'[v].set.file =>
                           at[2] \in DOMAIN x5'[v].keys /\ x5'[v].keys[at[2]] = x6'[at]
    BY DEF Config!WritersKeep
  <2>1. \A u \in SettingsWriters : /\ x5'[u].set = x5[u].set /\ x5'[u].keys = x5[u].keys
                                   /\ (x5'[u] # Config!NoTool => x5[u] # Config!NoTool)
    BY <1>2, <1>3
  <2>2. \A u \in SettingsWriters \ {w} : x5[u] # Config!NoTool => x5[u].set.file # f /\ x5[u].set.file \in Config!Order
    <3>1. \A u \in SettingsWriters \ {w} : x5[u] # Config!NoTool => x5[u].set.file # f
      BY <1>1, <1>2 DEF Config!Inv, Config!WritersKeep
    <3>2. \A u \in SettingsWriters : x5[u] # Config!NoTool => x5[u].set \in Config!Supported
      BY DEF Config!Inv, Config!TypeOK
    <3> QED
      BY <3>1, <3>2, SupportedFile
  <2>3. x5'[v].at = "read" => x1'[x5'[v].set.file].keys = x5'[v].keys
    <3>1. CASE v = w
      BY <1>3, <3>1
    <3>2. CASE v # w
      <4>1. x1'[x5[v].set.file] = x1[x5[v].set.file] /\ x5'[v] = x5[v]
        BY <1>3, <1>4, <2>1, <2>2, <3>2
      <4> QED
        BY <1>1, <2>1, <4>1 DEF Config!Inv, Config!WritersKeep
    <3> QED
      BY <3>1, <3>2
  <2> QED
    BY <1>1, <2>1, <2>3 DEF Config!Inv, Config!WritersKeep
<1> QED
  BY <1>5, <1>6, <1>7, <1>8, <1>9 DEF Config!Inv

LEMMA ConfigWrite ==
  ASSUME Config!Inv, NEW w \in SettingsWriters, Config!Write(w) PROVE Config!Inv'
<1> DEFINE s == x5[w].set
           kept == Config!With(x5[w].keys, s)
<1>1. /\ x5[w].at = "truncated" /\ x5' = [x5 EXCEPT ![w] = Config!NoTool]
      /\ x1' = [x1 EXCEPT ![s.file] = [kind |-> "object", keys |-> kept]]
      /\ x6' = Config!Over([at \in {<<s.file, s.path>>} |-> s.value], x6)
      /\ x4' = [load |-> FALSE, start |-> FALSE] /\ UNCHANGED <<x2, x3, x7>>
  BY DEF Config!Write, Config!Changed, Config!Object
<1>2. x5[w] # Config!NoTool /\ s \in Config!Supported /\ s.file \in Config!Order
  <2>1. x5[w] # Config!NoTool
    BY <1>1 DEF Config!NoTool
  <2>2. s \in Config!Supported
    BY <2>1 DEF Config!Inv, Config!TypeOK
  <2> QED
    BY <2>1, <2>2, SupportedFile
<1>3. /\ DOMAIN kept = DOMAIN x5[w].keys \union {s.path} /\ kept[s.path] = s.value
      /\ \A p \in DOMAIN x5[w].keys : p # s.path => kept[p] = x5[w].keys[p]
  BY DEF Config!With, Config!Over
<1>4. /\ DOMAIN x6' = DOMAIN x6 \union {<<s.file, s.path>>} /\ x6'[<<s.file, s.path>>] = s.value
      /\ \A at \in DOMAIN x6 : at # <<s.file, s.path>> => x6'[at] = x6[at]
  BY <1>1 DEF Config!Over
<1>5. x5' = [v \in SettingsWriters |-> IF v = w THEN Config!NoTool ELSE x5[v]]
  BY <1>1 DEF Config!Inv, Config!TypeOK
<1>6. x1' = [i \in Config!Order |-> IF i = s.file THEN [kind |-> "object", keys |-> kept] ELSE x1[i]]
  BY <1>1 DEF Config!Inv, Config!TypeOK
<1> HIDE DEF kept
\* What is set is the pair of a file and a path.
<1>7. \A at \in DOMAIN x6' : /\ at[1] \in Config!Order /\ (at = <<s.file, s.path>> \/ at \in DOMAIN x6)
                            /\ (at[1] = s.file /\ at[2] = s.path => at = <<s.file, s.path>>)
  <2> SUFFICES ASSUME NEW at \in DOMAIN x6'
               PROVE  /\ at[1] \in Config!Order /\ (at = <<s.file, s.path>> \/ at \in DOMAIN x6)
                      /\ (at[1] = s.file /\ at[2] = s.path => at = <<s.file, s.path>>)
    OBVIOUS
  <2>1. PICK t \in Config!Supported : at = <<t.file, t.path>>
    BY <1>2, <1>4 DEF Config!Inv, Config!TypeOK
  <2> QED
    BY <1>4, <2>1, SupportedFile
<1>8. Config!TypeOK'
  <2>1. \A v \in SettingsWriters : x5'[v] # Config!NoTool =>
          /\ x5'[v] = [at |-> x5'[v].at, keys |-> x5'[v].keys, set |-> x5'[v].set]
          /\ x5'[v].at \in {"read", "truncated"} /\ x5'[v].set \in Config!Supported
    BY <1>5 DEF Config!Inv, Config!TypeOK
  <2>2. x5' = [v \in SettingsWriters |-> x5'[v]]
    BY <1>5
  <2>3. \A i \in Config!Order : /\ x1'[i] = [kind |-> x1'[i].kind, keys |-> x1'[i].keys]
                              /\ x1'[i].kind \in Config!Kinds /\ (x1'[i].kind # "object" => x1'[i].keys = <<>>)
    BY <1>6 DEF Config!Inv, Config!TypeOK, Config!Kinds
  <2>4. x1' = [i \in Config!Order |-> [kind |-> x1'[i].kind, keys |-> x1'[i].keys]]
    BY <1>6, <2>3
  <2>5. DOMAIN x6' \subseteq {<<t.file, t.path>> : t \in Config!Supported}
    BY <1>2, <1>4 DEF Config!Inv, Config!TypeOK
  <2> QED
    BY <1>1, <2>1, <2>2, <2>3, <2>4, <2>5 DEF Config!Inv, Config!TypeOK
<1>9. Config!MergedSoFar' /\ Config!LoadIsExact'
  BY <1>1, ConfigChanged
<1>10. Config!ModeFollows'
  BY <1>1 DEF Config!Inv, Config!ModeFollows
<1>11. Config!SetsAreKept'
  <2> SUFFICES ASSUME ~x7', NEW at \in DOMAIN x6'
               PROVE  \/ \E v \in SettingsWriters : x5'[v].at = "truncated" /\ x5'[v].set.file = at[1]
                      \/ at[2] \in DOMAIN x1'[at[1]].keys /\ x1'[at[1]].keys[at[2]] = x6'[at]
    BY DEF Config!SetsAreKept
  <2>1. CASE at[1] = s.file
    <3>1. x1'[at[1]].keys = kept
      BY <1>2, <1>6, <2>1
    <3>2. CASE at[2] = s.path
      BY <1>3, <1>4, <1>7, <2>1, <3>1, <3>2
    <3>3. CASE at[2] # s.path
      <4>1. at \in DOMAIN x6 /\ x6'[at] = x6[at]
        BY <1>4, <1>7, <3>3
      <4>2. at[2] \in DOMAIN x5[w].keys /\ x5[w].keys[at[2]] = x6[at]
        BY <1>1, <1>2, <2>1, <4>1 DEF Config!Inv, Config!WritersKeep
      <4> QED
        BY <1>3, <3>1, <3>3, <4>1, <4>2
    <3> QED
      BY <3>2, <3>3
  <2>2. CASE at[1] # s.file
    <3>1. at \in DOMAIN x6 /\ x6'[at] = x6[at] /\ x1'[at[1]] = x1[at[1]]
      BY <1>4, <1>6, <1>7, <2>2
    <3>2. \A v \in SettingsWriters : x5[v].set.file = at[1] => x5'[v] = x5[v]
      BY <1>5, <2>2
    <3> QED
      BY <1>1, <3>1, <3>2 DEF Config!Inv, Config!SetsAreKept
  <2> QED
    BY <2>1, <2>2
<1>12. Config!WritersKeep'
  <2> SUFFICES ASSUME ~x7', NEW v \in SettingsWriters, x5'[v] # Config!NoTool
               PROVE  /\ \A u \in SettingsWriters \ {v} : x5'[u] # Config!NoTool => x5'[u].set.file # x5'[v].set.file
                      /\ x5'[v].at = "read" => x1'[x5'[v].set.file].keys = x5'[v].keys
                      /\ \A at \in DOMAIN x6' : at[1] = x5'[v].set.file =>
                           at[2] \in DOMAIN x5'[v].keys /\ x5'[v].keys[at[2]] = x6'[at]
    BY DEF Config!WritersKeep
  <2>1. v # w /\ x5'[v] = x5[v] /\ x5[v] # Config!NoTool
    BY <1>5
  <2>2. /\ \A u \in SettingsWriters \ {v} : x5[u] # Config!NoTool => x5[u].set.file # x5[v].set.file
        /\ x5[v].at = "read" => x1[x5[v].set.file].keys = x5[v].keys
        /\ \A at \in DOMAIN x6 : at[1] = x5[v].set.file =>
             at[2] \in DOMAIN x5[v].keys /\ x5[v].keys[at[2]] = x6[at]
    BY <1>1, <2>1 DEF Config!Inv, Config!WritersKeep
  <2>3. x5[v].set.file # s.file /\ x5[v].set.file \in Config!Order
    <3>1. x5[v].set \in Config!Supported
      BY <2>1 DEF Config!Inv, Config!TypeOK
    <3> QED
      BY <1>2, <2>1, <2>2, <3>1, SupportedFile
  <2>4. x1'[x5[v].set.file] = x1[x5[v].set.file]
    BY <1>6, <2>3
  <2>5. \A at \in DOMAIN x6' : at[1] = x5[v].set.file => at \in DOMAIN x6 /\ x6'[at] = x6[at]
    BY <1>4, <1>7, <2>3
  <2>6. \A u \in SettingsWriters : x5'[u] # Config!NoTool => x5'[u] = x5[u]
    BY <1>5
  <2> QED
    BY <2>1, <2>2, <2>4, <2>5, <2>6
<1> QED
  BY <1>8, <1>9, <1>10, <1>11, <1>12 DEF Config!Inv

LEMMA ConfigCut == Config!Inv /\ Config!Cut => Config!Inv'
<1> SUFFICES ASSUME Config!Inv, Config!Cut PROVE Config!Inv'
  OBVIOUS
<1> DEFINE hit == {x5[w].set.file : w \in {v \in SettingsWriters : x5[v].at = "truncated"}}
<1>1. PICK c \in {Config!Object(<<>>), [Config!Absent EXCEPT !.kind = "torn"]} :
        x1' = [i \in Config!Order |-> IF i \in hit THEN c ELSE x1[i]]
  BY DEF Config!Cut
<1>2. /\ x7' = (x7 \/ hit # {}) /\ x3' = Config!Off /\ x2' = Config!NoLoad /\ x6' = x6
      /\ x5' = [w \in SettingsWriters |-> Config!NoTool] /\ x4' = [load |-> FALSE, start |-> FALSE]
  BY DEF Config!Cut, Config!Changed
<1>3. /\ c = [kind |-> c.kind, keys |-> c.keys] /\ c.kind \in Config!Kinds /\ c.keys = <<>>
  BY DEF Config!Object, Config!Absent, Config!Kinds
<1> HIDE DEF hit
<1>4. Config!TypeOK'
  <2>1. x5' = [v \in SettingsWriters |-> x5'[v]] /\ {v \in SettingsWriters : x5'[v] # Config!NoTool} = {}
    BY <1>2
  <2>2. \A i \in Config!Order : /\ x1'[i] = [kind |-> x1'[i].kind, keys |-> x1'[i].keys]
                              /\ x1'[i].kind \in Config!Kinds /\ (x1'[i].kind # "object" => x1'[i].keys = <<>>)
    BY <1>1, <1>3 DEF Config!Inv, Config!TypeOK
  <2>3. x1' = [i \in Config!Order |-> [kind |-> x1'[i].kind, keys |-> x1'[i].keys]]
    BY <1>1, <2>2
  <2>4. x3' = [phase |-> x3'.phase, asked |-> x3'.asked, mode |-> x3'.mode, settings |-> x3'.settings]
        /\ x3'.phase = "off"
    BY <1>2 DEF Config!Off
  <2>5. DOMAIN x6' \subseteq {<<t.file, t.path>> : t \in Config!Supported} /\ x7' \in BOOLEAN
    BY <1>2 DEF Config!Inv, Config!TypeOK
  <2> QED
    BY <1>2, <2>1, <2>2, <2>3, <2>4, <2>5 DEF Config!TypeOK
<1>5. Config!MergedSoFar' /\ Config!LoadIsExact'
  BY <1>2, ConfigChanged
<1>6. Config!ModeFollows'
  BY <1>2 DEF Config!ModeFollows, Config!Off, Config!NoLoad
<1>7. Config!WritersKeep'
  BY <1>2 DEF Config!WritersKeep
<1>8. Config!SetsAreKept'
  <2> SUFFICES ASSUME ~x7', NEW at \in DOMAIN x6'
               PROVE  at[2] \in DOMAIN x1'[at[1]].keys /\ x1'[at[1]].keys[at[2]] = x6'[at]
    BY DEF Config!SetsAreKept
  <2>1. ~x7 /\ hit = {}
    BY <1>2
  <2>2. ASSUME NEW v \in SettingsWriters, x5[v].at = "truncated" PROVE FALSE
    <3>1. x5[v].set.file \in hit
      BY <2>2 DEF hit
    <3> QED
      BY <2>1, <3>1
  <2>3. at[1] \in Config!Order
    <3>1. PICK s \in Config!Supported : at = <<s.file, s.path>>
      BY <1>2 DEF Config!Inv, Config!TypeOK
    <3> QED
      BY <3>1, SupportedFile
  <2>4. x1'[at[1]] = x1[at[1]]
    BY <1>1, <2>1, <2>3
  <2> QED
    BY <1>2, <2>1, <2>2, <2>4 DEF Config!Inv, Config!SetsAreKept
<1> QED
  BY <1>4, <1>5, <1>6, <1>7, <1>8 DEF Config!Inv

\* The invariant of the settings is inductive: one case for each action.
LEMMA ConfigNext == Config!Inv /\ [Config!Next]_(Config!vars) => Config!Inv'
<1> SUFFICES ASSUME Config!Inv, [Config!Next]_(Config!vars) PROVE Config!Inv'
  OBVIOUS
<1>1. CASE UNCHANGED Config!vars
  <2>1. UNCHANGED <<x1, x2, x3, x4, x5, x6, x7>>
    BY <1>1 DEF Config!vars
  <2>2. Config!TypeOK'
    BY <2>1 DEF Config!Inv, Config!TypeOK
  <2>3. Config!MergedSoFar' /\ Config!LoadIsExact' /\ Config!ModeFollows'
    BY <2>1, ConfigSame DEF Config!Inv, Config!LoadIsExact, Config!ModeFollows
  <2>4. Config!WritersKeep' /\ Config!SetsAreKept'
    BY <2>1, ConfigFrame DEF Config!Inv
  <2> QED
    BY <2>2, <2>3, <2>4 DEF Config!Inv
<1>2. ASSUME NEW w \in SettingsWriters, Config!Read(w) \/ Config!Truncate(w) \/ Config!Write(w)
      PROVE  Config!Inv'
  BY <1>2, ConfigRead, ConfigTruncate, ConfigWrite
<1> QED
  BY <1>1, <1>2, ConfigStart, ConfigTurn, ConfigTurnEnds, ConfigLoad, ConfigCut DEF Config!Next

\* An undisturbed load gives what the files say, the mode is the one they or the command
\* line name, and what was set stays set, whatever the writers and the files are.
THEOREM SettingsCorrect == ProgramSpec => []SettingsAreSound
<1>1. ProgramInit /\ part = "settings" => Config!Inv
  BY ConfigInit DEF ProgramInit
<1>2. part = "settings" /\ [ProgramNext]_all => (part = "settings")' /\ [Config!Next]_(Config!vars)
  BY DEF ProgramNext, all, from11, from13, from14, from15, from16, from18, Config!vars
<1>3. ~(part = "settings") /\ [ProgramNext]_all => (~(part = "settings"))'
  BY DEF ProgramNext, all, from18, from16, from15, from14, from13, from11, from10
<1>4. part = "settings" /\ Config!Inv => SettingsAreSound
  <2>1. Config!Inv => Config!ModeIsNamed
    BY DEF Config!Inv, Config!ModeFollows, Config!ModeIsNamed, Config!Default
  <2> QED
    BY <2>1 DEF Config!Inv, SettingsAreSound, Config!SettingsAreSound
<1>5. ~(part = "settings") => SettingsAreSound
  BY DEF SettingsAreSound
<1> QED
  BY <1>1, <1>2, <1>3, <1>4, <1>5, ConfigNext, PTL DEF ProgramSpec
===============================================================================
