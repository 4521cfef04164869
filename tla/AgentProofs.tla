------------------------------- MODULE AgentProofs -------------------------------
(***************************************************************************)
(* That a conversation with the local agent server keeps the promises of   *)
(* AgentChat, for all tools and modes, and whatever the bounds are.        *)
(*                                                                         *)
(* The inductive invariant is Inv of AgentChat.  Its parts concern         *)
(* different actors, and so do the parts of the proof: the page, which     *)
(* moves between chats (Moves), stands still (Still) or says something     *)
(* (Push); the events on their way (OnTheWay); the loop of the server,     *)
(* seen by what it does to a question (Goes); the answer that is heard;    *)
(* the mode.  At the end they are put together, action by action.          *)
(***************************************************************************)
EXTENDS Program, SequenceTheorems, TLAPS

\* What the program says of the bounds.
LEMMA Bounds == AgentTurns \in Nat /\ AgentRequests \in Nat /\ AgentOps \in Nat /\ AgentFaults \in Nat
BY ProgramAssumption

-----------------------------------------------------------------------------
(* The page.                                                               *)

LEMMA PageTypes ==
  ASSUME Agent!TypeOK
  PROVE  /\ x13 \in Nat /\ DOMAIN x1 \subseteq 1..x13 /\ x2 \in 0..x13 /\ x4 \in 0..x13
         /\ x5 \in BOOLEAN /\ x19 \subseteq 1..x13
BY DEF Agent!TypeOK

\* What is shown is saved already, so saving it again changes nothing.
LEMMA ChatKept ==
  ASSUME Agent!TypeOK, Agent!ShownIsSaved
  PROVE  DOMAIN Agent!Kept(x3) = DOMAIN x1 /\ \A i \in DOMAIN x1 : Agent!Kept(x3)[i] = x1[i]
<1>1. 0 \notin DOMAIN x1
  BY DEF Agent!TypeOK
<1> QED
  BY <1>1 DEF Agent!Kept, Agent!ShownIsSaved

\* Chats that are left out are empty ones.
LEMMA ChatSaid ==
  ASSUME NEW STATE list
  PROVE  /\ DOMAIN Agent!Said(list) = {i \in DOMAIN list : list[i] # <<>>}
         /\ \A i \in DOMAIN Agent!Said(list) : Agent!Said(list)[i] = list[i]
BY DEF Agent!Said

LEMMA ChatFresh ==
  ASSUME NEW STATE list, Agent!Fresh(list), x13 \in Nat, DOMAIN list \subseteq 1..x13
  PROVE  /\ DOMAIN x1' = DOMAIN list \union {x13 + 1}
         /\ \A i \in DOMAIN x1' : x1'[i] = IF i \in DOMAIN list THEN list[i] ELSE <<>>
         /\ x2' = x13 + 1 /\ x3' = <<>> /\ x4' = x13 + 1 /\ x13' = x13 + 1
<1>1. x13 + 1 \notin DOMAIN list
  OBVIOUS
<1> QED
  BY <1>1 DEF Agent!Fresh, Agent!Shows

(* The page goes to another chat, or is loaded again: chats are as they    *)
(* were or empty, what is left out was empty or is deleted, and whoever    *)
(* hears an answer is elsewhere then, or hears it no longer.               *)
Moves ==
  /\ DOMAIN x1' \subseteq 1..x13' /\ x13' \in Nat /\ x13 <= x13'
  /\ \A i \in DOMAIN x1' : x1'[i] = IF i \in DOMAIN x1 THEN x1[i] ELSE <<>>
  /\ \A i \in DOMAIN x1 : i \in DOMAIN x1' \/ x1[i] = <<>> \/ i \in x19'
  /\ x2' = 0 => DOMAIN x1' = {} /\ x3' = <<>>
  /\ x2' # 0 => x2' \in DOMAIN x1' /\ x3' = x1'[x2']
  /\ x2' \in 0..x13' /\ x4' \in 0..x13' /\ x5' \in BOOLEAN
  /\ x19 \subseteq x19' /\ x19' \subseteq 1..x13' /\ x18 \subseteq x18' /\ x20 \subseteq x20'
  /\ \/ x6' = x6 /\ x7' = x7 /\ ((x3' = x3 /\ x2' = x2) \/ x6.of \in x18' \union {0})
     \/ x6' = Agent!NoChat /\ x7' = <<>> /\ x6.of \in x20' \union {0}
  /\ UNCHANGED <<x12, x17, x9, x11, x16, x10>>

LEMMA NewChatMoves == Agent!TypeOK /\ Agent!ShownIsSaved /\ Agent!newChat => Moves
<1> SUFFICES ASSUME Agent!TypeOK, Agent!ShownIsSaved, Agent!newChat PROVE Moves
  OBVIOUS
<1>1. /\ DOMAIN Agent!Said(Agent!Kept(x3)) = {i \in DOMAIN x1 : x1[i] # <<>>}
      /\ \A i \in DOMAIN Agent!Said(Agent!Kept(x3)) : Agent!Said(Agent!Kept(x3))[i] = x1[i]
  BY ChatKept, ChatSaid
<1>2. Agent!Fresh(Agent!Said(Agent!Kept(x3))) /\ x13 \in Nat
  BY DEF Agent!newChat, Agent!TypeOK
<1>3. DOMAIN Agent!Said(Agent!Kept(x3)) \subseteq 1..x13
  BY <1>1 DEF Agent!TypeOK
<1>4. /\ DOMAIN x1' = DOMAIN Agent!Said(Agent!Kept(x3)) \union {x13 + 1}
      /\ \A i \in DOMAIN x1' :
           x1'[i] = IF i \in DOMAIN Agent!Said(Agent!Kept(x3)) THEN Agent!Said(Agent!Kept(x3))[i] ELSE <<>>
      /\ x2' = x13 + 1 /\ x3' = <<>> /\ x4' = x13 + 1 /\ x13' = x13 + 1
  BY <1>2, <1>3, ChatFresh
<1>5. /\ DOMAIN x1' = {i \in DOMAIN x1 : x1[i] # <<>>} \union {x13 + 1}
      /\ \A i \in DOMAIN x1' : x1'[i] = IF i \in DOMAIN x1 THEN x1[i] ELSE <<>>
  BY <1>1, <1>2, <1>4 DEF Agent!TypeOK
<1>6. /\ x19 \subseteq x19' /\ x19' \subseteq 1..x13' /\ x18 \subseteq x18' /\ x20 \subseteq x20'
      /\ x6' = x6 /\ x7' = x7 /\ x6.of \in x18' \union {0} /\ x5' \in BOOLEAN
      /\ UNCHANGED <<x12, x17, x9, x11, x16, x10>>
  BY <1>2, <1>4 DEF Agent!newChat, Agent!Leaves, Agent!server, Agent!TypeOK
<1>7. /\ DOMAIN x1' \subseteq 1..x13' /\ x13' \in Nat /\ x13 <= x13'
      /\ \A i \in DOMAIN x1 : i \in DOMAIN x1' \/ x1[i] = <<>>
      /\ x2' # 0 /\ x2' \in DOMAIN x1' /\ x3' = x1'[x2']
      /\ x2' \in 0..x13' /\ x4' \in 0..x13'
  <2>1. x13 + 1 \notin DOMAIN x1 /\ DOMAIN x1 \subseteq 1..x13
    BY <1>2, PageTypes
  <2>2. DOMAIN x1' \subseteq 1..x13' /\ x13' \in Nat /\ x13 <= x13'
    BY ONLY <1>2, <1>4, <1>5, <2>1
  <2>3. \A i \in DOMAIN x1 : i \in DOMAIN x1' \/ x1[i] = <<>>
    BY ONLY <1>5
  <2>4. x2' # 0 /\ x2' \in DOMAIN x1' /\ x2' \in 0..x13' /\ x4' \in 0..x13'
    BY ONLY <1>2, <1>4, <1>5
  <2>5. x3' = x1'[x2']
    BY ONLY <1>4, <1>5, <2>1
  <2> QED
    BY ONLY <2>2, <2>3, <2>4, <2>5
<1> QED
  BY ONLY <1>5, <1>6, <1>7 DEF Moves

LEMMA LoadChatMoves ==
  ASSUME Agent!TypeOK, Agent!ShownIsSaved, NEW id \in DOMAIN x1, Agent!loadChat(id)
  PROVE  Moves
<1>1. DOMAIN Agent!Kept(x3) = DOMAIN x1 /\ \A i \in DOMAIN x1 : Agent!Kept(x3)[i] = x1[i]
  BY ChatKept
<1>2. /\ x1' = Agent!Kept(x3) /\ x2' = id /\ x3' = Agent!Kept(x3)[id] /\ x4' = id
      /\ x13' = x13 /\ x19' = x19 /\ x20' = x20 /\ x5' = x5
      /\ x18' = x18 \union ({x6.of} \ {0}) /\ x6' = x6 /\ x7' = x7
      /\ UNCHANGED <<x12, x17, x9, x11, x16, x10>>
  BY DEF Agent!loadChat, Agent!Shows, Agent!Leaves, Agent!server
<1>3. id \in 1..x13 /\ x13 \in Nat
  BY DEF Agent!TypeOK
<1> QED
  BY <1>1, <1>2, <1>3, PageTypes DEF Moves

LEMMA DeleteChatMoves ==
  ASSUME Agent!TypeOK, Agent!ShownIsSaved, Agent!NoneYet, NEW id \in DOMAIN x1, Agent!deleteChat(id)
  PROVE  Moves
<1> DEFINE others == [i \in DOMAIN x1 \ {id} |-> x1[i]]
<1>1. DOMAIN others = DOMAIN x1 \ {id} /\ \A i \in DOMAIN others : others[i] = x1[i]
  OBVIOUS
<1>2. id \in 1..x13 /\ x13 \in Nat /\ x2 # 0
  BY DEF Agent!TypeOK, Agent!NoneYet
<1>3. /\ x19' = x19 \union {id} /\ x20' = x20 /\ x5' = x5 /\ x6' = x6 /\ x7' = x7
      /\ UNCHANGED <<x12, x17, x9, x11, x16, x10>>
  BY DEF Agent!deleteChat, Agent!server
<1>4. CASE id # x2
  <2>1. x1' = others /\ UNCHANGED <<x2, x3, x4, x13, x18>>
    BY <1>4 DEF Agent!deleteChat
  <2> HIDE DEF others
  <2> QED
    BY <1>1, <1>2, <1>3, <1>4, <2>1, PageTypes DEF Moves, Agent!ShownIsSaved
<1>5. CASE id = x2
  <2>1. /\ \/ DOMAIN others = {} /\ Agent!Fresh(others)
           \/ (\E i \in Agent!First(others) : Agent!Shows(others, i)) /\ UNCHANGED x13
        /\ x18' = x18 \union ({x6.of} \ {0})
    BY <1>5 DEF Agent!deleteChat, Agent!Leaves
  <2> HIDE DEF others
  <2>2. CASE DOMAIN others = {} /\ Agent!Fresh(others)
    <3>1. /\ DOMAIN x1' = {x13 + 1} /\ x1'[x13 + 1] = <<>>
          /\ x2' = x13 + 1 /\ x3' = <<>> /\ x4' = x13 + 1 /\ x13' = x13 + 1
      BY <1>2, <2>2, ChatFresh
    <3> QED
      BY <1>1, <1>2, <1>3, <2>1, <2>2, <3>1, PageTypes DEF Moves
  <2>3. CASE (\E i \in Agent!First(others) : Agent!Shows(others, i)) /\ UNCHANGED x13
    <3>1. PICK i \in DOMAIN others : Agent!Shows(others, i)
      BY <2>3 DEF Agent!First
    <3>2. x1' = others /\ x2' = i /\ x3' = others[i] /\ x4' = i /\ x13' = x13
      BY <2>3, <3>1 DEF Agent!Shows
    <3> QED
      BY <1>1, <1>2, <1>3, <2>1, <3>2, PageTypes DEF Moves
  <2> QED
    BY <2>1, <2>2, <2>3
<1> QED
  BY <1>4, <1>5

LEMMA ReloadMoves == Agent!TypeOK /\ Agent!Reload => Moves
<1> SUFFICES ASSUME Agent!TypeOK, Agent!Reload PROVE Moves
  OBVIOUS
<1> DEFINE list == Agent!Said(x1)
<1>1. DOMAIN list = {i \in DOMAIN x1 : x1[i] # <<>>} /\ \A i \in DOMAIN list : list[i] = x1[i]
  BY ChatSaid
<1>2. /\ x1' = list
      /\ \/ DOMAIN list = {} /\ x2' = 0 /\ x3' = <<>>
         \/ \E i \in DOMAIN list : x2' = i /\ x3' = list[i]
  BY DEF Agent!Reload, Agent!First
<1>3. /\ x5' = TRUE /\ x6' = Agent!NoChat /\ x7' = <<>>
      /\ x20' = x20 \union ({x6.of} \ {0})
      /\ UNCHANGED <<x4, x13, x18, x19, x12, x17, x9, x11, x16, x10>>
  BY DEF Agent!Reload, Agent!server
<1> HIDE DEF list
<1>4. x13 \in Nat /\ DOMAIN list \subseteq 1..x13 /\ x4 \in 0..x13 /\ x19 \subseteq 1..x13
  BY <1>1, PageTypes
<1>5. /\ DOMAIN x1' \subseteq 1..x13' /\ x13' \in Nat /\ x13 <= x13'
      /\ \A i \in DOMAIN x1' : x1'[i] = IF i \in DOMAIN x1 THEN x1[i] ELSE <<>>
      /\ \A i \in DOMAIN x1 : i \in DOMAIN x1' \/ x1[i] = <<>>
  BY ONLY <1>1, <1>2, <1>3, <1>4
<1>6. /\ x2' = 0 => DOMAIN x1' = {} /\ x3' = <<>>
      /\ x2' # 0 => x2' \in DOMAIN x1' /\ x3' = x1'[x2']
      /\ x2' \in 0..x13' /\ x4' \in 0..x13'
  BY ONLY <1>2, <1>3, <1>4
<1>7. x19 \subseteq x19' /\ x19' \subseteq 1..x13' /\ x18 \subseteq x18' /\ x20 \subseteq x20'
      /\ x6' = Agent!NoChat /\ x7' = <<>> /\ x6.of \in x20' \union {0} /\ x5' \in BOOLEAN
      /\ UNCHANGED <<x12, x17, x9, x11, x16, x10>>
  BY ONLY <1>3, <1>4
<1> QED
  BY ONLY <1>5, <1>6, <1>7 DEF Moves

LEMMA StartedMoves == Agent!TypeOK /\ Agent!ShownIsSaved /\ Agent!NoneYet /\ Agent!Started => Moves
<1> SUFFICES ASSUME Agent!TypeOK, Agent!ShownIsSaved, Agent!NoneYet, Agent!Started PROVE Moves
  OBVIOUS
<1>1. /\ x19' = x19 /\ x20' = x20 /\ x6' = x6 /\ x7' = x7 /\ x5' = FALSE
      /\ UNCHANGED <<x12, x17, x9, x11, x16, x10>>
  BY DEF Agent!Started, Agent!server, Agent!bounds
<1>2. CASE x2 = 0
  <2>1. Agent!Fresh(Agent!Said(x1)) /\ x18' = x18 \union ({x6.of} \ {0})
    BY <1>2 DEF Agent!Started, Agent!Leaves
  <2>2. DOMAIN Agent!Said(x1) = {} /\ DOMAIN x1 = {} /\ x13 \in Nat
    BY <1>2, ChatSaid DEF Agent!NoneYet, Agent!TypeOK
  <2>3. /\ DOMAIN x1' = {x13 + 1} /\ x1'[x13 + 1] = <<>>
        /\ x2' = x13 + 1 /\ x3' = <<>> /\ x4' = x13 + 1 /\ x13' = x13 + 1
    BY <2>1, <2>2, ChatFresh
  <2>4. /\ DOMAIN x1' \subseteq 1..x13' /\ x13' \in Nat /\ x13 <= x13'
        /\ x2' # 0 /\ x2' \in DOMAIN x1' /\ x3' = x1'[x2']
        /\ x2' \in 0..x13' /\ x4' \in 0..x13'
        /\ \A i \in DOMAIN x1' : x1'[i] = IF i \in DOMAIN x1 THEN x1[i] ELSE <<>>
    BY ONLY <2>2, <2>3
  <2>5. x19 \subseteq x19' /\ x19' \subseteq 1..x13' /\ x18 \subseteq x18' /\ x20 \subseteq x20'
        /\ x6' = x6 /\ x7' = x7 /\ x6.of \in x18' \union {0} /\ x5' \in BOOLEAN
        /\ UNCHANGED <<x12, x17, x9, x11, x16, x10>>
    <3>1. x19 \subseteq 1..x13
      BY PageTypes
    <3>2. x19 \subseteq x19' /\ x19' \subseteq 1..x13'
      BY ONLY <1>1, <2>2, <2>3, <3>1
    <3>3. x18 \subseteq x18' /\ x20 \subseteq x20' /\ x6.of \in x18' \union {0}
      BY ONLY <1>1, <2>1
    <3>4. x5' \in BOOLEAN
      BY ONLY <1>1
    <3> QED
      BY ONLY <1>1, <3>2, <3>3, <3>4
  <2> QED
    BY ONLY <2>2, <2>4, <2>5 DEF Moves
<1>3. CASE x2 # 0
  <2>1. UNCHANGED <<x1, x2, x3, x4, x13, x18>>
    BY <1>3 DEF Agent!Started
  <2>2. x13 \in Nat /\ DOMAIN x1 \subseteq 1..x13 /\ x2 \in 0..x13 /\ x4 \in 0..x13 /\ x19 \subseteq 1..x13
    BY PageTypes
  <2>3. x2 \in DOMAIN x1 /\ x3 = x1[x2]
    BY <1>3 DEF Agent!ShownIsSaved
  <2>4. /\ DOMAIN x1' \subseteq 1..x13' /\ x13' \in Nat /\ x13 <= x13'
        /\ x2' # 0 /\ x2' \in DOMAIN x1' /\ x3' = x1'[x2']
        /\ x2' \in 0..x13' /\ x4' \in 0..x13'
    BY ONLY <1>3, <2>1, <2>2, <2>3
  <2>5. /\ \A i \in DOMAIN x1' : x1'[i] = IF i \in DOMAIN x1 THEN x1[i] ELSE <<>>
        /\ \A i \in DOMAIN x1 : i \in DOMAIN x1'
    BY ONLY <2>1
  <2>6. x19 \subseteq x19' /\ x19' \subseteq 1..x13' /\ x18 \subseteq x18' /\ x20 \subseteq x20'
    BY ONLY <1>1, <2>1, <2>2
  <2>7. x5' \in BOOLEAN /\ x3' = x3 /\ x2' = x2
    BY ONLY <1>1, <2>1
  <2> QED
    BY ONLY <1>1, <2>4, <2>5, <2>6, <2>7 DEF Moves
<1> QED
  BY <1>2, <1>3

(* Nothing is said, and nobody goes anywhere. *)
Still ==
  /\ x6'.of = x6.of
  /\ UNCHANGED <<x1, x2, x3, x13, x17, x19, x18, x20, x12>>

\* The chat that is shown is among those saved, or there is none.
Place == Agent!ShownIsSaved /\ Agent!NoneYet

LEMMA LogsAre ==
  ASSUME Place
  PROVE  Agent!Logs = {x1[i] : i \in DOMAIN x1} \union {x3}
BY DEF Place, Agent!ShownIsSaved, Agent!NoneYet, Agent!Logs

\* When the page moves, logs disappear or are empty, and none is changed.
LEMMA MovedLogs ==
  ASSUME Place, Moves
  PROVE  Place' /\ \A log \in Agent!Logs' : log \in Agent!Logs \/ log = <<>>
<1>1. Place'
  BY DEF Moves, Place, Agent!ShownIsSaved, Agent!NoneYet
<1>2. Agent!Logs' = {x1'[i] : i \in DOMAIN x1'} \union {x3'}
  BY <1>1 DEF Place, Agent!ShownIsSaved, Agent!NoneYet, Agent!Logs
<1>3. \A i \in DOMAIN x1' : x1'[i] \in Agent!Logs \/ x1'[i] = <<>>
  BY LogsAre DEF Moves
<1>4. x3' \in Agent!Logs \/ x3' = <<>>
  BY <1>3 DEF Moves
<1> QED
  BY <1>1, <1>2, <1>3, <1>4

LEMMA StillLogs == ASSUME Place, Still PROVE Place' /\ Agent!Logs' = Agent!Logs
BY DEF Still, Place, Agent!ShownIsSaved, Agent!NoneYet, Agent!Logs

\* What is said is the last of the log that is shown, and the other logs are as they were.
LEMMA PushedLogs ==
  ASSUME Agent!TypeOK, Place, NEW STATE m, Agent!Push(m)
  PROVE  /\ Place' /\ x3' = Append(x3, m) /\ DOMAIN x1' = DOMAIN x1 /\ x2' = x2
         /\ x2 \in DOMAIN x1 => x1'[x2] = x3'
         /\ \A i \in DOMAIN x1 \ {x2} : x1'[i] = x1[i]
         /\ \A log \in Agent!Logs' : log = x3' \/ \E i \in DOMAIN x1 \ {x2} : log = x1[i]
<1>1. /\ x3' = Append(x3, m) /\ x2' = x2
      /\ x1' = IF x2 = 0 THEN x1 ELSE [i \in DOMAIN x1 |-> IF i = x2 THEN x3' ELSE x1[i]]
  BY DEF Agent!Push, Agent!Kept
<1>2. /\ DOMAIN x1' = DOMAIN x1 /\ \A i \in DOMAIN x1 \ {x2} : x1'[i] = x1[i]
      /\ x2 \in DOMAIN x1 => x1'[x2] = x3'
  BY <1>1 DEF Place, Agent!NoneYet
<1>3. Place'
  BY <1>1, <1>2 DEF Place, Agent!ShownIsSaved, Agent!NoneYet
<1>4. Agent!Logs' = {x1'[i] : i \in DOMAIN x1'} \union {x3'}
  BY <1>3 DEF Place, Agent!ShownIsSaved, Agent!NoneYet, Agent!Logs
<1> QED
  BY <1>1, <1>2, <1>3, <1>4

\* Where messages are: in the log that is shown, and in those of the other chats.
LEMMA LogTypes ==
  ASSUME Agent!TypeOK
  PROVE  /\ x3 \in Seq(Agent!Messages) /\ \A i \in DOMAIN x1 : x1[i] \in Seq(Agent!Messages)
         /\ \A log \in Agent!Logs : log \in Seq(Agent!Messages)
BY DEF Agent!TypeOK, Agent!Logs

\* What the order of questions and answers needs.
QuestionsFollowed == Agent!AboutAsked /\ Agent!LastAsked /\ Agent!AnswersFollow

LEMMA StillFollowed ==
  ASSUME Place, Agent!QuestionsStay, QuestionsFollowed, Still
  PROVE  Agent!QuestionsStay' /\ QuestionsFollowed'
<1>1. Agent!Logs' = Agent!Logs
  BY StillLogs
<1>2. Agent!QuestionsStay'
  BY DEF Still, Agent!QuestionsStay, Agent!Question
<1>3. Agent!AboutAsked'
  BY <1>1 DEF Still, QuestionsFollowed, Agent!AboutAsked
<1>4. Agent!LastAsked'
  BY DEF Still, QuestionsFollowed, Agent!LastAsked, Agent!Question
<1>5. Agent!AnswersFollow'
  BY <1>1 DEF Still, QuestionsFollowed, Agent!AnswersFollow, Agent!Question
<1> QED
  BY <1>2, <1>3, <1>4, <1>5 DEF QuestionsFollowed

LEMMA MovesFollowed ==
  ASSUME Agent!TypeOK, Place, Agent!QuestionsStay, QuestionsFollowed, Moves
  PROVE  Agent!QuestionsStay' /\ QuestionsFollowed'
<1>1. \A log \in Agent!Logs' : \A n \in DOMAIN log : log \in Agent!Logs
  BY MovedLogs
<1>2. /\ x12' = x12 /\ x17' = x17 /\ x19 \subseteq x19' /\ x18 \subseteq x18'
      /\ x20 \subseteq x20' /\ x6'.of \in {0, x6.of}
      /\ x6'.of = x6.of \/ x6.of \in x20' \union {0}
  BY DEF Moves, Agent!NoChat
<1>3. Agent!QuestionsStay'
  <2> SUFFICES ASSUME NEW k \in 1..x12, x17[k] # 0, x17[k] \notin x19'
               PROVE  x17[k] \in DOMAIN x1' /\ \E n \in DOMAIN x1'[x17[k]] : x1'[x17[k]][n] = Agent!Question(k)
    BY <1>2 DEF Agent!QuestionsStay, Agent!Question
  <2>1. x17[k] \in DOMAIN x1 /\ \E n \in DOMAIN x1[x17[k]] : x1[x17[k]][n] = Agent!Question(k)
    BY <1>2 DEF Agent!QuestionsStay
  <2>2. x1[x17[k]] # <<>>
    BY <2>1
  <2> QED
    BY <2>1, <2>2 DEF Moves
<1>4. Agent!AboutAsked'
  BY <1>1, <1>2 DEF QuestionsFollowed, Agent!AboutAsked
<1>5. Agent!LastAsked'
  <2> SUFFICES ASSUME x6'.of # 0, x6'.of \notin x18' PROVE Agent!LastAsked'
    BY DEF Agent!LastAsked
  <2>1. x6' = x6 /\ x3' = x3 /\ x2' = x2 /\ x6.of # 0 /\ x6.of \notin x18
    BY <1>2 DEF Moves, Agent!NoChat
  <2>2. \A i \in DOMAIN x1' \ {x2} : \A n \in DOMAIN x1'[i] : x1'[i][n].of # x6.of
    BY <2>1 DEF Moves, QuestionsFollowed, Agent!LastAsked
  <2> QED
    BY <2>1, <2>2 DEF QuestionsFollowed, Agent!LastAsked, Agent!Question
<1>6. Agent!AnswersFollow'
  BY <1>1, <1>2 DEF QuestionsFollowed, Agent!AnswersFollow, Agent!Question
<1> QED
  BY <1>3, <1>4, <1>5, <1>6 DEF QuestionsFollowed

\* A log, said something more.
LEMMA Longer ==
  ASSUME NEW S, NEW s \in Seq(S), NEW m
  PROVE  /\ Len(Append(s, m)) = Len(s) + 1 /\ Len(s) \in Nat
         /\ DOMAIN s = 1..Len(s) /\ DOMAIN Append(s, m) = 1..Len(s) + 1
         /\ Append(s, m)[Len(s) + 1] = m /\ \A n \in DOMAIN s : Append(s, m)[n] = s[n]
OBVIOUS

\* A question or an answer is added to the log that is shown.
LEMMA PushStays ==
  ASSUME Agent!TypeOK, Place, Agent!QuestionsStay, NEW STATE m, Agent!Push(m), x19' = x19, x12' \in {x12, x12 + 1},
         x12' = x12 \/ (m = Agent!Question(x12 + 1) /\ x12 < AgentRequests),
         x17' = IF x12' = x12 THEN x17 ELSE [x17 EXCEPT ![x12 + 1] = x2]
  PROVE  Agent!QuestionsStay'
<1> SUFFICES ASSUME NEW k \in 1..x12', x17'[k] # 0, x17'[k] \notin x19
             PROVE  x17'[k] \in DOMAIN x1' /\ \E n \in DOMAIN x1'[x17'[k]] : x1'[x17'[k]][n] = Agent!Question(k)
  BY DEF Agent!QuestionsStay, Agent!Question
<1>1. x12 \in Nat /\ x3 \in Seq(Agent!Messages) /\ DOMAIN x17 = 1..AgentRequests /\ x2 \in Nat
  BY DEF Agent!TypeOK
<1>2. /\ x3' = Append(x3, m) /\ DOMAIN x1' = DOMAIN x1 /\ x2' = x2 /\ Place'
      /\ x2 \in DOMAIN x1 => x1'[x2] = x3'
      /\ \A i \in DOMAIN x1 \ {x2} : x1'[i] = x1[i]
  BY PushedLogs
<1>3. CASE k \in 1..x12
  <2>1. x17'[k] = x17[k]
    BY <1>1, <1>3
  <2>2. x17[k] \in DOMAIN x1 /\ \E n \in DOMAIN x1[x17[k]] : x1[x17[k]][n] = Agent!Question(k)
    BY <1>3, <2>1 DEF Agent!QuestionsStay
  <2>3. CASE x17[k] # x2
    BY <1>2, <2>1, <2>2, <2>3
  <2>4. CASE x17[k] = x2
    <3>1. PICK n \in DOMAIN x3 : x3[n] = Agent!Question(k)
      BY <2>1, <2>2, <2>4 DEF Place, Agent!ShownIsSaved
    <3>2. n \in DOMAIN x3' /\ x3'[n] = Agent!Question(k)
      BY <1>1, <1>2, <3>1, Longer
    <3> QED
      BY <1>2, <2>1, <2>2, <2>4, <3>2
  <2> QED
    BY <2>3, <2>4
<1>4. CASE k \notin 1..x12
  <2>1. x12' = x12 + 1 /\ k = x12 + 1 /\ m = Agent!Question(k) /\ k \in 1..AgentRequests
    BY <1>1, <1>4, Bounds
  <2>2. x17'[k] = x2
    BY <1>1, <2>1
  <2>3. x2 \in DOMAIN x1
    BY <2>2 DEF Place, Agent!ShownIsSaved
  <2>4. Len(x3) + 1 \in DOMAIN x3' /\ x3'[Len(x3) + 1] = Agent!Question(k)
    BY <1>1, <1>2, <2>1, Longer
  <2> QED
    BY <1>2, <2>2, <2>3, <2>4
<1> QED
  BY <1>3, <1>4

\* A question is new, so nothing else is about it, and it is the last that is shown.
LEMMA SendFollowed ==
  ASSUME Agent!TypeOK, Place, QuestionsFollowed, Agent!Send
  PROVE  QuestionsFollowed'
<1> DEFINE k == x12 + 1
           q == Agent!Question(k)
<1>1. /\ x6.of = 0 /\ x12 < AgentRequests /\ x12' = k /\ Agent!Push(q) /\ x6'.of = k
      /\ UNCHANGED <<x18, x20>>
  BY DEF Agent!Send, Agent!NoChat, Agent!TypeOK
<1>2. x12 \in Nat /\ k > x12 /\ k # 0
  BY DEF Agent!TypeOK
<1>3. q.of = k /\ q.role = "user"
  BY DEF Agent!Question
<1> HIDE DEF q
<1>4. /\ x3' = Append(x3, q) /\ DOMAIN x1' = DOMAIN x1 /\ x2' = x2
      /\ \A i \in DOMAIN x1 \ {x2} : x1'[i] = x1[i]
      /\ \A log \in Agent!Logs' : log = x3' \/ \E i \in DOMAIN x1 \ {x2} : log = x1[i]
  BY <1>1, PushedLogs
<1>5. /\ x3 \in Agent!Logs /\ (\A i \in DOMAIN x1 : x1[i] \in Agent!Logs) /\ x3 \in Seq(Agent!Messages)
  BY LogsAre DEF Agent!TypeOK
<1>6. /\ Len(x3') = Len(x3) + 1 /\ Len(x3) \in Nat /\ DOMAIN x3 = 1..Len(x3)
      /\ DOMAIN x3' = 1..Len(x3) + 1 /\ x3'[Len(x3) + 1] = q
      /\ \A n \in DOMAIN x3 : x3'[n] = x3[n]
  BY <1>4, <1>5, Longer
<1>7. /\ \A n \in DOMAIN x3 : x3[n].of <= x12 /\ x3[n].of \in 1..AgentRequests
      /\ \A i \in DOMAIN x1 : \A n \in DOMAIN x1[i] : x1[i][n].of <= x12 /\ x1[i][n].of \in 1..AgentRequests
  <2>1. \A m \in Agent!Messages : m.of \in 1..AgentRequests
    BY DEF Agent!Messages
  <2>2. \A log \in Agent!Logs : log \in Seq(Agent!Messages) /\ \A n \in DOMAIN log : log[n].of <= x12
    BY LogTypes DEF QuestionsFollowed, Agent!AboutAsked
  <2>3. \A log \in Seq(Agent!Messages) : \A n \in DOMAIN log : log[n] \in Agent!Messages
    OBVIOUS
  <2>4. \A log \in Agent!Logs : \A n \in DOMAIN log : log[n].of <= x12 /\ log[n].of \in 1..AgentRequests
    BY ONLY <2>1, <2>2, <2>3
  <2> QED
    BY ONLY <1>5, <2>4
<1>8. Agent!AboutAsked'
  <2> SUFFICES ASSUME NEW log \in Agent!Logs', NEW n \in DOMAIN log PROVE log[n].of <= k
    BY <1>1 DEF Agent!AboutAsked
  <2>1. CASE log = x3'
    BY <1>2, <1>3, <1>6, <1>7, <2>1
  <2>2. CASE \E i \in DOMAIN x1 \ {x2} : log = x1[i]
    BY <1>2, <1>7, <2>2
  <2> QED
    BY <1>4, <2>1, <2>2
<1>9. Agent!LastAsked'
  <2>1. x3' # <<>> /\ x3'[Len(x3')] = q
    BY <1>6
  <2>2. \A n \in DOMAIN x3' : x3'[n].of = k => n = Len(x3')
    BY <1>2, <1>6, <1>7
  <2>3. \A i \in DOMAIN x1' \ {x2'} : \A n \in DOMAIN x1'[i] : x1'[i][n].of # k
    BY <1>2, <1>4, <1>7
  <2>4. q = Agent!Question(x6'.of)
    BY <1>1 DEF q
  <2> QED
    BY <1>1, <2>1, <2>2, <2>3, <2>4 DEF Agent!LastAsked, Agent!Question
<1>10. Agent!AnswersFollow'
  <2> SUFFICES ASSUME NEW log \in Agent!Logs', NEW n \in DOMAIN log
               PROVE  IF log[n].role = "assistant"
                      THEN log[n].of \in x18 \/ (n > 1 /\ log[n - 1] = Agent!Question(log[n].of))
                      ELSE log[n].of \in x18 \union x20 \union {k} \/ (n < Len(log) /\ log[n + 1].of = log[n].of)
    BY <1>1 DEF Agent!AnswersFollow, Agent!Question
  <2>1. CASE log = x3' /\ n = Len(x3) + 1
    BY <1>3, <1>6, <2>1
  <2>2. CASE log = x3' /\ n # Len(x3) + 1
    <3>1. n \in DOMAIN x3 /\ log[n] = x3[n]
      BY <1>6, <2>2
    <3>2. n > 1 => log[n - 1] = x3[n - 1]
      BY <1>6, <2>2, <3>1
    <3>3. n < Len(x3) => log[n + 1] = x3[n + 1] /\ n < Len(log)
      BY <1>6, <2>2, <3>1
    <3>4. IF x3[n].role = "assistant"
          THEN x3[n].of \in x18 \/ (n > 1 /\ x3[n - 1] = Agent!Question(x3[n].of))
          ELSE x3[n].of \in x18 \union x20 \union {x6.of}
                 \/ (n < Len(x3) /\ x3[n + 1].of = x3[n].of)
      BY <1>5, <3>1 DEF QuestionsFollowed, Agent!AnswersFollow
    <3>5. x3[n].of # x6.of
      BY <1>1, <1>7, <3>1
    <3> QED
      BY <3>1, <3>2, <3>3, <3>4, <3>5
  <2>3. CASE \E i \in DOMAIN x1 \ {x2} : log = x1[i]
    <3>1. log \in Agent!Logs /\ log[n].of # x6.of
      BY <1>1, <1>5, <1>7, <2>3
    <3> QED
      BY <3>1 DEF QuestionsFollowed, Agent!AnswersFollow
  <2> QED
    BY <1>4, <2>1, <2>2, <2>3
<1> QED
  BY <1>8, <1>9, <1>10 DEF QuestionsFollowed

\* The answer, or what there is of it, stands behind its question.
LEMMA AnswerFollowed ==
  ASSUME Agent!TypeOK, Place, QuestionsFollowed, NEW end, NEW STATE calls, x6.of # 0,
         Agent!Push(Agent!Answer(x6.of, end, calls)), x6' = Agent!NoChat, UNCHANGED <<x12, x18, x20>>
  PROVE  QuestionsFollowed'
<1> DEFINE k == x6.of
           a == Agent!Answer(k, end, calls)
<1>1. Agent!Push(a) /\ x6'.of = 0
  BY DEF Agent!NoChat
<1>2. x12 \in Nat /\ k \in 1..x12
  BY DEF Agent!TypeOK
<1>3. a.of = k /\ a.role = "assistant"
  BY DEF Agent!Answer
<1> HIDE DEF a
<1>4. /\ x3' = Append(x3, a) /\ DOMAIN x1' = DOMAIN x1 /\ x2' = x2
      /\ \A i \in DOMAIN x1 \ {x2} : x1'[i] = x1[i]
      /\ \A log \in Agent!Logs' : log = x3' \/ \E i \in DOMAIN x1 \ {x2} : log = x1[i]
  BY <1>1, PushedLogs
<1>5. /\ x3 \in Agent!Logs /\ (\A i \in DOMAIN x1 : x1[i] \in Agent!Logs) /\ x3 \in Seq(Agent!Messages)
  BY LogsAre DEF Agent!TypeOK
<1>6. /\ Len(x3') = Len(x3) + 1 /\ Len(x3) \in Nat /\ DOMAIN x3 = 1..Len(x3)
      /\ DOMAIN x3' = 1..Len(x3) + 1 /\ x3'[Len(x3) + 1] = a
      /\ \A n \in DOMAIN x3 : x3'[n] = x3[n]
  BY <1>4, <1>5, Longer
<1>7. Agent!AboutAsked'
  <2> SUFFICES ASSUME NEW log \in Agent!Logs', NEW n \in DOMAIN log PROVE log[n].of <= x12
    BY DEF Agent!AboutAsked
  <2>1. CASE log = x3'
    BY <1>2, <1>3, <1>5, <1>6, <2>1 DEF QuestionsFollowed, Agent!AboutAsked
  <2>2. CASE \E i \in DOMAIN x1 \ {x2} : log = x1[i]
    BY <1>5, <2>2 DEF QuestionsFollowed, Agent!AboutAsked
  <2> QED
    BY <1>4, <2>1, <2>2
<1>8. Agent!LastAsked'
  BY <1>1 DEF Agent!LastAsked
<1>9. k \notin x18 => /\ Len(x3) >= 1 /\ x3[Len(x3)] = Agent!Question(k)
                      /\ \A n \in DOMAIN x3 : x3[n].of = k => n = Len(x3)
                      /\ \A i \in DOMAIN x1 \ {x2} : \A n \in DOMAIN x1[i] : x1[i][n].of # k
  BY <1>5 DEF QuestionsFollowed, Agent!LastAsked
<1>10. Agent!AnswersFollow'
  <2> SUFFICES ASSUME NEW log \in Agent!Logs', NEW n \in DOMAIN log
               PROVE  IF log[n].role = "assistant"
                      THEN log[n].of \in x18 \/ (n > 1 /\ log[n - 1] = Agent!Question(log[n].of))
                      ELSE log[n].of \in x18 \union x20 \/ (n < Len(log) /\ log[n + 1].of = log[n].of)
    BY <1>1 DEF Agent!AnswersFollow, Agent!Question
  <2>1. CASE log = x3' /\ n = Len(x3) + 1
    <3>1. log[n] = a /\ (k \notin x18 => log[n - 1] = Agent!Question(k) /\ n > 1)
      BY <1>6, <1>9, <2>1
    <3> QED
      BY <1>3, <3>1
  <2>2. CASE log = x3' /\ n # Len(x3) + 1
    <3>1. n \in DOMAIN x3 /\ log[n] = x3[n]
      BY <1>6, <2>2
    <3>2. n > 1 => log[n - 1] = x3[n - 1]
      BY <1>6, <2>2, <3>1
    <3>3. /\ n < Len(x3) => log[n + 1] = x3[n + 1]
          /\ n = Len(x3) => log[n + 1] = a
          /\ n < Len(log) /\ n <= Len(x3)
      BY <1>6, <2>2, <3>1
    <3>4. IF x3[n].role = "assistant"
          THEN x3[n].of \in x18 \/ (n > 1 /\ x3[n - 1] = Agent!Question(x3[n].of))
          ELSE x3[n].of \in x18 \union x20 \union {k}
                 \/ (n < Len(x3) /\ x3[n + 1].of = x3[n].of)
      BY <1>5, <3>1 DEF QuestionsFollowed, Agent!AnswersFollow
    <3>5. x3[n].of = k /\ k \notin x18 => n = Len(x3)
      BY <1>9, <3>1
    <3> QED
      BY <1>3, <3>1, <3>2, <3>3, <3>4, <3>5
  <2>3. CASE \E i \in DOMAIN x1 \ {x2} : log = x1[i]
    <3>1. log \in Agent!Logs /\ (k \notin x18 => log[n].of # k)
      BY <1>5, <1>9, <2>3
    <3> QED
      BY <3>1 DEF QuestionsFollowed, Agent!AnswersFollow
  <2> QED
    BY <1>4, <2>1, <2>2, <2>3
<1> QED
  BY <1>7, <1>8, <1>10 DEF QuestionsFollowed

-----------------------------------------------------------------------------
(* The events on the way.                                                  *)

\* A call that was run.
Run == [tool : AgentTools, id : Nat, mode : AgentModes]

\* A text, an error or "done" is told.
LEMMA WayPlain ==
  ASSUME NEW w \in Seq(Agent!Events), NEW c \in Seq(Agent!Calls), NEW d \in Seq(Run), NEW e \in Agent!Events,
         Agent!OnTheWay(w, c, d), ~Agent!Ended(w), e.kind \in {"text", "error", "done"}
  PROVE  Append(w, e) \in Seq(Agent!Events) /\ Agent!OnTheWay(Append(w, e), c, d) /\ ~Agent!Ended(Append(w, e))
<1> DEFINE v == Append(w, e)
<1>1. /\ v \in Seq(Agent!Events) /\ Len(v) = Len(w) + 1 /\ Len(w) \in Nat /\ DOMAIN w = 1..Len(w) /\ DOMAIN v = 1..Len(w) + 1
      /\ v[Len(w) + 1] = e /\ \A j \in DOMAIN w : v[j] = w[j]
  OBVIOUS
<1> HIDE DEF v
<1>2. \A j \in DOMAIN v : v[j].kind \in {"tool_start", "tool_result", "end"} => j \in DOMAIN w /\ v[j] = w[j] /\ w[j].kind # "end"
  BY <1>1 DEF Agent!Ended
<1>3. Agent!Pending(c) => v # <<>> /\ v[1] = Agent!Event("tool_result", c[Len(c)].tool, Len(c))
  <2> SUFFICES ASSUME Agent!Pending(c) PROVE v # <<>> /\ v[1] = Agent!Event("tool_result", c[Len(c)].tool, Len(c))
    OBVIOUS
  <2>1. w # <<>> /\ w[1] = Agent!Event("tool_result", c[Len(c)].tool, Len(c))
    BY DEF Agent!OnTheWay
  <2>2. 1 \in DOMAIN w
    BY <1>1, <2>1
  <2> QED
    BY <1>1, <2>1, <2>2
<1>4. ASSUME NEW j \in DOMAIN v
      PROVE  /\ v[j].kind = "tool_start" =>
                  /\ v[j].id \in Len(c) + 1..Len(d) /\ v[j].tool = d[v[j].id].tool
                  /\ j + 1 \in DOMAIN v /\ v[j + 1] = Agent!Event("tool_result", v[j].tool, v[j].id)
             /\ v[j].kind = "tool_result" => IF j = 1 THEN Agent!Pending(c) ELSE v[j - 1].kind = "tool_start"
             /\ v[j].kind = "end" => j = Len(v)
  <2>1. CASE v[j].kind = "tool_start"
    <3>1. /\ j \in DOMAIN w /\ v[j] = w[j] /\ w[j].id \in Len(c) + 1..Len(d) /\ w[j].tool = d[w[j].id].tool
          /\ j + 1 \in DOMAIN w /\ w[j + 1] = Agent!Event("tool_result", w[j].tool, w[j].id)
      BY <1>2, <2>1 DEF Agent!OnTheWay
    <3> QED
      BY <1>1, <2>1, <3>1
  <2>2. CASE v[j].kind = "tool_result"
    <3>1. j \in DOMAIN w /\ v[j] = w[j] /\ IF j = 1 THEN Agent!Pending(c) ELSE w[j - 1].kind = "tool_start"
      BY <1>2, <2>2 DEF Agent!OnTheWay
    <3>2. j # 1 => j - 1 \in DOMAIN w
      BY <1>1, <3>1
    <3> QED
      BY <1>1, <2>2, <3>1, <3>2
  <2> QED
    BY <1>2, <2>1, <2>2
<1>5. \A i, j \in DOMAIN v :
        v[i].kind = "tool_start" /\ v[j].kind = "tool_start" /\ i < j => v[i].id < v[j].id
  BY <1>2 DEF Agent!OnTheWay
<1>6. \A n \in Len(c) + 1..Len(d) : \E j \in DOMAIN v : v[j].kind = "tool_start" /\ v[j].id = n
  <2>1. \A n \in Len(c) + 1..Len(d) : \E j \in DOMAIN w : w[j].kind = "tool_start" /\ w[j].id = n
    BY DEF Agent!OnTheWay
  <2>2. \A j \in DOMAIN w : j \in DOMAIN v /\ v[j] = w[j]
    BY <1>1
  <2> QED
    BY ONLY <2>1, <2>2
<1>7. Agent!OnTheWay(v, c, d)
  BY ONLY <1>3, <1>4, <1>5, <1>6, Zenon DEF Agent!OnTheWay
<1>8. ~Agent!Ended(v)
  BY <1>2 DEF Agent!Ended
<1> QED
  BY <1>1, <1>7, <1>8 DEF v

\* The end of the response.
LEMMA WayEnd ==
  ASSUME NEW w \in Seq(Agent!Events), NEW c \in Seq(Agent!Calls), NEW d \in Seq(Run), NEW e \in Agent!Events,
         Agent!OnTheWay(w, c, d), ~Agent!Ended(w), e.kind = "end"
  PROVE  Append(w, e) \in Seq(Agent!Events) /\ Agent!OnTheWay(Append(w, e), c, d)
<1> DEFINE v == Append(w, e)
<1>1. /\ v \in Seq(Agent!Events) /\ Len(v) = Len(w) + 1 /\ Len(w) \in Nat /\ DOMAIN w = 1..Len(w) /\ DOMAIN v = 1..Len(w) + 1
      /\ v[Len(w) + 1] = e /\ \A j \in DOMAIN w : v[j] = w[j]
  OBVIOUS
<1> HIDE DEF v
<1>2. \A j \in DOMAIN v : v[j].kind \in {"tool_start", "tool_result"} => j \in DOMAIN w /\ v[j] = w[j]
  BY <1>1
<1>3. Agent!Pending(c) => v # <<>> /\ v[1] = Agent!Event("tool_result", c[Len(c)].tool, Len(c))
  <2> SUFFICES ASSUME Agent!Pending(c) PROVE v # <<>> /\ v[1] = Agent!Event("tool_result", c[Len(c)].tool, Len(c))
    OBVIOUS
  <2>1. w # <<>> /\ w[1] = Agent!Event("tool_result", c[Len(c)].tool, Len(c))
    BY DEF Agent!OnTheWay
  <2>2. 1 \in DOMAIN w
    BY <1>1, <2>1
  <2> QED
    BY <1>1, <2>1, <2>2
<1>4. ASSUME NEW j \in DOMAIN v
      PROVE  /\ v[j].kind = "tool_start" =>
                  /\ v[j].id \in Len(c) + 1..Len(d) /\ v[j].tool = d[v[j].id].tool
                  /\ j + 1 \in DOMAIN v /\ v[j + 1] = Agent!Event("tool_result", v[j].tool, v[j].id)
             /\ v[j].kind = "tool_result" => IF j = 1 THEN Agent!Pending(c) ELSE v[j - 1].kind = "tool_start"
             /\ v[j].kind = "end" => j = Len(v)
  <2>1. CASE v[j].kind = "tool_start"
    <3>1. /\ j \in DOMAIN w /\ v[j] = w[j] /\ w[j].id \in Len(c) + 1..Len(d) /\ w[j].tool = d[w[j].id].tool
          /\ j + 1 \in DOMAIN w /\ w[j + 1] = Agent!Event("tool_result", w[j].tool, w[j].id)
      BY <1>2, <2>1 DEF Agent!OnTheWay
    <3> QED
      BY <1>1, <2>1, <3>1
  <2>2. CASE v[j].kind = "tool_result"
    <3>1. j \in DOMAIN w /\ v[j] = w[j] /\ IF j = 1 THEN Agent!Pending(c) ELSE w[j - 1].kind = "tool_start"
      BY <1>2, <2>2 DEF Agent!OnTheWay
    <3>2. j # 1 => j - 1 \in DOMAIN w
      BY <1>1, <3>1
    <3> QED
      BY <1>1, <2>2, <3>1, <3>2
  <2>3. CASE v[j].kind = "end"
    <3>1. j \notin DOMAIN w
      BY <1>1, <2>3 DEF Agent!Ended
    <3> QED
      BY <1>1, <2>3, <3>1
  <2> QED
    BY <2>1, <2>2, <2>3
<1>5. \A i, j \in DOMAIN v :
        v[i].kind = "tool_start" /\ v[j].kind = "tool_start" /\ i < j => v[i].id < v[j].id
  BY <1>2 DEF Agent!OnTheWay
<1>6. \A n \in Len(c) + 1..Len(d) : \E j \in DOMAIN v : v[j].kind = "tool_start" /\ v[j].id = n
  <2>1. \A n \in Len(c) + 1..Len(d) : \E j \in DOMAIN w : w[j].kind = "tool_start" /\ w[j].id = n
    BY DEF Agent!OnTheWay
  <2>2. \A j \in DOMAIN w : j \in DOMAIN v /\ v[j] = w[j]
    BY <1>1
  <2> QED
    BY ONLY <2>1, <2>2
<1> QED
  BY <1>1, <1>3, <1>4, <1>5, <1>6 DEF Agent!OnTheWay, v

\* A call is run and told.
LEMMA WayCall ==
  ASSUME NEW w \in Seq(Agent!Events), NEW c \in Seq(Agent!Calls), NEW d \in Seq(Run), NEW x \in Run,
         Agent!OnTheWay(w, c, d), ~Agent!Ended(w), Agent!Lists(c, d)
  PROVE  LET v == Append(Append(w, Agent!Event("tool_start", x.tool, Len(d) + 1)), Agent!Event("tool_result", x.tool, Len(d) + 1))
         IN  v \in Seq(Agent!Events) /\ Agent!OnTheWay(v, c, Append(d, x)) /\ ~Agent!Ended(v) /\ Agent!Lists(c, Append(d, x))
<1> DEFINE s == Agent!Event("tool_start", x.tool, Len(d) + 1)
           r == Agent!Event("tool_result", x.tool, Len(d) + 1)
           v == Append(Append(w, s), r)
           e == Append(d, x)
<1>1. /\ s \in Agent!Events /\ r \in Agent!Events
      /\ s.kind = "tool_start" /\ s.tool = x.tool /\ s.id = Len(d) + 1 /\ r = Agent!Event("tool_result", s.tool, s.id)
      /\ r.kind = "tool_result"
  BY DEF Agent!Event, Agent!Events, Run
<1>2. /\ Len(e) = Len(d) + 1 /\ Len(d) \in Nat /\ e[Len(d) + 1] = x /\ \A i \in 1..Len(d) : e[i] = d[i]
  OBVIOUS
<1> HIDE DEF s, r, e
<1>3. /\ v \in Seq(Agent!Events) /\ Len(v) = Len(w) + 2 /\ Len(w) \in Nat /\ DOMAIN w = 1..Len(w) /\ DOMAIN v = 1..Len(w) + 2
      /\ v[Len(w) + 1] = s /\ v[Len(w) + 2] = r /\ \A j \in DOMAIN w : v[j] = w[j]
  BY <1>1
<1> HIDE DEF v
<1>4. Len(c) \in Nat /\ DOMAIN c = 1..Len(c) /\ Len(c) <= Len(d)
  BY DEF Agent!Lists
<1>5. \A j \in DOMAIN v : j \in DOMAIN w \/ j = Len(w) + 1 \/ j = Len(w) + 2
  BY <1>3
<1>6. Agent!Pending(c) => v # <<>> /\ v[1] = Agent!Event("tool_result", c[Len(c)].tool, Len(c))
  <2> SUFFICES ASSUME Agent!Pending(c) PROVE v # <<>> /\ v[1] = Agent!Event("tool_result", c[Len(c)].tool, Len(c))
    OBVIOUS
  <2>1. w # <<>> /\ w[1] = Agent!Event("tool_result", c[Len(c)].tool, Len(c))
    BY DEF Agent!OnTheWay
  <2>2. 1 \in DOMAIN w
    BY <1>3, <2>1
  <2> QED
    BY <1>3, <2>1, <2>2
<1>7. ASSUME NEW j \in DOMAIN v
      PROVE  /\ v[j].kind = "tool_start" =>
                  /\ v[j].id \in Len(c) + 1..Len(e) /\ v[j].tool = e[v[j].id].tool
                  /\ j + 1 \in DOMAIN v /\ v[j + 1] = Agent!Event("tool_result", v[j].tool, v[j].id)
             /\ v[j].kind = "tool_result" => IF j = 1 THEN Agent!Pending(c) ELSE v[j - 1].kind = "tool_start"
             /\ v[j].kind = "end" => j = Len(v)
  <2>1. CASE j \in DOMAIN w
    <3>1. v[j] = w[j] /\ w[j].kind # "end"
      BY <1>3, <2>1 DEF Agent!Ended
    <3>2. w[j].kind = "tool_start" =>
            /\ w[j].id \in Len(c) + 1..Len(d) /\ w[j].tool = d[w[j].id].tool
            /\ j + 1 \in DOMAIN w /\ w[j + 1] = Agent!Event("tool_result", w[j].tool, w[j].id)
      BY <2>1 DEF Agent!OnTheWay
    <3>3. w[j].kind = "tool_result" => IF j = 1 THEN Agent!Pending(c) ELSE w[j - 1].kind = "tool_start"
      BY <2>1 DEF Agent!OnTheWay
    <3>4. j # 1 => j - 1 \in DOMAIN w
      BY <1>3, <2>1
    <3>5. w[j].kind = "tool_start" => w[j].id \in 1..Len(d) /\ w[j].id \in Len(c) + 1..Len(e)
      BY <1>2, <1>4, <3>2
    <3> QED
      BY <1>2, <1>3, <3>1, <3>2, <3>3, <3>4, <3>5
  <2>2. CASE j = Len(w) + 1
    <3>1. v[j] = s /\ v[j + 1] = r /\ j + 1 \in DOMAIN v /\ Len(d) + 1 \in Len(c) + 1..Len(e)
      BY <1>2, <1>3, <1>4, <2>2
    <3> QED
      BY <1>1, <1>2, <3>1
  <2>3. CASE j = Len(w) + 2
    <3>1. v[j] = r /\ v[j - 1] = s /\ j # 1
      BY <1>3, <2>3
    <3> QED
      BY <1>1, <3>1
  <2> QED
    BY <1>5, <2>1, <2>2, <2>3
<1>8. ASSUME NEW i \in DOMAIN v, NEW j \in DOMAIN v, v[i].kind = "tool_start", v[j].kind = "tool_start", i < j
      PROVE  v[i].id < v[j].id
  <2>1. i \in DOMAIN w
    BY <1>1, <1>3, <1>5, <1>8
  <2>2. v[i] = w[i] /\ w[i].id <= Len(d) /\ w[i].id \in Int
    BY <1>2, <1>3, <1>4, <1>8, <2>1 DEF Agent!OnTheWay
  <2>3. CASE j \in DOMAIN w
    BY <1>3, <1>8, <2>1, <2>2, <2>3 DEF Agent!OnTheWay
  <2>4. CASE j = Len(w) + 1
    BY <1>1, <1>2, <1>3, <2>2, <2>4
  <2>5. CASE j = Len(w) + 2
    BY <1>1, <1>3, <1>8, <2>5
  <2> QED
    BY <1>5, <2>3, <2>4, <2>5
<1>9. ASSUME NEW n \in Len(c) + 1..Len(e) PROVE \E j \in DOMAIN v : v[j].kind = "tool_start" /\ v[j].id = n
  <2>1. CASE n = Len(d) + 1
    <3>1. Len(w) + 1 \in DOMAIN v
      BY <1>3
    <3> QED
      BY <1>1, <1>3, <2>1, <3>1
  <2>2. CASE n \in Len(c) + 1..Len(d)
    <3>1. PICK j \in DOMAIN w : w[j].kind = "tool_start" /\ w[j].id = n
      BY <2>2 DEF Agent!OnTheWay
    <3>2. j \in DOMAIN v /\ v[j] = w[j]
      BY <1>3
    <3> QED
      BY <3>1, <3>2
  <2> QED
    BY <1>2, <1>4, <2>1, <2>2
<1>10. Agent!OnTheWay(v, c, e)
  BY <1>6, <1>7, <1>8, <1>9 DEF Agent!OnTheWay
<1>11. ~Agent!Ended(v)
  BY <1>1, <1>3, <1>5 DEF Agent!Ended
<1>12. Agent!Lists(c, e)
  BY <1>2, <1>4 DEF Agent!Lists
<1> QED
  BY <1>3, <1>10, <1>11, <1>12 DEF v, s, r, e

\* What is behind the first event.
LEMMA WayTail ==
  ASSUME NEW w \in Seq(Agent!Events), w # <<>>
  PROVE  /\ Tail(w) \in Seq(Agent!Events) /\ Len(w) \in Nat /\ Len(w) >= 1 /\ DOMAIN w = 1..Len(w) /\ 1 \in DOMAIN w
         /\ Len(Tail(w)) = Len(w) - 1 /\ DOMAIN Tail(w) = 1..Len(w) - 1
         /\ \A j \in DOMAIN Tail(w) : j + 1 \in DOMAIN w /\ Tail(w)[j] = w[j + 1]
         /\ Head(w) = w[1] /\ w[1] \in Agent!Events
         /\ Agent!Ended(Tail(w)) => Agent!Ended(w)
<1>1. /\ Tail(w) \in Seq(Agent!Events) /\ Len(w) \in Nat /\ Len(w) >= 1 /\ DOMAIN w = 1..Len(w) /\ 1 \in DOMAIN w
      /\ Len(Tail(w)) = Len(w) - 1 /\ DOMAIN Tail(w) = 1..Len(w) - 1
      /\ \A j \in DOMAIN Tail(w) : j + 1 \in DOMAIN w /\ Tail(w)[j] = w[j + 1]
      /\ Head(w) = w[1] /\ w[1] \in Agent!Events
  OBVIOUS
<1> QED
  BY <1>1 DEF Agent!Ended

\* What is on the way behind the first event, when the list has become c2 by it.
LEMMA WayBehind ==
  ASSUME NEW w \in Seq(Agent!Events), NEW c \in Seq(Agent!Calls), NEW c2 \in Seq(Agent!Calls), NEW d \in Seq(Run), w # <<>>,
         Agent!OnTheWay(w, c, d), Len(c) <= Len(c2),
         \A j \in DOMAIN w : j # 1 /\ w[j].kind = "tool_start" => w[j].id > Len(c2),
         w[1].kind = "tool_start" =>
           w[1].id <= Len(c2) /\ Agent!Pending(c2) /\ w[2] = Agent!Event("tool_result", c2[Len(c2)].tool, Len(c2)),
         w[1].kind # "tool_start" => ~Agent!Pending(c2)
  PROVE  Agent!OnTheWay(Tail(w), c2, d)
<1> DEFINE v == Tail(w)
<1>1. /\ v \in Seq(Agent!Events) /\ Len(w) \in Nat /\ Len(w) >= 1 /\ DOMAIN w = 1..Len(w) /\ 1 \in DOMAIN w
      /\ Len(v) = Len(w) - 1 /\ DOMAIN v = 1..Len(w) - 1
      /\ \A j \in DOMAIN v : j + 1 \in DOMAIN w /\ v[j] = w[j + 1]
  BY WayTail
<1>2. Len(c) \in Nat /\ Len(c2) \in Nat /\ Len(d) \in Nat
  OBVIOUS
<1> HIDE DEF v
<1>3. \A j \in DOMAIN w : j # 1 => j - 1 \in DOMAIN v /\ v[j - 1] = w[j]
  <2> SUFFICES ASSUME NEW j \in DOMAIN w, j # 1 PROVE j - 1 \in DOMAIN v /\ v[j - 1] = w[j]
    OBVIOUS
  <2>1. j - 1 \in DOMAIN v /\ (j - 1) + 1 = j
    BY <1>1
  <2> QED
    BY <1>1, <2>1
<1>4. w[1].kind = "tool_start" => v # <<>> /\ v[1] = w[2]
  <2> SUFFICES ASSUME w[1].kind = "tool_start" PROVE v # <<>> /\ v[1] = w[2]
    OBVIOUS
  <2>1. 1 + 1 \in DOMAIN w
    BY <1>1 DEF Agent!OnTheWay
  <2>2. 2 \in DOMAIN w /\ 2 - 1 = 1 /\ 2 # 1
    BY <2>1
  <2> QED
    BY <1>1, <1>3, <2>2
<1>5. Agent!Pending(c2) => v # <<>> /\ v[1] = Agent!Event("tool_result", c2[Len(c2)].tool, Len(c2))
  BY <1>4
<1>6. ASSUME NEW j \in DOMAIN v
      PROVE  /\ v[j].kind = "tool_start" =>
                  /\ v[j].id \in Len(c2) + 1..Len(d) /\ v[j].tool = d[v[j].id].tool
                  /\ j + 1 \in DOMAIN v /\ v[j + 1] = Agent!Event("tool_result", v[j].tool, v[j].id)
             /\ v[j].kind = "tool_result" => IF j = 1 THEN Agent!Pending(c2) ELSE v[j - 1].kind = "tool_start"
             /\ v[j].kind = "end" => j = Len(v)
  <2>1. v[j] = w[j + 1] /\ j + 1 \in DOMAIN w /\ j + 1 # 1 /\ (j + 1) - 1 = j /\ (j + 1) + 1 # 1 /\ j \in Nat
    BY <1>1
  <2>2. CASE v[j].kind = "tool_start"
    <3>1. /\ w[j + 1].id \in Len(c) + 1..Len(d) /\ w[j + 1].tool = d[w[j + 1].id].tool
          /\ (j + 1) + 1 \in DOMAIN w /\ w[(j + 1) + 1] = Agent!Event("tool_result", w[j + 1].tool, w[j + 1].id)
      BY <2>1, <2>2 DEF Agent!OnTheWay
    <3>2. j + 1 \in DOMAIN v /\ v[j + 1] = w[(j + 1) + 1]
      <4>1. ((j + 1) + 1) - 1 = j + 1
        BY <2>1
      <4> QED
        BY <1>3, <2>1, <3>1, <4>1
    <3>3. w[j + 1].id > Len(c2)
      BY <2>1, <2>2
    <3> QED
      BY <1>2, <2>1, <2>2, <3>1, <3>2, <3>3
  <2>3. CASE v[j].kind = "tool_result"
    <3>1. w[j].kind = "tool_start" /\ j \in DOMAIN w
      BY <1>1, <2>1, <2>3 DEF Agent!OnTheWay
    <3>2. CASE j = 1
      BY <2>3, <3>1, <3>2
    <3>3. CASE j # 1
      BY <1>3, <2>3, <3>1, <3>3
    <3> QED
      BY <3>2, <3>3
  <2>4. CASE v[j].kind = "end"
    <3>1. j + 1 = Len(w)
      BY <2>1, <2>4 DEF Agent!OnTheWay
    <3> QED
      BY <1>1, <2>4, <3>1
  <2> QED
    BY <2>2, <2>3, <2>4
<1>7. ASSUME NEW i \in DOMAIN v, NEW j \in DOMAIN v, v[i].kind = "tool_start", v[j].kind = "tool_start", i < j
      PROVE  v[i].id < v[j].id
  <2>1. i + 1 \in DOMAIN w /\ j + 1 \in DOMAIN w /\ i + 1 < j + 1 /\ v[i] = w[i + 1] /\ v[j] = w[j + 1]
    BY ONLY <1>1, <1>7
  <2>2. \A a, b \in DOMAIN w :
          w[a].kind = "tool_start" /\ w[b].kind = "tool_start" /\ a < b => w[a].id < w[b].id
    BY DEF Agent!OnTheWay
  <2>3. w[i + 1].kind = "tool_start" /\ w[j + 1].kind = "tool_start"
    BY ONLY <1>7, <2>1
  <2>4. w[i + 1].id < w[j + 1].id
    BY ONLY <2>1, <2>2, <2>3
  <2> QED
    BY ONLY <2>1, <2>4
<1>8. ASSUME NEW n \in Len(c2) + 1..Len(d) PROVE \E j \in DOMAIN v : v[j].kind = "tool_start" /\ v[j].id = n
  <2>1. n \in Len(c) + 1..Len(d)
    BY <1>2
  <2>2. PICK j \in DOMAIN w : w[j].kind = "tool_start" /\ w[j].id = n
    BY <2>1 DEF Agent!OnTheWay
  <2>3. j # 1
    BY <1>2, <2>2
  <2> QED
    BY <1>3, <2>2, <2>3
<1> QED
  BY <1>5, <1>6, <1>7, <1>8 DEF Agent!OnTheWay, v

\* Text, an error or "done" is read.
LEMMA WayOther ==
  ASSUME NEW w \in Seq(Agent!Events), NEW c \in Seq(Agent!Calls), NEW d \in Seq(Run), w # <<>>,
         Agent!OnTheWay(w, c, d), w[1].kind \notin {"tool_start", "tool_result", "end"}
  PROVE  Agent!OnTheWay(Tail(w), c, d)
<1>1. ~Agent!Pending(c)
  BY DEF Agent!OnTheWay, Agent!Event
<1>2. \A j \in DOMAIN w : w[j].kind = "tool_start" => w[j].id > Len(c)
  BY DEF Agent!OnTheWay
<1>3. Len(c) <= Len(c)
  OBVIOUS
<1> QED
  BY <1>1, <1>2, <1>3, WayBehind

\* The start of a call is read.
LEMMA WayStart ==
  ASSUME NEW w \in Seq(Agent!Events), NEW c \in Seq(Agent!Calls), NEW d \in Seq(Run), w # <<>>,
         Agent!OnTheWay(w, c, d), Agent!Lists(c, d), w[1].kind = "tool_start"
  PROVE  LET c2 == Append(c, [tool |-> w[1].tool, id |-> 0])
         IN  c2 \in Seq(Agent!Calls) /\ Agent!OnTheWay(Tail(w), c2, d) /\ Agent!Lists(c2, d)
<1> DEFINE x == [tool |-> w[1].tool, id |-> 0]
           c2 == Append(c, x)
<1>1. /\ Len(w) \in Nat /\ DOMAIN w = 1..Len(w) /\ 1 \in DOMAIN w /\ Len(c) \in Nat /\ Len(d) \in Nat
      /\ DOMAIN c = 1..Len(c)
  BY WayTail
<1>2. /\ w[1].id \in Len(c) + 1..Len(d) /\ w[1].tool = d[w[1].id].tool
      /\ 1 + 1 \in DOMAIN w /\ w[1 + 1] = Agent!Event("tool_result", w[1].tool, w[1].id)
  BY <1>1 DEF Agent!OnTheWay
<1>3. w[1].id = Len(c) + 1
  <2>1. Len(c) + 1 \in Len(c) + 1..Len(d)
    BY <1>1, <1>2
  <2>2. PICK j \in DOMAIN w : w[j].kind = "tool_start" /\ w[j].id = Len(c) + 1
    BY <2>1 DEF Agent!OnTheWay
  <2>3. j # 1 => w[1].id < w[j].id
    <3>1. \A a, b \in DOMAIN w :
            w[a].kind = "tool_start" /\ w[b].kind = "tool_start" /\ a < b => w[a].id < w[b].id
      BY DEF Agent!OnTheWay
    <3>2. j # 1 => 1 < j
      BY ONLY <1>1, <2>2
    <3> QED
      BY <1>1, <2>2, <3>1, <3>2
  <2>4. w[1].id <= w[j].id
    BY ONLY <1>1, <1>2, <2>2, <2>3
  <2>5. w[1].id \in Len(c) + 1..Len(d) /\ w[1].id <= Len(c) + 1
    BY ONLY <1>2, <2>2, <2>4
  <2> QED
    BY ONLY <1>1, <2>5
<1>4. ~Agent!Pending(c)
  BY DEF Agent!OnTheWay, Agent!Event
<1>5. d[w[1].id] \in Run
  BY <1>1, <1>2
<1>6. x \in Agent!Calls /\ x.tool = w[1].tool /\ x.id = 0
  BY <1>2, <1>5 DEF Agent!Calls, Run
<1> HIDE DEF x
<1>7. /\ c2 \in Seq(Agent!Calls) /\ Len(c2) = Len(c) + 1 /\ DOMAIN c2 = 1..Len(c) + 1 /\ c2[Len(c) + 1] = x
      /\ (\A i \in DOMAIN c : c2[i] = c[i]) /\ c2 # <<>>
  BY <1>6
<1> HIDE DEF c2
<1>8. Agent!Lists(c2, d)
  <2> SUFFICES ASSUME NEW i \in DOMAIN c2
               PROVE  c2[i].tool = d[i].tool /\ (c2[i].id = i \/ (i = Len(c2) /\ c2[i].id = 0))
    BY <1>1, <1>2, <1>3, <1>7 DEF Agent!Lists
  <2>1. CASE i = Len(c) + 1
    BY <1>2, <1>3, <1>6, <1>7, <2>1
  <2>2. CASE i # Len(c) + 1
    <3>1. i \in DOMAIN c /\ c2[i] = c[i]
      BY <1>1, <1>7, <2>2
    <3>2. c # <<>>
      BY <3>1
    <3> QED
      BY <1>4, <3>1, <3>2 DEF Agent!Lists, Agent!Pending
  <2> QED
    BY <2>1, <2>2
<1>9. Agent!Pending(c2) /\ w[2] = Agent!Event("tool_result", c2[Len(c2)].tool, Len(c2)) /\ w[1].id <= Len(c2)
  BY <1>1, <1>2, <1>3, <1>6, <1>7 DEF Agent!Pending
<1>10. \A j \in DOMAIN w : j # 1 /\ w[j].kind = "tool_start" => w[j].id > Len(c2)
  <2> SUFFICES ASSUME NEW j \in DOMAIN w, j # 1, w[j].kind = "tool_start" PROVE w[j].id > Len(c2)
    OBVIOUS
  <2>1. w[j].id \in Len(c) + 1..Len(d) /\ w[1].id < w[j].id
    <3>1. w[j].id \in Len(c) + 1..Len(d)
      BY DEF Agent!OnTheWay
    <3>2. \A a, b \in DOMAIN w :
            w[a].kind = "tool_start" /\ w[b].kind = "tool_start" /\ a < b => w[a].id < w[b].id
      BY DEF Agent!OnTheWay
    <3>3. 1 < j /\ 1 \in DOMAIN w /\ w[1].kind = "tool_start"
      BY <1>1
    <3> QED
      BY ONLY <3>1, <3>2, <3>3, w[j].kind = "tool_start", j \in DOMAIN w
  <2> QED
    BY <1>1, <1>3, <1>7, <2>1
<1>11. Len(c) <= Len(c2) /\ c2 \in Seq(Agent!Calls)
  BY ONLY <1>1, <1>7
<1>12. Agent!OnTheWay(Tail(w), c2, d)
  BY <1>9, <1>10, <1>11, WayBehind
<1> QED
  BY ONLY <1>8, <1>11, <1>12 DEF c2, x

\* A result is read.
LEMMA WayResult ==
  ASSUME NEW w \in Seq(Agent!Events), NEW c \in Seq(Agent!Calls), NEW d \in Seq(Run), w # <<>>,
         Agent!OnTheWay(w, c, d), Agent!Lists(c, d), w[1].kind = "tool_result"
  PROVE  LET c2 == Agent!Resulted(c, w[1].tool, w[1].id)
         IN  c2 \in Seq(Agent!Calls) /\ Agent!OnTheWay(Tail(w), c2, d) /\ Agent!Lists(c2, d)
<1> DEFINE c2 == Agent!Resulted(c, w[1].tool, w[1].id)
<1>1. /\ Len(w) \in Nat /\ DOMAIN w = 1..Len(w) /\ 1 \in DOMAIN w /\ Len(c) \in Nat /\ Len(d) \in Nat
      /\ DOMAIN c = 1..Len(c)
  BY WayTail
<1>2. Agent!Pending(c)
  BY <1>1 DEF Agent!OnTheWay
<1>3. w[1].tool = c[Len(c)].tool /\ w[1].id = Len(c) /\ c # <<>> /\ Len(c) \in DOMAIN c /\ Len(c) >= 1
  BY <1>1, <1>2 DEF Agent!OnTheWay, Agent!Event, Agent!Pending
<1>4. (CHOOSE j \in DOMAIN c : c[j].tool = w[1].tool /\ \A n \in j + 1..Len(c) : c[n].tool # w[1].tool) = Len(c)
  <2>1. c[Len(c)].tool = w[1].tool /\ \A n \in Len(c) + 1..Len(c) : c[n].tool # w[1].tool
    BY <1>1, <1>3
  <2>2. ASSUME NEW j \in DOMAIN c, \A n \in j + 1..Len(c) : c[n].tool # w[1].tool PROVE j = Len(c)
    <3>1. j # Len(c) => Len(c) \in j + 1..Len(c)
      BY <1>1
    <3> QED
      BY <1>3, <2>2, <3>1
  <2> QED
    BY <1>3, <2>1, <2>2
<1>5. c2 = [c EXCEPT ![Len(c)].id = Len(c)]
  BY <1>3, <1>4 DEF Agent!Resulted
<1> HIDE DEF c2
<1>6. /\ c2 \in Seq(Agent!Calls) /\ Len(c2) = Len(c) /\ DOMAIN c2 = DOMAIN c
      /\ c2[Len(c)].id = Len(c) /\ c2[Len(c)].tool = c[Len(c)].tool
      /\ \A i \in DOMAIN c : i # Len(c) => c2[i] = c[i]
  <2>1. [c[Len(c)] EXCEPT !.id = Len(c)] = [tool |-> c[Len(c)].tool, id |-> Len(c)] /\ c[Len(c)].tool \in AgentTools
        /\ \A i \in 1..Len(c) : c[i] \in Agent!Calls
    <3>1. \A i \in 1..Len(c) : c[i] \in Agent!Calls
      BY <1>1
    <3>2. Len(c) \in 1..Len(c)
      BY <1>1, <1>3
    <3>3. PICK y : y = c[Len(c)]
      OBVIOUS
    <3>4. y \in [tool : AgentTools, id : Nat]
      BY ONLY <3>1, <3>2, <3>3 DEF Agent!Calls
    <3>5. [y EXCEPT !.id = Len(c)] = [tool |-> y.tool, id |-> Len(c)] /\ y.tool \in AgentTools
      BY ONLY <3>4
    <3> QED
      BY ONLY <3>1, <3>3, <3>5, Zenon
  <2>2. DOMAIN c2 = DOMAIN c /\ \A i \in DOMAIN c : c2[i] = IF i = Len(c) THEN [c[i] EXCEPT !.id = Len(c)] ELSE c[i]
    BY ONLY <1>5
  <2>3. \A i \in 1..Len(c) : c2[i] \in Agent!Calls
    <3>1. \A i \in 1..Len(c) : i # Len(c) => c2[i] = c[i]
      BY ONLY <1>1, <2>2
    <3>2. c2[Len(c)] = [tool |-> c[Len(c)].tool, id |-> Len(c)]
      BY ONLY <1>3, <2>1, <2>2, Zenon
    <3>3. [tool |-> c[Len(c)].tool, id |-> Len(c)] \in Agent!Calls
      BY ONLY <1>1, <2>1 DEF Agent!Calls
    <3> QED
      BY ONLY <2>1, <3>1, <3>2, <3>3
  <2>4. c2 = [i \in 1..Len(c) |-> c2[i]]
    BY ONLY <1>1, <1>5
  <2>5. c2 \in Seq(Agent!Calls) /\ Len(c2) = Len(c)
    BY ONLY <1>1, <2>3, <2>4
  <2> QED
    BY ONLY <1>1, <1>3, <2>1, <2>2, <2>5
<1>7. Agent!Lists(c2, d)
  BY <1>1, <1>6 DEF Agent!Lists
<1>8. ~Agent!Pending(c2)
  BY <1>3, <1>6 DEF Agent!Pending
<1>9. \A j \in DOMAIN w : w[j].kind = "tool_start" => w[j].id > Len(c2)
  BY <1>1, <1>6 DEF Agent!OnTheWay
<1>10. Len(c) <= Len(c2)
  BY <1>1, <1>6
<1>11. Agent!OnTheWay(Tail(w), c2, d)
  BY <1>6, <1>8, <1>9, <1>10, WayBehind
<1> QED
  BY <1>6, <1>7, <1>11 DEF c2

\* The end is read: the list is complete.
LEMMA WayEnded ==
  ASSUME NEW w \in Seq(Agent!Events), NEW c \in Seq(Agent!Calls), NEW d \in Seq(Run), w # <<>>,
         Agent!OnTheWay(w, c, d), Agent!Lists(c, d), w[1].kind = "end"
  PROVE  Tail(w) = <<>> /\ Len(c) = Len(d) /\ ~Agent!Pending(c)
<1>1. /\ Len(w) \in Nat /\ DOMAIN w = 1..Len(w) /\ 1 \in DOMAIN w /\ Len(c) \in Nat /\ Len(d) \in Nat
      /\ Len(Tail(w)) = Len(w) - 1 /\ Tail(w) \in Seq(Agent!Events)
  BY WayTail
<1>2. Len(w) = 1
  BY <1>1 DEF Agent!OnTheWay
<1>3. Tail(w) = <<>>
  <2>1. Len(Tail(w)) = 0
    BY ONLY <1>1, <1>2
  <2> QED
    BY <1>1, <2>1, EmptySeq
<1>4. ~Agent!Pending(c)
  BY DEF Agent!OnTheWay, Agent!Event
<1>5. ~(Len(c) < Len(d))
  <2> SUFFICES ASSUME Len(c) < Len(d) PROVE FALSE
    OBVIOUS
  <2>1. Len(c) + 1 \in Len(c) + 1..Len(d)
    BY <1>1
  <2>2. PICK j \in DOMAIN w : w[j].kind = "tool_start"
    BY <2>1 DEF Agent!OnTheWay
  <2> QED
    BY <1>1, <1>2, <2>2
<1> QED
  BY <1>1, <1>3, <1>4, <1>5 DEF Agent!Lists

-----------------------------------------------------------------------------
(* The server.                                                             *)

\* A call that is run keeps what is listed before it.
LEMMA ListsGrow ==
  ASSUME NEW c \in Seq(Agent!Calls), NEW d \in Seq(Run), NEW x \in Run, Agent!Lists(c, d)
  PROVE  Agent!Lists(c, Append(d, x))
<1>1. /\ Len(Append(d, x)) = Len(d) + 1 /\ Len(d) \in Nat /\ Len(c) \in Nat /\ DOMAIN c = 1..Len(c)
      /\ \A i \in 1..Len(d) : Append(d, x)[i] = d[i]
  OBVIOUS
<1>2. Len(c) <= Len(d)
  BY DEF Agent!Lists
<1> QED
  BY <1>1, <1>2 DEF Agent!Lists

LEMMA RanTypes == Agent!TypeOK => x16 \in [1..AgentRequests -> Seq(Run)]
BY DEF Agent!TypeOK, Run

\* What Ask, RunCall and Limit do to the loop and to what was run.
LEMMA AskSteps ==
  ASSUME Agent!TypeOK, Agent!Ask
  PROVE  /\ x11.of # 0 /\ UNCHANGED <<Agent!page, x6, x9, x10, x16, Agent!bounds, Agent!histories>>
         /\ \/ /\ Agent!Tell(<<Agent!Plain("text")>>) /\ x11'.of = x11.of /\ x11'.began = x11.began
               /\ x11' \in [of : 0..x12, turns : 0..AgentTurns, calls : Seq(AgentTools), began : AgentModes \union {"none"}]
            \/ \E kind \in {"text", "error"} : Agent!Tell(<<Agent!Plain(kind)>> \o <<Agent!Plain("done"), Agent!Plain("end")>>) /\ x11' = Agent!NoLoop
<1>1. /\ x11.of # 0 /\ x11.turns < AgentTurns /\ UNCHANGED <<Agent!page, x6, x9, x10, x16, Agent!bounds, Agent!histories>>
      /\ \/ \E n \in 1..AgentCalls : \E calls \in [1..n -> AgentTools] :
              x11' = [x11 EXCEPT !.turns = @ + 1, !.calls = calls] /\ Agent!Tell(<<Agent!Plain("text")>>)
         \/ Agent!Over(<<Agent!Plain("text")>>)
         \/ Agent!Over(<<Agent!Plain("error")>>)
  BY DEF Agent!Ask
<1>2. x11 \in [of : 0..x12, turns : 0..AgentTurns, calls : Seq(AgentTools), began : AgentModes \union {"none"}] /\ AgentTurns \in Nat
  BY Bounds DEF Agent!TypeOK
<1>3. CASE \E n \in 1..AgentCalls : \E calls \in [1..n -> AgentTools] :
             x11' = [x11 EXCEPT !.turns = @ + 1, !.calls = calls] /\ Agent!Tell(<<Agent!Plain("text")>>)
  <2>1. PICK n \in 1..AgentCalls : \E calls \in [1..n -> AgentTools] :
             x11' = [x11 EXCEPT !.turns = @ + 1, !.calls = calls] /\ Agent!Tell(<<Agent!Plain("text")>>)
    BY <1>3
  <2>2. PICK calls \in [1..n -> AgentTools] :
             x11' = [x11 EXCEPT !.turns = @ + 1, !.calls = calls] /\ Agent!Tell(<<Agent!Plain("text")>>)
    BY <2>1
  <2>3. calls \in Seq(AgentTools) /\ x11.turns + 1 \in 0..AgentTurns
    <3>1. n \in Nat
      OBVIOUS
    <3>2. calls \in Seq(AgentTools)
      BY <3>1, SeqDef
    <3>3. PICK t : t = x11.turns
      OBVIOUS
    <3>4. t \in 0..AgentTurns /\ t < AgentTurns /\ AgentTurns \in Nat
      BY <1>1, <1>2, <3>3
    <3>5. t + 1 \in 0..AgentTurns
      BY ONLY <3>4
    <3> QED
      BY <3>2, <3>3, <3>5
  <2>4. x11' = [of |-> x11.of, turns |-> x11.turns + 1, calls |-> calls, began |-> x11.began]
    BY <1>2, <2>2
  <2>5. x11' \in [of : 0..x12, turns : 0..AgentTurns, calls : Seq(AgentTools), began : AgentModes \union {"none"}]
    BY ONLY <1>2, <2>3, <2>4
  <2> QED
    BY <1>1, <2>2, <2>4, <2>5
<1>4. CASE Agent!Over(<<Agent!Plain("text")>>) \/ Agent!Over(<<Agent!Plain("error")>>)
  BY <1>1, <1>4 DEF Agent!Over
<1> QED
  BY <1>1, <1>3, <1>4

LEMMA LimitSteps ==
  ASSUME Agent!Limit
  PROVE  /\ x11.of # 0 /\ UNCHANGED <<Agent!page, x6, x9, x10, x16, Agent!bounds, Agent!histories>>
         /\ Agent!Tell(<<Agent!Plain("error")>> \o <<Agent!Plain("done"), Agent!Plain("end")>>) /\ x11' = Agent!NoLoop
BY DEF Agent!Limit, Agent!Over

LEMMA RunSteps ==
  ASSUME Agent!TypeOK, Agent!RunCall
  PROVE  /\ x11.of # 0 /\ UNCHANGED <<Agent!page, x6, x9, x10, Agent!bounds, Agent!histories>>
         /\ x11'.of = x11.of /\ x11'.began = x11.began
         /\ x11' \in [of : 0..x12, turns : 0..AgentTurns, calls : Seq(AgentTools), began : AgentModes \union {"none"}]
         /\ \E x \in Run : /\ x.mode = x10 /\ x16' = [x16 EXCEPT ![x11.of] = Append(x16[x11.of], x)]
                           /\ Agent!Tell(<<Agent!Event("tool_start", x.tool, Len(x16[x11.of]) + 1),
                                     Agent!Event("tool_result", x.tool, Len(x16[x11.of]) + 1)>>)
<1>1. /\ x11.of # 0 /\ x11.calls # <<>> /\ UNCHANGED <<Agent!page, x6, x9, x10, Agent!bounds, Agent!histories>>
      /\ x11' = [x11 EXCEPT !.calls = Tail(@)]
  BY DEF Agent!RunCall
<1>2. /\ x11 \in [of : 0..x12, turns : 0..AgentTurns, calls : Seq(AgentTools), began : AgentModes \union {"none"}]
      /\ x12 \in 0..AgentRequests /\ AgentRequests \in Nat /\ x10 \in AgentModes
  BY Bounds DEF Agent!TypeOK
<1> DEFINE tool == Head(x11.calls)
           id == Len(x16[x11.of]) + 1
<1>3. tool \in AgentTools /\ Tail(x11.calls) \in Seq(AgentTools)
  BY <1>1, <1>2
<1>4. x11' = [of |-> x11.of, turns |-> x11.turns, calls |-> Tail(x11.calls), began |-> x11.began]
  BY <1>1, <1>2
<1>5. x11' \in [of : 0..x12, turns : 0..AgentTurns, calls : Seq(AgentTools), began : AgentModes \union {"none"}]
  BY ONLY <1>2, <1>3, <1>4
<1>6. x16[x11.of] \in Seq(Run) /\ id \in Nat
  BY <1>1, <1>2, RanTypes
<1>7. /\ x16' = [x16 EXCEPT ![x11.of] = Append(x16[x11.of], [tool |-> tool, id |-> id, mode |-> x10])]
      /\ Agent!Tell(<<Agent!Event("tool_start", tool, id), Agent!Event("tool_result", tool, id)>>)
  BY DEF Agent!RunCall, Agent!Told
<1> DEFINE x == [tool |-> tool, id |-> id, mode |-> x10]
<1>8. x \in Run /\ x.mode = x10 /\ x.tool = tool
  BY ONLY <1>2, <1>3, <1>6 DEF Run
<1>9. x16' = [x16 EXCEPT ![x11.of] = Append(x16[x11.of], x)]
  BY <1>7
<1> HIDE DEF x, tool
<1> QED
  BY <1>1, <1>4, <1>5, <1>7, <1>8, <1>9

\* The step of the server or of the page leaves a question it is through with alone, and only
\* adds to what was run for the others.
Goes ==
  /\ \A k \in 1..x12 : Agent!Through(k) => Agent!Through(k)' /\ x16'[k] = x16[k]
  /\ \A k \in 1..AgentRequests : x16'[k] = x16[k] \/ \E x \in Run : x16'[k] = Append(x16[k], x)

\* Every step is of that kind.
LEMMA GoesOn == Agent!TypeOK /\ [Agent!Next]_(Agent!vars) => Goes
<1> SUFFICES ASSUME Agent!TypeOK, [Agent!Next]_(Agent!vars) PROVE Goes
  OBVIOUS
<1>0. DOMAIN x16 = 1..AgentRequests /\ x12 \in Nat /\ x12 <= AgentRequests
  BY Bounds DEF Agent!TypeOK
<1>1. CASE UNCHANGED <<x9, x11, x16>>
  BY <1>1 DEF Goes, Agent!Through
<1>2. CASE \E r : x9' = x9 \union {r} /\ r.of \notin 1..x12 /\ UNCHANGED <<x11, x16>>
  BY <1>2 DEF Goes, Agent!Through
<1>3. CASE Agent!Serve
  <2>1. /\ x9' \subseteq x9 /\ x16' = x16
        /\ x11' = x11 \/ \E r \in x9 : x11'.of = r.of
    BY <1>3 DEF Agent!Serve, Agent!NoLoop
  <2> QED
    BY <2>1 DEF Goes, Agent!Through
<1>4. CASE Agent!Ask \/ Agent!Limit
  <2>1. x9' = x9 /\ x16' = x16 /\ x11'.of \in {0, x11.of}
    BY <1>4, AskSteps, LimitSteps DEF Agent!NoLoop
  <2> QED
    BY <1>0, <2>1 DEF Goes, Agent!Through
<1>5. CASE Agent!RunCall
  <2>1. x9' = x9 /\ x11'.of = x11.of
    BY <1>5, RunSteps
  <2>2. PICK x \in Run : x16' = [x16 EXCEPT ![x11.of] = Append(x16[x11.of], x)]
    BY <1>5, RunSteps
  <2> QED
    BY <1>0, <2>1, <2>2 DEF Goes, Agent!Through
<1>6. CASE Agent!Send
  <2>1. x9' = x9 \union {[kind |-> "chat", of |-> x12 + 1, mode |-> "none"]} /\ UNCHANGED <<x11, x16>>
    BY <1>6 DEF Agent!Send, Agent!server
  <2>2. [kind |-> "chat", of |-> x12 + 1, mode |-> "none"].of \notin 1..x12
    BY <1>0
  <2> QED
    BY <1>2, <2>1, <2>2
<1>7. ASSUME NEW m \in AgentModes, Agent!selectPermission(m) PROVE Goes
  <2>1. /\ UNCHANGED <<x11, x16>>
        /\ x9' = x9 \/ x9' = x9 \union {[kind |-> "mode", of |-> 0, mode |-> m]}
    BY <1>7 DEF Agent!selectPermission, Agent!server
  <2>2. [kind |-> "mode", of |-> 0, mode |-> m].of \notin 1..x12
    OBVIOUS
  <2> QED
    BY <1>1, <1>2, <2>1, <2>2
<1>8. CASE Agent!Read \/ Agent!Finish \/ Agent!Stop \/ Agent!Breaks \/ Agent!newChat \/ Agent!Reload \/ Agent!Started
  BY <1>1, <1>8 DEF Agent!Read, Agent!Finish, Agent!Stop, Agent!Breaks, Agent!Catch,
    Agent!newChat, Agent!Reload, Agent!Started, Agent!server
<1>9. ASSUME NEW id \in DOMAIN x1, Agent!loadChat(id) \/ Agent!deleteChat(id) PROVE Goes
  BY <1>1, <1>9 DEF Agent!loadChat, Agent!deleteChat, Agent!server
<1>10. CASE UNCHANGED Agent!vars
  BY <1>1, <1>10 DEF Agent!vars
<1> QED
  BY <1>3, <1>4, <1>5, <1>6, <1>7, <1>8, <1>9, <1>10 DEF Agent!Next

-----------------------------------------------------------------------------
(* What is saved of the answers.                                           *)

\* What a log says of the calls that were run, and of the server.
LogSound(log) ==
  \A n \in DOMAIN log : log[n].role = "assistant" =>
    /\ log[n].end # "error" =>
         /\ Agent!Lists(log[n].calls, x16[log[n].of])
         /\ log[n].end = "whole" => Len(log[n].calls) = Len(x16[log[n].of]) /\ ~Agent!Pending(log[n].calls)
    /\ log[n].end = "whole" => Agent!Through(log[n].of)

LEMMA LogsSound == (Agent!ToolsShown /\ Agent!WholeIsThrough) <=> \A log \in Agent!Logs : LogSound(log)
BY DEF Agent!ToolsShown, Agent!WholeIsThrough, LogSound

LEMMA ListsGo ==
  ASSUME Agent!TypeOK, Goes, NEW c \in Seq(Agent!Calls), NEW k \in 1..AgentRequests, Agent!Lists(c, x16[k])
  PROVE  Agent!Lists(c, x16'[k])
<1>1. x16[k] \in Seq(Run)
  BY RanTypes
<1>2. x16'[k] = x16[k] \/ \E x \in Run : x16'[k] = Append(x16[k], x)
  BY DEF Goes
<1>3. CASE \E x \in Run : x16'[k] = Append(x16[k], x)
  <2>1. PICK x \in Run : x16'[k] = Append(x16[k], x)
    BY <1>3
  <2>2. Agent!Lists(c, Append(x16[k], x))
    BY <1>1, ListsGrow
  <2> QED
    BY <2>1, <2>2
<1>4. CASE x16'[k] = x16[k]
  BY <1>4
<1> QED
  BY <1>2, <1>3, <1>4

\* What a log says stays true.
LEMMA LogStays ==
  ASSUME Agent!TypeOK, Goes, NEW log \in Seq(Agent!Messages), LogSound(log), \A n \in DOMAIN log : log[n].of <= x12
  PROVE  LogSound(log)'
<1> SUFFICES ASSUME NEW n \in DOMAIN log, log[n].role = "assistant"
             PROVE  /\ log[n].end # "error" =>
                         /\ Agent!Lists(log[n].calls, x16'[log[n].of])
                         /\ log[n].end = "whole" =>
                              Len(log[n].calls) = Len(x16'[log[n].of]) /\ ~Agent!Pending(log[n].calls)
                    /\ log[n].end = "whole" => Agent!Through(log[n].of)'
  BY DEF LogSound
<1> DEFINE k == log[n].of
<1>1. log[n] \in Agent!Messages
  OBVIOUS
<1>2. k \in 1..AgentRequests /\ log[n].calls \in Seq(Agent!Calls)
  BY <1>1 DEF Agent!Messages
<1>3. x12 \in Nat /\ k \in 1..x12
  BY <1>2 DEF Agent!TypeOK
<1>4. /\ log[n].end # "error" => Agent!Lists(log[n].calls, x16[k])
      /\ log[n].end = "whole" =>
           Len(log[n].calls) = Len(x16[k]) /\ ~Agent!Pending(log[n].calls) /\ Agent!Through(k)
  BY DEF LogSound
<1>5. log[n].end # "error" => Agent!Lists(log[n].calls, x16'[k])
  BY <1>2, <1>4, ListsGo
<1>6. log[n].end = "whole" => Agent!Through(k)' /\ x16'[k] = x16[k]
  BY <1>3, <1>4 DEF Goes
<1> HIDE DEF k
<1> QED
  BY <1>4, <1>5, <1>6 DEF k

LEMMA AskedOf ==
  ASSUME Agent!TypeOK, Agent!AboutAsked
  PROVE  \A log \in Agent!Logs : log \in Seq(Agent!Messages) /\ \A n \in DOMAIN log : log[n].of <= x12
BY LogTypes DEF Agent!AboutAsked

\* What has been saved stays right, whatever the server goes on with.
LEMMA LogsStay ==
  ASSUME Agent!TypeOK, Agent!AboutAsked, Goes, Agent!ToolsShown, Agent!WholeIsThrough,
         \A log \in Agent!Logs' : log \in Agent!Logs \/ log = <<>>
  PROVE  Agent!ToolsShown' /\ Agent!WholeIsThrough'
<1>1. \A log \in Agent!Logs : LogSound(log)'
  <2> SUFFICES ASSUME NEW log \in Agent!Logs PROVE LogSound(log)'
    OBVIOUS
  <2>1. LogSound(log) /\ log \in Seq(Agent!Messages) /\ \A n \in DOMAIN log : log[n].of <= x12
    BY LogsSound, AskedOf
  <2> QED
    BY <2>1, LogStays
<1>2. LogSound(<<>>)'
  BY DEF LogSound
<1>3. \A log \in Agent!Logs' : LogSound(log)'
  BY <1>1, <1>2
<1> QED
  BY <1>3 DEF Agent!ToolsShown, Agent!WholeIsThrough, LogSound

\* A question is added, or an answer that says no more than what was run.
LEMMA PushSound ==
  ASSUME Agent!TypeOK, Place, Agent!AboutAsked, Goes, Agent!ToolsShown, Agent!WholeIsThrough, NEW STATE m, Agent!Push(m),
         NEW q \in Agent!Messages, q = m, LogSound(<<q>>)'
  PROVE  Agent!ToolsShown' /\ Agent!WholeIsThrough'
<1>1. /\ x3' = Append(x3, m)
      /\ \A log \in Agent!Logs' : log = x3' \/ \E i \in DOMAIN x1 \ {x2} : log = x1[i]
  BY PushedLogs
<1>2. x3 \in Agent!Logs /\ \A i \in DOMAIN x1 : x1[i] \in Agent!Logs
  BY LogsAre
<1>3. \A log \in Agent!Logs : LogSound(log)'
  <2> SUFFICES ASSUME NEW log \in Agent!Logs PROVE LogSound(log)'
    OBVIOUS
  <2>1. LogSound(log) /\ log \in Seq(Agent!Messages) /\ \A n \in DOMAIN log : log[n].of <= x12
    BY LogsSound, AskedOf
  <2> QED
    BY <2>1, LogStays
<1>5. PICK h : h = x3
  OBVIOUS
<1>6. h \in Seq(Agent!Messages) /\ LogSound(h)' /\ LogSound(<<q>>)'
  BY <1>2, <1>3, <1>5, LogTypes
<1>7. /\ Len(Append(h, q)) = Len(h) + 1 /\ Len(h) \in Nat
      /\ DOMAIN h = 1..Len(h) /\ DOMAIN Append(h, q) = 1..Len(h) + 1
      /\ Append(h, q)[Len(h) + 1] = q /\ \A n \in DOMAIN h : Append(h, q)[n] = h[n]
  BY ONLY <1>6, Longer
<1>8. DOMAIN <<q>> = 1..1 /\ <<q>>[1] = q
  OBVIOUS
<1>9. LogSound(Append(h, q))'
  <2>1. \A n \in DOMAIN Append(h, q) : (n \in DOMAIN h /\ Append(h, q)[n] = h[n]) \/ Append(h, q)[n] = <<q>>[1]
    BY ONLY <1>7, <1>8
  <2> DEFINE long == Append(h, q)
             one == <<q>>
  <2>2. \A n \in DOMAIN long : (n \in DOMAIN h /\ long[n] = h[n]) \/ (1 \in DOMAIN one /\ long[n] = one[1])
    BY <1>8, <2>1
  <2>3. LogSound(h)' /\ LogSound(one)'
    BY <1>6
  <2> HIDE DEF long, one
  <2>4. LogSound(long)'
    BY ONLY <2>2, <2>3, Zenon DEF LogSound
  <2> QED
    BY <2>4 DEF long
<1>10. LogSound(x3)'
  <2>1. x3' = Append(h, q)
    BY <1>1, <1>5
  <2> QED
    BY <1>9, <2>1 DEF LogSound
<1>11. \A log \in Agent!Logs' : LogSound(log)'
  <2> SUFFICES ASSUME NEW log \in Agent!Logs' PROVE LogSound(log)'
    OBVIOUS
  <2>1. CASE log = x3'
    BY <1>10, <2>1 DEF LogSound
  <2>2. CASE \E i \in DOMAIN x1 \ {x2} : log = x1[i]
    BY <1>2, <1>3, <2>2
  <2> QED
    BY <1>1, <2>1, <2>2
<1> QED
  BY <1>11 DEF Agent!ToolsShown, Agent!WholeIsThrough, LogSound

-----------------------------------------------------------------------------
(* The events, the answer and the mode.                                    *)

LEMMA TwoTold ==
  ASSUME NEW w \in Seq(Agent!Events), NEW e \in Agent!Events, NEW f \in Agent!Events
  PROVE  w \o <<e, f>> = Append(Append(w, e), f)
<1>1. <<e, f>> = <<e>> \o <<f>> /\ <<e>> \in Seq(Agent!Events) /\ <<f>> \in Seq(Agent!Events)
  <2>1. <<e>> \in Seq(Agent!Events) /\ <<f>> \in Seq(Agent!Events) /\ Len(<<e>>) = 1 /\ <<e>>[1] = e /\ Len(<<f>>) = 1 /\ <<f>>[1] = f
    OBVIOUS
  <2>2. <<e, f>> \in Seq(Agent!Events) /\ Len(<<e, f>>) = 2 /\ <<e, f>>[1] = e /\ <<e, f>>[2] = f
    OBVIOUS
  <2>3. /\ <<e>> \o <<f>> \in Seq(Agent!Events) /\ Len(<<e>> \o <<f>>) = Len(<<e>>) + Len(<<f>>)
        /\ \A i \in 1..Len(<<e>>) + Len(<<f>>) :
             (<<e>> \o <<f>>)[i] = IF i <= Len(<<e>>) THEN <<e>>[i] ELSE <<f>>[i - Len(<<e>>)]
    BY <2>1, ConcatProperties
  <2>4. PICK s : s = <<e>> \o <<f>>
    OBVIOUS
  <2>5. s \in Seq(Agent!Events) /\ Len(s) = 2 /\ s[1] = e /\ s[2] = f
    BY <2>1, <2>3, <2>4
  <2>6. PICK t : t = <<e, f>>
    OBVIOUS
  <2>7. \A i \in 1..Len(t) : t[i] = s[i]
    BY <2>2, <2>5, <2>6
  <2>8. t = s
    BY <2>2, <2>5, <2>6, <2>7, SeqEqual
  <2> QED
    BY <2>1, <2>4, <2>6, <2>8
<1>2. w \o (<<e>> \o <<f>>) = (w \o <<e>>) \o <<f>>
  BY <1>1, ConcatAssociative
<1>3. Append(w, e) = w \o <<e>> /\ Append(w, e) \in Seq(Agent!Events)
  BY AppendIsConcat, AppendProperties
<1>4. Append(Append(w, e), f) = Append(w, e) \o <<f>>
  BY <1>3, AppendIsConcat
<1> QED
  BY <1>1, <1>2, <1>3, <1>4, Zenon

LEMMA ThreeTold ==
  ASSUME NEW w \in Seq(Agent!Events), NEW e \in Agent!Events, NEW f \in Agent!Events, NEW g \in Agent!Events
  PROVE  w \o (<<e>> \o <<f, g>>) = Append(Append(Append(w, e), f), g)
<1>1. <<e>> \in Seq(Agent!Events) /\ <<f, g>> \in Seq(Agent!Events)
  OBVIOUS
<1>2. w \o (<<e>> \o <<f, g>>) = (w \o <<e>>) \o <<f, g>>
  BY <1>1, ConcatAssociative
<1>3. Append(w, e) = w \o <<e>> /\ Append(w, e) \in Seq(Agent!Events)
  BY AppendIsConcat, AppendProperties
<1>4. Append(w, e) \o <<f, g>> = Append(Append(Append(w, e), f), g)
  BY <1>3, TwoTold
<1> QED
  BY <1>2, <1>3, <1>4, Zenon

\* The last events of a response.
LEMMA WayOver ==
  ASSUME NEW w \in Seq(Agent!Events), NEW c \in Seq(Agent!Calls), NEW d \in Seq(Run), Agent!OnTheWay(w, c, d), ~Agent!Ended(w),
         NEW kind \in {"text", "error"}
  PROVE  LET v == w \o (<<Agent!Plain(kind)>> \o <<Agent!Plain("done"), Agent!Plain("end")>>)
         IN  v \in Seq(Agent!Events) /\ Agent!OnTheWay(v, c, d)
<1> DEFINE e == Agent!Plain(kind)
           f == Agent!Plain("done")
           g == Agent!Plain("end")
<1>1. /\ e \in Agent!Events /\ f \in Agent!Events /\ g \in Agent!Events
      /\ e.kind \in {"text", "error", "done"} /\ f.kind \in {"text", "error", "done"} /\ g.kind = "end"
  BY DEF Agent!Plain, Agent!Event, Agent!Events
<1> HIDE DEF e, f, g
<1>2. Append(w, e) \in Seq(Agent!Events) /\ Agent!OnTheWay(Append(w, e), c, d) /\ ~Agent!Ended(Append(w, e))
  BY <1>1, WayPlain
<1>3. PICK v : v = Append(w, e)
  OBVIOUS
<1>4. Append(v, f) \in Seq(Agent!Events) /\ Agent!OnTheWay(Append(v, f), c, d) /\ ~Agent!Ended(Append(v, f))
  BY <1>1, <1>2, <1>3, WayPlain
<1>5. PICK u : u = Append(v, f)
  OBVIOUS
<1>6. Append(u, g) \in Seq(Agent!Events) /\ Agent!OnTheWay(Append(u, g), c, d)
  BY <1>1, <1>4, <1>5, WayEnd
<1>7. w \o (<<e>> \o <<f, g>>) = Append(u, g)
  BY <1>1, <1>3, <1>5, ThreeTold
<1> QED
  BY <1>6, <1>7 DEF e, f, g

LEMMA WayText ==
  ASSUME NEW w \in Seq(Agent!Events), NEW c \in Seq(Agent!Calls), NEW d \in Seq(Run), Agent!OnTheWay(w, c, d), ~Agent!Ended(w)
  PROVE  LET v == w \o <<Agent!Plain("text")>> IN v \in Seq(Agent!Events) /\ Agent!OnTheWay(v, c, d) /\ ~Agent!Ended(v)
<1>1. Agent!Plain("text") \in Agent!Events /\ Agent!Plain("text").kind \in {"text", "error", "done"}
  BY DEF Agent!Plain, Agent!Event, Agent!Events
<1>2. w \o <<Agent!Plain("text")>> = Append(w, Agent!Plain("text"))
  BY <1>1, AppendIsConcat
<1> QED
  BY <1>1, <1>2, WayPlain

LEMMA WayRun ==
  ASSUME NEW w \in Seq(Agent!Events), NEW c \in Seq(Agent!Calls), NEW d \in Seq(Run), NEW x \in Run,
         Agent!OnTheWay(w, c, d), ~Agent!Ended(w), Agent!Lists(c, d)
  PROVE  LET v == w \o <<Agent!Event("tool_start", x.tool, Len(d) + 1), Agent!Event("tool_result", x.tool, Len(d) + 1)>>
         IN  v \in Seq(Agent!Events) /\ Agent!OnTheWay(v, c, Append(d, x)) /\ ~Agent!Ended(v) /\ Agent!Lists(c, Append(d, x))
<1>1. Len(d) + 1 \in Nat /\ x.tool \in AgentTools
  BY DEF Run
<1>2. Agent!Event("tool_start", x.tool, Len(d) + 1) \in Agent!Events /\ Agent!Event("tool_result", x.tool, Len(d) + 1) \in Agent!Events
  BY <1>1 DEF Agent!Event, Agent!Events
<1>3. w \o <<Agent!Event("tool_start", x.tool, Len(d) + 1), Agent!Event("tool_result", x.tool, Len(d) + 1)>>
        = Append(Append(w, Agent!Event("tool_start", x.tool, Len(d) + 1)), Agent!Event("tool_result", x.tool, Len(d) + 1))
  BY <1>2, TwoTold
<1> QED
  BY <1>3, WayCall

\* Nothing has been told of a question that is only asked.
LEMMA WayNew == Agent!OnTheWay(<<>>, <<>>, <<>>) /\ Agent!Lists(<<>>, <<>>) /\ ~Agent!Ended(<<>>)
<1>1. DOMAIN <<>> = {} /\ Len(<<>>) = 0
  OBVIOUS
<1> QED
  BY <1>1 DEF Agent!OnTheWay, Agent!Lists, Agent!Pending, Agent!Ended

LEMMA AnswerTypes ==
  ASSUME Agent!TypeOK
  PROVE  /\ x7 \in Seq(Agent!Events) /\ x6.calls \in Seq(Agent!Calls) /\ x6.of \in 0..x12
         /\ x6 \in [of : 0..x12, at : {"none", "reading", "typing"}, calls : Seq(Agent!Calls)]
         /\ x12 \in 0..AgentRequests /\ AgentRequests \in Nat
         /\ (x6.of # 0 => x6.of \in 1..x12 /\ x6.of \in 1..AgentRequests /\ x16[x6.of] \in Seq(Run))
<1>1. /\ x7 \in Seq(Agent!Events)
      /\ x6 \in [of : 0..x12, at : {"none", "reading", "typing"}, calls : Seq(Agent!Calls)]
      /\ x12 \in 0..AgentRequests /\ AgentRequests \in Nat
  BY Bounds DEF Agent!TypeOK
<1> QED
  BY <1>1, RanTypes

\* An event is read.
LEMMA ReadSteps ==
  ASSUME Agent!TypeOK, Agent!Answering, Agent!Read
  PROVE  /\ x6' \in [of : 0..x12, at : {"reading", "typing"}, calls : Seq(Agent!Calls)] /\ x6'.of = x6.of
         /\ x7' \in Seq(Agent!Events) /\ Agent!Answering'
         /\ UNCHANGED <<Agent!page, x9, Agent!server, Agent!bounds, Agent!histories>>
<1>1. /\ x6.at = "reading" /\ x7 # <<>> /\ x7' = Tail(x7)
      /\ UNCHANGED <<Agent!page, x9, Agent!server, Agent!bounds, Agent!histories>>
  BY DEF Agent!Read
<1>2. PICK w \in Seq(Agent!Events) : w = x7
  BY AnswerTypes
<1>3. PICK c \in Seq(Agent!Calls) : c = x6.calls
  BY AnswerTypes
<1>4. PICK k \in 1..x12 : k = x6.of
  BY <1>1, AnswerTypes DEF Agent!Answering
<1>5. PICK d \in Seq(Run) : d = x16[k]
  BY <1>4, AnswerTypes
<1>6. /\ Agent!OnTheWay(w, c, d) /\ Agent!Lists(c, d) /\ (Agent!Ended(w) => Agent!Through(k)) /\ w # <<>> /\ k # 0
      /\ x6 = [of |-> k, at |-> "reading", calls |-> c]
  <2>1. x6 = [of |-> x6.of, at |-> x6.at, calls |-> x6.calls]
    BY AnswerTypes
  <2> QED
    BY <1>1, <1>2, <1>3, <1>4, <1>5, <2>1 DEF Agent!Answering
<1>7. /\ Tail(w) \in Seq(Agent!Events) /\ Head(w) = w[1] /\ w[1] \in Agent!Events /\ 1 \in DOMAIN w
      /\ Agent!Ended(Tail(w)) => Agent!Ended(w)
  BY <1>6, WayTail
<1>8. /\ w[1].kind = "tool_start" => x6' = [of |-> k, at |-> "reading", calls |-> Append(c, [tool |-> w[1].tool, id |-> 0])]
      /\ w[1].kind = "tool_result" => x6' = [of |-> k, at |-> "reading", calls |-> Agent!Resulted(c, w[1].tool, w[1].id)]
      /\ w[1].kind = "end" => x6' = [of |-> k, at |-> "typing", calls |-> c]
      /\ w[1].kind \notin {"tool_start", "tool_result", "end"} => x6' = x6
  BY <1>2, <1>6, <1>7 DEF Agent!Read
<1>9. UNCHANGED <<x16, x12>> /\ (Agent!Through(k) => Agent!Through(k)')
  BY <1>1 DEF Agent!server, Agent!bounds, Agent!Through
<1>10. ASSUME NEW c2 \in Seq(Agent!Calls), x6' = [of |-> k, at |-> "reading", calls |-> c2],
              Agent!OnTheWay(Tail(w), c2, d), Agent!Lists(c2, d)
       PROVE  /\ x6' \in [of : 0..x12, at : {"reading", "typing"}, calls : Seq(Agent!Calls)] /\ x6'.of = k
              /\ Agent!Answering'
  <2>1. x6'.of = k /\ x6'.at = "reading" /\ x6'.calls = c2
    BY <1>10
  <2>2. x7' = Tail(w) /\ x16' = x16
    BY <1>1, <1>2, <1>9
  <2>3. Agent!Ended(Tail(w)) => Agent!Through(k)'
    BY <1>6, <1>7, <1>9
  <2>4. k \in 0..x12
    BY AnswerTypes
  <2> QED
    BY <1>5, <1>6, <1>10, <2>1, <2>2, <2>3, <2>4 DEF Agent!Answering, Agent!Through
<1>11. CASE w[1].kind = "tool_start"
  <2>1. PICK c2 : c2 = Append(c, [tool |-> w[1].tool, id |-> 0])
    OBVIOUS
  <2>2. c2 \in Seq(Agent!Calls) /\ Agent!OnTheWay(Tail(w), c2, d) /\ Agent!Lists(c2, d)
    BY <1>6, <1>11, <2>1, WayStart
  <2> QED
    BY <1>1, <1>2, <1>4, <1>7, <1>8, <1>10, <1>11, <2>1, <2>2
<1>12. CASE w[1].kind = "tool_result"
  <2>1. PICK c2 : c2 = Agent!Resulted(c, w[1].tool, w[1].id)
    OBVIOUS
  <2>2. c2 \in Seq(Agent!Calls) /\ Agent!OnTheWay(Tail(w), c2, d) /\ Agent!Lists(c2, d)
    BY <1>6, <1>12, <2>1, WayResult
  <2> QED
    BY <1>1, <1>2, <1>4, <1>7, <1>8, <1>10, <1>12, <2>1, <2>2
<1>13. CASE w[1].kind \notin {"tool_start", "tool_result", "end"}
  <2>1. Agent!OnTheWay(Tail(w), c, d)
    BY <1>6, <1>13, WayOther
  <2> QED
    BY <1>1, <1>2, <1>4, <1>6, <1>7, <1>8, <1>10, <1>13, <2>1
<1>14. CASE w[1].kind = "end"
  <2>1. Tail(w) = <<>> /\ Len(c) = Len(d) /\ ~Agent!Pending(c)
    BY <1>6, <1>14, WayEnded
  <2>2. Agent!Through(k)'
    BY <1>6, <1>7, <1>9, <1>14 DEF Agent!Ended
  <2>3. x6' = [of |-> k, at |-> "typing", calls |-> c] /\ x7' = <<>> /\ x16' = x16
    BY <1>1, <1>2, <1>8, <1>9, <1>14, <2>1
  <2>4. x6'.of = k /\ x6'.at = "typing" /\ x6'.calls = c /\ k \in 0..x12
    BY <2>3, AnswerTypes
  <2>5. Agent!Answering'
    BY <1>5, <1>6, <2>1, <2>2, <2>3, <2>4 DEF Agent!Answering, Agent!Through
  <2>6. x6' \in [of : 0..x12, at : {"reading", "typing"}, calls : Seq(Agent!Calls)]
    BY <2>3, <2>4
  <2> QED
    BY <1>1, <1>2, <1>4, <1>7, <2>4, <2>5, <2>6
<1> QED
  BY <1>11, <1>12, <1>13, <1>14

\* The answer is not being read, or the loop is that of another question.
LEMMA ServedElse ==
  ASSUME Agent!TypeOK, Agent!Answering, Goes, x11.of # 0, x11'.of \in {0, x11.of}, UNCHANGED <<x6, x7, x9, x12>>,
         ~(x6.of = x11.of /\ x6.at = "reading"), x16' = x16 \/ \E x : x16' = [x16 EXCEPT ![x11.of] = x]
  PROVE  Agent!Answering'
<1>1. x6.of # 0 => x6.of \in 1..x12 /\ x6.of \in DOMAIN x16
  <2>1. x16 \in [1..AgentRequests -> Seq(Run)]
    BY RanTypes
  <2> QED
    BY <2>1, AnswerTypes
<1>2. x6.of # 0 /\ Agent!Through(x6.of) => Agent!Through(x6.of)'
  BY <1>1 DEF Goes, Agent!Through
<1>3. CASE x6.at = "none"
  BY <1>3 DEF Agent!Answering
<1>4. CASE x6.at # "none"
  <2>1. x6.of # 0
    BY <1>4 DEF Agent!Answering
  <2>2. x6.of # x11.of
    BY <1>4, AnswerTypes DEF Agent!Answering, Agent!Through
  <2>3. x16'[x6.of] = x16[x6.of]
    BY <1>1, <2>1, <2>2
  <2> QED
    BY <1>2, <2>1, <2>3 DEF Agent!Answering, Agent!Through
<1> QED
  BY <1>3, <1>4

\* What the server tells of the question that it serves.
LEMMA ServedAnswer ==
  ASSUME Agent!TypeOK, Agent!Answering, Agent!ServedOnce, x11.of # 0, UNCHANGED <<x6, x9, x12>>, x6.of = x11.of, x6.at = "reading",
         x7' \in Seq(Agent!Events), NEW d \in Seq(Run), x16'[x11.of] = d, Agent!Lists(x6.calls, d),
         Agent!OnTheWay(x7', x6.calls, d), Agent!Ended(x7') => x11'.of = 0
  PROVE  Agent!Answering'
<1>1. x11'.of = 0 => Agent!Through(x6.of)'
  BY DEF Agent!Through, Agent!ServedOnce
<1> QED
  BY <1>1 DEF Agent!Answering, Agent!Through

LEMMA NotEnded ==
  ASSUME Agent!TypeOK, Agent!Answering, x11.of # 0, x6.of = x11.of, x6.at = "reading"
  PROVE  /\ x7 \in Seq(Agent!Events) /\ x6.calls \in Seq(Agent!Calls) /\ x16[x11.of] \in Seq(Run)
         /\ Agent!OnTheWay(x7, x6.calls, x16[x11.of]) /\ Agent!Lists(x6.calls, x16[x11.of]) /\ ~Agent!Ended(x7)
BY AnswerTypes DEF Agent!Answering, Agent!Through

\* The server tells the end of a response.
LEMMA OverAnswer ==
  ASSUME Agent!TypeOK, Agent!Answering, Agent!ServedOnce, Goes, x11.of # 0, UNCHANGED <<x6, x9, x12, x16>>,
         NEW kind \in {"text", "error"}, Agent!Tell(<<Agent!Plain(kind)>> \o <<Agent!Plain("done"), Agent!Plain("end")>>), x11' = Agent!NoLoop
  PROVE  Agent!Answering' /\ x7' \in Seq(Agent!Events)
<1>1. CASE x6.of = x11.of /\ x6.at = "reading"
  <2>1. x7' = x7 \o (<<Agent!Plain(kind)>> \o <<Agent!Plain("done"), Agent!Plain("end")>>)
    BY <1>1 DEF Agent!Tell
  <2>2. /\ x7 \in Seq(Agent!Events) /\ x6.calls \in Seq(Agent!Calls) /\ x16[x11.of] \in Seq(Run)
        /\ Agent!OnTheWay(x7, x6.calls, x16[x11.of]) /\ Agent!Lists(x6.calls, x16[x11.of]) /\ ~Agent!Ended(x7)
    BY <1>1, NotEnded
  <2>3. x7' \in Seq(Agent!Events) /\ Agent!OnTheWay(x7', x6.calls, x16[x11.of])
    <3>1. PICK w \in Seq(Agent!Events) : w = x7
      BY <2>2
    <3>2. PICK c \in Seq(Agent!Calls) : c = x6.calls
      BY <2>2
    <3>3. PICK d \in Seq(Run) : d = x16[x11.of]
      BY <2>2
    <3>4. LET v == w \o (<<Agent!Plain(kind)>> \o <<Agent!Plain("done"), Agent!Plain("end")>>) IN v \in Seq(Agent!Events) /\ Agent!OnTheWay(v, c, d)
      BY <2>2, <3>1, <3>2, <3>3, WayOver
    <3> QED
      BY <2>1, <3>1, <3>2, <3>3, <3>4
  <2>4. x11'.of = 0 /\ x16'[x11.of] = x16[x11.of]
    BY DEF Agent!NoLoop
  <2> QED
    BY <1>1, <2>2, <2>3, <2>4, ServedAnswer
<1>2. CASE ~(x6.of = x11.of /\ x6.at = "reading")
  <2>1. x7' = x7 /\ x11'.of = 0
    BY <1>2 DEF Agent!Tell, Agent!NoLoop
  <2> QED
    BY <1>2, <2>1, ServedElse, AnswerTypes
<1> QED
  BY <1>1, <1>2

LEMMA AskAnswer ==
  ASSUME Agent!TypeOK, Agent!Answering, Agent!ServedOnce, Goes, Agent!Ask
  PROVE  Agent!Answering' /\ x7' \in Seq(Agent!Events)
<1>1. /\ x11.of # 0 /\ UNCHANGED <<x6, x9, x12, x16>>
      /\ \/ Agent!Tell(<<Agent!Plain("text")>>) /\ x11'.of = x11.of
         \/ \E kind \in {"text", "error"} : Agent!Tell(<<Agent!Plain(kind)>> \o <<Agent!Plain("done"), Agent!Plain("end")>>) /\ x11' = Agent!NoLoop
  BY AskSteps DEF Agent!bounds
<1>2. CASE Agent!Tell(<<Agent!Plain("text")>>) /\ x11'.of = x11.of /\ x6.of = x11.of /\ x6.at = "reading"
  <2>1. x7' = x7 \o <<Agent!Plain("text")>>
    BY <1>2 DEF Agent!Tell
  <2>2. /\ x7 \in Seq(Agent!Events) /\ x6.calls \in Seq(Agent!Calls) /\ x16[x11.of] \in Seq(Run)
        /\ Agent!OnTheWay(x7, x6.calls, x16[x11.of]) /\ Agent!Lists(x6.calls, x16[x11.of]) /\ ~Agent!Ended(x7)
    BY <1>1, <1>2, NotEnded
  <2>3. x7' \in Seq(Agent!Events) /\ Agent!OnTheWay(x7', x6.calls, x16[x11.of]) /\ ~Agent!Ended(x7')
    <3>1. PICK w \in Seq(Agent!Events) : w = x7
      BY <2>2
    <3>2. PICK c \in Seq(Agent!Calls) : c = x6.calls
      BY <2>2
    <3>3. PICK d \in Seq(Run) : d = x16[x11.of]
      BY <2>2
    <3>4. LET v == w \o <<Agent!Plain("text")>> IN v \in Seq(Agent!Events) /\ Agent!OnTheWay(v, c, d) /\ ~Agent!Ended(v)
      BY <2>2, <3>1, <3>2, <3>3, WayText
    <3> QED
      BY <2>1, <3>1, <3>2, <3>3, <3>4
  <2>4. x16'[x11.of] = x16[x11.of]
    BY <1>1
  <2> QED
    BY <1>1, <1>2, <2>2, <2>3, <2>4, ServedAnswer
<1>3. CASE Agent!Tell(<<Agent!Plain("text")>>) /\ x11'.of = x11.of /\ ~(x6.of = x11.of /\ x6.at = "reading")
  <2>1. x7' = x7
    BY <1>3 DEF Agent!Tell
  <2> QED
    BY <1>1, <1>3, <2>1, ServedElse, AnswerTypes
<1>4. CASE \E kind \in {"text", "error"} : Agent!Tell(<<Agent!Plain(kind)>> \o <<Agent!Plain("done"), Agent!Plain("end")>>) /\ x11' = Agent!NoLoop
  BY <1>1, <1>4, OverAnswer
<1> QED
  BY <1>1, <1>2, <1>3, <1>4

LEMMA RunAnswer ==
  ASSUME Agent!TypeOK, Agent!Answering, Agent!ServedOnce, Goes, Agent!RunCall
  PROVE  Agent!Answering' /\ x7' \in Seq(Agent!Events)
<1>1. x11.of # 0 /\ UNCHANGED <<x6, x9, x12>> /\ x11'.of = x11.of
  BY RunSteps DEF Agent!bounds
<1>2. PICK x \in Run : /\ x16' = [x16 EXCEPT ![x11.of] = Append(x16[x11.of], x)]
                       /\ Agent!Tell(<<Agent!Event("tool_start", x.tool, Len(x16[x11.of]) + 1),
                                 Agent!Event("tool_result", x.tool, Len(x16[x11.of]) + 1)>>)
  BY RunSteps
<1>3. CASE x6.of = x11.of /\ x6.at = "reading"
  <2>1. x7' = x7 \o <<Agent!Event("tool_start", x.tool, Len(x16[x11.of]) + 1),
                      Agent!Event("tool_result", x.tool, Len(x16[x11.of]) + 1)>>
    BY <1>2, <1>3 DEF Agent!Tell
  <2>2. /\ x7 \in Seq(Agent!Events) /\ x6.calls \in Seq(Agent!Calls) /\ x16[x11.of] \in Seq(Run)
        /\ Agent!OnTheWay(x7, x6.calls, x16[x11.of]) /\ Agent!Lists(x6.calls, x16[x11.of]) /\ ~Agent!Ended(x7)
    BY <1>1, <1>3, NotEnded
  <2>3. PICK w \in Seq(Agent!Events) : w = x7
    BY <2>2
  <2>4. PICK c \in Seq(Agent!Calls) : c = x6.calls
    BY <2>2
  <2>5. PICK d \in Seq(Run) : d = x16[x11.of]
    BY <2>2
  <2>6. LET v == w \o <<Agent!Event("tool_start", x.tool, Len(d) + 1), Agent!Event("tool_result", x.tool, Len(d) + 1)>>
        IN  v \in Seq(Agent!Events) /\ Agent!OnTheWay(v, c, Append(d, x)) /\ ~Agent!Ended(v) /\ Agent!Lists(c, Append(d, x))
    BY <2>2, <2>3, <2>4, <2>5, WayRun
  <2>7. PICK e : e = Append(d, x)
    OBVIOUS
  <2>8. x7' \in Seq(Agent!Events) /\ Agent!OnTheWay(x7', x6.calls, e) /\ ~Agent!Ended(x7') /\ Agent!Lists(x6.calls, e)
    BY <2>1, <2>3, <2>4, <2>5, <2>6, <2>7
  <2>9. e \in Seq(Run) /\ x16'[x11.of] = e
    <3>1. x11.of \in DOMAIN x16
      <4>1. x16 \in [1..AgentRequests -> Seq(Run)]
        BY RanTypes
      <4> QED
        BY <1>1, <1>3, <4>1, AnswerTypes
    <3>2. x16'[x11.of] = Append(x16[x11.of], x)
      BY <1>2, <3>1
    <3>3. Append(d, x) \in Seq(Run)
      BY AppendProperties
    <3> QED
      BY <2>5, <2>7, <3>2, <3>3
  <2> QED
    BY <1>1, <1>3, <2>8, <2>9, ServedAnswer
<1>4. CASE ~(x6.of = x11.of /\ x6.at = "reading")
  <2>1. x7' = x7
    BY <1>2, <1>4 DEF Agent!Tell
  <2> QED
    BY <1>1, <1>2, <1>4, <2>1, ServedElse, AnswerTypes
<1> QED
  BY <1>3, <1>4

\* Everybody else leaves the answer alone, or nobody hears it any more.
LEMMA OtherAnswer ==
  ASSUME Agent!TypeOK, Agent!Answering, Goes, UNCHANGED x16,
         (x6' = x6 /\ x7' = x7) \/ (x6' = Agent!NoChat /\ x7' = <<>>)
  PROVE  Agent!Answering' /\ x7' \in Seq(Agent!Events)
<1>1. x7' \in Seq(Agent!Events)
  <2>1. <<>> \in Seq(Agent!Events)
    BY EmptySeq
  <2> QED
    BY <2>1, AnswerTypes
<1>2. CASE x6' = Agent!NoChat /\ x7' = <<>>
  <2>1. x6'.of = 0 /\ x6'.at = "none"
    BY <1>2 DEF Agent!NoChat
  <2> QED
    BY <1>1, <1>2, <2>1 DEF Agent!Answering
<1>3. CASE x6' = x6 /\ x7' = x7
  <2>1. x6.of # 0 /\ Agent!Through(x6.of) => Agent!Through(x6.of)'
    BY <1>3, AnswerTypes DEF Goes, Agent!Through
  <2>2. x6.at # "none" => x6.of # 0
    BY DEF Agent!Answering
  <2> QED
    BY <1>1, <1>3, <2>1, <2>2 DEF Agent!Answering, Agent!Through
<1> QED
  BY <1>2, <1>3

LEMMA SendAnswer ==
  ASSUME Agent!TypeOK, Agent!Answering, Agent!ServedOnce, Agent!Send
  PROVE  /\ Agent!Answering' /\ x7' \in Seq(Agent!Events) /\ x12' \in 0..AgentRequests
         /\ x6' \in [of : 0..x12', at : {"none", "reading", "typing"}, calls : Seq(Agent!Calls)]
<1>1. x6' = [of |-> x12 + 1, at |-> "reading", calls |-> <<>>] /\ x12' = x12 + 1 /\ x12 < AgentRequests
      /\ x7' = x7 /\ x16' = x16 /\ x6.of = 0
  BY DEF Agent!Send, Agent!NoChat, Agent!server
<1>2. x12 \in 0..AgentRequests /\ AgentRequests \in Nat /\ <<>> \in Seq(Agent!Calls) /\ x7' \in Seq(Agent!Events)
  BY <1>1, EmptySeq, AnswerTypes
<1>3. x7' = <<>>
  BY <1>1 DEF Agent!Answering
<1>4. x12 + 1 \in 1..AgentRequests /\ x12 + 1 > x12 /\ x12 + 1 # 0
  BY <1>1, <1>2
<1>5. x16'[x12 + 1] = <<>>
  BY <1>1, <1>4 DEF Agent!ServedOnce
<1>6. x6'.of = x12 + 1 /\ x6'.at = "reading" /\ x6'.calls = <<>>
  BY <1>1
<1>7. Agent!Answering'
  BY <1>3, <1>4, <1>5, <1>6, WayNew DEF Agent!Answering
<1> QED
  BY <1>1, <1>2, <1>4, <1>7

-----------------------------------------------------------------------------
(* The types, the requests and the mode.                                   *)

LEMMA LoopTypes ==
  ASSUME Agent!TypeOK
  PROVE  /\ x11 \in [of : 0..x12, turns : 0..AgentTurns, calls : Seq(AgentTools), began : AgentModes \union {"none"}]
         /\ x11.of \in 0..x12 /\ x11.of \in Nat
BY DEF Agent!TypeOK

\* Requests are those for an answer, of a question each, and those for a mode.
LEMMA WaitingTypes ==
  ASSUME Agent!TypeOK, NEW r \in x9
  PROVE  \/ r.kind = "chat" /\ r.of \in 1..x12 /\ r = [kind |-> "chat", of |-> r.of, mode |-> "none"]
         \/ r.kind = "mode" /\ r.of = 0 /\ r.mode \in AgentModes
BY DEF Agent!TypeOK

\* No request is taken: what waits has not been run, and is not being served.
LEMMA OthersServed ==
  ASSUME Agent!TypeOK, Agent!ServedOnce, x9' = x9, x11'.of \in {0, x11.of}, x12' = x12,
         x16' = x16 \/ (x11.of # 0 /\ \E x : x16' = [x16 EXCEPT ![x11.of] = x])
  PROVE  Agent!ServedOnce'
<1>1. \A r \in x9 : x11'.of # 0 => r.of # x11'.of
  BY DEF Agent!ServedOnce
<1>2. ASSUME NEW k \in 1..AgentRequests, k > x12 \/ (\E r \in x9 : r.of = k) PROVE x16'[k] = <<>>
  <2>1. x16[k] = <<>>
    BY <1>2 DEF Agent!ServedOnce
  <2>2. x11.of # 0 => k # x11.of
    BY <1>2, LoopTypes, AnswerTypes DEF Agent!ServedOnce
  <2>3. k \in DOMAIN x16
    BY RanTypes
  <2> QED
    BY <2>1, <2>2, <2>3
<1> QED
  BY <1>1, <1>2 DEF Agent!ServedOnce

LEMMA ServeServed ==
  ASSUME Agent!TypeOK, Agent!ServedOnce, Agent!Serve
  PROVE  Agent!ServedOnce'
<1>1. PICK r \in x9 : /\ x11.of = 0 /\ x9' = x9 \ {r}
                      /\ IF r.kind = "mode" THEN x10' = r.mode /\ UNCHANGED x11
                         ELSE x11' = [Agent!NoLoop EXCEPT !.of = r.of, !.began = x10] /\ UNCHANGED x10
  BY DEF Agent!Serve, Agent!Free
<1>2. UNCHANGED <<x16, x12>>
  BY DEF Agent!Serve, Agent!bounds
<1>3. \A k \in 1..AgentRequests : k > x12' \/ (\E q \in x9' : q.of = k) => x16'[k] = <<>>
  BY <1>1, <1>2 DEF Agent!ServedOnce
<1>4. x11'.of # 0 => \A q \in x9' : q.of # x11'.of
  <2> SUFFICES ASSUME x11'.of # 0, NEW q \in x9', q.of = x11'.of PROVE FALSE
    OBVIOUS
  <2>1. x11'.of = r.of /\ r.kind # "mode"
    BY <1>1 DEF Agent!NoLoop
  <2>2. r = [kind |-> "chat", of |-> r.of, mode |-> "none"] /\ r.of # 0
    BY <2>1, WaitingTypes
  <2>3. q = [kind |-> "chat", of |-> q.of, mode |-> "none"]
    BY <1>1, <2>1, <2>2, WaitingTypes
  <2> QED
    BY <1>1, <2>1, <2>2, <2>3
<1> QED
  BY <1>3, <1>4 DEF Agent!ServedOnce

LEMMA AddServed ==
  ASSUME Agent!TypeOK, Agent!ServedOnce, x12' \in {x12, x12 + 1}, x11' = x11, x16' = x16,
         NEW r, x9' = x9 \union {r}, r.of = 0 \/ (r.of = x12 + 1 /\ x12' = x12 + 1)
  PROVE  Agent!ServedOnce'
<1>1. x12 \in Nat /\ x11.of \in 0..x12
  BY LoopTypes, AnswerTypes
<1>2. \A k \in 1..AgentRequests : k > x12' \/ (\E q \in x9' : q.of = k) => x16'[k] = <<>>
  BY <1>1 DEF Agent!ServedOnce
<1>3. x11'.of # 0 => \A q \in x9' : q.of # x11'.of
  BY <1>1 DEF Agent!ServedOnce
<1> QED
  BY <1>2, <1>3 DEF Agent!ServedOnce

\* The page goes elsewhere, or starts.
LEMMA MovesTyped ==
  ASSUME Agent!TypeOK, Agent!Answering, Place, Moves, x8' \in AgentModes, x14' \in 0..AgentOps, x15' \in 0..AgentFaults, x21' \in BOOLEAN
  PROVE  Agent!TypeOK'
<1>1. /\ DOMAIN x1' \subseteq 1..x13' /\ x13' \in Nat /\ x13 <= x13' /\ x2' \in 0..x13' /\ x4' \in 0..x13'
      /\ x5' \in BOOLEAN /\ x19' \subseteq 1..x13'
      /\ UNCHANGED <<x12, x17, x9, x11, x16, x10>>
  BY DEF Moves
<1>2. <<>> \in Seq(Agent!Messages)
  BY EmptySeq
<1>3. (\A i \in DOMAIN x1' : x1'[i] \in Seq(Agent!Messages)) /\ x3' \in Seq(Agent!Messages)
  <2>1. \A i \in DOMAIN x1' : x1'[i] \in Seq(Agent!Messages)
    BY <1>2, LogTypes DEF Moves
  <2>2. x3' \in Seq(Agent!Messages)
    BY <1>2, <2>1 DEF Moves
  <2> QED
    BY <2>1, <2>2
<1>4. x6' \in [of : 0..x12', at : {"none", "reading", "typing"}, calls : Seq(Agent!Calls)] /\ x7' \in Seq(Agent!Events)
  <2>1. <<>> \in Seq(Agent!Events) /\ <<>> \in Seq(Agent!Calls) /\ x12 \in Nat
    BY EmptySeq, AnswerTypes
  <2>2. Agent!NoChat \in [of : 0..x12, at : {"none", "reading", "typing"}, calls : Seq(Agent!Calls)]
    BY <2>1 DEF Agent!NoChat
  <2> QED
    BY <1>1, <2>1, <2>2, AnswerTypes DEF Moves
<1>5. x17' \in [1..AgentRequests -> 0..x13']
  <2>1. x17 \in [1..AgentRequests -> 0..x13] /\ x13 \in Nat
    BY DEF Agent!TypeOK
  <2>2. 0..x13 \subseteq 0..x13'
    BY <1>1, <2>1
  <2>3. x17 \in [1..AgentRequests -> 0..x13']
    BY ONLY <2>1, <2>2
  <2> QED
    BY <1>1, <2>3
<1>6. /\ x10' \in AgentModes /\ x12' \in 0..AgentRequests
      /\ x9' \subseteq {[kind |-> "chat", of |-> k, mode |-> "none"] : k \in 1..x12'}
                       \union {[kind |-> "mode", of |-> 0, mode |-> m] : m \in AgentModes}
      /\ x11' \in [of : 0..x12', turns : 0..AgentTurns, calls : Seq(AgentTools), began : AgentModes \union {"none"}]
      /\ x16' \in [1..AgentRequests -> Seq([tool : AgentTools, id : Nat, mode : AgentModes])]
  BY <1>1 DEF Agent!TypeOK
<1> QED
  BY <1>1, <1>3, <1>4, <1>5, <1>6 DEF Agent!TypeOK

\* Nobody says anything.
LEMMA StillTyped ==
  ASSUME Agent!TypeOK, UNCHANGED <<Agent!page, x12, x17, x19>>, x14' \in 0..AgentOps, x15' \in 0..AgentFaults,
         x21' \in BOOLEAN,
         x6' \in [of : 0..x12, at : {"none", "reading", "typing"}, calls : Seq(Agent!Calls)], x7' \in Seq(Agent!Events),
         x10' \in AgentModes,
         x9' \subseteq {[kind |-> "chat", of |-> k, mode |-> "none"] : k \in 1..x12}
                       \union {[kind |-> "mode", of |-> 0, mode |-> m] : m \in AgentModes},
         x11' \in [of : 0..x12, turns : 0..AgentTurns, calls : Seq(AgentTools), began : AgentModes \union {"none"}],
         x16' \in [1..AgentRequests -> Seq(Run)]
  PROVE  Agent!TypeOK'
<1>1. UNCHANGED <<x1, x2, x3, x4, x5, x8, x13, x12, x17, x19>>
  BY DEF Agent!page
<1>2. /\ DOMAIN x1' \subseteq 1..x13' /\ (\A i \in DOMAIN x1' : x1'[i] \in Seq(Agent!Messages))
      /\ x3' \in Seq(Agent!Messages) /\ x2' \in 0..x13' /\ x4' \in 0..x13' /\ x5' \in BOOLEAN
      /\ x8' \in AgentModes /\ x17' \in [1..AgentRequests -> 0..x13'] /\ x19' \subseteq 1..x13'
      /\ x12' \in 0..AgentRequests /\ x13' \in Nat
  BY <1>1 DEF Agent!TypeOK
<1> QED
  BY <1>1, <1>2 DEF Agent!TypeOK, Run

\* A message is said.
LEMMA PushTyped ==
  ASSUME Agent!TypeOK, Place, NEW STATE m, NEW q \in Agent!Messages, q = m, Agent!Push(m)
  PROVE  /\ DOMAIN x1' \subseteq 1..x13' /\ (\A i \in DOMAIN x1' : x1'[i] \in Seq(Agent!Messages))
         /\ x3' \in Seq(Agent!Messages) /\ x2' \in 0..x13' /\ x4' \in 0..x13' /\ x5' \in BOOLEAN
         /\ x8' \in AgentModes /\ x13' \in Nat
<1>1. /\ x3' = Append(x3, m) /\ DOMAIN x1' = DOMAIN x1
      /\ x2 \in DOMAIN x1 => x1'[x2] = x3'
      /\ \A i \in DOMAIN x1 \ {x2} : x1'[i] = x1[i]
  BY PushedLogs
<1>2. UNCHANGED <<x2, x4, x5, x8, x13>>
  BY DEF Agent!Push
<1>3. PICK h : h = x3
  OBVIOUS
<1>4. h \in Seq(Agent!Messages)
  BY <1>3, LogTypes
<1>5. Append(h, q) \in Seq(Agent!Messages)
  BY <1>4, AppendProperties
<1>6. x3' \in Seq(Agent!Messages)
  BY <1>1, <1>3, <1>5
<1>7. \A i \in DOMAIN x1' : x1'[i] \in Seq(Agent!Messages)
  BY <1>1, <1>6, LogTypes
<1>8. x8 \in AgentModes
  BY DEF Agent!TypeOK
<1> QED
  BY <1>1, <1>2, <1>6, <1>7, <1>8, PageTypes

\* What is promised of the modes, with the reason for it.
Mode == Agent!ModesHold /\ Agent!OneMode

\* The mode is not touched, and nothing is run under another one.
LEMMA ModeStays ==
  ASSUME Agent!TypeOK, Mode, UNCHANGED <<x10, x8, x21>>,
         \A r : r.kind = "mode" => (r \in x9' <=> r \in x9),
         x11'.of = 0 \/ (x11'.of = x11.of /\ x11'.began = x11.began),
         x16' = x16 \/ (x11.of # 0 /\ \E x \in Run : x.mode = x10 /\ x16' = [x16 EXCEPT ![x11.of] = Append(x16[x11.of], x)])
  PROVE  Mode'
<1>1. x21 \/ x8 = x10 \/ \E r \in x9 : r.kind = "mode" /\ r.mode = x8
  BY DEF Mode, Agent!ModesHold
<1>2. x21' \/ x8' = x10' \/ \E r \in x9' : r.kind = "mode" /\ r.mode = x8'
  BY <1>1
<1>3. x21' \/ \A r \in x9' : r.kind = "mode" => r.mode = x8'
  BY DEF Mode, Agent!OneMode
<1>4. x11'.of # 0 => x10' = x11'.began
  BY DEF Mode, Agent!OneMode
<1>5. ASSUME x11'.of # 0, NEW i \in DOMAIN x16'[x11'.of] PROVE x16'[x11'.of][i].mode = x11'.began
  <2>1. x11'.of = x11.of /\ x11'.began = x11.began /\ x11.of # 0 /\ x10 = x11.began
    BY <1>5 DEF Mode, Agent!OneMode
  <2>2. \A j \in DOMAIN x16[x11.of] : x16[x11.of][j].mode = x11.began
    BY <2>1 DEF Mode, Agent!ModesHold
  <2>3. CASE x16' = x16
    BY <1>5, <2>1, <2>2, <2>3
  <2>4. ASSUME NEW x \in Run, x.mode = x10, x16' = [x16 EXCEPT ![x11.of] = Append(x16[x11.of], x)]
        PROVE  x16'[x11'.of][i].mode = x11'.began
    <3>1. PICK d : d = x16[x11.of]
      OBVIOUS
    <3>2. x11.of \in DOMAIN x16 /\ d \in Seq(Run)
      <4>1. x11.of \in 1..AgentRequests
        BY <2>1, LoopTypes, AnswerTypes
      <4> QED
        BY <3>1, <4>1, RanTypes
    <3>3. x16'[x11.of] = Append(d, x)
      BY <2>4, <3>1, <3>2
    <3>4. /\ Len(Append(d, x)) = Len(d) + 1 /\ Len(d) \in Nat /\ DOMAIN d = 1..Len(d)
          /\ DOMAIN Append(d, x) = 1..Len(d) + 1
          /\ Append(d, x)[Len(d) + 1] = x /\ \A n \in DOMAIN d : Append(d, x)[n] = d[n]
      BY <3>2, Longer
    <3>5. i \in DOMAIN d \/ i = Len(d) + 1
      BY <1>5, <2>1, <3>3, <3>4
    <3>6. Append(d, x)[i].mode = x10
      BY <2>1, <2>2, <2>4, <3>1, <3>4, <3>5
    <3> QED
      BY <2>1, <3>3, <3>6
  <2> QED
    BY <2>3, <2>4
<1> QED
  BY <1>2, <1>3, <1>4, <1>5 DEF Mode, Agent!ModesHold, Agent!OneMode

LEMMA ServeMode ==
  ASSUME Agent!TypeOK, Mode, Agent!ServedOnce, Agent!Serve
  PROVE  Mode'
<1>1. PICK r \in x9 : /\ x11.of = 0 /\ x9' = x9 \ {r}
                      /\ IF r.kind = "mode" THEN x10' = r.mode /\ UNCHANGED x11
                         ELSE x11' = [Agent!NoLoop EXCEPT !.of = r.of, !.began = x10] /\ UNCHANGED x10
  BY DEF Agent!Serve, Agent!Free
<1>2. UNCHANGED <<x16, x8, x21>>
  BY DEF Agent!Serve, Agent!page, Agent!histories
<1>3. x21 \/ \A q \in x9 : q.kind = "mode" => q.mode = x8
  BY DEF Mode, Agent!OneMode
<1>4. x21 \/ x8 = x10 \/ \E q \in x9 : q.kind = "mode" /\ q.mode = x8
  BY DEF Mode, Agent!ModesHold
<1>5. CASE r.kind = "mode"
  <2>1. x11'.of = 0 /\ x10' = r.mode
    BY <1>1, <1>5
  <2> QED
    BY <1>1, <1>2, <1>3, <1>5, <2>1 DEF Mode, Agent!ModesHold, Agent!OneMode
<1>6. CASE r.kind # "mode"
  <2>1. x11'.of = r.of /\ x11'.began = x10 /\ x10' = x10
    BY <1>1, <1>6 DEF Agent!NoLoop
  <2>2. r.of \in 1..AgentRequests
    BY <1>6, WaitingTypes, AnswerTypes
  <2>3. x16'[x11'.of] = <<>>
    BY <1>2, <2>1, <2>2 DEF Agent!ServedOnce
  <2>4. x11'.of # 0 => \A i \in DOMAIN x16'[x11'.of] : x16'[x11'.of][i].mode = x11'.began
    BY <2>3
  <2>5. x21' \/ x8' = x10' \/ \E q \in x9' : q.kind = "mode" /\ q.mode = x8'
    BY <1>1, <1>2, <1>4, <1>6, <2>1
  <2>6. x21' \/ \A q \in x9' : q.kind = "mode" => q.mode = x8'
    BY <1>1, <1>2, <1>3
  <2> QED
    BY <2>1, <2>4, <2>5, <2>6 DEF Mode, Agent!ModesHold, Agent!OneMode
<1> QED
  BY <1>5, <1>6

LEMMA StartedMode ==
  ASSUME Agent!TypeOK, Mode, Agent!Started
  PROVE  Mode'
<1>1. /\ x11.of = 0 /\ x8' = x10 /\ UNCHANGED <<x11, x9, x10>>
      /\ x21' = (x21 \/ \E r \in x9 : r.kind = "mode")
  BY DEF Agent!Started, Agent!server
<1> QED
  BY <1>1 DEF Mode, Agent!ModesHold, Agent!OneMode

LEMMA SelectMode ==
  ASSUME Agent!TypeOK, Mode, NEW m \in AgentModes, Agent!selectPermission(m)
  PROVE  Mode'
<1>1. /\ x8' = m /\ UNCHANGED <<x10, x11, x16>>
      /\ \/ /\ x9' = x9 \union {[kind |-> "mode", of |-> 0, mode |-> m]}
            /\ x21' = (x21 \/ \E r \in x9 : r.kind = "mode")
         \/ x21' = TRUE
  BY DEF Agent!selectPermission, Agent!server
<1>2. x11.of # 0 => x10 = x11.began /\ \A i \in DOMAIN x16[x11.of] : x16[x11.of][i].mode = x11.began
  BY DEF Mode, Agent!ModesHold, Agent!OneMode
<1>3. PICK new : new = [kind |-> "mode", of |-> 0, mode |-> m]
  OBVIOUS
<1>4. new.kind = "mode" /\ new.mode = m
  BY <1>3
<1>5. CASE x21' = TRUE
  BY <1>1, <1>2, <1>5 DEF Mode, Agent!ModesHold, Agent!OneMode
<1>6. CASE x9' = x9 \union {new} /\ x21' = (x21 \/ \E r \in x9 : r.kind = "mode")
  <2>1. x21' \/ \A r \in x9' : r.kind = "mode" => r = new
    BY <1>6
  <2>2. new \in x9'
    BY <1>6
  <2>3. x21' \/ \A r \in x9' : r.kind = "mode" => r.mode = m
    BY <1>4, <2>1
  <2>4. \E r \in x9' : r.kind = "mode" /\ r.mode = m
    BY <1>4, <2>2
  <2> QED
    BY <1>1, <1>2, <2>3, <2>4 DEF Mode, Agent!ModesHold, Agent!OneMode
<1> QED
  BY <1>1, <1>3, <1>5, <1>6

-----------------------------------------------------------------------------
(* The invariant.                                                          *)

\* The parts of the invariant as the lemmas above have them.
LEMMA InvParts ==
  Agent!Inv <=> /\ Agent!TypeOK /\ Place /\ Agent!QuestionsStay /\ QuestionsFollowed /\ Agent!ToolsShown /\ Agent!WholeIsThrough /\ Agent!ServedOnce
                /\ Agent!Answering /\ Mode
BY DEF Agent!Inv, Agent!AgentIsSound, Place, QuestionsFollowed, Mode

LEMMA InitInv == Agent!Init => Agent!Inv
<1> SUFFICES ASSUME Agent!Init PROVE Agent!Inv
  OBVIOUS
<1>1. /\ <<>> \in Seq(Agent!Messages) /\ <<>> \in Seq(Agent!Calls) /\ <<>> \in Seq(Agent!Events) /\ <<>> \in Seq(AgentTools) /\ <<>> \in Seq(Run)
      /\ DOMAIN <<>> = {} /\ Len(<<>>) = 0
  BY EmptySeq
<1>2. /\ x1 = <<>> /\ x2 = 0 /\ x3 = <<>> /\ x4 = 0 /\ x5 = TRUE
      /\ x6 = Agent!NoChat /\ x7 = <<>> /\ x9 = {} /\ x11 = Agent!NoLoop
      /\ x10 \in AgentModes /\ x8 = x10
      /\ x12 = 0 /\ x13 = 0 /\ x14 = 0 /\ x15 = 0
      /\ x16 = [k \in 1..AgentRequests |-> <<>>] /\ x17 = [k \in 1..AgentRequests |-> 0]
      /\ x18 = {} /\ x19 = {} /\ x20 = {} /\ x21 = FALSE
  BY DEF Agent!Init
<1>3. Agent!TypeOK
  <2>1. x6 \in [of : 0..x12, at : {"none", "reading", "typing"}, calls : Seq(Agent!Calls)]
    BY <1>1, <1>2 DEF Agent!NoChat
  <2>2. x11 \in [of : 0..x12, turns : 0..AgentTurns, calls : Seq(AgentTools), began : AgentModes \union {"none"}]
    BY <1>1, <1>2, Bounds DEF Agent!NoLoop
  <2>3. x16 \in [1..AgentRequests -> Seq([tool : AgentTools, id : Nat, mode : AgentModes])]
    BY <1>1, <1>2 DEF Run
  <2>4. x17 \in [1..AgentRequests -> 0..x13]
    BY <1>2
  <2>5. x12 \in 0..AgentRequests /\ x14 \in 0..AgentOps /\ x15 \in 0..AgentFaults
    BY <1>2, Bounds
  <2> QED
    <3>1. /\ DOMAIN x1 \subseteq 1..x13 /\ (\A i \in DOMAIN x1 : x1[i] \in Seq(Agent!Messages))
          /\ x3 \in Seq(Agent!Messages) /\ x2 \in 0..x13 /\ x4 \in 0..x13 /\ x5 \in BOOLEAN
      BY ONLY <1>1, <1>2
    <3>2. x7 \in Seq(Agent!Events) /\ {x8, x10} \subseteq AgentModes /\ x19 \subseteq 1..x13 /\ x21 \in BOOLEAN /\ x13 \in Nat
      BY ONLY <1>1, <1>2
    <3>3. x9 = {}
      BY <1>2
    <3> QED
      BY ONLY <2>1, <2>2, <2>3, <2>4, <2>5, <3>1, <3>2, <3>3 DEF Agent!TypeOK
<1>4. Agent!Logs = {<<>>}
  BY <1>1, <1>2 DEF Agent!Logs
<1>5. Place
  BY <1>1, <1>2 DEF Place, Agent!ShownIsSaved, Agent!NoneYet
<1>6. Agent!QuestionsStay
  BY <1>2 DEF Agent!QuestionsStay
<1>7. x6.of = 0 /\ x6.at = "none" /\ x11.of = 0
  BY <1>2 DEF Agent!NoChat, Agent!NoLoop
<1>8. QuestionsFollowed
  BY <1>1, <1>4, <1>7 DEF QuestionsFollowed, Agent!AboutAsked, Agent!LastAsked, Agent!AnswersFollow
<1>9. Agent!ToolsShown /\ Agent!WholeIsThrough
  BY <1>1, <1>4 DEF Agent!ToolsShown, Agent!WholeIsThrough
<1>10. Agent!ServedOnce
  BY <1>2, <1>7 DEF Agent!ServedOnce
<1>11. Agent!Answering
  BY <1>2, <1>7 DEF Agent!Answering
<1>12. Mode
  BY <1>2, <1>7 DEF Mode, Agent!ModesHold, Agent!OneMode
<1> QED
  BY <1>3, <1>5, <1>6, <1>8, <1>9, <1>10, <1>11, <1>12, InvParts

LEMMA Counted == Agent!TypeOK => /\ x14 \in 0..AgentOps /\ x15 \in 0..AgentFaults /\ x21 \in BOOLEAN
                                 /\ (Agent!User => x14' \in 0..AgentOps) /\ (Agent!Fault => x15' \in 0..AgentFaults)
BY Bounds DEF Agent!TypeOK, Agent!User, Agent!Fault

\* What holds of all steps on which the page goes elsewhere.
LEMMA MovesInv ==
  ASSUME Agent!Inv, Moves, Goes, x8' \in AgentModes, x14' \in 0..AgentOps, x15' \in 0..AgentFaults, x21' \in BOOLEAN, Mode'
  PROVE  Agent!Inv'
<1>1. /\ Agent!TypeOK /\ Place /\ Agent!QuestionsStay /\ QuestionsFollowed /\ Agent!AboutAsked /\ Agent!ToolsShown /\ Agent!WholeIsThrough
      /\ Agent!ServedOnce /\ Agent!Answering
  BY InvParts DEF QuestionsFollowed
<1>2. Place' /\ \A log \in Agent!Logs' : log \in Agent!Logs \/ log = <<>>
  BY <1>1, MovedLogs
<1>3. Agent!QuestionsStay' /\ QuestionsFollowed'
  BY <1>1, MovesFollowed
<1>4. Agent!ToolsShown' /\ Agent!WholeIsThrough'
  BY <1>1, <1>2, LogsStay
<1>5. Agent!TypeOK'
  BY <1>1, MovesTyped
<1>6. Agent!Answering'
  <2>1. x16' = x16 /\ ((x6' = x6 /\ x7' = x7) \/ (x6' = Agent!NoChat /\ x7' = <<>>))
    BY DEF Moves
  <2> QED
    BY <1>1, <2>1, OtherAnswer
<1>7. Agent!ServedOnce'
  BY <1>1 DEF Moves, Agent!ServedOnce
<1> QED
  BY <1>2, <1>3, <1>4, <1>5, <1>6, <1>7 DEF Agent!Inv, Agent!AgentIsSound, Place,
    QuestionsFollowed, Mode

\* And of those on which nobody says anything.
LEMMA StillInv ==
  ASSUME Agent!Inv, Still, Goes, Agent!TypeOK', Agent!Answering', Agent!ServedOnce', Mode'
  PROVE  Agent!Inv'
<1>1. /\ Agent!TypeOK /\ Place /\ Agent!QuestionsStay /\ QuestionsFollowed /\ Agent!AboutAsked /\ Agent!ToolsShown /\ Agent!WholeIsThrough
  BY InvParts DEF QuestionsFollowed
<1>2. Place' /\ \A log \in Agent!Logs' : log \in Agent!Logs
  BY <1>1, StillLogs
<1>3. Agent!QuestionsStay' /\ QuestionsFollowed'
  BY <1>1, StillFollowed
<1>4. Agent!ToolsShown' /\ Agent!WholeIsThrough'
  BY <1>1, <1>2, LogsStay
<1> QED
  BY <1>2, <1>3, <1>4 DEF Agent!Inv, Agent!AgentIsSound, Place, QuestionsFollowed, Mode

LEMMA NewChatInv == ASSUME Agent!Inv, Goes, Agent!newChat PROVE Agent!Inv'
<1>1. Agent!TypeOK /\ Place /\ Mode
  BY InvParts
<1>2. Moves
  BY <1>1, NewChatMoves DEF Place
<1>3. /\ UNCHANGED <<x8, x15, x21, x10, x9, x11, x16>> /\ Agent!User
  BY DEF Agent!newChat, Agent!server
<1>4. Mode'
  BY <1>1, <1>3 DEF Mode, Agent!ModesHold, Agent!OneMode
<1>5. x8' \in AgentModes
  BY <1>1, <1>3 DEF Agent!TypeOK
<1> QED
  BY <1>1, <1>2, <1>3, <1>4, <1>5, Counted, MovesInv

LEMMA LoadChatInv ==
  ASSUME Agent!Inv, Goes, NEW id \in DOMAIN x1, Agent!loadChat(id)
  PROVE  Agent!Inv'
<1>1. Agent!TypeOK /\ Place /\ Mode
  BY InvParts
<1>2. Moves
  BY <1>1, LoadChatMoves DEF Place
<1>3. /\ UNCHANGED <<x8, x15, x21, x10, x9, x11, x16>> /\ Agent!User
  BY DEF Agent!loadChat, Agent!server
<1>4. Mode'
  BY <1>1, <1>3 DEF Mode, Agent!ModesHold, Agent!OneMode
<1>5. x8' \in AgentModes
  BY <1>1, <1>3 DEF Agent!TypeOK
<1> QED
  BY <1>1, <1>2, <1>3, <1>4, <1>5, Counted, MovesInv

LEMMA DeleteChatInv ==
  ASSUME Agent!Inv, Goes, NEW id \in DOMAIN x1, Agent!deleteChat(id)
  PROVE  Agent!Inv'
<1>1. Agent!TypeOK /\ Place /\ Mode
  BY InvParts
<1>2. Moves
  BY <1>1, DeleteChatMoves DEF Place
<1>3. /\ UNCHANGED <<x8, x15, x21, x10, x9, x11, x16>> /\ Agent!User
  BY DEF Agent!deleteChat, Agent!server
<1>4. Mode'
  BY <1>1, <1>3 DEF Mode, Agent!ModesHold, Agent!OneMode
<1>5. x8' \in AgentModes
  BY <1>1, <1>3 DEF Agent!TypeOK
<1> QED
  BY <1>1, <1>2, <1>3, <1>4, <1>5, Counted, MovesInv

LEMMA ReloadInv == ASSUME Agent!Inv, Goes, Agent!Reload PROVE Agent!Inv'
<1>1. Agent!TypeOK /\ Place /\ Mode
  BY InvParts
<1>2. Moves
  BY <1>1, ReloadMoves
<1>3. /\ UNCHANGED <<x8, x15, x21, x10, x9, x11, x16>> /\ Agent!User
  BY DEF Agent!Reload, Agent!server
<1>4. Mode'
  BY <1>1, <1>3 DEF Mode, Agent!ModesHold, Agent!OneMode
<1>5. x8' \in AgentModes
  BY <1>1, <1>3 DEF Agent!TypeOK
<1> QED
  BY <1>1, <1>2, <1>3, <1>4, <1>5, Counted, MovesInv

LEMMA StartedInv == ASSUME Agent!Inv, Goes, Agent!Started PROVE Agent!Inv'
<1>1. Agent!TypeOK /\ Place /\ Mode
  BY InvParts
<1>2. Moves
  BY <1>1, StartedMoves DEF Place
<1>3. UNCHANGED <<x14, x15>> /\ x8' = x10 /\ x21' = (x21 \/ \E r \in x9 : r.kind = "mode")
  BY DEF Agent!Started, Agent!bounds
<1>4. Mode'
  BY <1>1, StartedMode
<1>5. x8' \in AgentModes /\ x21' \in BOOLEAN
  BY <1>1, <1>3 DEF Agent!TypeOK
<1> QED
  BY <1>1, <1>2, <1>3, <1>4, <1>5, Counted, MovesInv

LEMMA SelectInv ==
  ASSUME Agent!Inv, Goes, NEW m \in AgentModes, Agent!selectPermission(m)
  PROVE  Agent!Inv'
<1>1. Agent!TypeOK /\ Place /\ Mode /\ Agent!Answering /\ Agent!ServedOnce
  BY InvParts
<1>2. /\ x8' = m /\ Agent!User
      /\ UNCHANGED <<x1, x2, x3, x4, x5, x13, x6, x7, x10, x11, x16, x12, x17, x18, x19, x20>>
      /\ \/ /\ x9' = x9 \union {[kind |-> "mode", of |-> 0, mode |-> m]}
            /\ x21' = (x21 \/ \E r \in x9 : r.kind = "mode") /\ UNCHANGED x15
         \/ Agent!Fault /\ x21' = TRUE /\ UNCHANGED x9
  BY DEF Agent!selectPermission, Agent!server
<1>3. Still
  BY <1>2 DEF Still
<1>4. Mode'
  BY <1>1, SelectMode
<1>5. Agent!Answering' /\ x7' \in Seq(Agent!Events)
  BY <1>1, <1>2, OtherAnswer
<1>6. Agent!ServedOnce'
  <2>1. CASE x9' = x9 \union {[kind |-> "mode", of |-> 0, mode |-> m]}
    BY <1>1, <1>2, <2>1, AddServed
  <2>2. CASE x9' = x9
    BY <1>1, <1>2, <2>2 DEF Agent!ServedOnce
  <2> QED
    BY <1>2, <2>1, <2>2
<1>7. Agent!TypeOK'
  <2>1. /\ DOMAIN x1' \subseteq 1..x13' /\ (\A i \in DOMAIN x1' : x1'[i] \in Seq(Agent!Messages))
        /\ x3' \in Seq(Agent!Messages) /\ x2' \in 0..x13' /\ x4' \in 0..x13' /\ x5' \in BOOLEAN
        /\ x17' \in [1..AgentRequests -> 0..x13'] /\ x19' \subseteq 1..x13'
        /\ x12' \in 0..AgentRequests /\ x13' \in Nat
    BY <1>1, <1>2 DEF Agent!TypeOK
  <2>2. x14' \in 0..AgentOps /\ x15' \in 0..AgentFaults /\ x21' \in BOOLEAN
    BY <1>1, <1>2, Counted
  <2>3. /\ x6' \in [of : 0..x12', at : {"none", "reading", "typing"}, calls : Seq(Agent!Calls)] /\ x7' \in Seq(Agent!Events)
        /\ {x8', x10'} \subseteq AgentModes
        /\ x11' \in [of : 0..x12', turns : 0..AgentTurns, calls : Seq(AgentTools), began : AgentModes \union {"none"}]
        /\ x16' \in [1..AgentRequests -> Seq([tool : AgentTools, id : Nat, mode : AgentModes])]
    BY <1>1, <1>2 DEF Agent!TypeOK
  <2>4. x9' \subseteq {[kind |-> "chat", of |-> k, mode |-> "none"] : k \in 1..x12'}
                      \union {[kind |-> "mode", of |-> 0, mode |-> n] : n \in AgentModes}
    BY <1>1, <1>2 DEF Agent!TypeOK
  <2> QED
    BY <2>1, <2>2, <2>3, <2>4 DEF Agent!TypeOK
<1> QED
  BY <1>3, <1>4, <1>5, <1>6, <1>7, StillInv

LEMMA ReadInv == ASSUME Agent!Inv, Goes, Agent!Read PROVE Agent!Inv'
<1>1. Agent!TypeOK /\ Place /\ Mode /\ Agent!Answering /\ Agent!ServedOnce
  BY InvParts
<1>2. /\ x6' \in [of : 0..x12, at : {"reading", "typing"}, calls : Seq(Agent!Calls)] /\ x6'.of = x6.of
      /\ x7' \in Seq(Agent!Events) /\ Agent!Answering'
      /\ UNCHANGED <<Agent!page, x9, Agent!server, Agent!bounds, Agent!histories>>
  BY <1>1, ReadSteps
<1>3. Still
  BY <1>2 DEF Still, Agent!page, Agent!bounds, Agent!histories
<1>4. Mode'
  BY <1>1, <1>2 DEF Mode, Agent!ModesHold, Agent!OneMode, Agent!server, Agent!page, Agent!histories
<1>5. Agent!ServedOnce'
  BY <1>1, <1>2 DEF Agent!ServedOnce, Agent!server, Agent!bounds
<1>6. Agent!TypeOK'
  <2>1. UNCHANGED <<x12, x17, x19, x14, x15, x21, x10, x9, x11, x16>>
    BY <1>2 DEF Agent!server, Agent!bounds, Agent!histories
  <2>2. x6' \in [of : 0..x12, at : {"none", "reading", "typing"}, calls : Seq(Agent!Calls)]
    BY <1>2
  <2>3. /\ x10' \in AgentModes /\ x16' \in [1..AgentRequests -> Seq(Run)]
        /\ x9' \subseteq {[kind |-> "chat", of |-> k, mode |-> "none"] : k \in 1..x12}
                         \union {[kind |-> "mode", of |-> 0, mode |-> m] : m \in AgentModes}
        /\ x11' \in [of : 0..x12, turns : 0..AgentTurns, calls : Seq(AgentTools), began : AgentModes \union {"none"}]
        /\ x14' \in 0..AgentOps /\ x15' \in 0..AgentFaults /\ x21' \in BOOLEAN
    BY <1>1, <2>1 DEF Agent!TypeOK, Run
  <2> QED
    BY <1>1, <1>2, <2>1, <2>2, <2>3, StillTyped
<1> QED
  BY <1>2, <1>3, <1>4, <1>5, <1>6, StillInv

\* An answer is saved, with what is known of its calls.
LEMMA AnswerSaid ==
  ASSUME Agent!Inv, Goes, x6.of # 0, NEW end \in {"whole", "stopped", "error"}, NEW calls \in Seq(Agent!Calls),
         Agent!Push(Agent!Answer(x6.of, end, calls)), x6' = Agent!NoChat, x7' = <<>>,
         UNCHANGED <<x9, Agent!server, x12, Agent!histories>>, x14' \in 0..AgentOps, x15' \in 0..AgentFaults,
         end # "error" => Agent!Lists(calls, x16[x6.of]),
         end = "whole" => Len(calls) = Len(x16[x6.of]) /\ ~Agent!Pending(calls) /\ Agent!Through(x6.of)
  PROVE  Agent!Inv'
<1> DEFINE m == Agent!Answer(x6.of, end, calls)
<1>1. /\ Agent!TypeOK /\ Place /\ Agent!QuestionsStay /\ QuestionsFollowed /\ Agent!AboutAsked /\ Agent!ToolsShown /\ Agent!WholeIsThrough
      /\ Agent!ServedOnce /\ Agent!Answering /\ Mode
  BY InvParts DEF QuestionsFollowed
<1>2. UNCHANGED <<x10, x11, x16, x17, x18, x19, x20, x21>>
  BY DEF Agent!server, Agent!histories
<1>3. PICK k \in 1..AgentRequests : k = x6.of /\ k \in 1..x12
  BY <1>1, AnswerTypes
<1>4. PICK q : q = [role |-> "assistant", of |-> k, end |-> end, calls |-> calls]
  OBVIOUS
<1>5. q = m /\ q \in Agent!Messages /\ q.of = k /\ q.end = end /\ q.calls = calls
  <2>1. q = m
    BY <1>3, <1>4 DEF Agent!Answer
  <2> QED
    BY <1>4, <2>1 DEF Agent!Messages
<1>6. Agent!Push(m)
  OBVIOUS
<1> HIDE DEF m
<1>7. Place'
  BY <1>1, <1>6, PushedLogs
<1>8. Agent!QuestionsStay'
  <2>1. x12' = x12 /\ x19' = x19 /\ x17' = x17
    BY <1>2
  <2> QED
    BY <1>1, <1>6, <2>1, PushStays
<1>9. QuestionsFollowed'
  BY <1>1, <1>2, AnswerFollowed
<1>10. LogSound(<<q>>)'
  <2>1. end # "error" => Agent!Lists(calls, x16'[k])
    BY <1>2, <1>3
  <2>2. end = "whole" => Len(calls) = Len(x16'[k]) /\ ~Agent!Pending(calls) /\ Agent!Through(k)'
    BY <1>2, <1>3 DEF Agent!Through
  <2>3. DOMAIN <<q>> = {1} /\ <<q>>[1] = q
    OBVIOUS
  <2> QED
    BY <1>5, <2>1, <2>2, <2>3 DEF LogSound
<1>11. Agent!ToolsShown' /\ Agent!WholeIsThrough'
  BY <1>1, <1>5, <1>6, <1>10, PushSound
<1>12. Agent!ServedOnce'
  BY <1>1, <1>2 DEF Agent!ServedOnce
<1>13. Agent!Answering' /\ x7' \in Seq(Agent!Events)
  BY <1>1, <1>2, OtherAnswer
<1>14. Mode'
  <2>1. x8' = x8
    BY <1>6 DEF Agent!Push
  <2> QED
    BY <1>1, <1>2, <2>1 DEF Mode, Agent!ModesHold, Agent!OneMode
<1>15. Agent!TypeOK'
  <2>1. /\ DOMAIN x1' \subseteq 1..x13' /\ (\A i \in DOMAIN x1' : x1'[i] \in Seq(Agent!Messages))
        /\ x3' \in Seq(Agent!Messages) /\ x2' \in 0..x13' /\ x4' \in 0..x13' /\ x5' \in BOOLEAN
        /\ x8' \in AgentModes /\ x13' \in Nat
    BY <1>1, <1>5, <1>6, PushTyped
  <2>2. x13' = x13
    BY <1>6 DEF Agent!Push
  <2>3. /\ x17' \in [1..AgentRequests -> 0..x13'] /\ x19' \subseteq 1..x13' /\ x12' \in 0..AgentRequests /\ x10' \in AgentModes
        /\ x16' \in [1..AgentRequests -> Seq([tool : AgentTools, id : Nat, mode : AgentModes])] /\ x21' \in BOOLEAN
        /\ x9' \subseteq {[kind |-> "chat", of |-> j, mode |-> "none"] : j \in 1..x12'}
                         \union {[kind |-> "mode", of |-> 0, mode |-> n] : n \in AgentModes}
        /\ x11' \in [of : 0..x12', turns : 0..AgentTurns, calls : Seq(AgentTools), began : AgentModes \union {"none"}]
    BY <1>1, <1>2, <2>2 DEF Agent!TypeOK
  <2>4. x6' \in [of : 0..x12', at : {"none", "reading", "typing"}, calls : Seq(Agent!Calls)]
    <3>1. x12' \in Nat /\ <<>> \in Seq(Agent!Calls)
      BY <1>1, AnswerTypes, EmptySeq
    <3> QED
      BY <3>1 DEF Agent!NoChat
  <2> QED
    BY <1>13, <2>1, <2>3, <2>4 DEF Agent!TypeOK
<1> QED
  BY <1>7, <1>8, <1>9, <1>11, <1>12, <1>13, <1>14, <1>15 DEF Agent!Inv, Agent!AgentIsSound, Place,
    QuestionsFollowed, Mode

LEMMA FinishInv == ASSUME Agent!Inv, Goes, Agent!Finish PROVE Agent!Inv'
<1>1. Agent!TypeOK /\ Agent!Answering
  BY InvParts
<1>2. /\ x6.at = "typing" /\ Agent!Push(Agent!Answer(x6.of, "whole", x6.calls)) /\ x6' = Agent!NoChat
      /\ UNCHANGED <<x7, x9, Agent!server, x12, x14, x15, Agent!histories>>
  BY DEF Agent!Finish, Agent!bounds
<1>3. x7' = <<>> /\ x6.of # 0
  BY <1>1, <1>2 DEF Agent!Answering
<1>4. x14' \in 0..AgentOps /\ x15' \in 0..AgentFaults
  BY <1>1, <1>2, Counted
<1>5. PICK calls \in Seq(Agent!Calls) : calls = x6.calls
  BY <1>1, AnswerTypes
<1>6. Agent!Lists(calls, x16[x6.of]) /\ Len(calls) = Len(x16[x6.of]) /\ ~Agent!Pending(calls) /\ Agent!Through(x6.of)
  BY <1>1, <1>2, <1>5 DEF Agent!Answering
<1>7. Agent!Push(Agent!Answer(x6.of, "whole", calls))
  BY <1>2, <1>5
<1> QED
  BY <1>2, <1>3, <1>4, <1>6, <1>7, AnswerSaid

LEMMA CatchInv ==
  ASSUME Agent!Inv, Goes, NEW end \in {"stopped", "error"}, Agent!Catch(end), x14' \in 0..AgentOps, x15' \in 0..AgentFaults
  PROVE  Agent!Inv'
<1>1. Agent!TypeOK /\ Agent!Answering
  BY InvParts
<1>2. /\ x6.at = "reading" /\ Agent!Push(Agent!Answer(x6.of, end, IF end = "stopped" THEN x6.calls ELSE <<>>))
      /\ x6' = Agent!NoChat /\ x7' = <<>> /\ UNCHANGED <<x9, Agent!server, x12, Agent!histories>>
  BY DEF Agent!Catch
<1>3. x6.of # 0
  BY <1>1, <1>2 DEF Agent!Answering
<1>4. PICK calls : calls = IF end = "stopped" THEN x6.calls ELSE <<>>
  OBVIOUS
<1>5. calls \in Seq(Agent!Calls)
  BY <1>1, <1>4, AnswerTypes, EmptySeq
<1>6. end # "error" => Agent!Lists(calls, x16[x6.of])
  BY <1>1, <1>2, <1>4 DEF Agent!Answering
<1>7. Agent!Push(Agent!Answer(x6.of, end, calls))
  BY <1>2, <1>4
<1>8. end # "whole" /\ end \in {"whole", "stopped", "error"}
  OBVIOUS
<1> QED
  BY <1>2, <1>3, <1>5, <1>6, <1>7, <1>8, AnswerSaid

LEMMA SendInv == ASSUME Agent!Inv, Goes, Agent!Send PROVE Agent!Inv'
<1> DEFINE m == Agent!Question(x12 + 1)
<1>1. /\ Agent!TypeOK /\ Place /\ Agent!QuestionsStay /\ QuestionsFollowed /\ Agent!AboutAsked /\ Agent!ToolsShown /\ Agent!WholeIsThrough
      /\ Agent!ServedOnce /\ Agent!Answering /\ Mode
  BY InvParts DEF QuestionsFollowed
<1>2. /\ x12 < AgentRequests /\ x12' = x12 + 1 /\ Agent!Push(m)
      /\ x9' = x9 \union {[kind |-> "chat", of |-> x12 + 1, mode |-> "none"]}
      /\ x17' = [x17 EXCEPT ![x12 + 1] = x2]
      /\ UNCHANGED <<x10, x11, x16, x14, x15, x18, x19, x20, x21>>
  BY DEF Agent!Send, Agent!server
<1>3. x12 \in 0..AgentRequests /\ AgentRequests \in Nat
  BY <1>1, AnswerTypes
<1>4. PICK q : q = [role |-> "user", of |-> x12 + 1, end |-> "whole", calls |-> <<>>]
  OBVIOUS
<1>5. q = m /\ q \in Agent!Messages /\ q.role = "user"
  <2>1. <<>> \in Seq(Agent!Calls) /\ x12 + 1 \in 1..AgentRequests
    BY <1>2, <1>3, EmptySeq
  <2>2. q = m
    BY <1>4 DEF Agent!Question
  <2> QED
    BY <1>4, <2>1, <2>2 DEF Agent!Messages
<1>6. Agent!Push(m) /\ m = Agent!Question(x12 + 1)
  BY <1>2
<1> HIDE DEF m
<1>7. Place'
  BY <1>1, <1>6, PushedLogs
<1>8. Agent!QuestionsStay'
  <2>1. x19' = x19 /\ x12' \in {x12, x12 + 1} /\ x12' # x12
    BY <1>2, <1>3
  <2>2. x17' = IF x12' = x12 THEN x17 ELSE [x17 EXCEPT ![x12 + 1] = x2]
    BY <1>2, <2>1
  <2> QED
    BY <1>1, <1>2, <1>6, <2>1, <2>2, PushStays
<1>9. QuestionsFollowed'
  BY <1>1, SendFollowed
<1>10. LogSound(<<q>>)'
  <2>1. DOMAIN <<q>> = {1} /\ <<q>>[1] = q
    OBVIOUS
  <2> QED
    BY <1>5, <2>1 DEF LogSound
<1>11. Agent!ToolsShown' /\ Agent!WholeIsThrough'
  BY <1>1, <1>5, <1>6, <1>10, PushSound
<1>12. Agent!ServedOnce'
  <2>1. PICK r : r = [kind |-> "chat", of |-> x12 + 1, mode |-> "none"]
    OBVIOUS
  <2>2. x9' = x9 \union {r} /\ r.of = x12 + 1
    BY <1>2, <2>1
  <2> QED
    BY <1>1, <1>2, <2>2, AddServed
<1>13. /\ Agent!Answering' /\ x7' \in Seq(Agent!Events) /\ x12' \in 0..AgentRequests
       /\ x6' \in [of : 0..x12', at : {"none", "reading", "typing"}, calls : Seq(Agent!Calls)]
  BY <1>1, SendAnswer
<1>14. Mode'
  <2>1. x8' = x8
    BY <1>6 DEF Agent!Push
  <2>2. PICK r : r = [kind |-> "chat", of |-> x12 + 1, mode |-> "none"]
    OBVIOUS
  <2>3. x9' = x9 \union {r} /\ r.kind # "mode"
    BY <1>2, <2>2
  <2>4. \A s : s.kind = "mode" => (s \in x9' <=> s \in x9)
    BY <2>3
  <2> QED
    BY <1>1, <1>2, <2>1, <2>3, <2>4 DEF Mode, Agent!ModesHold, Agent!OneMode
<1>15. Agent!TypeOK'
  <2>1. /\ DOMAIN x1' \subseteq 1..x13' /\ (\A i \in DOMAIN x1' : x1'[i] \in Seq(Agent!Messages))
        /\ x3' \in Seq(Agent!Messages) /\ x2' \in 0..x13' /\ x4' \in 0..x13' /\ x5' \in BOOLEAN
        /\ x8' \in AgentModes /\ x13' \in Nat
    BY <1>1, <1>5, <1>6, PushTyped
  <2>2. x13' = x13
    BY <1>6 DEF Agent!Push
  <2>3. /\ x19' \subseteq 1..x13' /\ x10' \in AgentModes /\ x14' \in 0..AgentOps /\ x15' \in 0..AgentFaults
        /\ x16' \in [1..AgentRequests -> Seq([tool : AgentTools, id : Nat, mode : AgentModes])] /\ x21' \in BOOLEAN
    BY <1>1, <1>2, <2>2 DEF Agent!TypeOK
  <2>4. x17' \in [1..AgentRequests -> 0..x13']
    <3>1. x17 \in [1..AgentRequests -> 0..x13] /\ x2 \in 0..x13
      BY <1>1 DEF Agent!TypeOK
    <3> QED
      BY <1>2, <2>2, <3>1
  <2>5. x11' \in [of : 0..x12', turns : 0..AgentTurns, calls : Seq(AgentTools), began : AgentModes \union {"none"}]
    <3>1. x11 \in [of : 0..x12, turns : 0..AgentTurns, calls : Seq(AgentTools), began : AgentModes \union {"none"}]
      BY <1>1, LoopTypes
    <3>2. 0..x12 \subseteq 0..x12'
      BY <1>2, <1>3
    <3>3. x11 \in [of : 0..x12', turns : 0..AgentTurns, calls : Seq(AgentTools), began : AgentModes \union {"none"}]
      BY ONLY <3>1, <3>2
    <3> QED
      BY <1>2, <3>3
  <2>6. x9' \subseteq {[kind |-> "chat", of |-> j, mode |-> "none"] : j \in 1..x12'}
                      \union {[kind |-> "mode", of |-> 0, mode |-> n] : n \in AgentModes}
    <3>1. x9 \subseteq {[kind |-> "chat", of |-> j, mode |-> "none"] : j \in 1..x12}
                      \union {[kind |-> "mode", of |-> 0, mode |-> n] : n \in AgentModes}
      BY <1>1 DEF Agent!TypeOK
    <3>2. 1..x12 \subseteq 1..x12' /\ x12 + 1 \in 1..x12'
      BY <1>2, <1>3
    <3> QED
      BY ONLY <1>2, <3>1, <3>2
  <2> QED
    BY <1>13, <2>1, <2>3, <2>4, <2>5, <2>6 DEF Agent!TypeOK
<1> QED
  BY <1>7, <1>8, <1>9, <1>11, <1>12, <1>13, <1>14, <1>15 DEF Agent!Inv, Agent!AgentIsSound, Place,
    QuestionsFollowed, Mode

LEMMA ServeInv == ASSUME Agent!Inv, Goes, Agent!Serve PROVE Agent!Inv'
<1>1. Agent!TypeOK /\ Place /\ Mode /\ Agent!Answering /\ Agent!ServedOnce
  BY InvParts
<1>2. UNCHANGED <<Agent!page, x6, x7, x16, Agent!bounds, Agent!histories>>
  BY DEF Agent!Serve
<1>3. Still
  BY <1>2 DEF Still, Agent!page, Agent!bounds, Agent!histories
<1>4. Mode'
  BY <1>1, ServeMode
<1>5. Agent!Answering' /\ x7' \in Seq(Agent!Events)
  BY <1>1, <1>2, OtherAnswer
<1>6. Agent!ServedOnce'
  BY <1>1, ServeServed
<1>7. Agent!TypeOK'
  <2>1. PICK r \in x9 : /\ x11.of = 0 /\ x9' = x9 \ {r}
                        /\ IF r.kind = "mode" THEN x10' = r.mode /\ UNCHANGED x11
                           ELSE x11' = [Agent!NoLoop EXCEPT !.of = r.of, !.began = x10] /\ UNCHANGED x10
    BY DEF Agent!Serve, Agent!Free
  <2>2. /\ x10 \in AgentModes /\ x16 \in [1..AgentRequests -> Seq(Run)]
        /\ x9 \subseteq {[kind |-> "chat", of |-> k, mode |-> "none"] : k \in 1..x12}
                         \union {[kind |-> "mode", of |-> 0, mode |-> m] : m \in AgentModes}
        /\ x11 \in [of : 0..x12, turns : 0..AgentTurns, calls : Seq(AgentTools), began : AgentModes \union {"none"}]
        /\ x6 \in [of : 0..x12, at : {"none", "reading", "typing"}, calls : Seq(Agent!Calls)]
    BY <1>1 DEF Agent!TypeOK, Run
  <2>3. x9' \subseteq {[kind |-> "chat", of |-> k, mode |-> "none"] : k \in 1..x12}
                         \union {[kind |-> "mode", of |-> 0, mode |-> m] : m \in AgentModes}
    BY <2>1, <2>2
  <2>4. CASE r.kind = "mode"
    <3>1. x10' \in AgentModes /\ x11' = x11
      BY <1>1, <2>1, <2>4, WaitingTypes
    <3>2. UNCHANGED <<Agent!page, x12, x17, x19, x16, x6, x7, x14, x15, x21>>
      BY <1>2 DEF Agent!bounds, Agent!histories
    <3> QED
      BY <1>1, <1>5, <2>2, <2>3, <3>1, <3>2, Counted, StillTyped
  <2>5. CASE r.kind # "mode"
    <3>1. r.of \in 1..x12 /\ x10' = x10
      BY <1>1, <2>1, <2>5, WaitingTypes
    <3>2. x11' = [of |-> r.of, turns |-> 0, calls |-> <<>>, began |-> x10]
      BY <2>1, <2>5 DEF Agent!NoLoop
    <3>3. x12 \in 0..AgentRequests /\ AgentRequests \in Nat /\ <<>> \in Seq(AgentTools) /\ 0 \in 0..AgentTurns
      BY <1>1, AnswerTypes, EmptySeq, Bounds
    <3>4. x11' \in [of : 0..x12, turns : 0..AgentTurns, calls : Seq(AgentTools), began : AgentModes \union {"none"}]
      BY ONLY <2>2, <3>1, <3>2, <3>3
    <3>5. UNCHANGED <<Agent!page, x12, x17, x19, x16, x6, x7, x14, x15, x21>>
      BY <1>2 DEF Agent!bounds, Agent!histories
    <3> QED
      BY <1>1, <1>5, <2>2, <2>3, <3>1, <3>4, <3>5, Counted, StillTyped
  <2> QED
    BY <2>4, <2>5
<1> QED
  BY <1>3, <1>4, <1>5, <1>6, <1>7, StillInv

\* A step of the loop, of which the server has told what it had to.
LEMMA LoopInv ==
  ASSUME Agent!Inv, Goes, UNCHANGED <<Agent!page, x6, x9, x10, Agent!bounds, Agent!histories>>, Agent!Answering', x7' \in Seq(Agent!Events),
         x11' \in [of : 0..x12, turns : 0..AgentTurns, calls : Seq(AgentTools), began : AgentModes \union {"none"}],
         x11'.of = 0 \/ (x11'.of = x11.of /\ x11'.began = x11.began),
         x16' = x16 \/ (x11.of # 0 /\ \E x \in Run : x.mode = x10 /\ x16' = [x16 EXCEPT ![x11.of] = Append(x16[x11.of], x)])
  PROVE  Agent!Inv'
<1>1. Agent!TypeOK /\ Place /\ Mode /\ Agent!Answering /\ Agent!ServedOnce
  BY InvParts
<1>2. UNCHANGED <<Agent!page, x12, x17, x19, x6, x14, x15, x21, x8, x10, x9>>
  BY DEF Agent!page, Agent!bounds, Agent!histories
<1>3. Still
  BY <1>2 DEF Still, Agent!page, Agent!histories
<1>4. Mode'
  BY <1>1, <1>2, ModeStays
<1>5. Agent!ServedOnce'
  BY <1>1, <1>2, OthersServed
<1>6. x16' \in [1..AgentRequests -> Seq(Run)]
  <2>1. x16 \in [1..AgentRequests -> Seq(Run)]
    BY <1>1, RanTypes
  <2>2. ASSUME x11.of # 0, NEW x \in Run, x16' = [x16 EXCEPT ![x11.of] = Append(x16[x11.of], x)]
        PROVE  x16' \in [1..AgentRequests -> Seq(Run)]
    <3>1. PICK d : d = x16[x11.of]
      OBVIOUS
    <3>2. x11.of \in 1..AgentRequests
      BY <1>1, <2>2, LoopTypes, AnswerTypes
    <3>3. d \in Seq(Run)
      BY <2>1, <3>1, <3>2
    <3>4. Append(d, x) \in Seq(Run)
      BY <3>3, AppendProperties
    <3>5. x16' = [x16 EXCEPT ![x11.of] = Append(d, x)]
      BY <2>2, <3>1
    <3> QED
      BY ONLY <2>1, <3>4, <3>5
  <2> QED
    BY <2>1, <2>2
<1>7. Agent!TypeOK'
  <2>1. /\ x6' \in [of : 0..x12, at : {"none", "reading", "typing"}, calls : Seq(Agent!Calls)]
        /\ x10' \in AgentModes
        /\ x9' \subseteq {[kind |-> "chat", of |-> k, mode |-> "none"] : k \in 1..x12}
                         \union {[kind |-> "mode", of |-> 0, mode |-> m] : m \in AgentModes}
    BY <1>1, <1>2 DEF Agent!TypeOK
  <2> QED
    BY <1>1, <1>2, <1>6, <2>1, Counted, StillTyped
<1> QED
  BY <1>3, <1>4, <1>5, <1>7, StillInv

LEMMA NoLoopTyped ==
  Agent!TypeOK => /\ Agent!NoLoop \in [of : 0..x12, turns : 0..AgentTurns, calls : Seq(AgentTools), began : AgentModes \union {"none"}]
                  /\ Agent!NoLoop.of = 0
<1> SUFFICES ASSUME Agent!TypeOK
             PROVE  /\ Agent!NoLoop \in [of : 0..x12, turns : 0..AgentTurns, calls : Seq(AgentTools), began : AgentModes \union {"none"}]
                    /\ Agent!NoLoop.of = 0
  OBVIOUS
<1>1. x12 \in Nat /\ AgentTurns \in Nat /\ <<>> \in Seq(AgentTools)
  BY AnswerTypes, EmptySeq, Bounds
<1> QED
  BY <1>1 DEF Agent!NoLoop

LEMMA AskInv == ASSUME Agent!Inv, Goes, Agent!Ask PROVE Agent!Inv'
<1>1. Agent!TypeOK /\ Agent!Answering /\ Agent!ServedOnce
  BY InvParts
<1>2. Agent!Answering' /\ x7' \in Seq(Agent!Events)
  BY <1>1, AskAnswer
<1> QED
  BY <1>1, <1>2, AskSteps, NoLoopTyped, LoopInv

LEMMA LimitInv == ASSUME Agent!Inv, Goes, Agent!Limit PROVE Agent!Inv'
<1>1. Agent!TypeOK /\ Agent!Answering /\ Agent!ServedOnce
  BY InvParts
<1>2. /\ x11.of # 0 /\ UNCHANGED <<Agent!page, x6, x9, x10, x16, Agent!bounds, Agent!histories>>
      /\ Agent!Tell(<<Agent!Plain("error")>> \o <<Agent!Plain("done"), Agent!Plain("end")>>) /\ x11' = Agent!NoLoop
  BY LimitSteps
<1>3. UNCHANGED <<x6, x9, x12, x16>>
  BY <1>2 DEF Agent!bounds
<1>4. Agent!Answering' /\ x7' \in Seq(Agent!Events)
  BY <1>1, <1>2, <1>3, OverAnswer
<1> QED
  BY <1>1, <1>2, <1>4, NoLoopTyped, LoopInv

LEMMA RunInv == ASSUME Agent!Inv, Goes, Agent!RunCall PROVE Agent!Inv'
<1>1. Agent!TypeOK /\ Agent!Answering /\ Agent!ServedOnce
  BY InvParts
<1>2. Agent!Answering' /\ x7' \in Seq(Agent!Events)
  BY <1>1, RunAnswer
<1>3. /\ x11.of # 0 /\ UNCHANGED <<Agent!page, x6, x9, x10, Agent!bounds, Agent!histories>>
      /\ x11'.of = x11.of /\ x11'.began = x11.began
      /\ x11' \in [of : 0..x12, turns : 0..AgentTurns, calls : Seq(AgentTools), began : AgentModes \union {"none"}]
      /\ \E x \in Run : x.mode = x10 /\ x16' = [x16 EXCEPT ![x11.of] = Append(x16[x11.of], x)]
  BY <1>1, RunSteps
<1> QED
  BY <1>2, <1>3, LoopInv

\* The invariant is inductive: one case for each action.
LEMMA NextInv == Agent!Inv /\ [Agent!Next]_(Agent!vars) => Agent!Inv'
<1> SUFFICES ASSUME Agent!Inv, [Agent!Next]_(Agent!vars) PROVE Agent!Inv'
  OBVIOUS
<1>1. Goes
  BY InvParts, GoesOn
<1>2. Agent!TypeOK
  BY InvParts
<1>3. CASE Agent!Send
  BY <1>1, <1>3, SendInv
<1>4. CASE Agent!Read
  BY <1>1, <1>4, ReadInv
<1>5. CASE Agent!Finish
  BY <1>1, <1>5, FinishInv
<1>6. CASE Agent!Stop
  <2>1. Agent!Catch("stopped") /\ x14' \in 0..AgentOps /\ x15' \in 0..AgentFaults
    BY <1>2, <1>6, Counted DEF Agent!Stop
  <2> QED
    BY <1>1, <2>1, CatchInv
<1>7. CASE Agent!Breaks
  <2>1. Agent!Catch("error") /\ x14' \in 0..AgentOps /\ x15' \in 0..AgentFaults
    BY <1>2, <1>7, Counted DEF Agent!Breaks
  <2> QED
    BY <1>1, <2>1, CatchInv
<1>8. CASE Agent!newChat
  BY <1>1, <1>8, NewChatInv
<1>9. CASE Agent!Reload
  BY <1>1, <1>9, ReloadInv
<1>10. CASE Agent!Started
  BY <1>1, <1>10, StartedInv
<1>11. ASSUME NEW id \in DOMAIN x1, Agent!loadChat(id) \/ Agent!deleteChat(id) PROVE Agent!Inv'
  BY <1>1, <1>11, LoadChatInv, DeleteChatInv
<1>12. ASSUME NEW m \in AgentModes, Agent!selectPermission(m) PROVE Agent!Inv'
  BY <1>1, <1>12, SelectInv
<1>13. CASE Agent!Serve
  BY <1>1, <1>13, ServeInv
<1>14. CASE Agent!Ask
  BY <1>1, <1>14, AskInv
<1>15. CASE Agent!RunCall
  BY <1>1, <1>15, RunInv
<1>16. CASE Agent!Limit
  BY <1>1, <1>16, LimitInv
<1>17. CASE UNCHANGED Agent!vars
  <2>1. UNCHANGED <<x1, x2, x3, x4, x5, x6, x7, x8, x9, x10, x11,
          x12, x13, x14, x15, x16, x17, x18, x19, x20, x21>>
    BY <1>17 DEF Agent!vars
  <2>2. UNCHANGED <<Agent!page, x6, x9, x10, Agent!bounds, Agent!histories, x11, x16, x7, x12>>
    BY <2>1 DEF Agent!page, Agent!bounds, Agent!histories
  <2>3. Agent!Answering' /\ x7' \in Seq(Agent!Events)
    BY <1>1, <2>2, InvParts, OtherAnswer
  <2>4. x11' \in [of : 0..x12, turns : 0..AgentTurns, calls : Seq(AgentTools), began : AgentModes \union {"none"}]
    BY <1>2, <2>2, LoopTypes
  <2> QED
    BY <1>1, <2>2, <2>3, <2>4, LoopInv
<1> QED
  BY <1>3, <1>4, <1>5, <1>6, <1>7, <1>8, <1>9, <1>10, <1>11, <1>12, <1>13, <1>14, <1>15, <1>16,
    <1>17 DEF Agent!Next

-----------------------------------------------------------------------------
(* The promises of AgentChat: what is shown is saved, answers stay with    *)
(* their questions and list what was run, under the mode that was shown.   *)
THEOREM AgentCorrect == ProgramSpec => []AgentIsSound
<1>1. ProgramInit /\ part = "agent" => Agent!Inv
  BY InitInv DEF ProgramInit
<1>2. part = "agent" /\ [ProgramNext]_all => (part = "agent")' /\ [Agent!Next]_(Agent!vars)
  BY DEF ProgramNext, all, Agent!vars
<1>3. ~(part = "agent") /\ [ProgramNext]_all => (~(part = "agent"))'
  BY DEF ProgramNext, all, from18, from16, from15, from14, from13, from11, from10
<1>4. part = "agent" /\ Agent!Inv => AgentIsSound
  BY DEF Agent!Inv, AgentIsSound
<1>5. ~(part = "agent") => AgentIsSound
  BY DEF AgentIsSound
<1> QED
  BY <1>1, <1>2, <1>3, <1>4, <1>5, NextInv, PTL DEF ProgramSpec
===============================================================================
