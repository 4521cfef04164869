---------------------------- MODULE ProcessesProofs ----------------------------
(***************************************************************************)
(* The promises of the components of Processes, for every value of their   *)
(* constants.  The part never changes, so that a behaviour is one of its   *)
(* component from the beginning on, or never one.                          *)
(*                                                                         *)
(* All but the manager of the MCP servers are proved about here.  Of that, *)
(* Processes instantiates the component, and this module the proofs, with  *)
(* the same substitutions; the lemmas that begin with Same say that what   *)
(* the two instances call by one name is one thing.                        *)
(***************************************************************************)
EXTENDS Processes, TLAPS, SequenceTheorems

ServerProof ==
  INSTANCE McpManagerProofs WITH
    process <- x1, initialized <- x2, toolIndex <- x3, nextId <- x4, op <- x5, last <- x6,
    ran <- x7, program <- x8, orphans <- x9, faults <- x10, kills <- x11, ops <- x12

-----------------------------------------------------------------------------
(* The hook.                                                               *)

LEMMA HookInit == Hooks!Init => Hooks!Inv
<1> SUFFICES ASSUME Hooks!Init PROVE Hooks!Inv
  OBVIOUS
<1>1. x3 \in Hooks!Script
  BY Zenon DEF Hooks!Init
<1>2. 0 \in 0..HookPipe
  BY ProcessesAssumption
<1>3. Hooks!TypeOK
  BY <1>1, <1>2, Zenon DEF Hooks!Init, Hooks!TypeOK
<1> QED
  BY <1>3 DEF Hooks!Init, Hooks!Inv, Hooks!Undecided, Hooks!Source, Hooks!OnlyRuntimeAborts

\* A step of the child leaves the verdict and the way its script ends.
LEMMA HookChild == Hooks!Inv /\ Hooks!Child => Hooks!Inv'
<1> SUFFICES ASSUME Hooks!Inv, Hooks!Child PROVE Hooks!Inv'
  OBVIOUS
<1>1. x3'.code = x3.code /\ x3'.deny = x3.deny
  BY DEF Hooks!Inv, Hooks!TypeOK, Hooks!Script, Hooks!Child, Hooks!ChildReads, Hooks!ChildWrites,
         Hooks!ChildExits
<1>2. UNCHANGED <<x1, x7, x8, x9>> /\ x6 = "running" /\ x6' \in {"running", "exited"}
  BY DEF Hooks!Child, Hooks!ChildReads, Hooks!ChildWrites, Hooks!ChildExits
<1>3. Hooks!TypeOK'
  <2> USE ProcessesAssumption DEF Hooks!Inv, Hooks!TypeOK
  <2>1. CASE Hooks!ChildReads
    BY <2>1 DEF Hooks!ChildReads, Hooks!Script
  <2>2. CASE Hooks!ChildWrites
    BY <2>2 DEF Hooks!ChildWrites, Hooks!Script
  <2>3. CASE Hooks!ChildExits
    BY <2>3 DEF Hooks!ChildExits
  <2> QED
    BY <2>1, <2>2, <2>3 DEF Hooks!Child
<1> QED
  BY <1>1, <1>2, <1>3
     DEF Hooks!Inv, Hooks!Undecided, Hooks!Source, Hooks!OnlyRuntimeAborts, Hooks!OutcomeOf

\* A step of the parent ends the wait with the child's verdict, or without it.
LEMMA HookParent == Hooks!Inv /\ Hooks!Parent => Hooks!Inv'
<1> SUFFICES ASSUME Hooks!Inv, Hooks!Parent PROVE Hooks!Inv'
  OBVIOUS
<1> USE ProcessesAssumption
    DEF Hooks!Inv, Hooks!TypeOK, Hooks!Undecided, Hooks!Source, Hooks!OnlyRuntimeAborts
<1>1. CASE Hooks!Write
  BY <1>1 DEF Hooks!Write
<1>2. CASE Hooks!BrokenPipe
  BY <1>2 DEF Hooks!BrokenPipe
<1>3. CASE Hooks!Written
  BY <1>3 DEF Hooks!Written
<1>4. CASE Hooks!Drain
  BY <1>4 DEF Hooks!Drain
<1>5. CASE Hooks!Reap
  BY <1>5 DEF Hooks!Reap
<1>6. CASE Hooks!Finished
  BY <1>6 DEF Hooks!Finished, Hooks!PipesAtEnd, Hooks!OutcomeOf
<1>7. CASE Hooks!Cancel
  BY <1>7 DEF Hooks!Cancel
<1>8. CASE Hooks!Cancelled
  BY <1>8 DEF Hooks!Cancelled
<1> QED
  BY <1>1, <1>2, <1>3, <1>4, <1>5, <1>6, <1>7, <1>8 DEF Hooks!Parent

LEMMA HookStep == Hooks!Inv /\ [Hooks!Next]_(Hooks!vars) => Hooks!Inv'
<1> SUFFICES ASSUME Hooks!Inv, [Hooks!Next]_(Hooks!vars) PROVE Hooks!Inv'
  OBVIOUS
<1> USE DEF Hooks!Inv, Hooks!TypeOK, Hooks!Undecided, Hooks!Source, Hooks!OnlyRuntimeAborts
<1>1. CASE Hooks!Abort
  BY <1>1 DEF Hooks!Abort
<1>2. CASE UNCHANGED Hooks!vars
  BY <1>2 DEF Hooks!vars, Hooks!OutcomeOf
<1>3. CASE Hooks!ChildForks
  BY <1>3 DEF Hooks!ChildForks
<1>4. CASE Hooks!HeirEnds
  BY <1>4 DEF Hooks!HeirEnds, Hooks!OutcomeOf
<1> QED
  BY <1>1, <1>2, <1>3, <1>4, HookChild, HookParent DEF Hooks!Next

\* HookProcess: a tool goes ahead only after a hook that ended with 0 and, where the copy of
\* the code reads decisions, did not block it; the plugins' copy lets it after every such end.
THEOREM VerdictsCorrect == AllSafety => []VerdictsRight
<1>1. AllInit /\ part = "hooks" => Hooks!Inv
  BY HookInit DEF AllInit
<1>2. part = "hooks" /\ [AllNext]_all => (part = "hooks")' /\ [Hooks!Next]_(Hooks!vars)
  BY DEF AllNext, all, from11, Hooks!vars
<1>3. ~(part = "hooks") /\ [AllNext]_all => (~(part = "hooks"))'
  BY DEF AllNext, all, from11, from9
<1>4. Hooks!Inv => VerdictsRight
  BY DEF Hooks!Inv, Hooks!TypeOK, Hooks!Script, Hooks!Source, Hooks!Undecided, Hooks!OnlyRuntimeAborts,
         Hooks!OutcomeOf, VerdictsRight, Hooks!VerdictsRight, Hooks!AllowNeedsCleanExit,
         Hooks!PluginsCleanExitAllows
<1>5. ~(part = "hooks") => VerdictsRight
  BY DEF VerdictsRight
<1> QED
  BY <1>1, <1>2, <1>3, <1>4, <1>5, HookStep, PTL DEF AllSafety

-----------------------------------------------------------------------------
(* The sub-agents.                                                         *)

(* Inv of SubAgents says for each agent how far its two files are at each  *)
(* step of its thread.  A step of one agent leaves the others as they are, *)
(* so that it is enough to show what it makes of its own (SubMoved).       *)

LEMMA LastAppended ==
  ASSUME NEW S, NEW s \in Seq(S), NEW e \in S
  PROVE  Append(s, e) \in Seq(S) /\ Append(s, e) # <<>> /\ Subs!Last(Append(s, e)) = e
<1>1. Append(s, e) \in Seq(S) /\ Append(s, e) # <<>>
  BY AppendProperties
<1>2. Len(Append(s, e)) = Len(s) + 1 /\ Append(s, e)[Len(s) + 1] = e
  BY AppendProperties
<1> QED
  BY <1>1, <1>2 DEF Subs!Last

LEMMA LastIsThere ==
  ASSUME NEW S, NEW s \in Seq(S), s # <<>>
  PROVE  Subs!Last(s) \in Subs!ToSet(s)
<1>1. Len(s) \in Nat /\ Len(s) # 0 /\ DOMAIN s = 1..Len(s)
  BY EmptySeq, LenProperties
<1>2. Len(s) \in DOMAIN s
  BY <1>1
<1> QED
  BY <1>2 DEF Subs!Last, Subs!ToSet

-----------------------------------------------------------------------------
(* The manifests, and what the invariant says of them.                     *)

LEMMA SubManifests ==
  /\ Subs!NoManifest.status = "none" /\ Subs!Cut.status = "cut" /\ Subs!Running.status = "running"
  /\ \A m \in {Subs!NoManifest, Subs!Cut, Subs!Running} : m.error = FALSE /\ m.blocker = FALSE
  /\ \A a : /\ Subs!Terminal(a).status = x3[a].status
            /\ Subs!Terminal(a).error = x3[a].error /\ Subs!Terminal(a).blocker = x3[a].error
            /\ Subs!Terminal(a).events = <<"started">> \o Subs!EndEvents(a)
BY DEF Subs!NoManifest, Subs!Cut, Subs!Running, Subs!Terminal

LEMMA OneBeforeOne == ASSUME NEW d, NEW e PROVE <<d>> \o <<e>> = <<d, e>>
<1> DEFINE s == <<d>>
           t == <<e>>
           S == {d, e}
<1>1. s \in Seq(S) /\ t \in Seq(S) /\ <<d, e>> \in Seq(S) /\ Len(s) = 1 /\ Len(t) = 1 /\ s[1] = d /\ t[1] = e
  OBVIOUS
<1> HIDE DEF s, t, S
<1>2. s \o t \in Seq(S) /\ Len(s \o t) = 2 /\ (s \o t)[1] = d /\ (s \o t)[2] = e
  BY <1>1, ConcatProperties
<1>3. Len(<<d, e>>) = 2 /\ \A i \in 1..2 : (s \o t)[i] = <<d, e>>[i]
  BY <1>2
<1> QED
  BY <1>1, <1>2, <1>3, SeqEqual DEF s, t

LEMMA OneBeforeTwo == ASSUME NEW d, NEW e, NEW f PROVE <<d>> \o <<e, f>> = <<d, e, f>>
<1> DEFINE s == <<d>>
           t == <<e, f>>
           S == {d, e, f}
<1>1. s \in Seq(S) /\ t \in Seq(S) /\ <<d, e, f>> \in Seq(S) /\ Len(s) = 1 /\ Len(t) = 2
      /\ s[1] = d /\ t[1] = e /\ t[2] = f
  OBVIOUS
<1> HIDE DEF s, t, S
<1>2. /\ s \o t \in Seq(S) /\ Len(s \o t) = 3
      /\ (s \o t)[1] = d /\ (s \o t)[2] = e /\ (s \o t)[3] = f
  <2>1. /\ s \o t \in Seq(S) /\ Len(s \o t) = Len(s) + Len(t)
        /\ \A i \in 1..(Len(s) + Len(t)) : (s \o t)[i] = IF i <= Len(s) THEN s[i] ELSE t[i - Len(s)]
    BY <1>1, ConcatProperties, ZenonT(40)
  <2>2. 1 \in 1..3 /\ 2 \in 1..3 /\ 3 \in 1..3 /\ 2 - 1 = 1 /\ 3 - 1 = 2 /\ 1 + 2 = 3 /\ 1 <= 1 /\ ~(2 <= 1) /\ ~(3 <= 1)
    OBVIOUS
  <2> QED
    BY <1>1, <2>1, <2>2
<1>3. Len(<<d, e, f>>) = 3 /\ \A i \in 1..3 : (s \o t)[i] = <<d, e, f>>[i]
  BY <1>2
<1> QED
  BY <1>1, <1>2, <1>3, SeqEqual DEF s, t

LEMMA SubEvents ==
  /\ <<"started">> \o <<"finished">> = <<"started", "finished">>
  /\ <<"started">> \o <<"finished", "commit.created">> = <<"started", "finished", "commit.created">>
  /\ <<"started">> \o <<"blocked", "failed">> = <<"started", "blocked", "failed">>
BY OneBeforeOne, OneBeforeTwo

\* The invariant has the promises of SubAgents in it.
LEMMA SubInvSound == Subs!Inv => Subs!TypeOK /\ Subs!AgentsSound
<1> SUFFICES ASSUME Subs!Inv, NEW a \in Agents
             PROVE  Subs!OneStory(a) /\ Subs!CompletedIsTrue(a) /\ Subs!AnswerIsFound(a) /\ Subs!ClosedIsDone(a)
  BY DEF Subs!Inv, Subs!AgentsSound
<1>1. /\ Subs!EndingIsRight(a) /\ Subs!ManifestIsRight(a) /\ Subs!NothingLost(a)
      /\ x3[a] \in Subs!Ending /\ x4[a] \in Subs!Sections
      /\ x1[a] \in {"new", "spawn", "run", "append", "rewrite", "end"}
  BY DEF Subs!Inv, Subs!TypeOK
<1>2. CASE x5[a] \in {Subs!NoManifest, Subs!Cut, Subs!Running}
  <2>1. x5[a].status \notin {"completed", "failed"} /\ x5[a].error = FALSE /\ x5[a].blocker = FALSE
    BY <1>2, SubManifests
  <2>2. Subs!OneStory(a) /\ Subs!CompletedIsTrue(a) /\ Subs!ClosedIsDone(a)
    BY <2>1 DEF Subs!OneStory, Subs!CompletedIsTrue, Subs!ClosedIsDone, Subs!detect_lane_completion
  <2>3. Subs!AnswerIsFound(a)
    BY <1>1, SubManifests DEF Subs!NothingLost, Subs!AnswerIsFound, Subs!Rewritten
  <2> QED
    BY <2>2, <2>3
<1>3. CASE x1[a] = "end" /\ Subs!Rewritten(a) /\ Subs!Appended(a)
  <2>1. /\ x5[a].status = x3[a].status /\ x5[a].error = x3[a].error
        /\ x5[a].blocker = x3[a].error
    BY <1>3, SubManifests DEF Subs!Rewritten
  <2>2. x3[a].status \in {"completed", "failed"}
    BY <1>1, <1>3 DEF Subs!Ending, Subs!Rewritten
  <2>3. Subs!OneStory(a)
    <3>0. x5[a].events = <<"started">> \o Subs!EndEvents(a) /\ (x3[a].error <=> x3[a].status = "failed")
      BY <1>1, <1>3, SubManifests DEF Subs!Rewritten, Subs!EndingIsRight
    <3>1. x3[a].status = "completed" =>
            x5[a].events = IF x2[a] = "commit" THEN <<"started", "finished", "commit.created">>
                           ELSE <<"started", "finished">>
      BY <3>0, SubEvents, Zenon DEF Subs!EndEvents
    <3>2. x3[a].status = "failed" => x5[a].events = <<"started", "blocked", "failed">>
      BY <3>0, SubEvents, Zenon DEF Subs!EndEvents
    <3> QED
      BY <1>1, <2>1, <2>2, <3>1, <3>2 DEF Subs!OneStory, Subs!EndingIsRight
  <2>4. Subs!CompletedIsTrue(a)
    BY <1>1, <1>3, <2>1, LastIsThere DEF Subs!CompletedIsTrue, Subs!Appended, Subs!EndingIsRight, Subs!Sections
  <2>5. Subs!AnswerIsFound(a) /\ Subs!ClosedIsDone(a)
    BY <1>1, <1>3, <2>1 DEF Subs!AnswerIsFound, Subs!ClosedIsDone, Subs!detect_lane_completion, Subs!EndingIsRight
  <2> QED
    BY <2>3, <2>4, <2>5
<1> QED
  BY <1>1, <1>2, <1>3 DEF Subs!ManifestIsRight

-----------------------------------------------------------------------------
(* One step of one agent.                                                  *)

LEMMA SubInitInv == Subs!Init => Subs!Inv
<1> SUFFICES ASSUME Subs!Init PROVE Subs!Inv
  OBVIOUS
<1>1. Subs!NoEnding \in Subs!Ending /\ Subs!NoEnding.status = "none" /\ Subs!NoEnding.error = FALSE /\ <<>> \in Subs!Sections
  BY DEF Subs!NoEnding, Subs!Ending, Subs!Sections
<1>2. Subs!TypeOK
  BY SubManifests DEF Subs!Init, Subs!TypeOK
<1> QED
  BY <1>1, <1>2 DEF Subs!Init, Subs!Inv, Subs!EndingIsRight, Subs!ManifestIsRight, Subs!NothingLost

\* A step of one agent leaves the others' files and states.
SubOthers(a) ==
  \A b \in Agents \ {a} :
    /\ x1'[b] = x1[b] /\ x2'[b] = x2[b] /\ x3'[b] = x3[b]
    /\ x4'[b] = x4[b] /\ x5'[b] = x5[b] /\ x6'[b] = x6[b]

SubGood(a) == Subs!EndingIsRight(a) /\ Subs!ManifestIsRight(a) /\ Subs!NothingLost(a)

LEMMA SubOthersStay ==
  ASSUME Subs!Inv, NEW a \in Agents, SubOthers(a), x7' = x7, x8' \in {x8, x8 + 1}, SubGood(a)'
  PROVE  \A b \in Agents : SubGood(b)'
<1> SUFFICES ASSUME NEW b \in Agents \ {a} PROVE SubGood(b)'
  BY DEF SubOthers
<1>1. SubGood(b) /\ x8 \in Nat /\ (x8' = 0 => x8 = 0)
  BY DEF Subs!Inv, SubGood
<1>2. Subs!Terminal(b)' = Subs!Terminal(b)
  BY DEF SubOthers, Subs!Terminal, Subs!StateOf, Subs!EndEvents
<1> QED
  BY <1>1, <1>2 DEF SubOthers, SubGood, Subs!EndingIsRight, Subs!ManifestIsRight, Subs!NothingLost, Subs!Rewritten, Subs!Appended

SubSteps == {"new", "spawn", "run", "append", "rewrite", "end"}
SubStatuses == {"none", "cut", "running", "completed", "failed"}
SubTurns == Subs!Good \union {"none", "error", "panic"}

\* A step of an agent that leaves its own files and states right.
LEMMA SubMoved ==
  ASSUME Subs!Inv, NEW a \in Agents,
         NEW s \in SubSteps, NEW t \in SubTurns, NEW e \in Subs!Ending,
         NEW o \in Subs!Sections, NEW m, m.status \in SubStatuses, NEW r \in {"none", "manifest", "error"},
         x1' = [x1 EXCEPT ![a] = s], x2' = [x2 EXCEPT ![a] = t],
         x3' = [x3 EXCEPT ![a] = e], x4' = [x4 EXCEPT ![a] = o],
         x5' = [x5 EXCEPT ![a] = m], x6' = [x6 EXCEPT ![a] = r],
         x7' = x7, x8' \in {x8, x8 + 1}, SubGood(a)'
  PROVE  Subs!Inv'
<1>1. /\ x1 \in [Agents -> SubSteps] /\ x2 \in [Agents -> SubTurns]
      /\ x3 \in [Agents -> Subs!Ending] /\ x4 \in [Agents -> Subs!Sections]
      /\ x5 = [b \in Agents |-> x5[b]] /\ x6 \in [Agents -> {"none", "manifest", "error"}]
      /\ \A b \in Agents : x5[b].status \in SubStatuses
  BY DEF Subs!Inv, Subs!TypeOK, SubSteps, SubStatuses, SubTurns
<1>2. SubOthers(a)
  BY <1>1 DEF SubOthers
<1>3. \A b \in Agents : SubGood(b)'
  BY <1>2, SubOthersStay
<1>4. Subs!TypeOK'
  BY <1>1 DEF Subs!TypeOK, SubSteps, SubStatuses, SubTurns
<1>5. x3' \in [Agents -> Subs!Ending] /\ x4' \in [Agents -> Subs!Sections] /\ x7' \in BOOLEAN /\ x8' \in Nat
  BY <1>1 DEF Subs!Inv
<1>6. x5' = [b \in Agents |-> x5'[b]]
  BY <1>1
<1> QED
  BY <1>3, <1>4, <1>5, <1>6 DEF Subs!Inv, SubGood

\* A variable that stays the same for an agent.
LEMMA SubSameFor ==
  ASSUME Subs!Inv, NEW a \in Agents
  PROVE  /\ x1 = [x1 EXCEPT ![a] = x1[a]] /\ x2 = [x2 EXCEPT ![a] = x2[a]]
         /\ x3 = [x3 EXCEPT ![a] = x3[a]] /\ x4 = [x4 EXCEPT ![a] = x4[a]]
         /\ x5 = [x5 EXCEPT ![a] = x5[a]] /\ x6 = [x6 EXCEPT ![a] = x6[a]]
         /\ x1[a] \in SubSteps /\ x2[a] \in SubTurns
         /\ x3[a] \in Subs!Ending /\ x4[a] \in Subs!Sections /\ x5[a].status \in SubStatuses
         /\ x6[a] \in {"none", "manifest", "error"}
         /\ SubGood(a) /\ x8 \in Nat
BY DEF Subs!Inv, Subs!TypeOK, SubSteps, SubStatuses, SubTurns, SubGood

-----------------------------------------------------------------------------
(* The steps: of the caller, of the thread, and the end of the program.    *)

LEMMA SubPrepareInv == ASSUME Subs!Inv, NEW a \in Agents, Subs!Prepare(a) PROVE Subs!Inv'
<1>1. SubGood(a) /\ x8 \in Nat /\ x1[a] = "new" /\ x1[a] \in SubSteps
  BY SubSameFor DEF Subs!Prepare, Subs!At
<1>2. x3[a].status # "none" => x3[a].status \in {"completed", "failed"}
  BY SubSameFor DEF Subs!Ending
<1>3. CASE /\ x4' = [x4 EXCEPT ![a] = <<"prompt">>]
           /\ x5' = [x5 EXCEPT ![a] = Subs!Running]
           /\ Subs!Go(a, "spawn") /\ UNCHANGED <<x6, x8>>
  <2>1. <<"prompt">> \in Subs!Sections
    BY DEF Subs!Sections
  <2>2. /\ x1'[a] = "spawn" /\ x2'[a] = x2[a] /\ x3'[a] = x3[a] /\ x5'[a] = Subs!Running
        /\ x6'[a] = x6[a]
    BY <1>3, SubSameFor DEF Subs!Prepare, Subs!Go, Subs!Inv, Subs!TypeOK
  <2>3. SubGood(a)'
    BY <1>1, <2>2 DEF SubGood, Subs!EndingIsRight, Subs!ManifestIsRight, Subs!NothingLost
  <2>4. /\ x1' = [x1 EXCEPT ![a] = "spawn"] /\ x2' = [x2 EXCEPT ![a] = x2[a]]
        /\ x3' = [x3 EXCEPT ![a] = x3[a]] /\ x6' = [x6 EXCEPT ![a] = x6[a]]
        /\ x7' = x7 /\ x8' = x8
    BY <1>3, SubSameFor DEF Subs!Prepare, Subs!Go
  <2>5. "spawn" \in SubSteps /\ Subs!Running.status \in SubStatuses
    BY SubManifests DEF SubSteps, SubStatuses
  <2> QED
    BY <1>3, <2>1, <2>3, <2>4, <2>5, SubMoved, SubSameFor
<1>4. ASSUME NEW o \in Subs!Sections, NEW m \in {Subs!NoManifest, Subs!Cut},
             Subs!Fault, Subs!Go(a, "end"), x6' = [x6 EXCEPT ![a] = "error"],
             x4' = [x4 EXCEPT ![a] = o], x5' = [x5 EXCEPT ![a] = m]
      PROVE  Subs!Inv'
  <2>1. /\ x1'[a] = "end" /\ x2'[a] = x2[a] /\ x3'[a] = x3[a] /\ x5'[a] = m
        /\ x6'[a] = "error" /\ x8' # 0
    BY <1>1, <1>4, SubSameFor DEF Subs!Prepare, Subs!Go, Subs!Fault, Subs!Inv, Subs!TypeOK
  <2>2. SubGood(a)'
    BY <1>1, <2>1 DEF SubGood, Subs!EndingIsRight, Subs!ManifestIsRight, Subs!NothingLost
  <2>3. /\ x1' = [x1 EXCEPT ![a] = "end"] /\ x2' = [x2 EXCEPT ![a] = x2[a]]
        /\ x3' = [x3 EXCEPT ![a] = x3[a]] /\ x7' = x7 /\ x8' = x8 + 1
    BY <1>4, SubSameFor DEF Subs!Prepare, Subs!Go, Subs!Fault
  <2>4. "end" \in SubSteps /\ m.status \in SubStatuses
    BY SubManifests DEF SubSteps, SubStatuses
  <2> QED
    BY <1>4, <2>2, <2>3, <2>4, SubMoved, SubSameFor
<1>5. <<>> \in Subs!Sections /\ <<"prompt">> \in Subs!Sections
  BY DEF Subs!Sections
<1> QED
  BY <1>3, <1>4, <1>5 DEF Subs!Prepare

\* What Persist leaves behind.
LEMMA SubPersistEnding ==
  ASSUME Subs!Inv, NEW a \in Agents, NEW status \in {"completed", "failed"}, NEW error \in BOOLEAN,
         Subs!Persist(a, status, error)
  PROVE  \E e \in Subs!Ending :
           /\ e.status = status /\ e.error = error
           /\ x3' = [x3 EXCEPT ![a] = e] /\ x3'[a] = e
           /\ x1' = [x1 EXCEPT ![a] = "append"] /\ x1'[a] = "append"
BY DEF Subs!Persist, Subs!Go, Subs!Ending, Subs!Inv, Subs!TypeOK

LEMMA SubStepNames == /\ "run" \in SubSteps /\ "append" \in SubSteps /\ "rewrite" \in SubSteps /\ "end" \in SubSteps
BY DEF SubSteps

LEMMA SubSpawnInv == ASSUME Subs!Inv, NEW a \in Agents, Subs!Spawn(a) PROVE Subs!Inv'
<1>1. /\ SubGood(a) /\ x8 \in Nat /\ x1[a] = "spawn"
      /\ x2' = [x2 EXCEPT ![a] = x2[a]] /\ x2'[a] = x2[a]
      /\ x4' = [x4 EXCEPT ![a] = x4[a]] /\ x4'[a] = x4[a]
      /\ x5' = [x5 EXCEPT ![a] = x5[a]] /\ x5'[a] = x5[a] /\ x7' = x7
  BY SubSameFor DEF Subs!Spawn, Subs!At
<1>2. CASE Subs!Go(a, "run") /\ x6' = [x6 EXCEPT ![a] = "manifest"] /\ UNCHANGED <<x3, x8>>
  <2>1. x1' = [x1 EXCEPT ![a] = "run"] /\ x3' = [x3 EXCEPT ![a] = x3[a]]
    BY <1>2, SubSameFor DEF Subs!Go
  <2>2. x1'[a] = "run" /\ x3'[a] = x3[a] /\ x6'[a] = "manifest"
    BY <1>2, <2>1 DEF Subs!Inv, Subs!TypeOK
  <2>3. SubGood(a)'
    BY <1>1, <1>2, <2>2 DEF SubGood, Subs!EndingIsRight, Subs!ManifestIsRight, Subs!NothingLost
  <2> QED
    BY <1>1, <1>2, <2>1, <2>3, SubMoved, SubSameFor, SubStepNames
<1>3. CASE Subs!Fault /\ Subs!Persist(a, "failed", TRUE) /\ x6' = [x6 EXCEPT ![a] = "error"]
  <2>1. PICK e \in Subs!Ending :
          /\ e.status = "failed" /\ e.error = TRUE
          /\ x3' = [x3 EXCEPT ![a] = e] /\ x3'[a] = e
          /\ x1' = [x1 EXCEPT ![a] = "append"] /\ x1'[a] = "append"
    BY <1>3, SubPersistEnding
  <2>2. x6'[a] = "error" /\ x8' = x8 + 1
    BY <1>3 DEF Subs!Fault, Subs!Inv, Subs!TypeOK
  <2>3. SubGood(a)'
    BY <1>1, <2>1, <2>2 DEF SubGood, Subs!EndingIsRight, Subs!ManifestIsRight, Subs!NothingLost
  <2> QED
    BY <1>1, <1>3, <2>1, <2>2, <2>3, SubMoved, SubSameFor, SubStepNames
<1> QED
  BY <1>2, <1>3 DEF Subs!Spawn

LEMMA SubRunInv == ASSUME Subs!Inv, NEW a \in Agents, Subs!Run(a) PROVE Subs!Inv'
<1>1. /\ SubGood(a) /\ x8 \in Nat /\ x1[a] = "run" /\ x7' = x7 /\ x8' = x8
      /\ x4' = [x4 EXCEPT ![a] = x4[a]]
      /\ x5' = [x5 EXCEPT ![a] = x5[a]] /\ x5'[a] = x5[a]
      /\ x6' = [x6 EXCEPT ![a] = x6[a]] /\ x6'[a] = x6[a]
  BY SubSameFor DEF Subs!Run, Subs!At
<1>2. PICK how \in Subs!Good \union {"error", "panic"} :
        /\ x2' = [x2 EXCEPT ![a] = how]
        /\ IF how \in Subs!Good THEN Subs!Persist(a, "completed", FALSE) ELSE Subs!Persist(a, "failed", TRUE)
  BY DEF Subs!Run
<1>3. x2'[a] = how
  BY <1>2 DEF Subs!Inv, Subs!TypeOK
<1>4. PICK e \in Subs!Ending :
        /\ (e.status = "failed" /\ e.error = TRUE) \/ (e.status = "completed" /\ e.error = FALSE /\ how \in Subs!Good)
        /\ x3' = [x3 EXCEPT ![a] = e] /\ x3'[a] = e
        /\ x1' = [x1 EXCEPT ![a] = "append"] /\ x1'[a] = "append"
  BY <1>2, SubPersistEnding
<1>5. SubGood(a)'
  BY <1>1, <1>3, <1>4 DEF SubGood, Subs!EndingIsRight, Subs!ManifestIsRight, Subs!NothingLost
<1>6. how \in SubTurns
  BY <1>2 DEF SubTurns
<1> QED
  BY <1>1, <1>2, <1>4, <1>5, <1>6, SubMoved, SubSameFor, SubStepNames

\* What follows a terminal state that could not be persisted.
LEMMA SubNotPersistedEnding ==
  ASSUME Subs!Inv, NEW a \in Agents, x1[a] \in {"append", "rewrite"}, Subs!NotPersisted(a), Subs!Fault
  PROVE  /\ x8' = x8 + 1 /\ x8' # 0
         /\ \E e \in Subs!Ending, s \in {"append", "end"} :
              /\ e.error <=> e.status = "failed"
              /\ e.status = "failed"
              /\ x3' = [x3 EXCEPT ![a] = e] /\ x3'[a] = e
              /\ x1' = [x1 EXCEPT ![a] = s] /\ x1'[a] = s
<1>1. x8' = x8 + 1 /\ x8' # 0
  BY DEF Subs!Fault, Subs!Inv
<1>2. SubGood(a) /\ x3[a] \in Subs!Ending /\ x3 = [x3 EXCEPT ![a] = x3[a]]
  BY SubSameFor
<1>3. CASE x3[a].status = "completed"
  BY <1>1, <1>3, SubPersistEnding DEF Subs!NotPersisted
<1>4. CASE x3[a].status # "completed"
  <2>1. x3[a].status = "failed" /\ (x3[a].error <=> x3[a].status = "failed")
    BY <1>2, <1>4 DEF SubGood, Subs!EndingIsRight, Subs!Ending
  <2>2. x1' = [x1 EXCEPT ![a] = "end"] /\ x1'[a] = "end" /\ x3' = x3
    BY <1>4 DEF Subs!NotPersisted, Subs!Go, Subs!Inv, Subs!TypeOK
  <2> QED
    BY <1>1, <1>2, <2>1, <2>2
<1> QED
  BY <1>3, <1>4

LEMMA SubAppendOutputInv == ASSUME Subs!Inv, NEW a \in Agents, Subs!AppendOutput(a) PROVE Subs!Inv'
<1>1. /\ SubGood(a) /\ x8 \in Nat /\ x1[a] = "append" /\ x7' = x7
      /\ x2' = [x2 EXCEPT ![a] = x2[a]] /\ x2'[a] = x2[a]
      /\ x5' = [x5 EXCEPT ![a] = x5[a]] /\ x5'[a] = x5[a]
      /\ x6' = [x6 EXCEPT ![a] = x6[a]] /\ x6'[a] = x6[a]
  BY SubSameFor DEF Subs!AppendOutput, Subs!At
<1>2. x5[a] \in {Subs!NoManifest, Subs!Cut, Subs!Running}
  BY <1>1 DEF SubGood, Subs!ManifestIsRight
<1>3. CASE /\ x4' = [x4 EXCEPT ![a] = Append(@, x3[a].status)]
           /\ Subs!Go(a, "rewrite") /\ UNCHANGED <<x3, x8>>
  <2> DEFINE o == Append(x4[a], x3[a].status)
  <2>1. x3[a].status \in {"prompt", "completed", "failed"}
    BY <1>1, SubSameFor DEF SubGood, Subs!EndingIsRight, Subs!Ending
  <2>2. o \in Subs!Sections /\ o # <<>> /\ Subs!Last(o) = x3[a].status
    BY <2>1, SubSameFor, LastAppended DEF Subs!Sections
  <2>3. /\ x4' = [x4 EXCEPT ![a] = o] /\ x4'[a] = o
        /\ x1' = [x1 EXCEPT ![a] = "rewrite"] /\ x1'[a] = "rewrite"
        /\ x3' = [x3 EXCEPT ![a] = x3[a]] /\ x3'[a] = x3[a] /\ x8' = x8
    BY <1>3, SubSameFor DEF Subs!Go, Subs!Inv, Subs!TypeOK
  <2> HIDE DEF o
  <2>4. SubGood(a)'
    BY <1>1, <1>2, <2>2, <2>3 DEF SubGood, Subs!EndingIsRight, Subs!ManifestIsRight, Subs!NothingLost, Subs!Appended
  <2> QED
    BY <1>1, <2>2, <2>3, <2>4, SubMoved, SubSameFor, SubStepNames
<1>4. CASE Subs!Fault /\ Subs!NotPersisted(a) /\ UNCHANGED x4
  <2>1. PICK e \in Subs!Ending, s \in {"append", "end"} :
          /\ e.error <=> e.status = "failed"
          /\ e.status = "failed"
          /\ x3' = [x3 EXCEPT ![a] = e] /\ x3'[a] = e
          /\ x1' = [x1 EXCEPT ![a] = s] /\ x1'[a] = s
    BY <1>1, <1>4, SubNotPersistedEnding
  <2>2. x8' = x8 + 1 /\ x8' # 0 /\ x4' = [x4 EXCEPT ![a] = x4[a]] /\ s \in SubSteps
    BY <1>1, <1>4, SubNotPersistedEnding, SubSameFor, SubStepNames
  <2>3. SubGood(a)'
    BY <1>1, <1>2, <2>1, <2>2 DEF SubGood, Subs!EndingIsRight, Subs!ManifestIsRight, Subs!NothingLost
  <2> QED
    BY <1>1, <2>1, <2>2, <2>3, SubMoved, SubSameFor
<1> QED
  BY <1>3, <1>4 DEF Subs!AppendOutput

LEMMA SubRewriteInv == ASSUME Subs!Inv, NEW a \in Agents, Subs!Rewrite(a) PROVE Subs!Inv'
<1>1. /\ SubGood(a) /\ x8 \in Nat /\ x1[a] = "rewrite" /\ x7' = x7
      /\ x2' = [x2 EXCEPT ![a] = x2[a]] /\ x2'[a] = x2[a]
      /\ x4' = [x4 EXCEPT ![a] = x4[a]] /\ x4'[a] = x4[a]
      /\ x6' = [x6 EXCEPT ![a] = x6[a]] /\ x6'[a] = x6[a]
  BY SubSameFor DEF Subs!Rewrite, Subs!At
<1>2. x5[a] \in {Subs!NoManifest, Subs!Cut, Subs!Running}
  BY <1>1 DEF SubGood, Subs!ManifestIsRight
<1>3. CASE /\ x5' = [x5 EXCEPT ![a] = Subs!Terminal(a)]
           /\ Subs!Go(a, "end") /\ UNCHANGED <<x3, x8>>
  <2>1. /\ x1' = [x1 EXCEPT ![a] = "end"] /\ x1'[a] = "end"
        /\ x3' = [x3 EXCEPT ![a] = x3[a]] /\ x3'[a] = x3[a] /\ x8' = x8
        /\ x5'[a] = Subs!Terminal(a)
    BY <1>3, SubSameFor DEF Subs!Go, Subs!Inv, Subs!TypeOK
  <2>2. Subs!Terminal(a)' = Subs!Terminal(a)
    BY <1>1, <2>1 DEF Subs!Terminal, Subs!StateOf, Subs!EndEvents
  <2>3. x3[a].status \in {"completed", "failed"} /\ Subs!Appended(a)'
    BY <1>1, <2>1, SubSameFor DEF SubGood, Subs!EndingIsRight, Subs!ManifestIsRight, Subs!Ending, Subs!Appended
  <2>4. SubGood(a)'
    BY <1>1, <2>1, <2>2, <2>3 DEF SubGood, Subs!EndingIsRight, Subs!ManifestIsRight, Subs!NothingLost, Subs!Rewritten
  <2>5. PICK m : m = Subs!Terminal(a)
    OBVIOUS
  <2>6. m.status \in SubStatuses
    BY <2>3, <2>5, SubManifests DEF SubStatuses
  <2> QED
    BY <1>1, <1>3, <2>1, <2>4, <2>5, <2>6, SubMoved, SubSameFor, SubStepNames, ZenonT(40)
<1>4. CASE /\ Subs!Fault /\ Subs!NotPersisted(a)
           /\ \E m \in {x5[a], Subs!Cut} : x5' = [x5 EXCEPT ![a] = m]
  <2>1. PICK e \in Subs!Ending, s \in {"append", "end"} :
          /\ e.error <=> e.status = "failed"
          /\ e.status = "failed"
          /\ x3' = [x3 EXCEPT ![a] = e] /\ x3'[a] = e
          /\ x1' = [x1 EXCEPT ![a] = s] /\ x1'[a] = s
    BY <1>1, <1>4, SubNotPersistedEnding
  <2>2. x8' = x8 + 1 /\ x8' # 0 /\ s \in SubSteps
    BY <1>1, <1>4, SubNotPersistedEnding, SubStepNames
  <2>3. PICK m \in {Subs!NoManifest, Subs!Cut, Subs!Running} : x5' = [x5 EXCEPT ![a] = m]
    BY <1>2, <1>4
  <2>4. x5'[a] = m /\ m.status \in SubStatuses
    BY <2>3, SubManifests DEF Subs!Inv, SubStatuses
  <2>5. SubGood(a)'
    BY <1>1, <2>1, <2>2, <2>4 DEF SubGood, Subs!EndingIsRight, Subs!ManifestIsRight, Subs!NothingLost
  <2> QED
    BY <1>1, <2>1, <2>2, <2>3, <2>4, <2>5, SubMoved, SubSameFor
<1> QED
  BY <1>3, <1>4 DEF Subs!Rewrite

LEMMA SubExitInv == ASSUME Subs!Inv, Subs!Exit PROVE Subs!Inv'
<1>1. /\ UNCHANGED <<x1, x2, x3, x4, x6, x8>> /\ x7' = FALSE
      /\ x5' = [b \in Agents |-> x5'[b]]
      /\ \A b \in Agents : x5'[b] = x5[b] \/ (x5'[b] = Subs!Cut /\ x1[b] = "rewrite")
  <2>1. CASE UNCHANGED x5
    BY <2>1 DEF Subs!Exit, Subs!Inv
  <2>2. CASE \E a \in Agents : x1[a] = "rewrite" /\ x5' = [x5 EXCEPT ![a] = Subs!Cut]
    BY <2>2 DEF Subs!Exit, Subs!Inv
  <2> QED
    BY <2>1, <2>2 DEF Subs!Exit
<1>2. Subs!TypeOK'
  BY <1>1, SubManifests DEF Subs!Inv, Subs!TypeOK
<1>3. ASSUME NEW b \in Agents PROVE Subs!EndingIsRight(b)' /\ Subs!ManifestIsRight(b)' /\ Subs!NothingLost(b)'
  <2>1. SubGood(b)
    BY SubSameFor
  <2>2. Subs!Terminal(b)' = Subs!Terminal(b) /\ (Subs!Appended(b)' <=> Subs!Appended(b))
    BY <1>1 DEF Subs!Terminal, Subs!StateOf, Subs!EndEvents, Subs!Appended
  <2> QED
    BY <1>1, <2>1, <2>2 DEF SubGood, Subs!EndingIsRight, Subs!ManifestIsRight, Subs!NothingLost, Subs!Rewritten
<1> QED
  BY <1>1, <1>2, <1>3 DEF Subs!Inv

LEMMA SubNextInv == Subs!Inv /\ [Subs!Next]_(Subs!vars) => Subs!Inv'
<1>1. ASSUME Subs!Inv, UNCHANGED Subs!vars PROVE Subs!Inv'
  <2>1. \A b \in Agents : Subs!Terminal(b)' = Subs!Terminal(b)
    BY <1>1 DEF Subs!vars, Subs!Terminal, Subs!StateOf, Subs!EndEvents
  <2> QED
    BY <1>1, <2>1 DEF Subs!vars, Subs!Inv, Subs!TypeOK, Subs!EndingIsRight, Subs!ManifestIsRight, Subs!NothingLost, Subs!Rewritten, Subs!Appended
<1> QED
  BY <1>1, SubPrepareInv, SubSpawnInv, SubRunInv, SubAppendOutputInv, SubRewriteInv, SubExitInv DEF Subs!Next, Subs!Thread

\* SubAgents: the files of an agent tell one story, and a true one, whichever writes fail
\* and whenever the program ends: "completed" stands only behind a turn that succeeded and a
\* result in the output file, and only such an agent's lane is closed.
THEOREM AgentsCorrect == AllSafety => []AgentsSound
<1>1. AllInit /\ part = "agents" => Subs!Inv
  BY SubInitInv DEF AllInit
<1>2. part = "agents" /\ [AllNext]_all => (part = "agents")' /\ [Subs!Next]_(Subs!vars)
  BY DEF AllNext, all, from11, from9, Subs!vars
<1>3. ~(part = "agents") /\ [AllNext]_all => (~(part = "agents"))'
  BY DEF AllNext, all, from11, from9
<1>4. Subs!Inv => AgentsSound
  BY SubInvSound DEF AgentsSound
<1>5. ~(part = "agents") => AgentsSound
  BY DEF AgentsSound
<1> QED
  BY <1>1, <1>2, <1>3, <1>4, <1>5, SubNextInv, PTL DEF AllSafety

-----------------------------------------------------------------------------
(* The tool server of the local agent server.                              *)

\* The end of a header that was given up still costs a request.
LocalOwed == IF x3 = "rest" THEN 1 ELSE 0

\* The requests that are lost so far, and the one that will be, are paid for.
LocalPaidFor ==
  /\ x12 \in Nat /\ x10 \in Nat
  /\ x12 + LocalOwed <= 2 * x10

\* Ids count from 1, so that no notification is taken for an answer.
LocalNumbered == x8 \in Nat /\ x6.id \in Nat /\ (x6 # Local!Idle => x6.id > 0)

\* A list and a call are sent to a server whose handshake succeeded, and tools are of one.
LocalGreeted ==
  x9 # "over" =>
    /\ x5 => x4
    /\ x6.kind \in {"list", "call"} => x4
    /\ x9 = "serving" /\ ~x4 => x1.state # "up"

LocalGone == x9 = "over" => x1.state # "up"

LocalKinds ==
  /\ x9 \in {"starting", "serving", "over"}
  /\ x6.kind \in {"none", "initialize", "list", "call"}
  /\ x6.kind = "none" => x6 = Local!Idle

LocalInv == LocalPaidFor /\ LocalNumbered /\ LocalGreeted /\ LocalGone /\ LocalKinds /\ Local!OwnAnswers

LEMMA LocalInitInv == Local!Init => LocalInv
BY DEF Local!Init, LocalInv, LocalPaidFor, LocalOwed, LocalNumbered, LocalGreeted, LocalGone, LocalKinds, Local!OwnAnswers, Local!Idle, Local!NoServer

\* A request that fails leaves no server which was not greeted, and says so of itself.
LEMMA LocalFailedKeepsInv ==
  ASSUME LocalInv, Local!Waits, NEW STATE answer, answer \in {0, x6.id}, Local!Failed(answer)
  PROVE  /\ LocalNumbered' /\ LocalGreeted' /\ LocalGone' /\ LocalKinds' /\ Local!OwnAnswers'
<1>1. x6'.id = 0 /\ x6'.kind = "none" /\ x6' = Local!Idle'
  BY DEF Local!Failed, Local!Idle
<1>2. LocalNumbered'
  BY <1>1 DEF LocalInv, Local!Failed, LocalNumbered
<1>3. LocalGreeted'
  <2>1. CASE x6.kind = "initialize"
    BY <1>1, <2>1 DEF LocalInv, Local!Failed, LocalGreeted, Local!Stopped, Local!NoServer, Local!Waits
  <2>2. CASE x6.kind # "initialize"
    BY <1>1, <2>2 DEF LocalInv, Local!Failed, LocalGreeted, LocalKinds, Local!Waits
  <2> QED
    BY <2>1, <2>2
<1>4. LocalGone' /\ LocalKinds'
  BY <1>1 DEF Local!Failed, LocalGone, LocalKinds
<1>5. Local!OwnAnswers'
  BY DEF Local!Failed, Local!OwnAnswers
<1> QED
  BY <1>2, <1>3, <1>4, <1>5

LEMMA LocalSucceededKeepsInv ==
  ASSUME LocalInv, Local!Waits, NEW STATE answer, answer = x6.id, Local!Succeeded(answer)
  PROVE  /\ LocalNumbered' /\ LocalGreeted' /\ LocalGone' /\ LocalKinds' /\ Local!OwnAnswers'
<1>1. CASE x6.kind = "initialize"
  <2>1. Local!Ask("list", 1, x1) /\ x4' /\ UNCHANGED <<x5, x9>>
    BY <1>1 DEF Local!Succeeded
  <2> QED
    BY <2>1, <1>1 DEF LocalInv, Local!Waits, Local!Succeeded, Local!Ask, LocalNumbered, LocalGreeted, LocalGone, LocalKinds, Local!OwnAnswers, Local!Idle
<1>2. CASE x6.kind = "list"
  <2>1. x7' = [of |-> x6.id, answer |-> answer, result |-> "ok"]
    BY DEF Local!Succeeded
  <2>2. Local!OwnAnswers'
    BY <2>1, <1>2 DEF LocalInv, LocalNumbered, Local!Idle, Local!OwnAnswers
  <2>3. CASE Local!Ask("list", x6.page + 1, x1) /\ UNCHANGED <<x4, x5, x9>>
    BY <2>2, <2>3, <1>2 DEF LocalInv, Local!Waits, Local!Ask, LocalNumbered, LocalGreeted, LocalGone, LocalKinds, Local!Idle
  <2>4. CASE /\ x5' = TRUE /\ x9' = "serving" /\ x6' = Local!Idle
             /\ UNCHANGED <<x4, x1, x8>>
    BY <2>2, <2>4, <1>2 DEF LocalInv, Local!Waits, LocalNumbered, LocalGreeted, LocalGone, LocalKinds, Local!Idle
  <2> QED
    BY <1>2, <2>3, <2>4 DEF Local!Succeeded
<1>3. CASE x6.kind \notin {"initialize", "list"}
  BY <1>3 DEF LocalInv, Local!Waits, Local!Succeeded, LocalNumbered, LocalGreeted, LocalGone, LocalKinds, Local!OwnAnswers, Local!Idle
<1> QED
  BY <1>1, <1>2, <1>3

\* A complete frame: the answer, or one that is passed over.
LEMMA LocalFrameKeepsInv ==
  ASSUME LocalInv, Local!Waits, NEW STATE piece, Local!Frame(piece)
  PROVE  /\ LocalNumbered' /\ LocalGreeted' /\ LocalGone' /\ LocalKinds' /\ Local!OwnAnswers' /\ x3' = "between"
<1>1. CASE ~Local!Ours(piece.id)
  BY <1>1 DEF LocalInv, Local!Frame, LocalNumbered, LocalGreeted, LocalGone, LocalKinds, Local!OwnAnswers, Local!Idle
<1>2. CASE Local!Ours(piece.id)
  <2>1. piece.id = x6.id
    BY <1>2 DEF Local!Ours
  <2>2. CASE Local!Succeeded(piece.id)
    BY <2>1, <2>2, LocalSucceededKeepsInv DEF Local!Frame
  <2>3. CASE Local!Failed(piece.id)
    BY <2>1, <2>3, LocalFailedKeepsInv DEF Local!Frame
  <2> QED
    BY <1>2, <2>2, <2>3 DEF Local!Frame
<1> QED
  BY <1>1, <1>2

LEMMA LocalNextInv == LocalInv /\ [Local!Next]_(Local!vars) => LocalInv'
<1> SUFFICES ASSUME LocalInv, [Local!Next]_(Local!vars)
             PROVE  LocalInv'
  OBVIOUS
<1>1. CASE Local!Connect
  BY <1>1 DEF LocalInv, Local!Connect, Local!Ask, Local!NoServer, LocalPaidFor, LocalOwed, LocalNumbered, LocalGreeted, LocalGone, LocalKinds, Local!OwnAnswers, Local!Idle
<1>2. CASE Local!CallTool
  BY <1>2 DEF LocalInv, Local!CallTool, Local!Ask, LocalPaidFor, LocalOwed, LocalNumbered, LocalGreeted, LocalGone, LocalKinds, Local!OwnAnswers, Local!Idle
<1>3. CASE Local!ReadHeader
  BY <1>3 DEF LocalInv, Local!ReadHeader, LocalPaidFor, LocalOwed, LocalNumbered, LocalGreeted, LocalGone, LocalKinds, Local!OwnAnswers, Local!Idle
<1>4. CASE Local!ReadFrame
  <2>1. Local!Waits
    BY <1>4 DEF Local!ReadFrame
  <2>2. CASE Local!Frame(Head(x2)) /\ UNCHANGED x12
    <3>1. LocalPaidFor'
      BY <1>4, <2>1, <2>2, LocalFrameKeepsInv DEF LocalInv, Local!ReadFrame, LocalPaidFor, LocalOwed
    <3> QED
      BY <2>1, <2>2, <3>1, LocalFrameKeepsInv DEF LocalInv
  <2>3. CASE x3 = "rest" /\ x3' = "body" /\ Local!Failed(0) /\ x12' = x12 + 1
    <3>1. LocalPaidFor'
      BY <1>4, <2>3 DEF LocalInv, Local!ReadFrame, LocalPaidFor, LocalOwed
    <3> QED
      BY <2>1, <2>3, <3>1, LocalFailedKeepsInv DEF LocalInv
  <2> QED
    BY <1>4, <2>2, <2>3 DEF Local!ReadFrame, Local!Found
<1>5. CASE Local!TimeOut
  <2>1. Local!Waits /\ Local!Failed(0) /\ x10' = x10 + 1 /\ x12' = x12 + 1
    BY <1>5 DEF Local!TimeOut
  <2>2. LocalPaidFor'
    BY <2>1 DEF LocalInv, LocalPaidFor, LocalOwed
  <2> QED
    BY <2>1, <2>2, LocalFailedKeepsInv DEF LocalInv
<1>6. CASE Local!EndOfFile
  <2>1. Local!Waits /\ Local!Failed(0) /\ UNCHANGED <<x3, x10, x12>>
    BY <1>6 DEF Local!EndOfFile
  <2>2. LocalPaidFor'
    BY <2>1 DEF LocalInv, LocalPaidFor, LocalOwed
  <2> QED
    BY <2>1, <2>2, LocalFailedKeepsInv DEF LocalInv
<1>7. CASE Local!Shutdown
  BY <1>7 DEF LocalInv, Local!Shutdown, Local!Stopped, Local!NoServer, LocalPaidFor, LocalOwed, LocalNumbered, LocalGreeted, LocalGone, LocalKinds, Local!OwnAnswers, Local!Idle
<1>8. CASE Local!Begin
  <2>1. x1.state = "up" /\ UNCHANGED Local!Others
    BY <1>8 DEF Local!Begin
  <2> QED
    BY <2>1 DEF Local!Others, LocalInv, LocalPaidFor, LocalOwed, LocalNumbered, LocalGreeted, LocalGone, LocalKinds, Local!OwnAnswers, Local!Idle
<1>9. CASE Local!Write
  BY <1>9 DEF Local!Write, Local!Others, LocalInv, LocalPaidFor, LocalOwed, LocalNumbered, LocalGreeted, LocalGone, LocalKinds, Local!OwnAnswers, Local!Idle
<1>10. CASE Local!Die
  BY <1>10 DEF Local!Die, Local!Stopped, Local!NoServer, Local!Others, LocalInv, LocalPaidFor, LocalOwed, LocalNumbered, LocalGreeted, LocalGone, LocalKinds, Local!OwnAnswers, Local!Idle
<1>11. CASE UNCHANGED Local!vars
  BY <1>11 DEF Local!vars, LocalInv, LocalPaidFor, LocalOwed, LocalNumbered, LocalGreeted, LocalGone, LocalKinds, Local!OwnAnswers, Local!Idle
<1> QED
  BY <1>1, <1>2, <1>3, <1>4, <1>5, <1>6, <1>7, <1>8, <1>9, <1>10, <1>11 DEF Local!Next, Local!Client

\* The promises follow: a lost request is paid for, and who is not greeted is not kept.
LEMMA LocalInvSound == LocalInv => Local!AgentServersSound
<1>1. ASSUME LocalInv PROVE Local!BackInStep
  BY <1>1 DEF LocalInv, LocalPaidFor, LocalOwed, Local!BackInStep
<1>2. ASSUME LocalInv PROVE Local!OwnAnswers /\ Local!NoneLeft
  BY <1>2 DEF LocalInv, LocalGreeted, LocalGone, Local!NoneLeft
<1> QED
  BY <1>1, <1>2 DEF Local!AgentServersSound

(* The types.  With each request the ids of requests and messages have one *)
(* more to choose from.                                                    *)

LocalBounds == MaxPages \in Nat \ {0} /\ MaxNotes \in Nat /\ MaxLate \in Nat

LEMMA LocalPiecesGrow ==
  ASSUME x8 \in Nat, x8' \in {x8, x8 + 1}, NEW parts, NEW s \in Seq(Local!Pieces(parts))
  PROVE  s \in Seq(Local!Pieces(parts)')
<1>1. 0..x8 \subseteq 0..x8'
  OBVIOUS
<1>2. Local!Pieces(parts) \subseteq Local!Pieces(parts)'
  BY <1>1 DEF Local!Pieces
<1>3. Len(s) \in Nat /\ s \in [1..Len(s) -> Local!Pieces(parts)]
  OBVIOUS
<1>4. s \in [1..Len(s) -> Local!Pieces(parts)']
  BY <1>2, <1>3
<1> QED
  BY <1>3, <1>4, IsASeq

LocalRequests == [kind : {"none", "initialize", "list", "call"}, id : 0..x8, page : 0..MaxPages]
LocalReturns == [of : 0..x8, answer : 0..x8, result : {"none", "ok", "error"}]
LocalProcesses == [state : {"none", "up", "down"}, inbox : SUBSET (1..x8), writing : Seq(Local!Pieces({"frame"}))]

LEMMA LocalTypesGrow ==
  ASSUME LocalBounds, Local!TypeOK, x8' \in {x8, x8 + 1}
  PROVE  /\ x8' \in Nat
         /\ x1 \in LocalProcesses' /\ x2 \in Seq(Local!Pieces({"header", "frame"})')
         /\ x6 \in LocalRequests' /\ x7 \in LocalReturns' /\ Local!Idle \in LocalRequests'
<1>1. x8' \in Nat /\ 0..x8 \subseteq 0..x8' /\ 1..x8 \subseteq 1..x8'
  BY DEF Local!TypeOK
<1>2. x2 \in Seq(Local!Pieces({"header", "frame"})')
  BY LocalPiecesGrow DEF Local!TypeOK
<1>3. x1.writing \in Seq(Local!Pieces({"frame"})')
  BY LocalPiecesGrow DEF Local!TypeOK
<1>4. x1 \in LocalProcesses'
  BY <1>1, <1>3 DEF Local!TypeOK, LocalProcesses
<1>5. x7 \in LocalReturns'
  BY <1>1 DEF Local!TypeOK, LocalReturns
<1>6. x6 \in LocalRequests'
  BY <1>1 DEF Local!TypeOK, LocalRequests
<1>7. 0 \in 0..x8' /\ 0 \in 0..MaxPages
  BY <1>1 DEF LocalBounds
<1>8. Local!Idle \in LocalRequests'
  BY <1>7 DEF Local!Idle, LocalRequests
<1> QED
  BY <1>1, <1>2, <1>4, <1>5, <1>6, <1>8

\* A state of which all but the request and its answer may have changed.
LocalAround ==
  /\ x1 \in LocalProcesses /\ x2 \in Seq(Local!Pieces({"header", "frame"}))
  /\ x3 \in {"between", "inside", "rest", "body", "behind"}
  /\ x4 \in BOOLEAN /\ x5 \in BOOLEAN /\ x9 \in {"starting", "serving", "over"}
  /\ x8 \in Nat

LocalCounted == x10 \in 0..MaxLate /\ x11 \in 0..MaxNotes /\ x12 \in Nat

LEMMA LocalTypeParts == Local!TypeOK <=> LocalAround /\ x6 \in LocalRequests /\ x7 \in LocalReturns /\ LocalCounted
BY DEF Local!TypeOK, LocalAround, LocalCounted, LocalRequests, LocalReturns, LocalProcesses

LEMMA LocalPartsType == (LocalAround /\ x6 \in LocalRequests /\ x7 \in LocalReturns /\ LocalCounted)' => Local!TypeOK'
BY DEF Local!TypeOK, LocalAround, LocalCounted, LocalRequests, LocalReturns, LocalProcesses

LEMMA LocalStoppedTyped == x1 \in LocalProcesses => Local!Stopped \in LocalProcesses
<1>1. <<>> \in Seq(Local!Pieces({"frame"}))
  OBVIOUS
<1> QED
  BY <1>1 DEF Local!Stopped, Local!NoServer, LocalProcesses

\* A request that is written: an id more, for a server that can be asked.
LEMMA LocalAskTyped ==
  ASSUME LocalBounds, Local!TypeOK, NEW kind \in {"initialize", "list", "call"}, NEW page \in 0..MaxPages,
         NEW child \in LocalProcesses, Local!Ask(kind, page, child)
  PROVE  /\ x8' = x8 + 1 /\ x1' \in LocalProcesses' /\ x6' \in LocalRequests'
<1>1. x8 \in Nat /\ x8' = x8 + 1
  BY DEF Local!TypeOK, Local!Ask
<1>2. 1..x8 \subseteq 1..x8' /\ x8 + 1 \in 1..x8' /\ x8 + 1 \in 0..x8'
  BY <1>1
<1>3. child.writing \in Seq(Local!Pieces({"frame"})')
  BY <1>1, LocalPiecesGrow DEF LocalProcesses
<1>4. child \in LocalProcesses' /\ [child EXCEPT !.inbox = @ \union {x8 + 1}] \in LocalProcesses'
  BY <1>2, <1>3 DEF LocalProcesses
<1> QED
  BY <1>1, <1>2, <1>4 DEF Local!Ask, LocalRequests

LEMMA LocalFailedTyped ==
  ASSUME LocalBounds, Local!TypeOK, NEW answer \in 0..x8, Local!Failed(answer)
  PROVE  /\ x8' = x8 /\ x1' \in LocalProcesses' /\ x6' \in LocalRequests'
         /\ x7' \in LocalReturns' /\ x9' = "serving" /\ UNCHANGED <<x4, x5>>
<1>1. x8' = x8
  BY DEF Local!Failed
<1>2. x1' \in LocalProcesses'
  BY <1>1, LocalTypeParts, LocalStoppedTyped, LocalTypesGrow DEF Local!Failed, LocalAround, LocalProcesses, Local!Pieces
<1>3. x6' \in LocalRequests'
  BY <1>1, LocalTypesGrow DEF Local!Failed, Local!Idle
<1>4. x7' \in LocalReturns'
  BY <1>1 DEF Local!Failed, Local!TypeOK, LocalReturns
<1> QED
  BY <1>1, <1>2, <1>3, <1>4 DEF Local!Failed

LEMMA LocalSucceededTyped ==
  ASSUME LocalBounds, Local!TypeOK, NEW answer \in 0..x8, Local!Succeeded(answer)
  PROVE  /\ x8' \in {x8, x8 + 1} /\ x1' \in LocalProcesses' /\ x6' \in LocalRequests'
         /\ x7' \in LocalReturns' /\ x4' \in BOOLEAN /\ x5' \in BOOLEAN
         /\ x9' \in {"starting", "serving", "over"}
<1>1. x1 \in LocalProcesses /\ x8 \in Nat
  BY LocalTypeParts DEF LocalAround
<1>2. \/ x6' = Local!Idle /\ UNCHANGED <<x1, x8>>
      \/ \E page \in 0..MaxPages : Local!Ask("list", page, x1)
  <2>1. 1 \in 0..MaxPages
    BY DEF LocalBounds
  <2>2. x6.page < MaxPages => x6.page + 1 \in 0..MaxPages
    BY DEF Local!TypeOK, LocalBounds
  <2> QED
    BY <2>1, <2>2 DEF Local!Succeeded
<1>3. /\ x8' \in {x8, x8 + 1} /\ x1' \in LocalProcesses' /\ x6' \in LocalRequests'
  <2>1. CASE x6' = Local!Idle /\ UNCHANGED <<x1, x8>>
    BY <2>1, LocalTypesGrow
  <2>2. CASE \E page \in 0..MaxPages : Local!Ask("list", page, x1)
    BY <1>1, <2>2, LocalAskTyped
  <2> QED
    BY <1>2, <2>1, <2>2
<1>4. x7' \in LocalReturns'
  <2>1. x6.id \in 0..x8' /\ answer \in 0..x8'
    BY <1>1, <1>3 DEF Local!TypeOK
  <2> QED
    BY <2>1 DEF Local!Succeeded, LocalReturns
<1>5. x4' \in BOOLEAN /\ x5' \in BOOLEAN /\ x9' \in {"starting", "serving", "over"}
  BY DEF Local!Succeeded, Local!TypeOK
<1> QED
  BY <1>3, <1>4, <1>5

LEMMA LocalInitTyped == LocalBounds /\ Local!Init => Local!TypeOK
<1> SUFFICES ASSUME LocalBounds, Local!Init PROVE Local!TypeOK
  OBVIOUS
<1>1. <<>> \in Seq(Local!Pieces({"frame"})) /\ <<>> \in Seq(Local!Pieces({"header", "frame"}))
  OBVIOUS
<1>2. x8 = 0 /\ 0 \in 0..0 /\ 0 \in 0..MaxPages /\ 0 \in 0..MaxLate /\ 0 \in 0..MaxNotes
  BY DEF Local!Init, LocalBounds
<1>3. x1 \in LocalProcesses
  BY <1>1 DEF Local!Init, Local!NoServer, LocalProcesses
<1>4. x6 \in LocalRequests /\ x7 \in LocalReturns
  BY <1>2 DEF Local!Init, Local!Idle, LocalRequests, LocalReturns
<1>5. LocalCounted
  BY <1>2 DEF Local!Init, LocalCounted
<1>6. LocalAround
  BY <1>1, <1>3, Zenon DEF Local!Init, LocalAround
<1> QED
  BY <1>4, <1>5, <1>6, LocalTypeParts

\* What is at the head of the pipe, and what is left of it.
LEMMA LocalPipeRead ==
  ASSUME Local!TypeOK, x2 # <<>>
  PROVE  /\ Head(x2).id \in 0..x8
         /\ Tail(x2) \in Seq(Local!Pieces({"header", "frame"}))
<1>1. Head(x2) \in Local!Pieces({"header", "frame"}) /\ Tail(x2) \in Seq(Local!Pieces({"header", "frame"}))
  BY HeadTailProperties DEF Local!TypeOK
<1> QED
  BY <1>1 DEF Local!Pieces

LEMMA LocalClientTyped ==
  ASSUME LocalBounds, Local!TypeOK, Local!Client
  PROVE  Local!TypeOK'
<1> USE DEF LocalBounds
<1>0. LocalAround /\ x6 \in LocalRequests /\ x7 \in LocalReturns /\ LocalCounted
  BY LocalTypeParts
<1>1. CASE Local!Connect
  <2>1. [Local!NoServer EXCEPT !.state = "up"] \in LocalProcesses
    <3>1. <<>> \in Seq(Local!Pieces({"frame"}))
      OBVIOUS
    <3> QED
      BY <3>1 DEF Local!NoServer, LocalProcesses
  <2>2. 0 \in 0..MaxPages
    OBVIOUS
  <2>3. x8' \in {x8, x8 + 1} /\ x1' \in LocalProcesses' /\ x6' \in LocalRequests'
    BY <1>1, <2>1, <2>2, LocalAskTyped, LocalTypesGrow DEF Local!Connect
  <2>4. x2' \in Seq(Local!Pieces({"header", "frame"})') /\ x7' \in LocalReturns'
    BY <1>1, <2>3, LocalTypesGrow DEF Local!Connect
  <2>5. LocalAround' /\ LocalCounted'
    BY <1>0, <1>1, <2>3, <2>4 DEF Local!Connect, LocalAround, LocalCounted
  <2> QED
    BY <2>3, <2>4, <2>5, LocalPartsType
<1>2. CASE Local!CallTool
  <2>1. 0 \in 0..MaxPages
    OBVIOUS
  <2>2. x8' \in {x8, x8 + 1} /\ x1' \in LocalProcesses' /\ x6' \in LocalRequests'
    BY <1>0, <1>2, <2>1, LocalAskTyped DEF Local!CallTool, LocalAround
  <2>3. x2' \in Seq(Local!Pieces({"header", "frame"})') /\ x7' \in LocalReturns'
    BY <1>2, <2>2, LocalTypesGrow DEF Local!CallTool
  <2>4. LocalAround' /\ LocalCounted'
    BY <1>0, <1>2, <2>2, <2>3 DEF Local!CallTool, LocalAround, LocalCounted
  <2> QED
    BY <2>2, <2>3, <2>4, LocalPartsType
<1>3. CASE Local!ReadHeader
  BY <1>3, LocalPipeRead DEF Local!ReadHeader, Local!TypeOK, Local!Pieces
<1>4. CASE Local!ReadFrame
  <2>1. Head(x2).id \in 0..x8 /\ x2' = Tail(x2) /\ UNCHANGED <<x10, x11>>
    BY <1>4, LocalPipeRead DEF Local!ReadFrame
  <2>2. /\ x8' \in {x8, x8 + 1} /\ x1' \in LocalProcesses' /\ x6' \in LocalRequests'
        /\ x7' \in LocalReturns' /\ x4' \in BOOLEAN /\ x5' \in BOOLEAN
        /\ x9' \in {"starting", "serving", "over"}
        /\ x3' \in {"between", "body"} /\ x12' \in {x12, x12 + 1}
    <3>1. CASE Local!Frame(Head(x2)) /\ UNCHANGED x12
      <4>1. CASE ~Local!Ours(Head(x2).id)
        BY <1>0, <3>1, <4>1, LocalTypesGrow DEF Local!Frame, LocalAround
      <4>2. CASE Local!Succeeded(Head(x2).id)
        BY <2>1, <3>1, <4>2, LocalSucceededTyped DEF Local!Frame
      <4>3. CASE Local!Failed(Head(x2).id)
        BY <1>0, <2>1, <3>1, <4>3, LocalFailedTyped DEF Local!Frame, LocalAround
      <4> QED
        BY <3>1, <4>1, <4>2, <4>3 DEF Local!Frame
    <3>2. CASE x3' = "body" /\ Local!Failed(0) /\ x12' = x12 + 1
      <4>1. 0 \in 0..x8
        BY <1>0 DEF LocalAround
      <4> QED
        BY <1>0, <3>2, <4>1, LocalFailedTyped DEF LocalAround
    <3> QED
      BY <1>4, <3>1, <3>2 DEF Local!ReadFrame
  <2>3. Tail(x2) \in Seq(Local!Pieces({"header", "frame"})')
    BY <1>0, <1>4, <2>2, LocalPipeRead, LocalPiecesGrow DEF Local!ReadFrame, LocalAround
  <2>4. LocalAround' /\ LocalCounted'
    BY <1>0, <2>1, <2>2, <2>3 DEF LocalAround, LocalCounted
  <2> QED
    BY <2>2, <2>4, LocalPartsType
<1>5. CASE Local!TimeOut \/ Local!EndOfFile
  <2>1. Local!Failed(0) /\ UNCHANGED x11
    BY <1>5 DEF Local!TimeOut, Local!EndOfFile
  <2>2. 0 \in 0..x8
    BY <1>0 DEF LocalAround
  <2>3. /\ x8' = x8 /\ x1' \in LocalProcesses' /\ x6' \in LocalRequests'
        /\ x7' \in LocalReturns' /\ x9' = "serving" /\ UNCHANGED <<x4, x5>>
    BY <2>1, <2>2, LocalFailedTyped
  <2>4. x2' \in Seq(Local!Pieces({"header", "frame"})) /\ x3' \in {"between", "inside", "rest", "body", "behind"}
    BY <1>0, <1>5, LocalPipeRead DEF Local!TimeOut, Local!EndOfFile, LocalAround
  <2>5. LocalCounted'
    BY <1>0, <1>5, <2>1 DEF Local!TimeOut, Local!EndOfFile, LocalCounted
  <2>6. LocalAround'
    BY <1>0, <2>3, <2>4 DEF LocalAround, Local!Pieces
  <2> QED
    BY <2>3, <2>5, <2>6, LocalPartsType
<1> QED
  BY <1>1, <1>2, <1>3, <1>4, <1>5 DEF Local!Client

LEMMA LocalServerTyped ==
  ASSUME LocalBounds, Local!TypeOK, Local!Begin \/ Local!Write \/ Local!Die \/ Local!Shutdown
  PROVE  Local!TypeOK'
<1>0. LocalAround /\ x6 \in LocalRequests /\ x7 \in LocalReturns /\ LocalCounted
  BY LocalTypeParts
<1>1. x8' = x8 /\ UNCHANGED <<x6, x7, x10, x12, x3, x5>> /\ x4' \in BOOLEAN
      /\ x9' \in {"starting", "serving", "over"}
  BY <1>0 DEF Local!Begin, Local!Write, Local!Die, Local!Shutdown, Local!Others, LocalAround
<1>2. x1' \in LocalProcesses /\ x2' \in Seq(Local!Pieces({"header", "frame"})) /\ x11' \in 0..MaxNotes
  <2>1. CASE Local!Begin
    <3>1. PICK child \in LocalProcesses, i \in 0..x8, g \in BOOLEAN : Local!Begins(child, i, g)
      <4>1. CASE \E i \in x1.inbox, g \in BOOLEAN : Local!Begins([x1 EXCEPT !.inbox = @ \ {i}], i, g)
        <5>1. \A i \in x1.inbox : i \in 0..x8 /\ [x1 EXCEPT !.inbox = @ \ {i}] \in LocalProcesses
          BY <1>0 DEF LocalAround, LocalProcesses
        <5> QED
          BY <4>1, <5>1
      <4>2. CASE Local!Begins(x1, 0, TRUE)
        <5>1. 0 \in 0..x8
          BY <1>0 DEF LocalAround
        <5> QED
          BY <1>0, <4>2, <5>1 DEF LocalAround
      <4> QED
        BY <2>1, <4>1, <4>2 DEF Local!Begin
    <3>2. /\ [part |-> "frame", id |-> i, good |-> g] \in Local!Pieces({"frame"})
          /\ [part |-> "header", id |-> i, good |-> g] \in Local!Pieces({"header", "frame"})
      BY DEF Local!Pieces
    <3>3. x1' \in LocalProcesses
      <4> DEFINE p == [part |-> "frame", id |-> i, good |-> g]
      <4>1. p \in Local!Pieces({"frame"})
        BY <3>2
      <4>2. x1' = [child EXCEPT !.writing = <<p>>]
        BY <3>1 DEF Local!Begins
      <4> HIDE DEF p
      <4>3. <<p>> \in Seq(Local!Pieces({"frame"}))
        BY <4>1
      <4> QED
        BY <4>2, <4>3 DEF LocalProcesses
    <3>4. x2' \in Seq(Local!Pieces({"header", "frame"}))
      BY <1>0, <3>1, <3>2, AppendProperties DEF Local!Begins, LocalAround
    <3>5. x11' = x11 \/ (x11 < MaxNotes /\ x11' = x11 + 1)
      BY <2>1 DEF Local!Begin
    <3>6. x11' \in 0..MaxNotes
      BY <1>0, <3>5 DEF LocalCounted, LocalBounds
    <3> QED
      BY <3>3, <3>4, <3>6
  <2>2. CASE Local!Write
    <3>0. <<>> \in Seq(Local!Pieces({"frame"}))
      OBVIOUS
    <3>1. x1' \in LocalProcesses
      BY <1>0, <2>2, <3>0 DEF Local!Write, LocalAround, LocalProcesses
    <3>2. Local!Pieces({"frame"}) \subseteq Local!Pieces({"header", "frame"})
      BY DEF Local!Pieces
    <3>3. x1.writing \in Seq(Local!Pieces({"header", "frame"}))
      BY <1>0, <3>2 DEF LocalAround, LocalProcesses
    <3>4. x2' \in Seq(Local!Pieces({"header", "frame"}))
      BY <1>0, <2>2, <3>3, ConcatProperties DEF Local!Write, LocalAround
    <3> QED
      BY <1>0, <2>2, <3>1, <3>4 DEF Local!Write, LocalCounted
  <2>3. CASE Local!Die \/ Local!Shutdown
    BY <1>0, <2>3, LocalStoppedTyped DEF Local!Die, Local!Shutdown, LocalAround, LocalCounted, Local!Others
  <2> QED
    BY <2>1, <2>2, <2>3
<1>3. LocalAround' /\ LocalCounted'
  BY <1>0, <1>1, <1>2 DEF LocalAround, LocalCounted, LocalProcesses, Local!Pieces
<1> QED
  BY <1>0, <1>1, <1>3, LocalPartsType DEF LocalRequests, LocalReturns

(* AgentServers: whatever a server does with the pipe, send_request        *)
(* returns the answer to its own request, the reader is in step again      *)
(* after at most one more failure for each deadline that passed, and       *)
(* connect and shutdown_all leave no server behind.                        *)
THEOREM LocalCorrect == AllSafety => [](part = "local" => Local!TypeOK /\ Local!AgentServersSound)
<1> DEFINE P == part = "local" => Local!TypeOK /\ Local!AgentServersSound
<1>1. LocalBounds
  BY ProcessesAssumption DEF LocalBounds
<1>2. AllInit /\ part = "local" => LocalInv /\ Local!TypeOK
  BY <1>1, LocalInitInv, LocalInitTyped DEF AllInit
<1>3. part = "local" /\ [AllNext]_all => (part = "local")' /\ [Local!Next]_(Local!vars)
  BY DEF AllNext, all, Local!vars
<1>4. ~(part = "local") /\ [AllNext]_all => (~(part = "local"))'
  BY DEF AllNext, all, from11, from9
<1>5. Local!TypeOK /\ [Local!Next]_(Local!vars) => Local!TypeOK'
  <2>1. ASSUME Local!TypeOK, UNCHANGED Local!vars PROVE Local!TypeOK'
    BY <2>1 DEF Local!TypeOK, Local!vars, Local!Pieces
  <2> QED
    BY <1>1, <2>1, LocalClientTyped, LocalServerTyped DEF Local!Next
<1>6. LocalInv /\ Local!TypeOK => P
  BY LocalInvSound
<1>7. ~(part = "local") => P
  OBVIOUS
<1> QED
  BY <1>2, <1>3, <1>4, <1>5, <1>6, <1>7, LocalNextInv, PTL DEF AllSafety

-----------------------------------------------------------------------------
(* The manager of the MCP servers.                                         *)

LEMMA SameServerInit == Servers!Init <=> ServerProof!Init
BY DEF
  Servers!Init, ServerProof!Init, Servers!Idle, ServerProof!Idle, Servers!NoResult,
  ServerProof!NoResult

LEMMA SameFailed == \A o, e : Servers!Failed(o, e) <=> ServerProof!Failed(o, e)
BY DEF
  Servers!Failed, ServerProof!Failed, Servers!GoOn, ServerProof!GoOn, Servers!WithoutRoutes,
  ServerProof!WithoutRoutes, Servers!End, ServerProof!End, Servers!Idle, ServerProof!Idle

LEMMA SameSucceeded == \A o : Servers!Succeeded(o) <=> ServerProof!Succeeded(o)
BY DEF
  Servers!Succeeded, ServerProof!Succeeded, Servers!Discovery, ServerProof!Discovery,
  Servers!GoOn, ServerProof!GoOn, Servers!Routed, ServerProof!Routed, Servers!End,
  ServerProof!End, Servers!Range, ServerProof!Range, Servers!WithoutRoutes,
  ServerProof!WithoutRoutes, Servers!Idle, ServerProof!Idle

LEMMA SameFail == \A e : Servers!Fail(e) <=> ServerProof!Fail(e)
BY SameFailed DEF
  Servers!Fail, ServerProof!Fail, Servers!Again, ServerProof!Again, Servers!Retries,
  ServerProof!Retries, Servers!is_retryable_error, ServerProof!is_retryable_error,
  Servers!should_reset_server, ServerProof!should_reset_server, Servers!reset_server,
  ServerProof!reset_server

LEMMA SameBeginSweep == Servers!BeginSweep <=> ServerProof!BeginSweep
BY DEF
  Servers!BeginSweep, ServerProof!BeginSweep, Servers!Sweep, ServerProof!Sweep, Servers!Begin,
  ServerProof!Begin, Servers!Idle, ServerProof!Idle, Servers!NoResult, ServerProof!NoResult

LEMMA SameBeginResource == Servers!BeginResource <=> ServerProof!BeginResource
BY DEF
  Servers!BeginResource, ServerProof!BeginResource, Servers!Begin, ServerProof!Begin,
  Servers!Idle, ServerProof!Idle, Servers!NoResult, ServerProof!NoResult

LEMMA SameBeginCall == Servers!BeginCall <=> ServerProof!BeginCall
BY DEF
  Servers!BeginCall, ServerProof!BeginCall, Servers!Begin, ServerProof!Begin, Servers!Idle,
  ServerProof!Idle, Servers!NoResult, ServerProof!NoResult

LEMMA SameUnknownTool == Servers!UnknownTool <=> ServerProof!UnknownTool
BY DEF
  Servers!UnknownTool, ServerProof!UnknownTool, Servers!End, ServerProof!End, Servers!Idle,
  ServerProof!Idle

LEMMA SameNextServer == Servers!NextServer <=> ServerProof!NextServer
BY DEF
  Servers!NextServer, ServerProof!NextServer, Servers!End, ServerProof!End, Servers!Idle,
  ServerProof!Idle

LEMMA SameEnsureReady == Servers!EnsureReady <=> ServerProof!EnsureReady
BY DEF
  Servers!EnsureReady, ServerProof!EnsureReady, Servers!Exited, ServerProof!Exited,
  Servers!Child, ServerProof!Child, Servers!Usable, ServerProof!Usable, Servers!Failed,
  ServerProof!Failed, Servers!take_request_id, ServerProof!take_request_id, Servers!GoOn,
  ServerProof!GoOn, Servers!WithoutRoutes, ServerProof!WithoutRoutes, Servers!End,
  ServerProof!End, Servers!Idle, ServerProof!Idle

LEMMA SameRequest == Servers!Request <=> ServerProof!Request
BY DEF
  Servers!Request, ServerProof!Request, Servers!MethodOf, ServerProof!MethodOf,
  Servers!take_request_id, ServerProof!take_request_id, Servers!Discovery, ServerProof!Discovery

LEMMA SameBrokenPipe == Servers!BrokenPipe <=> ServerProof!BrokenPipe
BY DEF
  Servers!BrokenPipe, ServerProof!BrokenPipe, Servers!take_request_id,
  ServerProof!take_request_id, Servers!Fail, ServerProof!Fail, Servers!is_retryable_error,
  ServerProof!is_retryable_error, Servers!should_reset_server, ServerProof!should_reset_server,
  Servers!reset_server, ServerProof!reset_server, Servers!Retries, ServerProof!Retries,
  Servers!Again, ServerProof!Again, Servers!Failed, ServerProof!Failed, Servers!GoOn,
  ServerProof!GoOn, Servers!WithoutRoutes, ServerProof!WithoutRoutes, Servers!End,
  ServerProof!End, Servers!Idle, ServerProof!Idle

LEMMA SameEndOfFile == Servers!EndOfFile <=> ServerProof!EndOfFile
BY DEF
  Servers!EndOfFile, ServerProof!EndOfFile, Servers!Waiting, ServerProof!Waiting, Servers!Fail,
  ServerProof!Fail, Servers!is_retryable_error, ServerProof!is_retryable_error,
  Servers!should_reset_server, ServerProof!should_reset_server, Servers!reset_server,
  ServerProof!reset_server, Servers!Retries, ServerProof!Retries, Servers!Again,
  ServerProof!Again, Servers!Failed, ServerProof!Failed, Servers!GoOn, ServerProof!GoOn,
  Servers!WithoutRoutes, ServerProof!WithoutRoutes, Servers!End, ServerProof!End, Servers!Idle,
  ServerProof!Idle

LEMMA SameTimeOut == Servers!TimeOut <=> ServerProof!TimeOut
BY DEF
  Servers!TimeOut, ServerProof!TimeOut, Servers!Waiting, ServerProof!Waiting, Servers!Fail,
  ServerProof!Fail, Servers!is_retryable_error, ServerProof!is_retryable_error,
  Servers!should_reset_server, ServerProof!should_reset_server, Servers!reset_server,
  ServerProof!reset_server, Servers!Retries, ServerProof!Retries, Servers!Again,
  ServerProof!Again, Servers!Failed, ServerProof!Failed, Servers!GoOn, ServerProof!GoOn,
  Servers!WithoutRoutes, ServerProof!WithoutRoutes, Servers!End, ServerProof!End, Servers!Idle,
  ServerProof!Idle

LEMMA SameShutdown == Servers!Shutdown <=> ServerProof!Shutdown
BY DEF
  Servers!Shutdown, ServerProof!Shutdown, Servers!GoOn, ServerProof!GoOn, Servers!End,
  ServerProof!End, Servers!Idle, ServerProof!Idle

LEMMA SameBuild == Servers!Build <=> ServerProof!Build
BY DEF
  Servers!Build, ServerProof!Build, Servers!IsInjective, ServerProof!IsInjective

LEMMA SameAnswer == Servers!Answer <=> ServerProof!Answer
BY SameFailed, SameFail, SameSucceeded DEF
  Servers!Answer, ServerProof!Answer, Servers!Waiting, ServerProof!Waiting, Servers!Well,
  ServerProof!Well, Servers!Empty, ServerProof!Empty, Servers!Greeted, ServerProof!Greeted

LEMMA SameServe == \A s : Servers!Serve(s) <=> ServerProof!Serve(s)
BY DEF
  Servers!Serve, ServerProof!Serve, Servers!Answered, ServerProof!Answered, Servers!Message,
  ServerProof!Message

LEMMA SameNotify == \A s : Servers!Notify(s) <=> ServerProof!Notify(s)
BY DEF
  Servers!Notify, ServerProof!Notify, Servers!Message, ServerProof!Message

LEMMA SameDie == \A s : Servers!Die(s) <=> ServerProof!Die(s)
BY DEF
  Servers!Die, ServerProof!Die

LEMMA SameServerNext == Servers!Next <=> ServerProof!Next
BY SameBeginSweep, SameBeginResource, SameBeginCall, SameUnknownTool, SameNextServer, SameEnsureReady,
   SameRequest, SameBrokenPipe, SameAnswer, SameEndOfFile, SameTimeOut, SameShutdown, SameBuild,
   SameServe, SameNotify, SameDie
   DEF Servers!Next, ServerProof!Next

LEMMA SameTypeOK == Servers!TypeOK <=> ServerProof!TypeOK
BY DEF
  Servers!TypeOK, ServerProof!TypeOK, Servers!Process, ServerProof!Process, Servers!Operation,
  ServerProof!Operation, Servers!Result, ServerProof!Result, Servers!Requested,
  ServerProof!Requested, Servers!Messages, ServerProof!Messages, Servers!Kind, ServerProof!Kind,
  Servers!Error, ServerProof!Error, Servers!Method, ServerProof!Method

LEMMA SameChildrenInStep == Servers!ChildrenInStep <=> ServerProof!ChildrenInStep
BY DEF
  Servers!ChildrenInStep, ServerProof!ChildrenInStep, Servers!InitializedIsOfThisChild,
  ServerProof!InitializedIsOfThisChild, Servers!NoStaleAnswer, ServerProof!NoStaleAnswer,
  Servers!Waiting, ServerProof!Waiting

LEMMA SameRetriesHealOnce == Servers!RetriesHealOnce <=> ServerProof!RetriesHealOnce
BY DEF
  Servers!RetriesHealOnce, ServerProof!RetriesHealOnce, Servers!OneFaultIsHealed,
  ServerProof!OneFaultIsHealed, Servers!RetriesBounded, ServerProof!RetriesBounded,
  Servers!is_retryable_error, ServerProof!is_retryable_error

LEMMA SameRoutesMatchDiscovery == Servers!RoutesMatchDiscovery <=> ServerProof!RoutesMatchDiscovery
BY DEF
  Servers!RoutesMatchDiscovery, ServerProof!RoutesMatchDiscovery, Servers!Range,
  ServerProof!Range

LEMMA SameOfferedOnce == Servers!OfferedOnce <=> ServerProof!OfferedOnce
BY DEF
  Servers!OfferedOnce, ServerProof!OfferedOnce, Servers!Discovery, ServerProof!Discovery,
  Servers!Cardinality, ServerProof!Cardinality, Servers!Places, ServerProof!Places,
  Servers!Listed, ServerProof!Listed

LEMMA SameShutdownStopsAll == Servers!ShutdownStopsAll <=> ServerProof!ShutdownStopsAll
BY DEF
  Servers!ShutdownStopsAll, ServerProof!ShutdownStopsAll

LEMMA SameAgreement ==
  Servers!TypeOK /\ Servers!ServersAgree <=> ServerProof!TypeOK /\ ServerProof!ServersAgree
BY SameTypeOK, SameChildrenInStep, SameRetriesHealOnce, SameRoutesMatchDiscovery, SameOfferedOnce,
   SameShutdownStopsAll
   DEF Servers!ServersAgree, ServerProof!ServersAgree, Servers!DiscoveryIsExact, ServerProof!DiscoveryIsExact

LEMMA SameAssumptions ==
  ServerProof!ServersAssumption /\ ServerProof!BoundsAssumption /\ ServerProof!NoneAssumption
<1>1. ServerProof!ServersAssumption
  BY ServersAssumption
     DEF ServerProof!ServersAssumption, ServerProof!IsInjective, IsInjective, ServerProof!Range, Range
<1>2. ServerProof!BoundsAssumption
  BY BoundsAssumption DEF ServerProof!BoundsAssumption
<1>3. ServerProof!NoneAssumption
  BY NoneAssumption
     DEF ServerProof!NoneAssumption, ServerProof!Process, ServerProof!Requested, ServerProof!Messages,
         ServerProof!Method, Process, Requested, Messages, Method
<1> QED
  BY <1>1, <1>2, <1>3

\* A behaviour that begins as one of the manager is one of it.
LEMMA ServersPart ==
  /\ AllInit /\ part = "servers" => ServerProof!Init
  /\ part = "servers" /\ [AllNext]_all => (part = "servers")' /\ [ServerProof!Next]_(ServerProof!vars)
  /\ ~(part = "servers") /\ [AllNext]_all => (~(part = "servers"))'
<1>1. AllInit /\ part = "servers" => ServerProof!Init
  BY SameServerInit DEF AllInit
<1>2. part = "servers" /\ [AllNext]_all => (part = "servers")' /\ [ServerProof!Next]_(ServerProof!vars)
  BY SameServerNext DEF AllNext, all, ServerProof!vars
<1>3. ~(part = "servers") /\ [AllNext]_all => (~(part = "servers"))'
  BY DEF AllNext, all, from11, from9
<1> QED
  BY <1>1, <1>2, <1>3

\* McpManager and AgentServers: the pipes, flags, routes, retries and reports agree with the
\* children, whatever they answer and whenever they die; answers are those to the requests.
THEOREM ServersCorrect == AllSafety => []ServersAgree
<1> DEFINE P == part = "servers" => Servers!TypeOK /\ Servers!ServersAgree
           Q == part = "local" => Local!TypeOK /\ Local!AgentServersSound
<1>1. ServerProof!Spec => [](ServerProof!TypeOK /\ ServerProof!ServersAgree)
  BY SameAssumptions, ServerProof!ServersCorrect
<1>2. ServerProof!TypeOK /\ ServerProof!ServersAgree => P
  BY SameAgreement
<1>3. ~(part = "servers") => P
  OBVIOUS
<1>4. AllSafety => []P
  BY <1>1, <1>2, <1>3, ServersPart, PTL DEF AllSafety, ServerProof!Spec
<1>5. P /\ Q => ServersAgree
  BY DEF ServersAgree
<1> QED
  BY <1>4, <1>5, LocalCorrect, PTL

(* The caller's view of tools/call.  The view of a behaviour that is not   *)
(* the manager's is one in which nothing is ever called.                   *)
LEMMA SameView ==
  part = "servers" =>
    /\ Calls!Init <=> ServerProof!Calls!Init
    /\ (part = "servers")' => (Calls!Next <=> ServerProof!Calls!Next)
    /\ (part = "servers")' => (UNCHANGED Calls!vars <=> UNCHANGED ServerProof!Calls!vars)
BY DEF
  Servers!Calling, ServerProof!Calling, Servers!Returned, ServerProof!Returned, Calls!Init,
  ServerProof!Calls!Init, Calls!Next, ServerProof!Calls!Next, Calls!vars, ServerProof!Calls!vars,
  Calls!Ask, ServerProof!Calls!Ask, Calls!Run, ServerProof!Calls!Run, Calls!Return,
  ServerProof!Calls!Return, Calls!Forget, ServerProof!Calls!Forget

\* McpManager: a remote tool runs at most once for a call and only while its caller waits,
\* and a success means that it ran; CallsKept is this with the fairness of the return.
THEOREM CallsCorrect == AllSafety => Calls!Safety
<1> DEFINE I == part = "servers" => ServerProof!CallInv
<1>1. AllInit => I /\ Calls!Init
  <2> SUFFICES ASSUME AllInit PROVE I /\ Calls!Init
    OBVIOUS
  <2>1. CASE part = "servers"
    BY <2>1, SameAssumptions, ServersPart, SameView, ServerProof!CallsBegin
  <2>2. CASE part # "servers"
    BY <2>2 DEF Calls!Init
  <2> QED
    BY <2>1, <2>2
<1>2. I /\ [AllNext]_all => I'
  BY SameAssumptions, ServersPart, ServerProof!CallInvKept
<1>3. I /\ [AllNext]_all => [Calls!Next]_(Calls!vars)
  <2> SUFFICES ASSUME I, [AllNext]_all PROVE [Calls!Next]_(Calls!vars)
    OBVIOUS
  <2>1. CASE part = "servers"
    BY <2>1, SameAssumptions, ServersPart, SameView, ServerProof!CallsStep
  <2>2. CASE part # "servers"
    BY <2>2, ServersPart DEF Calls!vars
  <2> QED
    BY <2>1, <2>2
<1> QED
  BY <1>1, <1>2, <1>3, PTL DEF AllSafety, Calls!Safety

-----------------------------------------------------------------------------
(* The command of a tool.  Its proof is on the instance itself: InStep is  *)
(* what each place of the tool's way says of the command.                  *)

LEMMA ToolSteps ==
  [Tools!Next]_(Tools!vars) <=>
    \/ Tools!Blocked \/ Tools!NotStarted \/ Tools!Background \/ Tools!Foreground
    \/ Tools!Read \/ Tools!Ended \/ Tools!GivesUp \/ Tools!Look \/ Tools!Clock \/ Tools!Collected
    \/ Tools!Expire \/ Tools!CommandWrites \/ Tools!CommandEnds \/ Tools!HeirEnds
    \/ UNCHANGED Tools!vars
BY DEF Tools!Next, Tools!Waiter, Tools!Start, Tools!World, Tools!Command

ToolReplies ==
  [kind : {"none", "blocked", "error", "background", "ended", "timeout"},
   output : 0..ToolOutput, cut : BOOLEAN]

LEMMA ToolInit == Tools!Init => Tools!Inv
<1> SUFFICES ASSUME Tools!Init PROVE Tools!Inv
  OBVIOUS
<1>1. x1 \in Tools!Call /\ x2 \in Tools!Script /\ x3 \in Tools!Request
  BY ProcessesAssumption, Zenon DEF Tools!Init, Tools!Request
<1>2. 0 \in 0..ToolPipe /\ 0 \in 0..ToolOutput
  BY ProcessesAssumption
<1>3. x12 = [kind |-> "none", output |-> 0, cut |-> FALSE]
  BY DEF Tools!Init, Tools!Answer
<1>4. Tools!TypeOK
  <2>1. x12 \in ToolReplies
    BY <1>2, <1>3 DEF ToolReplies
  <2> QED
    BY <1>1, <1>2, <2>1 DEF Tools!TypeOK, Tools!Init, Tools!Isolation, Tools!Open, ToolReplies
<1>5. x2.writes \in 0..ToolOutput
  BY <1>1 DEF Tools!Script
<1>6. Tools!InStep
  BY <1>3, <1>5, ProcessesAssumption DEF Tools!Init, Tools!Unanswered, Tools!NotRun, Tools!Waits, Tools!GivenUp,
     Tools!Written, Tools!OutputIsTold, Tools!TimeoutsAreTrue, Tools!NothingElseRuns, Tools!InStep
<1> QED
  BY <1>4, <1>6 DEF Tools!Inv, Tools!Sandboxed, Tools!Init

LEMMA ToolIsolation ==
  x3 \in Tools!Request =>
    Tools!Isolated(Tools!resolve_sandbox_status_for_request(x3)) \in Tools!Isolation
BY DEF Tools!Request, Tools!Isolated, Tools!Isolation, Tools!Open, Tools!resolve_sandbox_status_for_request

\* Room for one more unit.
LEMMA OneMore ==
  ASSUME NEW m \in Nat, NEW k \in 0..m
  PROVE  /\ k < m => k + 1 \in 0..m
         /\ \A n \in 0..m :
              n > 0 /\ k + n <= m =>
                k + 1 \in 0..m /\ (k + 1) + (n - 1) <= m /\ k + (n - 1) <= m
OBVIOUS

LEMMA ScriptGoesOn ==
  \A s \in Tools!Script :
    /\ s.writes \in 0..ToolOutput
    /\ s.writes > 0 => [s EXCEPT !.writes = s.writes - 1] \in Tools!Script
BY ProcessesAssumption DEF Tools!Script

\* What an answer of Ended says: all that was written, or bash's limit and that it was cut.
ToolEnds ==
  /\ x12'.kind = "ended" /\ x12' = [kind |-> "ended", output |-> x12'.output, cut |-> x12'.cut]
  /\ x12'.cut \in BOOLEAN
  /\ x12'.cut <=> x1.tool = "bash" /\ x8 > ToolLimit
  /\ x12'.output = IF x12'.cut THEN ToolLimit ELSE x8

LEMMA ToolEnded ==
  ASSUME Tools!Ended, x8 \in 0..ToolOutput
  PROVE  /\ x10' = "done" /\ UNCHANGED <<x1, x2, x3, x4, x5, x6, x7, x8, x9, x11>>
         /\ x10 = "await" /\ Tools!AtEnd /\ ToolEnds
<1>1. x8 \in Nat /\ ToolLimit \in Nat /\ (x8 <= ToolLimit <=> ~(x8 > ToolLimit))
  BY ProcessesAssumption
<1>2. ToolEnds
  <2>1. ASSUME NEW o, NEW c \in BOOLEAN, x12' = [kind |-> "ended", output |-> o, cut |-> c],
               c <=> x1.tool = "bash" /\ x8 > ToolLimit, o = IF c THEN ToolLimit ELSE x8
        PROVE  ToolEnds
    BY <2>1 DEF ToolEnds
  <2>2. CASE x1.tool = "bash" /\ x8 <= ToolLimit
    <3>1. x12' = [kind |-> "ended", output |-> x8, cut |-> FALSE]
      BY <2>2 DEF Tools!Ended, Tools!truncate_output
    <3> QED
      BY <1>1, <2>1, <2>2, <3>1
  <2>3. CASE x1.tool = "bash" /\ ~(x8 <= ToolLimit)
    <3>1. x12' = [kind |-> "ended", output |-> ToolLimit, cut |-> TRUE]
      BY <2>3 DEF Tools!Ended, Tools!truncate_output
    <3> QED
      BY <1>1, <2>1, <2>3, <3>1
  <2>4. CASE x1.tool # "bash"
    <3>1. x12' = [kind |-> "ended", output |-> x8, cut |-> FALSE]
      BY <2>4, Zenon DEF Tools!Ended, Tools!Returns, Tools!Answer
    <3> QED
      BY <2>1, <2>4, <3>1
  <2> QED
    BY <2>2, <2>3, <2>4
<1> QED
  BY <1>2 DEF Tools!Ended, Tools!Returns

LEMMA ToolEndsTyped == ASSUME ToolEnds, x8 \in 0..ToolOutput PROVE x12' \in ToolReplies
<1>1. x12'.output \in 0..ToolOutput
  BY ProcessesAssumption DEF ToolEnds
<1>2. x12'.cut \in BOOLEAN
  BY DEF ToolEnds
<1> DEFINE o == x12'.output
           c == x12'.cut
<1>3. x12' = [kind |-> "ended", output |-> o, cut |-> c]
  BY DEF ToolEnds
<1> HIDE DEF o, c
<1> QED
  BY <1>1, <1>2, <1>3 DEF ToolReplies, o, c

LEMMA ToolTyped == Tools!TypeOK /\ Tools!Written /\ [Tools!Next]_(Tools!vars) => Tools!TypeOK'
<1> SUFFICES ASSUME Tools!TypeOK, Tools!Written, [Tools!Next]_(Tools!vars) PROVE Tools!TypeOK'
  OBVIOUS
<1>0. 0 \in 0..ToolPipe /\ 0 \in 0..ToolOutput
  BY ProcessesAssumption
<1> USE <1>0 DEF Tools!TypeOK
<1>1. CASE Tools!Blocked
  BY <1>1 DEF Tools!Blocked, Tools!Answer
<1>2. CASE Tools!NotStarted
  BY <1>2 DEF Tools!NotStarted, Tools!Answer
<1>3. CASE Tools!Background
  BY <1>3, ToolIsolation DEF Tools!Background, Tools!Spawned, Tools!Answer, Tools!Isolation, Tools!Open
<1>4. CASE Tools!Foreground
  BY <1>4, ToolIsolation DEF Tools!Foreground, Tools!Spawned, Tools!Isolation, Tools!Open
<1>5. CASE Tools!Read
  BY <1>5, ZenonT(40) DEF Tools!Read
<1>6. CASE Tools!Ended
  <2>1. x10' = "done" /\ UNCHANGED <<x1, x2, x3, x4, x5, x6, x7, x8, x9, x11>> /\ ToolEnds
    BY <1>6, ToolEnded
  <2>2. x12' \in ToolReplies
    BY <2>1, ToolEndsTyped
  <2> QED
    BY <2>1, <2>2, ZenonT(40) DEF ToolReplies
<1>7. CASE Tools!GivesUp
  BY <1>7 DEF Tools!GivesUp, Tools!Returns, Tools!Answer
<1>8. CASE Tools!Look
  BY <1>8 DEF Tools!Look
<1>9. CASE Tools!Clock
  BY <1>9 DEF Tools!Clock
<1>10. CASE Tools!Collected
  <2>1. x12' \in ToolReplies
    <3>1. \E k \in {"ended", "timeout"}, n \in {x8, 0} : x12' = [kind |-> k, output |-> n, cut |-> FALSE]
      BY <1>10, Zenon DEF Tools!Collected, Tools!Returns, Tools!Answer
    <3>2. PICK k \in {"ended", "timeout"}, n \in {x8, 0} : x12' = [kind |-> k, output |-> n, cut |-> FALSE]
      BY <3>1
    <3>3. n \in 0..ToolOutput
      BY <1>0, Zenon
    <3> HIDE DEF Tools!TypeOK
    <3> QED
      BY <3>2, <3>3 DEF ToolReplies
  <2> QED
    BY <1>10, <2>1 DEF ToolReplies, Tools!Collected, Tools!Returns, Tools!Answer
<1>11. CASE Tools!Expire
  BY <1>11 DEF Tools!Expire
<1>12. CASE Tools!CommandWrites
  <2>1. x2' \in Tools!Script
    BY <1>12, ScriptGoesOn DEF Tools!CommandWrites
  <2> DEFINE n == x2.writes
  <2>2. n \in 0..ToolOutput /\ n > 0 /\ x8 + n <= ToolOutput /\ x8 \in 0..ToolOutput /\ x6 \in 0..ToolPipe
    BY <1>12, ScriptGoesOn DEF Tools!CommandWrites, Tools!Written
  <2> HIDE DEF n
  <2>3. x8 + 1 \in 0..ToolOutput
    BY <2>2, OneMore, ProcessesAssumption
  <2>4. CASE x7 = "pipe"
    <3>1. x6 < ToolPipe /\ x6' = x6 + 1 /\ x8' = x8 + 1
      BY <1>12, <2>4 DEF Tools!CommandWrites
    <3>2. x6' \in 0..ToolPipe
      BY <2>2, <3>1, OneMore, ProcessesAssumption
    <3> QED
      BY <1>12, <2>1, <2>3, <3>1, <3>2, ZenonT(40) DEF Tools!CommandWrites
  <2>5. CASE x7 # "pipe"
    BY <1>12, <2>1, <2>5 DEF Tools!CommandWrites
  <2> QED
    BY <2>4, <2>5
<1>13. CASE Tools!CommandEnds
  BY <1>13 DEF Tools!CommandEnds
<1>14. CASE Tools!HeirEnds
  BY <1>14, ZenonT(40) DEF Tools!HeirEnds
<1>15. CASE UNCHANGED Tools!vars
  <2>1. /\ x1' = x1 /\ x2' = x2 /\ x3' = x3 /\ x4' = x4 /\ x5' = x5 /\ x6' = x6
        /\ x7' = x7 /\ x8' = x8 /\ x9' = x9 /\ x10' = x10 /\ x11' = x11 /\ x12' = x12
    BY <1>15 DEF Tools!vars
  <2> QED
    BY <2>1, ZenonT(40)
<1> QED
  BY <1>1, <1>2, <1>3, <1>4, <1>5, <1>6, <1>7, <1>8, <1>9, <1>10, <1>11, <1>12, <1>13,
     <1>14, <1>15, ToolSteps

\* The isolation of a command is chosen when it is spawned.
LEMMA ToolSandboxed == Tools!NotRun /\ Tools!Sandboxed /\ [Tools!Next]_(Tools!vars) => Tools!Sandboxed'
<1> SUFFICES ASSUME Tools!NotRun, Tools!Sandboxed, [Tools!Next]_(Tools!vars) PROVE Tools!Sandboxed'
  OBVIOUS
<1> USE DEF Tools!Sandboxed
<1>1. CASE Tools!Blocked
  BY <1>1 DEF Tools!Blocked, Tools!Answer
<1>2. CASE Tools!NotStarted
  BY <1>2 DEF Tools!NotStarted, Tools!Answer
<1>3. CASE Tools!Background
  BY <1>3 DEF Tools!Background, Tools!Spawned, Tools!Answer
<1>4. CASE Tools!Foreground
  BY <1>4 DEF Tools!Foreground, Tools!Spawned
<1>5. CASE Tools!Read
  BY <1>5 DEF Tools!Read
<1>6. CASE Tools!Ended
  BY <1>6 DEF Tools!Ended, Tools!Returns, Tools!Answer
<1>7. CASE Tools!GivesUp
  BY <1>7 DEF Tools!GivesUp, Tools!Returns, Tools!Answer
<1>8. CASE Tools!Look
  BY <1>8 DEF Tools!Look
<1>9. CASE Tools!Clock
  BY <1>9 DEF Tools!Clock, Tools!NotRun
<1>10. CASE Tools!Collected
  BY <1>10 DEF Tools!Collected, Tools!Returns, Tools!Answer
<1>11. CASE Tools!Expire
  BY <1>11 DEF Tools!Expire
<1>12. CASE Tools!CommandWrites
  BY <1>12 DEF Tools!CommandWrites, Tools!NotRun
<1>13. CASE Tools!CommandEnds
  BY <1>13 DEF Tools!CommandEnds, Tools!NotRun
<1>14. CASE Tools!HeirEnds
  BY <1>14 DEF Tools!HeirEnds
<1>15. CASE UNCHANGED Tools!vars
  <2>1. UNCHANGED <<x1, x3, x4, x9>>
    BY <1>15 DEF Tools!vars
  <2> QED
    BY <2>1
<1> QED
  BY <1>1, <1>2, <1>3, <1>4, <1>5, <1>6, <1>7, <1>8, <1>9, <1>10, <1>11, <1>12, <1>13,
     <1>14, <1>15, ToolSteps

LEMMA ToolStep == Tools!Inv /\ [Tools!Next]_(Tools!vars) => Tools!Inv'
<1> SUFFICES ASSUME Tools!Inv, [Tools!Next]_(Tools!vars) PROVE Tools!InStep'
  BY ToolTyped, ToolSandboxed DEF Tools!Inv, Tools!InStep
<1>16. Tools!InStep /\ Tools!TypeOK
  BY DEF Tools!Inv
<1>17. /\ x2.writes \in Nat /\ x8 \in Nat
      /\ x4 \in {"none", "running", "exited", "killed"}
      /\ ToolOutput \in Nat
  <2>1. x2.writes \in 0..ToolOutput /\ x8 \in 0..ToolOutput
    BY <1>16, ScriptGoesOn, Zenon DEF Tools!TypeOK
  <2>2. x4 \in {"none", "running", "exited", "killed"}
    BY <1>16, Zenon DEF Tools!TypeOK
  <2> QED
    BY <2>1, <2>2, ProcessesAssumption
<1> USE <1>16, <1>17 DEF Tools!InStep, Tools!Unanswered, Tools!NotRun, Tools!Waits, Tools!GivenUp, Tools!Written,
  Tools!OutputIsTold, Tools!TimeoutsAreTrue, Tools!NothingElseRuns, Tools!Polled, Tools!HeirHolds
<1>1. CASE Tools!Blocked
  BY <1>1 DEF Tools!Blocked, Tools!Answer
<1>2. CASE Tools!NotStarted
  BY <1>2 DEF Tools!NotStarted, Tools!Answer
<1>3. CASE Tools!Background
  BY <1>3 DEF Tools!Background, Tools!Spawned, Tools!Answer
<1>4. CASE Tools!Foreground
  BY <1>4 DEF Tools!Foreground, Tools!Spawned
<1>5. CASE Tools!Read
  BY <1>5 DEF Tools!Read
<1>6. CASE Tools!Ended
  <2>1. x8 \in 0..ToolOutput
    BY <1>16 DEF Tools!TypeOK
  <2>2. /\ x10' = "done" /\ UNCHANGED <<x1, x2, x3, x4, x5, x6, x7, x8, x9, x11>>
        /\ x10 = "await" /\ Tools!AtEnd /\ ToolEnds
    BY <1>6, <2>1, ToolEnded
  <2>3. x4 = "exited" /\ x2.writes = 0 /\ ~Tools!HeirHolds
    BY <2>2 DEF Tools!AtEnd
  <2> QED
    BY <2>2, <2>3 DEF ToolEnds
<1>7. CASE Tools!GivesUp
  BY <1>7 DEF Tools!GivesUp, Tools!Returns, Tools!Answer
<1>8. CASE Tools!Look
  BY <1>8 DEF Tools!Look
<1>9. CASE Tools!Clock
  BY <1>9 DEF Tools!Clock
<1>10. CASE Tools!Collected
  <2>1. CASE x10 = "collect"
    BY <1>10, <2>1 DEF Tools!Collected, Tools!Returns, Tools!Answer, Tools!AtEnd
  <2>2. CASE x10 = "collect late"
    <3>1. PICK n : x10' = "done" /\ x12' = [kind |-> "timeout", output |-> n, cut |-> FALSE]
      BY <1>10, <2>2, Zenon DEF Tools!Collected, Tools!Returns, Tools!Answer
    <3> HIDE DEF Tools!InStep
    <3>2. x10' = "done" /\ x12'.kind = "timeout"
      BY <3>1
    <3> USE DEF Tools!InStep
    <3>3. UNCHANGED <<x1, x2, x4, x5, x7, x8, x11>> /\ x4 # "running" /\ ~Tools!HeirHolds
      BY <1>10 DEF Tools!Collected, Tools!AtEnd
    <3> QED
      BY <2>2, <3>2, <3>3
  <2> QED
    BY <1>10, <2>1, <2>2 DEF Tools!Collected
<1>11. CASE Tools!Expire
  BY <1>11 DEF Tools!Expire
<1>12. CASE Tools!CommandWrites
  <2>1. x2.writes > 0 /\ x2'.writes = x2.writes - 1
    BY <1>12, <1>16 DEF Tools!CommandWrites, Tools!TypeOK, Tools!Script
  <2> DEFINE n == x2.writes
             m == x2'.writes
  <2>2. n \in 0..ToolOutput /\ n > 0 /\ m = n - 1 /\ x8 + n <= ToolOutput /\ x8 \in 0..ToolOutput
    BY <2>1, <1>16, ScriptGoesOn DEF Tools!TypeOK
  <2>3. x8' = x8 + 1 \/ x8' = x8
    BY <1>12 DEF Tools!CommandWrites
  <2> HIDE DEF n, m
  <2>4. x8' + m <= ToolOutput
    BY <1>17, <2>2, <2>3, OneMore
  <2>5. /\ x4 = "running" /\ x12.kind # "ended"
        /\ x4' = "running" \/ (x7 = "closed" /\ x4' = "killed")
        /\ x1' = x1 /\ x5' = x5 /\ x7' = x7 /\ x10' = x10 /\ x11' = x11 /\ x12' = x12
    BY <1>12 DEF Tools!CommandWrites
  <2> USE DEF n, m
  <2> QED
    BY <2>1, <2>4, <2>5
<1>13. CASE Tools!CommandEnds
  BY <1>13 DEF Tools!CommandEnds
<1>14. CASE Tools!HeirEnds
  BY <1>14 DEF Tools!HeirEnds
<1>15. CASE UNCHANGED Tools!vars
  BY <1>15 DEF Tools!vars
<1> QED
  BY <1>1, <1>2, <1>3, <1>4, <1>5, <1>6, <1>7, <1>8, <1>9, <1>10, <1>11, <1>12, <1>13,
     <1>14, <1>15, ToolSteps

LEMMA ToolAnswers == Tools!Inv => Tools!AnswersRight
<1> SUFFICES ASSUME Tools!Inv PROVE Tools!SandboxIsTold
  BY DEF Tools!Inv, Tools!InStep, Tools!AnswersRight
<1>1. x3 \in Tools!Request /\ Tools!Sandboxed
  BY DEF Tools!Inv, Tools!TypeOK
<1> QED
  BY <1>1 DEF Tools!SandboxIsTold, Tools!Sandboxed, Tools!Request,
       Tools!Isolated, Tools!Open, Tools!resolve_sandbox_status_for_request

\* ToolProcess: outputs are whole and timeouts true, nothing is left running unannounced,
\* and the sandbox is as told, whatever the command and its heir do.
THEOREM ToolsCorrect == AllSafety => []ToolsAnswerRight
<1>1. AllInit /\ part = "tools" => Tools!Inv
  BY ToolInit DEF AllInit
<1>2. part = "tools" /\ [AllNext]_all => (part = "tools")' /\ [Tools!Next]_(Tools!vars)
  BY DEF AllNext, all, Tools!vars
<1>3. ~(part = "tools") /\ [AllNext]_all => (~(part = "tools"))'
  BY DEF AllNext, all, from11, from9
<1>4. Tools!Inv => ToolsAnswerRight
  BY ToolAnswers DEF Tools!Inv, ToolsAnswerRight
<1>5. ~(part = "tools") => ToolsAnswerRight
  BY DEF ToolsAnswerRight
<1> QED
  BY <1>1, <1>2, <1>3, <1>4, <1>5, ToolStep, PTL DEF AllSafety
===============================================================================
