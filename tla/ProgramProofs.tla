---------------------------- MODULE ProgramProofs -----------------------------
(***************************************************************************)
(* The promises of the components of Program that a program keeps to while *)
(* it runs: the plan mode, the prompt cache, the Docker monitor, the agent *)
(* snapshots and the runtimes, for every value of their constants.  The    *)
(* part never changes, so that a behaviour is one of its component from    *)
(* the beginning on, or never one.                                         *)
(***************************************************************************)
EXTENDS Program, SequenceTheorems, FiniteSetTheorems, TLAPS

-----------------------------------------------------------------------------
(* Plan mode.                                                              *)

LEMMA PlanInit == Plans!Init => Plans!Inv
<1> SUFFICES ASSUME Plans!Init PROVE Plans!Inv
  OBVIOUS
<1> PICK m \in Plans!Mode : x1 = [state |-> "read", mode |-> m] /\ x5 = m
  BY DEF Plans!Init
<1>1. x2 = Plans!NoRecord /\ x3 = Plans!NoTool /\ x4 = Plans!NoConfig /\ x6 = FALSE
  BY DEF Plans!Init
<1> QED
  BY <1>1 DEF Plans!Inv, Plans!TypeOK, Plans!CallIsRight, Plans!RecordIsNotPlan, Plans!InOrder, Plans!OwnPlanIsOwn,
     Plans!OwnModeKept, Plans!Mode, Plans!OwnMode, Plans!NoRecord, Plans!NoTool, Plans!NoConfig, Plans!Recorded,
     Plans!Todo

\* What may be left of a call.
LEMMA TodoKinds ==
  /\ <<>> \in Plans!Todo /\ <<"clear">> \in Plans!Todo /\ <<"set">> \in Plans!Todo
  /\ <<"record", "set">> \in Plans!Todo /\ <<"clear", "record", "set">> \in Plans!Todo
  /\ <<"restore", "clear">> \in Plans!Todo
BY Zenon DEF Plans!Todo

LEMMA TodoDiffer ==
  /\ \A todo \in {<<"clear">>, <<"set">>, <<"record", "set">>, <<"clear", "record", "set">>,
                  <<"restore", "clear">>} : todo # <<>>
  /\ \A todo \in {<<>>, <<"set">>, <<"record", "set">>, <<"clear", "record", "set">>, <<"restore", "clear">>} :
       todo # <<"clear">>
  /\ \A todo \in {<<>>, <<"clear">>, <<"record", "set">>, <<"clear", "record", "set">>, <<"restore", "clear">>} :
       todo # <<"set">>
  /\ \A todo \in {<<>>, <<"clear">>, <<"set">>, <<"clear", "record", "set">>, <<"restore", "clear">>} :
       todo # <<"record", "set">>
  /\ \A todo \in {<<>>, <<"clear">>, <<"set">>, <<"record", "set">>, <<"restore", "clear">>} :
       todo # <<"clear", "record", "set">>
  /\ \A todo \in {<<>>, <<"clear">>, <<"set">>, <<"record", "set">>, <<"clear", "record", "set">>} :
       todo # <<"restore", "clear">>
OBVIOUS

LEMMA TodoHeads ==
  ASSUME NEW todo \in Plans!Todo, todo # <<>>
  PROVE  /\ Head(todo) = "record" => todo = <<"record", "set">>
         /\ Head(todo) = "set" => todo = <<"set">>
         /\ Head(todo) = "restore" => todo = <<"restore", "clear">>
         /\ Head(todo) = "clear" => todo \in {<<"clear">>, <<"clear", "record", "set">>}
<1>1. /\ Head(<<"clear">>) = "clear" /\ Head(<<"set">>) = "set" /\ Head(<<"record", "set">>) = "record"
      /\ Head(<<"clear", "record", "set">>) = "clear" /\ Head(<<"restore", "clear">>) = "restore"
  OBVIOUS
<1>2. todo \in {<<"clear">>, <<"set">>, <<"record", "set">>, <<"clear", "record", "set">>, <<"restore", "clear">>}
  BY Zenon DEF Plans!Todo
<1>3. /\ "clear" \notin {"record", "set", "restore"} /\ "set" \notin {"record", "clear", "restore"}
      /\ "record" \notin {"clear", "set", "restore"} /\ "restore" \notin {"record", "set", "clear"}
  OBVIOUS
<1> QED
  BY <1>1, <1>2, <1>3, Zenon

LEMMA TodoTails ==
  /\ Tail(<<"clear">>) = <<>> /\ Tail(<<"set">>) = <<>> /\ Tail(<<"record", "set">>) = <<"set">>
  /\ Tail(<<"clear", "record", "set">>) = <<"record", "set">>
  /\ Tail(<<"restore", "clear">>) = <<"clear">>
OBVIOUS

LEMMA CallIsOne ==
  ASSUME NEW name \in {"enter", "exit"}, NEW mode \in Plans!Mode, NEW todo \in Plans!Todo,
         NEW result \in {"none", "ok", "error"},
         x3' = [name |-> name, mode |-> mode, todo |-> todo, result |-> result],
         result # "none" => todo = <<>>,
         todo \in {<<"record", "set">>, <<"clear", "record", "set">>} => mode # "plan"
  PROVE  Plans!CallIsRight'
<1>1. x3'.name = name /\ x3'.mode = mode /\ x3'.todo = todo /\ x3'.result = result
  OBVIOUS
<1>2. x3' \in [name : {"none", "enter", "exit"}, mode : Plans!Mode, todo : Plans!Todo,
              result : {"none", "ok", "error"}]
  OBVIOUS
<1>3. x3'.name # "none"
  BY <1>1
<1> QED
  BY <1>1, <1>2, <1>3, Zenon DEF Plans!CallIsRight

\* A call begins with what its decision leaves to do.
LEMMA PlanCall == Plans!Inv /\ Plans!Call => Plans!Inv'
<1> SUFFICES ASSUME Plans!Inv, Plans!Call PROVE Plans!Inv'
  OBVIOUS
<1>1. UNCHANGED <<x1, x2, x4, x5, x6>>
  BY DEF Plans!Call
<1>2. PICK name \in {"enter", "exit"} :
      x3' = IF Plans!Unreadable THEN [Plans!NoTool EXCEPT !.name = name, !.result = "error"]
            ELSE [name |-> name, result |-> "none",
                  mode |-> IF name = "enter" THEN Plans!Doc ELSE x2.mode,
                  todo |-> IF name = "enter" THEN Plans!EnterSteps ELSE Plans!ExitSteps]
  BY DEF Plans!Call
<1>3. Plans!EnterSteps = IF Plans!Doc = "plan" THEN <<>>
        ELSE IF Plans!Recorded THEN <<"clear", "record", "set">> ELSE <<"record", "set">>
  BY DEF Plans!EnterSteps
<1>4. Plans!Doc \in Plans!Mode /\ (~x6 => Plans!Doc = x1.mode)
  BY DEF Plans!Inv, Plans!TypeOK, Plans!Doc, Plans!Mode
<1>5. Plans!CallIsRight'
  <2>1. CASE Plans!Unreadable
    <3>1. x3' = [name |-> name, mode |-> "absent", todo |-> <<>>, result |-> "error"]
      BY <1>2, <2>1 DEF Plans!NoTool
    <3>2. "absent" \in Plans!Mode
      BY DEF Plans!Mode
    <3> QED
      BY <3>1, <3>2, CallIsOne, TodoKinds, TodoDiffer, Zenon
  <2>2. CASE ~Plans!Unreadable /\ name = "enter"
    <3>1. x3' = [name |-> name, mode |-> Plans!Doc, todo |-> Plans!EnterSteps, result |-> "none"]
      BY <1>2, <2>2
    <3>2. Plans!EnterSteps \in Plans!Todo
      BY <1>3, TodoKinds, Zenon
    <3>3. Plans!Doc = "plan" => Plans!EnterSteps = <<>>
      BY <1>3, Zenon
    <3> QED
      <4>1. Plans!EnterSteps \in {<<"record", "set">>, <<"clear", "record", "set">>} => Plans!Doc # "plan"
        BY <3>3, TodoDiffer, Zenon
      <4> HIDE DEF Plans!EnterSteps
      <4> QED
        BY <1>4, <3>1, <3>2, <4>1, CallIsOne
  <2>3. CASE ~Plans!Unreadable /\ name = "exit"
    <3>1. x3' = [name |-> name, mode |-> x2.mode, todo |-> Plans!ExitSteps, result |-> "none"]
      BY <1>2, <2>3
    <3>2. x2.mode \in Plans!Mode
      BY DEF Plans!Inv, Plans!TypeOK
    <3>3. Plans!ExitSteps \in {<<>>, <<"clear">>, <<"restore", "clear">>}
      BY Zenon DEF Plans!ExitSteps
    <3>4. Plans!ExitSteps \in Plans!Todo
      BY <3>3, TodoKinds, Zenon
    <3>5. Plans!ExitSteps \notin {<<"record", "set">>, <<"clear", "record", "set">>}
      BY <3>3, TodoDiffer, Zenon
    <3> QED
      BY <3>1, <3>2, <3>4, <3>5, CallIsOne
  <2> QED
    BY <2>1, <2>2, <2>3
<1>6. ~x6 => Plans!InOrder'
  BY <1>1, <1>2, <1>3, <1>4 DEF Plans!InOrder, Plans!BeforeEnter, Plans!BeforeExit, Plans!NoTool, Plans!ExitSteps, Plans!Recorded, Plans!Inv
<1> QED
  BY <1>1, <1>5, <1>6 DEF Plans!Inv, Plans!TypeOK, Plans!RecordIsNotPlan, Plans!OwnPlanIsOwn, Plans!OwnModeKept,
     Plans!Recorded, Plans!CallIsRight

\* The steps of a call.
LEMMA PlanSteps ==
  ASSUME Plans!Inv, Plans!Busy, x3.todo # <<>>, Plans!GoOn
  PROVE  /\ Plans!CallIsRight'
         /\ x3'.name = x3.name /\ x3'.mode = x3.mode /\ x3'.result = "none"
         /\ x3'.todo = Tail(x3.todo)
<1>1. x3 \in [name : {"none", "enter", "exit"}, mode : Plans!Mode, todo : Plans!Todo, result : {"none", "ok", "error"}]
  BY DEF Plans!Inv, Plans!CallIsRight
<1>2. x3' = [x3 EXCEPT !.todo = Tail(@)]
  BY DEF Plans!GoOn
<1>3. x3'.name = x3.name /\ x3'.mode = x3.mode /\ x3'.result = x3.result /\ x3'.todo = Tail(x3.todo)
  BY <1>1, <1>2
<1>4. Tail(x3.todo) \in Plans!Todo /\ (Tail(x3.todo) = <<"record", "set">> => x3.todo = <<"clear", "record", "set">>)
  <2>1. x3.todo \in {<<"clear">>, <<"set">>, <<"record", "set">>, <<"clear", "record", "set">>, <<"restore", "clear">>}
    BY <1>1, Zenon DEF Plans!Todo
  <2> QED
    BY <2>1, TodoKinds, TodoTails, TodoDiffer, Zenon
<1>5. Tail(x3.todo) # <<"clear", "record", "set">>
  <2>1. x3.todo \in {<<"clear">>, <<"set">>, <<"record", "set">>, <<"clear", "record", "set">>, <<"restore", "clear">>}
    BY <1>1, Zenon DEF Plans!Todo
  <2>2. <<"record", "set">> # <<"clear", "record", "set">>
    OBVIOUS
  <2> QED
    BY <2>1, <2>2, TodoTails, TodoDiffer, Zenon
<1>6. x3.result = "none" /\ x3.name # "none"
  BY DEF Plans!Busy
<1>7. x3.name \in {"enter", "exit"} /\ x3.mode \in Plans!Mode
  BY <1>1, <1>6
<1>8. x3' = [name |-> x3.name, mode |-> x3.mode, todo |-> Tail(x3.todo), result |-> "none"]
  BY <1>1, <1>2, <1>6
<1>9. x3.todo \in {<<"record", "set">>, <<"clear", "record", "set">>} => x3.mode # "plan"
  BY DEF Plans!Inv, Plans!CallIsRight
<1>10. Tail(x3.todo) \in {<<"record", "set">>, <<"clear", "record", "set">>} => x3.mode # "plan"
  BY <1>4, <1>5, <1>9, Zenon
<1>11. Plans!CallIsRight'
  BY <1>4, <1>7, <1>8, <1>10, CallIsOne, Zenon
<1> QED
  BY <1>3, <1>6, <1>11

LEMMA PlanWhole ==
  ASSUME Plans!TypeOK', Plans!CallIsRight', Plans!RecordIsNotPlan',
         x4' \in [busy : BOOLEAN, mode : Plans!Mode, sets : BOOLEAN],
         ~x6' => x1'.state = "read" /\ Plans!InOrder' /\ Plans!OwnPlanIsOwn' /\ Plans!OwnModeKept'
  PROVE  Plans!Inv'
BY Zenon DEF Plans!Inv

LEMMA PlanWrites ==
  ASSUME Plans!Inv, Plans!Record \/ Plans!Clear \/ Plans!Set \/ Plans!Restore
  PROVE  Plans!Inv'
<1>1. Plans!Busy /\ x3.todo # <<>> /\ Plans!GoOn /\ UNCHANGED <<x4, x5, x6>>
  BY DEF Plans!Record, Plans!Clear, Plans!Set, Plans!Restore, Plans!At
<1>2. /\ Plans!CallIsRight'
      /\ x3'.name = x3.name /\ x3'.mode = x3.mode /\ x3'.result = "none"
      /\ x3'.todo = Tail(x3.todo)
  BY <1>1, PlanSteps
<1>3. x3.todo \in Plans!Todo /\ x3.mode \in Plans!Mode
  BY DEF Plans!Inv, Plans!CallIsRight
<1>4. x4' \in [busy : BOOLEAN, mode : Plans!Mode, sets : BOOLEAN]
  BY <1>1 DEF Plans!Inv
<1>5. CASE Plans!Record
  <2>1. x3.todo = <<"record", "set">>
    BY <1>3, <1>5, TodoHeads DEF Plans!Record, Plans!At
  <2>2. x3'.todo = <<"set">>
    BY <1>2, <2>1, TodoTails
  <2>3. x2' = [state |-> "read", mode |-> x3.mode] /\ x1' = x1
    BY <1>5 DEF Plans!Record
  <2>4. x3.mode # "plan"
    BY <2>1 DEF Plans!Inv, Plans!CallIsRight
  <2>5. ASSUME ~x6 PROVE ~Plans!Recorded /\ x1.mode = x3.mode /\ x3.name = "enter" /\ x1.state = "read"
    <3>1. x3.name \in {"enter", "exit"} /\ x3.result = "none" /\ Plans!InOrder /\ x1.state = "read"
      BY <1>1, <2>5 DEF Plans!Inv, Plans!CallIsRight, Plans!Busy
    <3>2. x3.name # "exit"
      BY <2>1, <3>1, TodoDiffer DEF Plans!InOrder, Plans!BeforeExit
    <3> QED
      BY <2>1, <3>1, <3>2 DEF Plans!InOrder, Plans!BeforeEnter
  <2>6. Plans!TypeOK' /\ Plans!RecordIsNotPlan'
    BY <1>1, <1>2, <1>3, <2>3, <2>4 DEF Plans!Inv, Plans!TypeOK, Plans!RecordIsNotPlan
  <2>7. ~x6 => Plans!InOrder'
    <3>1. ~x6 => Plans!Recorded' /\ x1'.mode = x2'.mode
      BY <2>3, <2>5 DEF Plans!Recorded
    <3> QED
      BY <1>2, <2>2, <2>5, <3>1, TodoDiffer DEF Plans!InOrder, Plans!BeforeEnter
  <2>8. ~x6 => Plans!OwnPlanIsOwn' /\ Plans!OwnModeKept'
    BY <1>1, <2>3, <2>4, <2>5 DEF Plans!Inv, Plans!OwnPlanIsOwn, Plans!OwnModeKept, Plans!Recorded
  <2> QED
    BY <1>1, <1>2, <1>4, <2>3, <2>5, <2>6, <2>7, <2>8, PlanWhole
<1>6. CASE Plans!Clear
  <2>1. x3.todo \in {<<"clear">>, <<"clear", "record", "set">>}
    BY <1>3, <1>6, TodoHeads DEF Plans!Clear, Plans!At
  <2>2. x3'.todo = IF x3.todo = <<"clear">> THEN <<>> ELSE <<"record", "set">>
    BY <1>2, <2>1, TodoTails
  <2>3. x2' = [state |-> "empty", mode |-> "absent"] /\ x1' = x1
    BY <1>6 DEF Plans!Clear, Plans!NoRecord
  <2>4. ASSUME ~x6
        PROVE  /\ x1.state = "read" /\ Plans!Recorded /\ x1.mode # "plan"
               /\ IF x3.todo = <<"clear">> THEN x3.name = "exit" ELSE x3.name = "enter" /\ x1.mode = x3.mode
    <3>1. x3.name \in {"enter", "exit"} /\ x3.result = "none" /\ Plans!InOrder /\ x1.state = "read"
      BY <1>1, <2>4 DEF Plans!Inv, Plans!CallIsRight, Plans!Busy
    <3>2. x3.todo = <<"clear">> => x3.name = "exit"
      BY <3>1, TodoDiffer DEF Plans!InOrder, Plans!BeforeEnter
    <3>3. x3.todo = <<"clear", "record", "set">> => x3.name = "enter" /\ x3.mode # "plan"
      BY <3>1, TodoDiffer DEF Plans!InOrder, Plans!BeforeExit, Plans!Inv, Plans!CallIsRight
    <3> QED
      BY <2>1, <3>1, <3>2, <3>3 DEF Plans!InOrder, Plans!BeforeEnter, Plans!BeforeExit
  <2>5. Plans!TypeOK' /\ Plans!RecordIsNotPlan'
    BY <1>1, <1>2, <1>3, <2>3 DEF Plans!Inv, Plans!TypeOK, Plans!RecordIsNotPlan, Plans!Recorded, Plans!Mode
  <2>6. ~x6 => Plans!InOrder'
    <3>1. ~Plans!Recorded'
      BY <2>3 DEF Plans!Recorded
    <3> QED
      BY <1>2, <2>2, <2>3, <2>4, <3>1, TodoDiffer DEF Plans!InOrder, Plans!BeforeEnter, Plans!BeforeExit
  <2>7. ~x6 => Plans!OwnPlanIsOwn' /\ Plans!OwnModeKept'
    BY <1>1, <2>3, <2>4 DEF Plans!Inv, Plans!OwnPlanIsOwn, Plans!OwnModeKept, Plans!Recorded
  <2> QED
    BY <1>1, <1>2, <1>4, <2>3, <2>4, <2>5, <2>6, <2>7, PlanWhole
<1>7. CASE Plans!Set
  <2>1. x3.todo = <<"set">>
    BY <1>3, <1>7, TodoHeads DEF Plans!Set, Plans!At
  <2>2. x3'.todo = <<>>
    BY <1>2, <2>1, TodoTails
  <2>3. x1' = [state |-> "read", mode |-> "plan"] /\ x2' = x2
    BY <1>7 DEF Plans!Set, Plans!Settings
  <2>4. ASSUME ~x6 PROVE x3.name = "enter" /\ Plans!Recorded /\ x1.mode = x2.mode
    <3>1. x3.name \in {"enter", "exit"} /\ x3.result = "none" /\ Plans!InOrder
      BY <1>1, <2>4 DEF Plans!Inv, Plans!CallIsRight, Plans!Busy
    <3>2. x3.name # "exit"
      BY <2>1, <3>1, TodoDiffer DEF Plans!InOrder, Plans!BeforeExit
    <3> QED
      BY <2>1, <3>1, <3>2 DEF Plans!InOrder, Plans!BeforeEnter
  <2>5. Plans!TypeOK' /\ Plans!RecordIsNotPlan'
    BY <1>1, <1>2, <1>3, <2>3 DEF Plans!Inv, Plans!TypeOK, Plans!RecordIsNotPlan, Plans!Recorded, Plans!Mode
  <2>6. ~x6 => Plans!InOrder'
    BY <1>2, <2>2, <2>3, <2>4, TodoDiffer DEF Plans!InOrder, Plans!BeforeEnter
  <2>7. ~x6 => Plans!OwnPlanIsOwn' /\ Plans!OwnModeKept'
    BY <1>1, <2>3, <2>4 DEF Plans!Inv, Plans!OwnPlanIsOwn, Plans!OwnModeKept, Plans!Recorded, Plans!RecordIsNotPlan
  <2> QED
    BY <1>1, <1>2, <1>4, <2>3, <2>5, <2>6, <2>7, PlanWhole
<1>8. CASE Plans!Restore
  <2>1. x3.todo = <<"restore", "clear">>
    BY <1>3, <1>8, TodoHeads DEF Plans!Restore, Plans!At
  <2>2. x3'.todo = <<"clear">>
    BY <1>2, <2>1, TodoTails
  <2>3. x1' = [state |-> "read", mode |-> x3.mode] /\ x2' = x2
    BY <1>8 DEF Plans!Restore, Plans!Settings
  <2>4. ASSUME ~x6 PROVE x3.name = "exit" /\ Plans!Recorded /\ x3.mode = x2.mode /\ x1.mode = "plan"
    <3>1. x3.name \in {"enter", "exit"} /\ x3.result = "none" /\ Plans!InOrder
      BY <1>1, <2>4 DEF Plans!Inv, Plans!CallIsRight, Plans!Busy
    <3>2. x3.name # "enter"
      BY <2>1, <3>1, TodoDiffer DEF Plans!InOrder, Plans!BeforeEnter
    <3> QED
      BY <2>1, <3>1, <3>2 DEF Plans!InOrder, Plans!BeforeExit
  <2>5. Plans!TypeOK' /\ Plans!RecordIsNotPlan'
    BY <1>1, <1>2, <1>3, <2>3 DEF Plans!Inv, Plans!TypeOK, Plans!RecordIsNotPlan, Plans!Recorded, Plans!Mode
  <2>6. ~x6 => Plans!InOrder'
    <3>1. ~x6 => Plans!Recorded' /\ x1'.mode # "plan"
      BY <2>3, <2>4 DEF Plans!Recorded, Plans!Inv, Plans!RecordIsNotPlan
    <3> QED
      BY <1>2, <2>2, <2>4, <3>1, TodoDiffer DEF Plans!InOrder, Plans!BeforeExit
  <2>7. ~x6 => Plans!OwnPlanIsOwn' /\ Plans!OwnModeKept'
    BY <1>1, <2>3, <2>4 DEF Plans!Inv, Plans!OwnPlanIsOwn, Plans!OwnModeKept, Plans!Recorded, Plans!RecordIsNotPlan
  <2> QED
    BY <1>1, <1>2, <1>4, <2>3, <2>5, <2>6, <2>7, PlanWhole
<1> QED
  BY <1>5, <1>6, <1>7, <1>8

\* The end of a call, and of the program within one.
LEMMA PlanDone == Plans!Inv /\ Plans!Done => Plans!Inv'
<1> SUFFICES ASSUME Plans!Inv, Plans!Done PROVE Plans!Inv'
  OBVIOUS
<1>1. /\ UNCHANGED <<x1, x2, x4, x5, x6>> /\ x3.todo = <<>> /\ x3' = [x3 EXCEPT !.result = "ok"]
      /\ x3.name # "none" /\ x3.result = "none"
  BY DEF Plans!Done, Plans!Busy
<1>2. /\ x3' \in [name : {"none", "enter", "exit"}, mode : Plans!Mode, todo : Plans!Todo,
                  result : {"none", "ok", "error"}]
      /\ x3'.name = x3.name /\ x3'.mode = x3.mode /\ x3'.todo = x3.todo /\ x3'.result = "ok"
  BY <1>1 DEF Plans!Inv, Plans!CallIsRight
<1>3. Plans!CallIsRight'
  BY <1>1, <1>2, Zenon DEF Plans!Inv, Plans!CallIsRight
<1>4. Plans!InOrder => Plans!InOrder'
  BY <1>1, <1>2 DEF Plans!InOrder, Plans!BeforeEnter, Plans!BeforeExit, Plans!Recorded
<1>5. Plans!TypeOK'
  BY <1>1, <1>2 DEF Plans!Inv, Plans!TypeOK
<1> QED
  BY <1>1, <1>3, <1>4, <1>5 DEF Plans!Inv, Plans!RecordIsNotPlan, Plans!OwnPlanIsOwn, Plans!OwnModeKept, Plans!Recorded

\* Without a call there is nothing to say of one.
LEMMA NoCall == x3' = Plans!NoTool => Plans!CallIsRight' /\ Plans!InOrder'
<1> SUFFICES ASSUME x3' = Plans!NoTool PROVE Plans!CallIsRight' /\ Plans!InOrder'
  OBVIOUS
<1>1. x3'.name = "none" /\ x3'.mode = "absent" /\ x3'.todo = <<>> /\ x3'.result = "none"
  BY DEF Plans!NoTool
<1>2. x3' \in [name : {"none", "enter", "exit"}, mode : Plans!Mode, todo : Plans!Todo,
              result : {"none", "ok", "error"}]
  BY TodoKinds DEF Plans!NoTool, Plans!Mode
<1>3. Plans!CallIsRight'
  BY <1>1, <1>2, TodoDiffer DEF Plans!CallIsRight
<1> QED
  BY <1>1, <1>3 DEF Plans!InOrder

LEMMA PlanCrash == Plans!Inv /\ Plans!Crash => Plans!Inv'
<1> SUFFICES ASSUME Plans!Inv, Plans!Crash PROVE Plans!Inv'
  OBVIOUS
<1>1. x3' = Plans!NoTool /\ x4' = Plans!NoConfig /\ x5' = x5 /\ Plans!Busy
  BY DEF Plans!Crash
<1>2. Plans!CallIsRight' /\ Plans!InOrder' /\ x3'.mode \in Plans!Mode /\ x3'.result = "none"
  BY <1>1, NoCall DEF Plans!NoTool, Plans!Mode
<1>3. x4' \in [busy : BOOLEAN, mode : Plans!Mode, sets : BOOLEAN]
  BY <1>1 DEF Plans!NoConfig, Plans!Mode
<1>4. CASE UNCHANGED <<x1, x2, x6>>
  BY <1>1, <1>2, <1>3, <1>4 DEF Plans!Inv, Plans!TypeOK, Plans!RecordIsNotPlan, Plans!OwnPlanIsOwn, Plans!OwnModeKept,
     Plans!Recorded
<1>5. CASE /\ \E half \in {"empty", "garbled"} : x1' = [state |-> half, mode |-> "absent"]
           /\ x6' = TRUE /\ UNCHANGED x2
  BY <1>1, <1>2, <1>3, <1>5 DEF Plans!Inv, Plans!TypeOK, Plans!RecordIsNotPlan, Plans!Recorded, Plans!Mode
<1>6. CASE /\ Plans!At("record")
           /\ \E half \in {"empty", "garbled"} : x2' = [state |-> half, mode |-> "absent"]
           /\ UNCHANGED <<x1, x6>>
  <2>1. x3.todo = <<"record", "set">>
    BY <1>6, TodoHeads DEF Plans!At, Plans!Inv, Plans!CallIsRight
  <2>2. ~x6 => ~Plans!Recorded
    <3>1. x3.name \in {"enter", "exit"} /\ x3.result = "none"
      BY <1>1 DEF Plans!Inv, Plans!CallIsRight, Plans!Busy
    <3> QED
      BY <2>1, <3>1, TodoDiffer DEF Plans!Inv, Plans!InOrder, Plans!BeforeEnter, Plans!BeforeExit
  <2>3. ~Plans!Recorded'
    BY <1>6 DEF Plans!Recorded
  <2>4. Plans!TypeOK'
    BY <1>1, <1>2, <1>6 DEF Plans!Inv, Plans!TypeOK, Plans!Mode
  <2> QED
    BY <1>1, <1>2, <1>3, <1>6, <2>2, <2>3, <2>4
       DEF Plans!Inv, Plans!RecordIsNotPlan, Plans!OwnPlanIsOwn, Plans!OwnModeKept
<1> QED
  BY <1>4, <1>5, <1>6, Zenon DEF Plans!Crash

\* Config and the user.
LEMMA PlanConfig == Plans!Inv /\ (Plans!ConfigRead \/ Plans!ConfigWrite) => Plans!Inv'
<1> SUFFICES ASSUME Plans!Inv, Plans!ConfigRead \/ Plans!ConfigWrite PROVE Plans!Inv'
  OBVIOUS
<1>1. CASE Plans!ConfigRead
  <2>1. UNCHANGED <<x1, x2, x3, x5, x6>>
    BY <1>1 DEF Plans!ConfigRead
  <2>2. PICK m \in {Plans!Doc} \cup PlanModes \cup {"plan"}, sets \in BOOLEAN :
          x4' = [busy |-> TRUE, mode |-> m, sets |-> sets]
    BY <1>1, Zenon DEF Plans!ConfigRead
  <2>3. m \in Plans!Mode
    BY DEF Plans!Doc, Plans!Mode, Plans!Inv, Plans!TypeOK
  <2>4. x4' \in [busy : BOOLEAN, mode : Plans!Mode, sets : BOOLEAN]
    BY <2>2, <2>3
  <2>5. Plans!CallIsRight' /\ (Plans!InOrder => Plans!InOrder')
    BY <2>1 DEF Plans!Inv, Plans!CallIsRight, Plans!InOrder, Plans!BeforeEnter, Plans!BeforeExit, Plans!Recorded
  <2> QED
    BY <2>1, <2>4, <2>5 DEF Plans!Inv, Plans!TypeOK, Plans!RecordIsNotPlan, Plans!OwnPlanIsOwn, Plans!OwnModeKept,
       Plans!Recorded
<1>2. CASE Plans!ConfigWrite
  <2>1. /\ x1' = [state |-> "read", mode |-> x4.mode] /\ x4' = Plans!NoConfig /\ x2' = x2
        /\ x5' = IF x4.sets THEN Plans!Owned(x4.mode) ELSE x5
        /\ x6' = IF Plans!Busy THEN TRUE
                 ELSE IF x4.sets THEN FALSE ELSE x6 \/ x4.mode # Plans!Doc
        /\ x3' = IF Plans!Busy THEN x3 ELSE Plans!NoTool
    BY <1>2 DEF Plans!ConfigWrite, Plans!Settings
  <2>2. x4.mode \in Plans!Mode /\ x4.sets \in BOOLEAN /\ x6 \in BOOLEAN
    BY DEF Plans!Inv, Plans!TypeOK
  <2>3. x4' \in [busy : BOOLEAN, mode : Plans!Mode, sets : BOOLEAN]
    BY <2>1 DEF Plans!NoConfig, Plans!Mode
  <2>4. Plans!CallIsRight' /\ (~Plans!Busy => Plans!InOrder')
    <3>1. CASE Plans!Busy
      BY <2>1, <3>1 DEF Plans!Inv, Plans!CallIsRight
    <3> QED
      BY <2>1, <3>1, NoCall
  <2>5. Plans!TypeOK' /\ Plans!RecordIsNotPlan'
    <3>1. x3'.mode \in Plans!Mode /\ x3'.result \in {"none", "ok", "error"}
      BY <2>4 DEF Plans!CallIsRight
    <3>2. x5' \in Plans!OwnMode
      BY <2>1, <2>2 DEF Plans!Inv, Plans!TypeOK, Plans!OwnMode, Plans!Owned
    <3>3. x6' \in BOOLEAN
      BY <2>1, <2>2
    <3>4. x1' \in [state : {"read", "empty", "garbled"}, mode : Plans!Mode]
      BY <2>1, <2>2
    <3> QED
      BY <2>1, <3>1, <3>2, <3>3, <3>4 DEF Plans!Inv, Plans!TypeOK, Plans!RecordIsNotPlan, Plans!Recorded
  <2>6. ASSUME ~x6' PROVE x1'.state = "read" /\ Plans!InOrder' /\ Plans!OwnPlanIsOwn' /\ Plans!OwnModeKept'
    <3>1. ~Plans!Busy
      BY <2>1, <2>6
    <3>2. CASE x4.sets
      BY <2>1, <2>2, <2>4, <3>1, <3>2, ProgramAssumption
         DEF Plans!Owned, Plans!OwnPlanIsOwn, Plans!OwnModeKept, Plans!Recorded, Plans!Mode
    <3>3. CASE ~x4.sets
      <4>1. ~x6 /\ x4.mode = Plans!Doc
        BY <2>1, <2>2, <2>6, <3>1, <3>3
      <4>2. x1.state = "read" /\ x1'.mode = x1.mode /\ x5' = x5
        BY <2>1, <3>3, <4>1 DEF Plans!Doc, Plans!Inv
      <4> QED
        BY <2>1, <2>4, <3>1, <4>1, <4>2 DEF Plans!Inv, Plans!OwnPlanIsOwn, Plans!OwnModeKept, Plans!Recorded
    <3> QED
      BY <3>2, <3>3
  <2> QED
    BY <2>3, <2>4, <2>5, <2>6, Zenon DEF Plans!Inv
<1> QED
  BY <1>1, <1>2

LEMMA PlanEdit == Plans!Inv /\ Plans!Edit => Plans!Inv'
<1> SUFFICES ASSUME Plans!Inv, Plans!Edit PROVE Plans!Inv'
  OBVIOUS
<1>1. x3' = Plans!NoTool /\ x4' = x4
  BY DEF Plans!Edit
<1>2. /\ Plans!CallIsRight' /\ Plans!InOrder' /\ x3'.mode \in Plans!Mode /\ x3'.result = "none"
      /\ x4' \in [busy : BOOLEAN, mode : Plans!Mode, sets : BOOLEAN]
  BY <1>1, NoCall DEF Plans!NoTool, Plans!Mode, Plans!Inv
<1>3. CASE \E m \in Plans!Mode : /\ x1' = [state |-> "read", mode |-> m] /\ x5' = Plans!Owned(m)
                               /\ x6' = FALSE /\ UNCHANGED x2
  <2>1. PICK m \in Plans!Mode : x1' = [state |-> "read", mode |-> m] /\ x5' = Plans!Owned(m) /\ x6' = FALSE /\ x2' = x2
    BY <1>3
  <2>2. Plans!TypeOK' /\ Plans!RecordIsNotPlan'
    BY <1>2, <2>1 DEF Plans!Inv, Plans!TypeOK, Plans!RecordIsNotPlan, Plans!Recorded, Plans!OwnMode, Plans!Owned
  <2>3. x1'.state = "read" /\ Plans!OwnPlanIsOwn' /\ Plans!OwnModeKept'
    BY <2>1, ProgramAssumption DEF Plans!Owned, Plans!OwnPlanIsOwn, Plans!OwnModeKept, Plans!Recorded, Plans!Mode
  <2> QED
    BY <1>2, <2>2, <2>3, Zenon DEF Plans!Inv
<1>4. CASE x2.state = "garbled" /\ x2' = Plans!NoRecord /\ UNCHANGED <<x1, x5, x6>>
  BY <1>2, <1>4 DEF Plans!Inv, Plans!TypeOK, Plans!RecordIsNotPlan, Plans!OwnPlanIsOwn, Plans!OwnModeKept,
     Plans!Recorded, Plans!NoRecord, Plans!Mode
<1> QED
  BY <1>3, <1>4 DEF Plans!Edit, Plans!Settings

LEMMA PlanStep == Plans!Inv /\ [Plans!Next]_(Plans!vars) => Plans!Inv'
<1> SUFFICES ASSUME Plans!Inv, [Plans!Next]_(Plans!vars) PROVE Plans!Inv'
  OBVIOUS
<1>1. CASE UNCHANGED Plans!vars
  BY <1>1 DEF Plans!vars, Plans!Inv, Plans!TypeOK, Plans!CallIsRight, Plans!InOrder, Plans!BeforeEnter,
     Plans!BeforeExit, Plans!RecordIsNotPlan, Plans!OwnPlanIsOwn, Plans!OwnModeKept, Plans!Recorded
<1> QED
  BY <1>1, PlanCall, PlanWrites, PlanDone, PlanCrash, PlanConfig, PlanEdit DEF Plans!Next

LEMMA PlanSound == Plans!Inv => Plans!TypeOK /\ Plans!PlanModeIsSound
<1> SUFFICES ASSUME Plans!Inv PROVE Plans!PlanModeIsSound
  BY DEF Plans!Inv
<1>1. Plans!CallsDoWhatTheySay
  <2> SUFFICES ASSUME ~x6, x3.result = "ok", x5 \in Plans!Mode \ {"plan"}
               PROVE  \/ x3.name = "enter" /\ x1.mode = "plan" /\ Plans!Recorded
                      \/ x3.name = "exit" /\ x1.mode = x5 /\ ~Plans!Recorded
    BY DEF Plans!CallsDoWhatTheySay
  <2>1. x3.name \in {"enter", "exit"} /\ x3.todo = <<>>
    BY DEF Plans!Inv, Plans!CallIsRight, Plans!NoTool
  <2> QED
    BY <2>1 DEF Plans!Inv, Plans!InOrder, Plans!BeforeEnter, Plans!BeforeExit, Plans!OwnModeKept
<1> QED
  BY <1>1 DEF Plans!Inv, Plans!PlanModeIsSound, Plans!OwnModeKept, Plans!OwnPlanKept, Plans!OwnPlanIsOwn

\* PlanMode: the user's mode is never lost wherever the program ends, plan mode the user set
\* stays, and calls do what they say.
THEOREM PlanModeCorrect == ProgramSpec => []PlanModeIsSound
<1>1. ProgramInit /\ part = "plans" => Plans!Inv
  BY PlanInit DEF ProgramInit
<1>2. part = "plans" /\ [ProgramNext]_all => (part = "plans")' /\ [Plans!Next]_(Plans!vars)
  BY DEF ProgramNext, all, from10, from11, from13, from14, from15, from16, from18, Plans!vars
<1>3. ~(part = "plans") /\ [ProgramNext]_all => (~(part = "plans"))'
  BY DEF ProgramNext, all, from10, from11, from13, from14, from15, from16, from18
<1>4. Plans!Inv => PlanModeIsSound
  BY PlanSound DEF PlanModeIsSound
<1>5. ~(part = "plans") => PlanModeIsSound
  BY DEF PlanModeIsSound
<1> QED
  BY <1>1, <1>2, <1>3, <1>4, <1>5, PlanStep, PTL DEF ProgramSpec

-----------------------------------------------------------------------------
(* The prompt cache.                                                       *)

LEMMA CacheInit == Cache!Init => Cache!Inv
<1> SUFFICES ASSUME Cache!Init PROVE Cache!Inv
  OBVIOUS
<1> USE ProgramAssumption
<1>1. /\ x1 = 0 /\ x9 = 0 /\ x5 = 0 /\ x10 = 0 /\ x6 = Cache!NoResult
      /\ x2 = [r \in CacheRequests |-> -1] /\ x7 = [r \in CacheRequests |-> -1] /\ x8 = x7
      /\ x3 = [stats |-> Cache!NoStats, previous |-> Cache!None] /\ x4 = x3
  BY DEF Cache!Init
<1>2. 0 \in 0..CacheTime /\ -1 \in -1..CacheTime /\ 0 \in Nat
  OBVIOUS
<1>3. x3 \in Cache!Memory
  BY <1>1, <1>2 DEF Cache!NoStats, Cache!Memory, Cache!Stats
<1>4. Cache!PreviousIsRecent(x3)
  BY <1>1 DEF Cache!PreviousIsRecent
<1>5. \A r \in CacheRequests : Cache!EntryIsBorn(r)
  BY <1>1 DEF Cache!EntryIsBorn, Cache!now
<1>6. x6 \in [kind : {"none", "hit", "answer"}, request : CacheRequests \cup {"none"},
              break : {"none", "expected", "unexpected"}, age : Int]
  BY <1>1 DEF Cache!NoResult
<1>7. Cache!CacheIsSound
  BY <1>1 DEF Cache!CacheIsSound, Cache!HitIsFresh, Cache!UnexpectedIsRecent, Cache!StatsAddUp, Cache!NoResult,
     Cache!NoStats
<1> QED
  BY <1>1, <1>2, <1>3, <1>4, <1>5, <1>6, <1>7 DEF Cache!Inv

\* The outcome of a write: what was meant, what was there, or a mixture, with a fault.
LEMMA CachePersist ==
  ASSUME NEW m \in Cache!Memory, x4 \in Cache!Memory, x10 \in Nat, Cache!Persist(m)
  PROVE  /\ x10' \in Nat /\ (x10' = 0 => x10 = 0 /\ x4' = m)
         /\ x4' \in Cache!Memory /\ x4'.previous \in {m.previous, x4.previous}
<1>1. CASE x4' = m /\ UNCHANGED x10
  BY <1>1
<1>2. CASE Cache!Fault /\ x4' \in {x4, [x4 EXCEPT !.stats = m.stats], [x4 EXCEPT !.previous = m.previous]}
  <2>1. x10' \in Nat /\ x10' # 0
    BY <1>2 DEF Cache!Fault
  <2>2. x4' \in Cache!Memory /\ x4'.previous \in {m.previous, x4.previous}
    BY <1>2 DEF Cache!Memory
  <2> QED
    BY <2>1, <2>2
<1> QED
  BY <1>1, <1>2 DEF Cache!Persist

\* The last requests stay recent if the provider's answers only grow and the new one is recent.
LEMMA CacheRecent ==
  ASSUME NEW m, NEW p, Cache!PreviousIsRecent(m), x8 \in [CacheRequests -> Int], m \in Cache!Memory,
         \A r \in CacheRequests : x8'[r] \in Int /\ x8'[r] >= x8[r], p = m.previous
  PROVE  p # Cache!None => x8'[p.request] >= p.at - CompletionTtl
<1> SUFFICES ASSUME p # Cache!None PROVE x8'[p.request] >= p.at - CompletionTtl
  OBVIOUS
<1>1. p \in Cache!Usage
  BY DEF Cache!Memory
<1>2. p.request \in CacheRequests /\ p.at \in Nat
  BY <1>1 DEF Cache!Usage
<1>3. x8[p.request] >= p.at - CompletionTtl /\ x8[p.request] \in Int
  BY <1>2 DEF Cache!PreviousIsRecent
<1> QED
  BY <1>2, <1>3, ProgramAssumption

\* A call that ends with a new last request and what it counts keeps the invariant: its
\* request is recent, its outcome is right, and its numbers add up.
LEMMA CacheCall ==
  ASSUME Cache!Inv, x3' \in Cache!Memory, Cache!Persist(x3'),
         x1' = x1, x9' = x9, x5' \in Nat,
         x2' \in [CacheRequests -> -1..CacheTime], x7' \in [CacheRequests -> Int], x8' \in [CacheRequests -> Int],
         \A r \in CacheRequests : x8'[r] >= x8[r] /\ Cache!EntryIsBorn(r)',
         Cache!PreviousIsRecent(x3)',
         x6' \in [kind : {"none", "hit", "answer"}, request : CacheRequests \cup {"none"},
                  break : {"none", "expected", "unexpected"}, age : Int],
         Cache!HitIsFresh', Cache!UnexpectedIsRecent',
         x10 = 0 => /\ x3'.stats.expected + x3'.stats.unexpected <= x3'.stats.tracked
                    /\ x3'.stats.hits + x3'.stats.misses <= x5'
                    /\ x3'.stats.tracked + x3'.stats.hits <= x5'
  PROVE  Cache!Inv'
<1>1. /\ x10' \in Nat /\ (x10' = 0 => x10 = 0 /\ x4' = x3')
      /\ x4' \in Cache!Memory /\ x4'.previous \in {x3'.previous, x4.previous}
  BY CachePersist DEF Cache!Inv
<1>2. Cache!PreviousIsRecent(x4)'
  <2>1. CASE x4'.previous = x3'.previous
    BY <2>1 DEF Cache!PreviousIsRecent
  <2>2. CASE x4'.previous = x4.previous
    <3>1. x4'.previous # Cache!None => x8'[x4'.previous.request] >= x4'.previous.at - CompletionTtl
      BY <2>2, CacheRecent DEF Cache!Inv
    <3> QED
      BY <3>1 DEF Cache!PreviousIsRecent
  <2> QED
    BY <1>1, <2>1, <2>2
<1>3. Cache!StatsAddUp'
  BY <1>1 DEF Cache!StatsAddUp
<1> QED
  BY <1>1, <1>2, <1>3 DEF Cache!Inv, Cache!CacheIsSound

\* What the invariant says of the entry of a request.
LEMMA CacheEntry ==
  ASSUME Cache!Inv, NEW r \in CacheRequests
  PROVE  /\ x1 \in Nat /\ x9 \in Nat /\ x1 + x9 \in Int /\ CompletionTtl \in Nat /\ PromptTtl \in Nat
         /\ x2[r] \in Int /\ x2[r] >= -1 /\ x7[r] \in Int /\ x8[r] \in Int
         /\ x7[r] <= x8[r] /\ x8[r] <= x1 + x9 /\ (x2[r] # -1 => x2[r] <= x7[r])
BY ProgramAssumption DEF Cache!Inv, Cache!EntryIsBorn, Cache!now

LEMMA CacheHit == ASSUME Cache!Inv, NEW r \in CacheRequests, Cache!Hit(r) PROVE Cache!Inv'
<1>1. /\ x5' = x5 + 1 /\ x2[r] # -1 /\ ~Cache!Expired(r) /\ UNCHANGED <<x1, x2, x7, x8, x9>>
      /\ x6' = [kind |-> "hit", request |-> r, break |-> "none", age |-> Cache!now - x7[r]]
      /\ Cache!Persist(x3')
  BY DEF Cache!Hit
<1>2. PICK read \in Cache!Reads :
        x3' = [stats |-> [x3.stats EXCEPT !.hits = @ + 1],
               previous |-> [request |-> r, at |-> x1, read |-> read]]
  BY DEF Cache!Hit
<1>3. x3' \in Cache!Memory
  BY <1>2 DEF Cache!Inv, Cache!Memory, Cache!Stats, Cache!Usage
<1>4. x1 - x2[r] < CompletionTtl
  BY <1>1, CacheEntry DEF Cache!Expired, Cache!Sub
<1>5. Cache!PreviousIsRecent(x3)'
  <2>1. x3'.previous.request = r /\ x3'.previous.at = x1
    BY <1>2
  <2>2. x8[r] >= x1 - CompletionTtl
    BY <1>1, <1>4, CacheEntry
  <2> QED
    BY <1>1, <2>1, <2>2 DEF Cache!PreviousIsRecent
<1>6. Cache!HitIsFresh' /\ Cache!UnexpectedIsRecent'
  <2>1. x6'.request = r /\ x6'.age = Cache!now - x7[r] /\ x6'.break = "none" /\ x7' = x7 /\ x9' = x9
    BY <1>1, Zenon
  <2>2. x7[r] \in Int /\ x2[r] \in Int /\ x2[r] >= 0 /\ x2[r] <= x7[r]
    BY <1>1, CacheEntry
  <2>3. x7[r] # -1 /\ Cache!now - x7[r] < CompletionTtl + x9
    BY <1>4, <2>2, CacheEntry DEF Cache!now
  <2> QED
    BY <2>1, <2>3, Zenon DEF Cache!HitIsFresh, Cache!UnexpectedIsRecent
<1>7. x6' \in [kind : {"none", "hit", "answer"}, request : CacheRequests \cup {"none"},
               break : {"none", "expected", "unexpected"}, age : Int]
  <2>1. Cache!now - x7[r] \in Int
    BY CacheEntry DEF Cache!now
  <2> QED
    BY <1>1, <2>1
<1>8. \A q \in CacheRequests : x8'[q] >= x8[q] /\ Cache!EntryIsBorn(q)'
  <2> TAKE q \in CacheRequests
  <2>1. x8[q] \in Int /\ Cache!EntryIsBorn(q)
    BY CacheEntry DEF Cache!Inv
  <2> QED
    BY <1>1, <2>1 DEF Cache!EntryIsBorn, Cache!now
<1>9. x10 = 0 => /\ x3'.stats.expected + x3'.stats.unexpected <= x3'.stats.tracked
                 /\ x3'.stats.hits + x3'.stats.misses <= x5'
                 /\ x3'.stats.tracked + x3'.stats.hits <= x5'
  BY <1>1, <1>2 DEF Cache!Inv, Cache!CacheIsSound, Cache!StatsAddUp, Cache!Memory, Cache!Stats
<1>10. /\ x5' \in Nat /\ x2' \in [CacheRequests -> -1..CacheTime]
       /\ x7' \in [CacheRequests -> Int] /\ x8' \in [CacheRequests -> Int]
  BY <1>1 DEF Cache!Inv
<1> QED
  BY <1>1, <1>3, <1>5, <1>6, <1>7, <1>8, <1>9, <1>10, CacheCall

\* The counters of an answer: it is tracked, and at most one of its breaks.
LEMMA CacheCounted ==
  ASSUME NEW stats \in Cache!Stats, NEW break \in {"none", "expected", "unexpected"}
  PROVE  LET counted == Cache!Counted(stats, break) IN
         /\ counted \in Cache!Stats /\ counted.hits = stats.hits /\ counted.misses = stats.misses
         /\ counted.tracked = stats.tracked + 1
         /\ counted.expected + counted.unexpected <= stats.expected + stats.unexpected + 1
<1> DEFINE e == IF break = "expected" THEN 1 ELSE 0
           u == IF break = "unexpected" THEN 1 ELSE 0
<1>0. /\ e \in Nat /\ u \in Nat /\ e + u <= 1
      /\ Cache!Counted(stats, break) = [stats EXCEPT !.tracked = @ + 1, !.expected = @ + e, !.unexpected = @ + u]
  BY DEF Cache!Counted
<1> HIDE DEF e, u
<1>1. Cache!Counted(stats, break) =
        [hits |-> stats.hits, misses |-> stats.misses, tracked |-> stats.tracked + 1,
         expected |-> stats.expected + e, unexpected |-> stats.unexpected + u]
  BY <1>0 DEF Cache!Stats
<1>2. /\ stats.hits \in Nat /\ stats.misses \in Nat /\ stats.tracked \in Nat /\ stats.expected \in Nat
      /\ stats.unexpected \in Nat
  BY DEF Cache!Stats
<1> QED
  BY <1>0, <1>1, <1>2 DEF Cache!Stats

\* The provider answers: the new request is known as of now, and "unexpected" was decided by
\* a last request that was recent.
LEMMA CacheRecorded ==
  ASSUME Cache!Inv, NEW r \in CacheRequests, NEW stats \in Cache!Stats, NEW whole \in BOOLEAN,
         Cache!Recorded(r, stats, whole), x5' = x5 + 1, UNCHANGED <<x1, x9>>,
         x10 = 0 => /\ stats.expected + stats.unexpected <= stats.tracked
                    /\ stats.hits + stats.misses <= x5 + 1
                    /\ stats.tracked + stats.hits <= x5
  PROVE  Cache!Inv'
<1> DEFINE break(read) == Cache!detect_cache_break(r, read)
<1>1. PICK read \in Cache!Reads :
        /\ x3' = [stats |-> Cache!Counted(stats, break(read)),
                  previous |-> [request |-> r, at |-> x1, read |-> read]]
        /\ x6' = [kind |-> "answer", request |-> r, break |-> break(read), age |-> Cache!now - x8[r]]
        /\ \/ x2' = IF whole THEN [x2 EXCEPT ![r] = x1] ELSE x2
           \/ whole /\ x2' = [x2 EXCEPT ![r] = -1]
        /\ x7' = IF whole THEN [x7 EXCEPT ![r] = Cache!now] ELSE x7
        /\ x8' = [x8 EXCEPT ![r] = Cache!now]
        /\ Cache!Persist(x3')
  BY DEF Cache!Recorded
<1>2. break(read) \in {"none", "expected", "unexpected"}
  BY DEF Cache!detect_cache_break
<1>3. /\ Cache!now \in Int /\ Cache!now = x1 + x9 /\ Cache!now >= 0 /\ x1 <= Cache!now
      /\ Cache!now' = Cache!now
  BY CacheEntry DEF Cache!now
<1>4. x3' \in Cache!Memory
  BY <1>1, <1>2, CacheCounted DEF Cache!Inv, Cache!Memory, Cache!Usage
<1>5. x8'[r] = Cache!now /\ x8' \in [CacheRequests -> Int] /\ x7' \in [CacheRequests -> Int]
  BY <1>1, <1>3 DEF Cache!Inv
<1>6. Cache!PreviousIsRecent(x3)'
  <2>1. x3'.previous.request = r /\ x3'.previous.at = x1
    BY <1>1
  <2>2. Cache!now >= x1 - CompletionTtl
    BY <1>3, CacheEntry
  <2> QED
    BY <1>5, <2>1, <2>2 DEF Cache!PreviousIsRecent
<1>7. Cache!HitIsFresh' /\ Cache!UnexpectedIsRecent'
  <2>1. x6'.kind = "answer" /\ x6'.request = r /\ x6'.break = break(read) /\ x6'.age = Cache!now - x8[r]
    BY <1>1
  <2>2. x8'[r] # -1
    BY <1>3, <1>5
  <2>3. ASSUME break(read) = "unexpected" PROVE Cache!now - x8[r] <= PromptTtl + CompletionTtl + x9
    <3>1. x3.previous # Cache!None /\ x3.previous.request = r /\ Cache!Sub(x1, x3.previous.at) <= PromptTtl
      <4>1. x3.previous # Cache!None /\ x3.previous.request = r /\ ~(Cache!Sub(x1, x3.previous.at) > PromptTtl)
        BY <2>3 DEF Cache!detect_cache_break
      <4>2. Cache!Sub(x1, x3.previous.at) \in Int
        BY <4>1, CacheEntry DEF Cache!Sub, Cache!Inv, Cache!Memory, Cache!Usage
      <4> QED
        BY <4>1, <4>2, CacheEntry
    <3>2. x3.previous.at \in Nat
      BY <3>1 DEF Cache!Inv, Cache!Memory, Cache!Usage
    <3>3. x8[r] >= x3.previous.at - CompletionTtl
      BY <3>1 DEF Cache!Inv, Cache!PreviousIsRecent
    <3>4. x1 - x3.previous.at <= PromptTtl
      BY <3>1, <3>2, CacheEntry DEF Cache!Sub
    <3> QED
      BY <1>3, <3>2, <3>3, <3>4, CacheEntry
  <2> QED
    BY <2>1, <2>2, <2>3 DEF Cache!HitIsFresh, Cache!UnexpectedIsRecent
<1>8. x6' \in [kind : {"none", "hit", "answer"}, request : CacheRequests \cup {"none"},
               break : {"none", "expected", "unexpected"}, age : Int]
  <2>1. Cache!now - x8[r] \in Int
    BY <1>3, CacheEntry
  <2> QED
    BY <1>1, <1>2, <2>1
<1>9. x2' \in [CacheRequests -> -1..CacheTime]
  <2>1. x1 \in -1..CacheTime /\ -1 \in -1..CacheTime /\ x2 \in [CacheRequests -> -1..CacheTime]
    BY ProgramAssumption DEF Cache!Inv
  <2> QED
    BY <1>1, <2>1
<1>10. \A q \in CacheRequests : x8'[q] >= x8[q] /\ Cache!EntryIsBorn(q)'
  <2> TAKE q \in CacheRequests
  <2>1. x8[q] \in Int /\ x7[q] <= x8[q] /\ x8[q] <= Cache!now /\ (x2[q] # -1 => x2[q] <= x7[q]) /\ x7[q] \in Int
    BY <1>3, CacheEntry
  <2>2. CASE q = r
    <3>1. x8'[q] = Cache!now /\ x7'[q] = IF whole THEN Cache!now ELSE x7[q]
      BY <1>1, <1>5, <2>2 DEF Cache!Inv
    <3>2. x2'[q] \in (IF whole THEN {x1, -1} ELSE {x2[q]})
      BY <1>1, <2>2 DEF Cache!Inv
    <3> QED
      BY <1>3, <2>1, <3>1, <3>2 DEF Cache!EntryIsBorn
  <2>3. CASE q # r
    <3>1. x8'[q] = x8[q] /\ x7'[q] = x7[q] /\ x2'[q] = x2[q]
      BY <1>1, <2>3 DEF Cache!Inv
    <3> QED
      BY <1>3, <2>1, <3>1 DEF Cache!EntryIsBorn
  <2> QED
    BY <2>2, <2>3
<1>11. x10 = 0 => /\ x3'.stats.expected + x3'.stats.unexpected <= x3'.stats.tracked
                  /\ x3'.stats.hits + x3'.stats.misses <= x5'
                  /\ x3'.stats.tracked + x3'.stats.hits <= x5'
  <2> DEFINE counted == Cache!Counted(stats, break(read))
  <2>1. /\ counted \in Cache!Stats /\ counted.hits = stats.hits /\ counted.misses = stats.misses
        /\ counted.tracked = stats.tracked + 1
        /\ counted.expected + counted.unexpected <= stats.expected + stats.unexpected + 1
    BY <1>2, CacheCounted
  <2>2. x3'.stats = counted /\ x5 \in Nat
    BY <1>1 DEF Cache!Inv
  <2> HIDE DEF counted
  <2> QED
    BY <2>1, <2>2 DEF Cache!Stats
<1>12. x5' \in Nat
  BY DEF Cache!Inv
<1> HIDE DEF break
<1> QED
  BY <1>1, <1>4, <1>5, <1>6, <1>7, <1>8, <1>9, <1>10, <1>11, <1>12, CacheCall

LEMMA CacheMiss == ASSUME Cache!Inv, NEW r \in CacheRequests, Cache!Miss(r) PROVE Cache!Inv'
<1> DEFINE stats == [x3.stats EXCEPT !.misses = @ + 1]
<1>1. x5' = x5 + 1 /\ Cache!Recorded(r, stats, TRUE) /\ UNCHANGED <<x1, x9>>
  BY DEF Cache!Miss
<1>2. /\ stats \in Cache!Stats /\ stats.misses = x3.stats.misses + 1
      /\ stats.expected = x3.stats.expected /\ stats.unexpected = x3.stats.unexpected
      /\ stats.tracked = x3.stats.tracked /\ stats.hits = x3.stats.hits /\ x3.stats \in Cache!Stats
  BY DEF Cache!Inv, Cache!Memory, Cache!Stats
<1>3. x10 = 0 => /\ stats.expected + stats.unexpected <= stats.tracked
                 /\ stats.hits + stats.misses <= x5 + 1
                 /\ stats.tracked + stats.hits <= x5
  BY <1>2 DEF Cache!Inv, Cache!CacheIsSound, Cache!StatsAddUp, Cache!Stats
<1> HIDE DEF stats
<1> QED
  BY <1>1, <1>2, <1>3, CacheRecorded

LEMMA CacheStreamed == ASSUME Cache!Inv, NEW r \in CacheRequests, Cache!Streamed(r) PROVE Cache!Inv'
<1>1. x5' = x5 + 1 /\ Cache!Recorded(r, x3.stats, FALSE) /\ UNCHANGED <<x1, x9>>
  BY DEF Cache!Streamed
<1>2. x3.stats \in Cache!Stats /\ x5 \in Nat
  BY DEF Cache!Inv, Cache!Memory
<1>3. x10 = 0 => /\ x3.stats.expected + x3.stats.unexpected <= x3.stats.tracked
                 /\ x3.stats.hits + x3.stats.misses <= x5 + 1
                 /\ x3.stats.tracked + x3.stats.hits <= x5
  BY <1>2 DEF Cache!Inv, Cache!CacheIsSound, Cache!StatsAddUp, Cache!Stats
<1> QED
  BY <1>1, <1>2, <1>3, CacheRecorded

LEMMA CacheFailed == ASSUME Cache!Inv, NEW r \in CacheRequests, Cache!Failed(r) PROVE Cache!Inv'
<1>1. /\ x5' = x5 + 1 /\ x2' = [x2 EXCEPT ![r] = -1] /\ x3' = [x3 EXCEPT !.stats.misses = @ + 1]
      /\ Cache!Persist(x3') /\ x6' = Cache!NoResult /\ UNCHANGED <<x1, x7, x8, x9>>
  BY DEF Cache!Failed
<1>2. /\ x3' \in Cache!Memory /\ x3'.previous = x3.previous /\ x3'.stats.misses = x3.stats.misses + 1
      /\ x3'.stats.expected = x3.stats.expected /\ x3'.stats.unexpected = x3.stats.unexpected
      /\ x3'.stats.tracked = x3.stats.tracked /\ x3'.stats.hits = x3.stats.hits /\ x3.stats \in Cache!Stats
  BY <1>1 DEF Cache!Inv, Cache!Memory, Cache!Stats
<1>3. Cache!PreviousIsRecent(x3)'
  BY <1>1, <1>2 DEF Cache!Inv, Cache!PreviousIsRecent
<1>4. /\ x6' \in [kind : {"none", "hit", "answer"}, request : CacheRequests \cup {"none"},
                  break : {"none", "expected", "unexpected"}, age : Int]
      /\ Cache!HitIsFresh' /\ Cache!UnexpectedIsRecent'
  BY <1>1 DEF Cache!NoResult, Cache!HitIsFresh, Cache!UnexpectedIsRecent
<1>5. x2' \in [CacheRequests -> -1..CacheTime]
  <2>1. -1 \in -1..CacheTime
    BY ProgramAssumption
  <2> QED
    BY <1>1, <2>1 DEF Cache!Inv
<1>6. \A q \in CacheRequests : x8'[q] >= x8[q] /\ Cache!EntryIsBorn(q)'
  <2> TAKE q \in CacheRequests
  <2>1. x8[q] \in Int /\ Cache!EntryIsBorn(q)
    BY CacheEntry DEF Cache!Inv
  <2>2. x2'[q] \in {-1, x2[q]}
    BY <1>1 DEF Cache!Inv
  <2> QED
    BY <1>1, <2>1, <2>2 DEF Cache!EntryIsBorn, Cache!now
<1>7. x10 = 0 => /\ x3'.stats.expected + x3'.stats.unexpected <= x3'.stats.tracked
                 /\ x3'.stats.hits + x3'.stats.misses <= x5'
                 /\ x3'.stats.tracked + x3'.stats.hits <= x5'
  BY <1>1, <1>2 DEF Cache!Inv, Cache!CacheIsSound, Cache!StatsAddUp, Cache!Stats
<1> QED
  BY <1>1, <1>2, <1>3, <1>4, <1>5, <1>6, <1>7, CacheCall DEF Cache!Inv

\* A client that opens the files, and the clock; real time never goes back.
LEMMA CacheReopen == Cache!Inv /\ Cache!Reopen => Cache!Inv'
<1> SUFFICES ASSUME Cache!Inv, Cache!Reopen PROVE Cache!Inv'
  OBVIOUS
<1>1. x3 # x4 /\ x3' = x4 /\ x6' = Cache!NoResult /\ UNCHANGED <<x1, x2, x4, x5, x7, x8, x9, x10>>
  BY DEF Cache!Reopen
<1>2. /\ x6' \in [kind : {"none", "hit", "answer"}, request : CacheRequests \cup {"none"},
                  break : {"none", "expected", "unexpected"}, age : Int]
      /\ Cache!HitIsFresh' /\ Cache!UnexpectedIsRecent'
  BY <1>1 DEF Cache!NoResult, Cache!HitIsFresh, Cache!UnexpectedIsRecent
<1>3. Cache!StatsAddUp'
  BY <1>1 DEF Cache!Inv, Cache!CacheIsSound, Cache!StatsAddUp
<1>4. Cache!PreviousIsRecent(x3)' /\ Cache!PreviousIsRecent(x4)'
  BY <1>1 DEF Cache!Inv, Cache!PreviousIsRecent
<1>5. \A q \in CacheRequests : Cache!EntryIsBorn(q)'
  BY <1>1 DEF Cache!Inv, Cache!EntryIsBorn, Cache!now
<1> QED
  BY <1>1, <1>2, <1>3, <1>4, <1>5 DEF Cache!Inv, Cache!CacheIsSound

LEMMA CacheTick == Cache!Inv /\ Cache!Tick => Cache!Inv'
<1> SUFFICES ASSUME Cache!Inv, Cache!Tick PROVE Cache!Inv'
  OBVIOUS
<1>1. x6' = Cache!NoResult /\ UNCHANGED <<x2, x3, x4, x5, x7, x8>>
  BY DEF Cache!Tick
<1>2. /\ x1' \in 0..CacheTime /\ x9' \in Nat /\ x10' \in Nat /\ x1' + x9' >= x1 + x9
      /\ (x10' = 0 => x10 = 0)
  BY ProgramAssumption DEF Cache!Tick, Cache!Inv, Cache!Fault
<1>3. /\ x6' \in [kind : {"none", "hit", "answer"}, request : CacheRequests \cup {"none"},
                  break : {"none", "expected", "unexpected"}, age : Int]
      /\ Cache!HitIsFresh' /\ Cache!UnexpectedIsRecent'
  BY <1>1 DEF Cache!NoResult, Cache!HitIsFresh, Cache!UnexpectedIsRecent
<1>4. Cache!StatsAddUp'
  BY <1>1, <1>2 DEF Cache!Inv, Cache!CacheIsSound, Cache!StatsAddUp
<1>5. Cache!PreviousIsRecent(x3)' /\ Cache!PreviousIsRecent(x4)'
  BY <1>1 DEF Cache!Inv, Cache!PreviousIsRecent
<1>6. \A q \in CacheRequests : Cache!EntryIsBorn(q)'
  <2> TAKE q \in CacheRequests
  <2>1. x8[q] <= x1' + x9'
    BY <1>2, CacheEntry
  <2> QED
    BY <1>1, <2>1 DEF Cache!Inv, Cache!EntryIsBorn, Cache!now
<1> QED
  BY <1>1, <1>2, <1>3, <1>4, <1>5, <1>6 DEF Cache!Inv, Cache!CacheIsSound

LEMMA CacheStep == Cache!Inv /\ [Cache!Next]_(Cache!vars) => Cache!Inv'
<1> SUFFICES ASSUME Cache!Inv, [Cache!Next]_(Cache!vars) PROVE Cache!Inv'
  OBVIOUS
<1>1. CASE UNCHANGED Cache!vars
  BY <1>1 DEF Cache!vars, Cache!Inv, Cache!EntryIsBorn, Cache!now, Cache!PreviousIsRecent, Cache!CacheIsSound,
     Cache!HitIsFresh, Cache!UnexpectedIsRecent, Cache!StatsAddUp
<1> QED
  BY <1>1, CacheHit, CacheMiss, CacheFailed, CacheStreamed, CacheReopen, CacheTick DEF Cache!Next

\* PromptCache: an answer from a file is the newest and fresh, a break is unexpected only if
\* the provider answered not long ago, and the statistics add up.
THEOREM CacheCorrect == ProgramSpec => []CacheIsSound
<1>1. ProgramInit /\ part = "cache" => Cache!Inv
  BY CacheInit DEF ProgramInit
<1>2. part = "cache" /\ [ProgramNext]_all => (part = "cache")' /\ [Cache!Next]_(Cache!vars)
  BY DEF ProgramNext, all, from10, from11, from13, from14, from15, from16, from18, Cache!vars
<1>3. ~(part = "cache") /\ [ProgramNext]_all => (~(part = "cache"))'
  BY DEF ProgramNext, all, from10, from11, from13, from14, from15, from16, from18
<1>4. Cache!Inv => CacheIsSound
  BY DEF CacheIsSound, Cache!Inv, Cache!TypeOK
<1>5. ~(part = "cache") => CacheIsSound
  BY DEF CacheIsSound
<1> QED
  BY <1>1, <1>2, <1>3, <1>4, <1>5, CacheStep, PTL DEF ProgramSpec

-----------------------------------------------------------------------------
(* The monitor of containers.                                              *)

\* What a step of the look of a container may make of a stop that is owed.
LEMMA Drops ==
  /\ \A a, b : Monitor!Drop(a, b) \in {0, 1}
  /\ \A a : Monitor!Drop(a, a) = 0
  /\ \A a, b, c : Monitor!Drop(a, c) <= Monitor!Drop(a, b) + Monitor!Drop(b, c)
BY DEF Monitor!Drop

LEMMA SeenMaps ==
  ASSUME NEW seen \in Monitor!Seen
  PROVE  /\ DOMAIN seen \subseteq Containers /\ \A c \in DOMAIN seen : seen[c] \in Monitor!Look
         /\ seen = [c \in DOMAIN seen |-> seen[c]]
BY DEF Monitor!Seen

LEMMA NothingSeen == <<>> \in Monitor!Seen /\ DOMAIN <<>> = {}
<1>1. DOMAIN <<>> = {}
  OBVIOUS
<1>2. <<>> \in [{} -> Monitor!Look]
  <2>1. <<>> = [c \in {} |-> c]
    OBVIOUS
  <2> QED
    BY <2>1
<1> QED
  BY <1>1, <1>2 DEF Monitor!Seen

\* One more container is seen.
LEMMA SeenWith ==
  ASSUME NEW seen \in Monitor!Seen, NEW c \in Containers, x1[c] \in Monitor!Look
  PROVE  /\ Monitor!With(seen, c) \in Monitor!Seen
         /\ DOMAIN Monitor!With(seen, c) = DOMAIN seen \cup {c}
         /\ Monitor!LookIn(Monitor!With(seen, c), c) = x1[c]
         /\ \A d \in Containers \ {c} : Monitor!LookIn(Monitor!With(seen, c), d) = Monitor!LookIn(seen, d)
<1>1. DOMAIN Monitor!With(seen, c) = DOMAIN seen \cup {c}
  BY DEF Monitor!With
<1>2. \A d \in DOMAIN seen \cup {c} : Monitor!With(seen, c)[d] = IF d = c THEN x1[c] ELSE seen[d]
  BY DEF Monitor!With
<1>3. Monitor!With(seen, c) \in [DOMAIN seen \cup {c} -> Monitor!Look]
  BY SeenMaps DEF Monitor!With
<1>4. DOMAIN seen \cup {c} \in SUBSET Containers
  BY SeenMaps
<1>5. Monitor!With(seen, c) \in Monitor!Seen
  BY <1>3, <1>4, Zenon DEF Monitor!Seen
<1> QED
  BY <1>1, <1>2, <1>5 DEF Monitor!LookIn

\* A poll that is done is taken out.
LEMMA PollRemoved ==
  ASSUME Monitor!Polls, NEW i \in 1..Len(x6), x6' = Monitor!RemoveAt(x6, i)
  PROVE  Monitor!Polls' /\ Len(x6') = Len(x6) - 1
<1>1. x6 \in Seq(Monitor!PollState) /\ Len(x6) \in Nat
  BY DEF Monitor!Polls
<1>2. x6' = SubSeq(x6, 1, i - 1) \o SubSeq(x6, i + 1, Len(x6))
  BY DEF Monitor!RemoveAt
<1> DEFINE head == SubSeq(x6, 1, i - 1)
           tail == SubSeq(x6, i + 1, Len(x6))
<1>3. head \in Seq(Monitor!PollState) /\ Len(head) = i - 1 /\ \A j \in 1..i - 1 : head[j] = x6[j]
  BY <1>1
<1>4. /\ tail \in Seq(Monitor!PollState) /\ Len(tail) = Len(x6) - i
      /\ \A j \in 1..Len(x6) - i : tail[j] = x6[j + i]
  BY <1>1
<1>5. x6' = head \o tail
  BY <1>2
<1> HIDE DEF head, tail
<1>6. x6' \in Seq(Monitor!PollState) /\ Len(x6') = Len(x6) - 1
  BY <1>1, <1>3, <1>4, <1>5
<1>7. \A j \in 1..Len(x6') : \E k \in 1..Len(x6) : x6'[j] = x6[k]
  <2> TAKE j \in 1..Len(x6')
  <2>1. CASE j <= i - 1
    <3>1. x6'[j] = head[j] /\ j \in 1..i - 1
      BY <1>1, <1>3, <1>4, <1>6, <1>5, <2>1
    <3> QED
      BY <1>1, <1>3, <3>1
  <2>2. CASE j > i - 1
    <3>1. x6'[j] = tail[j - (i - 1)] /\ j - (i - 1) \in 1..Len(x6) - i
      BY <1>1, <1>3, <1>4, <1>6, <1>5, <2>2
    <3> QED
      BY <1>1, <1>4, <1>6, <2>2, <3>1
  <2> QED
    BY <1>1, <1>6, <2>1, <2>2
<1> QED
  BY <1>6, <1>7, ProgramAssumption DEF Monitor!Polls

\* One poll goes on.
LEMMA PollChanged ==
  ASSUME Monitor!Polls, NEW i \in 1..Len(x6), NEW poll \in Monitor!PollState, x6' = [x6 EXCEPT ![i] = poll],
         poll.todo \cap DOMAIN poll.seen = {}, poll.stage # "list"
  PROVE  Monitor!Polls' /\ Len(x6') = Len(x6) /\ x6'[i] = poll
<1>1. x6 \in Seq(Monitor!PollState)
  BY DEF Monitor!Polls
<1>2. x6' \in Seq(Monitor!PollState) /\ Len(x6') = Len(x6) /\ x6'[i] = poll
  BY <1>1
<1>3. \A j \in 1..Len(x6) : x6'[j] = IF j = i THEN poll ELSE x6[j]
  BY <1>1
<1> QED
  BY <1>2, <1>3 DEF Monitor!Polls

LEMMA MonitorInit == Monitor!Init => Monitor!Inv
<1> SUFFICES ASSUME Monitor!Init PROVE Monitor!Inv
  OBVIOUS
<1> USE ProgramAssumption
<1>1. /\ x1 \in [Containers -> {"gone", "up", "down"}] /\ x2 = FALSE /\ x3 = 0 /\ x4 = 0 /\ x5 = FALSE
      /\ x6 = <<>> /\ x7 = <<>> /\ x8 = <<>> /\ x9 = [c \in Containers |-> 0] /\ x10 = [c \in Containers |-> 0]
      /\ x11 = TRUE /\ x12 = 0 /\ x14 = 0
  BY DEF Monitor!Init
<1>2. Monitor!Service
  <2>1. x2 \in BOOLEAN /\ x5 \in BOOLEAN /\ Monitor!OneTimer
    BY <1>1, Zenon DEF Monitor!OneTimer
  <2>2. 0 \in Nat /\ 0 \in 0..DockerOps /\ 0 <= 0
    OBVIOUS
  <2> QED
    BY <1>1, <2>1, <2>2, Zenon DEF Monitor!Service
<1>3. Monitor!Polls
  BY <1>1 DEF Monitor!Polls
<1>4. Monitor!World
  BY <1>1 DEF Monitor!World, Monitor!Looks, Monitor!Look
<1>5. Monitor!Listener
  BY <1>1, NothingSeen DEF Monitor!Listener, Monitor!ToldIsCache
<1>6. Monitor!Owed
  <2> SUFFICES ASSUME NEW c \in Containers PROVE Monitor!AlarmsOwed(c)
    BY <1>1 DEF Monitor!Owed
  <2>1. Monitor!LookIn(x8, c) = "gone"
    BY <1>1, NothingSeen DEF Monitor!LookIn
  <2> QED
    BY <1>1, <2>1 DEF Monitor!AlarmsOwed, Monitor!Drop, Monitor!Running
<1> QED
  BY <1>1, <1>2, <1>3, <1>4, <1>5, <1>6 DEF Monitor!Inv

\* A step that leaves the containers, the listener and the polls alone.
LEMMA OwedKept ==
  ASSUME Monitor!Owed, UNCHANGED <<x1, x6, x8, x9, x10>>, x11' => x11
  PROVE  Monitor!Owed'
BY DEF Monitor!Owed, Monitor!AlarmsOwed

LEMMA WorldKept == Monitor!World /\ UNCHANGED Monitor!world => Monitor!World'
BY DEF Monitor!World, Monitor!world

LEMMA ListenerKept == Monitor!Listener /\ UNCHANGED Monitor!listener => Monitor!Listener'
BY DEF Monitor!Listener, Monitor!listener, Monitor!ToldIsCache

LEMMA PollsKept == Monitor!Polls /\ x6' = x6 => Monitor!Polls'
BY DEF Monitor!Polls

\* A poll that begins while another is under way overlaps it; the first one knows nothing
\* more than the listener.
LEMMA MonitorBegun ==
  ASSUME Monitor!Inv, Monitor!Room, x6' = Monitor!Begun, x11' = (x11 /\ ~Monitor!Overlaps),
         UNCHANGED <<x1, x8, x9, x10>>
  PROVE  Monitor!Polls' /\ Monitor!Owed' /\ x11' \in BOOLEAN
<1>1. x11' \in BOOLEAN /\ (x11' => x11)
  BY DEF Monitor!Inv
<1>2. CASE ~x2
  <2>1. x6' = x6
    BY <1>2 DEF Monitor!Begun
  <2> QED
    BY <1>1, <2>1, OwedKept, PollsKept DEF Monitor!Inv
<1>3. CASE x2
  <2> DEFINE poll == [stage |-> "list", todo |-> {}, seen |-> <<>>]
  <2>1. x6' = Append(x6, poll) /\ x6 \in Seq(Monitor!PollState)
    BY <1>3 DEF Monitor!Begun, Monitor!Inv, Monitor!Polls
  <2>2. poll \in Monitor!PollState /\ poll.stage = "list" /\ poll.todo = {} /\ poll.seen = <<>>
    BY NothingSeen DEF Monitor!PollState
  <2> HIDE DEF poll
  <2>3. /\ x6' \in Seq(Monitor!PollState) /\ Len(x6') = Len(x6) + 1
        /\ \A j \in 1..Len(x6) : x6'[j] = x6[j]
        /\ x6'[Len(x6) + 1] = poll
    BY <2>1, <2>2
  <2>4. Monitor!Polls'
    BY <2>2, <2>3, ProgramAssumption DEF Monitor!Inv, Monitor!Polls, Monitor!Room
  <2>6. x11' => Len(x6') <= 1
    <3>1. x11' => x6 = <<>>
      BY <1>3, Zenon DEF Monitor!Overlaps
    <3> QED
      BY <2>3, <3>1
  <2>5. Monitor!Owed'
    <3> SUFFICES ASSUME x11', NEW c \in Containers PROVE Len(x6') <= 1 /\ Monitor!AlarmsOwed(c)'
      BY <2>3, <2>6, Zenon DEF Monitor!Owed
    <3>1. x11 /\ x6 = <<>>
      BY <1>3 DEF Monitor!Overlaps
    <3>2. x6'[1].stage = "list" /\ Len(x6') = 1
      BY <2>2, <2>3, <3>1
    <3>3. Monitor!AlarmsOwed(c)
      BY <3>1 DEF Monitor!Inv, Monitor!Owed
    <3> QED
      BY <3>1, <3>2, <3>3 DEF Monitor!AlarmsOwed
  <2> QED
    BY <1>1, <2>4, <2>5
<1> QED
  BY <1>2, <1>3 DEF Monitor!Inv, Monitor!Service

\* Connecting and polling that begins and ends: there is a timer exactly while it polls.
LEMMA MonitorService ==
  Monitor!Inv /\ (Monitor!connect \/ Monitor!ConnectFailed \/ Monitor!stopPolling) => Monitor!Inv'
<1> SUFFICES ASSUME Monitor!Inv, Monitor!connect \/ Monitor!ConnectFailed \/ Monitor!stopPolling PROVE Monitor!Inv'
  OBVIOUS
<1>1. x6' = x6 /\ x11' = x11 /\ UNCHANGED Monitor!listener /\ UNCHANGED Monitor!world
  BY DEF Monitor!connect, Monitor!ConnectFailed, Monitor!stopPolling
<1>2. Monitor!Service'
  <2>1. x2' \in BOOLEAN /\ x5' \in BOOLEAN
    BY Zenon DEF Monitor!connect, Monitor!ConnectFailed, Monitor!stopPolling, Monitor!Inv, Monitor!Service
  <2>2. x3 \in Nat /\ x14 \in 0..DockerOps /\ x3 <= x14 /\ x4 <= x14 /\ x4 = IF x5 THEN 1 ELSE 0
    BY DEF Monitor!Inv, Monitor!Service, Monitor!OneTimer
  <2>3. CASE Monitor!connect
    BY <2>1, <2>2, <2>3, ProgramAssumption DEF Monitor!connect, Monitor!Service, Monitor!OneTimer
  <2>4. CASE Monitor!ConnectFailed
    BY <2>1, <2>2, <2>4, ProgramAssumption DEF Monitor!ConnectFailed, Monitor!Service, Monitor!OneTimer
  <2>5. CASE Monitor!stopPolling
    BY <2>1, <2>2, <2>5, ProgramAssumption DEF Monitor!stopPolling, Monitor!Service, Monitor!OneTimer
  <2> QED
    BY <2>3, <2>4, <2>5
<1>3. Monitor!Owed'
  BY <1>1, OwedKept DEF Monitor!Inv, Monitor!listener, Monitor!world
<1> QED
  BY <1>1, <1>2, <1>3, WorldKept, ListenerKept, PollsKept DEF Monitor!Inv

LEMMA MonitorPolling ==
  Monitor!Inv /\ (Monitor!Connected \/ Monitor!Restart \/ Monitor!Tick) => Monitor!Inv'
<1> SUFFICES ASSUME Monitor!Inv, Monitor!Connected \/ Monitor!Restart \/ Monitor!Tick PROVE Monitor!Inv'
  OBVIOUS
<1>1. UNCHANGED Monitor!listener /\ UNCHANGED Monitor!world /\ Monitor!Room
  BY DEF Monitor!Connected, Monitor!Restart, Monitor!Tick
<1>2. Monitor!Service'
  <2>1. x2' \in BOOLEAN /\ x5' \in BOOLEAN
    BY Zenon DEF Monitor!Connected, Monitor!Restart, Monitor!Tick, Monitor!Started, Monitor!Inv, Monitor!Service
  <2>2. x3 \in Nat /\ x14 \in 0..DockerOps /\ x3 <= x14 /\ x4 <= x14 /\ x4 = IF x5 THEN 1 ELSE 0
    BY DEF Monitor!Inv, Monitor!Service, Monitor!OneTimer
  <2>3. CASE Monitor!Connected
    <3>1. x3 > 0 /\ x3' = x3 - 1 /\ x14' = x14
      BY <2>3 DEF Monitor!Connected
    <3>2. x4' = IF x5' THEN 1 ELSE 0
      BY <2>2, <2>3 DEF Monitor!Connected, Monitor!Started
    <3> QED
      BY <2>1, <2>2, <3>1, <3>2, ProgramAssumption DEF Monitor!Service, Monitor!OneTimer
  <2>4. CASE Monitor!Restart
    BY <2>1, <2>2, <2>4, ProgramAssumption DEF Monitor!Restart, Monitor!Service, Monitor!OneTimer
  <2>5. CASE Monitor!Tick
    BY <2>1, <2>2, <2>5 DEF Monitor!Tick, Monitor!Service, Monitor!OneTimer
  <2> QED
    BY <2>3, <2>4, <2>5
<1>3. \/ x6' = x6 /\ x11' = x11
      \/ x6' = Monitor!Begun /\ x11' = (x11 /\ ~Monitor!Overlaps)
  BY Zenon DEF Monitor!Connected, Monitor!Restart, Monitor!Tick, Monitor!Started
<1>4. Monitor!Polls' /\ Monitor!Owed' /\ x11' \in BOOLEAN
  BY <1>1, <1>3, MonitorBegun, OwedKept, PollsKept DEF Monitor!Inv, Monitor!listener, Monitor!world
<1> QED
  BY <1>1, <1>2, <1>4, WorldKept, ListenerKept DEF Monitor!Inv

\* A container changes: what it owes grows by no more than the stop that is counted.
LEMMA MonitorChange == Monitor!Inv /\ Monitor!Change => Monitor!Inv'
<1> SUFFICES ASSUME Monitor!Inv, Monitor!Change PROVE Monitor!Inv'
  OBVIOUS
<1>1. /\ x12 < DockerChanges /\ x12' = x12 + 1 /\ x14' = x14
      /\ UNCHANGED Monitor!service /\ UNCHANGED Monitor!listener
  BY DEF Monitor!Change
<1>2. PICK c \in Containers, look \in {"up", "sick", "down", "gone"} :
        /\ look # x1[c]
        /\ x1' = [x1 EXCEPT ![c] = look]
        /\ x9' = IF Monitor!Running(x1[c]) /\ ~Monitor!Running(look) THEN [x9 EXCEPT ![c] = @ + 1] ELSE x9
  BY DEF Monitor!Change
<1>3. /\ x1 \in Monitor!Looks /\ x9 \in [Containers -> Nat] /\ x12 \in Nat
      /\ \A d \in Containers : x9[d] \in Nat /\ x9[d] <= x12
  BY ProgramAssumption DEF Monitor!Inv, Monitor!World
<1>4. /\ x1' \in Monitor!Looks /\ x9' \in [Containers -> Nat]
      /\ x1'[c] = look /\ x9'[c] = x9[c] + Monitor!Drop(x1[c], look)
      /\ \A d \in Containers \ {c} : x1'[d] = x1[d] /\ x9'[d] = x9[d]
  BY <1>2, <1>3 DEF Monitor!Looks, Monitor!Look, Monitor!Drop
<1>5. Monitor!World'
  <2>1. \A d \in Containers : x9'[d] <= x12'
    BY <1>1, <1>3, <1>4, Drops
  <2>2. x12' \in 0..DockerChanges
    BY <1>1, <1>3, ProgramAssumption
  <2> QED
    BY <1>4, <2>1, <2>2 DEF Monitor!World
<1>6. Monitor!Owed'
  <2> SUFFICES ASSUME x11, NEW d \in Containers PROVE Monitor!AlarmsOwed(d)'
    BY <1>1 DEF Monitor!Owed, Monitor!service, Monitor!Inv
  <2>1. Monitor!AlarmsOwed(d)
    BY DEF Monitor!Inv, Monitor!Owed
  <2>2. x10[d] \in Nat /\ x9[d] \in Nat
    BY <1>3 DEF Monitor!Inv, Monitor!Listener
  <2>3. /\ x9'[d] \in Nat
        /\ \A a : /\ Monitor!Drop(a, x1[d]) \in {0, 1} /\ Monitor!Drop(a, x1'[d]) \in {0, 1}
                  /\ Monitor!Drop(a, x1'[d]) <= Monitor!Drop(a, x1[d]) + (x9'[d] - x9[d])
    <3>1. CASE d = c
      <4>1. x1'[d] = look /\ x9'[d] = x9[d] + Monitor!Drop(x1[d], look)
        BY <1>4, <3>1
      <4>2. Monitor!Drop(x1[d], look) \in {0, 1}
        BY Drops
      <4>3. ASSUME NEW a
            PROVE  /\ Monitor!Drop(a, x1[d]) \in {0, 1} /\ Monitor!Drop(a, look) \in {0, 1}
                   /\ Monitor!Drop(a, look) <= Monitor!Drop(a, x1[d]) + Monitor!Drop(x1[d], look)
        BY Drops
      <4> QED
        BY <2>2, <4>1, <4>2, <4>3
    <3>2. CASE d # c
      BY <1>4, <2>2, <3>2, Drops
    <3> QED
      BY <3>1, <3>2
  <2>4. x6' = x6 /\ x8' = x8 /\ x10' = x10
    BY <1>1 DEF Monitor!service, Monitor!listener
  <2> DEFINE known == Monitor!LookIn(x8, d)
             seeing == Monitor!LookIn(x6[1].seen, d)
             first == x6 = <<>> \/ x6[1].stage = "list" \/ d \in x6[1].todo
  <2>5. IF first THEN x10[d] + Monitor!Drop(known, x1[d]) <= x9[d]
        ELSE x10[d] + Monitor!Drop(known, seeing) + Monitor!Drop(seeing, x1[d]) <= x9[d]
    BY <2>1 DEF Monitor!AlarmsOwed
  <2>6. Monitor!AlarmsOwed(d)' <=>
          IF first THEN x10[d] + Monitor!Drop(known, x1'[d]) <= x9'[d]
          ELSE x10[d] + Monitor!Drop(known, seeing) + Monitor!Drop(seeing, x1'[d]) <= x9'[d]
    BY <2>4 DEF Monitor!AlarmsOwed
  <2>7. Monitor!Drop(known, seeing) \in {0, 1}
    BY Drops
  <2> HIDE DEF known, seeing, first
  <2> QED
    BY <2>2, <2>3, <2>5, <2>6, <2>7
<1>7. Monitor!Service' /\ Monitor!Polls' /\ Monitor!Listener' /\ x11' \in BOOLEAN
  BY <1>1, ListenerKept, PollsKept DEF Monitor!Inv, Monitor!Service, Monitor!service, Monitor!OneTimer
<1> QED
  BY <1>5, <1>6, <1>7 DEF Monitor!Inv

\* What a poll that answers leaves alone.
LEMMA PollFrame ==
  ASSUME Monitor!Inv, NEW i \in 1..Len(x6), Monitor!Poll(i)
  PROVE  Monitor!Service' /\ Monitor!World' /\ x1' = x1 /\ x9' = x9
<1>1. UNCHANGED <<x2, x3, x4, x5, x14>> /\ UNCHANGED Monitor!world
  BY Zenon DEF Monitor!Poll, Monitor!Listed, Monitor!ListFails, Monitor!Inspected, Monitor!NotInspected, Monitor!Polled
<1> QED
  BY <1>1, WorldKept DEF Monitor!Inv, Monitor!Service, Monitor!OneTimer, Monitor!world

\* The only poll, if none has overtaken another.
LEMMA OnlyPoll ==
  ASSUME Monitor!Inv, NEW i \in 1..Len(x6), x11
  PROVE  i = 1 /\ Len(x6) = 1 /\ x6 # <<>>
<1>1. Len(x6) \in Nat /\ Len(x6) <= 1
  BY DEF Monitor!Inv, Monitor!Owed, Monitor!Polls
<1>2. Len(x6) = 1 /\ i = 1
  <2>1. \A n \in Nat : n <= 1 => \A j \in 1..n : n = 1 /\ j = 1
    OBVIOUS
  <2> QED
    BY <1>1, <2>1
<1>3. x6 # <<>>
  <2>1. Len(<<>>) = 0
    OBVIOUS
  <2> QED
    BY <1>2, <2>1
<1> QED
  BY <1>2, <1>3

LEMMA PollIsOne ==
  ASSUME Monitor!Inv, NEW i \in 1..Len(x6)
  PROVE  /\ x6[i] \in Monitor!PollState
         /\ x6[i].stage \in {"list", "inspect"} /\ x6[i].todo \subseteq Containers /\ x6[i].seen \in Monitor!Seen
         /\ x6[i].todo \cap DOMAIN x6[i].seen = {}
         /\ x6[i].stage = "list" => x6[i].todo = {} /\ x6[i].seen = <<>>
<1>1. x6[i] \in Monitor!PollState
  BY DEF Monitor!Inv, Monitor!Polls
<1> QED
  BY <1>1 DEF Monitor!Inv, Monitor!Polls, Monitor!PollState

\* The list: what is not on it is gone.
LEMMA MonitorListed ==
  ASSUME Monitor!Inv, NEW i \in 1..Len(x6), Monitor!Listed(i)
  PROVE  Monitor!Inv'
<1> DEFINE todo == {c \in Containers : x1[c] # "gone"}
           poll == [stage |-> "inspect", todo |-> todo, seen |-> <<>>]
<1>1. /\ x6[i].stage = "list" /\ x6' = [x6 EXCEPT ![i] = poll]
      /\ x11' = x11 /\ UNCHANGED Monitor!listener
  BY DEF Monitor!Listed
<1>2. /\ poll \in Monitor!PollState /\ poll.stage = "inspect" /\ poll.todo = todo /\ poll.seen = <<>>
      /\ poll.todo \cap DOMAIN poll.seen = {} /\ poll.stage # "list"
  BY NothingSeen DEF Monitor!PollState
<1> HIDE DEF poll
<1>3. Monitor!Polls' /\ Len(x6') = Len(x6) /\ x6'[i] = poll
  BY <1>1, <1>2, PollChanged DEF Monitor!Inv
<1>4. Monitor!Owed'
  <2>0. x11 => Len(x6') <= 1
    BY <1>3, OnlyPoll
  <2> SUFFICES ASSUME x11, NEW c \in Containers PROVE Monitor!AlarmsOwed(c)'
    BY <1>1, <2>0, Zenon DEF Monitor!Owed
  <2>1. i = 1 /\ Len(x6) = 1 /\ x6 # <<>> /\ Len(x6') <= 1 /\ x6' # <<>> /\ x6'[1] = poll
    BY <1>3, OnlyPoll
  <2>2. x10[c] + Monitor!Drop(Monitor!LookIn(x8, c), x1[c]) <= x9[c]
    BY <1>1, <2>1 DEF Monitor!Inv, Monitor!Owed, Monitor!AlarmsOwed
  <2>3. x1' = x1 /\ x8' = x8 /\ x9' = x9 /\ x10' = x10
    BY <1>1, PollFrame DEF Monitor!Poll, Monitor!listener
  <2>4. CASE c \in todo
    BY <1>2, <2>1, <2>2, <2>3, <2>4 DEF Monitor!AlarmsOwed
  <2>5. CASE c \notin todo
    <3>1. x1[c] = "gone" /\ Monitor!LookIn(poll.seen, c) = "gone"
      BY <1>2, <2>5, NothingSeen DEF Monitor!LookIn
    <3>2. Monitor!Drop("gone", "gone") = 0 /\ x10[c] \in Nat
      BY Drops DEF Monitor!Inv, Monitor!Listener
    <3>3. Monitor!Drop(Monitor!LookIn(x8, c), "gone") \in {0, 1}
      BY Drops
    <3> QED
      BY <1>2, <2>1, <2>2, <2>3, <2>5, <3>1, <3>2, <3>3 DEF Monitor!AlarmsOwed
  <2> QED
    BY <2>1, <2>4, <2>5
<1> QED
  BY <1>1, <1>3, <1>4, PollFrame, ListenerKept DEF Monitor!Inv, Monitor!Poll

LEMMA MonitorListFails ==
  ASSUME Monitor!Inv, NEW i \in 1..Len(x6), Monitor!ListFails(i)
  PROVE  Monitor!Inv'
<1>1. /\ x6[i].stage = "list" /\ x6' = Monitor!RemoveAt(x6, i)
      /\ x11' = x11 /\ UNCHANGED Monitor!listener
  BY DEF Monitor!ListFails
<1>2. Monitor!Polls' /\ Len(x6') = Len(x6) - 1
  BY <1>1, PollRemoved DEF Monitor!Inv
<1>3. Monitor!Owed'
  <2>0. x11 => Len(x6') <= 1
    BY <1>2, OnlyPoll
  <2> SUFFICES ASSUME x11, NEW c \in Containers PROVE Monitor!AlarmsOwed(c)'
    BY <1>1, <2>0, Zenon DEF Monitor!Owed
  <2>1. i = 1 /\ x6 # <<>> /\ Len(x6') = 0 /\ x6' = <<>>
    BY <1>2, OnlyPoll DEF Monitor!Polls
  <2>2. x10[c] + Monitor!Drop(Monitor!LookIn(x8, c), x1[c]) <= x9[c]
    BY <1>1, <2>1 DEF Monitor!Inv, Monitor!Owed, Monitor!AlarmsOwed
  <2>3. x1' = x1 /\ x8' = x8 /\ x9' = x9 /\ x10' = x10
    BY <1>1, PollFrame DEF Monitor!Poll, Monitor!listener
  <2> QED
    BY <2>1, <2>2, <2>3 DEF Monitor!AlarmsOwed
<1> QED
  BY <1>1, <1>2, <1>3, PollFrame, ListenerKept DEF Monitor!Inv, Monitor!Poll

\* An answer: what was still owed of the container is what the poll now knows of.
LEMMA MonitorInspected ==
  ASSUME Monitor!Inv, NEW i \in 1..Len(x6), NEW c \in Containers, Monitor!Inspected(i, c)
  PROVE  Monitor!Inv'
<1> DEFINE seen == IF x1[c] = "gone" THEN x6[i].seen ELSE Monitor!With(x6[i].seen, c)
           poll == [stage |-> "inspect", todo |-> x6[i].todo \ {c}, seen |-> seen]
<1>1. /\ c \in x6[i].todo /\ x11' = x11 /\ UNCHANGED Monitor!listener
      /\ x6' = [x6 EXCEPT ![i] = poll]
  BY DEF Monitor!Inspected
<1>2. /\ x6[i].todo \subseteq Containers /\ x6[i].seen \in Monitor!Seen /\ c \notin DOMAIN x6[i].seen
      /\ x6[i].todo \cap DOMAIN x6[i].seen = {} /\ x6[i].stage = "inspect"
  <2>1. x6[i].stage # "list"
    BY <1>1, PollIsOne
  <2> QED
    BY <1>1, <2>1, PollIsOne
<1>3. x1[c] = "gone" \/ x1[c] \in Monitor!Look
  BY DEF Monitor!Inv, Monitor!World, Monitor!Looks
<1>4. /\ seen \in Monitor!Seen /\ DOMAIN seen \subseteq DOMAIN x6[i].seen \cup {c}
      /\ Monitor!LookIn(seen, c) = x1[c]
      /\ \A d \in Containers \ {c} : Monitor!LookIn(seen, d) = Monitor!LookIn(x6[i].seen, d)
  <2>1. CASE x1[c] = "gone"
    BY <1>2, <2>1 DEF Monitor!LookIn
  <2>2. CASE x1[c] # "gone"
    BY <1>2, <1>3, <2>2, SeenWith
  <2> QED
    BY <2>1, <2>2
<1> HIDE DEF seen
<1>5. /\ poll \in Monitor!PollState /\ poll.stage = "inspect" /\ poll.todo = x6[i].todo \ {c} /\ poll.seen = seen
      /\ poll.todo \cap DOMAIN poll.seen = {}
  BY <1>2, <1>4 DEF Monitor!PollState
<1> HIDE DEF poll
<1>6. Monitor!Polls' /\ Len(x6') = Len(x6) /\ x6'[i] = poll
  <2>1. poll.stage # "list" /\ Monitor!Polls
    BY <1>5 DEF Monitor!Inv
  <2> QED
    BY <1>1, <1>5, <2>1, PollChanged
<1>7. Monitor!Owed'
  <2>0. x11 => Len(x6') <= 1
    BY <1>6, OnlyPoll
  <2> SUFFICES ASSUME x11, NEW d \in Containers PROVE Monitor!AlarmsOwed(d)'
    BY <1>1, <2>0, Zenon DEF Monitor!Owed
  <2>1. i = 1 /\ Len(x6) = 1 /\ x6 # <<>> /\ Len(x6') <= 1 /\ x6' # <<>> /\ x6'[1] = poll
    BY <1>6, OnlyPoll
  <2>2. Monitor!AlarmsOwed(d)
    BY DEF Monitor!Inv, Monitor!Owed
  <2>3. x1' = x1 /\ x8' = x8 /\ x9' = x9 /\ x10' = x10
    BY <1>1, PollFrame DEF Monitor!Poll, Monitor!listener
  <2>4. CASE d = c
    <3>1. x10[d] + Monitor!Drop(Monitor!LookIn(x8, d), x1[d]) <= x9[d]
      BY <1>1, <2>1, <2>2, <2>4 DEF Monitor!AlarmsOwed
    <3>2. Monitor!LookIn(poll.seen, d) = x1[d] /\ d \notin poll.todo
      BY <1>4, <1>5, <2>4
    <3>3. Monitor!Drop(x1[d], x1[d]) = 0 /\ x10[d] \in Nat
      BY Drops DEF Monitor!Inv, Monitor!Listener
    <3>4. Monitor!Drop(Monitor!LookIn(x8, d), x1[d]) \in {0, 1}
      BY Drops
    <3> QED
      BY <1>5, <2>1, <2>3, <3>1, <3>2, <3>3, <3>4 DEF Monitor!AlarmsOwed
  <2>5. CASE d # c
    <3>1. Monitor!LookIn(poll.seen, d) = Monitor!LookIn(x6[1].seen, d) /\ (d \in poll.todo <=> d \in x6[1].todo)
      BY <1>4, <1>5, <2>1, <2>5
    <3>2. x6[1].stage # "list" /\ poll.stage # "list"
      BY <1>2, <1>5, <2>1
    <3> QED
      BY <2>1, <2>2, <2>3, <3>1, <3>2 DEF Monitor!AlarmsOwed
  <2> QED
    BY <2>1, <2>4, <2>5
<1> QED
  BY <1>1, <1>6, <1>7, PollFrame, ListenerKept DEF Monitor!Inv, Monitor!Poll

\* A container that does not answer: from now on alarms may be false.
LEMMA MonitorNotInspected ==
  ASSUME Monitor!Inv, NEW i \in 1..Len(x6), NEW c \in Containers, Monitor!NotInspected(i, c)
  PROVE  Monitor!Inv'
<1> DEFINE poll == [x6[i] EXCEPT !.todo = @ \ {c}]
<1>1. c \in x6[i].todo /\ x11' = FALSE /\ UNCHANGED Monitor!listener /\ x6' = [x6 EXCEPT ![i].todo = @ \ {c}]
  BY DEF Monitor!NotInspected
<1>2. /\ x6[i] \in Monitor!PollState /\ x6[i].stage = "inspect"
      /\ x6[i].todo \cap DOMAIN x6[i].seen = {}
  BY <1>1, PollIsOne
<1>3. /\ poll \in Monitor!PollState /\ poll.stage = "inspect"
      /\ poll.todo = x6[i].todo \ {c} /\ poll.seen = x6[i].seen
  BY <1>2 DEF Monitor!PollState
<1>4. x6' = [x6 EXCEPT ![i] = poll]
  BY <1>1, Zenon
<1> HIDE DEF poll
<1>5. Monitor!Polls'
  <2>1. poll.stage # "list" /\ Monitor!Polls /\ poll.todo \cap DOMAIN poll.seen = {}
    BY <1>2, <1>3 DEF Monitor!Inv
  <2> QED
    BY <1>3, <1>4, <2>1, PollChanged
<1>6. Monitor!Owed' /\ x11' \in BOOLEAN
  BY <1>1 DEF Monitor!Owed
<1> QED
  BY <1>1, <1>5, <1>6, PollFrame, ListenerKept DEF Monitor!Inv, Monitor!Poll

\* The last answer: the listener is told what was seen, and of each stop that it, in what
\* it knew before, had still to notice.
LEMMA MonitorPolled ==
  ASSUME Monitor!Inv, NEW i \in 1..Len(x6), Monitor!Polled(i)
  PROVE  Monitor!Inv'
<1> DEFINE seen == x6[i].seen
<1>1. /\ x6[i].stage = "inspect" /\ x6[i].todo = {} /\ x7' = seen
      /\ x6' = Monitor!RemoveAt(x6, i) /\ x11' = x11
  BY DEF Monitor!Polled
<1>2. IF Monitor!Changed(seen)
      THEN /\ x8' = seen
           /\ x10' = [c \in Containers |-> IF c \in Monitor!StopsTold(seen) THEN x10[c] + 1 ELSE x10[c]]
      ELSE UNCHANGED <<x8, x10>>
  BY DEF Monitor!Polled
<1>3. seen \in Monitor!Seen /\ x7 \in Monitor!Seen /\ x8 = x7 /\ x10 \in [Containers -> Nat]
  BY PollIsOne DEF Monitor!Inv, Monitor!Listener, Monitor!ToldIsCache
<1> HIDE DEF seen
<1>4. x8' = seen
  <2>1. CASE ~Monitor!Changed(seen)
    <3>1. DOMAIN seen = DOMAIN x7 /\ \A c \in DOMAIN seen : seen[c] = x7[c]
      BY <2>1 DEF Monitor!Changed
    <3>2. seen = [c \in DOMAIN seen |-> seen[c]] /\ x7 = [c \in DOMAIN x7 |-> x7[c]]
      BY <1>3, SeenMaps
    <3>3. seen = x7
      BY <3>1, <3>2
    <3> QED
      BY <1>2, <1>3, <2>1, <3>3
  <2> QED
    BY <1>2, <2>1
<1>5. /\ x10' \in [Containers -> Nat]
      /\ \A c \in Containers :
           x10'[c] = x10[c] + Monitor!Drop(Monitor!LookIn(x8, c), Monitor!LookIn(seen, c))
  <2>1. CASE Monitor!Changed(seen)
    <3>1. x10' \in [Containers -> Nat]
      BY <1>2, <1>3, <2>1
    <3>2. \A c \in Containers :
            c \in Monitor!StopsTold(seen) <=> Monitor!Drop(Monitor!LookIn(x8, c), Monitor!LookIn(seen, c)) = 1
      <4> TAKE c \in Containers
      <4>1. c \in DOMAIN seen => seen[c] \in {"up", "sick", "down"}
        BY <1>3, SeenMaps DEF Monitor!Look
      <4> QED
        BY <4>1 DEF Monitor!StopsTold, Monitor!Drop, Monitor!LookIn, Monitor!Running
    <3>3. \A c \in Containers : x10'[c] = IF c \in Monitor!StopsTold(seen) THEN x10[c] + 1 ELSE x10[c]
      BY <1>2, <2>1
    <3>4. \A c \in Containers : x10[c] \in Nat /\ Monitor!Drop(Monitor!LookIn(x8, c), Monitor!LookIn(seen, c)) \in {0, 1}
      BY <1>3, Drops
    <3> QED
      BY <3>1, <3>2, <3>3, <3>4
  <2>2. CASE ~Monitor!Changed(seen)
    <3>1. x10' = x10 /\ x8 = seen
      BY <1>2, <1>4, <2>2
    <3> QED
      BY <1>3, <3>1, Drops
  <2> QED
    BY <2>1, <2>2
<1>6. Monitor!Polls' /\ Len(x6') = Len(x6) - 1
  BY <1>1, PollRemoved DEF Monitor!Inv
<1>7. Monitor!Owed'
  <2>0. x11 => Len(x6') <= 1
    BY <1>6, OnlyPoll
  <2> SUFFICES ASSUME x11, NEW c \in Containers PROVE Monitor!AlarmsOwed(c)'
    BY <1>1, <2>0, Zenon DEF Monitor!Owed
  <2>1. i = 1 /\ x6 # <<>> /\ Len(x6') = 0 /\ x6' = <<>>
    BY <1>6, OnlyPoll DEF Monitor!Polls
  <2> DEFINE known == Monitor!LookIn(x8, c)
             seeing == Monitor!LookIn(seen, c)
  <2>2. x10[c] + Monitor!Drop(known, seeing) + Monitor!Drop(seeing, x1[c]) <= x9[c]
    BY <1>1, <2>1 DEF Monitor!Inv, Monitor!Owed, Monitor!AlarmsOwed, seen
  <2>3. x1' = x1 /\ x9' = x9 /\ x10'[c] = x10[c] + Monitor!Drop(known, seeing) /\ Monitor!LookIn(x8', c) = seeing
    BY <1>4, <1>5, PollFrame DEF Monitor!Poll
  <2> HIDE DEF known, seeing
  <2>4. x10'[c] + Monitor!Drop(Monitor!LookIn(x8', c), x1'[c]) <= x9'[c]
    BY <2>2, <2>3
  <2> QED
    BY <2>1, <2>4 DEF Monitor!AlarmsOwed
<1>8. Monitor!Listener'
  BY <1>1, <1>3, <1>4, <1>5 DEF Monitor!Listener, Monitor!ToldIsCache
<1> QED
  BY <1>1, <1>6, <1>7, <1>8, PollFrame DEF Monitor!Inv, Monitor!Poll

LEMMA MonitorStep == Monitor!Inv /\ [Monitor!Next]_(Monitor!vars) => Monitor!Inv'
<1> SUFFICES ASSUME Monitor!Inv, [Monitor!Next]_(Monitor!vars) PROVE Monitor!Inv'
  OBVIOUS
<1>1. CASE UNCHANGED Monitor!vars
  <2>1. /\ UNCHANGED <<x2, x3, x4, x5, x6, x11, x14>> /\ UNCHANGED Monitor!world /\ UNCHANGED Monitor!listener
        /\ UNCHANGED <<x1, x8, x9, x10>>
    BY <1>1 DEF Monitor!vars, Monitor!world, Monitor!listener
  <2>2. Monitor!Service' /\ Monitor!Owed'
    BY <2>1, OwedKept DEF Monitor!Inv, Monitor!Service, Monitor!OneTimer
  <2> QED
    BY <2>1, <2>2, WorldKept, ListenerKept, PollsKept DEF Monitor!Inv
<1>2. ASSUME NEW i \in 1..Len(x6), Monitor!Poll(i) PROVE Monitor!Inv'
  BY <1>2, MonitorListed, MonitorListFails, MonitorInspected, MonitorNotInspected, MonitorPolled DEF Monitor!Poll
<1> QED
  BY <1>1, <1>2, MonitorService, MonitorPolling, MonitorChange DEF Monitor!Next

\* A notification was owed before it was given, and what is owed has happened.
LEMMA MonitorSound == Monitor!Inv => Monitor!TypeOK /\ Monitor!MonitorIsSound
<1> SUFFICES ASSUME Monitor!Inv PROVE Monitor!TypeOK /\ Monitor!MonitorIsSound
  OBVIOUS
<1>1. Monitor!NoFalseAlarm
  <2> SUFFICES ASSUME x11, NEW c \in Containers PROVE x10[c] <= x9[c]
    BY DEF Monitor!NoFalseAlarm
  <2>1. x10[c] \in Nat /\ x9[c] \in Nat /\ Monitor!AlarmsOwed(c)
    BY DEF Monitor!Inv, Monitor!Owed, Monitor!Listener, Monitor!World
  <2>2. \A a, b : Monitor!Drop(a, b) \in {0, 1}
    BY Drops
  <2> QED
    BY <2>1, <2>2 DEF Monitor!AlarmsOwed
<1>2. x3 \in 0..DockerOps /\ x4 \in 0..DockerOps
  BY ProgramAssumption DEF Monitor!Inv, Monitor!Service, Monitor!OneTimer
<1>3. \A seen \in Monitor!Seen : Monitor!Map(seen)
  BY SeenMaps DEF Monitor!Map
<1>4. \A i \in 1..Len(x6) : x6[i].stage \in {"list", "inspect"} /\ x6[i].todo \subseteq Containers /\ Monitor!Map(x6[i].seen)
  BY <1>3, PollIsOne
<1>5. Monitor!Map(x7) /\ Monitor!Map(x8)
  BY <1>3 DEF Monitor!Inv, Monitor!Listener, Monitor!ToldIsCache
<1>6. x9 \in [Containers -> 0..DockerChanges]
  <2>1. \A c \in Containers : x9[c] \in 0..DockerChanges
    BY ProgramAssumption DEF Monitor!Inv, Monitor!World
  <2> QED
    BY <2>1 DEF Monitor!Inv, Monitor!World
<1>7. Monitor!TypeOK
  BY <1>2, <1>4, <1>5, <1>6, Zenon DEF Monitor!TypeOK, Monitor!Inv, Monitor!Service, Monitor!World, Monitor!Listener,
     Monitor!Polls, Monitor!Looks
<1> QED
  BY <1>1, <1>7 DEF Monitor!MonitorIsSound, Monitor!Inv, Monitor!Service, Monitor!Listener

\* DockerMonitor: one timer while it polls and none else, listeners that know what was last
\* seen, and no false alarm unless polls overlap or requests fail.
THEOREM MonitorCorrect == ProgramSpec => []MonitorIsSound
<1>1. ProgramInit /\ part = "monitor" => Monitor!Inv
  BY MonitorInit DEF ProgramInit
<1>2. part = "monitor" /\ [ProgramNext]_all => (part = "monitor")' /\ [Monitor!Next]_(Monitor!vars)
  BY DEF ProgramNext, all, from10, from11, from13, from14, from15, from16, from18, Monitor!vars
<1>3. ~(part = "monitor") /\ [ProgramNext]_all => (~(part = "monitor"))'
  BY DEF ProgramNext, all, from10, from11, from13, from14, from15, from16, from18
<1>4. Monitor!Inv => MonitorIsSound
  BY MonitorSound DEF MonitorIsSound
<1>5. ~(part = "monitor") => MonitorIsSound
  BY DEF MonitorIsSound
<1> QED
  BY <1>1, <1>2, <1>3, <1>4, <1>5, MonitorStep, PTL DEF ProgramSpec

-----------------------------------------------------------------------------
(* The snapshots of the agent server.                                      *)

\* A text that a rollback gives back is one that it can give back again.
LEMMA KeptTexts ==
  /\ \A c : Snapshots!Kept(Snapshots!Kept(c)) = Snapshots!Kept(c)
  /\ Snapshots!Text(0) = Snapshots!Absent
  /\ \A c : Snapshots!Text(IF c.form = "closed" THEN 0 ELSE c.text) = Snapshots!Kept(c)
BY DEF Snapshots!Kept, Snapshots!Text, Snapshots!Absent

LEMMA SnapshotsInit == Snapshots!Init => Snapshots!Inv
<1> SUFFICES ASSUME Snapshots!Init PROVE Snapshots!Inv
  OBVIOUS
<1> USE ProgramAssumption
<1>1. /\ x1 \in [ChatFiles -> {Snapshots!Absent} \cup [text : {1}, form : {"plain", "crlf", "closed"}]]
      /\ x2 = <<>> /\ x3 = <<>> /\ x4 = FALSE /\ x5 = Snapshots!NoRollback /\ x7 = 0 /\ Len(x2) = 0
  BY DEF Snapshots!Init
<1>2. {Snapshots!Absent} \cup [text : {1}, form : {"plain", "crlf", "closed"}] \subseteq Snapshots!Content
  BY DEF Snapshots!Absent, Snapshots!Content
<1>3. x1 \in [ChatFiles -> Snapshots!Content]
  BY <1>1, <1>2
<1>4. 0 \in 0..FileWrites /\ FALSE \in BOOLEAN /\ 0 <= MaxSnapshots
      /\ <<>> \in Seq(Snapshots!Saves) /\ <<>> \in Seq(Snapshots!Past) /\ Len(<<>>) = 0
  OBVIOUS
<1>5. Snapshots!Typed
  BY <1>1, <1>3, <1>4, Zenon DEF Snapshots!Typed
<1>6. Snapshots!NewestIsUndone /\ Snapshots!SavedFirst
  BY <1>1 DEF Snapshots!NewestIsUndone, Snapshots!NoRollback, Snapshots!SavedFirst
<1>7. 1..Snapshots!Newest = {}
  BY <1>1 DEF Snapshots!Newest
<1> QED
  BY <1>5, <1>6, <1>7, Zenon DEF Snapshots!Inv, Snapshots!Moments, Snapshots!Originals, Snapshots!OthersSince

\* What the invariant says of one snapshot.
LEMMA SnapshotTypes ==
  ASSUME Snapshots!Typed
  PROVE  /\ Len(x2) \in Nat /\ Len(x3) = Len(x2) /\ Snapshots!Newest = Len(x2)
         /\ DOMAIN x2 = 1..Len(x2) /\ DOMAIN x3 = 1..Len(x2)
         /\ \A i \in 1..Len(x2) :
              /\ x2[i] \in [DOMAIN x2[i] -> 0..FileWrites + 1] /\ DOMAIN x2[i] \subseteq ChatFiles
              /\ x3[i] \in Snapshots!Past
              /\ x3[i].disk \in [ChatFiles -> Snapshots!Content]
              /\ x3[i].others \subseteq ChatFiles /\ x3[i].tools \subseteq ChatFiles
<1>1. /\ Len(x2) \in Nat /\ Len(x3) = Len(x2) /\ Snapshots!Newest = Len(x2)
      /\ DOMAIN x2 = 1..Len(x2) /\ DOMAIN x3 = 1..Len(x2)
  BY DEF Snapshots!Typed, Snapshots!Newest
<1>2. ASSUME NEW i \in 1..Len(x2)
      PROVE  x2[i] \in [DOMAIN x2[i] -> 0..FileWrites + 1] /\ DOMAIN x2[i] \subseteq ChatFiles
  <2>1. x2[i] \in Snapshots!Saves
    BY DEF Snapshots!Typed
  <2> QED
    BY <2>1 DEF Snapshots!Saves
<1>3. ASSUME NEW i \in 1..Len(x2)
      PROVE  /\ x3[i] \in Snapshots!Past /\ x3[i].disk \in [ChatFiles -> Snapshots!Content]
             /\ x3[i].others \subseteq ChatFiles /\ x3[i].tools \subseteq ChatFiles
  <2>1. x3[i] \in Snapshots!Past
    BY <1>1 DEF Snapshots!Typed
  <2> QED
    BY <2>1 DEF Snapshots!Past
<1> QED
  BY <1>1, <1>2, <1>3

\* A function on an interval from 1 on is a sequence.
LEMMA Intervals ==
  ASSUME NEW S, NEW n \in Nat, NEW f \in [1..n -> S]
  PROVE  f \in Seq(S) /\ Len(f) = n
BY IsASeq, LenProperties, SeqDef

LEMMA Shorter ==
  ASSUME NEW S, NEW s \in Seq(S), NEW n \in 0..Len(s)
  PROVE  SubSeq(s, 1, n) \in Seq(S) /\ Len(SubSeq(s, 1, n)) = n /\ \A j \in 1..n : SubSeq(s, 1, n)[j] = s[j]
BY SubSeqProperties

\* A request begins with a snapshot in which nothing is saved and since which nothing has
\* changed; the others keep their order.
LEMMA SnapshotsRequest == Snapshots!Inv /\ Snapshots!Request => Snapshots!Inv'
<1> SUFFICES ASSUME Snapshots!Inv, Snapshots!Request PROVE Snapshots!Inv'
  OBVIOUS
<1> DEFINE N == Len(x2)
           moment == [disk |-> x1, others |-> {}, tools |-> {}]
<1>1. /\ x4' = TRUE /\ x5' = Snapshots!NoRollback /\ UNCHANGED <<x1, x7>>
      /\ x2' = Snapshots!Limited(Append(x2, <<>>)) /\ x3' = Snapshots!Limited(Append(x3, moment))
  BY DEF Snapshots!Request
<1>2. Snapshots!Typed /\ N \in Nat /\ Len(x3) = N /\ N <= MaxSnapshots /\ Snapshots!Newest = N
  BY SnapshotTypes DEF Snapshots!Inv, Snapshots!Typed
<1>3. moment \in Snapshots!Past /\ <<>> \in Snapshots!Saves /\ DOMAIN <<>> = {}
  <2>1. <<>> \in [{} -> 0..FileWrites + 1] /\ DOMAIN <<>> = {}
    <3>1. <<>> = [c \in {} |-> c]
      OBVIOUS
    <3> QED
      BY <3>1
  <2>2. moment \in Snapshots!Past
    BY <1>2 DEF Snapshots!Past, Snapshots!Typed
  <2> QED
    BY <2>1, <2>2 DEF Snapshots!Saves
<1>4. moment.disk = x1 /\ moment.others = {} /\ moment.tools = {}
  OBVIOUS
<1> HIDE DEF moment
<1> DEFINE Cut(d) ==
             /\ x2' \in Seq(Snapshots!Saves) /\ x3' \in Seq(Snapshots!Past)
             /\ Len(x2') = N + 1 - d /\ Len(x3') = N + 1 - d /\ N + 1 - d <= MaxSnapshots /\ d <= N
             /\ \A j \in 1..N + 1 - d : /\ x2'[j] = IF j + d = N + 1 THEN <<>> ELSE x2[j + d]
                                        /\ x3'[j] = IF j + d = N + 1 THEN moment ELSE x3[j + d]
<1>5. PICK d \in {0, 1} : Cut(d)
  <2> DEFINE s == Append(x2, <<>>)
             p == Append(x3, moment)
  <2>1. /\ s \in Seq(Snapshots!Saves) /\ Len(s) = N + 1
        /\ \A j \in 1..N + 1 : s[j] = IF j = N + 1 THEN <<>> ELSE x2[j]
    BY <1>2, <1>3 DEF Snapshots!Typed
  <2>2. /\ p \in Seq(Snapshots!Past) /\ Len(p) = N + 1
        /\ \A j \in 1..N + 1 : p[j] = IF j = N + 1 THEN moment ELSE x3[j]
    BY <1>2, <1>3 DEF Snapshots!Typed
  <2>3. x2' = Snapshots!Limited(s) /\ x3' = Snapshots!Limited(p)
    BY <1>1
  <2> HIDE DEF s, p
  <2>4. CASE N + 1 > MaxSnapshots
    <3>1. x2' = Tail(s) /\ x3' = Tail(p) /\ N = MaxSnapshots /\ 1 <= N
      BY <1>2, <2>1, <2>2, <2>3, <2>4, ProgramAssumption DEF Snapshots!Limited
    <3>2. x2' \in Seq(Snapshots!Saves) /\ Len(x2') = N /\ \A j \in 1..N : x2'[j] = s[j + 1]
      BY <1>2, <2>1, <3>1
    <3>3. x3' \in Seq(Snapshots!Past) /\ Len(x3') = N /\ \A j \in 1..N : x3'[j] = p[j + 1]
      BY <1>2, <2>2, <3>1
    <3>4. \A j \in 1..N : /\ x2'[j] = IF j + 1 = N + 1 THEN <<>> ELSE x2[j + 1]
                          /\ x3'[j] = IF j + 1 = N + 1 THEN moment ELSE x3[j + 1]
      BY <1>2, <2>1, <2>2, <3>2, <3>3
    <3>5. N + 1 - 1 = N /\ N <= MaxSnapshots
      BY <1>2
    <3>6. Cut(1)
      BY <3>1, <3>2, <3>3, <3>4, <3>5
    <3> QED
      BY <3>6
  <2>5. CASE ~(N + 1 > MaxSnapshots)
    <3>1. x2' = s /\ x3' = p
      BY <2>1, <2>2, <2>3, <2>5 DEF Snapshots!Limited
    <3>2. N + 1 - 0 = N + 1 /\ N + 1 <= MaxSnapshots /\ 0 <= N /\ \A j \in 1..N + 1 : j + 0 = j
      BY <1>2, <2>5, ProgramAssumption
    <3>3. Cut(0)
      BY <2>1, <2>2, <3>1, <3>2
    <3> QED
      BY <3>3
  <2> QED
    BY <2>4, <2>5
<1>6. Snapshots!Typed' /\ Snapshots!Newest' = N + 1 - d
  BY <1>1, <1>2, <1>5 DEF Snapshots!Typed, Snapshots!Newest
<1>7. Snapshots!NewestIsUndone'
  BY <1>1 DEF Snapshots!NewestIsUndone, Snapshots!NoRollback
<1>8. Snapshots!SavedFirst'
  <2>1. N + 1 - d > 0 => x3'[N + 1 - d].tools = {}
    BY <1>2, <1>4, <1>5
  <2> QED
    BY <1>6, <2>1 DEF Snapshots!SavedFirst
<1>9. Snapshots!Originals'
  <2> SUFFICES ASSUME NEW j \in 1..N + 1 - d, NEW q \in DOMAIN x2'[j] \ x3'[j].others
               PROVE  Snapshots!Text(x2'[j][q]) = Snapshots!Kept(x3'[j].disk[q])
    BY <1>6 DEF Snapshots!Originals
  <2>1. j + d # N + 1
    BY <1>3, <1>5
  <2>2. j + d \in 1..N /\ x2'[j] = x2[j + d] /\ x3'[j] = x3[j + d]
    BY <1>2, <1>5, <2>1
  <2> QED
    BY <1>2, <2>2 DEF Snapshots!Inv, Snapshots!Originals
<1>10. Snapshots!OthersSince'
  <2> SUFFICES ASSUME NEW j \in 1..N + 1 - d, NEW k \in 1..N + 1 - d, j <= k
               PROVE  x3'[k].others \subseteq x3'[j].others
    BY <1>6 DEF Snapshots!OthersSince
  <2>1. CASE k + d = N + 1
    BY <1>4, <1>5, <2>1
  <2>2. CASE k + d # N + 1
    <3>1. j + d \in 1..N /\ k + d \in 1..N /\ j + d <= k + d /\ j + d # N + 1
      BY <1>2, <2>2
    <3>2. x3'[j] = x3[j + d] /\ x3'[k] = x3[k + d]
      BY <1>5, <2>2, <3>1
    <3> QED
      BY <1>2, <3>1, <3>2 DEF Snapshots!Inv, Snapshots!OthersSince
  <2> QED
    BY <2>1, <2>2
<1>11. Snapshots!Moments'
  <2> DEFINE M == N + 1 - d
             Un(q, j, k) == \A m \in j..k : q \notin DOMAIN x2'[m]
  <2>1. M \in Nat /\ M = N + 1 - d /\ Snapshots!Newest' = M
    BY <1>2, <1>5, <1>6
  <2> HIDE DEF M
  <2> SUFFICES ASSUME NEW j \in 1..M, NEW q \in ChatFiles \ x3'[j].others
               PROVE  /\ \A k \in j + 1..M :
                           Un(q, j, k - 1) => Snapshots!Unchanged(q, j, x3[k].disk[q], x3[k].tools)'
                      /\ Un(q, j, M) => Snapshots!Unchanged(q, j, x1[q], {})'
    BY <2>1, Zenon DEF Snapshots!Moments, Snapshots!Unsaved
  <2>2. CASE j + d = N + 1
    <3>1. \A k \in j + 1..M : FALSE
      BY <1>2, <2>1, <2>2
    <3>2. x3'[j] = moment
      BY <1>5, <2>1, <2>2
    <3> QED
      BY <1>1, <1>4, <3>1, <3>2 DEF Snapshots!Unchanged
  <2>3. CASE j + d # N + 1
    <3>1. j + d \in 1..N
      BY <1>2, <2>1, <2>3
    <3>2. x3'[j] = x3[j + d]
      BY <1>5, <2>1, <2>3
    <3>3. ASSUME NEW m \in j + d..N PROVE m - d \in j..M /\ x2'[m - d] = x2[m]
      <4>1. m - d \in j..M /\ m - d \in 1..M /\ (m - d) + d = m /\ m # N + 1
        BY <1>2, <2>1
      <4> QED
        BY <1>5, <2>1, <4>1
    <3>4. ASSUME NEW k \in j + 1..M, Un(q, j, k - 1)
          PROVE  Snapshots!Unchanged(q, j, x3[k].disk[q], x3[k].tools)'
      <4>1. ASSUME NEW m \in j + d..k + d - 1 PROVE q \notin DOMAIN x2[m]
        <5>1. m \in j + d..N /\ m - d \in j..k - 1
          BY <1>2, <2>1
        <5> QED
          BY <3>3, <3>4, <5>1
      <4>2. Snapshots!Unsaved(q, j + d, k + d - 1)
        BY <4>1, Zenon DEF Snapshots!Unsaved
      <4>3. CASE k + d = N + 1
        <5>1. k + d - 1 = N
          BY <1>2, <4>3
        <5>2. Snapshots!Unchanged(q, j + d, x1[q], {})
          BY <1>2, <3>1, <3>2, <4>2, <5>1 DEF Snapshots!Inv, Snapshots!Moments
        <5>3. x3'[k] = moment
          BY <1>5, <2>1, <4>3
        <5> QED
          BY <1>4, <3>2, <5>2, <5>3 DEF Snapshots!Unchanged
      <4>4. CASE k + d # N + 1
        <5>1. k + d \in j + d + 1..N /\ k \in 1..N + 1 - d
          BY <1>2, <2>1, <4>4
        <5>2. x3'[k] = x3[k + d]
          BY <1>5, <4>4, <5>1
        <5>3. Snapshots!Unchanged(q, j + d, x3[k + d].disk[q], x3[k + d].tools)
          BY <1>2, <3>1, <3>2, <4>2, <5>1 DEF Snapshots!Inv, Snapshots!Moments
        <5> QED
          BY <3>2, <5>2, <5>3 DEF Snapshots!Unchanged
      <4> QED
        BY <4>3, <4>4
    <3>5. ASSUME Un(q, j, M) PROVE Snapshots!Unchanged(q, j, x1[q], {})'
      <4>1. Snapshots!Unsaved(q, j + d, N)
        BY <3>3, <3>5 DEF Snapshots!Unsaved
      <4>2. Snapshots!Unchanged(q, j + d, x1[q], {})
        BY <1>2, <3>1, <3>2, <4>1 DEF Snapshots!Inv, Snapshots!Moments
      <4> QED
        BY <1>1, <3>2, <4>2 DEF Snapshots!Unchanged
    <3> QED
      BY <3>4, <3>5
  <2> QED
    BY <2>2, <2>3
<1> QED
  BY <1>6, <1>7, <1>8, <1>9, <1>10, <1>11 DEF Snapshots!Inv

\* The histories when something is added to a set of each.
LEMMA PastTools ==
  ASSUME Snapshots!Typed, NEW p \in ChatFiles, x3' = [i \in DOMAIN x3 |-> [x3[i] EXCEPT !.tools = @ \cup {p}]]
  PROVE  /\ x3' \in Seq(Snapshots!Past) /\ Len(x3') = Len(x3)
         /\ \A i \in 1..Len(x2) : /\ x3'[i].disk = x3[i].disk /\ x3'[i].others = x3[i].others
                                  /\ x3'[i].tools = x3[i].tools \cup {p}
<1>1. Len(x2) \in Nat /\ DOMAIN x3 = 1..Len(x2) /\ Len(x3) = Len(x2) /\ \A i \in 1..Len(x2) : x3[i] \in Snapshots!Past
  BY SnapshotTypes
<1>2. ASSUME NEW i \in 1..Len(x2)
      PROVE  /\ x3'[i] \in Snapshots!Past /\ x3'[i].disk = x3[i].disk /\ x3'[i].others = x3[i].others
             /\ x3'[i].tools = x3[i].tools \cup {p}
  <2> DEFINE tools == x3[i].tools \cup {p}
  <2>1. x3'[i] = [x3[i] EXCEPT !.tools = tools] /\ x3[i] \in Snapshots!Past
    BY <1>1
  <2>2. tools \in SUBSET ChatFiles
    BY <2>1 DEF Snapshots!Past
  <2>3. x3'[i].tools = tools
    BY <2>1 DEF Snapshots!Past
  <2> HIDE DEF tools
  <2>4. x3'[i] \in Snapshots!Past /\ x3'[i].disk = x3[i].disk /\ x3'[i].others = x3[i].others
    BY <2>1, <2>2, ZenonT(40) DEF Snapshots!Past
  <2> QED
    BY <2>3, <2>4 DEF tools
<1>3. x3' \in [1..Len(x2) -> Snapshots!Past]
  BY <1>1, <1>2
<1> QED
  BY <1>1, <1>2, <1>3, Intervals

LEMMA PastOthers ==
  ASSUME Snapshots!Typed, NEW n \in 0..Len(x2), NEW set \in SUBSET ChatFiles,
         x3' = [i \in 1..n |-> [x3[i] EXCEPT !.others = @ \cup set]]
  PROVE  /\ x3' \in Seq(Snapshots!Past) /\ Len(x3') = n
         /\ \A i \in 1..n : /\ x3'[i].disk = x3[i].disk /\ x3'[i].tools = x3[i].tools
                            /\ x3'[i].others = x3[i].others \cup set
<1>1. Len(x2) \in Nat /\ n \in Nat /\ \A i \in 1..Len(x2) : x3[i] \in Snapshots!Past
  BY SnapshotTypes
<1>2. ASSUME NEW i \in 1..n
      PROVE  /\ x3'[i] \in Snapshots!Past /\ x3'[i].disk = x3[i].disk /\ x3'[i].tools = x3[i].tools
             /\ x3'[i].others = x3[i].others \cup set
  <2>1. x3'[i] = [x3[i] EXCEPT !.others = @ \cup set] /\ x3[i] \in Snapshots!Past
    BY <1>1
  <2> QED
    BY <2>1 DEF Snapshots!Past
<1>3. x3' \in [1..n -> Snapshots!Past]
  BY <1>2
<1> QED
  BY <1>1, <1>2, <1>3, Intervals

\* A file that nobody else changed is in the newest snapshot as it was, or is as it was.
LEMMA NewestMoment ==
  ASSUME Snapshots!Inv, NEW i \in 1..Len(x2), NEW p \in ChatFiles \ x3[i].others, Snapshots!Unsaved(p, i, Len(x2))
  PROVE  /\ x1[p] \in {x3[i].disk[p], Snapshots!Kept(x3[i].disk[p])}
         /\ p \in x3[i].tools => x1[p] = Snapshots!Kept(x3[i].disk[p])
<1>1. Snapshots!Newest = Len(x2)
  BY SnapshotTypes DEF Snapshots!Inv
<1> QED
  BY <1>1 DEF Snapshots!Inv, Snapshots!Moments, Snapshots!Unchanged

\* What is saved first is the original: nobody else changed the file, and no tool before.
LEMMA SavedNow ==
  ASSUME Snapshots!Inv, Len(x2) > 0, NEW p \in ChatFiles
  PROVE  /\ Snapshots!Save(p) \in Snapshots!Saves
         /\ DOMAIN Snapshots!Save(p) = DOMAIN x2[Len(x2)] \cup {p}
         /\ \A q \in DOMAIN Snapshots!Save(p) \ x3[Len(x2)].others :
              Snapshots!Text(Snapshots!Save(p)[q]) = Snapshots!Kept(x3[Len(x2)].disk[q])
<1> DEFINE N == Len(x2)
           saved == x2[N]
           text(c) == IF c.form = "closed" THEN 0 ELSE c.text
<1>1. N \in Nat /\ N \in 1..N /\ Snapshots!Newest = N
  BY SnapshotTypes DEF Snapshots!Inv
<1>2. saved \in [DOMAIN saved -> 0..FileWrites + 1] /\ DOMAIN saved \subseteq ChatFiles
  BY <1>1, SnapshotTypes DEF Snapshots!Inv
<1>3. x1[p] \in Snapshots!Content
  BY DEF Snapshots!Inv, Snapshots!Typed
<1>4. text(x1[p]) \in 0..FileWrites + 1
  BY <1>3, ProgramAssumption DEF Snapshots!Content
<1>5. \A q \in DOMAIN saved \ x3[N].others : Snapshots!Text(saved[q]) = Snapshots!Kept(x3[N].disk[q])
  BY <1>1 DEF Snapshots!Inv, Snapshots!Originals
<1>6. CASE p \in DOMAIN saved
  <2>1. Snapshots!Save(p) = saved
    BY <1>1, <1>6 DEF Snapshots!Save
  <2>2. saved \in Snapshots!Saves
    BY <1>2 DEF Snapshots!Saves
  <2> QED
    BY <1>5, <1>6, <2>1, <2>2
<1>7. CASE p \notin DOMAIN saved
  <2>1. Snapshots!Save(p) = [f \in DOMAIN saved \cup {p} |-> IF f # p THEN saved[f] ELSE text(x1[p])]
    BY <1>1, <1>7 DEF Snapshots!Save
  <2>2. Snapshots!Save(p) \in [DOMAIN saved \cup {p} -> 0..FileWrites + 1] /\ DOMAIN saved \cup {p} \in SUBSET ChatFiles
    BY <1>2, <1>4, <2>1
  <2>3. Snapshots!Save(p) \in Snapshots!Saves
    BY <2>2, Zenon DEF Snapshots!Saves
  <2>4. p \notin x3[N].others => Snapshots!Text(text(x1[p])) = Snapshots!Kept(x3[N].disk[p])
    <3>1. Snapshots!Unsaved(p, N, N)
      BY <1>1, <1>7 DEF Snapshots!Unsaved
    <3>2. p \notin x3[N].others => Snapshots!Kept(x1[p]) = Snapshots!Kept(x3[N].disk[p])
      BY <1>1, <3>1, NewestMoment, KeptTexts
    <3> QED
      BY <3>2, KeptTexts
  <2>5. Snapshots!Save(p)[p] = text(x1[p]) /\ \A q \in DOMAIN saved : Snapshots!Save(p)[q] = saved[q]
    BY <1>7, <2>1
  <2> QED
    BY <1>5, <2>1, <2>3, <2>4, <2>5
<1> QED
  BY <1>6, <1>7

\* A tool changes a file it has saved: the newest snapshot says how it was.
LEMMA SnapshotsChange == ASSUME Snapshots!Inv, NEW p \in ChatFiles, Snapshots!Change(p) PROVE Snapshots!Inv'
<1> DEFINE N == Len(x2)
<1>1. /\ x4 /\ x4' = x4 /\ x7 < FileWrites /\ x7' = x7 + 1 /\ x5' = Snapshots!NoRollback
      /\ x2' = IF Snapshots!Newest = 0 THEN x2 ELSE [x2 EXCEPT ![Snapshots!Newest] = Snapshots!Save(p)]
      /\ \/ /\ x1' = [x1 EXCEPT ![p] = Snapshots!Text(x7 + 2)]
            /\ x3' = [i \in DOMAIN x3 |-> [x3[i] EXCEPT !.tools = @ \cup {p}]]
         \/ UNCHANGED <<x1, x3>>
  BY DEF Snapshots!Change
<1>2. Snapshots!Typed /\ N \in Nat /\ Len(x3) = N /\ N <= MaxSnapshots /\ Snapshots!Newest = N
  BY SnapshotTypes DEF Snapshots!Inv, Snapshots!Typed
<1>3. /\ x2' \in Seq(Snapshots!Saves) /\ Len(x2') = N
      /\ \A j \in 1..N : x2'[j] = IF j = N THEN Snapshots!Save(p) ELSE x2[j]
  <2>1. CASE N = 0
    BY <1>1, <1>2, <2>1 DEF Snapshots!Typed
  <2>2. CASE N # 0
    <3>1. N > 0 /\ N \in 1..N /\ x2' = [x2 EXCEPT ![N] = Snapshots!Save(p)] /\ x2 \in Seq(Snapshots!Saves)
      BY <1>1, <1>2, <2>2 DEF Snapshots!Typed
    <3>2. Snapshots!Save(p) \in Snapshots!Saves
      BY <3>1, SavedNow
    <3> QED
      BY <3>1, <3>2
  <2> QED
    BY <2>1, <2>2
<1>4. /\ x3' \in Seq(Snapshots!Past) /\ Len(x3') = N
      /\ \A i \in 1..N : /\ x3'[i].disk = x3[i].disk /\ x3'[i].others = x3[i].others
                         /\ x3'[i].tools \subseteq x3[i].tools \cup {p}
                         /\ x3'[i].tools \cup {p} = x3[i].tools \cup {p}
  <2>1. CASE UNCHANGED x3
    BY <1>2, <2>1 DEF Snapshots!Typed
  <2>2. CASE x3' = [i \in DOMAIN x3 |-> [x3[i] EXCEPT !.tools = @ \cup {p}]]
    BY <1>2, <2>2, PastTools
  <2> QED
    BY <1>1, <2>1, <2>2
<1>5. x1' \in [ChatFiles -> Snapshots!Content] /\ x7' \in 0..FileWrites /\ \A q \in ChatFiles \ {p} : x1'[q] = x1[q]
  <2>0. x7 \in 0..FileWrites /\ FileWrites \in Nat /\ x7 < FileWrites /\ x7' = x7 + 1
    BY <1>1, <1>2, ProgramAssumption DEF Snapshots!Typed
  <2>1. x7 + 2 \in 0..FileWrites + 1 /\ x7' \in 0..FileWrites
    BY <2>0
  <2>2. Snapshots!Text(x7 + 2) \in Snapshots!Content
    BY <2>1 DEF Snapshots!Text, Snapshots!Content
  <2> QED
    BY <1>1, <2>1, <2>2 DEF Snapshots!Inv, Snapshots!Typed
<1>6. Snapshots!Typed' /\ Snapshots!Newest' = N
  BY <1>1, <1>2, <1>3, <1>4, <1>5 DEF Snapshots!Typed, Snapshots!Newest
<1>7. Snapshots!NewestIsUndone'
  BY <1>1 DEF Snapshots!NewestIsUndone, Snapshots!NoRollback
<1>8. Snapshots!SavedFirst'
  <2> SUFFICES ASSUME N > 0 PROVE x3'[N].tools \subseteq DOMAIN x2'[N]
    BY <1>6 DEF Snapshots!SavedFirst
  <2>1. x3[N].tools \subseteq DOMAIN x2[N] /\ N \in 1..N
    BY <1>1, <1>2 DEF Snapshots!Inv, Snapshots!SavedFirst
  <2> QED
    BY <1>3, <1>4, <2>1, SavedNow
<1>9. Snapshots!Originals'
  <2> SUFFICES ASSUME NEW i \in 1..N, NEW q \in DOMAIN x2'[i] \ x3'[i].others
               PROVE  Snapshots!Text(x2'[i][q]) = Snapshots!Kept(x3'[i].disk[q])
    BY <1>6 DEF Snapshots!Originals
  <2>1. CASE i = N
    <3>1. N > 0
      BY <1>2
    <3> QED
      BY <1>3, <1>4, <2>1, <3>1, SavedNow, ZenonT(40)
  <2>2. CASE i # N
    BY <1>2, <1>3, <1>4, <2>2 DEF Snapshots!Inv, Snapshots!Originals
  <2> QED
    BY <2>1, <2>2
<1>10. Snapshots!OthersSince'
  BY <1>2, <1>4, <1>6 DEF Snapshots!Inv, Snapshots!OthersSince
<1>11. Snapshots!Moments'
  <2> DEFINE Un(q, i, j) == \A k \in i..j : q \notin DOMAIN x2'[k]
  <2> SUFFICES ASSUME NEW i \in 1..N, NEW q \in ChatFiles \ x3'[i].others
               PROVE  /\ \A k \in i + 1..N :
                           Un(q, i, k - 1) => Snapshots!Unchanged(q, i, x3[k].disk[q], x3[k].tools)'
                      /\ Un(q, i, N) => Snapshots!Unchanged(q, i, x1[q], {})'
    BY <1>6, Zenon DEF Snapshots!Moments, Snapshots!Unsaved
  <2>1. q \notin x3[i].others
    BY <1>4
  <2>2. \A k \in 1..N : DOMAIN x2[k] \subseteq DOMAIN x2'[k]
    <3> TAKE k \in 1..N
    <3>1. k = N => N > 0
      BY <1>2
    <3> QED
      BY <1>3, <3>1, SavedNow
  <2>3. ASSUME NEW k \in i + 1..N, Un(q, i, k - 1)
        PROVE  Snapshots!Unchanged(q, i, x3[k].disk[q], x3[k].tools)'
    <3>1. k \in 1..N /\ \A m \in i..k - 1 : m \in 1..N
      BY <1>2
    <3>2. Snapshots!Unsaved(q, i, k - 1)
      BY <2>2, <2>3, <3>1 DEF Snapshots!Unsaved
    <3>3. Snapshots!Unchanged(q, i, x3[k].disk[q], x3[k].tools)
      BY <1>2, <2>1, <3>2 DEF Snapshots!Inv, Snapshots!Moments
    <3>4. q \in x3'[i].tools \ x3'[k].tools => q \in x3[i].tools \ x3[k].tools
      <4>1. CASE UNCHANGED x3
        BY <4>1
      <4>2. CASE x3' = [j \in DOMAIN x3 |-> [x3[j] EXCEPT !.tools = @ \cup {p}]]
        BY <1>2, <3>1, <4>2, PastTools
      <4> QED
        BY <1>1, <4>1, <4>2
    <3> QED
      BY <1>4, <3>1, <3>3, <3>4 DEF Snapshots!Unchanged
  <2>4. ASSUME Un(q, i, N) PROVE Snapshots!Unchanged(q, i, x1[q], {})'
    <3>1. N \in i..N /\ N \in 1..N /\ N > 0
      BY <1>2
    <3>2. q # p
      BY <1>3, <2>4, <3>1, SavedNow
    <3>3. \A m \in i..N : m \in 1..N
      BY <1>2
    <3>4. Snapshots!Unsaved(q, i, N)
      BY <2>2, <2>4, <3>3 DEF Snapshots!Unsaved
    <3>5. Snapshots!Unchanged(q, i, x1[q], {})
      BY <1>2, <2>1, <3>4 DEF Snapshots!Inv, Snapshots!Moments
    <3> QED
      BY <1>4, <1>5, <3>2, <3>5 DEF Snapshots!Unchanged
  <2> QED
    BY <2>3, <2>4
<1> QED
  BY <1>6, <1>7, <1>8, <1>9, <1>10, <1>11 DEF Snapshots!Inv

\* What others do to a file is theirs, in every snapshot.
LEMMA SnapshotsOutside == ASSUME Snapshots!Inv, NEW p \in ChatFiles, Snapshots!Outside(p) PROVE Snapshots!Inv'
<1> DEFINE N == Len(x2)
<1>1. /\ x7 < FileWrites /\ x7' = x7 + 1 /\ x5' = Snapshots!NoRollback /\ UNCHANGED <<x2, x4>>
      /\ x3' = [i \in DOMAIN x3 |-> [x3[i] EXCEPT !.others = @ \cup {p}]]
      /\ \E c \in {Snapshots!Absent, Snapshots!Text(x7 + 2)} : x1' = [x1 EXCEPT ![p] = c]
  BY DEF Snapshots!Outside
<1>2. /\ Snapshots!Typed /\ N \in Nat /\ Len(x3) = N /\ N <= MaxSnapshots /\ Snapshots!Newest = N /\ N \in 0..N
      /\ DOMAIN x3 = 1..N
  BY SnapshotTypes DEF Snapshots!Inv, Snapshots!Typed
<1>3. /\ x3' \in Seq(Snapshots!Past) /\ Len(x3') = N
      /\ \A i \in 1..N : /\ x3'[i].disk = x3[i].disk /\ x3'[i].tools = x3[i].tools
                         /\ x3'[i].others = x3[i].others \cup {p}
  <2>1. x3' = [i \in 1..N |-> [x3[i] EXCEPT !.others = @ \cup {p}]] /\ {p} \in SUBSET ChatFiles
    BY <1>1, <1>2
  <2> QED
    BY <1>2, <2>1, PastOthers
<1>4. x1' \in [ChatFiles -> Snapshots!Content] /\ x7' \in 0..FileWrites /\ \A q \in ChatFiles \ {p} : x1'[q] = x1[q]
  <2>0. x7 \in 0..FileWrites /\ FileWrites \in Nat /\ x7 < FileWrites /\ x7' = x7 + 1
    BY <1>1, <1>2, ProgramAssumption DEF Snapshots!Typed
  <2>1. x7 + 2 \in 0..FileWrites + 1 /\ x7' \in 0..FileWrites
    BY <2>0
  <2>2. Snapshots!Text(x7 + 2) \in Snapshots!Content /\ Snapshots!Absent \in Snapshots!Content
    BY <2>1, ProgramAssumption DEF Snapshots!Text, Snapshots!Absent, Snapshots!Content
  <2> QED
    BY <1>1, <2>1, <2>2 DEF Snapshots!Inv, Snapshots!Typed
<1>5. Snapshots!Typed' /\ Snapshots!Newest' = N
  BY <1>1, <1>2, <1>3, <1>4 DEF Snapshots!Typed, Snapshots!Newest
<1>6. Snapshots!NewestIsUndone'
  BY <1>1 DEF Snapshots!NewestIsUndone, Snapshots!NoRollback
<1>7. Snapshots!SavedFirst'
  BY <1>1, <1>2, <1>3, <1>5 DEF Snapshots!Inv, Snapshots!SavedFirst
<1>8. Snapshots!Originals'
  BY <1>1, <1>2, <1>3, <1>5 DEF Snapshots!Inv, Snapshots!Originals
<1>9. Snapshots!OthersSince'
  BY <1>2, <1>3, <1>5 DEF Snapshots!Inv, Snapshots!OthersSince
<1>10. Snapshots!Moments'
  <2> SUFFICES ASSUME NEW i \in 1..N, NEW q \in ChatFiles \ x3'[i].others
               PROVE  /\ \A k \in i + 1..N : Snapshots!Unsaved(q, i, k - 1) =>
                           Snapshots!Unchanged(q, i, x3[k].disk[q], x3[k].tools)'
                      /\ Snapshots!Unsaved(q, i, N) => Snapshots!Unchanged(q, i, x1[q], {})'
    BY <1>1, <1>5, ZenonT(40) DEF Snapshots!Moments, Snapshots!Unsaved
  <2>1. q \notin x3[i].others /\ q # p
    BY <1>3
  <2>2. /\ \A k \in i + 1..N : Snapshots!Unsaved(q, i, k - 1) =>
             Snapshots!Unchanged(q, i, x3[k].disk[q], x3[k].tools)
        /\ Snapshots!Unsaved(q, i, N) => Snapshots!Unchanged(q, i, x1[q], {})
    BY <1>2, <2>1 DEF Snapshots!Inv, Snapshots!Moments
  <2>3. \A k \in i + 1..N : k \in 1..N
    BY <1>2
  <2> QED
    BY <1>3, <1>4, <2>1, <2>2, <2>3 DEF Snapshots!Unchanged
<1> QED
  BY <1>5, <1>6, <1>7, <1>8, <1>9, <1>10 DEF Snapshots!Inv

\* The invariant says nothing of the rest.
LEMMA SnapshotsKept ==
  ASSUME Snapshots!Inv, UNCHANGED <<x1, x2, x3, x7>>, x4' \in BOOLEAN, x4' => x4
  PROVE  /\ Snapshots!Typed' /\ Snapshots!Moments' /\ Snapshots!Originals' /\ Snapshots!OthersSince'
         /\ Snapshots!SavedFirst'
<1>1. Snapshots!Typed' /\ Snapshots!Newest' = Snapshots!Newest
  BY DEF Snapshots!Inv, Snapshots!Typed, Snapshots!Newest
<1>2. Snapshots!Originals' /\ Snapshots!OthersSince' /\ Snapshots!SavedFirst'
  BY <1>1 DEF Snapshots!Inv, Snapshots!Originals, Snapshots!OthersSince, Snapshots!SavedFirst
<1>3. Snapshots!Moments'
  BY <1>1 DEF Snapshots!Inv, Snapshots!Moments, Snapshots!Unsaved, Snapshots!Unchanged
<1> QED
  BY <1>1, <1>2, <1>3

LEMMA SnapshotsEnd == Snapshots!Inv /\ Snapshots!EndRequest => Snapshots!Inv'
<1> SUFFICES ASSUME Snapshots!Inv, Snapshots!EndRequest PROVE Snapshots!Inv'
  OBVIOUS
<1>1. x4' = FALSE /\ UNCHANGED <<x1, x2, x3, x5, x7>>
  BY DEF Snapshots!EndRequest
<1>2. Snapshots!NewestIsUndone'
  BY <1>1 DEF Snapshots!Inv, Snapshots!NewestIsUndone
<1> QED
  BY <1>1, <1>2, SnapshotsKept DEF Snapshots!Inv

\* A rollback to a snapshot gives back what is in it; what is in none of those it forgets is
\* as it was anyway, and what only newer ones had saved it leaves to no one.
LEMMA SnapshotsRollback == Snapshots!Inv /\ Snapshots!Rollback => Snapshots!Inv'
<1> SUFFICES ASSUME Snapshots!Inv, Snapshots!Rollback PROVE Snapshots!Inv'
  OBVIOUS
<1> DEFINE N == Len(x2)
<1>0. /\ Snapshots!Typed /\ N \in Nat /\ Len(x3) = N /\ N <= MaxSnapshots /\ Snapshots!Newest = N
      /\ DOMAIN x3 = 1..N
  BY SnapshotTypes DEF Snapshots!Inv, Snapshots!Typed
<1>1. PICK i \in 1..N : \E errors \in SUBSET DOMAIN x2[i] :
        LET saved == x2[i]
            restored == {p \in DOMAIN saved \ errors : saved[p] # 0 \/ x1[p] # Snapshots!Absent} IN
        /\ x1' = [p \in ChatFiles |-> IF p \in restored THEN Snapshots!Text(saved[p]) ELSE x1[p]]
        /\ x2' = SubSeq(x2, 1, Snapshots!Forgotten(i, restored))
        /\ x3' = [k \in 1..Snapshots!Forgotten(i, restored) |->
                    [x3[k] EXCEPT !.others = @ \cup IF restored = {} THEN {} ELSE Snapshots!LeftOver(i, errors)]]
        /\ x5' = [done |-> TRUE, errors |-> errors, past |-> x3[i], newest |-> i = N]
  BY <1>0, Zenon DEF Snapshots!Rollback
<1> DEFINE saved == x2[i]
<1>2. PICK errors \in SUBSET DOMAIN saved :
        LET restored == {p \in DOMAIN saved \ errors : saved[p] # 0 \/ x1[p] # Snapshots!Absent} IN
        /\ x1' = [p \in ChatFiles |-> IF p \in restored THEN Snapshots!Text(saved[p]) ELSE x1[p]]
        /\ x2' = SubSeq(x2, 1, Snapshots!Forgotten(i, restored))
        /\ x3' = [k \in 1..Snapshots!Forgotten(i, restored) |->
                    [x3[k] EXCEPT !.others = @ \cup IF restored = {} THEN {} ELSE Snapshots!LeftOver(i, errors)]]
        /\ x5' = [done |-> TRUE, errors |-> errors, past |-> x3[i], newest |-> i = N]
  BY <1>1, Zenon
<1> DEFINE restored == {p \in DOMAIN saved \ errors : saved[p] # 0 \/ x1[p] # Snapshots!Absent}
           n == Snapshots!Forgotten(i, restored)
           left == IF restored = {} THEN {} ELSE Snapshots!LeftOver(i, errors)
<1>3. /\ x1' = [p \in ChatFiles |-> IF p \in restored THEN Snapshots!Text(saved[p]) ELSE x1[p]]
      /\ x2' = SubSeq(x2, 1, n) /\ x3' = [k \in 1..n |-> [x3[k] EXCEPT !.others = @ \cup left]]
      /\ x5' = [done |-> TRUE, errors |-> errors, past |-> x3[i], newest |-> i = N]
      /\ x4 = FALSE /\ x4' = FALSE /\ x7' = x7
  <2>1. x4 = FALSE /\ x4' = x4 /\ x7' = x7
    BY DEF Snapshots!Rollback, Snapshots!Inv, Snapshots!Typed
  <2> QED
    BY <1>2, <2>1, Zenon
<1>4. saved \in [DOMAIN saved -> 0..FileWrites + 1] /\ DOMAIN saved \subseteq ChatFiles
  BY <1>0, SnapshotTypes
<1>5. restored \subseteq DOMAIN saved \ errors
  OBVIOUS
<1>6. \A p \in DOMAIN saved \ errors : x1'[p] = Snapshots!Text(saved[p])
  <2> TAKE p \in DOMAIN saved \ errors
  <2>1. CASE p \in restored
    BY <1>3, <1>4, <2>1
  <2>2. CASE p \notin restored
    <3>1. saved[p] = 0 /\ x1[p] = Snapshots!Absent
      BY <2>2
    <3> QED
      BY <1>3, <1>4, <2>2, <3>1, KeptTexts
  <2> QED
    BY <2>1, <2>2
<1>7. \A p \in ChatFiles : p \notin DOMAIN saved \ errors => x1'[p] = x1[p]
  BY <1>3, <1>5
<1>8. x1' \in [ChatFiles -> Snapshots!Content]
  <2>1. \A p \in DOMAIN saved : Snapshots!Text(saved[p]) \in Snapshots!Content
    BY <1>4 DEF Snapshots!Text, Snapshots!Content
  <2> QED
    BY <1>0, <1>3, <1>5, <2>1 DEF Snapshots!Typed
<1>9. left \in SUBSET ChatFiles
  <2>1. \A k \in i + 1..N : DOMAIN x2[k] \subseteq ChatFiles
    BY <1>0, SnapshotTypes
  <2> QED
    BY <1>0, <1>4, <2>1 DEF Snapshots!LeftOver
<1>10. n \in 0..N /\ (restored = {} => n = N /\ left = {}) /\ (restored # {} => n = i - 1)
  BY <1>0 DEF Snapshots!Forgotten
<1>11. restored # {} => errors \subseteq left /\ \A k \in i + 1..N : DOMAIN x2[k] \ DOMAIN saved \subseteq left
  <2> SUFFICES ASSUME restored # {}
               PROVE  errors \subseteq left /\ \A k \in i + 1..N : DOMAIN x2[k] \ DOMAIN saved \subseteq left
    OBVIOUS
  <2>1. left = errors \cup ((UNION {DOMAIN x2[k] : k \in i + 1..N}) \ DOMAIN saved)
    BY <1>0 DEF Snapshots!LeftOver
  <2> HIDE DEF left, saved, restored
  <2>2. errors \subseteq left
    BY <2>1
  <2>3. ASSUME NEW k \in i + 1..N, NEW q \in DOMAIN x2[k] \ DOMAIN saved PROVE q \in left
    <3> DEFINE newer == {DOMAIN x2[m] : m \in i + 1..N}
    <3>1. DOMAIN x2[k] \in newer /\ left = errors \cup ((UNION newer) \ DOMAIN saved)
      BY <2>1
    <3> HIDE DEF newer
    <3>2. q \in UNION newer /\ q \notin DOMAIN saved
      BY <3>1
    <3> QED
      BY <3>1, <3>2
  <2> QED
    BY <2>2, <2>3
<1> HIDE DEF restored, n, left
<1>12. x2' \in Seq(Snapshots!Saves) /\ Len(x2') = n /\ \A j \in 1..n : x2'[j] = x2[j]
  <2>1. x2 \in Seq(Snapshots!Saves) /\ n \in 0..Len(x2)
    BY <1>0, <1>10 DEF Snapshots!Typed
  <2> QED
    BY <1>3, <2>1, Shorter
<1>13. /\ x3' \in Seq(Snapshots!Past) /\ Len(x3') = n
       /\ \A j \in 1..n : /\ x3'[j].disk = x3[j].disk /\ x3'[j].tools = x3[j].tools
                          /\ x3'[j].others = x3[j].others \cup left
  <2>1. Snapshots!Typed /\ n \in 0..Len(x2)
    BY <1>0, <1>10
  <2>2. left \in SUBSET ChatFiles /\ x3' = [k \in 1..n |-> [x3[k] EXCEPT !.others = @ \cup left]]
    BY <1>3, <1>9
  <2> HIDE DEF N, saved
  <2> QED
    BY <2>1, <2>2, PastOthers
<1>14. Snapshots!Typed' /\ Snapshots!Newest' = n /\ n \in Nat /\ \A j \in 1..n : j \in 1..N
  <2>a. \A m \in Nat : \A k \in 0..m : k \in Nat /\ k <= m
    OBVIOUS
  <2>0. MaxSnapshots \in Nat /\ n \in Nat /\ n <= N
    BY <1>0, <1>10, <2>a, ProgramAssumption, Zenon
  <2>1. n <= MaxSnapshots /\ \A j \in 1..n : j \in 1..N
    BY <1>0, <2>0
  <2>2. x4' \in BOOLEAN /\ x7' \in 0..FileWrites
    BY <1>3 DEF Snapshots!Inv, Snapshots!Typed
  <2>3. Snapshots!Newest' = n
    BY <1>12 DEF Snapshots!Newest
  <2> QED
    BY <1>8, <1>12, <1>13, <2>0, <2>1, <2>2, <2>3, Zenon DEF Snapshots!Typed
<1>15. Snapshots!SavedFirst'
  BY <1>3 DEF Snapshots!SavedFirst
<1>16. Snapshots!Originals'
  BY <1>0, <1>12, <1>13, <1>14 DEF Snapshots!Inv, Snapshots!Originals
<1>17. Snapshots!OthersSince'
  BY <1>0, <1>13, <1>14 DEF Snapshots!Inv, Snapshots!OthersSince
<1>18. \A p \in DOMAIN saved \ (errors \cup x3[i].others) : x1'[p] = Snapshots!Kept(x3[i].disk[p])
  BY <1>0, <1>6 DEF Snapshots!Inv, Snapshots!Originals
<1>19. Snapshots!NewestIsUndone'
  <2>1. /\ x5'.errors = errors /\ x5'.past = x3[i] /\ (x5'.newest <=> i = N)
    BY <1>3
  <2> SUFFICES ASSUME i = N, errors = {}, NEW p \in x3[i].tools \ x3[i].others
               PROVE  x1'[p] = Snapshots!Kept(x3[i].disk[p])
    BY <2>1, Zenon DEF Snapshots!NewestIsUndone
  <2>2. CASE p \in DOMAIN saved
    BY <1>18, <2>2
  <2>3. CASE p \notin DOMAIN saved
    <3>1. p \in ChatFiles /\ x1'[p] = x1[p]
      BY <1>0, <1>7, <2>3, SnapshotTypes
    <3>2. Snapshots!Unsaved(p, i, N)
      BY <1>0, <2>3 DEF Snapshots!Unsaved
    <3> QED
      BY <3>1, <3>2, NewestMoment
  <2> QED
    BY <2>2, <2>3
<1>20. Snapshots!Moments'
  <2> DEFINE Un(q, j, k) == \A m \in j..k : q \notin DOMAIN x2'[m]
  <2> SUFFICES ASSUME NEW j \in 1..n, NEW q \in ChatFiles \ x3'[j].others
               PROVE  /\ \A k \in j + 1..n :
                           Un(q, j, k - 1) => Snapshots!Unchanged(q, j, x3[k].disk[q], x3[k].tools)'
                      /\ Un(q, j, n) => Snapshots!Unchanged(q, j, x1[q], {})'
    BY <1>14, Zenon DEF Snapshots!Moments, Snapshots!Unsaved
  <2>1. j \in 1..N /\ q \notin x3[j].others /\ q \notin left
    BY <1>13, <1>14
  <2>2. /\ \A k \in j + 1..N : Snapshots!Unsaved(q, j, k - 1) =>
             Snapshots!Unchanged(q, j, x3[k].disk[q], x3[k].tools)
        /\ Snapshots!Unsaved(q, j, N) => Snapshots!Unchanged(q, j, x1[q], {})
    BY <1>0, <2>1 DEF Snapshots!Inv, Snapshots!Moments
  <2>3. ASSUME NEW k \in j + 1..n, Un(q, j, k - 1)
        PROVE  Snapshots!Unchanged(q, j, x3[k].disk[q], x3[k].tools)'
    <3>1. k \in 1..n /\ k \in j + 1..N /\ \A m \in j..k - 1 : m \in 1..n
      BY <1>0, <1>10
    <3>2. Snapshots!Unsaved(q, j, k - 1)
      BY <1>12, <2>3, <3>1 DEF Snapshots!Unsaved
    <3> QED
      BY <1>13, <2>2, <3>1, <3>2 DEF Snapshots!Unchanged
  <2>4. ASSUME Un(q, j, n) PROVE Snapshots!Unchanged(q, j, x1[q], {})'
    <3>1. Snapshots!Unsaved(q, j, n)
      BY <1>10, <1>12, <2>4 DEF Snapshots!Unsaved
    <3>2. CASE restored = {}
      <4>1. n = N
        BY <1>10, <3>2
      <4>2. x1'[q] = x1[q]
        BY <1>3, <3>2
      <4> QED
        BY <1>13, <2>2, <3>1, <4>1, <4>2 DEF Snapshots!Unchanged
    <3>3. CASE restored # {}
      <4>0. n = i - 1 /\ q \notin errors
        BY <1>10, <1>11, <2>1, <3>3
      <4>1. n = i - 1 /\ i \in j + 1..N /\ q \notin errors
        BY <1>0, <4>0
      <4>2. CASE q \in DOMAIN saved
        <5>1. q \notin x3[i].others
          BY <1>0, <2>1, <4>1 DEF Snapshots!Inv, Snapshots!OthersSince
        <5>2. x1'[q] = Snapshots!Kept(x3[i].disk[q])
          BY <1>18, <4>1, <4>2, <5>1
        <5>3. Snapshots!Unchanged(q, j, x3[i].disk[q], x3[i].tools)
          BY <2>2, <3>1, <4>1
        <5>4. Snapshots!Kept(x3[i].disk[q]) = Snapshots!Kept(x3[j].disk[q])
          BY <5>3, KeptTexts DEF Snapshots!Unchanged
        <5> QED
          BY <1>13, <5>2, <5>4 DEF Snapshots!Unchanged
      <4>3. CASE q \notin DOMAIN saved
        <5>1. x1'[q] = x1[q]
          BY <1>7, <4>3
        <5>2. \A m \in i + 1..N : q \notin DOMAIN x2[m]
          BY <1>11, <2>1, <3>3, <4>3
        <5>3. \A m \in j..N : m \in j..i - 1 \/ m = i \/ m \in i + 1..N
          BY <1>0
        <5>4. Snapshots!Unsaved(q, j, N)
          BY <3>1, <4>1, <4>3, <5>2, <5>3 DEF Snapshots!Unsaved
        <5> QED
          BY <1>13, <2>2, <5>1, <5>4 DEF Snapshots!Unchanged
      <4> QED
        BY <4>2, <4>3
    <3> QED
      BY <3>2, <3>3
  <2> QED
    BY <2>3, <2>4
<1> QED
  BY <1>14, <1>15, <1>16, <1>17, <1>19, <1>20 DEF Snapshots!Inv

LEMMA SnapshotsStep == Snapshots!Inv /\ [Snapshots!Next]_(Snapshots!vars) => Snapshots!Inv'
<1> SUFFICES ASSUME Snapshots!Inv, [Snapshots!Next]_(Snapshots!vars) PROVE Snapshots!Inv'
  OBVIOUS
<1>1. CASE UNCHANGED Snapshots!vars
  <2>1. UNCHANGED <<x1, x2, x3, x4, x5, x7>> /\ x4 \in BOOLEAN
    BY <1>1 DEF Snapshots!vars, Snapshots!Inv, Snapshots!Typed
  <2>2. Snapshots!NewestIsUndone'
    BY <2>1 DEF Snapshots!Inv, Snapshots!NewestIsUndone
  <2> QED
    BY <2>1, <2>2, SnapshotsKept DEF Snapshots!Inv
<1> QED
  BY <1>1, SnapshotsRequest, SnapshotsEnd, SnapshotsRollback, SnapshotsChange, SnapshotsOutside DEF Snapshots!Next

LEMMA SnapshotsSound == Snapshots!Inv => Snapshots!TypeOK /\ Snapshots!RollbackIsSound
<1> SUFFICES ASSUME Snapshots!Inv PROVE Snapshots!TypeOK /\ Snapshots!RollbackIsSound
  OBVIOUS
<1> DEFINE N == Len(x2)
<1>1. Snapshots!Typed /\ N \in Nat /\ Snapshots!Newest = N /\ DOMAIN x2 = 1..N
  BY SnapshotTypes DEF Snapshots!Inv
<1>2. Snapshots!SnapshotsAreOriginals
  <2> SUFFICES ASSUME x4, N > 0, NEW p \in x3[N].tools \ x3[N].others
               PROVE  p \in DOMAIN x2[N] /\ Snapshots!Text(x2[N][p]) = Snapshots!Kept(x3[N].disk[p])
    BY <1>1 DEF Snapshots!SnapshotsAreOriginals
  <2>1. p \in DOMAIN x2[N] /\ N \in 1..N
    BY <1>1 DEF Snapshots!Inv, Snapshots!SavedFirst
  <2> QED
    BY <1>1, <2>1 DEF Snapshots!Inv, Snapshots!Originals
<1>3. Snapshots!TypeOK
  <2>1. \A i \in DOMAIN x2 : DOMAIN x2[i] \subseteq ChatFiles /\ \A p \in DOMAIN x2[i] : x2[i][p] \in 0..FileWrites + 1
    BY <1>1, SnapshotTypes
  <2> QED
    BY <1>1, <2>1 DEF Snapshots!TypeOK, Snapshots!Typed
<1> QED
  BY <1>2, <1>3 DEF Snapshots!Inv, Snapshots!RollbackIsSound

\* AgentSnapshots: the newest rollback undoes its request, and one after another the
\* requests before it.
THEOREM RollbackCorrect == ProgramSpec => []RollbackIsSound
<1>1. ProgramInit /\ part = "snapshots" => Snapshots!Inv
  BY SnapshotsInit DEF ProgramInit
<1>2. part = "snapshots" /\ [ProgramNext]_all => (part = "snapshots")' /\ [Snapshots!Next]_(Snapshots!vars)
  BY DEF ProgramNext, all, from10, from11, from13, from14, from15, from16, from18, Snapshots!vars
<1>3. ~(part = "snapshots") /\ [ProgramNext]_all => (~(part = "snapshots"))'
  BY DEF ProgramNext, all, from10, from11, from13, from14, from15, from16, from18
<1>4. Snapshots!Inv => RollbackIsSound
  BY SnapshotsSound DEF RollbackIsSound
<1>5. ~(part = "snapshots") => RollbackIsSound
  BY DEF RollbackIsSound
<1> QED
  BY <1>1, <1>2, <1>3, <1>4, <1>5, SnapshotsStep, PTL DEF ProgramSpec

-----------------------------------------------------------------------------
(* The runtimes of the command line program.                               *)

\* A step before others.
LEMMA RuntimeBefore ==
  ASSUME NEW s \in Runtimes!Name, NEW t \in Seq(Runtimes!Name)
  PROVE  /\ <<s>> \o t \in Seq(Runtimes!Name) /\ <<s>> \o t # <<>>
         /\ Head(<<s>> \o t) = s /\ Tail(<<s>> \o t) = t
         /\ Runtimes!Settles(<<s>> \o t) <=> s = "settle" \/ Runtimes!Settles(t)
<1> DEFINE e == <<s>>
           w == e \o t
<1>1. e \in Seq(Runtimes!Name) /\ Len(e) = 1 /\ e[1] = s
  OBVIOUS
<1> HIDE DEF e
<1>2. /\ w \in Seq(Runtimes!Name) /\ Len(w) = Len(e) + Len(t)
      /\ \A i \in 1..(Len(e) + Len(t)) : w[i] = IF i <= Len(e) THEN e[i] ELSE t[i - Len(e)]
  BY <1>1, ConcatProperties, ZenonT(40)
<1> HIDE DEF w
<1>3. Len(t) \in Nat /\ Len(w) = 1 + Len(t) /\ w[1] = s /\ \A i \in 2..(1 + Len(t)) : w[i] = t[i - 1]
  BY <1>1, <1>2
<1>4. w # <<>> /\ Head(w) = s
  BY <1>2, <1>3
<1>5. /\ Tail(w) \in Seq(Runtimes!Name) /\ Len(Tail(w)) = Len(t)
      /\ \A i \in 1..Len(t) : Tail(w)[i] = t[i]
  BY <1>2, <1>3, <1>4
<1>6. Tail(w) = t
  BY <1>5, SeqEqual
<1>7. Runtimes!Settles(w) <=> s = "settle" \/ Runtimes!Settles(t)
  <2>1. DOMAIN w = 1..(1 + Len(t)) /\ DOMAIN t = 1..Len(t)
    BY <1>2, <1>3
  <2>2. ASSUME s = "settle" PROVE Runtimes!Settles(w)
    BY <1>3, <2>1, <2>2 DEF Runtimes!Settles
  <2>3. ASSUME NEW i \in 1..Len(t), t[i] = "settle" PROVE Runtimes!Settles(w)
    <3>1. i + 1 \in DOMAIN w /\ w[i + 1] = "settle"
      BY <1>3, <2>1, <2>3
    <3> QED
      BY <3>1 DEF Runtimes!Settles
  <2>4. ASSUME NEW i \in DOMAIN w, w[i] = "settle" PROVE s = "settle" \/ Runtimes!Settles(t)
    <3>1. CASE i = 1
      BY <1>3, <2>4, <3>1
    <3>2. CASE i # 1
      <4>1. i - 1 \in DOMAIN t /\ t[i - 1] = "settle"
        BY <1>3, <2>1, <2>4, <3>2
      <4> QED
        BY <4>1 DEF Runtimes!Settles
    <3> QED
      BY <3>1, <3>2
  <2> QED
    BY <2>1, <2>2, <2>3, <2>4 DEF Runtimes!Settles
<1> QED
  BY <1>2, <1>4, <1>6, <1>7 DEF w, e

\* What is done with a runtime, and what is left when it is the current one.
LEMMA RuntimeUses ==
  /\ Runtimes!Uses \subseteq Seq(Runtimes!Name)
  /\ \A u \in Runtimes!Uses : u # <<>> /\ Head(u) \in {"run", "replace"}
<1>1. /\ <<"replace", "persist", "effort">> \in Seq(Runtimes!Name)
      /\ Head(<<"replace", "persist", "effort">>) = "replace"
  BY DEF Runtimes!Name
<1>2. /\ <<"run", "replace", "persist">> \in Seq(Runtimes!Name)
      /\ Head(<<"run", "replace", "persist">>) = "run"
  BY DEF Runtimes!Name
<1>3. /\ <<"replace", "persist">> \in Seq(Runtimes!Name)
      /\ Head(<<"replace", "persist">>) = "replace"
  BY DEF Runtimes!Name
<1>4. /\ <<"replace", "settle", "persist">> \in Seq(Runtimes!Name)
      /\ Head(<<"replace", "settle", "persist">>) = "replace"
  BY DEF Runtimes!Name
<1>5. ASSUME NEW u \in Runtimes!Uses PROVE u # <<>>
  BY DEF Runtimes!Uses
<1> QED
  BY <1>1, <1>2, <1>3, <1>4, <1>5, Zenon DEF Runtimes!Uses

LEMMA RuntimeThen ==
  ASSUME NEW S, NEW a \in S, NEW s \in Seq(S), NEW w \in Seq(S),
         Len(w) = 1 + Len(s), w[1] = a, \A i \in 1..Len(s) : w[i + 1] = s[i]
  PROVE  <<a>> \o s = w
<1> DEFINE e == <<a>>
<1>1. e \in Seq(S) /\ Len(e) = 1 /\ e[1] = a
  OBVIOUS
<1> HIDE DEF e
<1>2. /\ e \o s \in Seq(S) /\ Len(e \o s) = Len(e) + Len(s)
      /\ \A i \in 1..(Len(e) + Len(s)) : (e \o s)[i] = IF i <= Len(e) THEN e[i] ELSE s[i - Len(e)]
  BY <1>1, ConcatProperties, ZenonT(40)
<1>3. Len(s) \in Nat /\ Len(e \o s) = Len(w)
  BY <1>1, <1>2
<1>4. ASSUME NEW i \in 1..Len(w) PROVE (e \o s)[i] = w[i]
  <2>1. CASE i = 1
    BY <1>1, <1>2, <1>3, <2>1
  <2>2. CASE i # 1
    <3>1. i - 1 \in 1..Len(s) /\ (i - 1) + 1 = i
      BY <1>3, <2>2
    <3>2. w[i] = s[i - 1]
      BY <3>1
    <3> QED
      BY <1>1, <1>2, <1>3, <2>2, <3>2
  <2> QED
    BY <2>1, <2>2
<1>5. e \o s = w
  BY <1>2, <1>3, <1>4, SeqEqual
<1> QED
  BY <1>5 DEF e

\* The steps of a build, one by one.
LEMMA RuntimeBuild ==
  ASSUME NEW u \in Runtimes!Uses
  PROVE  /\ <<"discover", "initialize">> \o u = <<"discover">> \o (<<"initialize">> \o u)
         /\ Runtimes!Build \o u = <<"load">> \o (<<"discover", "initialize">> \o u)
<1> DEFINE a == <<"load">>
           b == <<"discover">>
           c == <<"initialize">>
           d == <<"discover", "initialize">>
<1>1. /\ a \in Seq(Runtimes!Name) /\ b \in Seq(Runtimes!Name)
      /\ c \in Seq(Runtimes!Name) /\ d \in Seq(Runtimes!Name)
      /\ Runtimes!Build \in Seq(Runtimes!Name)
  BY DEF Runtimes!Name, Runtimes!Build
<1>2. b \o c = d
  <2>1. Len(c) = 1 /\ Len(d) = 2 /\ d[1] = "discover" /\ d[2] = c[1] /\ "discover" \in Runtimes!Name
    BY DEF Runtimes!Name
  <2> HIDE DEF c, d
  <2>2. \A i \in 1..Len(c) : d[i + 1] = c[i]
    BY <2>1
  <2>3. Len(d) = 1 + Len(c)
    BY <2>1
  <2> QED
    BY <1>1, <2>1, <2>2, <2>3, RuntimeThen, Zenon
<1>3. a \o d = Runtimes!Build
  <2>1. /\ Len(d) = 2 /\ Len(Runtimes!Build) = 3 /\ Runtimes!Build[1] = "load" /\ Runtimes!Build[2] = d[1]
        /\ Runtimes!Build[3] = d[2] /\ "load" \in Runtimes!Name
    BY DEF Runtimes!Name, Runtimes!Build
  <2> HIDE DEF d
  <2>2. \A i \in 1..Len(d) : Runtimes!Build[i + 1] = d[i]
    BY <2>1
  <2>3. Len(Runtimes!Build) = 1 + Len(d)
    BY <2>1
  <2> QED
    BY <1>1, <2>1, <2>2, <2>3, RuntimeThen, Zenon
<1>4. u \in Seq(Runtimes!Name)
  BY RuntimeUses
<1> HIDE DEF a, b, c, d
<1>5. ASSUME NEW p \in Seq(Runtimes!Name), NEW q \in Seq(Runtimes!Name), NEW r \in Seq(Runtimes!Name)
      PROVE  (p \o q) \o r = p \o (q \o r)
  BY ConcatAssociative
<1>7. (b \o c) \o u = b \o (c \o u)
  BY <1>1, <1>4, <1>5, SMTT(20)
<1>8. (a \o d) \o u = a \o (d \o u)
  BY <1>1, <1>4, <1>5, SMTT(20)
<1>6. d \o u = b \o (c \o u) /\ Runtimes!Build \o u = a \o (d \o u)
  BY <1>2, <1>3, <1>7, <1>8, Zenon
<1> QED
  BY <1>6, Zenon DEF a, b, c, d

\* Where the program may be after a step.
Follows(t, n) ==
  /\ Head(t) = "load" => n = "discover"
  /\ Head(t) = "discover" => n = "initialize"
  /\ Head(t) = "initialize" => n \in {"run", "replace"}
  /\ Head(t) = "run" => n = "replace" /\ ~Runtimes!Settles(t)
  /\ Head(t) = "replace" => n = IF Runtimes!Settles(t) THEN "settle" ELSE "persist"
  /\ Head(t) = "settle" => n = "persist" /\ ~Runtimes!Settles(Tail(t))
  /\ Head(t) = "persist" => n \in {"effort", "idle", "quit"} /\ ~Runtimes!Settles(t)
  /\ Head(t) = "effort" => n = "idle"
  /\ Head(t) = "discard" => n = "quit"

OneOfRests(t) ==
  /\ t \in Seq(Runtimes!Name) /\ t # <<>> /\ Head(t) \in Runtimes!Name
  /\ Tail(t) \in Runtimes!Rests
  /\ Follows(t, Runtimes!Now(Tail(t)))
  /\ Head(t) # "settle" => (Runtimes!Settles(Tail(t)) <=> Runtimes!Settles(t))

\* The short ends of the commands.
LEMMA RuntimeEnds ==
  ASSUME NEW t \in {<<"settle", "persist">>, <<"persist", "effort">>, <<"effort">>, <<"persist">>,
                    <<"persist", "quit">>, <<"discard", "quit">>, <<"quit">>, <<"ended">>}
  PROVE  OneOfRests(t)
<1> USE DEF OneOfRests, Follows, Runtimes!Settles, Runtimes!Now
<1>1. /\ <<"persist">> \in Runtimes!Rests /\ <<"effort">> \in Runtimes!Rests
      /\ <<>> \in Runtimes!Rests /\ <<"quit">> \in Runtimes!Rests
  BY Zenon DEF Runtimes!Rests
<1>2. CASE t = <<"settle", "persist">>
  <2>1. /\ t \in Seq(Runtimes!Name) /\ t # <<>> /\ Head(t) = "settle" /\ Head(t) \in Runtimes!Name
        /\ Tail(t) = <<"persist">> /\ Tail(t) # <<>> /\ Head(Tail(t)) = "persist"
    BY <1>2 DEF Runtimes!Name
  <2>2. ~Runtimes!Settles(<<"persist">>)
    OBVIOUS
  <2> QED
    BY <1>1, <2>1, <2>2
<1>3. CASE t = <<"persist", "effort">>
  <2>1. /\ t \in Seq(Runtimes!Name) /\ t # <<>> /\ Head(t) = "persist" /\ Head(t) \in Runtimes!Name
        /\ Tail(t) = <<"effort">> /\ Tail(t) # <<>> /\ Head(Tail(t)) = "effort"
    BY <1>3 DEF Runtimes!Name
  <2>2. ~Runtimes!Settles(<<"effort">>) /\ ~Runtimes!Settles(t)
    BY <1>3
  <2> QED
    BY <1>1, <2>1, <2>2
<1>4. CASE t = <<"persist", "quit">>
  <2>1. /\ t \in Seq(Runtimes!Name) /\ t # <<>> /\ Head(t) = "persist" /\ Head(t) \in Runtimes!Name
        /\ Tail(t) = <<"quit">> /\ Tail(t) # <<>> /\ Head(Tail(t)) = "quit"
    BY <1>4 DEF Runtimes!Name
  <2>2. ~Runtimes!Settles(<<"quit">>) /\ ~Runtimes!Settles(t)
    BY <1>4
  <2> QED
    BY <1>1, <2>1, <2>2
<1>5. CASE t = <<"discard", "quit">>
  <2>1. /\ t \in Seq(Runtimes!Name) /\ t # <<>> /\ Head(t) = "discard" /\ Head(t) \in Runtimes!Name
        /\ Tail(t) = <<"quit">> /\ Tail(t) # <<>> /\ Head(Tail(t)) = "quit"
    BY <1>5 DEF Runtimes!Name
  <2>2. ~Runtimes!Settles(<<"quit">>) /\ ~Runtimes!Settles(t)
    BY <1>5
  <2> QED
    BY <1>1, <2>1, <2>2
<1>6. ASSUME NEW s \in {"persist", "effort", "quit", "ended"}, t = <<s>> PROVE OneOfRests(t)
  <2>1. /\ t \in Seq(Runtimes!Name) /\ t # <<>> /\ Head(t) = s /\ Head(t) \in Runtimes!Name /\ Tail(t) = <<>>
    BY <1>6 DEF Runtimes!Name
  <2>2. ~Runtimes!Settles(<<>>) /\ ~Runtimes!Settles(t)
    BY <1>6
  <2> QED
    BY <1>1, <2>1, <2>2
<1> QED
  BY <1>2, <1>3, <1>4, <1>5, <1>6

\* What is left of a command is one of its ends, step after step.
LEMMA RuntimeRests ==
  ASSUME NEW t \in Runtimes!Rests, t # <<>>
  PROVE  OneOfRests(t)
<1>1. CASE t \in Runtimes!Uses
  <2> USE DEF OneOfRests, Follows, Runtimes!Settles, Runtimes!Now
  <2>1. /\ <<"persist", "effort">> \in Runtimes!Rests /\ <<"replace", "persist">> \in Runtimes!Rests
        /\ <<"persist">> \in Runtimes!Rests /\ <<"settle", "persist">> \in Runtimes!Rests
    BY Zenon DEF Runtimes!Rests, Runtimes!Uses
  <2>2. CASE t = <<"replace", "persist", "effort">>
    <3>1. /\ t \in Seq(Runtimes!Name) /\ t # <<>> /\ Head(t) = "replace" /\ Head(t) \in Runtimes!Name
          /\ Tail(t) = <<"persist", "effort">> /\ Tail(t) # <<>> /\ Head(Tail(t)) = "persist"
      BY <2>2 DEF Runtimes!Name
    <3>2. ~Runtimes!Settles(<<"persist", "effort">>) /\ ~Runtimes!Settles(t)
      BY <2>2
    <3> QED
      BY <2>1, <3>1, <3>2
  <2>3. CASE t = <<"run", "replace", "persist">>
    <3>1. /\ t \in Seq(Runtimes!Name) /\ t # <<>> /\ Head(t) = "run" /\ Head(t) \in Runtimes!Name
          /\ Tail(t) = <<"replace", "persist">> /\ Tail(t) # <<>> /\ Head(Tail(t)) = "replace"
      BY <2>3 DEF Runtimes!Name
    <3>2. ~Runtimes!Settles(<<"replace", "persist">>) /\ ~Runtimes!Settles(t)
      BY <2>3
    <3> QED
      BY <2>1, <3>1, <3>2
  <2>4. CASE t = <<"replace", "persist">>
    <3>1. /\ t \in Seq(Runtimes!Name) /\ t # <<>> /\ Head(t) = "replace" /\ Head(t) \in Runtimes!Name
          /\ Tail(t) = <<"persist">> /\ Tail(t) # <<>> /\ Head(Tail(t)) = "persist"
      BY <2>4 DEF Runtimes!Name
    <3>2. ~Runtimes!Settles(<<"persist">>) /\ ~Runtimes!Settles(t)
      BY <2>4
    <3> QED
      BY <2>1, <3>1, <3>2
  <2>5. CASE t = <<"replace", "settle", "persist">>
    <3>1. /\ t \in Seq(Runtimes!Name) /\ t # <<>> /\ Head(t) = "replace" /\ Head(t) \in Runtimes!Name
          /\ Tail(t) = <<"settle", "persist">> /\ Tail(t) # <<>> /\ Head(Tail(t)) = "settle"
      BY <2>5 DEF Runtimes!Name
    <3>2. Runtimes!Settles(<<"settle", "persist">>) /\ Runtimes!Settles(t)
      <4>1. /\ 1 \in DOMAIN <<"settle", "persist">> /\ <<"settle", "persist">>[1] = "settle"
            /\ 2 \in DOMAIN t /\ t[2] = "settle"
        BY <2>5
      <4> QED
        BY <4>1, Zenon
    <3> QED
      BY <2>1, <3>1, <3>2
  <2> QED
    BY <1>1, <2>2, <2>3, <2>4, <2>5, Zenon DEF Runtimes!Uses
<1>2. ASSUME NEW u \in Runtimes!Uses
      PROVE  /\ u \in Seq(Runtimes!Name) /\ u # <<>> /\ Runtimes!Now(u) \in {"run", "replace"}
             /\ u \in Runtimes!Rests
             /\ <<"initialize">> \o u \in Runtimes!Rests
             /\ <<"discover", "initialize">> \o u \in Runtimes!Rests
             /\ "initialize" \in Runtimes!Name /\ "discover" \in Runtimes!Name /\ "load" \in Runtimes!Name
  <2>1. u \in Seq(Runtimes!Name) /\ u # <<>> /\ Runtimes!Now(u) \in {"run", "replace"}
    BY RuntimeUses DEF Runtimes!Now
  <2>2. "initialize" \in Runtimes!Name /\ "discover" \in Runtimes!Name /\ "load" \in Runtimes!Name
    BY DEF Runtimes!Name
  <2>3. <<"initialize">> \o u \in Runtimes!Rests /\ <<"discover", "initialize">> \o u \in Runtimes!Rests
    BY Zenon DEF Runtimes!Rests
  <2>4. u \in Runtimes!Rests
    BY Zenon DEF Runtimes!Rests
  <2> QED
    BY <2>1, <2>2, <2>3, <2>4
<1>3. ASSUME NEW u \in Runtimes!Uses, t = <<"initialize">> \o u PROVE OneOfRests(t)
  <2>1. /\ t \in Seq(Runtimes!Name) /\ t # <<>> /\ Head(t) = "initialize" /\ Tail(t) = u
        /\ Runtimes!Settles(t) <=> "initialize" = "settle" \/ Runtimes!Settles(u)
    BY <1>2, <1>3, RuntimeBefore, Zenon
  <2> QED
    BY <1>2, <2>1 DEF OneOfRests, Follows
<1>4. ASSUME NEW u \in Runtimes!Uses, t = <<"discover", "initialize">> \o u PROVE OneOfRests(t)
  <2> DEFINE w == <<"initialize">> \o u
  <2>1. t = <<"discover">> \o w
    BY <1>4, RuntimeBuild
  <2>2. w \in Seq(Runtimes!Name) /\ w # <<>> /\ Head(w) = "initialize" /\ w \in Runtimes!Rests
    BY <1>2, RuntimeBefore, Zenon
  <2> HIDE DEF w
  <2>3. /\ t \in Seq(Runtimes!Name) /\ t # <<>> /\ Head(t) = "discover" /\ Tail(t) = w
        /\ Runtimes!Settles(t) <=> "discover" = "settle" \/ Runtimes!Settles(w)
    BY <1>2, <2>1, <2>2, RuntimeBefore, Zenon
  <2>4. Runtimes!Now(w) = "initialize"
    BY <2>2 DEF Runtimes!Now
  <2> QED
    BY <1>2, <2>2, <2>3, <2>4 DEF OneOfRests, Follows
<1>5. ASSUME NEW u \in Runtimes!Uses, t = Runtimes!Build \o u PROVE OneOfRests(t)
  <2> DEFINE v == <<"initialize">> \o u
             w == <<"discover", "initialize">> \o u
  <2>1. t = <<"load">> \o w /\ w = <<"discover">> \o v
    BY <1>5, RuntimeBuild
  <2>2. v \in Seq(Runtimes!Name)
    BY <1>2, RuntimeBefore, Zenon
  <2>3. w \in Runtimes!Rests
    BY <1>2
  <2> HIDE DEF v, w
  <2>4. w \in Seq(Runtimes!Name) /\ w # <<>> /\ Head(w) = "discover"
    BY <1>2, <2>1, <2>2, RuntimeBefore, Zenon
  <2>5. /\ t \in Seq(Runtimes!Name) /\ t # <<>> /\ Head(t) = "load" /\ Tail(t) = w
        /\ Runtimes!Settles(t) <=> "load" = "settle" \/ Runtimes!Settles(w)
    BY <1>2, <2>1, <2>4, RuntimeBefore, Zenon
  <2>6. Runtimes!Now(w) = "discover"
    BY <2>4 DEF Runtimes!Now
  <2> QED
    BY <1>2, <2>3, <2>4, <2>5, <2>6 DEF OneOfRests, Follows
<1>6. \/ t \in Runtimes!Uses
      \/ \E u \in Runtimes!Uses : t = Runtimes!Build \o u
      \/ \E u \in Runtimes!Uses : t = <<"discover", "initialize">> \o u
      \/ \E u \in Runtimes!Uses : t = <<"initialize">> \o u
      \/ t \in {<<"settle", "persist">>, <<"persist", "effort">>, <<"effort">>, <<"persist">>,
                <<"persist", "quit">>, <<"discard", "quit">>, <<"quit">>, <<"ended">>}
  BY Zenon DEF Runtimes!Rests
<1> QED
  BY <1>1, <1>3, <1>4, <1>5, <1>6, RuntimeEnds, Zenon

\* The step that a command is at.
LEMMA RuntimeNow ==
  ASSUME NEW s, Runtimes!At(s)
  PROVE  Runtimes!Now(x8.todo) = s
BY DEF Runtimes!At, Runtimes!Now

LEMMA RuntimeSettles ==
  ASSUME Runtimes!Inv, Runtimes!At("settle")
  PROVE  Runtimes!Settles(x8.todo)
<1>1. x8.todo \in Seq(Runtimes!Name) /\ x8.todo # <<>> /\ Head(x8.todo) = "settle"
  BY DEF Runtimes!Inv, Runtimes!TypeOK, Runtimes!At
<1>2. 1 \in DOMAIN x8.todo /\ x8.todo[1] = "settle"
  BY <1>1
<1> QED
  BY <1>2 DEF Runtimes!Settles

\* What the plugins of a runtime are told.
LEMMA RuntimeTold ==
  ASSUME Runtimes!Inv, NEW rt, rt.id \in 0..x11, NEW S \in SUBSET Runtimes!Plugin
  PROVE  /\ Runtimes!Initialized(rt, S) \in [Runtimes!Plugin -> [last : {"none", "init", "shutdown"}, of : 0..x11]]
         /\ Runtimes!ShutDown(rt, S) \in [Runtimes!Plugin -> [last : {"none", "init", "shutdown"}, of : 0..x11]]
         /\ \A p \in S : /\ Runtimes!Initialized(rt, S)[p] = [last |-> "init", of |-> rt.id]
                         /\ Runtimes!ShutDown(rt, S)[p].last = "shutdown"
         /\ \A p \in Runtimes!Plugin : p \in S \/ /\ Runtimes!Initialized(rt, S)[p] = x5[p]
                                                  /\ Runtimes!ShutDown(rt, S)[p] = x5[p]
<1>1. x5 \in [Runtimes!Plugin -> [last : {"none", "init", "shutdown"}, of : 0..x11]]
  BY DEF Runtimes!Inv, Runtimes!TypeOK
<1> QED
  BY <1>1 DEF Runtimes!Initialized, Runtimes!ShutDown, Runtimes!Told

LEMMA RuntimeNone ==
  ASSUME Runtimes!Inv
  PROVE  /\ Runtimes!NoRuntime \in Runtimes!RuntimeType /\ Runtimes!NoRuntime.built = FALSE
         /\ Runtimes!NoRuntime.id = 0 /\ Runtimes!NoRuntime.plugins = {}
<1>1. x1.mode \in RuntimeModes /\ x11 \in Nat
  BY ProgramAssumption DEF Runtimes!Inv, Runtimes!TypeOK
<1>2. (CHOOSE m \in RuntimeModes : TRUE) \in RuntimeModes
  BY <1>1
<1> QED
  BY <1>1, <1>2, ProgramAssumption DEF Runtimes!NoRuntime, Runtimes!Runtime, Runtimes!RuntimeType, Runtimes!None,
     Runtimes!Conversation, Runtimes!Efforts

LEMMA RuntimeGoes ==
  ASSUME Runtimes!Inv, NEW s \in Runtimes!Name, Runtimes!At(s), Runtimes!GoOn
  PROVE  /\ Head(x8.todo) = s /\ Runtimes!Now(x8.todo) = s /\ x8'.todo = Tail(x8.todo)
         /\ x8' \in [todo : Seq(Runtimes!Name), target : 0..RuntimeBuilds] /\ x8'.target = x8.target
         /\ x8'.todo \in Runtimes!Rests /\ Follows(x8.todo, Runtimes!Now(x8'.todo))
         /\ s # "settle" => (Runtimes!Settles(x8'.todo) <=> Runtimes!Settles(x8.todo))
<1>1. /\ x8 \in [todo : Seq(Runtimes!Name), target : 0..RuntimeBuilds] /\ x8.todo \in Runtimes!Rests
      /\ x8.todo # <<>> /\ Head(x8.todo) = s /\ x8' = [x8 EXCEPT !.todo = Tail(@)]
  BY DEF Runtimes!Inv, Runtimes!TypeOK, Runtimes!InTurn, Runtimes!At, Runtimes!GoOn
<1>2. OneOfRests(x8.todo)
  BY <1>1, RuntimeRests
<1>3. Tail(x8.todo) \in Seq(Runtimes!Name)
  BY <1>1
<1>4. x8'.todo = Tail(x8.todo) /\ x8'.target = x8.target
      /\ x8' \in [todo : Seq(Runtimes!Name), target : 0..RuntimeBuilds]
  BY <1>1, <1>3
<1>5. Runtimes!Now(x8.todo) = s
  BY <1>1 DEF Runtimes!Now
<1> QED
  BY <1>1, <1>2, <1>4, <1>5, Zenon DEF OneOfRests

\* A step that fails ends the program.
LEMMA RuntimeFails ==
  ASSUME Runtimes!Inv, NEW s \in Runtimes!Name, Runtimes!At(s), Runtimes!Fault, Runtimes!Error
  PROVE  /\ Head(x8.todo) = s /\ Runtimes!Now(x8.todo) = s
         /\ x8' \in [todo : Seq(Runtimes!Name), target : 0..RuntimeBuilds] /\ x8'.todo \in Runtimes!Rests
         /\ Runtimes!Now(x8'.todo) = "discard" /\ x12' \in 0..RuntimeFaults
<1>1. /\ x8 \in [todo : Seq(Runtimes!Name), target : 0..RuntimeBuilds]
      /\ x8.todo # <<>> /\ Head(x8.todo) = s /\ x8' = [x8 EXCEPT !.todo = <<"discard", "quit">>]
  BY DEF Runtimes!Inv, Runtimes!TypeOK, Runtimes!At, Runtimes!Error
<1>2. /\ <<"discard", "quit">> \in Seq(Runtimes!Name)
      /\ <<"discard", "quit">> # <<>> /\ Head(<<"discard", "quit">>) = "discard"
  BY DEF Runtimes!Name
<1>3. <<"discard", "quit">> \in Runtimes!Rests
  BY Zenon DEF Runtimes!Rests
<1>4. x12' \in 0..RuntimeFaults
  BY ProgramAssumption DEF Runtimes!Inv, Runtimes!TypeOK, Runtimes!Fault
<1>5. Runtimes!Now(x8.todo) = s
  BY <1>1 DEF Runtimes!Now
<1>6. x8'.todo = <<"discard", "quit">>
      /\ x8' \in [todo : Seq(Runtimes!Name), target : 0..RuntimeBuilds]
  BY <1>1, <1>2
<1>7. Runtimes!Now(x8'.todo) = "discard"
  BY <1>2, <1>6 DEF Runtimes!Now
<1> QED
  BY <1>1, <1>3, <1>4, <1>5, <1>6, <1>7, Zenon

LEMMA RuntimeLoad == Runtimes!Inv /\ Runtimes!Load => Runtimes!Inv'
<1> SUFFICES ASSUME Runtimes!Inv, Runtimes!Load PROVE Runtimes!Inv'
  OBVIOUS
<1>1. Runtimes!At("load") /\ "load" \in Runtimes!Name
  BY DEF Runtimes!Load, Runtimes!Name
<1>2. UNCHANGED <<x1, x2, x4, x5, x6, x7, x9, x10, x11>>
  BY DEF Runtimes!Load
<1>3. CASE x3' = [x3 EXCEPT !.plugins = x4] /\ Runtimes!GoOn /\ UNCHANGED x12
  <2>1. /\ Runtimes!Now(x8.todo) = "load" /\ Runtimes!Now(x8'.todo) = "discover"
        /\ x8' \in [todo : Seq(Runtimes!Name), target : 0..RuntimeBuilds] /\ x8'.target = x8.target
        /\ x8'.todo \in Runtimes!Rests
        /\ Runtimes!Settles(x8'.todo) <=> Runtimes!Settles(x8.todo)
    BY <1>1, <1>3, RuntimeGoes DEF Follows
  <2>2. x3 \in Runtimes!RuntimeType /\ x4 \subseteq Runtimes!Plugin
    BY DEF Runtimes!Inv, Runtimes!TypeOK
  <2>3. /\ x3' \in Runtimes!RuntimeType /\ x3'.plugins = x4 /\ x3'.id = x3.id /\ x3'.built = x3.built
        /\ x3'.session = x3.session /\ x3'.mode = x3.mode
    BY <1>3, <2>2 DEF Runtimes!RuntimeType
  <2>4. Runtimes!TypeOK'
    BY <1>2, <1>3, <2>1, <2>3 DEF Runtimes!Inv, Runtimes!TypeOK, Runtimes!RuntimeType
  <2>5. Runtimes!InTurn'
    BY <1>2, <2>1, <2>3 DEF Runtimes!Inv, Runtimes!InTurn, Runtimes!Rebuilding, Runtimes!Having, Runtimes!Ending
  <2>6. Runtimes!Alive'
    BY <1>2, <2>1, <2>3 DEF Runtimes!Inv, Runtimes!Alive, Runtimes!Rebuilding, Runtimes!Having, Runtimes!Ending
  <2>7. Runtimes!Initializing'
    BY <1>2, <2>1, <2>3 DEF Runtimes!Inv, Runtimes!Initializing, Runtimes!InTurn, Runtimes!Rebuilding, Runtimes!Having, Runtimes!Ending
  <2>8. Runtimes!OnTheOpened'
    BY <1>2, <2>1, <2>3 DEF Runtimes!Inv, Runtimes!OnTheOpened, Runtimes!Opened, Runtimes!Rebuilding, Runtimes!Having
  <2>9. Runtimes!SavedUnderItsName'
    BY <1>2 DEF Runtimes!Inv, Runtimes!SavedUnderItsName
  <2> QED
    BY <2>4, <2>5, <2>6, <2>7, <2>8, <2>9 DEF Runtimes!Inv
<1>4. CASE Runtimes!Fault /\ Runtimes!Error /\ UNCHANGED x3
  <2>1. /\ Runtimes!Now(x8.todo) = "load" /\ Runtimes!Now(x8'.todo) = "discard"
        /\ x8' \in [todo : Seq(Runtimes!Name), target : 0..RuntimeBuilds]
        /\ x8'.todo \in Runtimes!Rests /\ x12' \in 0..RuntimeFaults
    BY <1>1, <1>4, RuntimeFails
  <2>2. Runtimes!TypeOK'
    BY <1>2, <1>4, <2>1 DEF Runtimes!Inv, Runtimes!TypeOK, Runtimes!RuntimeType
  <2>3. Runtimes!InTurn'
    BY <1>2, <1>4, <2>1 DEF Runtimes!Inv, Runtimes!InTurn, Runtimes!Rebuilding, Runtimes!Having, Runtimes!Ending
  <2>4. Runtimes!Alive'
    BY <1>2, <1>4, <2>1 DEF Runtimes!Inv, Runtimes!Alive, Runtimes!Rebuilding, Runtimes!Having, Runtimes!Ending
  <2>5. Runtimes!Initializing'
    BY <1>2, <1>4, <2>1 DEF Runtimes!Inv, Runtimes!Initializing, Runtimes!Rebuilding, Runtimes!Having, Runtimes!Ending
  <2>6. Runtimes!OnTheOpened'
    BY <1>2, <1>4, <2>1 DEF Runtimes!Inv, Runtimes!OnTheOpened, Runtimes!Rebuilding, Runtimes!Having
  <2>7. Runtimes!SavedUnderItsName'
    BY <1>2 DEF Runtimes!Inv, Runtimes!SavedUnderItsName
  <2> QED
    BY <2>2, <2>3, <2>4, <2>5, <2>6, <2>7 DEF Runtimes!Inv
<1> QED
  BY <1>3, <1>4 DEF Runtimes!Load

LEMMA RuntimeDiscover == Runtimes!Inv /\ Runtimes!Discover => Runtimes!Inv'
<1> SUFFICES ASSUME Runtimes!Inv, Runtimes!Discover PROVE Runtimes!Inv'
  OBVIOUS
<1>1. Runtimes!At("discover") /\ "discover" \in Runtimes!Name
  BY DEF Runtimes!Discover, Runtimes!Name
<1>2. UNCHANGED <<x1, x2, x3, x4, x5, x7, x10, x11>>
  BY DEF Runtimes!Discover
<1>3. x6' = x6 \union {x3.id}
  BY DEF Runtimes!Discover
<1>4. x3.id = x11 /\ x11 \in 1..RuntimeBuilds /\ x3.built = FALSE
  BY <1>1, RuntimeNow DEF Runtimes!Inv, Runtimes!TypeOK, Runtimes!RuntimeType, Runtimes!InTurn, Runtimes!Rebuilding
<1>5. CASE Runtimes!GoOn /\ UNCHANGED <<x12, x9>>
  <2>1. /\ Runtimes!Now(x8.todo) = "discover" /\ Runtimes!Now(x8'.todo) = "initialize"
        /\ x8' \in [todo : Seq(Runtimes!Name), target : 0..RuntimeBuilds] /\ x8'.target = x8.target
        /\ x8'.todo \in Runtimes!Rests
        /\ Runtimes!Settles(x8'.todo) <=> Runtimes!Settles(x8.todo)
    BY <1>1, <1>5, RuntimeGoes DEF Follows
  <2>2. Runtimes!TypeOK'
    <3>1. x6' \subseteq 1..x11' /\ x9' \subseteq 1..x11' /\ x10' \subseteq 1..x11' /\ x11' \in 1..RuntimeBuilds
      BY <1>2, <1>3, <1>4, <1>5 DEF Runtimes!Inv, Runtimes!TypeOK
    <3>2. Runtimes!RuntimeType' = Runtimes!RuntimeType
      BY <1>2 DEF Runtimes!RuntimeType
    <3>3. /\ x1' \in [session : 0..RuntimeBuilds, mode : RuntimeModes, effort : Runtimes!Efforts]
          /\ x2' \in Runtimes!RuntimeType' /\ x3' \in Runtimes!RuntimeType' /\ x4' \subseteq Runtimes!Plugin
          /\ x5' \in [Runtimes!Plugin -> [last : {"none", "init", "shutdown"}, of : 0..x11']]
          /\ x7' \in [Runtimes!Conversation -> Runtimes!Conversation]
      BY <1>2, <3>2 DEF Runtimes!Inv, Runtimes!TypeOK
    <3>4. x12' \in 0..RuntimeFaults
      BY <1>5 DEF Runtimes!Inv, Runtimes!TypeOK
    <3> QED
      BY <2>1, <3>1, <3>3, <3>4 DEF Runtimes!TypeOK
  <2>3. Runtimes!InTurn'
    BY <1>2, <1>3, <1>4, <1>5, <2>1 DEF Runtimes!Inv, Runtimes!InTurn, Runtimes!Rebuilding,
      Runtimes!Having, Runtimes!Ending
  <2>4. Runtimes!Alive'
    BY <1>2, <1>3, <1>4, <1>5, <2>1 DEF Runtimes!Inv, Runtimes!Alive, Runtimes!InTurn,
      Runtimes!TypeOK, Runtimes!Rebuilding, Runtimes!Having, Runtimes!Ending
  <2>5. Runtimes!Initializing'
    BY <1>2, <1>3, <1>4, <1>5, <2>1 DEF Runtimes!Inv, Runtimes!Initializing, Runtimes!InTurn,
      Runtimes!Rebuilding, Runtimes!Having, Runtimes!Ending
  <2>6. Runtimes!OnTheOpened'
    BY <1>2, <1>3, <1>4, <1>5, <2>1 DEF Runtimes!Inv, Runtimes!OnTheOpened, Runtimes!Opened,
      Runtimes!Rebuilding, Runtimes!Having
  <2>7. Runtimes!SavedUnderItsName'
    BY <1>2, <1>3, <1>4, <1>5, <2>1 DEF Runtimes!Inv, Runtimes!SavedUnderItsName
  <2> QED
    BY <2>2, <2>3, <2>4, <2>5, <2>6, <2>7 DEF Runtimes!Inv
<1>6. CASE Runtimes!Fault /\ Runtimes!Error /\ x9' = x9 \union {x3.id}
  <2>1. /\ Runtimes!Now(x8.todo) = "discover" /\ Runtimes!Now(x8'.todo) = "discard"
        /\ x8' \in [todo : Seq(Runtimes!Name), target : 0..RuntimeBuilds]
        /\ x8'.todo \in Runtimes!Rests /\ x12' \in 0..RuntimeFaults
    BY <1>1, <1>6, RuntimeFails
  <2>2. Runtimes!TypeOK'
    <3>1. x6' \subseteq 1..x11' /\ x9' \subseteq 1..x11' /\ x10' \subseteq 1..x11' /\ x11' \in 1..RuntimeBuilds
      BY <1>2, <1>3, <1>4, <1>6 DEF Runtimes!Inv, Runtimes!TypeOK
    <3>2. Runtimes!RuntimeType' = Runtimes!RuntimeType
      BY <1>2 DEF Runtimes!RuntimeType
    <3>3. /\ x1' \in [session : 0..RuntimeBuilds, mode : RuntimeModes, effort : Runtimes!Efforts]
          /\ x2' \in Runtimes!RuntimeType' /\ x3' \in Runtimes!RuntimeType' /\ x4' \subseteq Runtimes!Plugin
          /\ x5' \in [Runtimes!Plugin -> [last : {"none", "init", "shutdown"}, of : 0..x11']]
          /\ x7' \in [Runtimes!Conversation -> Runtimes!Conversation]
      BY <1>2, <3>2 DEF Runtimes!Inv, Runtimes!TypeOK
    <3> QED
      BY <2>1, <3>1, <3>3 DEF Runtimes!TypeOK
  <2>3. Runtimes!InTurn'
    BY <1>2, <1>3, <1>4, <1>6, <2>1 DEF Runtimes!Inv, Runtimes!InTurn, Runtimes!Rebuilding,
      Runtimes!Having, Runtimes!Ending
  <2>4. Runtimes!Alive'
    BY <1>2, <1>3, <1>4, <1>6, <2>1 DEF Runtimes!Inv, Runtimes!Alive, Runtimes!InTurn,
      Runtimes!TypeOK, Runtimes!Rebuilding, Runtimes!Having, Runtimes!Ending
  <2>5. Runtimes!Initializing'
    BY <1>2, <1>3, <1>4, <1>6, <2>1 DEF Runtimes!Inv, Runtimes!Initializing, Runtimes!InTurn,
      Runtimes!Rebuilding, Runtimes!Having, Runtimes!Ending
  <2>6. Runtimes!OnTheOpened'
    BY <1>2, <1>3, <1>4, <1>6, <2>1 DEF Runtimes!Inv, Runtimes!OnTheOpened, Runtimes!Opened,
      Runtimes!Rebuilding, Runtimes!Having
  <2>7. Runtimes!SavedUnderItsName'
    BY <1>2, <1>3, <1>4, <1>6, <2>1 DEF Runtimes!Inv, Runtimes!SavedUnderItsName
  <2> QED
    BY <2>2, <2>3, <2>4, <2>5, <2>6, <2>7 DEF Runtimes!Inv
<1> QED
  BY <1>5, <1>6 DEF Runtimes!Discover

LEMMA RuntimeInitialize == Runtimes!Inv /\ Runtimes!Initialize => Runtimes!Inv'
<1> SUFFICES ASSUME Runtimes!Inv, Runtimes!Initialize PROVE Runtimes!Inv'
  OBVIOUS
<1>1. Runtimes!At("initialize") /\ "initialize" \in Runtimes!Name
  BY DEF Runtimes!Initialize, Runtimes!Name
<1>2. UNCHANGED <<x1, x2, x4, x6, x7, x10, x11>>
  BY DEF Runtimes!Initialize
<1>3. x3.id = x11 /\ x11 \in 1..RuntimeBuilds /\ x3 \in Runtimes!RuntimeType /\ x3.plugins \subseteq Runtimes!Plugin
  BY <1>1, RuntimeNow DEF Runtimes!Inv, Runtimes!TypeOK, Runtimes!RuntimeType, Runtimes!InTurn, Runtimes!Rebuilding
<1>4. CASE /\ Runtimes!GoOn /\ x5' = Runtimes!Initialized(x3, x3.plugins)
           /\ x3' = [x3 EXCEPT !.built = TRUE] /\ UNCHANGED <<x12, x9>>
  <2>1. /\ Runtimes!Now(x8.todo) = "initialize" /\ Runtimes!Now(x8'.todo) \in {"run", "replace"}
        /\ x8' \in [todo : Seq(Runtimes!Name), target : 0..RuntimeBuilds] /\ x8'.target = x8.target
        /\ x8'.todo \in Runtimes!Rests
        /\ Runtimes!Settles(x8'.todo) <=> Runtimes!Settles(x8.todo)
    BY <1>1, <1>4, RuntimeGoes DEF Follows
  <2>2. /\ x3' \in Runtimes!RuntimeType /\ x3'.plugins = x3.plugins /\ x3'.id = x3.id /\ x3'.built
        /\ x3'.session = x3.session /\ x3'.mode = x3.mode
    BY <1>3, <1>4 DEF Runtimes!RuntimeType
  <2>3. /\ x5' \in [Runtimes!Plugin -> [last : {"none", "init", "shutdown"}, of : 0..x11]]
        /\ \A p \in x3.plugins : x5'[p] = [last |-> "init", of |-> x3.id]
        /\ \A p \in Runtimes!Plugin : p \in x3.plugins \/ x5'[p] = x5[p]
    BY <1>3, <1>4, RuntimeTold
  <2>4. Runtimes!TypeOK'
    BY <1>2, <1>3, <1>4, <2>1, <2>2, <2>3 DEF Runtimes!Inv, Runtimes!TypeOK, Runtimes!RuntimeType
  <2>5. Runtimes!InTurn'
    BY <1>2, <1>3, <1>4, <2>1, <2>2, <2>3 DEF Runtimes!Inv, Runtimes!InTurn, Runtimes!Rebuilding,
      Runtimes!Having, Runtimes!Ending
  <2>6. Runtimes!Alive'
    BY <1>2, <1>3, <1>4, <2>1, <2>2, <2>3 DEF Runtimes!Inv, Runtimes!Alive, Runtimes!InTurn,
      Runtimes!TypeOK, Runtimes!Rebuilding, Runtimes!Having, Runtimes!Ending
  <2>7. Runtimes!Initializing'
    <3>1. x3.plugins = x4
      BY <2>1 DEF Runtimes!Inv, Runtimes!Initializing, Runtimes!Rebuilding
    <3>2. ~Runtimes!Ending
      BY <2>1 DEF Runtimes!Ending
    <3>3. ASSUME NEW p \in Runtimes!Plugin, x5'[p].last = "init" PROVE p \in x2'.plugins \/ p \in x3'.plugins
      BY <1>2, <2>2, <2>3, <3>2, <3>3, x5'[p] = x5[p] \/ p \in x3.plugins DEF Runtimes!Inv, Runtimes!Initializing
    <3>4. Runtimes!Rebuilding' /\ ~Runtimes!Having'
      BY <2>1 DEF Runtimes!Rebuilding, Runtimes!Having
    <3> QED
      BY <1>2, <2>2, <2>3, <3>1, <3>3, <3>4, Zenon DEF Runtimes!Initializing
  <2>8. Runtimes!OnTheOpened'
    BY <1>2, <1>3, <1>4, <2>1, <2>2, <2>3 DEF Runtimes!Inv, Runtimes!OnTheOpened, Runtimes!Opened,
      Runtimes!Rebuilding, Runtimes!Having
  <2>9. Runtimes!SavedUnderItsName'
    BY <1>2, <1>3, <1>4, <2>1, <2>2, <2>3 DEF Runtimes!Inv, Runtimes!SavedUnderItsName
  <2> QED
    BY <2>4, <2>5, <2>6, <2>7, <2>8, <2>9 DEF Runtimes!Inv
<1>5. CASE /\ Runtimes!Fault /\ Runtimes!Error
           /\ \E S \in Runtimes!Beginnings(x3) : x5' = Runtimes!Initialized(x3, S)
           /\ x9' = x9 \union {x3.id} /\ UNCHANGED x3
  <2>1. /\ Runtimes!Now(x8.todo) = "initialize" /\ Runtimes!Now(x8'.todo) = "discard"
        /\ x8' \in [todo : Seq(Runtimes!Name), target : 0..RuntimeBuilds]
        /\ x8'.todo \in Runtimes!Rests /\ x12' \in 0..RuntimeFaults
    BY <1>1, <1>5, RuntimeFails
  <2>2. x5' \in [Runtimes!Plugin -> [last : {"none", "init", "shutdown"}, of : 0..x11]]
    <3>1. PICK S \in Runtimes!Beginnings(x3) : x5' = Runtimes!Initialized(x3, S)
      BY <1>5
    <3>2. S \in SUBSET Runtimes!Plugin /\ x3.id \in 0..x11
      BY <1>3 DEF Runtimes!Beginnings
    <3> QED
      BY <3>1, <3>2, RuntimeTold
  <2>3. x9' = x9 \union {x3.id} /\ UNCHANGED x3
    BY <1>5
  <2>4. Runtimes!TypeOK'
    BY <1>2, <1>3, <2>1, <2>2, <2>3 DEF Runtimes!Inv, Runtimes!TypeOK, Runtimes!RuntimeType
  <2>5. Runtimes!InTurn'
    BY <1>2, <1>3, <2>1, <2>2, <2>3 DEF Runtimes!Inv, Runtimes!InTurn, Runtimes!Rebuilding,
      Runtimes!Having, Runtimes!Ending
  <2>6. Runtimes!Alive'
    BY <1>2, <1>3, <2>1, <2>2, <2>3 DEF Runtimes!Inv, Runtimes!Alive, Runtimes!InTurn,
      Runtimes!TypeOK, Runtimes!Rebuilding, Runtimes!Having, Runtimes!Ending
  <2>7. Runtimes!Initializing'
    BY <1>2, <1>3, <2>1, <2>2, <2>3 DEF Runtimes!Inv, Runtimes!Initializing, Runtimes!InTurn,
      Runtimes!Rebuilding, Runtimes!Having, Runtimes!Ending
  <2>8. Runtimes!OnTheOpened'
    BY <1>2, <1>3, <2>1, <2>2, <2>3 DEF Runtimes!Inv, Runtimes!OnTheOpened, Runtimes!Opened,
      Runtimes!Rebuilding, Runtimes!Having
  <2>9. Runtimes!SavedUnderItsName'
    BY <1>2, <1>3, <2>1, <2>2, <2>3 DEF Runtimes!Inv, Runtimes!SavedUnderItsName
  <2> QED
    BY <2>4, <2>5, <2>6, <2>7, <2>8, <2>9 DEF Runtimes!Inv
<1> QED
  BY <1>4, <1>5 DEF Runtimes!Initialize

LEMMA RuntimeRunTurn == Runtimes!Inv /\ Runtimes!RunTurn => Runtimes!Inv'
<1> SUFFICES ASSUME Runtimes!Inv, Runtimes!RunTurn PROVE Runtimes!Inv'
  OBVIOUS
<1>1. Runtimes!At("run") /\ "run" \in Runtimes!Name
  BY DEF Runtimes!RunTurn, Runtimes!Name
<1>2. UNCHANGED <<x1, x2, x3, x4, x5, x6, x7, x9, x10, x11>>
  BY DEF Runtimes!RunTurn
<1>3. CASE Runtimes!GoOn /\ UNCHANGED x12
  <2>1. /\ Runtimes!Now(x8.todo) = "run" /\ Runtimes!Now(x8'.todo) = "replace"
        /\ x8' \in [todo : Seq(Runtimes!Name), target : 0..RuntimeBuilds] /\ x8'.target = x8.target
        /\ x8'.todo \in Runtimes!Rests
        /\ Runtimes!Settles(x8'.todo) <=> Runtimes!Settles(x8.todo)
    BY <1>1, <1>3, RuntimeGoes DEF Follows
  <2>2. Runtimes!TypeOK'
    BY <1>2, <1>3, <2>1 DEF Runtimes!Inv, Runtimes!TypeOK, Runtimes!RuntimeType
  <2>3. Runtimes!InTurn'
    BY <1>2, <1>3, <2>1 DEF Runtimes!Inv, Runtimes!InTurn, Runtimes!Rebuilding, Runtimes!Having,
      Runtimes!Ending
  <2>4. Runtimes!Alive'
    BY <1>2, <1>3, <2>1 DEF Runtimes!Inv, Runtimes!Alive, Runtimes!InTurn, Runtimes!TypeOK,
      Runtimes!Rebuilding, Runtimes!Having, Runtimes!Ending
  <2>5. Runtimes!Initializing'
    BY <1>2, <1>3, <2>1 DEF Runtimes!Inv, Runtimes!Initializing, Runtimes!InTurn,
      Runtimes!Rebuilding, Runtimes!Having, Runtimes!Ending
  <2>6. Runtimes!OnTheOpened'
    BY <1>2, <1>3, <2>1 DEF Runtimes!Inv, Runtimes!OnTheOpened, Runtimes!Opened,
      Runtimes!Rebuilding, Runtimes!Having
  <2>7. Runtimes!SavedUnderItsName'
    BY <1>2, <1>3, <2>1 DEF Runtimes!Inv, Runtimes!SavedUnderItsName
  <2> QED
    BY <2>2, <2>3, <2>4, <2>5, <2>6, <2>7 DEF Runtimes!Inv
<1>4. CASE Runtimes!Fault /\ Runtimes!Error
  <2>1. /\ Runtimes!Now(x8.todo) = "run" /\ Runtimes!Now(x8'.todo) = "discard"
        /\ x8' \in [todo : Seq(Runtimes!Name), target : 0..RuntimeBuilds]
        /\ x8'.todo \in Runtimes!Rests /\ x12' \in 0..RuntimeFaults
    BY <1>1, <1>4, RuntimeFails
  <2>2. Runtimes!TypeOK'
    BY <1>2, <1>4, <2>1 DEF Runtimes!Inv, Runtimes!TypeOK, Runtimes!RuntimeType
  <2>3. Runtimes!InTurn'
    BY <1>2, <1>4, <2>1 DEF Runtimes!Inv, Runtimes!InTurn, Runtimes!Rebuilding, Runtimes!Having,
      Runtimes!Ending
  <2>4. Runtimes!Alive'
    BY <1>2, <1>4, <2>1 DEF Runtimes!Inv, Runtimes!Alive, Runtimes!InTurn, Runtimes!TypeOK,
      Runtimes!Rebuilding, Runtimes!Having, Runtimes!Ending
  <2>5. Runtimes!Initializing'
    BY <1>2, <1>4, <2>1 DEF Runtimes!Inv, Runtimes!Initializing, Runtimes!InTurn,
      Runtimes!Rebuilding, Runtimes!Having, Runtimes!Ending
  <2>6. Runtimes!OnTheOpened'
    BY <1>2, <1>4, <2>1 DEF Runtimes!Inv, Runtimes!OnTheOpened, Runtimes!Opened,
      Runtimes!Rebuilding, Runtimes!Having
  <2>7. Runtimes!SavedUnderItsName'
    BY <1>2, <1>4, <2>1 DEF Runtimes!Inv, Runtimes!SavedUnderItsName
  <2> QED
    BY <2>2, <2>3, <2>4, <2>5, <2>6, <2>7 DEF Runtimes!Inv
<1> QED
  BY <1>3, <1>4 DEF Runtimes!RunTurn

LEMMA RuntimeReplace == Runtimes!Inv /\ Runtimes!Replace => Runtimes!Inv'
<1> SUFFICES ASSUME Runtimes!Inv, Runtimes!Replace PROVE Runtimes!Inv'
  OBVIOUS
<1>1. Runtimes!At("replace") /\ "replace" \in Runtimes!Name
  BY DEF Runtimes!Replace, Runtimes!Name
<1>2. UNCHANGED <<x1, x4, x7, x9, x11>>
  BY DEF Runtimes!Replace
<1>3. /\ Runtimes!Rebuilding /\ ~Runtimes!Having /\ ~Runtimes!Ending
      /\ x3.id = x11 /\ x2.id = x11 - 1 /\ x3.built /\ x11 \in 1..RuntimeBuilds
      /\ x2 \in Runtimes!RuntimeType /\ x3 \in Runtimes!RuntimeType
      /\ x2.plugins \subseteq Runtimes!Plugin /\ x2.id \in 0..x11
  BY <1>1, RuntimeNow DEF Runtimes!Inv, Runtimes!TypeOK, Runtimes!RuntimeType, Runtimes!InTurn, Runtimes!Rebuilding,
     Runtimes!Having, Runtimes!Ending
<1>4. CASE /\ Runtimes!GoOn
           /\ x2' = x3 /\ x3' = Runtimes!NoRuntime /\ x5' = Runtimes!ShutDown(x2, x2.plugins)
           /\ \/ x6' = x6 \ {x2.id} /\ UNCHANGED <<x12, x10>>
              \/ x2.id # 0 /\ Runtimes!Fault /\ x10' = x10 \union {x2.id} /\ UNCHANGED x6
  <2>1. /\ Runtimes!Now(x8.todo) = "replace" /\ Runtimes!Now(x8'.todo) \in {"settle", "persist"}
        /\ x8' \in [todo : Seq(Runtimes!Name), target : 0..RuntimeBuilds] /\ x8'.target = x8.target
        /\ x8'.todo \in Runtimes!Rests
        /\ Runtimes!Settles(x8'.todo) <=> Runtimes!Settles(x8.todo)
    BY <1>1, <1>4, RuntimeGoes DEF Follows
  <2>2. x3' \in Runtimes!RuntimeType /\ x3'.built = FALSE
    BY <1>2, <1>3, <1>4, RuntimeNone
  <2>3. /\ x5' \in [Runtimes!Plugin -> [last : {"none", "init", "shutdown"}, of : 0..x11]]
        /\ \A p \in x2.plugins : x5'[p].last = "shutdown"
        /\ \A p \in Runtimes!Plugin : p \in x2.plugins \/ x5'[p] = x5[p]
    <3>1. x5' = Runtimes!ShutDown(x2, x2.plugins) /\ x2.plugins \in SUBSET Runtimes!Plugin
      BY <1>3, <1>4
    <3>2. /\ Runtimes!ShutDown(x2, x2.plugins)
                \in [Runtimes!Plugin -> [last : {"none", "init", "shutdown"}, of : 0..x11]]
          /\ \A p \in x2.plugins : Runtimes!ShutDown(x2, x2.plugins)[p].last = "shutdown"
          /\ \A p \in Runtimes!Plugin : p \in x2.plugins \/ Runtimes!ShutDown(x2, x2.plugins)[p] = x5[p]
      <4> DEFINE rt == x2
                 S == x2.plugins
      <4>1. rt.id \in 0..x11 /\ S \in SUBSET Runtimes!Plugin
        BY <1>3
      <4> HIDE DEF rt, S
      <4>2. /\ Runtimes!ShutDown(rt, S) \in [Runtimes!Plugin -> [last : {"none", "init", "shutdown"}, of : 0..x11]]
            /\ \A p \in S : Runtimes!ShutDown(rt, S)[p].last = "shutdown"
            /\ \A p \in Runtimes!Plugin : p \in S \/ Runtimes!ShutDown(rt, S)[p] = x5[p]
        <5>1. Runtimes!ShutDown(rt, S) \in [Runtimes!Plugin -> [last : {"none", "init", "shutdown"}, of : 0..x11]]
          BY <4>1, RuntimeTold
        <5>2. \A p \in S : Runtimes!ShutDown(rt, S)[p].last = "shutdown"
          BY <4>1 DEF Runtimes!ShutDown, Runtimes!Told
        <5>3. \A p \in Runtimes!Plugin : p \in S \/ Runtimes!ShutDown(rt, S)[p] = x5[p]
          BY <4>1 DEF Runtimes!ShutDown, Runtimes!Told
        <5> QED
          BY <5>1, <5>2, <5>3, Zenon
      <4> QED
        BY <4>2 DEF rt, S
    <3> QED
      BY <3>1, <3>2
  <2>10. x6' \subseteq 1..x11 /\ x10' \subseteq 1..x11
    <3>1. x6 \subseteq 1..x11 /\ x10 \subseteq 1..x11
      BY DEF Runtimes!Inv, Runtimes!TypeOK
    <3>2. x6' = x6 \/ x6' = x6 \ {x2.id}
      BY <1>4
    <3>3. x10' = x10 \/ (x2.id # 0 /\ x10' = x10 \union {x2.id})
      BY <1>4
    <3>4. x2.id \in 0..x11 /\ x11 \in Nat
      BY <1>3
    <3>5. x6' \subseteq 1..x11
      BY <3>1, <3>2
    <3>6. x2.id # 0 => x2.id \in 1..x11
      BY <3>4
    <3>7. x10' \subseteq 1..x11
      BY <3>1, <3>3, <3>4, <3>6
    <3> QED
      BY <3>5, <3>7
  <2>11. x2' = x3
    BY <1>4
  <2>4. x12' \in 0..RuntimeFaults
    BY <1>4, ProgramAssumption DEF Runtimes!Inv, Runtimes!TypeOK, Runtimes!Fault
  <2>12. Runtimes!TypeOK'
    BY <1>2, <1>3, <2>1, <2>2, <2>3, <2>4, <2>10, <2>11 DEF Runtimes!Inv, Runtimes!TypeOK,
      Runtimes!RuntimeType
  <2>13. Runtimes!InTurn'
    BY <1>2, <1>3, <1>4, <2>1, <2>2, <2>3, <2>4 DEF Runtimes!Inv, Runtimes!InTurn,
      Runtimes!Rebuilding, Runtimes!Having, Runtimes!Ending
  <2>14. Runtimes!Alive'
    BY <1>2, <1>3, <1>4, <2>1, <2>2, <2>3, <2>4 DEF Runtimes!Inv, Runtimes!Alive, Runtimes!InTurn,
      Runtimes!TypeOK, Runtimes!Rebuilding, Runtimes!Having, Runtimes!Ending
  <2>15. Runtimes!Initializing'
    BY <1>2, <1>3, <1>4, <2>1, <2>2, <2>3, <2>4 DEF Runtimes!Inv, Runtimes!Initializing,
      Runtimes!InTurn, Runtimes!Rebuilding, Runtimes!Having, Runtimes!Ending
  <2>16. Runtimes!OnTheOpened'
    BY <1>2, <1>3, <1>4, <2>1, <2>2, <2>3, <2>4 DEF Runtimes!Inv, Runtimes!OnTheOpened,
      Runtimes!Opened, Runtimes!Rebuilding, Runtimes!Having
  <2>17. Runtimes!SavedUnderItsName'
    BY <1>2, <1>3, <1>4, <2>1, <2>2, <2>3, <2>4 DEF Runtimes!Inv, Runtimes!SavedUnderItsName
  <2> QED
    BY <2>12, <2>13, <2>14, <2>15, <2>16, <2>17 DEF Runtimes!Inv
<1>5. CASE /\ Runtimes!Fault /\ Runtimes!Error
           /\ \E S \in Runtimes!Endings(x2) \ {x2.plugins} : x5' = Runtimes!ShutDown(x2, S)
           /\ x10' = x10 \union {x2.id} /\ UNCHANGED <<x2, x3, x6>>
  <2>1. /\ Runtimes!Now(x8.todo) = "replace" /\ Runtimes!Now(x8'.todo) = "discard"
        /\ x8' \in [todo : Seq(Runtimes!Name), target : 0..RuntimeBuilds]
        /\ x8'.todo \in Runtimes!Rests /\ x12' \in 0..RuntimeFaults
    BY <1>1, <1>5, RuntimeFails
  <2>2. x5' \in [Runtimes!Plugin -> [last : {"none", "init", "shutdown"}, of : 0..x11]]
    <3>1. PICK S \in Runtimes!Endings(x2) : x5' = Runtimes!ShutDown(x2, S)
      BY <1>5
    <3>2. S \in SUBSET Runtimes!Plugin
      BY <1>3 DEF Runtimes!Endings
    <3> QED
      BY <1>3, <3>1, <3>2, RuntimeTold
  <2>3. x2.id # 0
    <3>1. x2.plugins # {}
      BY <1>5 DEF Runtimes!Endings
    <3> QED
      BY <3>1 DEF Runtimes!Inv, Runtimes!InTurn
  <2>8. x10' = x10 \union {x2.id} /\ UNCHANGED <<x2, x3, x6>>
    BY <1>5
  <2>10. Runtimes!TypeOK'
    BY <1>2, <1>3, <2>1, <2>2, <2>3, <2>8 DEF Runtimes!Inv, Runtimes!TypeOK, Runtimes!RuntimeType
  <2>11. Runtimes!InTurn'
    BY <1>2, <1>3, <2>1, <2>2, <2>3, <2>8 DEF Runtimes!Inv, Runtimes!InTurn, Runtimes!Rebuilding,
      Runtimes!Having, Runtimes!Ending
  <2>12. Runtimes!Alive'
    BY <1>2, <1>3, <2>1, <2>2, <2>3, <2>8 DEF Runtimes!Inv, Runtimes!Alive, Runtimes!InTurn,
      Runtimes!TypeOK, Runtimes!Rebuilding, Runtimes!Having, Runtimes!Ending
  <2>13. Runtimes!Initializing'
    BY <1>2, <1>3, <2>1, <2>2, <2>3, <2>8 DEF Runtimes!Inv, Runtimes!Initializing,
      Runtimes!InTurn, Runtimes!Rebuilding, Runtimes!Having, Runtimes!Ending
  <2>14. Runtimes!OnTheOpened'
    BY <1>2, <1>3, <2>1, <2>2, <2>3, <2>8 DEF Runtimes!Inv, Runtimes!OnTheOpened, Runtimes!Opened,
      Runtimes!Rebuilding, Runtimes!Having
  <2>15. Runtimes!SavedUnderItsName'
    BY <1>2, <1>3, <2>1, <2>2, <2>3, <2>8 DEF Runtimes!Inv, Runtimes!SavedUnderItsName
  <2> QED
    BY <2>10, <2>11, <2>12, <2>13, <2>14, <2>15 DEF Runtimes!Inv
<1> QED
  BY <1>4, <1>5 DEF Runtimes!Replace

LEMMA RuntimeSettle == Runtimes!Inv /\ Runtimes!Settle => Runtimes!Inv'
<1> SUFFICES ASSUME Runtimes!Inv, Runtimes!Settle PROVE Runtimes!Inv'
  OBVIOUS
<1>1. Runtimes!At("settle") /\ "settle" \in Runtimes!Name
  BY DEF Runtimes!Settle, Runtimes!Name
<1>2. UNCHANGED <<x2, x3, x4, x5, x6, x7, x9, x10, x11, x12>>
  BY DEF Runtimes!Settle
<1>3. Runtimes!GoOn /\ x1' = [x1 EXCEPT !.session = x8.target]
  BY DEF Runtimes!Settle
<1>4. QED
  <2>1. /\ Runtimes!Now(x8.todo) = "settle" /\ Runtimes!Now(x8'.todo) = "persist"
        /\ x8' \in [todo : Seq(Runtimes!Name), target : 0..RuntimeBuilds] /\ x8'.target = x8.target
        /\ x8'.todo \in Runtimes!Rests /\ ~Runtimes!Settles(x8'.todo) /\ Runtimes!Settles(x8.todo)
    BY <1>1, <1>3, RuntimeGoes, RuntimeSettles DEF Follows
  <2>2. x1' \in [session : 0..RuntimeBuilds, mode : RuntimeModes, effort : Runtimes!Efforts]
        /\ x1'.session = x8.target /\ x1'.mode = x1.mode
    BY <1>3 DEF Runtimes!Inv, Runtimes!TypeOK
  <2>3. Runtimes!TypeOK'
    BY <1>2, <1>3, <2>1, <2>2 DEF Runtimes!Inv, Runtimes!TypeOK, Runtimes!RuntimeType
  <2>4. Runtimes!InTurn'
    BY <1>2, <1>3, <2>1, <2>2 DEF Runtimes!Inv, Runtimes!InTurn, Runtimes!Rebuilding,
      Runtimes!Having, Runtimes!Ending
  <2>5. Runtimes!Alive'
    BY <1>2, <1>3, <2>1, <2>2 DEF Runtimes!Inv, Runtimes!Alive, Runtimes!InTurn, Runtimes!TypeOK,
      Runtimes!Rebuilding, Runtimes!Having, Runtimes!Ending
  <2>6. Runtimes!Initializing'
    BY <1>2, <1>3, <2>1, <2>2 DEF Runtimes!Inv, Runtimes!Initializing, Runtimes!InTurn,
      Runtimes!Rebuilding, Runtimes!Having, Runtimes!Ending
  <2>7. Runtimes!OnTheOpened'
    BY <1>2, <1>3, <2>1, <2>2 DEF Runtimes!Inv, Runtimes!OnTheOpened, Runtimes!Opened,
      Runtimes!Rebuilding, Runtimes!Having
  <2>8. Runtimes!SavedUnderItsName'
    BY <1>2, <1>3, <2>1, <2>2 DEF Runtimes!Inv, Runtimes!SavedUnderItsName
  <2> QED
    BY <2>3, <2>4, <2>5, <2>6, <2>7, <2>8 DEF Runtimes!Inv

LEMMA RuntimePersist == Runtimes!Inv /\ Runtimes!Persist => Runtimes!Inv'
<1> SUFFICES ASSUME Runtimes!Inv, Runtimes!Persist PROVE Runtimes!Inv'
  OBVIOUS
<1>1. Runtimes!At("persist") /\ "persist" \in Runtimes!Name
  BY DEF Runtimes!Persist, Runtimes!Name
<1>2. UNCHANGED <<x1, x2, x3, x4, x5, x6, x9, x10, x11>>
  BY DEF Runtimes!Persist
<1>3. CASE Runtimes!GoOn /\ x7' = [x7 EXCEPT ![x1.session] = x2.session] /\ UNCHANGED x12
  <2>1. /\ Runtimes!Now(x8.todo) = "persist" /\ Runtimes!Now(x8'.todo) \in {"effort", "idle", "quit"}
        /\ x8' \in [todo : Seq(Runtimes!Name), target : 0..RuntimeBuilds] /\ x8'.target = x8.target
        /\ x8'.todo \in Runtimes!Rests /\ ~Runtimes!Settles(x8.todo)
        /\ Runtimes!Settles(x8'.todo) <=> Runtimes!Settles(x8.todo)
    BY <1>1, <1>3, RuntimeGoes DEF Follows
  <2>2. x1.session \in 0..RuntimeBuilds /\ x2.session = x1.session /\ x1.session \in Runtimes!Conversation
    BY <2>1, ProgramAssumption DEF Runtimes!Inv, Runtimes!TypeOK, Runtimes!OnTheOpened, Runtimes!Opened, Runtimes!Having,
       Runtimes!Conversation
  <2>3. Runtimes!TypeOK'
    BY <1>2, <1>3, <2>1, <2>2 DEF Runtimes!Inv, Runtimes!TypeOK, Runtimes!RuntimeType
  <2>4. Runtimes!InTurn'
    BY <1>2, <1>3, <2>1, <2>2 DEF Runtimes!Inv, Runtimes!InTurn, Runtimes!Rebuilding,
      Runtimes!Having, Runtimes!Ending
  <2>5. Runtimes!Alive'
    BY <1>2, <1>3, <2>1, <2>2 DEF Runtimes!Inv, Runtimes!Alive, Runtimes!InTurn, Runtimes!TypeOK,
      Runtimes!Rebuilding, Runtimes!Having, Runtimes!Ending
  <2>6. Runtimes!Initializing'
    BY <1>2, <1>3, <2>1, <2>2 DEF Runtimes!Inv, Runtimes!Initializing, Runtimes!InTurn,
      Runtimes!Rebuilding, Runtimes!Having, Runtimes!Ending
  <2>7. Runtimes!OnTheOpened'
    BY <1>2, <1>3, <2>1, <2>2 DEF Runtimes!Inv, Runtimes!OnTheOpened, Runtimes!Opened,
      Runtimes!Rebuilding, Runtimes!Having
  <2>8. Runtimes!SavedUnderItsName'
    BY <1>2, <1>3, <2>1, <2>2 DEF Runtimes!Inv, Runtimes!SavedUnderItsName
  <2> QED
    BY <2>3, <2>4, <2>5, <2>6, <2>7, <2>8 DEF Runtimes!Inv
<1>4. CASE Runtimes!Fault /\ Runtimes!Error /\ UNCHANGED x7
  <2>1. /\ Runtimes!Now(x8.todo) = "persist" /\ Runtimes!Now(x8'.todo) = "discard"
        /\ x8' \in [todo : Seq(Runtimes!Name), target : 0..RuntimeBuilds]
        /\ x8'.todo \in Runtimes!Rests /\ x12' \in 0..RuntimeFaults
    BY <1>1, <1>4, RuntimeFails
  <2>2. Runtimes!TypeOK'
    BY <1>2, <1>4, <2>1 DEF Runtimes!Inv, Runtimes!TypeOK, Runtimes!RuntimeType
  <2>3. Runtimes!InTurn'
    BY <1>2, <1>4, <2>1 DEF Runtimes!Inv, Runtimes!InTurn, Runtimes!Rebuilding, Runtimes!Having,
      Runtimes!Ending
  <2>4. Runtimes!Alive'
    BY <1>2, <1>4, <2>1 DEF Runtimes!Inv, Runtimes!Alive, Runtimes!InTurn, Runtimes!TypeOK,
      Runtimes!Rebuilding, Runtimes!Having, Runtimes!Ending
  <2>5. Runtimes!Initializing'
    BY <1>2, <1>4, <2>1 DEF Runtimes!Inv, Runtimes!Initializing, Runtimes!InTurn,
      Runtimes!Rebuilding, Runtimes!Having, Runtimes!Ending
  <2>6. Runtimes!OnTheOpened'
    BY <1>2, <1>4, <2>1 DEF Runtimes!Inv, Runtimes!OnTheOpened, Runtimes!Opened,
      Runtimes!Rebuilding, Runtimes!Having
  <2>7. Runtimes!SavedUnderItsName'
    BY <1>2, <1>4, <2>1 DEF Runtimes!Inv, Runtimes!SavedUnderItsName
  <2> QED
    BY <2>2, <2>3, <2>4, <2>5, <2>6, <2>7 DEF Runtimes!Inv
<1> QED
  BY <1>3, <1>4 DEF Runtimes!Persist

LEMMA RuntimeSetEffort == Runtimes!Inv /\ Runtimes!SetEffort => Runtimes!Inv'
<1> SUFFICES ASSUME Runtimes!Inv, Runtimes!SetEffort PROVE Runtimes!Inv'
  OBVIOUS
<1>1. Runtimes!At("effort") /\ "effort" \in Runtimes!Name
  BY DEF Runtimes!SetEffort, Runtimes!Name
<1>2. UNCHANGED <<x1, x3, x4, x5, x6, x7, x9, x10, x11, x12>>
  BY DEF Runtimes!SetEffort
<1>3. Runtimes!GoOn /\ x2' = [x2 EXCEPT !.effort = x1.effort]
  BY DEF Runtimes!SetEffort
<1>4. QED
  <2>1. /\ Runtimes!Now(x8.todo) = "effort" /\ Runtimes!Now(x8'.todo) = "idle"
        /\ x8' \in [todo : Seq(Runtimes!Name), target : 0..RuntimeBuilds] /\ x8'.target = x8.target
        /\ x8'.todo \in Runtimes!Rests
        /\ Runtimes!Settles(x8'.todo) <=> Runtimes!Settles(x8.todo)
    BY <1>1, <1>3, RuntimeGoes DEF Follows
  <2>2. /\ x2 \in Runtimes!RuntimeType /\ x1.effort \in Runtimes!Efforts
    BY DEF Runtimes!Inv, Runtimes!TypeOK
  <2>3. /\ x2' \in Runtimes!RuntimeType /\ x2'.plugins = x2.plugins /\ x2'.id = x2.id
        /\ x2'.session = x2.session /\ x2'.mode = x2.mode
    BY <1>3, <2>2 DEF Runtimes!RuntimeType
  <2>4. Runtimes!TypeOK'
    BY <1>2, <1>3, <2>1, <2>3 DEF Runtimes!Inv, Runtimes!TypeOK, Runtimes!RuntimeType
  <2>5. Runtimes!InTurn'
    BY <1>2, <1>3, <2>1, <2>3 DEF Runtimes!Inv, Runtimes!InTurn, Runtimes!Rebuilding,
      Runtimes!Having, Runtimes!Ending
  <2>6. Runtimes!Alive'
    BY <1>2, <1>3, <2>1, <2>3 DEF Runtimes!Inv, Runtimes!Alive, Runtimes!InTurn, Runtimes!TypeOK,
      Runtimes!Rebuilding, Runtimes!Having, Runtimes!Ending
  <2>7. Runtimes!Initializing'
    BY <1>2, <1>3, <2>1, <2>3 DEF Runtimes!Inv, Runtimes!Initializing, Runtimes!InTurn,
      Runtimes!Rebuilding, Runtimes!Having, Runtimes!Ending
  <2>8. Runtimes!OnTheOpened'
    BY <1>2, <1>3, <2>1, <2>3 DEF Runtimes!Inv, Runtimes!OnTheOpened, Runtimes!Opened,
      Runtimes!Rebuilding, Runtimes!Having
  <2>9. Runtimes!SavedUnderItsName'
    BY <1>2, <1>3, <2>1, <2>3 DEF Runtimes!Inv, Runtimes!SavedUnderItsName
  <2> QED
    BY <2>4, <2>5, <2>6, <2>7, <2>8, <2>9 DEF Runtimes!Inv

\* A runtime that is dropped leaves nothing, or it is stuck.
LEMMA RuntimeDrop ==
  ASSUME Runtimes!Inv, NEW rt \in Runtimes!RuntimeType, Runtimes!Drop(rt)
  PROVE  /\ x5' \in [Runtimes!Plugin -> [last : {"none", "init", "shutdown"}, of : 0..x11]]
         /\ x6' \subseteq x6 /\ x10' \subseteq 1..x11 /\ x10 \subseteq x10' /\ x12' \in 0..RuntimeFaults
         /\ rt.id \in x6' => rt.id \in x10'
         /\ \A p \in Runtimes!Plugin : x5'[p].last = "init" => x5[p].last = "init" /\ (p \notin rt.plugins \/ x10' # {})
<1>1. /\ rt.id \in 0..x11 /\ rt.plugins \subseteq Runtimes!Plugin /\ x11 \in Nat
      /\ x10 \subseteq 1..x11 /\ x12 \in 0..RuntimeFaults
  BY ProgramAssumption DEF Runtimes!Inv, Runtimes!TypeOK, Runtimes!RuntimeType
<1>2. ASSUME NEW S \in SUBSET rt.plugins, x5' = Runtimes!ShutDown(rt, S)
      PROVE  /\ x5' \in [Runtimes!Plugin -> [last : {"none", "init", "shutdown"}, of : 0..x11]]
             /\ \A p \in Runtimes!Plugin : x5'[p].last = "init" => x5[p].last = "init" /\ p \notin S
  <2>1. S \in SUBSET Runtimes!Plugin
    BY <1>1
  <2>2. x5' \in [Runtimes!Plugin -> [last : {"none", "init", "shutdown"}, of : 0..x11]]
    BY <1>1, <1>2, <2>1, RuntimeTold
  <2>3. \A p \in Runtimes!Plugin : x5'[p] = IF p \in S THEN [last |-> "shutdown", of |-> rt.id] ELSE x5[p]
    BY <1>2 DEF Runtimes!ShutDown, Runtimes!Told
  <2> QED
    BY <2>2, <2>3
<1>3. CASE /\ x6' = x6 \ {rt.id} /\ x5' = Runtimes!ShutDown(rt, rt.plugins)
           /\ UNCHANGED <<x10, x12>>
  BY <1>1, <1>2, <1>3
<1>4. CASE /\ rt.id # 0 /\ Runtimes!Fault /\ x10' = x10 \union {rt.id}
           /\ \/ x6' = x6 /\ x5' = Runtimes!ShutDown(rt, rt.plugins)
              \/ /\ x6' = x6 \ {rt.id}
                 /\ \E S \in Runtimes!Endings(rt) \ {rt.plugins} : x5' = Runtimes!ShutDown(rt, S)
  <2>1. PICK S \in SUBSET rt.plugins : x5' = Runtimes!ShutDown(rt, S)
    BY <1>4 DEF Runtimes!Endings
  <2>2. /\ x5' \in [Runtimes!Plugin -> [last : {"none", "init", "shutdown"}, of : 0..x11]]
        /\ \A p \in Runtimes!Plugin : x5'[p].last = "init" => x5[p].last = "init" /\ p \notin S
    BY <1>2, <2>1
  <2>3. x12' \in 0..RuntimeFaults
    BY <1>1, <1>4, ProgramAssumption DEF Runtimes!Fault
  <2>4. x10' = x10 \union {rt.id} /\ rt.id # 0 /\ (x6' = x6 \/ x6' = x6 \ {rt.id})
    BY <1>4
  <2>5. rt.id \in 1..x11
    BY <1>1, <2>4
  <2> QED
    BY <1>1, <2>2, <2>3, <2>4, <2>5
<1> QED
  BY <1>3, <1>4 DEF Runtimes!Drop

LEMMA RuntimeDiscard == Runtimes!Inv /\ Runtimes!Discard => Runtimes!Inv'
<1> SUFFICES ASSUME Runtimes!Inv, Runtimes!Discard PROVE Runtimes!Inv'
  OBVIOUS
<1>1. Runtimes!At("discard") /\ "discard" \in Runtimes!Name /\ Runtimes!GoOn
  BY DEF Runtimes!Discard, Runtimes!Name
<1>2. UNCHANGED <<x1, x2, x4, x7, x9, x11>> /\ x3' = Runtimes!NoRuntime
  BY DEF Runtimes!Discard
<1>3. /\ Runtimes!Now(x8.todo) = "discard" /\ Runtimes!Now(x8'.todo) = "quit"
      /\ x8' \in [todo : Seq(Runtimes!Name), target : 0..RuntimeBuilds] /\ x8'.todo \in Runtimes!Rests
  BY <1>1, RuntimeGoes DEF Follows
<1>4. /\ x3' \in Runtimes!RuntimeType /\ x3'.built = FALSE /\ x3 \in Runtimes!RuntimeType
  BY <1>2, RuntimeNone DEF Runtimes!Inv, Runtimes!TypeOK
<1>5. /\ x5' \in [Runtimes!Plugin -> [last : {"none", "init", "shutdown"}, of : 0..x11]]
      /\ x6' \subseteq x6 /\ x10' \subseteq 1..x11 /\ x10 \subseteq x10' /\ x12' \in 0..RuntimeFaults
      /\ x3.built /\ x3.id \in x6' => x3.id \in x10'
      /\ \A p \in Runtimes!Plugin : x5'[p].last = "init" =>
           x5[p].last = "init" /\ ((~x3.built \/ p \notin x3.plugins) \/ x10' # {})
  <2>1. CASE x3.built
    <3>1. Runtimes!Drop(x3)
      BY <2>1 DEF Runtimes!Discard
    <3> QED
      BY <1>4, <2>1, <3>1, RuntimeDrop
  <2>2. CASE ~x3.built
    <3>1. UNCHANGED <<x5, x6, x10, x12>>
      BY <2>2 DEF Runtimes!Discard
    <3> QED
      BY <2>2, <3>1 DEF Runtimes!Inv, Runtimes!TypeOK
  <2> QED
    BY <2>1, <2>2
<1>6. Runtimes!TypeOK'
  BY <1>2, <1>3, <1>4, <1>5 DEF Runtimes!Inv, Runtimes!TypeOK, Runtimes!RuntimeType
<1>7. Runtimes!InTurn'
  BY <1>2, <1>3 DEF Runtimes!Inv, Runtimes!InTurn, Runtimes!Rebuilding, Runtimes!Having, Runtimes!Ending
<1>8. Runtimes!Alive'
  <2>1. Runtimes!Ending /\ ~Runtimes!Rebuilding' /\ ~Runtimes!Having'
    BY <1>3 DEF Runtimes!Ending, Runtimes!Rebuilding, Runtimes!Having
  <2>2. x6 \subseteq x9 \cup x10 \cup {x2.id} \cup (IF x3.built THEN {x3.id} ELSE {})
    BY <2>1 DEF Runtimes!Inv, Runtimes!Alive
  <2>3. x6' \subseteq x9' \cup x10' \cup {x2'.id}
    <3>1. ASSUME NEW r \in x6' PROVE r \in x9 \/ r \in x10' \/ r = x2.id
      <4>1. r \in x9 \/ r \in x10 \/ r = x2.id \/ (x3.built /\ r = x3.id)
        BY <1>5, <2>2
      <4> QED
        BY <1>5, <4>1
    <3> QED
      BY <1>2, <3>1
  <2> QED
    BY <2>1, <2>3 DEF Runtimes!Alive
<1>9. Runtimes!Initializing'
  <2>1. Runtimes!Ending' /\ ~Runtimes!Rebuilding' /\ ~Runtimes!Having'
    BY <1>3 DEF Runtimes!Ending, Runtimes!Rebuilding, Runtimes!Having
  <2>2. ASSUME NEW p \in Runtimes!Plugin, x5'[p].last = "init" PROVE p \in x2'.plugins \/ x9' # {} \/ x10' # {}
    <3>1. x5[p].last = "init" /\ ((~x3.built \/ p \notin x3.plugins) \/ x10' # {})
      BY <1>5, <2>2
    <3>2. p \in x2.plugins \/ (x3.built /\ p \in x3.plugins) \/ x9 # {} \/ x10 # {}
      BY <3>1 DEF Runtimes!Inv, Runtimes!Initializing
    <3> QED
      BY <1>2, <1>5, <3>1, <3>2
  <2> QED
    BY <2>1, <2>2 DEF Runtimes!Initializing
<1>10. Runtimes!OnTheOpened'
  BY <1>3 DEF Runtimes!OnTheOpened, Runtimes!Rebuilding, Runtimes!Having
<1>11. Runtimes!SavedUnderItsName'
  BY <1>2 DEF Runtimes!Inv, Runtimes!SavedUnderItsName
<1> QED
  BY <1>6, <1>7, <1>8, <1>9, <1>10, <1>11 DEF Runtimes!Inv

LEMMA RuntimeQuit == Runtimes!Inv /\ Runtimes!Quit => Runtimes!Inv'
<1> SUFFICES ASSUME Runtimes!Inv, Runtimes!Quit PROVE Runtimes!Inv'
  OBVIOUS
<1>1. /\ Runtimes!At("quit") /\ x8' = [todo |-> <<"ended">>, target |-> 0]
      /\ UNCHANGED <<x1, x3, x4, x7, x9, x11>> /\ x2' = Runtimes!NoRuntime /\ Runtimes!Drop(x2)
  BY DEF Runtimes!Quit
<1>2. /\ Runtimes!Now(x8.todo) = "quit" /\ Runtimes!Now(x8'.todo) = "ended"
      /\ x8' \in [todo : Seq(Runtimes!Name), target : 0..RuntimeBuilds] /\ x8'.todo \in Runtimes!Rests
  <2>1. <<"ended">> \in Seq(Runtimes!Name) /\ <<"ended">> # <<>> /\ Head(<<"ended">>) = "ended"
    BY DEF Runtimes!Name
  <2>2. <<"ended">> \in Runtimes!Rests
    BY Zenon DEF Runtimes!Rests
  <2>3. x8'.todo = <<"ended">>
    BY <1>1
  <2> QED
    BY <1>1, <2>1, <2>2, <2>3, RuntimeNow, ProgramAssumption DEF Runtimes!Now
<1>3. x2' \in Runtimes!RuntimeType /\ x2'.id = 0 /\ x2'.plugins = {} /\ x2 \in Runtimes!RuntimeType
  BY <1>1, RuntimeNone DEF Runtimes!Inv, Runtimes!TypeOK
<1>4. x3 = Runtimes!NoRuntime /\ x3.built = FALSE
  BY <1>2, RuntimeNone DEF Runtimes!Inv, Runtimes!InTurn
<1>5. /\ x5' \in [Runtimes!Plugin -> [last : {"none", "init", "shutdown"}, of : 0..x11]]
      /\ x6' \subseteq x6 /\ x10' \subseteq 1..x11 /\ x10 \subseteq x10' /\ x12' \in 0..RuntimeFaults
      /\ x2.id \in x6' => x2.id \in x10'
      /\ \A p \in Runtimes!Plugin : x5'[p].last = "init" => x5[p].last = "init" /\ (p \notin x2.plugins \/ x10' # {})
  BY <1>1, <1>3, RuntimeDrop
<1>6. Runtimes!TypeOK'
  BY <1>1, <1>2, <1>3, <1>5 DEF Runtimes!Inv, Runtimes!TypeOK, Runtimes!RuntimeType
<1>7. Runtimes!InTurn'
  BY <1>1, <1>2, <1>3, <1>4 DEF Runtimes!InTurn, Runtimes!Rebuilding, Runtimes!Having, Runtimes!Ending
<1>8. Runtimes!Alive'
  BY <1>1, <1>2, <1>4, <1>5 DEF Runtimes!Inv, Runtimes!Alive, Runtimes!Rebuilding, Runtimes!Having, Runtimes!Ending
<1>9. Runtimes!Initializing'
  <2>1. Runtimes!Ending' /\ ~Runtimes!Rebuilding' /\ ~Runtimes!Having'
    BY <1>2 DEF Runtimes!Ending, Runtimes!Rebuilding, Runtimes!Having
  <2>2. ASSUME NEW p \in Runtimes!Plugin, x5'[p].last = "init" PROVE x9' # {} \/ x10' # {}
    <3>1. x5[p].last = "init" /\ (p \notin x2.plugins \/ x10' # {})
      BY <1>5, <2>2
    <3>2. p \in x2.plugins \/ x9 # {} \/ x10 # {}
      BY <1>4, <3>1 DEF Runtimes!Inv, Runtimes!Initializing
    <3> QED
      BY <1>1, <1>5, <3>1, <3>2
  <2> QED
    BY <2>1, <2>2 DEF Runtimes!Initializing
<1>10. Runtimes!OnTheOpened'
  BY <1>2 DEF Runtimes!OnTheOpened, Runtimes!Rebuilding, Runtimes!Having
<1>11. Runtimes!SavedUnderItsName'
  BY <1>1 DEF Runtimes!Inv, Runtimes!SavedUnderItsName
<1> QED
  BY <1>6, <1>7, <1>8, <1>9, <1>10, <1>11 DEF Runtimes!Inv

\* A command that builds a runtime begins at its first step.
LEMMA RuntimeBegin ==
  ASSUME NEW u \in Runtimes!Uses
  PROVE  /\ Runtimes!Build \o u \in Seq(Runtimes!Name) /\ Runtimes!Build \o u \in Runtimes!Rests
         /\ Runtimes!Now(Runtimes!Build \o u) = "load"
         /\ Runtimes!Settles(Runtimes!Build \o u) <=> Runtimes!Settles(u)
<1> DEFINE v == <<"initialize">> \o u
           w == <<"discover", "initialize">> \o u
           t == Runtimes!Build \o u
<1>1. /\ "load" \in Runtimes!Name /\ "discover" \in Runtimes!Name /\ "initialize" \in Runtimes!Name
      /\ "load" # "settle" /\ "discover" # "settle" /\ "initialize" # "settle"
  BY DEF Runtimes!Name
<1>2. t = <<"load">> \o w /\ w = <<"discover">> \o v
  BY RuntimeBuild
<1>3. v \in Seq(Runtimes!Name) /\ (Runtimes!Settles(v) <=> Runtimes!Settles(u))
  BY <1>1, RuntimeUses, RuntimeBefore
<1>4. t \in Runtimes!Rests
  BY Zenon DEF Runtimes!Rests
<1> HIDE DEF v, w, t
<1>5. w \in Seq(Runtimes!Name) /\ (Runtimes!Settles(w) <=> Runtimes!Settles(v))
  BY <1>1, <1>2, <1>3, RuntimeBefore, Zenon
<1>6. /\ t \in Seq(Runtimes!Name) /\ t # <<>> /\ Head(t) = "load"
      /\ Runtimes!Settles(t) <=> Runtimes!Settles(w)
  BY <1>1, <1>2, <1>5, RuntimeBefore, Zenon
<1>7. Runtimes!Now(t) = "load"
  BY <1>6 DEF Runtimes!Now
<1> QED
  BY <1>3, <1>4, <1>5, <1>6, <1>7 DEF t

LEMMA RuntimeRebuild ==
  ASSUME Runtimes!Inv, Runtimes!Idle,
         NEW s \in Runtimes!Conversation, NEW m \in RuntimeModes, NEW target \in 0..RuntimeBuilds,
         NEW u \in Runtimes!Uses, Runtimes!Rebuild(s, m, target, u),
         x1' \in [session : 0..RuntimeBuilds, mode : RuntimeModes, effort : Runtimes!Efforts], x1'.mode = m,
         x4' \subseteq Runtimes!Plugin, x7' \in [Runtimes!Conversation -> Runtimes!Conversation],
         Runtimes!SavedUnderItsName',
         s = IF Runtimes!Settles(u) THEN target ELSE x1'.session
  PROVE  Runtimes!Inv'
<1>1. /\ x11 < RuntimeBuilds /\ x11' = x11 + 1 /\ x3' = Runtimes!Runtime(x11 + 1, s, m)
      /\ x8' = [todo |-> Runtimes!Build \o u, target |-> target]
      /\ UNCHANGED <<x2, x5, x6, x9, x10, x12>>
  BY DEF Runtimes!Rebuild
<1>2. /\ x8'.todo = Runtimes!Build \o u /\ x8'.target = target
      /\ x8' \in [todo : Seq(Runtimes!Name), target : 0..RuntimeBuilds] /\ x8'.todo \in Runtimes!Rests
      /\ Runtimes!Now(x8'.todo) = "load" /\ (Runtimes!Settles(x8'.todo) <=> Runtimes!Settles(u))
  <2>1. PICK t : t = Runtimes!Build \o u
    OBVIOUS
  <2>2. /\ t \in Seq(Runtimes!Name) /\ t \in Runtimes!Rests
        /\ Runtimes!Now(t) = "load" /\ (Runtimes!Settles(t) <=> Runtimes!Settles(u))
    BY <2>1, RuntimeBegin, Zenon
  <2>3. x8' = [todo |-> t, target |-> target]
    BY <1>1, <2>1, Zenon
  <2>4. x8'.todo = t /\ x8'.target = target
    BY <2>3
  <2>5. x8' \in [todo : Seq(Runtimes!Name), target : 0..RuntimeBuilds]
    BY <2>2, <2>3
  <2>6. /\ x8'.todo \in Runtimes!Rests /\ Runtimes!Now(x8'.todo) = "load"
        /\ Runtimes!Settles(x8'.todo) <=> Runtimes!Settles(u)
    <3>1. x8'.todo \in Runtimes!Rests
      BY <2>2, <2>4
    <3>2. Runtimes!Now(x8'.todo) = "load"
      BY <2>2, <2>4
    <3>3. Runtimes!Settles(x8'.todo) <=> Runtimes!Settles(u)
      BY <2>2, <2>4
    <3> QED
      BY <3>1, <3>2, <3>3
  <2>7. x8'.todo = Runtimes!Build \o u
    BY <2>1, <2>4, Zenon
  <2> QED
    BY <2>4, <2>5, <2>6, <2>7, Zenon
<1>3. /\ Runtimes!Now(x8.todo) = "idle" /\ Runtimes!Having /\ ~Runtimes!Ending /\ ~Runtimes!Rebuilding
      /\ Runtimes!Rebuilding' /\ ~Runtimes!Having' /\ ~Runtimes!Ending'
  BY <1>2 DEF Runtimes!Idle, Runtimes!Now, Runtimes!Having, Runtimes!Ending, Runtimes!Rebuilding
<1>4. /\ x11 \in 1..RuntimeBuilds /\ x2.id = x11 /\ x3.built = FALSE
  BY <1>3, RuntimeNone DEF Runtimes!Inv, Runtimes!TypeOK, Runtimes!InTurn
<1>5. /\ x3'.id = x11 + 1 /\ x3'.built = FALSE /\ x3'.session = s /\ x3'.mode = m /\ x3'.plugins = {}
      /\ x3' \in Runtimes!RuntimeType'
  BY <1>1, <1>4 DEF Runtimes!Runtime, Runtimes!RuntimeType, Runtimes!Efforts
<1>6. Runtimes!TypeOK'
  <2>1. /\ 0..x11 \subseteq 0..x11' /\ 1..x11 \subseteq 1..x11' /\ x11' \in 1..RuntimeBuilds
    BY <1>1, <1>4, ProgramAssumption
  <2>2. x2' \in Runtimes!RuntimeType'
    BY <1>1, <2>1 DEF Runtimes!Inv, Runtimes!TypeOK, Runtimes!RuntimeType
  <2>3. x5' \in [Runtimes!Plugin -> [last : {"none", "init", "shutdown"}, of : 0..x11']]
    BY <1>1, <2>1 DEF Runtimes!Inv, Runtimes!TypeOK
  <2>4. /\ x6' \subseteq 1..x11' /\ x10' \subseteq 1..x11' /\ x9' \subseteq 1..x11' /\ x12' \in 0..RuntimeFaults
    BY <1>1, <2>1 DEF Runtimes!Inv, Runtimes!TypeOK
  <2> QED
    BY <1>2, <1>5, <2>1, <2>2, <2>3, <2>4 DEF Runtimes!TypeOK
<1>7. Runtimes!InTurn'
  BY <1>1, <1>2, <1>3, <1>4, <1>5 DEF Runtimes!Inv, Runtimes!InTurn
<1>8. Runtimes!Alive'
  BY <1>1, <1>2, <1>3, <1>4 DEF Runtimes!Inv, Runtimes!Alive
<1>9. Runtimes!Initializing'
  BY <1>1, <1>2, <1>3, <1>4, <1>5 DEF Runtimes!Inv, Runtimes!Initializing
<1>10. Runtimes!OnTheOpened'
  BY <1>2, <1>3, <1>5 DEF Runtimes!OnTheOpened, Runtimes!Opened
<1> QED
  BY <1>6, <1>7, <1>8, <1>9, <1>10 DEF Runtimes!Inv

\* Which of them take a session at their end.
LEMMA RuntimeCommands ==
  /\ <<"run", "replace", "persist">> \in Runtimes!Uses /\ ~Runtimes!Settles(<<"run", "replace", "persist">>)
  /\ <<"replace", "persist">> \in Runtimes!Uses /\ ~Runtimes!Settles(<<"replace", "persist">>)
  /\ <<"replace", "persist", "effort">> \in Runtimes!Uses /\ ~Runtimes!Settles(<<"replace", "persist", "effort">>)
  /\ <<"replace", "settle", "persist">> \in Runtimes!Uses /\ Runtimes!Settles(<<"replace", "settle", "persist">>)
<1>1. /\ ~Runtimes!Settles(<<"run", "replace", "persist">>) /\ ~Runtimes!Settles(<<"replace", "persist">>)
      /\ ~Runtimes!Settles(<<"replace", "persist", "effort">>)
  BY DEF Runtimes!Settles
<1>2. Runtimes!Settles(<<"replace", "settle", "persist">>)
  <2>1. 2 \in DOMAIN <<"replace", "settle", "persist">> /\ <<"replace", "settle", "persist">>[2] = "settle"
    OBVIOUS
  <2> QED
    BY <2>1, Zenon DEF Runtimes!Settles
<1> QED
  BY <1>1, <1>2, Zenon DEF Runtimes!Uses

\* Between two commands.
LEMMA RuntimeIdle ==
  ASSUME Runtimes!Inv, Runtimes!Idle
  PROVE  /\ x1 \in [session : 0..RuntimeBuilds, mode : RuntimeModes, effort : Runtimes!Efforts]
         /\ x1.session \in Runtimes!Conversation /\ x1.session # Runtimes!None
         /\ x2.session = x1.session /\ x2.mode = x1.mode /\ x11 \in 1..RuntimeBuilds
         /\ 0 \in 0..RuntimeBuilds /\ x11 \in 0..RuntimeBuilds /\ x11 \in Runtimes!Conversation
         /\ x4 \subseteq Runtimes!Plugin /\ x7 \in [Runtimes!Conversation -> Runtimes!Conversation]
         /\ Runtimes!SavedUnderItsName
<1>1. ~Runtimes!Settles(<<>>)
  BY DEF Runtimes!Settles
<1>2. x8.todo = <<>> /\ Runtimes!Having
  BY DEF Runtimes!Idle, Runtimes!Having, Runtimes!Now
<1>3. x2.session = x1.session /\ x2.mode = x1.mode
  BY <1>1, <1>2 DEF Runtimes!Inv, Runtimes!OnTheOpened, Runtimes!Opened
<1>4. /\ x1 \in [session : 0..RuntimeBuilds, mode : RuntimeModes, effort : Runtimes!Efforts]
      /\ x11 \in 1..RuntimeBuilds /\ x4 \subseteq Runtimes!Plugin
      /\ x7 \in [Runtimes!Conversation -> Runtimes!Conversation] /\ Runtimes!SavedUnderItsName
  BY DEF Runtimes!Inv, Runtimes!TypeOK
<1>5. x1.session \in 0..RuntimeBuilds
  BY <1>4
<1>6. x1.session \in Runtimes!Conversation /\ x1.session # Runtimes!None
  BY <1>5, ProgramAssumption DEF Runtimes!Conversation, Runtimes!None
<1>7. 0 \in 0..RuntimeBuilds /\ x11 \in 0..RuntimeBuilds
  BY <1>4, ProgramAssumption
<1>8. x11 \in Runtimes!Conversation
  BY <1>4, ProgramAssumption DEF Runtimes!Conversation
<1> QED
  BY <1>3, <1>4, <1>6, <1>7, <1>8

LEMMA RuntimeTurn == Runtimes!Inv /\ Runtimes!Turn => Runtimes!Inv'
<1> SUFFICES ASSUME Runtimes!Inv, Runtimes!Turn PROVE Runtimes!Inv'
  OBVIOUS
<1>1. /\ Runtimes!Idle /\ Runtimes!Rebuild(x2.session, x1.mode, 0, <<"run", "replace", "persist">>)
      /\ UNCHANGED <<x1, x4, x7>>
  BY DEF Runtimes!Turn
<1>2. Runtimes!SavedUnderItsName'
  BY <1>1, RuntimeIdle DEF Runtimes!SavedUnderItsName
<1> QED
  BY <1>1, <1>2, RuntimeIdle, RuntimeCommands, RuntimeRebuild

LEMMA RuntimePermissions == Runtimes!Inv /\ Runtimes!SetPermissions => Runtimes!Inv'
<1> SUFFICES ASSUME Runtimes!Inv, Runtimes!SetPermissions PROVE Runtimes!Inv'
  OBVIOUS
<1>1. Runtimes!Idle /\ UNCHANGED <<x4, x7>>
  BY DEF Runtimes!SetPermissions
<1>2. PICK m \in RuntimeModes :
        /\ x1' = [x1 EXCEPT !.mode = m]
        /\ Runtimes!Rebuild(x2.session, m, 0, <<"replace", "persist">>)
  BY DEF Runtimes!SetPermissions
<1>3. Runtimes!SavedUnderItsName'
  BY <1>1, RuntimeIdle DEF Runtimes!SavedUnderItsName
<1>4. /\ x1' \in [session : 0..RuntimeBuilds, mode : RuntimeModes, effort : Runtimes!Efforts]
      /\ x1'.mode = m /\ x1'.session = x1.session
  BY <1>1, <1>2, RuntimeIdle
<1> QED
  BY <1>1, <1>2, <1>3, <1>4, RuntimeIdle, RuntimeCommands, RuntimeRebuild

LEMMA RuntimeClear == Runtimes!Inv /\ Runtimes!ClearSession => Runtimes!Inv'
<1> SUFFICES ASSUME Runtimes!Inv, Runtimes!ClearSession PROVE Runtimes!Inv'
  OBVIOUS
<1>1. /\ Runtimes!Idle /\ UNCHANGED <<x4, x7>> /\ x1' = [x1 EXCEPT !.session = x11]
      /\ Runtimes!Rebuild(x11, x1.mode, 0, <<"replace", "persist">>)
  BY DEF Runtimes!ClearSession
<1>3. Runtimes!SavedUnderItsName'
  BY <1>1, RuntimeIdle DEF Runtimes!SavedUnderItsName
<1>2. x11 \in Runtimes!Conversation
  BY <1>1, RuntimeIdle
<1>4. /\ x1' \in [session : 0..RuntimeBuilds, mode : RuntimeModes, effort : Runtimes!Efforts]
      /\ x1'.mode = x1.mode /\ x1'.session = x11
  BY <1>1, RuntimeIdle
<1> QED
  BY <1>1, <1>2, <1>3, <1>4, RuntimeIdle, RuntimeCommands, RuntimeRebuild

LEMMA RuntimeResume == Runtimes!Inv /\ Runtimes!ResumeSession => Runtimes!Inv'
<1> SUFFICES ASSUME Runtimes!Inv, Runtimes!ResumeSession PROVE Runtimes!Inv'
  OBVIOUS
<1>1. Runtimes!Idle /\ UNCHANGED <<x1, x4, x7>>
  BY DEF Runtimes!ResumeSession
<1>2. PICK s \in Runtimes!Conversation \ {Runtimes!None} :
        /\ x7[s] # Runtimes!None
        /\ Runtimes!Rebuild(x7[s], x1.mode, s, <<"replace", "settle", "persist">>)
  BY DEF Runtimes!ResumeSession
<1>3. Runtimes!SavedUnderItsName'
  BY <1>1, RuntimeIdle DEF Runtimes!SavedUnderItsName
<1>4. x7[s] = s
  BY <1>1, <1>2, RuntimeIdle DEF Runtimes!SavedUnderItsName
<1>5. s \in 0..RuntimeBuilds /\ s \in Runtimes!Conversation
  BY <1>2, ProgramAssumption DEF Runtimes!Conversation, Runtimes!None
<1>6. Runtimes!Rebuild(s, x1.mode, s, <<"replace", "settle", "persist">>)
  BY <1>2, <1>4, Zenon
<1> QED
  BY <1>1, <1>3, <1>5, <1>6, RuntimeIdle, RuntimeCommands, RuntimeRebuild

LEMMA RuntimeFork == Runtimes!Inv /\ Runtimes!ForkSession => Runtimes!Inv'
<1> SUFFICES ASSUME Runtimes!Inv, Runtimes!ForkSession PROVE Runtimes!Inv'
  OBVIOUS
<1>1. /\ Runtimes!Idle /\ UNCHANGED <<x1, x4>> /\ x7' = [x7 EXCEPT ![x11] = x11]
      /\ Runtimes!Rebuild(x11, x1.mode, x11, <<"replace", "settle", "persist">>)
  BY DEF Runtimes!ForkSession
<1>2. x11 \in Runtimes!Conversation /\ x11 \in 0..RuntimeBuilds
  BY <1>1, RuntimeIdle
<1>3. Runtimes!SavedUnderItsName' /\ x7' \in [Runtimes!Conversation -> Runtimes!Conversation]
  BY <1>1, <1>2, RuntimeIdle DEF Runtimes!SavedUnderItsName
<1> QED
  BY <1>1, <1>2, <1>3, RuntimeIdle, RuntimeCommands, RuntimeRebuild

LEMMA RuntimeReload == Runtimes!Inv /\ Runtimes!ReloadFeatures => Runtimes!Inv'
<1> SUFFICES ASSUME Runtimes!Inv, Runtimes!ReloadFeatures PROVE Runtimes!Inv'
  OBVIOUS
<1>1. /\ Runtimes!Idle /\ UNCHANGED <<x1, x7>> /\ x4' \subseteq Runtimes!Plugin
      /\ Runtimes!Rebuild(x2.session, x1.mode, 0, <<"replace", "persist">>)
  BY DEF Runtimes!ReloadFeatures
<1>2. Runtimes!SavedUnderItsName'
  BY <1>1, RuntimeIdle DEF Runtimes!SavedUnderItsName
<1> QED
  BY <1>1, <1>2, RuntimeIdle, RuntimeCommands, RuntimeRebuild

LEMMA RuntimeExit == Runtimes!Inv /\ Runtimes!Exit => Runtimes!Inv'
<1> SUFFICES ASSUME Runtimes!Inv, Runtimes!Exit PROVE Runtimes!Inv'
  OBVIOUS
<1>1. Runtimes!Idle /\ UNCHANGED <<x1, x2, x3, x4, x5, x6, x7, x9, x10, x11, x12>>
  BY DEF Runtimes!Exit
<1>2. /\ x8'.todo \in Runtimes!Rests /\ ~Runtimes!Settles(x8'.todo)
      /\ x8' \in [todo : Seq(Runtimes!Name), target : 0..RuntimeBuilds]
      /\ Runtimes!Now(x8'.todo) \in {"persist", "quit"}
  <2>1. /\ <<"persist", "quit">> \in Runtimes!Rests /\ <<"quit">> \in Runtimes!Rests
    BY Zenon DEF Runtimes!Rests
  <2>2. /\ <<"persist", "quit">> \in Seq(Runtimes!Name) /\ <<"quit">> \in Seq(Runtimes!Name)
        /\ 0 \in 0..RuntimeBuilds
    BY ProgramAssumption DEF Runtimes!Name
  <2>3. CASE x8' = [todo |-> <<"persist", "quit">>, target |-> 0]
    BY <2>1, <2>2, <2>3 DEF Runtimes!Settles, Runtimes!Now
  <2>4. CASE x8' = [todo |-> <<"quit">>, target |-> 0]
    BY <2>1, <2>2, <2>4 DEF Runtimes!Settles, Runtimes!Now
  <2> QED
    BY <2>3, <2>4 DEF Runtimes!Exit
<1>3. /\ Runtimes!Having /\ ~Runtimes!Ending /\ ~Runtimes!Rebuilding /\ ~Runtimes!Rebuilding'
      /\ Runtimes!Having' \/ (Runtimes!Ending' /\ Runtimes!Now(x8'.todo) = "quit")
      /\ Runtimes!Having' => ~Runtimes!Ending'
  BY <1>1, <1>2 DEF Runtimes!Idle, Runtimes!Now, Runtimes!Having, Runtimes!Ending, Runtimes!Rebuilding
<1>4. Runtimes!TypeOK'
  BY <1>1, <1>2 DEF Runtimes!Inv, Runtimes!TypeOK, Runtimes!RuntimeType
<1>5. Runtimes!InTurn'
  BY <1>1, <1>2, <1>3 DEF Runtimes!Inv, Runtimes!InTurn
<1>6. Runtimes!Alive'
  BY <1>1, <1>3 DEF Runtimes!Inv, Runtimes!Alive
<1>7. Runtimes!Initializing'
  BY <1>1, <1>3 DEF Runtimes!Inv, Runtimes!Initializing
<1>8. Runtimes!OnTheOpened'
  BY <1>1, <1>2, <1>3, RuntimeIdle DEF Runtimes!OnTheOpened, Runtimes!Opened
<1>9. Runtimes!SavedUnderItsName'
  BY <1>1 DEF Runtimes!Inv, Runtimes!SavedUnderItsName
<1> QED
  BY <1>4, <1>5, <1>6, <1>7, <1>8, <1>9 DEF Runtimes!Inv

LEMMA RuntimeInit == Runtimes!Init => Runtimes!Inv
<1> SUFFICES ASSUME Runtimes!Init PROVE Runtimes!Inv
  OBVIOUS
<1>1. PICK m \in RuntimeModes, e \in Runtimes!Efforts :
        x1 = [session |-> 0, mode |-> m, effort |-> e] /\ x3 = Runtimes!Runtime(1, 0, m)
  BY DEF Runtimes!Init
<1>2. /\ x2 = Runtimes!NoRuntime /\ x4 \subseteq Runtimes!Plugin
      /\ x5 = [p \in Runtimes!Plugin |-> [last |-> "none", of |-> 0]]
      /\ x6 = {} /\ x7 = [s \in Runtimes!Conversation |-> Runtimes!None]
      /\ x8 = [todo |-> Runtimes!Build \o <<"replace", "persist", "effort">>, target |-> 0]
      /\ x9 = {} /\ x10 = {} /\ x11 = 1 /\ x12 = 0
  BY DEF Runtimes!Init
<1>3. /\ x8 \in [todo : Seq(Runtimes!Name), target : 0..RuntimeBuilds] /\ x8.todo \in Runtimes!Rests
      /\ Runtimes!Now(x8.todo) = "load" /\ ~Runtimes!Settles(x8.todo)
  <2>1. PICK t : t = Runtimes!Build \o <<"replace", "persist", "effort">>
    OBVIOUS
  <2>2. /\ t \in Seq(Runtimes!Name) /\ t \in Runtimes!Rests
        /\ Runtimes!Now(t) = "load" /\ ~Runtimes!Settles(t)
    BY <2>1, RuntimeCommands, RuntimeBegin, Zenon
  <2>3. x8 = [todo |-> t, target |-> 0]
    BY <1>2, <2>1, Zenon
  <2>4. x8.todo = t
    BY <2>3
  <2>5. x8 \in [todo : Seq(Runtimes!Name), target : 0..RuntimeBuilds]
    BY <2>2, <2>3, ProgramAssumption
  <2>6. x8.todo \in Runtimes!Rests /\ Runtimes!Now(x8.todo) = "load" /\ ~Runtimes!Settles(x8.todo)
    BY <2>2, <2>4
  <2> QED
    BY <2>5, <2>6
<1>4. /\ Runtimes!Rebuilding /\ ~Runtimes!Having /\ ~Runtimes!Ending
  BY <1>3 DEF Runtimes!Having, Runtimes!Ending, Runtimes!Rebuilding
<1>5. /\ x3.id = 1 /\ x3.built = FALSE /\ x3.session = 0 /\ x3.mode = m /\ x3.plugins = {}
      /\ x3 \in Runtimes!RuntimeType
  BY <1>1, <1>2, ProgramAssumption DEF Runtimes!Runtime, Runtimes!RuntimeType, Runtimes!Efforts, Runtimes!Conversation
<1>6. x2 \in Runtimes!RuntimeType /\ x2.id = 0 /\ x2.plugins = {}
  <2>1. (CHOOSE n \in RuntimeModes : TRUE) \in RuntimeModes
    BY <1>1
  <2> QED
    BY <1>2, <2>1, ProgramAssumption DEF Runtimes!NoRuntime, Runtimes!Runtime, Runtimes!RuntimeType, Runtimes!None,
       Runtimes!Conversation, Runtimes!Efforts
<1>7. Runtimes!TypeOK
  <2>1. x1 \in [session : 0..RuntimeBuilds, mode : RuntimeModes, effort : Runtimes!Efforts]
    BY <1>1, ProgramAssumption
  <2>2. x5 \in [Runtimes!Plugin -> [last : {"none", "init", "shutdown"}, of : 0..x11]]
    BY <1>2
  <2>3. x7 \in [Runtimes!Conversation -> Runtimes!Conversation]
    BY <1>2, ProgramAssumption DEF Runtimes!Conversation, Runtimes!None
  <2>4. x11 \in 1..RuntimeBuilds /\ x12 \in 0..RuntimeFaults
    BY <1>2, ProgramAssumption
  <2> QED
    BY <1>2, <1>3, <1>5, <1>6, <2>1, <2>2, <2>3, <2>4 DEF Runtimes!TypeOK
<1>8. Runtimes!InTurn
  BY <1>2, <1>3, <1>4, <1>5, <1>6 DEF Runtimes!InTurn
<1>9. Runtimes!Alive
  BY <1>2, <1>3, <1>4, <1>6 DEF Runtimes!Alive
<1>10. Runtimes!Initializing
  BY <1>2, <1>3, <1>4, <1>5 DEF Runtimes!Initializing
<1>11. Runtimes!OnTheOpened
  BY <1>1, <1>3, <1>4, <1>5 DEF Runtimes!OnTheOpened, Runtimes!Opened
<1>12. Runtimes!SavedUnderItsName
  BY <1>2 DEF Runtimes!SavedUnderItsName
<1> QED
  BY <1>7, <1>8, <1>9, <1>10, <1>11, <1>12 DEF Runtimes!Inv

LEMMA RuntimeStep == Runtimes!Inv /\ [Runtimes!Next]_(Runtimes!vars) => Runtimes!Inv'
<1> SUFFICES ASSUME Runtimes!Inv, [Runtimes!Next]_(Runtimes!vars) PROVE Runtimes!Inv'
  OBVIOUS
<1>1. CASE UNCHANGED Runtimes!vars
  <2>1. UNCHANGED <<x1, x2, x3, x4, x5, x6, x7, x8, x9, x10, x11, x12>>
    BY <1>1 DEF Runtimes!vars
  <2>2. Runtimes!TypeOK' /\ Runtimes!SavedUnderItsName'
    BY <2>1 DEF Runtimes!Inv, Runtimes!TypeOK, Runtimes!RuntimeType, Runtimes!SavedUnderItsName
  <2>3. Runtimes!InTurn' /\ Runtimes!Alive'
    BY <2>1 DEF Runtimes!Inv, Runtimes!InTurn, Runtimes!Alive, Runtimes!Rebuilding, Runtimes!Having, Runtimes!Ending
  <2>4. Runtimes!Initializing' /\ Runtimes!OnTheOpened'
    BY <2>1 DEF Runtimes!Inv, Runtimes!Initializing, Runtimes!OnTheOpened, Runtimes!Opened, Runtimes!Rebuilding,
       Runtimes!Having, Runtimes!Ending
  <2> QED
    BY <2>2, <2>3, <2>4 DEF Runtimes!Inv
<1> QED
  BY <1>1, RuntimeLoad, RuntimeDiscover, RuntimeInitialize, RuntimeRunTurn, RuntimeReplace, RuntimeSettle,
     RuntimePersist, RuntimeSetEffort, RuntimeDiscard, RuntimeQuit, RuntimeTurn, RuntimePermissions, RuntimeClear,
     RuntimeResume, RuntimeFork, RuntimeReload, RuntimeExit DEF Runtimes!Next

LEMMA RuntimeSound == Runtimes!Inv => Runtimes!TypeOK /\ Runtimes!RuntimesSound
<1> SUFFICES ASSUME Runtimes!Inv PROVE Runtimes!TypeOK /\ Runtimes!RuntimesSound
  OBVIOUS
<1>1. Runtimes!TurnFindsItsRuntime
  <2> SUFFICES ASSUME Runtimes!At("run")
               PROVE  /\ x3.session = x1.session /\ x3.mode = x1.mode /\ x3.id \in x6
                      /\ \A p \in x4 : x5[p] = [last |-> "init", of |-> x3.id]
    BY DEF Runtimes!TurnFindsItsRuntime
  <2>1. /\ Runtimes!Now(x8.todo) = "run" /\ Head(x8.todo) = "run"
        /\ x8.todo # <<>> /\ x8.todo \in Runtimes!Rests
    BY RuntimeNow DEF Runtimes!At, Runtimes!Inv, Runtimes!InTurn
  <2>2. ~Runtimes!Settles(x8.todo)
    BY <2>1, RuntimeRests DEF OneOfRests, Follows
  <2>3. Runtimes!Rebuilding /\ x3.built
    BY <2>1 DEF Runtimes!Inv, Runtimes!InTurn, Runtimes!Rebuilding
  <2>4. x3.session = x1.session /\ x3.mode = x1.mode
    BY <2>2, <2>3 DEF Runtimes!Inv, Runtimes!OnTheOpened, Runtimes!Opened
  <2>5. x3.id \in x6
    BY <2>1, <2>3 DEF Runtimes!Inv, Runtimes!Alive
  <2>6. \A p \in x4 : x5[p] = [last |-> "init", of |-> x3.id]
    BY <2>1, <2>3 DEF Runtimes!Inv, Runtimes!Initializing
  <2> QED
    BY <2>4, <2>5, <2>6
<1>2. Runtimes!IdleHasOneRuntime
  <2> SUFFICES ASSUME Runtimes!Idle
               PROVE  /\ x6 \ x10 = {x2.id} /\ x3 = Runtimes!NoRuntime
                      /\ x2.session = x1.session /\ x2.mode = x1.mode
                      /\ \A p \in Runtimes!Plugin \ x4 : x5[p].last # "init"
    BY DEF Runtimes!IdleHasOneRuntime
  <2>1. Runtimes!Having /\ ~Runtimes!Ending
    BY DEF Runtimes!Idle, Runtimes!Now, Runtimes!Having, Runtimes!Ending
  <2>2. x6 \ x10 = {x2.id} /\ x3 = Runtimes!NoRuntime
    BY <2>1 DEF Runtimes!Inv, Runtimes!Alive, Runtimes!InTurn
  <2>3. x3.built = FALSE
    BY <2>2, RuntimeNone
  <2>4. \A p \in Runtimes!Plugin \ x4 : x5[p].last # "init"
    BY <2>1, <2>3 DEF Runtimes!Inv, Runtimes!Initializing
  <2> QED
    BY <2>2, <2>4, RuntimeIdle
<1>3. Runtimes!EndedIsQuiet
  <2> SUFFICES ASSUME Runtimes!At("ended")
               PROVE  /\ x6 \subseteq x9 \union x10
                      /\ \A p \in Runtimes!Plugin : x5[p].last = "init" => x9 # {} \/ x10 # {}
    BY DEF Runtimes!EndedIsQuiet
  <2>1. Runtimes!Now(x8.todo) = "ended" /\ Runtimes!Ending
    BY RuntimeNow DEF Runtimes!Ending
  <2>2. x2.id = 0 /\ x2.plugins = {} /\ x3.built = FALSE
    BY <2>1, RuntimeNone DEF Runtimes!Inv, Runtimes!InTurn
  <2>3. x6 \subseteq x9 \union x10
    BY <2>1, <2>2 DEF Runtimes!Inv, Runtimes!Alive, Runtimes!TypeOK
  <2> QED
    BY <2>2, <2>3 DEF Runtimes!Inv, Runtimes!Initializing
<1> QED
  BY <1>1, <1>2, <1>3 DEF Runtimes!Inv, Runtimes!RuntimesSound

(* A turn runs on the conversation and the mode chosen last with its       *)
(* servers and plugins up, between commands there is one runtime, a        *)
(* program that ended leaves only what could not be stopped, and no        *)
(* conversation is saved under another one's name, whatever failed.        *)
THEOREM RuntimesCorrect == ProgramSpec => []RuntimesSound
<1>1. ProgramInit /\ part = "runtimes" => Runtimes!Inv
  BY RuntimeInit DEF ProgramInit
<1>2. part = "runtimes" /\ [ProgramNext]_all => (part = "runtimes")' /\ [Runtimes!Next]_(Runtimes!vars)
  BY DEF ProgramNext, all, from10, from11, from13, from14, from15, from16, from18, Runtimes!vars
<1>3. ~(part = "runtimes") /\ [ProgramNext]_all => (~(part = "runtimes"))'
  BY DEF ProgramNext, all, from10, from11, from13, from14, from15, from16, from18
<1>4. Runtimes!Inv => RuntimesSound
  BY RuntimeSound DEF RuntimesSound
<1>5. ~(part = "runtimes") => RuntimesSound
  BY DEF RuntimesSound
<1> QED
  BY <1>1, <1>2, <1>3, <1>4, <1>5, RuntimeStep, PTL DEF ProgramSpec

===============================================================================
