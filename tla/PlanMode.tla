------------------------------- MODULE PlanMode -------------------------------
(***************************************************************************)
(* EnterPlanMode and ExitPlanMode of tools/src/lib.rs: plan mode is a      *)
(* value of permissions.defaultMode in the settings of the worktree, and a *)
(* second file records which value it replaced, to be restored on exit.    *)
(*                                                                         *)
(* Both files are written in place, one after the other, and the program   *)
(* may end between two steps or within one.  Meanwhile a sub-agent's       *)
(* thread may use Config on the same settings, and the user may edit them. *)
(***************************************************************************)
EXTENDS Naturals, Sequences

CONSTANTS
  Modes,     \* values of defaultMode besides "plan"
  MaxOps,    \* bound: calls of the two tools
  MaxEdits,  \* bound: calls of Config and edits by the user
  MaxCuts    \* bound: times the program ends within a call

VARIABLES
  settings,   \* settings.local.json: can it be read, and its defaultMode
  record,     \* plan-mode.json: can it be read, and the mode it remembers
  tool,       \* the call in progress: its name, what it read, what is left to do
  config,     \* a call of Config in a sub-agent that has read the settings
  own,        \* the mode the user, or Config, set last; "taken" is below
  disturbed,  \* a write was cut off, or met one of another thread
  ops, edits, cuts

vars == <<settings, record, tool, config, own, disturbed, ops, edits, cuts>>

\* "absent" is a settings file without the value.
Mode == Modes \cup {"plan", "absent"}

\* Plan mode that was set while a record exists: the tools take it for their own.
OwnMode == Mode \cup {"taken"}
Owned(m) == IF m = "plan" /\ record.state = "read" THEN "taken" ELSE m

NoTool == [name |-> "none", mode |-> "absent", todo |-> <<>>, result |-> "none"]
NoConfig == [busy |-> FALSE, mode |-> "absent", sets |-> FALSE]
NoRecord == [state |-> "empty", mode |-> "absent"]

Init ==
  /\ \E m \in Mode : settings = [state |-> "read", mode |-> m] /\ own = m
  /\ record = NoRecord
  /\ tool = NoTool /\ config = NoConfig /\ disturbed = FALSE
  /\ ops = 0 /\ edits = 0 /\ cuts = 0

-----------------------------------------------------------------------------
(* What a call decides from the two files, as the steps that are left.     *)

Doc == IF settings.state = "read" THEN settings.mode ELSE "absent"
Recorded == record.state = "read"

\* Mutant of EnterSteps: the settings change before the old value is on record.
EnterStepsEager ==
  IF Doc = "plan" THEN <<>>
  ELSE IF Recorded THEN <<"clear", "set", "record">> ELSE <<"set", "record">>

\* execute_enter_plan_mode: a plan mode that is there already is left alone.
EnterSteps ==
  IF Doc = "plan" THEN <<>>
  ELSE IF Recorded THEN <<"clear", "record", "set">> ELSE <<"record", "set">>

\* Mutant of ExitSteps: the record is removed before the mode is restored.
ExitStepsEager ==
  IF ~Recorded THEN <<>> ELSE IF Doc # "plan" THEN <<"clear">> ELSE <<"clear", "restore">>

\* Mutant of ExitSteps: an outside change is taken for the tool's own.
ExitStepsBlind == IF ~Recorded THEN <<>> ELSE <<"restore", "clear">>

\* execute_exit_plan_mode: nothing on record, a record that is stale, or the old mode back.
ExitSteps ==
  IF ~Recorded THEN <<>> ELSE IF Doc # "plan" THEN <<"clear">> ELSE <<"restore", "clear">>

\* A file that does not parse is an error, before anything is changed.
Unreadable == "garbled" \in {settings.state, record.state}

Call ==
  /\ tool.name = "none" \/ tool.result # "none"
  /\ ops < MaxOps /\ ops' = ops + 1
  /\ \E name \in {"enter", "exit"} :
       tool' = IF Unreadable THEN [NoTool EXCEPT !.name = name, !.result = "error"]
               ELSE [name |-> name, result |-> "none",
                     mode |-> IF name = "enter" THEN Doc ELSE record.mode,
                     todo |-> IF name = "enter" THEN EnterSteps ELSE ExitSteps]
  /\ UNCHANGED <<settings, record, config, own, disturbed, edits, cuts>>

Busy == tool.name # "none" /\ tool.result = "none"
At(step) == Busy /\ tool.todo # <<>> /\ Head(tool.todo) = step
GoOn == tool' = [tool EXCEPT !.todo = Tail(@)]
Settings(m) == settings' = [state |-> "read", mode |-> m]

\* write_plan_mode_state and clear_plan_mode_state.
Record ==
  /\ At("record") /\ GoOn /\ record' = [state |-> "read", mode |-> tool.mode]
  /\ UNCHANGED <<settings, config, own, disturbed, ops, edits, cuts>>

Clear ==
  /\ At("clear") /\ GoOn /\ record' = NoRecord
  /\ UNCHANGED <<settings, config, own, disturbed, ops, edits, cuts>>

Set ==
  /\ At("set") /\ GoOn /\ Settings("plan")
  /\ UNCHANGED <<record, config, own, disturbed, ops, edits, cuts>>

\* set_nested_value or, when there was no value, remove_nested_value.
Restore ==
  /\ At("restore") /\ GoOn /\ Settings(tool.mode)
  /\ UNCHANGED <<record, config, own, disturbed, ops, edits, cuts>>

Done ==
  /\ Busy /\ tool.todo = <<>>
  /\ tool' = [tool EXCEPT !.result = "ok"]
  /\ UNCHANGED <<settings, record, config, own, disturbed, ops, edits, cuts>>

\* The program ends: before the next step, or within it, which leaves half a file.
Crash ==
  /\ Busy /\ cuts < MaxCuts /\ cuts' = cuts + 1
  /\ tool' = NoTool /\ config' = NoConfig
  /\ \/ UNCHANGED <<settings, record, disturbed>>
     \/ /\ At("set") \/ At("restore")
        /\ \E half \in {"empty", "garbled"} : settings' = [state |-> half, mode |-> "absent"]
        /\ disturbed' = TRUE /\ UNCHANGED record
     \/ /\ At("record")
        /\ \E half \in {"empty", "garbled"} : record' = [state |-> half, mode |-> "absent"]
        /\ UNCHANGED <<settings, disturbed>>
  /\ UNCHANGED <<own, ops, edits>>

-----------------------------------------------------------------------------
(* Config, in a sub-agent: it reads the whole document and writes it back. *)

ConfigRead ==
  /\ ~config.busy /\ settings.state # "garbled"
  /\ edits < MaxEdits /\ edits' = edits + 1
  /\ \E m \in {Doc} \cup Modes \cup {"plan"}, sets \in BOOLEAN :
       /\ ~sets => m = Doc
       /\ m = "absent" => ~sets
       /\ config' = [busy |-> TRUE, mode |-> m, sets |-> sets]
  /\ UNCHANGED <<settings, record, tool, own, disturbed, ops, cuts>>

ConfigWrite ==
  /\ config.busy
  /\ Settings(config.mode) /\ config' = NoConfig
  /\ own' = IF config.sets THEN Owned(config.mode) ELSE own
  /\ disturbed' = IF Busy THEN TRUE
                  ELSE IF config.sets THEN FALSE ELSE disturbed \/ config.mode # Doc
  /\ tool' = IF Busy THEN tool ELSE NoTool
  /\ UNCHANGED <<record, ops, edits, cuts>>

\* The user writes the settings, or removes a record that does not parse.
Edit ==
  /\ ~Busy /\ ~config.busy
  /\ edits < MaxEdits /\ edits' = edits + 1
  /\ \/ \E m \in Mode : Settings(m) /\ own' = Owned(m) /\ disturbed' = FALSE /\ UNCHANGED record
     \/ record.state = "garbled" /\ record' = NoRecord /\ UNCHANGED <<settings, own, disturbed>>
  /\ tool' = NoTool
  /\ UNCHANGED <<config, ops, cuts>>

Next ==
  \/ Call \/ Record \/ Clear \/ Set \/ Restore \/ Done \/ Crash
  \/ ConfigRead \/ ConfigWrite \/ Edit

-----------------------------------------------------------------------------
TypeOK ==
  /\ settings \in [state : {"read", "empty", "garbled"}, mode : Mode]
  /\ record \in [state : {"read", "empty", "garbled"}, mode : Mode]
  /\ tool.mode \in Mode /\ tool.result \in {"none", "ok", "error"}
  /\ own \in OwnMode /\ disturbed \in BOOLEAN

(* The mode the user had is never lost, wherever the program ends: it is   *)
(* in the settings, or on record for the next ExitPlanMode.                *)
OwnModeKept ==
  ~disturbed /\ own \in Mode \ {"plan"} =>
    settings.mode = own \/ (Recorded /\ record.mode = own /\ settings.mode = "plan")

(* Plan mode the tools did not set, they do not end.                       *)
OwnPlanKept == ~disturbed /\ own = "plan" /\ ~Recorded => settings.mode = "plan"

(* What is on record is a mode to go back to: leaving plan mode leaves it. *)
RecordIsNotPlan == Recorded => record.mode # "plan"

(* After a call that met no other writer, the mode is the one it promises. *)
CallsDoWhatTheySay ==
  ~disturbed /\ ~config.busy /\ tool.result = "ok" /\ own \in Mode \ {"plan"} =>
    \/ tool.name = "enter" /\ settings.mode = "plan" /\ Recorded
    \/ tool.name = "exit" /\ settings.mode = own /\ ~Recorded

PlanModeIsSound == OwnModeKept /\ OwnPlanKept /\ RecordIsNotPlan /\ CallsDoWhatTheySay

-----------------------------------------------------------------------------
(* What all this follows from, step by step.                               *)

Todo == {<<>>, <<"clear">>, <<"set">>, <<"record", "set">>, <<"clear", "record", "set">>,
         <<"restore", "clear">>}

\* A call that is over has nothing left to do, and only another mode is put on record.
CallIsRight ==
  /\ tool \in [name : {"none", "enter", "exit"}, mode : Mode, todo : Todo, result : {"none", "ok", "error"}]
  /\ tool.name = "none" => tool = NoTool
  /\ tool.result # "none" => tool.todo = <<>>
  /\ tool.todo \in {<<"record", "set">>, <<"clear", "record", "set">>} => tool.mode # "plan"

\* How the two files are before each step of a call that meets no other writer.
BeforeEnter ==
  /\ tool.todo \in {<<>>, <<"set">>, <<"record", "set">>, <<"clear", "record", "set">>}
  /\ tool.todo = <<"clear", "record", "set">> => Recorded /\ settings.mode = tool.mode
  /\ tool.todo = <<"record", "set">> => ~Recorded /\ settings.mode = tool.mode
  /\ tool.todo = <<"set">> => Recorded /\ settings.mode = record.mode
  /\ tool.todo = <<>> => settings.mode = "plan"

BeforeExit ==
  /\ tool.todo \in {<<>>, <<"clear">>, <<"restore", "clear">>}
  /\ tool.todo = <<"restore", "clear">> => Recorded /\ settings.mode = "plan" /\ tool.mode = record.mode
  /\ tool.todo = <<"clear">> => Recorded /\ settings.mode # "plan"
  /\ tool.todo = <<>> => ~Recorded

InOrder ==
  /\ tool.name = "enter" /\ tool.result # "error" => BeforeEnter
  /\ tool.name = "exit" /\ tool.result # "error" => BeforeExit

\* Plan mode that the user set is not on record, or it would be "taken".
OwnPlanIsOwn == own = "plan" => ~Recorded /\ settings.mode = "plan"

Inv ==
  /\ TypeOK /\ CallIsRight /\ RecordIsNotPlan
  /\ config \in [busy : BOOLEAN, mode : Mode, sets : BOOLEAN]
  /\ ~disturbed => settings.state = "read" /\ InOrder /\ OwnPlanIsOwn /\ OwnModeKept
===============================================================================
