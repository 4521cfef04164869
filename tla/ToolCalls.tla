------------------------------- MODULE ToolCalls -------------------------------
(***************************************************************************)
(* What a runtime promises about the tool calls of a model: a batch of     *)
(* calls is opened when no other is open; the first open call may run, at  *)
(* most once, and is closed with a result before the next one is looked    *)
(* at; the end of the process loses all that are open.                     *)
(***************************************************************************)
EXTENDS Naturals

CONSTANT MaxCalls  \* bound: calls the model makes

VARIABLE status

Unsettled == {id \in 1..MaxCalls : status[id] \in {"open", "running"}}
First(id) == id \in Unsettled /\ \A other \in Unsettled : id <= other

Init == status = [id \in 1..MaxCalls |-> "unmade"]

\* The next ids, from the first one not made yet.
Open ==
  /\ Unsettled = {}
  /\ \E last \in 1..MaxCalls :
       status' = [id \in 1..MaxCalls |->
                    IF status[id] = "unmade" /\ id <= last THEN "open" ELSE status[id]]

Run(id) ==
  /\ First(id) /\ status[id] = "open"
  /\ status' = [status EXCEPT ![id] = "running"]

Close(id) ==
  /\ First(id)
  /\ status' = [status EXCEPT ![id] = "closed"]

Lose ==
  /\ Unsettled # {}
  /\ status' = [id \in 1..MaxCalls |-> IF id \in Unsettled THEN "lost" ELSE status[id]]

Settle == Lose \/ \E id \in 1..MaxCalls : Close(id)

Next == Open \/ (\E id \in 1..MaxCalls : Run(id)) \/ Settle

Spec == Init /\ [][Next]_status
FairSpec == Spec /\ WF_status(Settle)
===============================================================================
