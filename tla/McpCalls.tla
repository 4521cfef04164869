------------------------------- MODULE McpCalls -------------------------------
(***************************************************************************)
(* What a caller of a remote tool is promised, whatever happens to the     *)
(* server: the tool runs at most once for a call and only while the caller *)
(* waits, and a success means that it did run.                             *)
(***************************************************************************)
EXTENDS Naturals

VARIABLES
  calling,  \* a call is waiting for its result
  ran,      \* how often the tool ran for this call or, when none waits, for the last
  answer    \* "none", or what the last call returned: "ok" or "error"

vars == <<calling, ran, answer>>

Init == ~calling /\ ran = 0 /\ answer = "none"

Ask == ~calling /\ calling' = TRUE /\ ran' = 0 /\ answer' = "none"

Run == calling /\ ran = 0 /\ ran' = 1 /\ UNCHANGED <<calling, answer>>

Return ==
  /\ calling /\ calling' = FALSE
  /\ \/ ran = 1 /\ answer' = "ok"
     \/ answer' = "error"
  /\ UNCHANGED ran

\* The caller has taken the answer.
Forget == ~calling /\ answer' = "none" /\ ran' = 0 /\ UNCHANGED calling

Next == Ask \/ Run \/ Return \/ Forget

Safety == Init /\ [][Next]_vars

Spec == Safety /\ WF_vars(Return)
===============================================================================
