--------------------------- MODULE PermissionSwitch ---------------------------
(***************************************************************************)
(* One tool call judged again and again while /permissions switches the    *)
(* mode of the session: what the rules, the hooks, the mode and the user   *)
(* may and may not do to the verdict.                                      *)
(***************************************************************************)
EXTENDS Permissions

\* The modes the command line knows, and the ones its tools require.
SessionModes == {"ReadOnly", "WorkspaceWrite", "DangerFullAccess"}

VARIABLES policy, tool, input, override, answer

vars == <<policy, tool, input, override, answer>>

Init ==
  /\ policy \in PermissionPolicy
  /\ policy.active_mode \in SessionModes
  /\ \A t \in Tools : policy.tool_requirements[t] \in SessionModes \cup {NoRequirement}
  /\ tool \in Tools /\ input \in Inputs
  /\ override \in Overrides /\ answer \in Answers

\* Mutant of set_permissions: the label is taken as the user wrote it.
set_permissions_raw ==
  /\ \E mode \in SessionModes \cup {"default"} :
       policy' = [policy EXCEPT !.active_mode = mode]
  /\ UNCHANGED <<tool, input, override, answer>>

\* The rules, the requirements and the call stay; the runtime is rebuilt with the mode.
set_permissions ==
  /\ \E mode \in SessionModes \ {policy.active_mode} :
       policy' = [policy EXCEPT !.active_mode = mode]
  /\ UNCHANGED <<tool, input, override, answer>>

Next == set_permissions
Spec == Init /\ [][Next]_vars
-----------------------------------------------------------------------------
verdict == authorize(policy, tool, input, override, answer)

TypeOK ==
  /\ policy \in PermissionPolicy
  /\ tool \in Tools /\ input \in Inputs
  /\ override \in Overrides /\ answer \in Answers
  /\ verdict \in {"Allow", "Deny"}

(* A deny rule wins over every allow rule, mode, hook and approval.        *)
DenyRuleWins == <<tool, input>> \in policy.deny_rules => verdict = "Deny"

(* What an ask rule names never runs unless the user said yes, whatever    *)
(* the mode, the allow rules and a hook that allows it say.                *)
AskRuleAsks ==
  <<tool, input>> \in policy.ask_rules /\ verdict = "Allow" => answer = "Allow"

(* A hook has no authority of its own: what runs with its override would   *)
(* run without it, or the user approved it.                                *)
HookNeverWidens ==
  verdict = "Allow" =>
    answer = "Allow" \/ authorize(policy, tool, input, "None", answer) = "Allow"

(* The sources of authority never add up to more than each of them grants. *)
AuthorityBounds == DenyRuleWins /\ AskRuleAsks /\ HookNeverWidens

(* A mode further up the order never takes a permission away.              *)
RaisingModeNeverDenies ==
  [][ModeRank[policy.active_mode] <= ModeRank[policy'.active_mode] /\ verdict = "Allow"
       => verdict' = "Allow"]_vars
===============================================================================
