---------------------------- MODULE MCConversation ----------------------------
(***************************************************************************)
(* Instances of Conversation for TLC: one tool, an input that is fine and  *)
(* one that a rule names, and the policies that differ in what that rule   *)
(* says and in what the mode grants.  The run for liveness has no rules.   *)
(***************************************************************************)
EXTENDS Conversation

MCTools == {"bash"}
MCInputs == {"plain", "special"}
MCOneInput == {"plain"}

Special == {<<"bash", "special">>}
Policy(mode, deny, ask) ==
  [active_mode |-> mode, tool_requirements |-> [t \in MCTools |-> "DangerFullAccess"],
   allow_rules |-> {}, deny_rules |-> deny, ask_rules |-> ask]

\* Escalation is asked for and a rule forbids; everything is granted and a rule asks.
MCPolicies ==
  {Policy("WorkspaceWrite", Special, {}), Policy("DangerFullAccess", {}, Special)}
MCPolicyAsk == {Policy("WorkspaceWrite", {}, {})}
===============================================================================
