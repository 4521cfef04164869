--------------------------- MODULE PermissionProofs ---------------------------
(***************************************************************************)
(* The properties of PermissionSwitch, for all tools, inputs and policies. *)
(***************************************************************************)
EXTENDS PermissionSwitch, TLAPS

\* What the three stages of a decision can return.
LEMMA VerdictType ==
  ASSUME NEW p, NEW t, NEW i, NEW o, NEW a
  PROVE  authorize(p, t, i, o, a) \in {"Allow", "Deny"}
  BY DEF authorize, Decision, prompt_or_deny

\* set_permissions builds a policy: only the mode changes, and to a known one.
LEMMA SwitchedPolicy ==
  ASSUME NEW p \in PermissionPolicy, NEW mode \in SessionModes
  PROVE  [p EXCEPT !.active_mode = mode] \in PermissionPolicy
  BY DEF PermissionPolicy, PermissionMode, SessionModes

(* The state stays well formed through every switch of the mode, and the   *)
(* verdict of authorize_with_context is an allow or a deny.                *)
THEOREM TypeCorrect == Spec => []TypeOK
<1>1. Init => TypeOK
  BY VerdictType DEF Init, TypeOK, verdict
<1>2. TypeOK /\ [Next]_vars => TypeOK'
  <2> SUFFICES ASSUME TypeOK, [Next]_vars
               PROVE  TypeOK'
    OBVIOUS
  <2>1. CASE set_permissions
    BY <2>1, SwitchedPolicy, VerdictType DEF set_permissions, TypeOK, verdict
  <2>2. CASE UNCHANGED vars
    BY <2>2, VerdictType DEF vars, TypeOK, verdict
  <2> QED
    BY <2>1, <2>2 DEF Next
<1> QED
  BY <1>1, <1>2, PTL DEF Spec

(* authorize_with_context looks at the deny rules first: nothing undoes    *)
(* them, in any state.                                                     *)
THEOREM DenyCorrect == Spec => []DenyRuleWins
<1>1. DenyRuleWins
  BY DEF DenyRuleWins, verdict, authorize, Decision, find_matching_rule
<1> QED
  BY <1>1, PTL

(* An ask rule is only ever passed by the answer of the user: neither the  *)
(* mode nor an allow rule nor an allowing hook stands in for it.           *)
THEOREM AskCorrect == Spec => []AskRuleAsks
<1>1. AskRuleAsks
  BY DEF AskRuleAsks, verdict, authorize, Decision, prompt_or_deny, find_matching_rule
<1> QED
  BY <1>1, PTL

(* The override of a PreToolUse hook can narrow what authorize would allow *)
(* and can send it to the user, but allows nothing by itself.              *)
THEOREM HookCorrect == Spec => []HookNeverWidens
<1>1. TypeOK => HookNeverWidens
  BY DEF TypeOK, Overrides, PermissionOverride, HookNeverWidens, verdict, authorize, Decision,
         prompt_or_deny
<1> QED
  BY <1>1, TypeCorrect, PTL

(* Rules, hooks, mode and user together allow no more than each of them.    *)
THEOREM AuthorityCorrect == Spec => []AuthorityBounds
<1>1. DenyRuleWins /\ AskRuleAsks /\ HookNeverWidens => AuthorityBounds
  BY DEF AuthorityBounds
<1> QED
  BY <1>1, DenyCorrect, AskCorrect, HookCorrect, PTL

\* The ranks are those of the derived order of PermissionMode.
LEMMA Ranks ==
  /\ ModeRank["ReadOnly"] = 0 /\ ModeRank["WorkspaceWrite"] = 1
  /\ ModeRank["DangerFullAccess"] = 2 /\ ModeRank["Prompt"] = 3 /\ ModeRank["Allow"] = 4
  BY DEF ModeRank

(* A higher mode grants what a lower one granted, and asks for, or grants, *)
(* what a lower one asked for.                                             *)
LEMMA HigherModeGrants ==
  ASSUME NEW p \in PermissionPolicy, NEW t \in Tools, NEW i \in Inputs,
         NEW mode \in SessionModes, ModeRank[p.active_mode] <= ModeRank[mode]
  PROVE  LET q == [p EXCEPT !.active_mode = mode]
         IN /\ Granted(p, t, i) => Granted(q, t, i)
            /\ Escalates(p, t) => Escalates(q, t) \/ Granted(q, t, i)
<1> DEFINE q == [p EXCEPT !.active_mode = mode]
<1>1. /\ q.active_mode = mode
      /\ q.allow_rules = p.allow_rules
      /\ q.tool_requirements = p.tool_requirements
  BY DEF PermissionPolicy
<1>2. required_mode_for(q, t) = required_mode_for(p, t)
  BY <1>1 DEF required_mode_for
<1>3. required_mode_for(p, t) \in PermissionMode /\ p.active_mode \in PermissionMode
  BY DEF required_mode_for, PermissionPolicy, PermissionMode, NoRequirement
<1>4. \A m \in PermissionMode : ModeRank[m] \in Nat
  BY Ranks DEF PermissionMode
<1>5. Granted(p, t, i) => Granted(q, t, i)
  BY <1>1, <1>2, <1>3, <1>4, Ranks DEF Granted, find_matching_rule, SessionModes, PermissionMode
<1>6. Escalates(p, t) => Escalates(q, t) \/ Granted(q, t, i)
  BY <1>1, <1>2, <1>3, Ranks DEF Escalates, Granted, find_matching_rule, SessionModes,
                                   PermissionMode
<1> QED
  BY <1>5, <1>6

(* Switching to a higher mode with /permissions never turns an allowed     *)
(* call into a denied one.                                                 *)
THEOREM RaisingCorrect == Spec => RaisingModeNeverDenies
<1>1. TypeOK /\ Next /\ ModeRank[policy.active_mode] <= ModeRank[policy'.active_mode]
        /\ verdict = "Allow" => verdict' = "Allow"
  <2> SUFFICES ASSUME TypeOK, Next,
                      ModeRank[policy.active_mode] <= ModeRank[policy'.active_mode],
                      verdict = "Allow"
               PROVE  verdict' = "Allow"
    OBVIOUS
  <2>1. PICK mode \in SessionModes : policy' = [policy EXCEPT !.active_mode = mode]
    BY DEF Next, set_permissions
  <2>2. UNCHANGED <<tool, input, override, answer>>
    BY DEF Next, set_permissions
  <2>3. /\ policy'.active_mode = mode
        /\ policy'.deny_rules = policy.deny_rules
        /\ policy'.ask_rules = policy.ask_rules
    BY <2>1 DEF TypeOK, PermissionPolicy
  <2>4. /\ Granted(policy, tool, input) => Granted(policy', tool, input)
        /\ Escalates(policy, tool)
             => Escalates(policy', tool) \/ Granted(policy', tool, input)
    BY <2>1, <2>3, HigherModeGrants DEF TypeOK
  <2> QED
    BY <2>2, <2>3, <2>4 DEF TypeOK, verdict, authorize, Decision, prompt_or_deny, Overrides,
                           PermissionOverride, find_matching_rule
<1>2. TypeOK /\ [Next]_vars
        => [ModeRank[policy.active_mode] <= ModeRank[policy'.active_mode] /\ verdict = "Allow"
              => verdict' = "Allow"]_vars
  BY <1>1
<1> QED
  BY <1>2, TypeCorrect, PTL DEF Spec, RaisingModeNeverDenies
===============================================================================
