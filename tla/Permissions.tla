----------------------------- MODULE Permissions -----------------------------
(***************************************************************************)
(* PermissionPolicy: may a tool run on an input?  A policy has an active   *)
(* mode, the mode each tool requires, and allow, deny and ask rules; a     *)
(* PreToolUse hook may add an override of its own.                         *)
(*                                                                         *)
(* A rule is abstracted to the set of <<tool, input>> pairs it matches, so *)
(* the rules of one kind are one set of pairs.                             *)
(***************************************************************************)
EXTENDS Naturals

CONSTANTS Tools, Inputs

PermissionMode == {"ReadOnly", "WorkspaceWrite", "DangerFullAccess", "Prompt", "Allow"}

\* The derived order of the enum: Prompt and Allow come after every mode a tool requires.
ModeRank ==
  [ReadOnly |-> 0, WorkspaceWrite |-> 1, DangerFullAccess |-> 2, Prompt |-> 3, Allow |-> 4]

PermissionOverride == {"Allow", "Deny", "Ask"}
Overrides == PermissionOverride \cup {"None"}

\* The answer of the prompter; "None" when there is no prompter to ask.
Answers == {"Allow", "Deny", "None"}

\* The mode of a tool without a requirement.
NoRequirement == "NoRequirement"

PermissionPolicy ==
  [active_mode : PermissionMode,
   tool_requirements : [Tools -> PermissionMode \cup {NoRequirement}],
   allow_rules : SUBSET (Tools \X Inputs),
   deny_rules : SUBSET (Tools \X Inputs),
   ask_rules : SUBSET (Tools \X Inputs)]

required_mode_for(policy, tool) ==
  IF policy.tool_requirements[tool] = NoRequirement
  THEN "DangerFullAccess"
  ELSE policy.tool_requirements[tool]

\* Some rule of a kind names the tool and matches the subject of the input.
find_matching_rule(rules, tool, input) == <<tool, input>> \in rules

\* Mutant of Granted: only the very mode the tool requires will do.
GrantedExactMode(policy, tool, input) ==
  \/ find_matching_rule(policy.allow_rules, tool, input)
  \/ policy.active_mode = "Allow"
  \/ policy.active_mode = required_mode_for(policy, tool)

\* An allow rule, Allow mode, or a mode high enough for the tool.
Granted(policy, tool, input) ==
  \/ find_matching_rule(policy.allow_rules, tool, input)
  \/ policy.active_mode = "Allow"
  \/ ModeRank[policy.active_mode] >= ModeRank[required_mode_for(policy, tool)]

\* The modes from which a tool beyond them may be asked for.
Escalates(policy, tool) ==
  \/ policy.active_mode = "Prompt"
  \/ policy.active_mode = "WorkspaceWrite" /\ required_mode_for(policy, tool) = "DangerFullAccess"

\* Mutant of Decision: an allow override wins over ask rules.
DecisionHookWins(policy, tool, input, override) ==
  CASE find_matching_rule(policy.deny_rules, tool, input) -> "Deny"
    [] OTHER ->
       CASE override = "Deny" -> "Deny"
         [] override = "Ask" -> "Ask"
         [] override = "Allow" -> "Allow"
         [] find_matching_rule(policy.ask_rules, tool, input) -> "Ask"
         [] OTHER -> IF Granted(policy, tool, input) THEN "Allow"
                     ELSE IF Escalates(policy, tool) THEN "Ask" ELSE "Deny"

\* Mutant of Decision: an allow rule is an exception to the deny rules.
DecisionAllowFirst(policy, tool, input, override) ==
  CASE override = "Deny" -> "Deny"
    [] find_matching_rule(policy.deny_rules, tool, input)
         /\ ~find_matching_rule(policy.allow_rules, tool, input) -> "Deny"
    [] override = "Ask" \/ find_matching_rule(policy.ask_rules, tool, input) -> "Ask"
    [] Granted(policy, tool, input) -> "Allow"
    [] Escalates(policy, tool) -> "Ask"
    [] OTHER -> "Deny"

(* authorize_with_context up to the prompt: what it decides by itself, or  *)
(* that it has to ask.  An override of "Allow" that nothing else grants    *)
(* falls through to what holds without an override.                        *)
Decision(policy, tool, input, override) ==
  LET asked == find_matching_rule(policy.ask_rules, tool, input)
      granted == Granted(policy, tool, input)
      default == IF asked THEN "Ask"
                 ELSE IF granted THEN "Allow"
                 ELSE IF Escalates(policy, tool) THEN "Ask"
                 ELSE "Deny"
  IN IF find_matching_rule(policy.deny_rules, tool, input) THEN "Deny"
     ELSE CASE override = "Deny" -> "Deny"
            [] override = "Ask" -> "Ask"
            [] override = "Allow" -> IF asked THEN "Ask"
                                     ELSE IF granted THEN "Allow"
                                     ELSE default
            [] OTHER -> default

\* Mutant of prompt_or_deny: without a prompter the tool runs.
AllowUnlessDenied(answer) == IF answer = "Deny" THEN "Deny" ELSE "Allow"

prompt_or_deny(answer) == IF answer = "Allow" THEN "Allow" ELSE "Deny"

authorize(policy, tool, input, override, answer) ==
  LET decision == Decision(policy, tool, input, override)
  IN IF decision = "Ask" THEN prompt_or_deny(answer) ELSE decision
===============================================================================
