------------------------------ MODULE MCProcesses ------------------------------
(***************************************************************************)
(* Small instances of the components of Processes: a hook with scripts and *)
(* payloads around the capacity of a pipe, two sub-agents, two MCP servers *)
(* with a tool name in common, a tool with every sandbox, and the start of *)
(* the local agent server with some calls.                                 *)
(***************************************************************************)
EXTENDS Processes

CONSTANTS
  one, other,   \* two sub-agents
  s1, s2,       \* two servers
  toolA, toolB  \* their tools by qualified name: toolA is a name of both

SmallOrder == <<s1, s2>>
SmallLists == [s \in {s1, s2} |-> IF s = s1 THEN <<toolA>> ELSE <<toolA, toolB>>]

AnyRequest ==
  [enabled : BOOLEAN, namespace : BOOLEAN, network : BOOLEAN, filesystem : BOOLEAN, supported : BOOLEAN]
===============================================================================
