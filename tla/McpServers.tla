------------------------------ MODULE McpServers ------------------------------
(***************************************************************************)
(* What McpServerManager is given and what goes over a pipe: the servers   *)
(* of the configuration, each with the tools it lists, and requests and    *)
(* messages, without their payloads.                                       *)
(***************************************************************************)
EXTENDS Naturals, FiniteSets, Sequences, Functions

CONSTANTS
  Server,     \* the configured stdio servers
  Order,      \* the same as a sequence: the key order of the BTreeMap
  Tool,       \* qualified tool names, mcp_tool_name(server, tool)
  Lists,      \* Lists[s]: the qualified names of the tools s has, in its order
  None,       \* no process, no server, no request
  Ids,        \* bound: request ids are told apart modulo Ids
  MaxOps,     \* bound: operations
  MaxFaults   \* bound: deaths, failed spawns, failed kills and unsolicited messages

\* A server has one key in the configuration, and may list a tool twice.
ASSUME ServersAssumption ==
  /\ Order \in Seq(Server) /\ IsInjective(Order) /\ Range(Order) = Server
  /\ Lists \in [Server -> Seq(Tool)]
ASSUME BoundsAssumption == Ids \in Nat \ {0} /\ MaxOps \in Nat /\ MaxFaults \in Nat

Method == {"initialize", "tools/list", "tools/call", "resources"}

\* A child, the request it has not answered, and its messages that nobody read.
Requested == [id : Nat, method : Method, from : Nat]
Messages == [id : Nat, kind : {"ok", "error", "empty", "bad", "note"}, items : Seq(Tool), more : BOOLEAN]
Process == [alive : BOOLEAN, greeted : BOOLEAN, req : {None} \union Requested, out : Seq(Messages)]

ASSUME NoneAssumption == None \notin Server \union Process \union Requested
===============================================================================
