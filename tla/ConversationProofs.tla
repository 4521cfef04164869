-------------------------- MODULE ConversationProofs --------------------------
(***************************************************************************)
(* Conversation for every policy, every hook and every number of calls:    *)
(* type correctness, authority, at-most-once execution, what the session   *)
(* file shows of a run, what results and aborts promise, the history, and  *)
(* the refinement of ToolCalls.                                            *)
(*                                                                         *)
(* The current call is fixed from the step that authorizes it to the one   *)
(* that runs it, so what Authorize found is carried to Execute by the      *)
(* program counter (Cleared).  Calls are handled in the order of their     *)
(* ids, so an execution never has the id of one before it (InOrder).       *)
(***************************************************************************)
EXTENDS Conversation, TLAPS, SequenceTheorems

Authorized(t, i, approved) ==
  /\ <<t, i>> \notin config.policy.deny_rules
  /\ \/ approved /\ config.prompter
     \/ /\ <<t, i>> \notin config.policy.ask_rules
        /\ Granted(config.policy, t, i)

InCall == {"pre", "authorize", "execute", "post", "answer"}

\* While a call is handled, there is one.
Busy == pc \in InCall => pending # <<>>

\* What is about to run may run.
Cleared ==
  pc = "execute" => Authorized(current.tool, effective_input, outcome = "approved")

\* Ids grow along the pending calls, and no execution is ahead of the current call.
InOrder ==
  /\ \A i, j \in DOMAIN pending : i < j => pending[i].id < pending[j].id
  /\ \A i \in DOMAIN pending : pending[i].id < nextId
  /\ \A k \in DOMAIN ran :
       /\ ran[k].id < nextId
       /\ pc \in {"pre", "authorize", "execute"} => ran[k].id < current.id
       /\ pc \in {"post", "answer"} => ran[k].id <= current.id

IInv == TypeOK /\ Busy /\ Cleared /\ NoToolWithoutAuthority /\ InOrder /\ RunsOnce

\* A policy never yields more than what was granted or approved.
LEMMA AuthorizeSound ==
  ASSUME NEW p, NEW t, NEW i, NEW o \in Overrides, NEW prompter \in BOOLEAN,
         NEW a \in IF prompter THEN {"Allow", "Deny"} ELSE {"None"},
         authorize(p, t, i, o, a) = "Allow"
  PROVE  /\ <<t, i>> \notin p.deny_rules
         /\ \/ Decision(p, t, i, o) = "Ask" /\ prompter
            \/ /\ Decision(p, t, i, o) # "Ask"
               /\ <<t, i>> \notin p.ask_rules
               /\ Granted(p, t, i)
<1>1. CASE o = "None"
  BY <1>1 DEF authorize, Decision, prompt_or_deny, find_matching_rule
<1>2. CASE o = "Allow"
  BY <1>2 DEF authorize, Decision, prompt_or_deny, find_matching_rule
<1>3. CASE o = "Ask"
  BY <1>3 DEF authorize, Decision, prompt_or_deny, find_matching_rule
<1>4. CASE o = "Deny"
  BY <1>4 DEF authorize, Decision, prompt_or_deny, find_matching_rule
<1> QED
  BY <1>1, <1>2, <1>3, <1>4 DEF Overrides, PermissionOverride

\* The new calls of a message are calls, in order, behind all the earlier ones.
LEMMA NewCallsInOrder ==
  ASSUME nextId \in 1..MaxCalls + 1, NEW calls \in NewCalls
  PROVE  /\ calls \in Seq(Call)
         /\ nextId + Len(calls) \in 1..MaxCalls + 1
         /\ \A i \in DOMAIN calls :
              /\ i \in 1..Len(calls)
              /\ calls[i].id = nextId + i - 1
              /\ calls[i].id < nextId + Len(calls)
<1>1. PICK n \in 0..2 : calls \in [1..n -> Call]
  BY DEF NewCalls
<1>2. calls \in Seq(Call) /\ Len(calls) = n
  BY <1>1, SeqDef
<1>3. \A i \in DOMAIN calls : calls[i].id = nextId + i - 1
  BY DEF NewCalls
<1>4. DOMAIN calls = 1..n
  BY <1>1
<1>5. nextId + n \in 1..MaxCalls + 1
  <2>1. CASE n = 0
    BY <2>1
  <2>2. CASE n > 0
    <3>1. calls[n] \in Call
      BY <1>1, <2>2
    <3>2. calls[n].id \in 1..MaxCalls
      BY <3>1 DEF Call
    <3>3. calls[n].id = nextId + n - 1
      BY <1>3, <1>4, <2>2
    <3> QED
      BY <2>2, <3>2, <3>3, ConversationAssumption
  <2> QED
    BY <2>1, <2>2
<1> QED
  BY <1>2, <1>3, <1>4, <1>5, ConversationAssumption

\* Ids are numbers.
LEMMA IdTypes ==
  ASSUME TypeOK
  PROVE  /\ \A k \in DOMAIN ran : ran[k].id \in Nat
         /\ \A i \in DOMAIN pending : pending[i].id \in Nat
         /\ pending # <<>> => current \in Call /\ current.id \in Nat
<1>1. \A k \in DOMAIN ran : ran[k] \in Execution
  BY LenProperties, ElementOfSeq DEF TypeOK
<1>2. \A i \in DOMAIN pending : pending[i] \in Call
  BY LenProperties, ElementOfSeq DEF TypeOK
<1>3. pending # <<>> => current \in Call
  BY HeadTailProperties DEF TypeOK, current
<1>4. \A n \in 1..MaxCalls : n \in Nat
  BY ConversationAssumption
<1> QED
  BY <1>1, <1>2, <1>3, <1>4 DEF Execution, Call

\* compact_session keeps a session a sequence of messages.
LEMMA CompactedType ==
  ASSUME messages \in Seq(Message), Compactable
  PROVE  Compacted \in Seq(Message)
<1>1. Len(messages) \in Nat /\ PreserveRecent \in Nat /\ Len(messages) > PreserveRecent
  BY LenProperties, ConversationAssumption DEF Compactable, SummaryLen
<1>2. \A i \in Len(messages) - PreserveRecent + 1 .. Len(messages) : messages[i] \in Message
  BY <1>1, ElementOfSeq
<1>3. SubSeq(messages, Len(messages) - PreserveRecent + 1, Len(messages)) \in Seq(Message)
  BY <1>1, <1>2, SubSeqProperties
<1>4. Summary \in Message
  BY DEF Summary, Message
<1>5. <<Summary>> \in Seq(Message)
  BY <1>4
<1> QED
  BY <1>3, <1>5, ConcatProperties DEF Compacted

\* Push stores a message in memory and on disk.
LEMMA PushType ==
  ASSUME TypeOK, NEW m \in Message, Push(m)
  PROVE  messages' \in Seq(Message) /\ disk' \in Seq(Message)
  BY AppendProperties DEF TypeOK, Push

\* No call is pending at the end of a process, so nothing is in the way of the invariant.
LEMMA ExitStep ==
  ASSUME IInv, Exit
  PROVE  IInv'
<1>1. TypeOK'
  <2>1. HookAllow \in HookRunResult /\ HookAllow.commands = 0
    BY DEF HookAllow, HookRunResult, Overrides
  <2>2. <<>> \in Seq(Call)
    BY EmptySeq
  <2>3. lost' \subseteq 1..MaxCalls
    <3>1. \A i \in DOMAIN pending : pending[i] \in Call
      BY LenProperties, ElementOfSeq DEF IInv, TypeOK
    <3> QED
      BY <3>1 DEF IInv, TypeOK, Exit, Call
  <2>4. config.pre_tool_use \in Nat
    BY ConversationAssumption DEF IInv, TypeOK, Config
  <2> QED
    BY <2>1, <2>2, <2>3, <2>4 DEF IInv, TypeOK, Exit, PC, Outcomes
<1>2. Busy' /\ Cleared' /\ NoToolWithoutAuthority' /\ RunsOnce'
  BY DEF IInv, Exit, Busy, InCall, Cleared, NoToolWithoutAuthority, RunsOnce
<1>3. InOrder'
  BY DEF IInv, Exit, InOrder
<1> QED
  BY <1>1, <1>2, <1>3 DEF IInv

\* Between two calls nothing is current: only the types and the ids are at stake.
LEMMA StartTurnStep ==
  ASSUME IInv, StartTurn
  PROVE  IInv'
<1>1. User \in Message
  BY DEF User, Message
<1>2. messages' \in Seq(Message) /\ disk' \in Seq(Message)
  BY <1>1, PushType DEF StartTurn, IInv
<1>3. TypeOK'
  <2>1. Len(ran) \in Nat
    BY LenProperties DEF IInv, TypeOK
  <2>2. turns + 1 \in 0..MaxTurns /\ 0 \in Nat /\ 0 <= MaxIterations
    BY ConversationAssumption DEF IInv, TypeOK, StartTurn
  <2> QED
    BY <1>2, <2>1, <2>2 DEF IInv, TypeOK, StartTurn, PC, TurnSteps, call
<1>4. Busy' /\ Cleared' /\ NoToolWithoutAuthority' /\ RunsOnce' /\ InOrder'
  BY DEF IInv, StartTurn, Busy, InCall, Cleared, NoToolWithoutAuthority, RunsOnce, InOrder, call
<1> QED
  BY <1>3, <1>4 DEF IInv

LEMMA StreamStep ==
  ASSUME IInv, Stream
  PROVE  IInv'
<1>1. PICK calls \in NewCalls :
        /\ Push(Assistant(calls))
        /\ pending' = calls
        /\ nextId' = nextId + Len(calls)
        /\ pc' = IF calls = <<>> THEN "finish" ELSE "pre"
  BY DEF Stream
<1>2. /\ calls \in Seq(Call)
      /\ nextId + Len(calls) \in 1..MaxCalls + 1
      /\ \A i \in DOMAIN calls :
           /\ i \in 1..Len(calls)
           /\ calls[i].id = nextId + i - 1
           /\ calls[i].id < nextId + Len(calls)
  BY <1>1, NewCallsInOrder DEF IInv, TypeOK
<1>3. Assistant(calls) \in Message
  BY <1>2 DEF Assistant, Message
<1>4. messages' \in Seq(Message) /\ disk' \in Seq(Message)
  BY <1>1, <1>3, PushType DEF IInv
<1>5. TypeOK'
  BY <1>1, <1>2, <1>4, ConversationAssumption DEF IInv, TypeOK, Stream, AtLimit, PC, TurnSteps
<1>6. Busy' /\ Cleared' /\ NoToolWithoutAuthority' /\ RunsOnce'
  BY <1>1 DEF IInv, Stream, Busy, InCall, Cleared, NoToolWithoutAuthority, RunsOnce
<1>7. InOrder'
  <2>1. Len(calls) \in Nat /\ nextId \in Nat /\ DOMAIN calls = 1..Len(calls)
    BY <1>2, LenProperties, ConversationAssumption DEF IInv, TypeOK
  <2>2. \A i, j \in DOMAIN pending' : i < j => pending'[i].id < pending'[j].id
    BY <1>1, <1>2, <2>1
  <2>3. \A i \in DOMAIN pending' : pending'[i].id < nextId'
    BY <1>1, <1>2
  <2>4. \A k \in DOMAIN ran : ran[k].id < nextId /\ ran[k].id \in Nat
    BY IdTypes DEF IInv, InOrder
  <2>5. pc' = "pre" => current'.id = nextId
    <3> SUFFICES ASSUME pc' = "pre"
                 PROVE  current'.id = nextId
      OBVIOUS
    <3>1. calls # <<>>
      BY <1>1
    <3>2. 1 \in DOMAIN calls /\ Head(calls) = calls[1]
      BY <1>2, <2>1, <3>1, EmptySeq
    <3> QED
      BY <1>1, <1>2, <2>1, <3>2, SMTT(20) DEF current
  <2> QED
    BY <1>1, <2>1, <2>2, <2>3, <2>4, <2>5 DEF Stream, InOrder
<1> QED
  BY <1>5, <1>6, <1>7 DEF IInv

LEMMA PreHookAllowStep ==
  ASSUME IInv, PreHookAllow
  PROVE  IInv'
<1>1. TypeOK'
  <2>1. hook' \in HookRunResult
    BY DEF IInv, TypeOK, PreHookAllow, HookRunResult, Overrides
  <2>2. hook'.commands <= config.pre_tool_use
    <3>1. hook'.commands = hook.commands + 1
      BY DEF PreHookAllow
    <3>2. hook.commands \in Nat /\ config.pre_tool_use \in Nat
      BY ConversationAssumption DEF IInv, TypeOK, HookRunResult, Config
    <3> QED
      BY <3>1, <3>2 DEF PreHookAllow
  <2> QED
    BY <2>1, <2>2 DEF IInv, TypeOK, PreHookAllow, history
<1>2. Busy' /\ Cleared' /\ NoToolWithoutAuthority' /\ RunsOnce' /\ InOrder'
  BY DEF IInv, PreHookAllow, history, Busy, InCall, Cleared, NoToolWithoutAuthority, RunsOnce,
         InOrder, current
<1> QED
  BY <1>1, <1>2 DEF IInv

LEMMA PreHookVetoStep ==
  ASSUME IInv, PreHookVeto
  PROVE  IInv'
<1>1. TypeOK'
  BY DEF IInv, TypeOK, PreHookVeto, history, PC, TurnSteps, Outcomes
<1>2. Busy' /\ Cleared' /\ NoToolWithoutAuthority' /\ RunsOnce'
  BY DEF IInv, PreHookVeto, history, Busy, InCall, Cleared, NoToolWithoutAuthority, RunsOnce
<1>3. InOrder'
  <2>1. (\A k \in DOMAIN ran : ran[k].id \in Nat) /\ current.id \in Nat
    BY IdTypes DEF IInv, Busy, InCall, PreHookVeto
  <2> QED
    BY <2>1 DEF IInv, PreHookVeto, history, InOrder, current
<1> QED
  BY <1>1, <1>2, <1>3 DEF IInv

LEMMA PreHooksDoneStep ==
  ASSUME IInv, PreHooksDone
  PROVE  IInv'
<1>1. TypeOK'
  BY DEF IInv, TypeOK, PreHooksDone, history, call, PC, TurnSteps
<1>2. Busy' /\ Cleared' /\ NoToolWithoutAuthority' /\ RunsOnce' /\ InOrder'
  BY DEF IInv, PreHooksDone, history, call, Busy, InCall, Cleared, NoToolWithoutAuthority,
         RunsOnce, InOrder, current
<1> QED
  BY <1>1, <1>2 DEF IInv

(* What Authorize lets through is what authorize_with_context granted, on  *)
(* the input the hooks left.                                               *)
LEMMA AuthorizeStep ==
  ASSUME IInv, Authorize
  PROVE  IInv'
<1>1. TypeOK'
  BY DEF IInv, TypeOK, Authorize, history, PC, TurnSteps, Outcomes
<1>2. Cleared'
  <2>0. SUFFICES ASSUME pc' = "execute"
                 PROVE  Authorized(current.tool, effective_input, outcome' = "approved")
    BY DEF Authorize, Cleared, Authorized, current, effective_input
  <2>1. PICK answer \in IF config.prompter THEN {"Allow", "Deny"} ELSE {"None"} :
          /\ authorize(config.policy, current.tool, effective_input,
                       hook.permission_override, answer) = "Allow"
          /\ outcome' = IF Decision(config.policy, current.tool, effective_input,
                                    hook.permission_override) = "Ask"
                        THEN "approved" ELSE "granted"
    BY <2>0 DEF Authorize, authorized_input
  <2>2. hook.permission_override \in Overrides /\ config.prompter \in BOOLEAN
    BY DEF IInv, TypeOK, HookRunResult, Config
  <2>3. /\ <<current.tool, effective_input>> \notin config.policy.deny_rules
        /\ \/ /\ Decision(config.policy, current.tool, effective_input,
                          hook.permission_override) = "Ask"
              /\ config.prompter
           \/ /\ Decision(config.policy, current.tool, effective_input,
                          hook.permission_override) # "Ask"
              /\ <<current.tool, effective_input>> \notin config.policy.ask_rules
              /\ Granted(config.policy, current.tool, effective_input)
    BY <2>1, <2>2, AuthorizeSound
  <2> QED
    BY <2>1, <2>3 DEF Authorized
<1>3. Busy' /\ NoToolWithoutAuthority' /\ RunsOnce'
  BY DEF IInv, Authorize, history, Busy, InCall, NoToolWithoutAuthority, RunsOnce
<1>4. InOrder'
  <2>1. (\A k \in DOMAIN ran : ran[k].id \in Nat) /\ current.id \in Nat
    BY IdTypes DEF IInv, Busy, InCall, Authorize
  <2> QED
    BY <2>1 DEF IInv, Authorize, history, InOrder, current
<1> QED
  BY <1>1, <1>2, <1>3, <1>4 DEF IInv

\* The run that is appended is authorized, and newer than all the others.
LEMMA ExecuteStep ==
  ASSUME IInv, Execute
  PROVE  IInv'
<1>1. PICK ok \in BOOLEAN :
        /\ ran' = Append(ran, [id |-> current.id, tool |-> current.tool,
                               input |-> effective_input,
                               approved |-> outcome = "approved", ok |-> ok])
        /\ outcome' = IF ok THEN "success" ELSE "error"
  BY DEF Execute
<1> DEFINE run == [id |-> current.id, tool |-> current.tool, input |-> effective_input,
                   approved |-> outcome = "approved", ok |-> ok]
<1>2. pending # <<>> /\ current \in Call /\ current.id \in Nat
  BY IdTypes DEF IInv, Busy, InCall, Execute
<1>3. effective_input \in Inputs
  BY <1>2 DEF effective_input, IInv, TypeOK, HookRunResult, Call
<1>4. run \in Execution
  BY <1>2, <1>3 DEF Execution, Call
<1> HIDE DEF run
<1>5. /\ ran' \in Seq(Execution)
      /\ Len(ran') = Len(ran) + 1
      /\ \A k \in 1..Len(ran) : ran'[k] = ran[k]
      /\ ran'[Len(ran) + 1] = run
  <2>1. ran \in Seq(Execution) /\ ran' = Append(ran, run)
    BY <1>1 DEF IInv, TypeOK, run
  <2> QED
    BY <1>4, <2>1, AppendProperties
<1>6. /\ DOMAIN ran = 1..Len(ran) /\ Len(ran) \in Nat
      /\ DOMAIN ran' = 1..(Len(ran) + 1)
  BY <1>5, LenProperties DEF IInv, TypeOK
<1>7. TypeOK'
  BY <1>1, <1>5 DEF IInv, TypeOK, Execute, PC, TurnSteps, Outcomes
<1>8. Busy' /\ Cleared'
  BY DEF IInv, Execute, Busy, InCall, Cleared
<1>9. NoToolWithoutAuthority'
  <2>1. Authorized(run.tool, run.input, run.approved)
    BY DEF IInv, Cleared, Execute, run
  <2>2. \A k \in DOMAIN ran : Authorized(ran[k].tool, ran[k].input, ran[k].approved)
    BY DEF IInv, NoToolWithoutAuthority, Authorized
  <2>3. \A k \in DOMAIN ran' : Authorized(ran'[k].tool, ran'[k].input, ran'[k].approved)
    <3>1. \A k \in DOMAIN ran' : k \in DOMAIN ran \/ k = Len(ran) + 1
      BY <1>6
    <3> QED
      BY <1>5, <1>6, <2>1, <2>2, <3>1
  <2>4. config' = config
    BY DEF Execute
  <2> QED
    BY <2>3, <2>4 DEF NoToolWithoutAuthority, Authorized
<1>10. \A k \in DOMAIN ran : ran[k].id < current.id /\ ran[k].id \in Nat
  BY IdTypes DEF IInv, InOrder, Execute
<1>11. run.id = current.id
  BY DEF run
<1>12. RunsOnce'
  <2>1. \A i, j \in DOMAIN ran : ran[i].id = ran[j].id => i = j
    BY DEF IInv, RunsOnce
  <2>2. \A i \in DOMAIN ran' :
          \/ i \in DOMAIN ran /\ ran'[i] = ran[i] /\ ran'[i].id # current.id
          \/ i = Len(ran) + 1 /\ ran'[i].id = current.id
    BY <1>2, <1>5, <1>6, <1>10, <1>11
  <2> QED
    BY <2>1, <2>2 DEF RunsOnce
<1>13. InOrder'
  <2>1. current' = current /\ pending' = pending /\ nextId' = nextId /\ pc' = "post"
    BY DEF Execute, current
  <2>2. current.id < nextId
    <3>1. 1 \in DOMAIN pending /\ current = pending[1]
      BY <1>2, EmptySeq, LenProperties DEF IInv, TypeOK, current
    <3> QED
      BY <3>1 DEF IInv, InOrder
  <2>3. \A k \in DOMAIN ran' : ran'[k].id < nextId /\ ran'[k].id <= current.id
    <3>1. \A k \in DOMAIN ran' : k \in DOMAIN ran \/ k = Len(ran) + 1
      BY <1>6
    <3>2. \A k \in DOMAIN ran : ran[k].id < nextId
      BY DEF IInv, InOrder
    <3> QED
      BY <1>2, <1>5, <1>6, <1>10, <1>11, <2>2, <3>1, <3>2
  <2> QED
    BY <2>1, <2>3 DEF IInv, InOrder
<1> QED
  BY <1>7, <1>8, <1>9, <1>12, <1>13 DEF IInv

LEMMA PostHookStep ==
  ASSUME IInv, PostHook
  PROVE  IInv'
<1>1. TypeOK'
  BY DEF IInv, TypeOK, PostHook, history, PC, TurnSteps, Outcomes
<1>2. Busy' /\ Cleared' /\ NoToolWithoutAuthority' /\ RunsOnce' /\ InOrder'
  BY DEF IInv, PostHook, history, Busy, InCall, Cleared, NoToolWithoutAuthority, RunsOnce,
         InOrder, current
<1> QED
  BY <1>1, <1>2 DEF IInv

\* The next call has a greater id than the one that was just answered.
LEMMA AnswerStep ==
  ASSUME IInv, Answer
  PROVE  IInv'
<1>1. pending # <<>> /\ current \in Call /\ current.id \in Nat
  BY IdTypes DEF IInv, Busy, InCall, Answer
<1>2. /\ pending \in Seq(Call) /\ Tail(pending) \in Seq(Call)
      /\ Len(Tail(pending)) = Len(pending) - 1
      /\ \A i \in 1..Len(Tail(pending)) : Tail(pending)[i] = pending[i + 1]
      /\ Len(pending) \in Nat /\ DOMAIN pending = 1..Len(pending)
      /\ DOMAIN Tail(pending) = 1..Len(Tail(pending))
  BY <1>1, HeadTailProperties, LenProperties DEF IInv, TypeOK
<1>3. pending' = Tail(pending) /\ pc' = IF pending' = <<>> THEN "stream" ELSE "pre"
  BY DEF Answer
<1>4. ToolResult(current.id, outcome # "success") \in Message
  BY <1>1 DEF ToolResult, Message, Call
<1>5. messages' \in Seq(Message) /\ disk' \in Seq(Message)
  BY <1>4, PushType DEF Answer, IInv
<1>6. TypeOK'
  <2>1. HookAllow \in HookRunResult /\ HookAllow.commands = 0
    BY DEF HookAllow, HookRunResult, Overrides
  <2>2. config.pre_tool_use \in Nat
    BY ConversationAssumption DEF IInv, TypeOK, Config
  <2> QED
    BY <1>2, <1>3, <1>5, <2>1, <2>2 DEF IInv, TypeOK, Answer, history, PC, TurnSteps, Outcomes
<1>7. Busy' /\ Cleared' /\ NoToolWithoutAuthority' /\ RunsOnce'
  BY <1>3 DEF IInv, Answer, history, Busy, InCall, Cleared, NoToolWithoutAuthority, RunsOnce
<1>8. InOrder'
  <2>1. current = pending[1] /\ 1 \in DOMAIN pending
    BY <1>1, <1>2, EmptySeq DEF current
  <2>2. \A i, j \in DOMAIN pending' : i < j => pending'[i].id < pending'[j].id
    BY <1>2, <1>3 DEF IInv, InOrder
  <2>3. \A i \in DOMAIN pending' : pending'[i].id < nextId
    BY <1>2, <1>3 DEF IInv, InOrder
  <2>4. pending' # <<>> => current.id < current'.id /\ current'.id \in Nat
    <3> SUFFICES ASSUME pending' # <<>>
                 PROVE  current.id < current'.id /\ current'.id \in Nat
      OBVIOUS
    <3>1. 1 \in DOMAIN pending' /\ current' = pending'[1]
      BY <1>2, <1>3, EmptySeq DEF current
    <3>2. 2 \in DOMAIN pending /\ current' = pending[2]
      BY <1>2, <1>3, <3>1
    <3> QED
      BY <2>1, <3>2, IdTypes DEF IInv, InOrder
  <2>5. \A k \in DOMAIN ran : ran[k].id <= current.id /\ ran[k].id < nextId /\ ran[k].id \in Nat
    BY IdTypes DEF IInv, InOrder, Answer
  <2>6. ran' = ran /\ nextId' = nextId
    BY DEF Answer, history
  <2> QED
    BY <1>1, <1>3, <2>2, <2>3, <2>4, <2>5, <2>6 DEF InOrder
<1> QED
  BY <1>6, <1>7, <1>8 DEF IInv

\* Steps between the turns move messages only.
LEMMA SessionStep ==
  ASSUME IInv, Finish \/ Persist \/ CompactCommand \/ Resume
  PROVE  IInv'
<1>1. messages' \in Seq(Message) /\ disk' \in Seq(Message)
  BY CompactedType DEF IInv, TypeOK, Finish, Persist, CompactCommand, Resume
<1>2. pc' \in {"persist", "idle"} /\ UNCHANGED <<config, iterations, call, aborted, history>>
  BY DEF Finish, Persist, CompactCommand, Resume
<1>3. TypeOK'
  BY <1>1, <1>2 DEF IInv, TypeOK, call, history, PC
<1>4. Busy' /\ Cleared' /\ NoToolWithoutAuthority' /\ RunsOnce' /\ InOrder'
  BY <1>2 DEF IInv, call, history, Busy, InCall, Cleared, NoToolWithoutAuthority, RunsOnce,
              InOrder
<1> QED
  BY <1>3, <1>4 DEF IInv

LEMMA AbortStep ==
  ASSUME IInv, Abort
  PROVE  IInv'
<1>1. TypeOK'
  BY LenProperties DEF IInv, TypeOK, Abort, call
<1>2. Busy' /\ NoToolWithoutAuthority' /\ RunsOnce' /\ InOrder'
  BY DEF IInv, Abort, call, Busy, InCall, NoToolWithoutAuthority, RunsOnce, InOrder, current
<1>3. Cleared'
  BY DEF IInv, Abort, call, Cleared, Authorized, current, effective_input
<1> QED
  BY <1>1, <1>2, <1>3 DEF IInv

\* The inductive invariant holds at the start and is kept by every step.
LEMMA Invariance == Spec => []IInv
<1>1. Init => IInv
  <2> SUFFICES ASSUME Init
               PROVE  IInv
    OBVIOUS
  <2>1. HookAllow \in HookRunResult /\ HookAllow.commands = 0
    BY DEF HookAllow, HookRunResult, Overrides
  <2>2. <<>> \in Seq(Message) /\ <<>> \in Seq(Call) /\ <<>> \in Seq(Execution)
    BY EmptySeq
  <2>3. config.pre_tool_use \in Nat
    BY ConversationAssumption DEF Init, Config
  <2>4. TypeOK
    <3>1. 0 <= MaxIterations /\ 0 \in 0..MaxTurns /\ 1 \in 1..MaxCalls + 1 /\ 0 \in Nat
      BY ConversationAssumption
    <3>2. hook.commands <= config.pre_tool_use
      BY <2>1, <2>3 DEF Init
    <3> QED
      BY <2>1, <2>2, <3>1, <3>2 DEF Init, TypeOK, PC, Outcomes
  <2>5. Busy /\ Cleared /\ NoToolWithoutAuthority /\ RunsOnce /\ InOrder
    BY DEF Init, Busy, InCall, Cleared, NoToolWithoutAuthority, RunsOnce, InOrder
  <2> QED
    BY <2>4, <2>5 DEF IInv
<1>2. IInv /\ [Next]_vars => IInv'
  <2> SUFFICES ASSUME IInv, [Next]_vars
               PROVE  IInv'
    OBVIOUS
  <2>1. CASE Fail \/ Crash
    BY <2>1, ExitStep DEF Fail, Crash
  <2>2. CASE Stream
    BY <2>2, StreamStep
  <2>3. CASE PreHookAllow \/ PreHookVeto \/ PreHooksDone
    BY <2>3, PreHookAllowStep, PreHookVetoStep, PreHooksDoneStep
  <2>4. CASE Authorize
    BY <2>4, AuthorizeStep
  <2>5. CASE Execute
    BY <2>5, ExecuteStep
  <2>6. CASE PostHook \/ Answer
    BY <2>6, PostHookStep, AnswerStep
  <2>7. CASE Finish \/ Persist \/ CompactCommand \/ Resume
    BY <2>7, SessionStep
  <2>8. CASE StartTurn \/ Abort
    BY <2>8, StartTurnStep, AbortStep
  <2>9. CASE UNCHANGED vars
    BY <2>9 DEF vars, IInv, TypeOK, Busy, Cleared, Authorized, NoToolWithoutAuthority,
                RunsOnce, InOrder, current, effective_input
  <2> QED
    BY <2>1, <2>2, <2>3, <2>4, <2>5, <2>6, <2>7, <2>8, <2>9 DEF Next, Work
<1> QED
  BY <1>1, <1>2, PTL DEF Spec

(* Every state of every run is well typed: in particular the iteration     *)
(* limit of run_turn is never passed.                                      *)
THEOREM TypeCorrect == Spec => []TypeOK
<1>1. IInv => TypeOK
  BY DEF IInv
<1> QED
  BY <1>1, Invariance, PTL

(* Nothing runs in run_turn on an input that the policy forbids, or that   *)
(* needs an approval the user did not give, whatever the hooks say.        *)
THEOREM AuthorityCorrect == Spec => []NoToolWithoutAuthority
<1>1. IInv => NoToolWithoutAuthority
  BY DEF IInv
<1> QED
  BY <1>1, Invariance, PTL

(* No call is executed twice, over failures, aborts, crashes and resumes.  *)
THEOREM RunsOnceCorrect == Spec => []RunsOnce
<1>1. IInv => RunsOnce
  BY DEF IInv
<1> QED
  BY <1>1, Invariance, PTL
-----------------------------------------------------------------------------
(* What the file shows, and what the results tell.                         *)

\* The calls that wait are in the file: Stream stores the message before it looks at them.
Shown == pc \in InCall => \A i \in DOMAIN pending : pending[i].id \in Requested(disk)

\* A message appended to a log hides none of the requests in it.
LEMMA AppendRequested ==
  ASSUME NEW log \in Seq(Message), NEW m \in Message
  PROVE  Requested(log) \cup CallIds(m) \subseteq Requested(Append(log, m))
<1>1. /\ DOMAIN log = 1..Len(log) /\ Len(log) \in Nat
      /\ DOMAIN Append(log, m) = 1..Len(log) + 1
      /\ \A i \in 1..Len(log) : Append(log, m)[i] = log[i]
      /\ Append(log, m)[Len(log) + 1] = m
  BY AppendProperties, LenProperties
<1>2. \A i \in DOMAIN log : CallIds(log[i]) \subseteq Requested(Append(log, m))
  BY <1>1 DEF Requested
<1>3. CallIds(m) \subseteq Requested(Append(log, m))
  BY <1>1 DEF Requested
<1> QED
  BY <1>2, <1>3 DEF Requested

LEMMA ShownStep ==
  ASSUME IInv, Shown, [Next]_vars
  PROVE  Shown'
<1> SUFFICES ASSUME pc' \in InCall
             PROVE  \A i \in DOMAIN pending' : pending'[i].id \in Requested(disk')
  BY DEF Shown
<1>1. CASE Stream
  <2>1. PICK calls \in NewCalls : Push(Assistant(calls)) /\ pending' = calls
    BY <1>1 DEF Stream
  <2>2. calls \in Seq(Call)
    BY <2>1, NewCallsInOrder DEF IInv, TypeOK
  <2>3. Assistant(calls) \in Message
    BY <2>2 DEF Assistant, Message
  <2>4. CallIds(Assistant(calls)) = {calls[i].id : i \in DOMAIN calls}
    BY DEF CallIds, Assistant
  <2>5. CallIds(Assistant(calls)) \subseteq Requested(disk')
    BY <2>1, <2>3, AppendRequested DEF Push, IInv, TypeOK
  <2> QED
    BY <2>1, <2>4, <2>5
<1>2. CASE Answer
  <2>1. pc \in InCall /\ pending # <<>> /\ current.id \in 1..MaxCalls
    BY <1>2, IdTypes DEF Answer, InCall, IInv, Busy, Call
  <2>2. ToolResult(current.id, outcome # "success") \in Message
    BY <2>1 DEF ToolResult, Message
  <2>3. Requested(disk) \subseteq Requested(disk')
    BY <1>2, <2>2, AppendRequested DEF Answer, Push, IInv, TypeOK
  <2>4. \A i \in DOMAIN Tail(pending) : \E j \in DOMAIN pending : Tail(pending)[i] = pending[j]
    <3>1. /\ pending \in Seq(Call) /\ Tail(pending) \in Seq(Call)
          /\ Len(Tail(pending)) = Len(pending) - 1
          /\ \A i \in 1..Len(Tail(pending)) : Tail(pending)[i] = pending[i + 1]
          /\ Len(pending) \in Nat /\ DOMAIN pending = 1..Len(pending)
          /\ DOMAIN Tail(pending) = 1..Len(Tail(pending))
      BY <2>1, HeadTailProperties, LenProperties DEF IInv, TypeOK
    <3> QED
      BY <3>1
  <2> QED
    BY <1>2, <2>1, <2>3, <2>4 DEF Answer, Shown
<1>3. CASE PreHookAllow \/ PreHookVeto \/ PreHooksDone \/ Authorize \/ Execute \/ PostHook
  BY <1>3 DEF PreHookAllow, PreHookVeto, PreHooksDone, Authorize, Execute, PostHook, call,
              InCall, Shown
<1>4. CASE Abort
  BY <1>4 DEF Abort, call, Shown
<1>5. CASE Fail \/ Crash \/ StartTurn \/ Finish \/ Persist \/ CompactCommand \/ Resume
  BY <1>5 DEF Fail, Crash, Exit, StartTurn, Finish, Persist, CompactCommand, Resume, InCall
<1>6. CASE UNCHANGED vars
  BY <1>6 DEF vars, Shown
<1> QED
  BY <1>1, <1>2, <1>3, <1>4, <1>5, <1>6 DEF Next, Work

(* Whatever crashes, fails or is compacted, a tool that runs is in the     *)
(* session file already: a resumed session knows of every side effect.     *)
THEOREM RecordedCorrect == Spec => RecordedBeforeRun
<1>1. Init => Shown
  BY DEF Init, Shown, InCall
<1>2. IInv /\ Shown /\ [Next]_vars =>
        [Len(ran') > Len(ran) => ran'[Len(ran')].id \in Requested(disk)]_vars
  <2> SUFFICES ASSUME IInv, Shown, [Next]_vars, Len(ran') > Len(ran)
               PROVE  ran'[Len(ran')].id \in Requested(disk)
    OBVIOUS
  <2>1. Len(ran) \in Nat
    BY LenProperties DEF IInv, TypeOK
  <2>2. Execute
    <3> SUFFICES ASSUME ~Execute
                 PROVE  ran' = ran
      BY <2>1
    <3> QED
      BY DEF Next, Work, vars, history, Exit, StartTurn, Stream, PreHookAllow, PreHookVeto,
             PreHooksDone, Authorize, PostHook, Answer, Fail, Finish, Persist, CompactCommand,
             Abort, Crash, Resume
  <2>3. pending # <<>> /\ current \in Call
    BY <2>2, IdTypes DEF IInv, Busy, InCall, Execute
  <2>4. current = pending[1] /\ 1 \in DOMAIN pending
    BY <2>3, EmptySeq, LenProperties DEF IInv, TypeOK, current
  <2>5. current.id \in Requested(disk)
    BY <2>2, <2>4 DEF Shown, Execute, InCall
  <2>6. PICK ok \in BOOLEAN :
          ran' = Append(ran, [id |-> current.id, tool |-> current.tool,
                              input |-> effective_input,
                              approved |-> outcome = "approved", ok |-> ok])
    BY <2>2 DEF Execute
  <2> DEFINE run == [id |-> current.id, tool |-> current.tool, input |-> effective_input,
                     approved |-> outcome = "approved", ok |-> ok]
  <2>7. effective_input \in Inputs
    BY <2>3 DEF effective_input, IInv, TypeOK, HookRunResult, Call
  <2>8. run \in Execution
    BY <2>3, <2>7 DEF Execution, Call
  <2>9. run.id = current.id
    OBVIOUS
  <2> HIDE DEF run
  <2>10. ran \in Seq(Execution) /\ ran' = Append(ran, run)
    BY <2>6 DEF IInv, TypeOK, run
  <2>11. ran'[Len(ran')] = run
    BY <2>8, <2>10, AppendProperties
  <2> QED
    BY <2>5, <2>9, <2>11
<1>3. IInv /\ Shown /\ [Next]_vars => Shown'
  BY ShownStep
<1> QED
  BY <1>1, <1>2, <1>3, Invariance, PTL DEF Spec, RecordedBeforeRun
\* A success told in a log, or about to be told, has its execution.
Told(log) ==
  \A i \in DOMAIN log :
    log[i].role = "Tool" /\ ~log[i].is_error =>
      \E j \in DOMAIN ran : ran[j].id = log[i].id /\ ran[j].ok

Telling ==
  pc \in {"post", "answer"} /\ outcome = "success" =>
    \E j \in DOMAIN ran : ran[j].id = current.id /\ ran[j].ok

\* Outside a call no command has run; and what an abort still lets run, one tool, is
\* the one whose commands are done.
NoCommands == pc \notin InCall => hook.commands = 0

PastHooks ==
  pc \in {"authorize", "execute"} \/ (pc = "pre" /\ hook.commands = config.pre_tool_use)

Stopping ==
  aborted /\ config.pre_tool_use > 0 =>
    Len(ran) <= ranAtAbort + (IF PastHooks THEN 0 ELSE 1)

RInv == Told(messages) /\ Told(disk) /\ Telling /\ NoCommands /\ Stopping

\* A message that is no success, or one that has its execution, can be appended.
LEMMA AppendTold ==
  ASSUME NEW log \in Seq(Message), NEW m \in Message, Told(log),
         m.role = "Tool" /\ ~m.is_error => \E j \in DOMAIN ran : ran[j].id = m.id /\ ran[j].ok
  PROVE  Told(Append(log, m))
<1>1. /\ DOMAIN log = 1..Len(log) /\ Len(log) \in Nat
      /\ DOMAIN Append(log, m) = 1..Len(log) + 1
      /\ \A i \in 1..Len(log) : Append(log, m)[i] = log[i]
      /\ Append(log, m)[Len(log) + 1] = m
  BY AppendProperties, LenProperties
<1>2. \A i \in DOMAIN Append(log, m) :
        \/ i \in DOMAIN log /\ Append(log, m)[i] = log[i]
        \/ Append(log, m)[i] = m
  BY <1>1
<1> QED
  BY <1>2 DEF Told

\* Compaction keeps what it keeps as it is.
LEMMA CompactedTold ==
  ASSUME messages \in Seq(Message), Compactable, Told(messages)
  PROVE  Told(Compacted)
<1> DEFINE first == Len(messages) - PreserveRecent + 1
           tail == SubSeq(messages, first, Len(messages))
<1>1. /\ Len(messages) \in Nat /\ PreserveRecent \in Nat /\ Len(messages) > PreserveRecent
      /\ DOMAIN messages = 1..Len(messages)
  BY LenProperties, ConversationAssumption DEF Compactable, SummaryLen
<1>2. \A i \in first .. Len(messages) : messages[i] \in Message
  BY <1>1, ElementOfSeq
<1>3. /\ tail \in Seq(Message) /\ Len(tail) = PreserveRecent
      /\ \A i \in 1..PreserveRecent : tail[i] = messages[first + i - 1]
  BY <1>1, <1>2, SubSeqProperties
<1>4. <<Summary>> \in Seq(Message) /\ Len(<<Summary>>) = 1 /\ <<Summary>>[1] = Summary
  BY DEF Summary, Message
<1> HIDE DEF tail
<1>5. /\ Compacted = <<Summary>> \o tail
      /\ Len(Compacted) = 1 + PreserveRecent /\ Compacted \in Seq(Message)
      /\ \A i \in 1..1 + PreserveRecent :
           Compacted[i] = IF i <= 1 THEN <<Summary>>[i] ELSE tail[i - 1]
  <2>1. Compacted = <<Summary>> \o tail
    BY DEF Compacted, tail
  <2> QED
    BY <1>1, <1>3, <1>4, <2>1, ConcatProperties
<1>6. DOMAIN Compacted = 1..1 + PreserveRecent
  BY <1>5, LenProperties
<1>7. \A i \in DOMAIN Compacted :
        \/ Compacted[i].role = "System"
        \/ \E j \in DOMAIN messages : Compacted[i] = messages[j]
  <2> SUFFICES ASSUME NEW i \in DOMAIN Compacted, i # 1
               PROVE  \E j \in DOMAIN messages : Compacted[i] = messages[j]
    BY <1>4, <1>5, <1>6 DEF Summary
  <2>1. i - 1 \in 1..PreserveRecent /\ first + (i - 1) - 1 \in DOMAIN messages
    BY <1>1, <1>6
  <2>2. Compacted[i] = tail[i - 1]
    BY <1>1, <1>5, <1>6, <2>1
  <2> QED
    BY <1>3, <2>1, <2>2
<1> QED
  BY <1>7 DEF Told

\* Executions are only ever added, so what was told stays true.
LEMMA RunGrows ==
  ASSUME IInv, Execute
  PROVE  /\ Len(ran) \in Nat /\ Len(ran') = Len(ran) + 1
         /\ DOMAIN ran \subseteq DOMAIN ran'
         /\ \A j \in DOMAIN ran : ran'[j] = ran[j]
         /\ Len(ran') \in DOMAIN ran'
         /\ ran'[Len(ran')].id = current.id
         /\ outcome' = "success" => ran'[Len(ran')].ok
<1>1. PICK ok \in BOOLEAN :
        /\ ran' = Append(ran, [id |-> current.id, tool |-> current.tool,
                               input |-> effective_input,
                               approved |-> outcome = "approved", ok |-> ok])
        /\ outcome' = IF ok THEN "success" ELSE "error"
  BY DEF Execute
<1> DEFINE run == [id |-> current.id, tool |-> current.tool, input |-> effective_input,
                   approved |-> outcome = "approved", ok |-> ok]
<1>2. pending # <<>> /\ current \in Call
  BY IdTypes DEF IInv, Busy, InCall, Execute
<1>3. effective_input \in Inputs
  BY <1>2 DEF effective_input, IInv, TypeOK, HookRunResult, Call
<1>4. run \in Execution
  BY <1>2, <1>3 DEF Execution, Call
<1>5. run.id = current.id /\ (outcome' = "success" => run.ok)
  BY <1>1
<1> HIDE DEF run
<1>6. ran \in Seq(Execution) /\ ran' = Append(ran, run)
  BY <1>1 DEF IInv, TypeOK, run
<1>7. /\ ran' \in Seq(Execution) /\ Len(ran') = Len(ran) + 1
      /\ \A k \in 1..Len(ran) : ran'[k] = ran[k]
      /\ ran'[Len(ran) + 1] = run
  BY <1>4, <1>6, AppendProperties
<1>8. /\ DOMAIN ran = 1..Len(ran) /\ Len(ran) \in Nat
      /\ DOMAIN ran' = 1..(Len(ran) + 1)
  BY <1>6, <1>7, LenProperties
<1> QED
  BY <1>5, <1>7, <1>8

\* The hook commands run and the executions made are numbers.
LEMMA CountTypes ==
  ASSUME TypeOK
  PROVE  /\ hook.commands \in Nat /\ config.pre_tool_use \in Nat
         /\ Len(ran) \in Nat /\ ranAtAbort \in Nat
  BY LenProperties, ConversationAssumption DEF TypeOK, HookRunResult, Config

LEMMA ResultsStep ==
  ASSUME IInv, RInv, [Next]_vars
  PROVE  RInv'
<1>0. /\ hook.commands \in Nat /\ config.pre_tool_use \in Nat
      /\ Len(ran) \in Nat /\ ranAtAbort \in Nat
  BY CountTypes DEF IInv
<1>1. CASE Fail \/ Crash
  <2>1. Exit
    BY <1>1 DEF Fail, Crash
  <2>2. Told(messages)' /\ Told(disk)' /\ Telling'
    BY <2>1 DEF Exit, RInv, Told, Telling
  <2>3. NoCommands' /\ Stopping'
    BY <1>0, <2>1 DEF Exit, RInv, NoCommands, Stopping, PastHooks, InCall, HookAllow
  <2> QED
    BY <2>2, <2>3 DEF RInv
<1>2. CASE StartTurn
  <2>1. User \in Message /\ User.role # "Tool"
    BY DEF User, Message
  <2>2. Told(Append(messages, User)) /\ Told(Append(disk, User))
    BY <2>1, AppendTold DEF RInv, IInv, TypeOK
  <2>3. Told(messages)' /\ Told(disk)'
    BY <1>2, <2>2 DEF StartTurn, Push, Told
  <2>4. Telling' /\ NoCommands' /\ Stopping'
    BY <1>2 DEF StartTurn, call, RInv, Telling, NoCommands, Stopping, InCall
  <2> QED
    BY <2>3, <2>4 DEF RInv
<1>3. CASE Stream
  <2>1. PICK calls \in NewCalls :
          Push(Assistant(calls)) /\ pc' = IF calls = <<>> THEN "finish" ELSE "pre"
    BY <1>3 DEF Stream
  <2>2. calls \in Seq(Call)
    BY <2>1, NewCallsInOrder DEF IInv, TypeOK
  <2>3. Assistant(calls) \in Message /\ Assistant(calls).role # "Tool"
    BY <2>2 DEF Assistant, Message
  <2>4. Told(Append(messages, Assistant(calls))) /\ Told(Append(disk, Assistant(calls)))
    BY <2>3, AppendTold DEF RInv, IInv, TypeOK
  <2>5. ran' = ran /\ hook' = hook /\ config' = config /\ aborted' = aborted
        /\ ranAtAbort' = ranAtAbort
    BY <1>3 DEF Stream
  <2>6. Told(messages)' /\ Told(disk)'
    BY <2>1, <2>4, <2>5 DEF Push, Told
  <2>7. hook.commands = 0
    BY <1>3 DEF Stream, RInv, NoCommands, InCall
  <2>8. Telling' /\ NoCommands'
    BY <2>1, <2>5, <2>7 DEF Telling, NoCommands, InCall
  <2>9. Stopping'
    BY <1>0, <1>3, <2>1, <2>5, <2>7 DEF Stream, RInv, Stopping, PastHooks
  <2> QED
    BY <2>6, <2>8, <2>9 DEF RInv
<1>4. CASE PreHookAllow \/ PreHookVeto \/ PreHooksDone \/ Authorize
  <2>1. /\ UNCHANGED <<config, messages, disk, aborted, ran, ranAtAbort>>
        /\ pc' \in InCall /\ pc' # "post" /\ (pc' = "answer" => outcome' = "refused")
    BY <1>4 DEF PreHookAllow, PreHookVeto, PreHooksDone, Authorize, history, InCall
  <2>2. Told(messages)' /\ Told(disk)' /\ Telling' /\ NoCommands'
    BY <2>1 DEF RInv, Told, Telling, NoCommands
  <2>3. Stopping'
    BY <1>0, <1>4, <2>1 DEF PreHookAllow, PreHookVeto, PreHooksDone, Authorize, call, RInv,
                             Stopping, PastHooks
  <2> QED
    BY <2>2, <2>3 DEF RInv
<1>5. CASE Execute
  <2>1. UNCHANGED <<config, messages, disk, pending, hook, aborted, ranAtAbort>>
        /\ pc = "execute" /\ pc' = "post"
    BY <1>5 DEF Execute
  <2>2. Told(messages)' /\ Told(disk)'
    BY <1>5, <2>1, RunGrows DEF RInv, Told
  <2>3. Telling'
    BY <1>5, <2>1, RunGrows DEF Telling, current
  <2>4. NoCommands' /\ Stopping'
    BY <1>0, <1>5, <2>1, RunGrows DEF RInv, NoCommands, Stopping, PastHooks, InCall
  <2> QED
    BY <2>2, <2>3, <2>4 DEF RInv
<1>6. CASE PostHook
  <2>1. /\ UNCHANGED <<config, messages, disk, pending, hook, aborted, ran, ranAtAbort>>
        /\ pc = "post" /\ pc' = "answer" /\ (outcome' = "success" => outcome = "success")
    BY <1>6 DEF PostHook, history
  <2>2. Told(messages)' /\ Told(disk)' /\ Telling'
    BY <2>1 DEF RInv, Told, Telling, current
  <2>3. NoCommands' /\ Stopping'
    BY <1>0, <2>1 DEF RInv, NoCommands, Stopping, PastHooks, InCall
  <2> QED
    BY <2>2, <2>3 DEF RInv
<1>7. CASE Answer
  <2> DEFINE m == ToolResult(current.id, outcome # "success")
  <2>1. current.id \in 1..MaxCalls
    BY <1>7, IdTypes DEF Answer, InCall, IInv, Busy, Call
  <2>2. m \in Message /\ m.id = current.id /\ m.is_error = (outcome # "success")
    BY <2>1 DEF ToolResult, Message
  <2>3. ~m.is_error => \E j \in DOMAIN ran : ran[j].id = m.id /\ ran[j].ok
    BY <1>7, <2>2 DEF Answer, RInv, Telling
  <2>4. /\ messages' = Append(messages, m) /\ disk' = Append(disk, m)
        /\ UNCHANGED <<config, ran, aborted, ranAtAbort>>
        /\ pc = "answer" /\ pc' \in {"stream", "pre"} /\ hook' = HookAllow
    BY <1>7 DEF Answer, Push, history
  <2> HIDE DEF m
  <2>5. Told(Append(messages, m)) /\ Told(Append(disk, m))
    BY <2>2, <2>3, AppendTold DEF RInv, IInv, TypeOK
  <2>6. Told(messages)' /\ Told(disk)'
    BY <2>4, <2>5 DEF Told
  <2>7. Telling' /\ NoCommands'
    BY <2>4 DEF Telling, NoCommands, HookAllow
  <2>8. Stopping'
    BY <1>0, <2>4 DEF RInv, Stopping, PastHooks, HookAllow
  <2> QED
    BY <2>6, <2>7, <2>8 DEF RInv
<1>8. CASE Finish \/ Persist \/ CompactCommand \/ Resume
  <2>1. /\ messages' \in {messages, disk} \/ (Compactable /\ messages' = Compacted)
        /\ disk' \in {messages, disk}
        /\ pc \notin InCall /\ pc' \notin InCall
        /\ UNCHANGED <<config, call, aborted, ran, ranAtAbort>>
    BY <1>8 DEF Finish, Persist, CompactCommand, Resume, history, InCall
  <2>2. Compactable => Told(Compacted)
    BY CompactedTold DEF RInv, IInv, TypeOK
  <2>3. Told(messages') /\ Told(disk')
    BY <2>1, <2>2 DEF RInv
  <2>4. Told(messages)' /\ Told(disk)'
    BY <2>1, <2>3 DEF Told
  <2>5. Telling' /\ NoCommands'
    BY <2>1 DEF RInv, Telling, NoCommands, InCall, call
  <2>6. Stopping'
    BY <1>0, <2>1 DEF RInv, Stopping, PastHooks, InCall, call
  <2> QED
    BY <2>4, <2>5, <2>6 DEF RInv
<1>9. CASE Abort
  <2>1. /\ UNCHANGED <<config, messages, disk, pc, call, ran>>
        /\ ranAtAbort' = Len(ran)
    BY <1>9 DEF Abort
  <2>2. Told(messages)' /\ Told(disk)' /\ Telling' /\ NoCommands'
    BY <2>1 DEF RInv, Told, Telling, NoCommands, call, current
  <2>3. Stopping'
    BY <1>0, <2>1 DEF Stopping, PastHooks
  <2> QED
    BY <2>2, <2>3 DEF RInv
<1>10. CASE UNCHANGED vars
  BY <1>10 DEF vars, RInv, Told, Telling, NoCommands, Stopping, PastHooks, current
<1> QED
  BY <1>1, <1>2, <1>3, <1>4, <1>5, <1>6, <1>7, <1>8, <1>9, <1>10 DEF Next, Work

(* What a result tells the model is true: a success was an execution       *)
(* without error.  And an abort lets at most the tool run that was past    *)
(* its PreToolUse hooks, whatever the calls, hooks and faults.             *)
THEOREM ResultsCorrect == Spec => []ResultsAreTrue
<1>1. Init => RInv
  BY DEF Init, RInv, Told, Telling, NoCommands, Stopping, HookAllow
<1>2. IInv /\ RInv /\ [Next]_vars => RInv'
  BY ResultsStep
<1>3. IInv /\ RInv => ResultsAreTrue
  <2> SUFFICES ASSUME IInv, RInv
               PROVE  ResultsAreTrue
    OBVIOUS
  <2>1. Len(ran) \in Nat /\ ranAtAbort \in Nat
    BY CountTypes DEF IInv
  <2>2. NoFalseSuccess
    BY DEF RInv, Told, NoFalseSuccess
  <2>3. AbortStopsTools
    BY <2>1 DEF RInv, Stopping, AbortStopsTools
  <2> QED
    BY <2>2, <2>3 DEF ResultsAreTrue
<1> QED
  BY <1>1, <1>2, <1>3, Invariance, PTL DEF Spec

-----------------------------------------------------------------------------
(* The history is whole, whatever the numbers of messages, calls, turns    *)
(* and crashes, and wherever a compaction cuts.                            *)
(*                                                                         *)
(* HistoryIsWhole asks for answers anywhere behind the calls.  It is kept  *)
(* by a compaction only because a result stands in an unbroken run of      *)
(* results behind the message that made its call (Blocks): a cut either    *)
(* keeps that message, or leaves the run at the start, behind the summary. *)
(* And since a process may end at any time, all of it has to hold of the   *)
(* file as well as of the session in memory (Whole, of both).              *)
(*                                                                         *)
(* The last part shows that Conversation implements ToolCalls.             *)

\* Every call is answered behind its message, but for the open ones.
AnsweredBehind(log, open) ==
  \A i \in DOMAIN log : \A id \in CallIds(log[i]) :
    id \in open \/ \E j \in DOMAIN log : i < j /\ log[j].role = "Tool" /\ log[j].id = id

\* From behind r up to k there are results only.
ResultsOnly(log, r, k) == \A j \in DOMAIN log : r < j /\ j <= k => log[j].role = "Tool"

Blocks(log) ==
  \A k \in DOMAIN log : log[k].role = "Tool" =>
    \/ \E r \in DOMAIN log :
         r < k /\ log[k].id \in CallIds(log[r]) /\ ResultsOnly(log, r, k)
    \/ log[1].role = "System" /\ ResultsOnly(log, 1, k)

SummaryFirst(log) == \A i \in DOMAIN log : log[i].role = "System" => i = 1

Whole(log, open) == AnsweredBehind(log, open) /\ Blocks(log) /\ SummaryFirst(log)

\* The calls that have no answer: those that wait, and those of processes that ended.
Open == lost \cup {pending[i].id : i \in DOMAIN pending}

\* The calls that wait were made by one message, and only results stand behind it.
Batch ==
  pc \in InCall =>
    \E r \in DOMAIN messages :
      /\ \A i \in DOMAIN pending : pending[i].id \in CallIds(messages[r])
      /\ ResultsOnly(messages, r, Len(messages))

NothingWaits == pc \notin InCall => pending = <<>>

HInv ==
  Whole(messages, Open) /\ Whole(disk, Open) /\ Batch /\ NothingWaits /\ DiskIsTheSession

-----------------------------------------------------------------------------
(* What the operations on a log keep.                                      *)

LEMMA Appended ==
  ASSUME NEW log \in Seq(Message), NEW m \in Message
  PROVE  /\ DOMAIN log = 1..Len(log) /\ Len(log) \in Nat
         /\ DOMAIN Append(log, m) = 1..Len(log) + 1 /\ Len(Append(log, m)) = Len(log) + 1
         /\ \A i \in 1..Len(log) : Append(log, m)[i] = log[i]
         /\ Append(log, m)[Len(log) + 1] = m
  BY AppendProperties, LenProperties

\* Fewer demands are met as well.
LEMMA WholeMonotone ==
  ASSUME NEW log, NEW open, NEW more, open \subseteq more, Whole(log, open)
  PROVE  Whole(log, more)
  BY DEF Whole, AnsweredBehind

\* A question or a message with new calls, which are open now.
LEMMA AppendWhole ==
  ASSUME NEW log \in Seq(Message), NEW m \in Message, NEW open,
         m.role \notin {"Tool", "System"}, Whole(log, open)
  PROVE  Whole(Append(log, m), open \cup CallIds(m))
<1> DEFINE new == Append(log, m)
           n == Len(log)
<1>1. /\ DOMAIN log = 1..n /\ n \in Nat
      /\ DOMAIN new = 1..n + 1 /\ new[n + 1] = m
      /\ \A i \in 1..n : new[i] = log[i]
  BY Appended
<1> HIDE DEF new, n
<1>2. \A i \in DOMAIN new : (i \in DOMAIN log /\ new[i] = log[i]) \/ i = n + 1
  BY <1>1
<1>3. AnsweredBehind(new, open \cup CallIds(m))
  <2> SUFFICES ASSUME NEW i \in DOMAIN new, NEW id \in CallIds(new[i]), i \in DOMAIN log,
                      new[i] = log[i], id \notin open
               PROVE  \E j \in DOMAIN new : i < j /\ new[j].role = "Tool" /\ new[j].id = id
    BY <1>1, <1>2 DEF AnsweredBehind
  <2>1. PICK j \in DOMAIN log : i < j /\ log[j].role = "Tool" /\ log[j].id = id
    BY DEF Whole, AnsweredBehind
  <2> QED
    BY <1>1, <2>1
<1>4. Blocks(new)
  <2> SUFFICES ASSUME NEW k \in DOMAIN log, log[k].role = "Tool"
               PROVE  \/ \E r \in DOMAIN new :
                           r < k /\ new[k].id \in CallIds(new[r]) /\ ResultsOnly(new, r, k)
                      \/ new[1].role = "System" /\ ResultsOnly(new, 1, k)
    BY <1>1, <1>2 DEF Blocks
  <2>1. \A r \in DOMAIN log : ResultsOnly(log, r, k) => ResultsOnly(new, r, k)
    BY <1>1 DEF ResultsOnly
  <2>2. 1 \in DOMAIN log
    BY <1>1
  <2>3. \/ \E r \in DOMAIN log :
             r < k /\ log[k].id \in CallIds(log[r]) /\ ResultsOnly(log, r, k)
        \/ log[1].role = "System" /\ ResultsOnly(log, 1, k)
    BY DEF Whole, Blocks
  <2> QED
    BY <1>1, <2>1, <2>2, <2>3
<1>5. SummaryFirst(new)
  BY <1>1, <1>2 DEF Whole, SummaryFirst
<1> QED
  BY <1>3, <1>4, <1>5 DEF Whole, new

\* The result of a call whose batch is the last in the log; the call is open no more.
LEMMA AppendResultWhole ==
  ASSUME NEW log \in Seq(Message), NEW m \in Message, NEW open, NEW r \in DOMAIN log,
         m.role = "Tool", m.id \in CallIds(log[r]), ResultsOnly(log, r, Len(log)),
         Whole(log, open)
  PROVE  Whole(Append(log, m), open \ {m.id}) /\ ResultsOnly(Append(log, m), r, Len(log) + 1)
<1> DEFINE new == Append(log, m)
           n == Len(log)
<1>1. /\ DOMAIN log = 1..n /\ n \in Nat
      /\ DOMAIN new = 1..n + 1 /\ new[n + 1] = m
      /\ \A i \in 1..n : new[i] = log[i]
  BY Appended
<1>2. ResultsOnly(log, r, n)
  OBVIOUS
<1> HIDE DEF new, n
<1>3. \A i \in DOMAIN new : (i \in DOMAIN log /\ new[i] = log[i]) \/ i = n + 1
  BY <1>1
<1>4. ResultsOnly(new, r, n + 1)
  BY <1>1, <1>2 DEF ResultsOnly
<1>5. AnsweredBehind(new, open \ {m.id})
  <2> SUFFICES ASSUME NEW i \in DOMAIN new, NEW id \in CallIds(new[i]), id \notin open \ {m.id}
               PROVE  \E j \in DOMAIN new : i < j /\ new[j].role = "Tool" /\ new[j].id = id
    BY DEF AnsweredBehind
  <2>1. i # n + 1
    BY <1>1 DEF CallIds
  <2>2. i \in DOMAIN log /\ new[i] = log[i]
    BY <1>3, <2>1
  <2>3. CASE id = m.id
    BY <1>1, <2>2, <2>3
  <2>4. CASE id # m.id
    <3>1. PICK j \in DOMAIN log : i < j /\ log[j].role = "Tool" /\ log[j].id = id
      BY <2>2, <2>4 DEF Whole, AnsweredBehind
    <3> QED
      BY <1>1, <3>1
  <2> QED
    BY <2>3, <2>4
<1>6. Blocks(new)
  <2> SUFFICES ASSUME NEW k \in DOMAIN new, new[k].role = "Tool"
               PROVE  \/ \E s \in DOMAIN new :
                           s < k /\ new[k].id \in CallIds(new[s]) /\ ResultsOnly(new, s, k)
                      \/ new[1].role = "System" /\ ResultsOnly(new, 1, k)
    BY DEF Blocks
  <2>1. CASE k = n + 1
    BY <1>1, <1>4, <2>1
  <2>2. CASE k # n + 1
    <3>1. k \in DOMAIN log /\ new[k] = log[k] /\ 1 \in DOMAIN log
      BY <1>1, <1>3, <2>2
    <3>2. \A s \in DOMAIN log : ResultsOnly(log, s, k) => ResultsOnly(new, s, k)
      BY <1>1, <3>1 DEF ResultsOnly
    <3>3. \/ \E s \in DOMAIN log :
               s < k /\ log[k].id \in CallIds(log[s]) /\ ResultsOnly(log, s, k)
          \/ log[1].role = "System" /\ ResultsOnly(log, 1, k)
      BY <3>1 DEF Whole, Blocks
    <3> QED
      BY <1>1, <3>1, <3>2, <3>3
  <2> QED
    BY <2>1, <2>2
<1>7. SummaryFirst(new)
  BY <1>1, <1>3 DEF Whole, SummaryFirst
<1> QED
  BY <1>4, <1>5, <1>6, <1>7 DEF Whole, new, n

(* The cut of a compaction, wherever it falls: a result whose call is cut  *)
(* off has only results before it, back to the summary.                    *)
LEMMA CompactedWhole ==
  ASSUME messages \in Seq(Message), Compactable, NEW open, Whole(messages, open)
  PROVE  Whole(Compacted, open)
<1> DEFINE cut == Len(messages) - PreserveRecent - 1
           n == Len(messages)
           new == Compacted
           tail == SubSeq(messages, n - PreserveRecent + 1, n)
<1>1. /\ n \in Nat /\ PreserveRecent \in Nat /\ n > PreserveRecent
      /\ DOMAIN messages = 1..n
  BY LenProperties, ConversationAssumption DEF Compactable, SummaryLen
<1>2. \A i \in n - PreserveRecent + 1 .. n : messages[i] \in Message
  BY <1>1, ElementOfSeq
<1>3. /\ tail \in Seq(Message) /\ Len(tail) = PreserveRecent
      /\ \A i \in 1..PreserveRecent : tail[i] = messages[n - PreserveRecent + 1 + i - 1]
  BY <1>1, <1>2, SubSeqProperties
<1>4. <<Summary>> \in Seq(Message) /\ Len(<<Summary>>) = 1 /\ <<Summary>>[1] = Summary
  BY DEF Summary, Message
<1> HIDE DEF tail
<1>5. /\ Len(new) = 1 + PreserveRecent /\ new \in Seq(Message)
      /\ \A i \in 1..1 + PreserveRecent :
           new[i] = IF i <= 1 THEN <<Summary>>[i] ELSE tail[i - 1]
  <2>1. new = <<Summary>> \o tail
    BY DEF Compacted, tail
  <2> HIDE DEF new
  <2> QED
    BY <1>1, <1>3, <1>4, <2>1, ConcatProperties
<1> HIDE DEF new
<1>6. DOMAIN new = 1..1 + PreserveRecent
  BY <1>5, LenProperties
<1>7. new[1] = Summary
  BY <1>1, <1>4, <1>5
<1>8. \A i \in 2..1 + PreserveRecent : new[i] = messages[i + cut]
  <2> SUFFICES ASSUME NEW i \in 2..1 + PreserveRecent
               PROVE  new[i] = messages[i + cut]
    OBVIOUS
  <2>1. new[i] = tail[i - 1] /\ i - 1 \in 1..PreserveRecent
    BY <1>1, <1>5
  <2>2. n - PreserveRecent + 1 + (i - 1) - 1 = i + cut
    BY <1>1
  <2> QED
    BY <1>3, <2>1, <2>2
<1>9. cut \in Int /\ cut + 1 + PreserveRecent = n /\ cut >= 0
  BY <1>1
<1> HIDE DEF cut, n
<1>10. \A i \in DOMAIN new : i # 1 =>
         i \in 2..1 + PreserveRecent /\ i + cut \in DOMAIN messages /\ new[i] = messages[i + cut]
  BY <1>1, <1>6, <1>8, <1>9
<1>11. \A j \in DOMAIN messages : j > cut + 1 =>
         j - cut \in DOMAIN new /\ new[j - cut] = messages[j] /\ j - cut > 1
  <2> SUFFICES ASSUME NEW j \in DOMAIN messages, j > cut + 1
               PROVE  j - cut \in DOMAIN new /\ new[j - cut] = messages[j] /\ j - cut > 1
    OBVIOUS
  <2>1. j - cut \in 2..1 + PreserveRecent /\ (j - cut) + cut = j
    BY <1>1, <1>9
  <2> QED
    BY <1>1, <1>6, <1>8, <2>1
<1>12. Summary.role = "System" /\ CallIds(Summary) = {}
  BY DEF Summary, CallIds
<1>13. AnsweredBehind(new, open)
  <2> SUFFICES ASSUME NEW i \in DOMAIN new, NEW id \in CallIds(new[i]), id \notin open
               PROVE  \E j \in DOMAIN new : i < j /\ new[j].role = "Tool" /\ new[j].id = id
    BY DEF AnsweredBehind
  <2>1. i # 1
    BY <1>7, <1>12
  <2>2. i \in 2..1 + PreserveRecent /\ i + cut \in DOMAIN messages /\ new[i] = messages[i + cut]
    BY <1>10, <2>1
  <2>3. PICK j \in DOMAIN messages :
          i + cut < j /\ messages[j].role = "Tool" /\ messages[j].id = id
    BY <2>2 DEF Whole, AnsweredBehind
  <2>4. j > cut + 1 /\ i < j - cut
    BY <1>1, <1>9, <2>2, <2>3
  <2> QED
    BY <1>11, <2>3, <2>4
<1>14. Blocks(new)
  <2> SUFFICES ASSUME NEW k \in DOMAIN new, new[k].role = "Tool"
               PROVE  \/ \E r \in DOMAIN new :
                           r < k /\ new[k].id \in CallIds(new[r]) /\ ResultsOnly(new, r, k)
                      \/ new[1].role = "System" /\ ResultsOnly(new, 1, k)
    BY DEF Blocks
  <2>1. k # 1
    BY <1>7, <1>12
  <2>2. k \in 2..1 + PreserveRecent /\ k + cut \in DOMAIN messages /\ new[k] = messages[k + cut]
    BY <1>10, <2>1
  <2>3. \A r \in DOMAIN messages : ResultsOnly(messages, r, k + cut) /\ r <= cut + 1
                                     => ResultsOnly(new, 1, k)
    <3> SUFFICES ASSUME NEW r \in DOMAIN messages, ResultsOnly(messages, r, k + cut),
                        r <= cut + 1, NEW j \in DOMAIN new, 1 < j, j <= k
                 PROVE  new[j].role = "Tool"
      BY DEF ResultsOnly
    <3>1. j \in 2..1 + PreserveRecent /\ j + cut \in DOMAIN messages /\ new[j] = messages[j + cut]
      BY <1>10
    <3>2. r < j + cut /\ j + cut <= k + cut
      BY <1>1, <1>9, <2>2, <3>1
    <3> QED
      BY <3>1, <3>2 DEF ResultsOnly
  <2>4. \/ \E r \in DOMAIN messages :
             /\ r < k + cut /\ messages[k + cut].id \in CallIds(messages[r])
             /\ ResultsOnly(messages, r, k + cut)
        \/ messages[1].role = "System" /\ ResultsOnly(messages, 1, k + cut)
    BY <2>2 DEF Whole, Blocks
  <2>5. CASE messages[1].role = "System" /\ ResultsOnly(messages, 1, k + cut)
    <3>1. 1 \in DOMAIN messages /\ 1 <= cut + 1
      BY <1>1, <1>9
    <3> QED
      BY <1>7, <1>12, <2>3, <2>5, <3>1
  <2>6. ASSUME NEW r \in DOMAIN messages, r < k + cut,
               messages[k + cut].id \in CallIds(messages[r]), ResultsOnly(messages, r, k + cut)
        PROVE  \/ \E s \in DOMAIN new :
                    s < k /\ new[k].id \in CallIds(new[s]) /\ ResultsOnly(new, s, k)
               \/ new[1].role = "System" /\ ResultsOnly(new, 1, k)
    <3>1. CASE r <= cut + 1
      BY <1>7, <1>12, <2>3, <2>6, <3>1
    <3>2. CASE r > cut + 1
      <4>1. r - cut \in DOMAIN new /\ new[r - cut] = messages[r] /\ r - cut < k
        BY <1>1, <1>9, <1>11, <2>2, <2>6, <3>2
      <4>2. ResultsOnly(new, r - cut, k)
        <5> SUFFICES ASSUME NEW j \in DOMAIN new, r - cut < j, j <= k
                     PROVE  new[j].role = "Tool"
          BY DEF ResultsOnly
        <5>1. j # 1
          BY <1>1, <1>9, <3>2
        <5>2. j \in 2..1 + PreserveRecent /\ j + cut \in DOMAIN messages
              /\ new[j] = messages[j + cut]
          BY <1>10, <5>1
        <5>3. r < j + cut /\ j + cut <= k + cut
          BY <1>1, <1>9, <2>2, <5>2
        <5> QED
          BY <2>6, <5>2, <5>3 DEF ResultsOnly
      <4> QED
        BY <2>2, <2>6, <4>1, <4>2
    <3> QED
      BY <1>1, <1>9, <3>1, <3>2
  <2> QED
    BY <2>4, <2>5, <2>6
<1>15. SummaryFirst(new)
  <2> SUFFICES ASSUME NEW i \in DOMAIN new, i # 1, new[i].role = "System"
               PROVE  FALSE
    BY DEF SummaryFirst
  <2>1. i \in 2..1 + PreserveRecent /\ i + cut \in DOMAIN messages /\ new[i] = messages[i + cut]
    BY <1>10
  <2>2. i + cut = 1
    BY <2>1 DEF Whole, SummaryFirst
  <2> QED
    BY <1>1, <1>9, <2>1, <2>2
<1> QED
  BY <1>13, <1>14, <1>15 DEF Whole, new

-----------------------------------------------------------------------------
(* The steps.                                                              *)

\* A step of a call before its answer leaves the logs and the calls as they are.
LEMMA QuietStep ==
  ASSUME HInv, UNCHANGED <<messages, disk, pending, lost>>, pc \in InCall, pc' \in InCall
  PROVE  HInv'
<1>1. Open' = Open
  BY DEF Open
<1>2. Whole(messages', Open') /\ Whole(disk', Open')
  BY <1>1 DEF HInv
<1>3. Batch' /\ NothingWaits' /\ DiskIsTheSession'
  BY DEF HInv, Batch, NothingWaits, DiskIsTheSession, InCall, ResultsOnly
<1> QED
  BY <1>2, <1>3 DEF HInv, Whole, AnsweredBehind, Blocks, SummaryFirst, ResultsOnly

\* What the open calls of a process become when it ends.
LEMMA ExitWhole ==
  ASSUME HInv, Exit
  PROVE  HInv'
<1>1. Open' = Open /\ messages' = messages /\ disk' = disk
  BY DEF Exit, Open
<1>2. Whole(messages', Open') /\ Whole(disk', Open')
  BY <1>1 DEF HInv
<1>3. Batch' /\ NothingWaits' /\ DiskIsTheSession'
  BY DEF Exit, Batch, NothingWaits, DiskIsTheSession, InCall
<1> QED
  BY <1>2, <1>3 DEF HInv, Whole, AnsweredBehind, Blocks, SummaryFirst, ResultsOnly

LEMMA StartTurnWhole ==
  ASSUME IInv, HInv, StartTurn
  PROVE  HInv'
<1>1. User \in Message /\ User.role \notin {"Tool", "System"} /\ CallIds(User) = {}
  BY DEF User, Message, CallIds
<1>2. Open' = Open /\ Open \cup CallIds(User) = Open
  BY <1>1 DEF StartTurn, call, Open
<1>3. messages' = Append(messages, User) /\ disk' = Append(disk, User)
  BY DEF StartTurn, Push
<1>4. Whole(messages', Open') /\ Whole(disk', Open')
  <2>1. Whole(messages, Open) /\ messages \in Seq(Message)
    BY DEF HInv, IInv, TypeOK
  <2>2. Whole(disk, Open) /\ disk \in Seq(Message)
    BY DEF HInv, IInv, TypeOK
  <2>3. Whole(Append(messages, User), Open \cup CallIds(User))
    BY <1>1, <2>1, AppendWhole
  <2>4. Whole(Append(disk, User), Open \cup CallIds(User))
    BY <1>1, <2>2, AppendWhole
  <2> QED
    BY <1>2, <1>3, <2>3, <2>4
<1>5. Batch' /\ NothingWaits' /\ DiskIsTheSession'
  BY <1>3 DEF StartTurn, call, HInv, Batch, NothingWaits, DiskIsTheSession, InCall
<1> QED
  BY <1>4, <1>5 DEF HInv, Whole, AnsweredBehind, Blocks, SummaryFirst, ResultsOnly

LEMMA StreamWhole ==
  ASSUME IInv, HInv, Stream
  PROVE  HInv'
<1>1. PICK calls \in NewCalls :
        /\ Push(Assistant(calls)) /\ pending' = calls
        /\ pc' = IF calls = <<>> THEN "finish" ELSE "pre"
  BY DEF Stream
<1> DEFINE m == Assistant(calls)
<1>2. calls \in Seq(Call)
  BY <1>1, NewCallsInOrder DEF IInv, TypeOK
<1>3. m \in Message /\ m.role \notin {"Tool", "System"}
      /\ CallIds(m) = {calls[i].id : i \in DOMAIN calls}
  BY <1>2 DEF Assistant, Message, CallIds
<1>4. messages' = Append(messages, m) /\ disk' = Append(disk, m) /\ lost' = lost
  BY <1>1 DEF Push, Stream
<1> HIDE DEF m
<1>5. Open \cup CallIds(m) = Open'
  <2>1. pending = <<>>
    BY DEF Stream, HInv, NothingWaits, InCall
  <2>2. Open = lost
    BY <2>1 DEF Open
  <2> QED
    BY <1>1, <1>3, <1>4, <2>2 DEF Open
<1>6. messages \in Seq(Message) /\ disk \in Seq(Message)
  BY DEF IInv, TypeOK
<1>7. Whole(messages', Open') /\ Whole(disk', Open')
  <2>1. Whole(Append(messages, m), Open \cup CallIds(m))
    BY <1>3, <1>6, AppendWhole DEF HInv
  <2>2. Whole(Append(disk, m), Open \cup CallIds(m))
    BY <1>3, <1>6, AppendWhole DEF HInv
  <2> QED
    BY <1>4, <1>5, <2>1, <2>2
<1>8. Batch'
  <2>1. /\ DOMAIN messages' = 1..Len(messages) + 1 /\ Len(messages) \in Nat
        /\ Len(messages') = Len(messages) + 1 /\ messages'[Len(messages) + 1] = m
    BY <1>3, <1>4, <1>6, Appended
  <2>2. Len(messages) + 1 \in DOMAIN messages'
    BY <2>1
  <2>3. \A i \in DOMAIN pending' : pending'[i].id \in CallIds(messages'[Len(messages) + 1])
    BY <1>1, <1>3, <2>1
  <2>4. ResultsOnly(messages', Len(messages) + 1, Len(messages'))
    BY <2>1 DEF ResultsOnly
  <2> QED
    BY <2>2, <2>3, <2>4 DEF Batch, ResultsOnly
<1>9. NothingWaits' /\ DiskIsTheSession'
  BY <1>1, <1>4 DEF Stream, HInv, NothingWaits, DiskIsTheSession, InCall
<1> QED
  BY <1>7, <1>8, <1>9 DEF HInv, Whole, AnsweredBehind, Blocks, SummaryFirst, ResultsOnly

LEMMA AnswerWhole ==
  ASSUME IInv, HInv, Answer
  PROVE  HInv'
<1> DEFINE m == ToolResult(current.id, outcome # "success")
<1>1. pending # <<>> /\ current \in Call
  BY IdTypes DEF IInv, Busy, InCall, Answer
<1>2. m \in Message /\ m.role = "Tool" /\ m.id = current.id
  BY <1>1 DEF ToolResult, Message, Call
<1>3. /\ messages' = Append(messages, m) /\ disk' = Append(disk, m)
      /\ lost' = lost /\ pending' = Tail(pending)
      /\ pc' = IF pending' = <<>> THEN "stream" ELSE "pre"
  BY DEF Answer, Push, history
<1> HIDE DEF m
<1>4. /\ Len(pending) \in Nat /\ DOMAIN pending = 1..Len(pending) /\ 1 \in DOMAIN pending
      /\ current = pending[1]
      /\ DOMAIN Tail(pending) = 1..Len(pending) - 1
      /\ \A i \in 1..Len(pending) - 1 : Tail(pending)[i] = pending[i + 1]
  <2>1. pending \in Seq(Call)
    BY DEF IInv, TypeOK
  <2>2. Tail(pending) \in Seq(Call) /\ Len(Tail(pending)) = Len(pending) - 1
        /\ \A i \in 1..Len(Tail(pending)) : Tail(pending)[i] = pending[i + 1]
    BY <1>1, <2>1, HeadTailProperties
  <2> QED
    BY <1>1, <2>1, <2>2, LenProperties, EmptySeq DEF current
<1>5. messages \in Seq(Message) /\ disk \in Seq(Message) /\ disk = messages
  BY DEF IInv, TypeOK, HInv, DiskIsTheSession, Answer
<1>6. PICK r \in DOMAIN messages :
        /\ \A i \in DOMAIN pending : pending[i].id \in CallIds(messages[r])
        /\ ResultsOnly(messages, r, Len(messages))
  BY DEF HInv, Batch, Answer, InCall
<1>7. m.id \in CallIds(messages[r])
  BY <1>2, <1>4, <1>6
<1>8. Whole(Append(messages, m), Open \ {m.id})
      /\ ResultsOnly(Append(messages, m), r, Len(messages) + 1)
  BY <1>2, <1>5, <1>6, <1>7, AppendResultWhole DEF HInv
<1>9. Open \ {m.id} \subseteq Open'
  <2> SUFFICES ASSUME NEW id \in Open, id # current.id
               PROVE  id \in Open'
    BY <1>2
  <2>1. CASE id \in lost
    BY <1>3, <2>1 DEF Open
  <2>2. ASSUME NEW i \in DOMAIN pending, id = pending[i].id
        PROVE  id \in Open'
    <3>1. i # 1
      BY <1>4, <2>2
    <3>2. i - 1 \in DOMAIN pending' /\ pending'[i - 1] = pending[i]
      BY <1>3, <1>4, <2>2, <3>1
    <3> QED
      BY <2>2, <3>2 DEF Open
  <2> QED
    BY <2>1, <2>2 DEF Open
<1>10. Whole(messages', Open') /\ Whole(disk', Open')
  BY <1>3, <1>5, <1>8, <1>9, WholeMonotone
<1>11. Batch'
  <2>1. /\ r \in DOMAIN messages' /\ messages'[r] = messages[r]
        /\ Len(messages') = Len(messages) + 1
    BY <1>2, <1>3, <1>5, Appended
  <2>2. \A i \in DOMAIN pending' : pending'[i].id \in CallIds(messages'[r])
    BY <1>3, <1>4, <1>6, <2>1
  <2>3. ResultsOnly(messages', r, Len(messages'))
    BY <1>3, <1>8, <2>1
  <2> QED
    BY <2>1, <2>2, <2>3 DEF Batch, ResultsOnly
<1>12. NothingWaits' /\ DiskIsTheSession'
  BY <1>3, <1>5 DEF NothingWaits, DiskIsTheSession, InCall
<1> QED
  BY <1>10, <1>11, <1>12 DEF HInv, Whole, AnsweredBehind, Blocks, SummaryFirst, ResultsOnly

\* Between the turns the session is compacted, saved and loaded again.
LEMMA SessionWhole ==
  ASSUME IInv, HInv, Finish \/ Persist \/ CompactCommand \/ Resume
  PROVE  HInv'
<1>1. /\ messages' \in {messages, disk} \/ (Compactable /\ messages' = Compacted)
      /\ disk' \in {messages, disk}
      /\ pc \notin InCall /\ pc' \notin InCall
      /\ UNCHANGED <<pending, lost>>
  BY DEF Finish, Persist, CompactCommand, Resume, call, history, InCall
<1>2. Open' = Open
  BY <1>1 DEF Open
<1>3. Compactable => Whole(Compacted, Open)
  BY CompactedWhole DEF HInv, IInv, TypeOK
<1>4. Whole(messages', Open') /\ Whole(disk', Open')
  BY <1>1, <1>2, <1>3 DEF HInv
<1>5. Batch' /\ NothingWaits'
  BY <1>1 DEF HInv, Batch, NothingWaits
<1>6. DiskIsTheSession'
  BY DEF Finish, Persist, CompactCommand, Resume, DiskIsTheSession
<1> QED
  BY <1>4, <1>5, <1>6 DEF HInv, Whole, AnsweredBehind, Blocks, SummaryFirst, ResultsOnly

LEMMA HistoryStep ==
  ASSUME IInv, HInv, [Next]_vars
  PROVE  HInv'
<1>1. CASE Fail \/ Crash
  BY <1>1, ExitWhole DEF Fail, Crash
<1>2. CASE PreHookAllow \/ PreHookVeto \/ PreHooksDone \/ Authorize \/ Execute \/ PostHook
  <2>1. UNCHANGED <<messages, disk, pending, lost>> /\ pc \in InCall /\ pc' \in InCall
    BY <1>2 DEF PreHookAllow, PreHookVeto, PreHooksDone, Authorize, Execute, PostHook, history,
                call, InCall
  <2> QED
    BY <2>1, QuietStep
<1>3. CASE Stream
  BY <1>3, StreamWhole
<1>4. CASE Answer
  BY <1>4, AnswerWhole
<1>5. CASE Finish \/ Persist \/ CompactCommand \/ Resume
  BY <1>5, SessionWhole
<1>6. CASE StartTurn
  BY <1>6, StartTurnWhole
<1>7. CASE Abort \/ UNCHANGED vars
  <2>1. UNCHANGED <<messages, disk, pending, lost, pc>>
    BY <1>7 DEF Abort, call, vars
  <2> QED
    BY <2>1 DEF HInv, Whole, AnsweredBehind, Blocks, SummaryFirst, ResultsOnly, Open, Batch,
                NothingWaits, DiskIsTheSession
<1> QED
  BY <1>1, <1>2, <1>3, <1>4, <1>5, <1>6, <1>7 DEF Next, Work

\* What HistoryIsWhole says follows.
LEMMA WholeHistory ==
  ASSUME IInv, HInv
  PROVE  HistoryIsWhole
<1>1. CallsAnswered
  <2> SUFFICES ASSUME pc \in {"idle", "stream", "finish"},
                      NEW id \in Requested(messages), id \notin Answered(messages)
               PROVE  id \in lost
    BY DEF CallsAnswered
  <2>1. Open = lost
    BY DEF Open, HInv, NothingWaits, InCall
  <2>2. PICK i \in DOMAIN messages : id \in CallIds(messages[i])
    BY DEF Requested
  <2>3. id \in Open \/ \E j \in DOMAIN messages : messages[j].role = "Tool" /\ messages[j].id = id
    BY <2>2 DEF HInv, Whole, AnsweredBehind
  <2> QED
    BY <2>1, <2>3 DEF Answered
<1>2. OrphansOnlyBehindSummary
  <2> SUFFICES ASSUME NEW i \in DOMAIN messages, messages[i].role = "Tool",
                      messages[i].id \notin Requested(SubSeq(messages, 1, i - 1))
               PROVE  /\ messages[1].role = "System"
                      /\ \A j \in 2..i : messages[j].role = "Tool"
    BY DEF OrphansOnlyBehindSummary
  <2>1. messages \in Seq(Message) /\ DOMAIN messages = 1..Len(messages) /\ Len(messages) \in Nat
    BY LenProperties DEF IInv, TypeOK
  <2>2. /\ DOMAIN SubSeq(messages, 1, i - 1) = 1..i - 1
        /\ \A r \in 1..i - 1 : SubSeq(messages, 1, i - 1)[r] = messages[r]
    <3>1. \A r \in 1..i - 1 : messages[r] \in Message
      BY <2>1, ElementOfSeq
    <3>2. 1 \in Int /\ i - 1 \in Int
      BY <2>1
    <3>3. /\ SubSeq(messages, 1, i - 1) \in Seq(Message)
          /\ Len(SubSeq(messages, 1, i - 1)) = i - 1
          /\ \A r \in 1..i - 1 : SubSeq(messages, 1, i - 1)[r] = messages[1 + r - 1]
      BY <2>1, <3>1, <3>2, SubSeqProperties
    <3> QED
      BY <2>1, <3>3, LenProperties
  <2>3. ~\E r \in DOMAIN messages : r < i /\ messages[i].id \in CallIds(messages[r])
    <3> SUFFICES ASSUME NEW r \in DOMAIN messages, r < i, messages[i].id \in CallIds(messages[r])
                 PROVE  FALSE
      OBVIOUS
    <3>1. r \in DOMAIN SubSeq(messages, 1, i - 1)
          /\ messages[i].id \in CallIds(SubSeq(messages, 1, i - 1)[r])
      BY <2>1, <2>2
    <3> QED
      BY <3>1 DEF Requested
  <2>4. messages[1].role = "System" /\ ResultsOnly(messages, 1, i)
    BY <2>3 DEF HInv, Whole, Blocks
  <2> QED
    BY <2>1, <2>4 DEF ResultsOnly
<1>3. OneSummaryFirst
  BY DEF HInv, Whole, SummaryFirst, OneSummaryFirst
<1> QED
  BY <1>1, <1>2, <1>3 DEF HInv, HistoryIsWhole

(* The next request and a resumed process see a whole history: run_turn    *)
(* answers every call, push_message keeps the file equal to the session,   *)
(* and compact_session cuts only where the rest stays readable.            *)
THEOREM HistoryCorrect == Spec => []HistoryIsWhole
<1>1. Init => HInv
  <2> SUFFICES ASSUME Init
               PROVE  HInv
    OBVIOUS
  <2>1. messages = <<>> /\ disk = <<>> /\ pending = <<>> /\ pc = "idle" /\ DOMAIN <<>> = {}
    BY DEF Init
  <2> QED
    BY <2>1 DEF HInv, Whole, AnsweredBehind, Blocks, SummaryFirst, Batch, NothingWaits,
                DiskIsTheSession, InCall
<1>2. IInv /\ HInv /\ [Next]_vars => HInv'
  BY HistoryStep
<1>3. IInv /\ HInv => HistoryIsWhole
  BY WholeHistory
<1> QED
  BY <1>1, <1>2, <1>3, Invariance, PTL DEF Spec
-----------------------------------------------------------------------------
(* The promise of ToolCalls.  What is known of the current call tells how  *)
(* far it is, and a call is lost only when it was made and waits no more.  *)
Phases ==
  /\ pc \in {"pre", "authorize"} => outcome = "unknown"
  /\ pc = "execute" => outcome \in {"granted", "approved"}
  /\ pc = "post" => outcome \in {"success", "error"}
  /\ pc \notin InCall => outcome = "unknown" /\ pending = <<>>

LostMade ==
  \A id \in lost : id < nextId /\ \A i \in DOMAIN pending : pending[i].id # id

PInv == Phases /\ LostMade

Waiting == {pending[i].id : i \in DOMAIN pending}

LEMMA PhasesStep ==
  ASSUME IInv, PInv, [Next]_vars
  PROVE  PInv'
<1>1. CASE Fail \/ Crash
  <2>1. Exit
    BY <1>1 DEF Fail, Crash
  <2>2. \A i \in DOMAIN pending : pending[i].id < nextId
    BY DEF IInv, InOrder
  <2> QED
    BY <2>1, <2>2 DEF Exit, PInv, Phases, LostMade, InCall
<1>2. CASE PreHookAllow \/ PreHookVeto \/ PreHooksDone \/ Execute \/ PostHook
  BY <1>2 DEF PreHookAllow, PreHookVeto, PreHooksDone, Execute, PostHook, call, history,
              PInv, Phases, LostMade, InCall
<1>3. CASE Authorize
  BY <1>3 DEF Authorize, history, PInv, Phases, LostMade, InCall
<1>4. CASE Stream
  <2>1. PICK calls \in NewCalls :
          /\ pending' = calls
          /\ nextId' = nextId + Len(calls)
          /\ pc' = IF calls = <<>> THEN "finish" ELSE "pre"
    BY <1>4 DEF Stream
  <2>2. /\ calls \in Seq(Call)
        /\ \A i \in DOMAIN calls : i \in 1..Len(calls) /\ calls[i].id = nextId + i - 1
    BY <2>1, NewCallsInOrder DEF IInv, TypeOK
  <2>3. nextId \in Nat /\ Len(calls) \in Nat
    BY <2>2, ConversationAssumption DEF IInv, TypeOK
  <2>4. lost' = lost /\ outcome' = outcome /\ outcome = "unknown"
    BY <1>4 DEF Stream, PInv, Phases, InCall
  <2>5. \A id \in lost : id \in Nat
    BY ConversationAssumption DEF IInv, TypeOK
  <2>6. LostMade'
    BY <2>1, <2>2, <2>3, <2>4, <2>5 DEF PInv, LostMade
  <2> QED
    BY <2>1, <2>4, <2>6 DEF PInv, Phases, InCall
<1>5. CASE Answer
  <2>1. pending \in Seq(Call) /\ pending # <<>>
    BY <1>5 DEF IInv, TypeOK, Busy, InCall, Answer
  <2>2. /\ Tail(pending) \in Seq(Call)
        /\ \A i \in DOMAIN Tail(pending) :
             i + 1 \in DOMAIN pending /\ Tail(pending)[i] = pending[i + 1]
    BY <2>1, HeadTailProperties, LenProperties
  <2>3. /\ pending' = Tail(pending) /\ outcome' = "unknown"
        /\ pc' = IF pending' = <<>> THEN "stream" ELSE "pre"
        /\ lost' = lost /\ nextId' = nextId
    BY <1>5 DEF Answer, history
  <2> QED
    BY <2>2, <2>3 DEF PInv, Phases, LostMade, InCall
<1>6. CASE Finish \/ Persist \/ CompactCommand \/ Resume \/ StartTurn
  BY <1>6 DEF Finish, Persist, CompactCommand, Resume, StartTurn, call, history,
              PInv, Phases, LostMade, InCall
<1>7. CASE Abort \/ UNCHANGED vars
  BY <1>7 DEF Abort, call, vars, PInv, Phases, LostMade, InCall
<1> QED
  BY <1>1, <1>2, <1>3, <1>4, <1>5, <1>6, <1>7 DEF Next, Work

\* The calls that wait were made, and none of them is lost.
LEMMA WaitingMade ==
  ASSUME IInv, PInv
  PROVE  /\ \A i \in DOMAIN pending :
              /\ pending[i].id \in 1..MaxCalls /\ pending[i].id \in Nat
              /\ pending[i].id < nextId /\ pending[i].id \notin lost
         /\ nextId \in Nat /\ \A id \in 1..MaxCalls : id \in Nat
<1>1. \A i \in DOMAIN pending : pending[i] \in Call
  BY LenProperties, ElementOfSeq DEF IInv, TypeOK
<1>2. \A i \in DOMAIN pending : pending[i].id < nextId /\ pending[i].id \notin lost
  BY DEF IInv, InOrder, PInv, LostMade
<1>3. nextId \in Nat /\ \A id \in 1..MaxCalls : id \in Nat
  BY ConversationAssumption DEF IInv, TypeOK
<1> QED
  BY <1>1, <1>2, <1>3 DEF Call

\* The calls that ToolCalls has unsettled are those that wait ...
LEMMA UnsettledWait ==
  ASSUME IInv, PInv
  PROVE  Calls!Unsettled = Waiting
<1>1. \A i \in DOMAIN pending : /\ pending[i].id \in 1..MaxCalls
                                /\ pending[i].id \in Nat /\ pending[i].id < nextId
                                /\ pending[i].id \notin lost
  BY WaitingMade
<1>2. nextId \in Nat /\ \A id \in 1..MaxCalls : id \in Nat
  BY WaitingMade
<1>3. ASSUME NEW id \in 1..MaxCalls
      PROVE  status[id] \in {"open", "running"} <=> id \in Waiting
  <2>1. CASE id \in Waiting
    <3>1. ~(id >= nextId) /\ id \notin lost
      BY <1>1, <1>2, <2>1 DEF Waiting
    <3> QED
      BY <2>1, <3>1 DEF status, Waiting
  <2>2. CASE id \notin Waiting
    BY <2>2 DEF status, Waiting
  <2> QED
    BY <2>1, <2>2
<1>4. Waiting \subseteq 1..MaxCalls
  BY <1>1 DEF Waiting
<1> QED
  BY <1>3, <1>4 DEF Calls!Unsettled

\* ... and the current call is the first of them.
LEMMA CurrentIsFirst ==
  ASSUME IInv, PInv, pending # <<>>
  PROVE  /\ Calls!First(current.id)
         /\ current.id \in 1..MaxCalls
         /\ status[current.id] =
              IF outcome \in {"success", "error"} THEN "running" ELSE "open"
<1>1. /\ pending \in Seq(Call) /\ DOMAIN pending = 1..Len(pending) /\ Len(pending) \in Nat
      /\ 1 \in DOMAIN pending /\ current = pending[1]
  BY LenProperties, EmptySeq DEF IInv, TypeOK, current
<1>2. current.id \in 1..MaxCalls /\ current.id \in Nat
  BY IdTypes DEF IInv, Call
<1>3. \A i \in DOMAIN pending : current.id <= pending[i].id
  BY <1>1, IdTypes DEF IInv, InOrder
<1>4. current.id \in Waiting /\ \A id \in Waiting : current.id <= id
  BY <1>1, <1>3 DEF Waiting
<1>5. Calls!First(current.id)
  BY <1>4, UnsettledWait DEF Calls!First
<1>6. current.id < nextId /\ current.id \notin lost /\ nextId \in Nat
  BY <1>1, WaitingMade
<1>7. status[current.id] = IF outcome \in {"success", "error"} THEN "running" ELSE "open"
  <2>1. ~(current.id >= nextId)
    BY <1>2, <1>6
  <2> QED
    BY <1>1, <1>2, <1>6, <2>1 DEF status
<1> QED
  BY <1>2, <1>5, <1>7

\* What the mapping looks at.
LEMMA StatusStays ==
  ASSUME UNCHANGED <<nextId, lost, pending>>,
         outcome \in {"success", "error"} <=> outcome' \in {"success", "error"}
  PROVE  status' = status
  BY DEF status, current

LEMMA CallsStep ==
  ASSUME IInv, PInv, IInv', PInv', [Next]_vars
  PROVE  [Calls!Next]_status
<1>1. CASE Fail \/ Crash
  <2>1. Exit
    BY <1>1 DEF Fail, Crash
  <2>2. pending' = <<>> /\ nextId' = nextId /\ lost' = lost \cup Waiting /\ DOMAIN pending' = {}
    BY <2>1 DEF Exit, Waiting
  <2>3. \A id \in Waiting : id < nextId /\ id \in Nat
    BY IdTypes DEF IInv, InOrder, Waiting
  <2>4. nextId \in Nat /\ \A id \in 1..MaxCalls : id \in Nat
    BY ConversationAssumption DEF IInv, TypeOK
  <2>5. status' = [id \in 1..MaxCalls |-> IF id \in Waiting THEN "lost" ELSE status[id]]
    <3>1. ASSUME NEW id \in 1..MaxCalls
          PROVE  status'[id] = IF id \in Waiting THEN "lost" ELSE status[id]
      <4>1. CASE id \in Waiting
        BY <2>2, <2>3, <2>4, <4>1 DEF status
      <4>2. CASE id \notin Waiting
        BY <2>2, <4>2 DEF status, Waiting
      <4> QED
        BY <4>1, <4>2
    <3> QED
      BY <3>1 DEF status
  <2>6. CASE Waiting = {}
    <3>1. status' = status
      BY <2>5, <2>6 DEF status
    <3> QED
      BY <3>1
  <2>7. CASE Waiting # {}
    BY <2>5, <2>7, UnsettledWait DEF Calls!Next, Calls!Settle, Calls!Lose
  <2> QED
    BY <2>6, <2>7
<1>2. CASE PreHookAllow \/ PreHookVeto \/ PreHooksDone
  <2>1. status' = status
    BY <1>2, StatusStays DEF PreHookAllow, PreHookVeto, PreHooksDone, call, history,
                             PInv, Phases
  <2> QED
    BY <2>1
<1>3. CASE Authorize \/ PostHook
  <2>1. status' = status
    BY <1>3, StatusStays DEF Authorize, PostHook, history, PInv, Phases
  <2> QED
    BY <2>1
<1>4. CASE Execute
  <2>1. /\ pending # <<>> /\ outcome \in {"granted", "approved"}
        /\ outcome' \in {"success", "error"} /\ UNCHANGED <<nextId, lost, pending>>
    BY <1>4 DEF Execute, IInv, Busy, InCall, PInv, Phases
  <2>2. /\ Calls!First(current.id) /\ current.id \in 1..MaxCalls
        /\ status[current.id] = "open"
    BY <2>1, CurrentIsFirst
  <2>3. status'[current.id] = "running"
    <3>1. 1 \in DOMAIN pending /\ current = pending[1]
      BY <2>1, LenProperties, EmptySeq DEF IInv, TypeOK, current
    <3>2. ~(current.id >= nextId) /\ current.id \notin lost
      BY <2>2, <3>1, WaitingMade
    <3> QED
      BY <2>1, <2>2, <3>1, <3>2 DEF status, current
  <2>4. \A id \in 1..MaxCalls : id # current.id => status'[id] = status[id]
    BY <2>1 DEF status, current
  <2>5. status' = [status EXCEPT ![current.id] = "running"]
    <3>1. /\ status = [id \in 1..MaxCalls |-> status[id]]
          /\ status' = [id \in 1..MaxCalls |-> status'[id]]
      BY DEF status
    <3> QED
      BY <2>2, <2>3, <2>4, <3>1
  <2> QED
    BY <2>2, <2>5 DEF Calls!Next, Calls!Run
<1>5. CASE Stream
  <2>1. PICK calls \in NewCalls :
          pending' = calls /\ nextId' = nextId + Len(calls)
    BY <1>5 DEF Stream
  <2>2. /\ calls \in Seq(Call)
        /\ nextId + Len(calls) \in 1..MaxCalls + 1
        /\ \A i \in DOMAIN calls : i \in 1..Len(calls) /\ calls[i].id = nextId + i - 1
    BY <2>1, NewCallsInOrder DEF IInv, TypeOK
  <2>3. /\ nextId \in Nat /\ nextId >= 1 /\ Len(calls) \in Nat /\ DOMAIN calls = 1..Len(calls)
        /\ MaxCalls \in Nat
    BY <2>2, LenProperties, ConversationAssumption DEF IInv, TypeOK
  <2>4. lost' = lost /\ outcome' = "unknown" /\ pending = <<>> /\ DOMAIN pending = {}
    BY <1>5 DEF Stream, PInv, Phases, InCall
  <2>5. Waiting = {}
    BY <2>4 DEF Waiting
  <2>6. \A id \in lost : id < nextId
    BY DEF PInv, LostMade
  <2> DEFINE last == nextId + Len(calls) - 1
  <2>7. ASSUME NEW id \in 1..MaxCalls
        PROVE  status'[id] =
                 IF status[id] = "unmade" /\ id <= last THEN "open" ELSE status[id]
    <3>1. id \in Nat
      BY <2>3
    <3>2. CASE id < nextId
      <4>1. ~(id >= nextId) /\ ~(id >= nextId')
        BY <2>1, <2>3, <3>1, <3>2
      <4>2. \A i \in DOMAIN calls : calls[i].id # id
        BY <2>2, <2>3, <3>1, <3>2
      <4> QED
        BY <2>1, <2>4, <4>1, <4>2 DEF status
    <3>3. CASE id >= nextId /\ id <= last
      <4>1. id >= nextId /\ ~(id >= nextId') /\ id \notin lost
        BY <2>1, <2>3, <2>6, <3>1, <3>3
      <4>2. id - nextId + 1 \in DOMAIN calls /\ calls[id - nextId + 1].id = id
        <5>1. id - nextId + 1 \in 1..Len(calls)
          BY <2>3, <3>1, <3>3
        <5>2. calls[id - nextId + 1].id = nextId + (id - nextId + 1) - 1
          BY <2>2, <2>3, <5>1
        <5>3. nextId + (id - nextId + 1) - 1 = id
          BY <2>3, <3>1
        <5> QED
          BY <2>3, <5>1, <5>2, <5>3
      <4> QED
        BY <2>1, <2>4, <3>3, <4>1, <4>2 DEF status
    <3>4. CASE id > last
      <4>1. id >= nextId /\ id >= nextId' /\ ~(id <= last)
        BY <2>1, <2>3, <3>1, <3>4
      <4> QED
        BY <4>1 DEF status
    <3> QED
      BY <2>3, <3>1, <3>2, <3>3, <3>4
  <2>8. status' = [id \in 1..MaxCalls |->
                     IF status[id] = "unmade" /\ id <= last THEN "open" ELSE status[id]]
    BY <2>7 DEF status
  <2>9. CASE last \in 1..MaxCalls
    BY <2>5, <2>8, <2>9, UnsettledWait DEF Calls!Next, Calls!Open
  <2>10. CASE last \notin 1..MaxCalls
    <3>1. last = 0 /\ nextId = 1 /\ Len(calls) = 0
      BY <2>2, <2>3, <2>10
    <3>2. \A id \in 1..MaxCalls : ~(id <= last)
      BY <2>3, <3>1
    <3>3. status' = status
      BY <2>8, <3>2 DEF status
    <3> QED
      BY <3>3
  <2> QED
    BY <2>9, <2>10
<1>6. CASE Answer
  <2>1. pending \in Seq(Call) /\ pending # <<>>
    BY <1>6 DEF IInv, TypeOK, Busy, InCall, Answer
  <2>2. pending' = Tail(pending) /\ outcome' = "unknown" /\ lost' = lost /\ nextId' = nextId
    BY <1>6 DEF Answer, history
  <2>3. /\ Calls!First(current.id) /\ current.id \in 1..MaxCalls
    BY <2>1, CurrentIsFirst
  <2>4. /\ Len(pending) \in Nat /\ DOMAIN pending = 1..Len(pending)
        /\ 1 \in DOMAIN pending /\ current = pending[1]
        /\ DOMAIN Tail(pending) = 1..Len(pending) - 1
        /\ \A i \in DOMAIN Tail(pending) : Tail(pending)[i] = pending[i + 1]
    BY <2>1, HeadTailProperties, LenProperties, EmptySeq DEF current
  <2>5. \A i \in DOMAIN pending : i # 1 => pending[i].id # current.id
    BY <2>4, IdTypes DEF IInv, InOrder
  <2>6. Waiting' = Waiting \ {current.id}
    <3>1. \A i \in DOMAIN Tail(pending) : i + 1 \in DOMAIN pending /\ i + 1 # 1
      BY <2>4
    <3>2. \A i \in DOMAIN pending : i # 1 =>
            i - 1 \in DOMAIN Tail(pending) /\ Tail(pending)[i - 1] = pending[i]
      BY <2>4
    <3>3. ASSUME NEW id \in Waiting'
          PROVE  id \in Waiting /\ id # current.id
      <4>1. PICK i \in DOMAIN Tail(pending) : id = Tail(pending)[i].id
        BY <2>2 DEF Waiting
      <4>2. id = pending[i + 1].id /\ i + 1 \in DOMAIN pending /\ i + 1 # 1
        BY <2>4, <3>1, <4>1
      <4> QED
        BY <2>5, <4>2 DEF Waiting
    <3>4. ASSUME NEW id \in Waiting, id # current.id
          PROVE  id \in Waiting'
      <4>1. PICK i \in DOMAIN pending : id = pending[i].id
        BY DEF Waiting
      <4>2. i # 1
        BY <2>4, <3>4, <4>1
      <4> QED
        BY <2>2, <3>2, <4>1, <4>2 DEF Waiting
    <3> QED
      BY <3>3, <3>4
  <2>7. current.id < nextId /\ current.id \notin lost /\ nextId \in Nat /\ current.id \in Nat
    BY <2>4, WaitingMade
  <2>8. \A id : (\A i \in DOMAIN pending : pending[i].id # id) <=> id \notin Waiting
    BY DEF Waiting
  <2>9. \A id : (\A i \in DOMAIN pending' : pending'[i].id # id) <=> id \notin Waiting'
    BY DEF Waiting
  <2>10. ASSUME NEW id \in 1..MaxCalls
         PROVE  status'[id] = IF id = current.id THEN "closed" ELSE status[id]
    <3>1. CASE id = current.id
      <4>1. ~(id >= nextId') /\ id \notin lost' /\ id \notin Waiting'
        BY <2>2, <2>6, <2>7, <3>1
      <4> QED
        BY <2>9, <3>1, <4>1 DEF status
    <3>2. CASE id # current.id
      <4>1. id \in Waiting' <=> id \in Waiting
        BY <2>6, <3>2
      <4>2. (\A i \in DOMAIN pending' : pending'[i].id # id)
              <=> (\A i \in DOMAIN pending : pending[i].id # id)
        BY <2>8, <2>9, <4>1
      <4> QED
        BY <2>2, <3>2, <4>2 DEF status
    <3> QED
      BY <3>1, <3>2
  <2>11. status' = [status EXCEPT ![current.id] = "closed"]
    <3>1. /\ status = [id \in 1..MaxCalls |-> status[id]]
          /\ status' = [id \in 1..MaxCalls |-> status'[id]]
      BY DEF status
    <3> QED
      BY <2>3, <2>10, <3>1
  <2> QED
    BY <2>3, <2>11 DEF Calls!Next, Calls!Settle, Calls!Close
<1>7. CASE Finish \/ Persist \/ CompactCommand \/ Resume \/ StartTurn
  <2>1. status' = status
    BY <1>7, StatusStays DEF Finish, Persist, CompactCommand, Resume, StartTurn, call, history
  <2> QED
    BY <2>1
<1>8. CASE Abort \/ UNCHANGED vars
  <2>1. status' = status
    BY <1>8, StatusStays DEF Abort, call, vars
  <2> QED
    BY <2>1
<1> QED
  BY <1>1, <1>2, <1>3, <1>4, <1>5, <1>6, <1>7, <1>8 DEF Next, Work

(* The runtime implements the promise of ToolCalls (its safety): calls are *)
(* opened as a batch, in order, handled one at a time, run at most once    *)
(* and only while open, and lost only with their process.                  *)
THEOREM CallsCorrect == Spec => Calls!Spec
<1>1. Init => PInv
  <2> SUFFICES ASSUME Init
               PROVE  PInv
    OBVIOUS
  <2> QED
    BY DEF Init, PInv, Phases, LostMade, InCall
<1>2. Init => Calls!Init
  <2> SUFFICES ASSUME Init
               PROVE  Calls!Init
    OBVIOUS
  <2>1. nextId = 1 /\ \A id \in 1..MaxCalls : id >= 1
    BY ConversationAssumption DEF Init
  <2> QED
    BY <2>1 DEF Calls!Init, status
<1>3. IInv /\ PInv /\ [Next]_vars => PInv'
  BY PhasesStep
<1>4. IInv /\ PInv /\ IInv' /\ PInv' /\ [Next]_vars => [Calls!Next]_status
  BY CallsStep
<1> QED
  BY <1>1, <1>2, <1>3, <1>4, Invariance, PTL DEF Spec, Calls!Spec
===============================================================================
