----------------------------- MODULE Conversation -----------------------------
(***************************************************************************)
(* ConversationRuntime::run_turn as LiveCli (or a sub-agent) drives it: a  *)
(* user message, then a loop that asks the model for an assistant message  *)
(* and handles the tool calls in it one after the other (PreToolUse hooks, *)
(* permission, execution, PostToolUse hooks, result message), until a      *)
(* message without calls ends the turn; then automatic compaction and      *)
(* persist_session.  Every message is appended to the session file as it   *)
(* is pushed.  A turn that fails ends the process, as a crash does; the    *)
(* session is then resumed from its file.                                  *)
(*                                                                         *)
(* The model, the hooks, the tools and the user answer anything they may.  *)
(* Texts are left out: a message is its role and the calls it makes or     *)
(* answers.                                                                *)
(***************************************************************************)
EXTENDS Permissions, Sequences, FiniteSets

CONSTANTS
  Policies,        \* the permission policies a run may be configured with
  MaxIterations,   \* with_max_iterations
  Limited,         \* whether a run may have that limit: a sub-agent's has, LiveCli's has not
  PreHooks,        \* the numbers of PreToolUse commands a run may be configured with
  PreserveRecent,  \* CompactionConfig::preserve_recent_messages
  Threshold,       \* auto_compaction_input_tokens_threshold, in assistant messages
  MaxCalls,        \* bound: calls the model makes
  MaxTurns         \* bound: turns the user starts

ASSUME ConversationAssumption ==
  /\ Policies \subseteq PermissionPolicy
  /\ MaxIterations \in Nat
  /\ Limited \subseteq BOOLEAN
  /\ PreHooks \subseteq Nat
  /\ PreserveRecent \in Nat
  /\ Threshold \in Nat
  /\ MaxCalls \in Nat
  /\ MaxTurns \in Nat

VARIABLES
  config,      \* policy, hooks, prompter and limit of the run, chosen once
  messages,    \* Session::messages
  disk,        \* the messages in the session file
  pc,          \* where the process is
  iterations,  \* of the turn
  pending,     \* pending_tool_uses not answered yet, the current one first
  hook,        \* what the PreToolUse commands of the current call have said so far
  outcome,     \* what is known of the current call
  aborted,     \* the turn's HookAbortSignal
  turns,       \* turns started
  nextId,      \* the id of the next call the model makes
  ran,         \* history: the executions, in order
  ranAtAbort,  \* history: how many there were when the turn was aborted
  lost         \* history: the calls open when a process ended

vars == <<config, messages, disk, pc, iterations, pending, hook, outcome, aborted,
          turns, nextId, ran, ranAtAbort, lost>>
call == <<pending, hook, outcome>>
history == <<turns, nextId, ran, ranAtAbort, lost>>

Config == [policy : Policies, pre_tool_use : PreHooks, post_tool_use : BOOLEAN,
           prompter : BOOLEAN, limited : Limited]

\* The provider gives every call an id of its own.
Call == [id : 1..MaxCalls, tool : Tools, input : Inputs]

Message ==
  [role : {"User", "System"}]
    \cup [role : {"Assistant"}, calls : Seq(Call)]
    \cup [role : {"Tool"}, id : 1..MaxCalls, is_error : BOOLEAN]
User == [role |-> "User"]
Summary == [role |-> "System"]
Assistant(calls) == [role |-> "Assistant", calls |-> calls]
ToolResult(id, is_error) == [role |-> "Tool", id |-> id, is_error |-> is_error]

HookRunResult ==
  [commands : Nat, permission_override : Overrides, updated_input : Inputs \cup {"None"}]
HookAllow == [commands |-> 0, permission_override |-> "None", updated_input |-> "None"]

Execution == [id : 1..MaxCalls, tool : Tools, input : Inputs, approved : BOOLEAN,
              ok : BOOLEAN]

TurnSteps == {"stream", "pre", "authorize", "execute", "post", "answer"}
PC == TurnSteps \cup {"idle", "finish", "persist", "exited"}
Outcomes == {"unknown", "granted", "approved", "refused", "success", "error"}

-----------------------------------------------------------------------------
(* The session.                                                            *)

\* Mutant of Push: the file is written when the turn ends.
PushLater(message) ==
  /\ messages' = Append(messages, message)
  /\ disk' = disk

\* push_message: in memory, and appended to the session file.
Push(message) ==
  /\ messages' = Append(messages, message)
  /\ disk' = Append(disk, message)

\* A failed turn or a crash: what was only in memory is gone.
Exit ==
  /\ pc' = "exited"
  /\ lost' = lost \cup {pending[i].id : i \in DOMAIN pending}
  /\ pending' = <<>> /\ hook' = HookAllow /\ outcome' = "unknown"
  /\ UNCHANGED <<config, messages, disk, iterations, aborted, turns, nextId, ran, ranAtAbort>>

SummaryLen == IF messages # <<>> /\ messages[1].role = "System" THEN 1 ELSE 0

\* should_compact, for a session with tokens enough.
Compactable == Len(messages) - SummaryLen > PreserveRecent

\* Mutant of Compacted: the summary is put before the old one.
CompactedTwice ==
  <<Summary>> \o SubSeq(messages, 1, SummaryLen)
    \o SubSeq(messages, Len(messages) - PreserveRecent + 1, Len(messages))

\* compact_session: one summary, merged with the old one, and the recent tail as it is.
Compacted ==
  <<Summary>> \o SubSeq(messages, Len(messages) - PreserveRecent + 1, Len(messages))

\* UsageTracker::from_session and the messages recorded since: one unit for each answer.
Usage == Cardinality({i \in DOMAIN messages : messages[i].role = "Assistant"})
-----------------------------------------------------------------------------
(* A turn.                                                                 *)

StartTurn ==
  /\ pc = "idle" /\ turns < MaxTurns
  /\ turns' = turns + 1
  /\ pc' = "stream" /\ iterations' = 0 /\ aborted' = FALSE
  /\ Push(User)
  /\ ranAtAbort' = Len(ran)
  /\ UNCHANGED <<config, call, nextId, ran, lost>>

\* The calls of one assistant message: at most two, in the order of their ids.
NewCalls ==
  {calls \in UNION {[1..n -> Call] : n \in 0..2} :
     \A i \in DOMAIN calls : calls[i].id = nextId + i - 1}

\* Mutant of AtLimit: the limit is not looked at.
AtLimitNever == FALSE

AtLimit == config.limited /\ iterations >= MaxIterations

\* Mutant of Stream: the limit is reached one message late.
StreamOneMore ==
  /\ pc = "stream" /\ (config.limited => iterations <= MaxIterations)
  /\ iterations' = iterations + 1
  /\ \E calls \in NewCalls :
       /\ Push(Assistant(calls))
       /\ pending' = calls
       /\ nextId' = nextId + Len(calls)
       /\ pc' = IF calls = <<>> THEN "finish" ELSE "pre"
  /\ UNCHANGED <<config, hook, outcome, aborted, turns, ran, ranAtAbort, lost>>

\* Mutant of Stream: a message that could not be stored is handled all the same.
StreamUnstored ==
  /\ pc = "stream" /\ ~AtLimit
  /\ iterations' = iterations + 1
  /\ \E calls \in NewCalls, stored \in BOOLEAN :
       /\ IF stored THEN Push(Assistant(calls)) ELSE UNCHANGED <<messages, disk>>
       /\ pending' = calls
       /\ nextId' = nextId + Len(calls)
       /\ pc' = IF calls = <<>> THEN "finish" ELSE "pre"
  /\ UNCHANGED <<config, hook, outcome, aborted, turns, ran, ranAtAbort, lost>>

\* The model answers; the message is stored before any of its calls is looked at.
Stream ==
  /\ pc = "stream" /\ ~AtLimit
  /\ iterations' = iterations + 1
  /\ \E calls \in NewCalls :
       /\ Push(Assistant(calls))
       /\ pending' = calls
       /\ nextId' = nextId + Len(calls)
       /\ pc' = IF calls = <<>> THEN "finish" ELSE "pre"
  /\ UNCHANGED <<config, hook, outcome, aborted, turns, ran, ranAtAbort, lost>>

current == Head(pending)

\* Mutant of PreHookAllow: a command runs whatever the abort signal says.
PreHookAllowUnsignalled ==
  /\ pc = "pre" /\ hook.commands < config.pre_tool_use
  /\ \E override \in Overrides, updated \in Inputs \cup {"None"} :
       hook' = [commands |-> hook.commands + 1,
                permission_override |-> IF override # "None" THEN override
                                        ELSE hook.permission_override,
                updated_input |-> IF updated # "None" THEN updated ELSE hook.updated_input]
  /\ UNCHANGED <<config, messages, disk, pc, iterations, pending, outcome, aborted, history>>

\* A command that lets the call go on; a later override or input replaces an earlier one.
PreHookAllow ==
  /\ pc = "pre" /\ ~aborted /\ hook.commands < config.pre_tool_use
  /\ \E override \in Overrides, updated \in Inputs \cup {"None"} :
       hook' = [commands |-> hook.commands + 1,
                permission_override |-> IF override # "None" THEN override
                                        ELSE hook.permission_override,
                updated_input |-> IF updated # "None" THEN updated ELSE hook.updated_input]
  /\ UNCHANGED <<config, messages, disk, pc, iterations, pending, outcome, aborted, history>>

\* Mutant of PreHookVeto: the commands are run again.
PreHookVetoRetried ==
  /\ pc = "pre" /\ hook.commands < config.pre_tool_use
  /\ hook' = HookAllow
  /\ UNCHANGED <<config, messages, disk, pc, iterations, pending, outcome, aborted, history>>

\* A command that denies, fails or is cancelled, and the abort seen before the first.
PreHookVeto ==
  /\ pc = "pre" /\ hook.commands < config.pre_tool_use
  /\ outcome' = "refused" /\ pc' = "answer"
  /\ UNCHANGED <<config, messages, disk, iterations, pending, hook, aborted, history>>

PreHooksDone ==
  /\ pc = "pre" /\ hook.commands = config.pre_tool_use
  /\ pc' = "authorize"
  /\ UNCHANGED <<config, messages, disk, iterations, call, aborted, history>>

effective_input == IF hook.updated_input = "None" THEN current.input ELSE hook.updated_input

\* Mutant of authorized_input: the policy sees the input the model wrote.
authorized_input_original == current.input

\* The input the permission policy is asked about.
authorized_input == effective_input

Authorize ==
  /\ pc = "authorize"
  /\ \E answer \in IF config.prompter THEN {"Allow", "Deny"} ELSE {"None"} :
       LET asked == Decision(config.policy, current.tool, authorized_input,
                             hook.permission_override) = "Ask"
           verdict == authorize(config.policy, current.tool, authorized_input,
                                hook.permission_override, answer)
       IN IF verdict = "Allow"
          THEN pc' = "execute" /\ outcome' = IF asked THEN "approved" ELSE "granted"
          ELSE pc' = "answer" /\ outcome' = "refused"
  /\ UNCHANGED <<config, messages, disk, iterations, pending, hook, aborted, history>>

\* Mutant of Execute: a failed execution is tried again.
ExecuteRetries ==
  /\ pc = "execute"
  /\ \E ok \in BOOLEAN :
       /\ ran' = Append(ran, [id |-> current.id, tool |-> current.tool,
                              input |-> effective_input,
                              approved |-> outcome = "approved", ok |-> ok])
       /\ outcome' = IF ok THEN "success" ELSE outcome
       /\ pc' = IF ok THEN "post" ELSE pc
  /\ UNCHANGED <<config, messages, disk, iterations, pending, hook, aborted, turns, nextId,
                 ranAtAbort, lost>>

\* The tool runs, whatever the abort signal says, and succeeds or fails.
Execute ==
  /\ pc = "execute"
  /\ \E ok \in BOOLEAN :
       /\ ran' = Append(ran, [id |-> current.id, tool |-> current.tool,
                              input |-> effective_input,
                              approved |-> outcome = "approved", ok |-> ok])
       /\ outcome' = IF ok THEN "success" ELSE "error"
  /\ pc' = "post"
  /\ UNCHANGED <<config, messages, disk, iterations, pending, hook, aborted, turns, nextId,
                 ranAtAbort, lost>>

(* PostToolUse, or PostToolUseFailure after an error: a command that       *)
(* denies, fails or is cancelled turns a success into an error.            *)
PostHook ==
  /\ pc = "post"
  /\ pc' = "answer"
  /\ \/ ~(config.post_tool_use /\ aborted) /\ UNCHANGED outcome
     \/ config.post_tool_use /\ outcome' = "error"
  /\ UNCHANGED <<config, messages, disk, iterations, pending, hook, aborted, history>>

\* Mutant of Answer: the calls after a refused one are dropped.
AnswerDropsRest ==
  /\ pc = "answer"
  /\ Push(ToolResult(current.id, outcome # "success"))
  /\ pending' = IF outcome = "refused" THEN <<>> ELSE Tail(pending)
  /\ pc' = IF pending' = <<>> THEN "stream" ELSE "pre"
  /\ hook' = HookAllow /\ outcome' = "unknown"
  /\ UNCHANGED <<config, iterations, aborted, history>>

\* Mutant of Answer: only a failed execution is reported as an error.
AnswerRefusedIsFine ==
  /\ pc = "answer"
  /\ Push(ToolResult(current.id, outcome = "error"))
  /\ pending' = Tail(pending)
  /\ pc' = IF pending' = <<>> THEN "stream" ELSE "pre"
  /\ hook' = HookAllow /\ outcome' = "unknown"
  /\ UNCHANGED <<config, iterations, aborted, history>>

\* The result of the current call is stored, and the next one begins.
Answer ==
  /\ pc = "answer"
  /\ Push(ToolResult(current.id, outcome # "success"))
  /\ pending' = Tail(pending)
  /\ pc' = IF pending' = <<>> THEN "stream" ELSE "pre"
  /\ hook' = HookAllow /\ outcome' = "unknown"
  /\ UNCHANGED <<config, iterations, aborted, history>>

(* The iteration limit, a failed stream, an answer without stop event or   *)
(* content, or a message that could not be stored.                         *)
Fail ==
  /\ pc \in {"stream", "answer"}
  /\ Exit

\* Mutant of Finish: the session is saved only when nothing was compacted.
FinishUnsaved ==
  /\ pc = "finish"
  /\ messages' = IF Usage >= Threshold /\ Compactable THEN Compacted ELSE messages
  /\ pc' = IF messages' = messages THEN "persist" ELSE "idle"
  /\ UNCHANGED <<config, disk, iterations, call, aborted, history>>

\* maybe_auto_compact, in memory.
Finish ==
  /\ pc = "finish"
  /\ messages' = IF Usage >= Threshold /\ Compactable THEN Compacted ELSE messages
  /\ pc' = "persist"
  /\ UNCHANGED <<config, disk, iterations, call, aborted, history>>

\* persist_session rewrites the file, through a temporary file and a rename.
Persist ==
  /\ pc = "persist"
  /\ disk' = messages
  /\ pc' = "idle"
  /\ UNCHANGED <<config, messages, iterations, call, aborted, history>>

\* /compact, and the rewriting of the file that follows.
CompactCommand ==
  /\ pc = "idle" /\ Compactable
  /\ messages' = Compacted
  /\ pc' = "persist"
  /\ UNCHANGED <<config, disk, iterations, call, aborted, history>>

\* HookAbortMonitor: Ctrl-C, once in a turn.
Abort ==
  /\ pc \in TurnSteps /\ ~aborted
  /\ aborted' = TRUE
  /\ ranAtAbort' = Len(ran)
  /\ UNCHANGED <<config, messages, disk, pc, iterations, call, turns, nextId, ran, lost>>

Crash ==
  /\ pc # "exited"
  /\ Exit

\* A new process loads the session file.
Resume ==
  /\ pc = "exited"
  /\ messages' = disk
  /\ pc' = "idle"
  /\ UNCHANGED <<config, disk, iterations, call, aborted, history>>

Init ==
  /\ config \in Config
  /\ messages = <<>> /\ disk = <<>>
  /\ pc = "idle" /\ iterations = 0 /\ aborted = FALSE
  /\ pending = <<>> /\ hook = HookAllow /\ outcome = "unknown"
  /\ turns = 0 /\ nextId = 1
  /\ ran = <<>> /\ ranAtAbort = 0 /\ lost = {}

\* The steps of a turn the process takes, or that it waits for, by itself.
Work ==
  \/ Stream \/ PreHookAllow \/ PreHookVeto \/ PreHooksDone \/ Authorize \/ Execute
  \/ PostHook \/ Answer \/ Fail \/ Finish \/ Persist

Next == Work \/ StartTurn \/ CompactCommand \/ Abort \/ Crash \/ Resume

Spec == Init /\ [][Next]_vars

\* Of a model that has made as many calls as it may no answer is assumed: it might go on
\* calling, and only the limit can stop it.
Progress == Work /\ (pc = "stream" => AtLimit \/ nextId <= MaxCalls)

FairSpec == Spec /\ WF_vars(Progress)
-----------------------------------------------------------------------------
TypeOK ==
  /\ config \in Config
  /\ messages \in Seq(Message) /\ disk \in Seq(Message)
  /\ pc \in PC
  /\ iterations \in Nat /\ (config.limited => iterations <= MaxIterations)
  /\ pending \in Seq(Call)
  /\ hook \in HookRunResult /\ hook.commands <= config.pre_tool_use
  /\ outcome \in Outcomes
  /\ aborted \in BOOLEAN
  /\ turns \in 0..MaxTurns
  /\ nextId \in 1..MaxCalls + 1
  /\ ran \in Seq(Execution)
  /\ ranAtAbort \in Nat
  /\ lost \subseteq 1..MaxCalls

(* Nothing runs without authority: on the very input that was executed, no *)
(* deny rule matches, and the user approved it or the policy grants it     *)
(* without asking (run_turn authorizes the input the hooks left).          *)
NoToolWithoutAuthority ==
  \A i \in DOMAIN ran :
    LET run == ran[i]
    IN /\ <<run.tool, run.input>> \notin config.policy.deny_rules
       /\ \/ run.approved /\ config.prompter
          \/ /\ <<run.tool, run.input>> \notin config.policy.ask_rules
             /\ Granted(config.policy, run.tool, run.input)

CallIds(m) == IF m.role = "Assistant" THEN {m.calls[i].id : i \in DOMAIN m.calls} ELSE {}
Requested(log) == UNION {CallIds(log[i]) : i \in DOMAIN log}
Answered(log) == {log[i].id : i \in {j \in DOMAIN log : log[j].role = "Tool"}}

(* Every call the next request shows the model is answered in it, unless   *)
(* the process that handled it ended: run_turn stores a result for every   *)
(* pending call, the refused and the failed ones too.                      *)
CallsAnswered ==
  pc \in {"idle", "stream", "finish"} => Requested(messages) \ Answered(messages) \subseteq lost

(* A result stands behind the call it answers.  Compaction keeps a fixed   *)
(* number of messages, wherever that cuts: a result without its call can   *)
(* only stand at the start, in an unbroken run of results after a summary. *)
OrphansOnlyBehindSummary ==
  \A i \in DOMAIN messages :
    LET m == messages[i]
    IN m.role = "Tool" /\ m.id \notin Requested(SubSeq(messages, 1, i - 1)) =>
         /\ messages[1].role = "System"
         /\ \A j \in 2..i : messages[j].role = "Tool"

\* There is at most one summary, and it comes first: compact_session merges the old one.
OneSummaryFirst ==
  \A i \in DOMAIN messages : messages[i].role = "System" => i = 1

(* What a crash loses: until the next compaction the file holds exactly    *)
(* the messages of the session, so that a resumed session has them all.    *)
DiskIsTheSession == pc \notin {"persist", "exited"} => disk = messages

(* The history a next request or a resumed process starts from: every call *)
(* answered behind itself, one summary in front, nothing missing on disk.  *)
HistoryIsWhole ==
  /\ CallsAnswered
  /\ OrphansOnlyBehindSummary
  /\ OneSummaryFirst
  /\ DiskIsTheSession

(* A tool has run only for a call that the session file already shows.     *)
RecordedBeforeRun ==
  [][Len(ran') > Len(ran) => ran'[Len(ran')].id \in Requested(disk)]_vars

\* A call runs at most once, over restarts too.
RunsOnce == \A i, j \in DOMAIN ran : ran[i].id = ran[j].id => i = j

(* A result that is no error tells of an execution that ended without one. *)
NoFalseSuccess ==
  \A i \in DOMAIN messages :
    messages[i].role = "Tool" /\ ~messages[i].is_error =>
      \E j \in DOMAIN ran : ran[j].id = messages[i].id /\ ran[j].ok

(* With a PreToolUse hook configured, an abort lets at most the tool that  *)
(* is past its hooks run: every later call is cancelled.                   *)
AbortStopsTools ==
  aborted /\ config.pre_tool_use > 0 => Len(ran) <= ranAtAbort + 1

(* What the results tell of the tools is true, also of those an abort or a *)
(* refusal kept from running.                                              *)
ResultsAreTrue == NoFalseSuccess /\ AbortStopsTools

(* A turn with a limit of iterations ends: with an answer, an error or the *)
(* end of the process, given that the model, the hooks, the tools and the  *)
(* user answer, and also if the model would go on calling for ever.  One   *)
(* without, which is every turn of LiveCli, ends unless the model does     *)
(* that: then as many calls are made as it may make, and all of them are   *)
(* handled before it is asked for more.                                    *)
KeepsCalling == ~config.limited /\ nextId > MaxCalls /\ pc = "stream"
TurnEnds == pc \in TurnSteps ~> pc \in {"idle", "exited"} \/ KeepsCalling

(* What becomes of a call, seen from outside: it waits, runs, and is       *)
(* closed, or is lost with its process.                                    *)
status ==
  [id \in 1..MaxCalls |->
     IF id >= nextId THEN "unmade"
     ELSE IF id \in lost THEN "lost"
     ELSE IF \A i \in DOMAIN pending : pending[i].id # id THEN "closed"
     ELSE IF id = current.id /\ outcome \in {"success", "error"} THEN "running"
     ELSE "open"]

Calls == INSTANCE ToolCalls WITH MaxCalls <- MaxCalls, status <- status

(* The runtime implements the promise of ToolCalls: the calls of a message *)
(* are handled one at a time and in order, each runs at most once and only *)
(* while it is open, and none stays open for ever.                         *)
ImplementsToolCalls == Calls!FairSpec
===============================================================================
