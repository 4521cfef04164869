# TLA+ verification of LobsterCode

LobsterCode is a coding-agent program: a Rust workspace (`src/rust/crates`) with
the agent runtime and its command line, a local Python agent server with its
page (`src/ui`), and an Electron utility (`src/lobster-utility`). This directory
holds TLA+ models of the parts whose correctness depends on order, failure or
concurrency, the TLC configurations that check them, and proofs for TLAPS.

- `tlc -config X.cfg M` checks a run of module `M`; section 3 lists the runs.
- `tlapm M.tla` checks the proofs of `M`, for the eight modules `*Proofs.tla`.
- `PROJECT.json` maps every definition to the source lines it models, gives
  mutants of the code that each property rejects, and lists findings and hazards.

Paths are relative to the repository; `runtime/` stands for
`src/rust/crates/runtime/src/`, `cli/` for `src/rust/crates/rusty-claude-cli/src/`,
`tools/`, `plugins/` and `api/` for `src` of those crates, `desktop/` for
`src/lobster-utility/src/`.

## 1. Inventory

| component | state | operations | hard behaviour | module |
|---|---|---|---|---|
| worker boot registry (`runtime/worker_boot.rs`) | workers with status, trust gate, prompt, replay, error, event log; a state file per directory | create, observe, resolve_trust, send_prompt, restart, terminate, observe_completion | screens show several cues at once; the file is read by other processes while it is written | `WorkerBoot` |
| permission policy (`runtime/permissions.rs`) | mode, requirements, three kinds of rules | authorize, `/permissions` | five sources of authority meet: rules, mode, hook, prompter, default | `Permissions`, `PermissionSwitch` |
| conversation (`runtime/conversation.rs`) | messages, pending calls, iterations, abort signal | run_turn, compact, resume | hooks rewrite input and override decisions; abort, crash or error at any step; compaction cuts the history | `Conversation`, `ToolCalls` |
| hook processes (`runtime/hooks.rs`, `plugins/hooks.rs`) | child, two pipes, abort signal | output_with_stdin, run_command | full pipes, early exit, abort, processes that outlive the script | `HookProcess` |
| command tools and sandbox (`runtime/bash.rs`, `sandbox.rs`, `tools/lib.rs`) | child, heirs, pipe, timer, isolation | bash, PowerShell, REPL | a timeout beside a full pipe; processes that outlive the command; a sandbox the system lacks in part | `ToolProcess` |
| session files (`runtime/session.rs`, `cli/main.rs`) | files by modification time, the open session | append, save with rotation and cleanup, fork, switch, clear, delete, resume | a crash or a failed call between any two system calls | `SessionStore` |
| MCP server manager (`runtime/mcp_stdio.rs`, `mcp_client.rs`) | a process, a flag and routes per server; request ids | discover, call_tool, list and read resources, reset, shutdown | timeouts, late answers, servers that die, retries within retries | `McpManager`, `McpCalls` |
| plugin manager (`plugins/lib.rs`) | directories, registry file, settings file | install, update, uninstall, enable, disable, synchronise | three places changed one after the other, each step may fail or be the last | `PluginStore` |
| command line program (`cli/main.rs`) | the runtime of the moment, its plugins and servers, mode, session, effort | turn, `/permissions`, `/clear`, `/resume`, `/session`, `/plugins`, `/compact`, exit | every command replaces the runtime; the new one starts before the old one stops | `RuntimeLifecycle` |
| API clients (`api/client.rs`, `providers`, `sse.rs`, `prompt_cache.rs`, consumers in `cli/main.rs` and `tools/lib.rs`) | stream state, parser buffers, cache files | send with retries, stream, fall back, look up, record | parts of calls that mix, streams cut off, nested retries, chunks that end anywhere, a clock set back | `ModelStream`, `SseFrames`, `PromptCache` |
| tool dispatch (`tools/lib.rs`, `lane_completion.rs`) | plan-mode record, agents' manifests and outputs | EnterPlanMode, ExitPlanMode, Config, Agent | two files written in place, threads that end with the program | `PlanMode`, `SubAgents` |
| configuration (`runtime/config.rs`, `config_validate.rs`) | five settings files | load, merge, validate, set | writers truncate a file that another thread loads; deprecated keys | `Settings` |
| saved logins (`runtime/oauth.rs`, `api/providers/anthropic.rs`, `cli/main.rs`) | `credentials.json` and its temporary file | login, logout, refresh | several programs, one name for the temporary file, refresh tokens that are replaced | `Credentials` |
| agent server and its page (`src/ui/agent_server.py`, `agent.html`) | chats in `localStorage`, the loop's calls, snapshots, mode, tool servers | chat, stop, switch, rollback, tools over stdio | one request at a time while the page goes on; deadlines looked at between bytes | `AgentChat`, `AgentSnapshots`, `AgentServers` |
| desktop utility (`desktop/main`, `desktop/renderer`) | chats, sessions, snapshots; the page's messages; containers last seen | chat, abort, sessions, rollback; polls, listeners | callbacks between any two waits; updates that React runs later; polls that overlap | `DesktopChat`, `DesktopPage`, `DockerMonitor` |

Not modelled: the registries of tasks, teams and cron, recovery recipes, lane
policy, trust resolver, MCP lifecycle validator, tool bridge and server, plugin
and LSP health, permission enforcer, compaction text, file tools, slash command
texts, provider selection, telemetry and test doubles, desktop scanners and the
other pages, the Python port, static pages. Section 7 says why.

### How they interact

`LiveCli` owns a `ConversationRuntime` and replaces it for every turn and for
many commands (`RuntimeLifecycle`); a new runtime loads the settings
(`Settings`), initializes plugins (`PluginStore` says which) and discovers MCP
tools (`McpManager`). A turn (`Conversation`) appends messages to the session
file (`SessionStore`), asks the model (`ModelStream` over `SseFrames`, after
`PromptCache`, with the login of `Credentials`), and for each call runs hooks
(`HookProcess`), the policy (`Permissions`) and a tool: a command
(`ToolProcess`), a remote tool (`McpManager`), plan mode (`PlanMode`), a
sub-agent (`SubAgents`), which is a thread with a turn of its own, a worker
(`WorkerBoot`). Outside processes read the workers' state files. The agent
server and the desktop utility are programs of their own that share nothing
with the Rust one.

The modules meet where one component's promise is another one's step:
`HookProcess`'s `Allow` is `Conversation`'s `PreHookAllow`; `SessionStore`
splits what `Conversation` sees as one `disk`; `McpCalls`, implemented by
`McpManager`, is what `Execute` may rely on; `ToolCalls`, implemented by
`Conversation`, is what `RuntimeLifecycle`'s "run" stands for; an answer of
`ModelStream` is a `Stream` step; `ConversationLive`'s end of a turn is the one
step `Run` of a sub-agent; `DesktopPage` abstracts `DesktopChat` to the events
it sends.

## 2. Modules

| module | models |
|---|---|
| `WorkerBoot`, `MCWorkerBoot`, `WorkerBootProofs` | `WorkerRegistry` and its state files |
| `Permissions`, `PermissionSwitch`, `PermissionProofs` | `authorize_with_context` as operators; a call judged while the mode is switched |
| `ToolCalls` | abstract: what becomes of a model's tool calls |
| `Conversation` (extends `Permissions`, implements `ToolCalls`), `MCConversation`, `ConversationProofs` | `run_turn`, compaction, abort, crash, resume |
| `HookProcess` | one hook command as a child process |
| `ToolProcess` | one command of bash, PowerShell or REPL |
| `SessionStore` | session files and the commands that move between them |
| `McpCalls` | abstract: what a caller of a remote tool is promised |
| `McpServers` | the configured servers and what goes over a pipe |
| `McpManager` (extends `McpServers`, implements `McpCalls`), `McpManagerProofs` | `McpServerManager` with its children |
| `PluginStore` | `PluginManager` on its directories and files |
| `RuntimeLifecycle` | `LiveCli` and the runtimes it builds and replaces |
| `ModelStream`, `SseFrames`, `PromptCache` | an answer of a model, the two parsers under it, the cache before it |
| `PlanMode`, `SubAgents` | plan mode in two files; the Agent tool's threads and files |
| `Settings`, `Credentials` | settings files, `credentials.json` |
| `AgentChat`, `AgentSnapshots`, `AgentServers` | the agent server: page and loop, snapshots, a tool server behind its pipes |
| `DesktopChat`, `DesktopPage`, `DockerMonitor` | the desktop utility: chats, their page, the monitor of containers |
| `Processes`, `ProcessesProofs`, `MCProcesses` | the five components that wait for processes and threads, for all constants; their small instances |
| `Program`, `ProgramProofs`, `StoreProofs`, `AgentProofs` | `PlanMode`, `PromptCache`, `AgentSnapshots`, `DockerMonitor`, `Credentials`, `PluginStore`, `RuntimeLifecycle`, `SessionStore`, `AgentChat` and `Settings`, for all constants |
| `MCProgram` | small instances of `Program` and of the other components |

`Processes`, `Program` and `MCProgram` put components that share no state into one behaviour.
`part` says whose behaviour it is, never changes, and every step is a step of
that component alone; the generic variables `x1`, `x2`, ... are its variables in
the order of their declaration, those it does not have stay 0. A property
`part = "p" => P` is `P` of component `p`. The weak fairness conditions of
`Processes` join one action of each component: since `part` is constant, the
joined action is, in every behaviour, the one of its part, so each condition is
that of its component and no more.

### WorkerBoot

`workers` is `WorkerRegistryInner::workers`; each value is the struct `Worker`. Every
operation holds the registry's mutex to its end, so one action changes `workers`. Its
rewrites of `.claw/worker-state.json` are seen by other processes before the mutex is
free; `writes` is the queue of snapshots still to write, `EmitStateFile` writes one, and
no operation begins before the last. A snapshot is written to a temporary file
(`tempFile`) that is renamed over the state file. The code drops the errors of both
calls and renames after a write that failed, so the state file may become a torn one
(`Torn`), or a whole snapshot that an earlier failure left in the temporary file;
`failures` counts these cases. `shown` is a history: the last event a directory's file
has shown of each worker. A terminal snapshot is the set of cues the detectors read off
it, all combinations. `observe` is three actions, one for each way it returns;
`PastGate` is what an allowlisted trust prompt does on the way to the last two. Three
things a reader of the state file should know, which the model has and no property
forbids: a ready cue takes also a gated worker to ready, the running cue changes the
status without rewriting the file, and `seconds_since_update` is always 0, being taken
from the time of writing.

### Permissions and PermissionSwitch

`Decision` is `authorize_with_context` up to the prompt, `authorize` the whole of
it with the prompter's answer. A rule is the set of calls it matches. The run
enumerates every policy over one tool and two inputs. The prompt mode
(`PermissionMode::Prompt`) is built by no caller outside the tests, so
`PermissionSwitch` starts only from the three modes of the command line.

### Conversation

One action per step of `run_turn` that something else may come between.
`messages` and `disk` are the session in memory and in its file: `Push` changes
both because `push_message` appends to the file and is undone when it cannot.
`pending` holds the calls of the last assistant message, the current one first.
`hook` accumulates what the PreToolUse commands of the current call have said:
the last override and the last rewritten input win, as in `HookRunner`. The
model, the hooks, the tools and the user answer anything. `Fail` and `Crash` end
the process, because the command line passes an error of a turn up to `main`;
`Resume` loads the file. `ran`, `ranAtAbort` and `lost` are history variables.
`ToolCalls` says what a caller may rely on: a batch is opened when no other is
open, calls are settled in order, each runs at most once, and the end of the
process loses those that are open. `Conversation` implements it under the
mapping `status`, which reads a call's fate from `pending`, `outcome` and `lost`.

### HookProcess

Parent and child share two pipes counted in units. `runner` tells the two copies of the
code apart: the runtime's polls the child and the abort signal and reads the output only
after the child has ended; the plugins' forgives a broken pipe and reads while it waits.
Only the runtime's takes a decision from the output: the plugins' copy allows the tool
after every exit with 0 (`OutcomeOf`). The runtime's copy makes a broken pipe a hook
that failed to start, also when the hook then exits with 0; the plugins' copy explains
why that is not a failure. The script is chosen at the start: how much it reads and
writes, its exit code, whether its output blocks. The child is a shell, and what it
starts (`heir`) may hold the output pipes longer than it runs. Both copies read these to
their end in `wait_with_output`, the runtime's also after an abort has killed the shell:
`reap` and `killed` are its two waits there. So neither the end of the shell nor an
abort ends the wait while an heir holds the pipes (`HeldOpen`), and the two liveness
properties promise no more than that.

### ToolProcess

One command from the check of the branch to the answer. `child` is the command,
`heir` a process that may outlive it, with the tool's pipes or `detached` from them,
`given` the isolation `unshare` really gave, `reply` what the tool tells the model.
Bash cuts a long output and says so (`truncate_output`), the other two return all. What the model
shows and a caller should expect: REPL and PowerShell with a timeout do not read
while they poll, so a command that writes more than the pipe holds always times
out; one that ends between the last look and the deadline is reported as timed
out; bash's timeout does not kill the command; children in the background are
never reaped; a detached heir may run after any answer. Abstracted: the third
fallback reason, the layering of `resolve_request`, exit codes. Standard output and
error are one pipe and one output, while the code cuts each at 16 KiB by itself, at
a boundary of a character, and bytes are units.

### SessionStore

`disk` is the session files by their paths, and `older` has for each the files that were
written before it: the order of modification times, by which "latest" is chosen and
copies are cleaned up. A path is the id its name starts with and the times of its
rotations. Whatever a crash can separate is a step: the record and the newline of
`writeln!`, the rename of a rotation, the rename that publishes a snapshot, the cleanup,
which may also stop at a copy that it cannot remove. A file remembers whether its last
line is `clean`, `unterminated` (whole record, no newline) or `partial`, and whether a
record was joined to a torn line (`spliced`), which makes it unreadable. `acked` is a
history variable: the messages the program treats as saved. `Conversation` sees these
files as one atomic `disk`; that this is right apart from a crash within one append is
what `NothingSavedIsLost` shows (the newest file is ahead by at most one message).

### McpManager and McpCalls

A step of an operation goes from one await to the next; `op.stage` says where.
Beside it the servers answer, late or not, notify, refuse and die. The pipe of a
child keeps what it wrote, so that a late answer can meet the next request.
`Manager` is the program's side. Assumed: pages of a listing advance; ids are
counted modulo 2, which is enough for one answer that is left over; paging is
modelled on `tools/list` and is the same code for resources; an orphan whose
kill failed is only counted. Names that collide after normalisation refuse the
start. `Calling`, `ran` and `Returned` map it to `McpCalls`: at most one
execution for a call, none while nobody waits, success only after one, and an
answer in the end.

### PluginStore

An operation is the list of steps left to it (`Steps`, `install`, `update`,
`uninstall`); each may fail, and the program may end before it or within it,
which leaves a partial directory or a cut-off file. Whole means that the
manifest loads with the files it names. A registry that cannot be read refuses
operations until the user repairs it. `off` remembers what the user turned off.

### RuntimeLifecycle

A command is the list of its steps, in the code's order: build the new runtime
(load plugins, initialize them, discover servers), use or keep it, shut the old
one down, drop. A step that fails ends the program, because `run_repl` passes
errors on. `lifecycle` tells which runtime last initialized or shut down a
plugin, `servers` whose servers are up. A runtime that fails while it is built
leaves its servers, and perhaps its plugins, without a shutdown (`abandoned`);
a server whose shutdown fails is `stuck`.

### ModelStream, SseFrames, PromptCache

`ModelStream`: `message` is what the model means to send, `server` what it has
still to send, `state` the translation of a chat completion (`StreamState`),
`taken` what the consumer has built. Both providers and both consumers; requests
may fail, be retried, fall back to the next model, be nudged after a stall or be
repeated without streaming. A cut connection ends a chat completion like a
complete one. `SseFrames`: the bytes of two frames in all chunks; an error
within a chunk drops the good events before it, the OpenAI parser drops an
unterminated last frame, the events of `finish()` are not observed.
`PromptCache`: the cache lives in files, since every turn has a new client; a hit
renews `observed_at` without asking the provider, which is why an "unexpected"
break may be up to the sum of both times to live old.

### PlanMode, SubAgents

`PlanMode`: `settings` and `record` are the two files, `tool.todo` the steps left
of the call, `own` the mode the user means to have, `disturbed` whether another
writer or a half-written file came between. Observed: a garbled
`plan-mode.json` makes both tools fail; plan mode that the user sets while an
old record exists is taken for the tool's own and ended by ExitPlanMode.
`SubAgents`: each thread runs a turn, appends to the output and rewrites the
manifest, all of which may fail; the program may end at any step. A turn ends with a
result, a blank one, one that names a commit, an error or a panic; the events of
its end, with the commit's behind, are `EndEvents`.
`detect_lane_completion`, which the program does not call, reads the manifest.

### Settings, Credentials

`Settings`: a file is the function from the paths of its keys to their values, or
torn, or no object. A load reads the five files one by one while the Config tool,
the plugin manager or a sub-agent rewrites two of them, truncating first. `Said`
is a reference definition of what files mean, independent of the merge. What the
model shows beside its properties: the deprecated `permissionMode` in any file
beats `permissions.defaultMode` in a more specific one; `plugins.enabled`
anywhere makes `enabledPlugins` ineffective; a load that fails at the start
gives full access, and the same load failing again while the runtime is built
stops the program; a truncated file is read as an empty one. What a behaviour
begins with, and how often settings are set and everything is cut off in it, is the
constant `Starts`; the contents are any keys with any values.
`Credentials`: programs do not know of each other. A save is a read, a truncating
write of the one temporary name and a rename; descriptors follow their files
over renames. The provider may replace the refresh token. Observed: a garbled
file stops login, logout and start until it is removed by hand; of two programs
that refresh one token, one with an older answer that saves later loses the
newer token; a failed save after a refresh loses the login; the first request at
the callback port, whatever it is, ends the login; a logout can be undone by a
program that was about to refresh; a token without `expires_at` never expires.

### AgentSnapshots, AgentChat, AgentServers

The server is an `HTTPServer` without threads, so handlers do not interleave.
`AgentSnapshots`: a text is a number; editors and shell commands change files
without the server's knowledge. A rollback that fails in part still forgets the
snapshot, and line endings are not kept.
`AgentChat`: `chats` are `localStorage`, `messages` what is shown, `wire` the
events on their way, `loop` the server's loop, `waiting` requests that it has not
taken. Stopping in the page does not stop the loop, which also begins a chat
nobody waits for any more; the answer lands in the chat that is shown when it
ends; a question typed before the start has ended is dropped with its chat; a
reload leaves a question unanswered; two switches of the mode may be applied in
either order. Not modelled: two tabs on one `localStorage`.
`AgentServers`: a frame is two pieces, the first part of the header and what
follows; `reader` is where in a frame the reader stands after a request was given
up. `lost` counts requests that fail for a reason of the reader's own, `late` the
deadlines that passed. The deadline is looked at between bytes of a header only
and the configured timeout is not used, so a live server that is silent holds the
whole program; standard error is a pipe nobody reads. `connected` stays set after
a death, and there is no reconnection. Assumed: servers send no requests of their
own, and bodies do not contain "Content-Length:".

### DesktopChat, DesktopPage, DockerMonitor

`DesktopChat`: JavaScript runs one callback to its end; `busy` is the chat whose
callback runs. Three instances share the work: several chats with an abort and
session operations, one chat of two turns, and changes of files with their
undoing. An abort during an asynchronous tool does not stop the chat but frees
the flag, so that a second chat can run beside it in the same session; the
properties say what still holds then. Snapshot names are milliseconds, and two in
one share the first.
`DesktopPage`: `queue` holds the updates React has not run, which then look at
the current message of that time; `wire` the replies and events, which do not say
of which chat they are. `alone` and `adrift` are histories: questions asked when
no other chat was about, and chats whose answers the page can no longer place
(after an abort, leaving the page, a prompt of the advisor sent with a stale
flag). Text not yet run when "done" is read is lost (`unrun`). One prompt of the
advisor at a time is a bound, `due` over-approximates the effect that sends it.
`DockerMonitor`: polls list and inspect with waits between and may overlap; an
older poll may overwrite a newer one and raise a false alarm, and a failing
inspection makes a container count as removed, which is why `NoFalseAlarm` holds
while `clean` only. A late answer to connect, a changed interval or a reset of
the settings starts polling although Docker was switched off. Paused and
restarting containers are not modelled.

## 3. Runs

| run | what is asked |
|---|---|
| `WorkerBootOne` | handshake, attempts, replay, error, flight and trust gate agree with the event log; the file shows the newest event |
| `WorkerBootFile` | whatever calls fail and wherever a write is cut off: what can be parsed is a real moment of a worker, and newer than all that was shown of it before |
| `PermissionSwitch` | the five sources of authority never add up to more than each grants; a higher mode takes nothing away |
| `Conversation` | authority, answers, at most one execution, the file, compaction and abort, with crash and resume anywhere |
| `ConversationLive` | a turn with an iteration limit ends, and one without unless the model goes on calling; `Conversation` implements `ToolCalls` |
| `Processes` | hooks fail closed and return; the ends of sub-agents are known; the MCP manager keeps pipes, routes and retries in step and implements `McpCalls`; tools return; requests to a tool server of the agent server get their own answers and end |
| `Program` (of `MCProgram`) | the promises of the other components, below |
| `SessionDelete`, `ProgramEffort`, `ProgramCalls`, `ProgramRollback`, `ProgramSettings` | findings, section 6 |

Each property of `Processes` and `Program` is a conjunction that its module
names and explains part by part:

| property | of | says |
|---|---|---|
| `VerdictsRight` | `HookProcess` | a tool goes ahead only after a clean exit, and in the copy that reads decisions no decision to block; the plugins' copy allows it after every clean exit |
| `AbortEndsTheWait` | `HookProcess` | an abort ends the wait even for a hook that is stuck, unless something it started holds the pipes |
| `AgentsSound`, `EndsAreKnown` | `SubAgents` | a manifest tells one story and a true one, with the commit a result names; lanes close only when done; an agent leaves "running" unless the program ends or two writes fail |
| `ServersAgree` | `McpManager`, `AgentServers` | no request before initialize, no stale answer, one fault is healed and retries end, routes and offers are exactly those of the servers that answered, shutdown leaves nothing; own answers only, a deadline costs at most two requests, no server left |
| `CallsKept` | `McpManager` | refinement of `McpCalls` |
| `ToolsAnswerRight` | `ToolProcess` | outputs whole or said to be cut, timeouts true, nothing that can write to the tool left running unannounced, the sandbox as told |
| `WaitsEnd` | all but `SubAgents` | waits end, except for a hook that is `Stuck` or `HeldOpen`, a tool that is `HeldBack`, and a request of the agent server whose tool server lives and is silent |
| `SavedIsSound`, `DoneMeansSaved` | `SessionStore` | what was saved is readable, torn lines are joined only after a warning, rotations bounded; a command ends with file and memory equal |
| `StoreIsSound` | `PluginStore` | success is whole, a registry that loads is whole, disabled stays off |
| `RuntimesSound` | `RuntimeLifecycle` | a turn finds what was set, one runtime when idle, quiet at the end, files under their own names |
| `StreamsSound` | `ModelStream` | calls arrive whole and in order, a cut stream leaves a prefix, requests bounded |
| `FramesAreWhole` | `SseFrames` | chunks do not matter, failures are honest, every event observed |
| `CacheIsSound` | `PromptCache` | hits fresh and newest, "unexpected" recent, statistics add up |
| `PlanModeIsSound` | `PlanMode` | the user's mode is never lost, and calls do what they say |
| `SettingsAreSound` | `Settings` | a load is what the files say, the mode is named by them, what is set stays set |
| `CredentialsAreSound`, `RefreshStays` | `Credentials` | saves are whole or nothing, the newest refresh token is kept, a logout lasts; a login that can be refreshed stays one |
| `RollbackIsSound` | `AgentSnapshots` | a snapshot holds the originals; the newest rollback undoes its request |
| `AgentIsSound` | `AgentChat` | what is shown is saved, questions stay, answers follow, calls shown as run, one mode for a request |
| `ChatIsSound` | `DesktopChat`, `DesktopPage` | chats counted, reached by abort, at home in their sessions, calls answered, changes undone; the page shows an answer's own pieces, whole, and waits rightly |
| `MonitorIsSound` | `DockerMonitor` | one timer, listeners know what was last seen, no false alarm |

Bounds, and why the interesting cases fit into them:

- `WorkerBoot`: six events are a whole life of a prompt (spawn, ready, dispatch,
  loss, replay armed, dispatch again) and every shorter one with restarts,
  failures or trust prompts; two prompts tell the replayed one from a newer one.
  With two workers and a shared file four events of the two together reach every
  order of writes, with both snapshots of an automatic resolution, and two failures
  let one leave a temporary file that the next one publishes.
- `Conversation`: the second call of a batch tells "this call" from "the rest",
  two turns put a resume or a compaction between calls, a compaction that keeps
  two messages can cut between a call and its result, two PreToolUse commands let
  a later override meet an earlier one. In `ConversationLive` the limit is two
  iterations and the model may make four calls, in batches of one or two, so that a
  turn with the limit is ended by the limit and never by the bound on calls.
- Pipes: one unit more than a pipe holds is the smallest payload that blocks. Bash's
  limit of output is one unit, so that outputs below, at and above it occur.
- `SubAgents`: three faults, one more than an agent's end can bear. `McpManager`:
  two servers with one tool name in common, two operations, one death, failed
  spawn, notification or failed kill, timeouts without bound: a fault of one
  operation meets the next. `AgentServers`: six requests, one passed deadline
  and one notification; the proof of section 5 lifts all three bounds.
- `SessionStore`: rotation after two messages with one copy kept makes rotation
  and cleanup happen twice; one failed call, crashes without bound.
- `PluginStore`: one external and one bundled plugin of two versions, four
  operations, one of them cut off. `RuntimeLifecycle`: four runtimes, two plugins,
  two failing steps, so that a failure meets the leftovers of another.
- `ModelStream`: two calls of up to two parts in every order, two models, one
  retry, four faults. `SseFrames`: every stream of two frames in every chunking.
  `PromptCache`: two requests, three calls, a clock of four units that moves both
  ways, one lost write.
- `PlanMode`: three calls, two edits, two crashes. `Settings`: every pair of files
  of seventeen contents through the loads of a start and a turn; two sets, one
  cut, beside one file. `Credentials`: two programs, three operations, three
  tokens, one fault.
- `AgentSnapshots`: two files, three requests, two snapshots, two outside changes,
  two rollbacks, one fault. `AgentChat`: two questions with up to
  two answers that call a tool, two steps of the user, two modes and one broken
  connection; answers with several calls, of several tools, are left to the proof.
- `DesktopChat`: three chats, one chat of two turns, two changes with four steps of
  the user. `DesktopPage`: two questions, answers of two pieces, two steps of the
  user. `DockerMonitor`: two containers, one of which changes, under two polls, with one
  request that fails and two calls of connect or stop; a container that stops, starts
  and stops again between two answers is left to the proof, which has no bound.

`Processes` has about 283 thousand states, most of them the MCP manager's;
`Program` has 4.4 million.

Deadlock is checked in the runs of `WorkerBoot`, `PermissionSwitch` and
`Conversation`. A hook, a tool or an agent is done some time, and the other
components stop where a bound on operations is reached, so those configurations
turn the check off. Symmetry: prompts in `WorkerBootOne`, workers in
`WorkerBootFile`; neither has a liveness property, and no definition tells two
prompts or two workers apart.

## 4. Fairness

Safety properties assume none. What the liveness properties assume:

- `ConversationLive`: weak fairness of `Progress`, the steps the process takes by
  itself or waits for, less an answer of a model that has made as many calls as the
  bound allows: such a model might go on calling. The loop of `run_turn` is sequential code that goes on
  whenever it can; the assumption includes that the model, the hooks, the tools
  and the user answer in the end, and leaves out a new turn, an abort, a crash
  and a resume. With a limit (`limited`: sub-agents, `tools/lib.rs:3398`) the turn of
  that model ends all the same, and without the check of the limit (the mutant
  `AtLimitNever`) it would not. Without
  one (`max_iterations` is `usize::MAX`, `conversation.rs:181`, and the command line
  sets no other) a model that calls for ever keeps the turn going for ever, which is
  what the code does; `TurnEnds` then promises only that all calls the model may
  make are handled and it is asked again (`KeepsCalling`).
- `HookProcess`: the parent and the child are two scheduled processes. The
  child's script is finite, so a full pipe is all that can hold it. That it starts
  another process, and that this one ends, is not assumed.
- `SubAgents`: each agent is a thread; that its turn ends is what `ConversationLive`
  shows, a sub-agent's turn having a limit. The end of the program is not assumed.
- `McpManager`: the manager is scheduled and its timers fire. Nothing is assumed
  of a server: every request has a timeout.
- `ToolProcess`: the tool is a thread; the command, its heir and the timer are the
  world, which goes on (a script may say that it does not end).
- `AgentServers`: the one thread of the program goes on when there is something to
  read. Nothing is assumed of the server, so `WaitsEnd` promises an end only once
  it has died.

## 5. Proofs

Every theorem holds for every value of the constants that the named assumptions
allow, and each has the form `Spec => []Inv`, an action property, or the safety
part of a refinement. The assumptions say no more than what the constants stand
for: a sentinel is not one of the things it stands beside (`NoPromptAssumption`,
`NoWorkerAssumption`, `NoneAssumption`), bounds are natural numbers
(`BoundsAssumption`, `ProcessesAssumption`, `ProgramAssumption`, which also asks that
the server keeps at least one snapshot), a settings file that is no object has no
keys (`SettingsAssumption`), a torn file is no snapshot (`TornAssumption`), policies are policies
(`ConversationAssumption`), a server has one key in the configuration and lists tools
(`ServersAssumption`), a list has a page.

Each proof has the same shape: an inductive invariant that the module names part
by part, the lemma that the initial states have it, one lemma per action (or per
function the actions are composed of) that keeps it, and the property from it.
What makes each invariant stronger than its property:

`WorkerBootProofs` (`TypeCorrect`, `HandshakeCorrect`, `ErrorCorrect`,
`FlightCorrect`, `BookkeepingCorrect`, `FileCorrect`, `PollerCorrect`). The
handshake is not inductive: that a dispatch follows a readiness holds at the next
dispatch only because a ready worker's newest event is a readiness
(`LastIsReadiness`). That in turn depends on every handler that sets a status, the
running cue without an event included. `Books` counts attempts against the
dispatches since the boot and finds an armed replay and a cleared gate in the log.
`SoundWorker` joins these; every operation is a composition of functions on one
worker, one lemma shows each function keeps a worker sound, and `Chain` follows
the snapshots that an operation with several events leaves to be written. `Files`
is about those: every snapshot, in a file or in the queue, is a past moment of its
worker, be it in a state file, in a temporary file or in the queue; the queue is of
one worker in the order of its events, and newer than what any file has ever shown
of that worker and than what a temporary file holds of it (`WritesAreNewer`). A
leftover of a call that failed may be published at any later failure, so it must
be newer too than what was shown by then (`TempsAreNewer`): every snapshot behind it
replaces it or is itself lost. So a poller does not go back, and when no call fails
a file that is behind has its snapshot in the queue (`FilesCatchUp`).

`PermissionProofs` (`TypeCorrect`, `DenyCorrect`, `AskCorrect`, `HookCorrect`,
`AuthorityCorrect`, `RaisingCorrect`). The verdict is a function of the state, so
the invariants follow from types and the definition of `authorize`.
`RaisingCorrect` needs that `Granted` is monotone in the rank of the mode and that
a mode that may ask for a tool is only left for one that grants it.

`ConversationProofs` (`TypeCorrect`, `AuthorityCorrect`, `RunsOnceCorrect`,
`RecordedCorrect`, `ResultsCorrect`, `HistoryCorrect`, `CallsCorrect`).
`NoToolWithoutAuthority` is about executions already made, while authority is
established a step earlier, and the hooks may rewrite the input before that.
`Cleared` carries what `Authorize` found to `Execute`: in `execute`, the
effective input is authorized. At-most-once needs that calls are handled in the
order of their ids and that no execution is ahead of the current call
(`InOrder`), together with the fresh ids of every new batch. `IInv` joins these
with `TypeOK` and with `Busy` (a call is being handled only when there is one).
`RecordedBeforeRun` needs that every waiting call, not only the current one, is in
the file (`Shown`); `ResultsAreTrue` that the file tells no false success either,
since it becomes the session at a resume, and that the one tool an abort still
lets run is the one whose hooks are done (`RInv`).
`HistoryIsWhole` is not kept by a compaction, which may cut anywhere: `Blocks`
says that a result stands in an unbroken run of results behind the message that
made its call, so a cut keeps the message or leaves the run directly behind the
summary. `Batch` provides this for the results still to come. All of it is carried
for the file as well as for the session, because a process may end between the
compaction and the saving. `CallsCorrect` is the refinement of `ToolCalls` without
its fairness: under `IInv` the calls that `ToolCalls` sees as unsettled are exactly
those in `pending`, the first of them the current one, and each step of
`Conversation` opens a batch, runs or settles the first call, loses all of them
or changes nothing.

`McpManagerProofs` (`ServersCorrect`, behind `ServersAgree`, and
`CallsImplemented`, the refinement of `McpCalls` without its fairness). The
invariant has three parts. `Operating` is about the operation at each of its
stages: how much of a listing it has, how many timeouts an attempt may have cost,
which servers a sweep has still before it, what is offered and where routes may
point meanwhile. `Reported` is about the last report. `Children` is the heart: a
child that nobody waits for has no request and only notifications in its pipe; the
one that is waited for has the request of the operation with its id, or its one
answer, which is true if it will be taken for a success. That an answer left over
from a timeout never meets a later request, although ids repeat, follows because
every way to give up a request ends with the child reset.

`ProcessesProofs` (`VerdictsCorrect`, `ToolsCorrect`, `AgentsCorrect`,
`LocalCorrect`, `ServersCorrect`, `CallsCorrect`) shows the properties of the run
`Processes`. The part never changes, so a behaviour of `Processes` is one of its
component from the beginning on; `McpManager` takes its invariant from its own
module, and the lemmas `Same...` say that the two instances mean one thing. The
others are proved there.
Of a hook, that an allow needs a
clean exit is not inductive, because the script is still being used up while the
verdict waits: `Source` says where a verdict came from, from the child that exited
or, in the runtime's copy only, from the parent's failure or an abort; a step of
the child leaves its exit code and its decision alone, and only what the runtime's
copy has aborted is killed (`OnlyRuntimeAborts`). Of a tool, `InStep` says what each place of
the caller's code implies for the command, its pipe and the timer: who waits has a
child with an open pipe, who collects has one that has ended, only what was given
up is killed (`Waits`, `GivenUp`), and output is what the script had, less what it
has left (`Written`). The isolation is chosen when the command is spawned and
`Sandboxed` keeps it equal to what the request resolved to. Of a sub-agent, the two
files are written one after the other and either write may fail, so the invariant
says for each step of a thread what each file may say then: the output has the
section of the terminal state before the manifest is rewritten
(`ManifestIsRight`), a terminal state is an error or a turn that succeeded
(`EndingIsRight`), and without a fault the manifest says "running" until the end
(`NothingLost`). Of a tool server of the local agent server (`LocalCorrect`), the
bound on lost requests is a potential argument: `LocalOwed` is 1 while the rest of a
header lies in the pipe, and `lost + Owed <= 2 * late` is kept by every step, since a
deadline that passes adds two and the request that finds no length pays one off. Own
answers need that ids count up from 1 (`LocalNumbered`), no server left behind that
only a greeted server is kept (`LocalGreeted`, `LocalGone`).

`ProgramProofs` (`PlanModeCorrect`, `CacheCorrect`, `RollbackCorrect`,
`MonitorCorrect`, `RuntimesCorrect`), `StoreProofs`, for what several programs
keep in files (`CredentialsCorrect`, `RefreshCorrect`, `PluginsCorrect`,
`SavedCorrect`, `DoneCorrect`, `SettingsCorrect`), and `AgentProofs` (`AgentCorrect`)
do the same for the ten components of the module `Program`; the invariants are the `Inv` of their
modules.
Of plan mode, `CallIsRight` says which steps a call may have left, and `InOrder`
what both files hold before each of them when no other writer came between: the
mode is on record before the settings say "plan", and taken off it only after they
say something else. A crash leaves one of these moments or a cut-off file, which
is a disturbance; that plan mode of the user is not on record (`OwnPlanIsOwn`)
keeps the tools from ending it.
Of the prompt cache, a file's entry is never newer than the provider's last answer,
in real time, which does not go back when the clock is set back (`EntryIsBorn`),
and the last request on record was answered by the provider at most one time to
live of an entry before (`PreviousIsRecent`), in memory and in the file, since a
client may be replaced between the two.
Of the snapshots, a rollback restores only what a snapshot saved, so the invariant
has to speak of every snapshot kept, and of every pair of them: a file that others
did not touch and that none of the snapshots between has saved is, when the later
one began and now, as it was when the earlier one began, or as a rollback can
give it back (`Moments`); what is saved is the original (`Originals`); a change by
others is one for every older snapshot (`OthersSince`); and the tools change no
file before it is saved (`SavedFirst`). `Moments` is what makes one rollback after
another right: the older snapshot finds the files as the newer one left them.
Of the monitor, stops are counted when they happen and alarms when a poll is over.
`AlarmsOwed` says that the stops not yet announced, from what the listener knows
to what the poll has seen and from there to what is real, are covered by the stops
counted; a drop from the first to the last is no more than the two drops on the way
(`Drops`). It holds while polls do not overlap, so there is one poll at most.
Of the saved logins, a save that has met no other has both files to itself
(`Alone`): what it read is still the file, and what it wrote is the temporary one.
From there the promise, and that no descriptor leads to the file afterwards. A token
of a login is its own until it is saved (`OwnToken`), a refreshed one is accepted by
the provider or a loss (`NewestToken`), and after a logout only those who were at
something when it ended can have a token (`LogoutIsLast`), which is stronger than
`LogoutHolds`: saves have not overlapped either. The proof needed a correction of
the history `lost`: a login used to end every loss, although a program could still
be about to save an older answer, for which four operations are needed, one more
than the run has.
Of the plugin store, what is left of an operation is an end of its steps, and how
many are left says what has been done (`Installing`, `Updating`, `Uninstalling`,
`Reporting`), whatever earlier operations that were cut off had left. What makes the
synchronisation right, which compares the record with the source and never with the
copy, is that no directory that loads is older than its record or newer than its
source (`Files`): a bundled copy that needs no synchronisation is then the source's.
Of the runtimes, the invariant follows a command through its steps: the steps it may
have left are the ends of four commands (`Rests`), and the next one says which
runtimes have servers (`Alive`), whose plugins may be initialized (`Initializing`) and
on which conversation the runtime is (`OnTheOpened`), which for a switch is the target
until the handle settles. Runtimes are numbered as they are built, so one that is
stuck is older than the current one (`InTurn`) and never mistaken for it.
Of the session files, what the newest file of a session must hold (`Kept`) says
nothing about the step after next. `OpenFile` follows the open file through append
and save: before a record it is what is saved, after it one message more, and while
it is not, a line in it was joined to a torn one; in all steps that write it, it is
the newest of its session, so that what is written is what counts. For a rotation and
a removal the order of the files matters: of any of them one is the oldest
(`Ordered`), which is also why the clean-up leaves no more than it should (lemma
`StoreCleaned`: of those it leaves, the oldest has fewer than the bound behind it).
That a rotation never replaces a copy needs that the times in the names have passed
(`Timely`), and that only copies of the open session are removed that a path begins
with the session of its file (`OnDisk`). `DoneMeansSaved` follows from `OpenFile`:
the one step that ends a command is the clean-up, which leaves the open file.
Of the chats of the agent server, the difficulty is that three things are about one
question at different times: the server that runs its calls, the events, and the
page, which may be elsewhere by then. `OnTheWay` says what the events lack to what
was run, call by call: those announced and not yet read are the next ones in order,
each has its result directly behind it, and one whose result is still to come is the
last of the list (`Answering`). So the result that the page gives to the last call
of that name belongs to it, and when the end is read nothing is missing, since the
server is through with the question (`Through`), which also keeps a saved answer
right (`WholeIsThrough`, `ServedOnce`). An answer lands behind its question because
that is the last thing that is shown as long as nobody went elsewhere (`LastAsked`),
and the mode is the one a question began with because switches wait for its end
(`OneMode`).
Of the settings, a load that nothing disturbed has, of each path in the files it has
read, the last value, and of the server the last definition (`MergedSoFar`); behind
the fifth file that is `Said`, which looks at all files at once (`SettingsRead`), and
a file that is refused is one for which `Said` is a failure. The mode is the one that
the first load found, and as long as no file changes later loads find it too
(`ModeFollows`). A tool that is about to write a file, and met no other there, holds
all that was ever set in it, before it truncates it and after (`WritersKeep`). The
theorem has no bound on the files, their contents, the writers, the sets or the cuts;
it asks only that what is not an object has no keys (`SettingsAssumption`).

Only model-checked:

- Liveness (`TurnEnds`, `AbortEndsTheWait`, `EndsAreKnown`, `WaitsEnd`) and the
  fairness of `ImplementsToolCalls` and `CallsKept`, which the prover does not reach.
- Of `MCProgram`, `StreamsSound`, `FramesAreWhole` and `ChatIsSound`. Their inductive
  invariants are not written. What `SseFrames` and
  `ModelStream` compute with folds and a recursive function over sequences cannot be
  shown for every input by this prover at all, since that takes an induction over data.

## 6. Findings

1. `SessionDelete` (`cli/main.rs:4453`): after a switch to a rotated copy, whose
   file name is not its session's id, the guard of `/session delete` compares
   unlike names: the open file can be deleted, and the unrotated one cannot.
2. `ProgramEffort` (`cli/main.rs:3631`): `set_reasoning_effort` sets the effort on
   the client of a runtime on which no turn runs; every turn builds a new client
   without it.
3. `ProgramCalls` (`cli/main.rs:6908`): the consumer of the command line has one
   place for a pending call, and a chat completion opens all its calls before it
   closes any, so all but the last are lost. The sub-agents' consumer keeps them
   by index and is tested for that.
4. `ProgramRollback` (`src/ui/agent_server.py:990`): a rollback restores the files
   of the chosen snapshot and forgets every newer one with what it had saved, so
   a file that only a later request changed stays changed; the page promises all
   the files as they were.
5. `ProgramSettings` (`tools/lib.rs:4844`): Config sets, with success, keys that the
   loader then refuses, so the next turn or start does not load the settings.

Smaller divergences, without a run: `USAGE.md:323` says that later files override
earlier ones, which the deprecated names do not (see Settings), and `USAGE.md:326`
names `~/.config/claw` where the code uses `~/.claw`; `ExitPlanMode`'s message says
"unchanged" when it ends a plan mode that the user set beside a stale record.

## 7. Not modelled

`PROJECT.json` gives the status and the reason for every component. In short:

- Code the program does not call outside its tests: `attempt_recovery`,
  `McpLifecycleValidator`, `PluginHealthcheck`, `GreenContract`,
  `detect_branch_lock`, `validate_command`, `TrustResolver`, the remote session and
  proxy, the LSP and MCP tool registries. A model would have
  to invent the callers and with them the interesting part.
- Registries without a life of their own: tasks, teams and cron entries are written
  by the tools of one thread (sub-agents are not given these tools) and nothing
  outside the tests advances them.
- The permission enforcer: set for sub-agents only, whose policy it repeats.
- Text: parsing of rules, commands, screens and manifests, summaries, prompts,
  rendering, request translation. The models take what the parsers report, in all
  combinations. This is most of the lines of the largest files (`cli/main.rs`,
  `tools/lib.rs`, `commands/lib.rs`) and the reason why the map covers about a
  tenth of the repository's lines.
- Time as a quantity: backoff and ages, except where two clocks meet (state file,
  prompt cache, order of modification times, deadlines as events).
- Two programs on one session file, which is listed as a hazard: no lock and no
  document says what should happen.
- The legacy JSON form of a session, `claw --resume` with commands.
- The desktop utility's scanners and other pages: each poll replaces what the one
  before found. The memory proxy's start, which a synchronous flag protects; its
  `spawn` has no error handler, and a change of its availability that another
  check sees first is never announced.

## 8. What is left

In the order of what it would add:

1. Theorems about the other components of `MCProgram`: the desktop utility
   (`DesktopChat`, `DesktopPage`), and of `ModelStream` what does not need an induction
   over the stream.
2. Composition: `SessionStore` as the implementation of the `disk` of
   `Conversation`, and `HookProcess` as that of its hook steps, as refinements
   and not by agreement of their promises; `DesktopPage` over `DesktopChat` itself.
3. The grants of workspaces and the downloads of the agent server, the paging of
   resources in `McpManager`, two tabs in `AgentChat`.
