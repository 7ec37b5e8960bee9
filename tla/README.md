# A TLA+ model of Albert

Albert is a terminal agent: it sends a conversation to a language model, runs the
tools the model asks for, and keeps what happened in a session and in files.  This
directory holds TLA+ specifications of its core, the TLC configurations that check them
on small instances, and proofs that the main safety properties hold for all
instances.  Paths below are relative to `src/rust/crates/`.

## 1. The system

| part | where | state | operations |
|---|---|---|---|
| conversation loop | `runtime/src/conversation.rs` | session, usage tracker, cancel token, iteration count | `run_turn`, `run_turn_with_images`, `compact`, `set_cancel_token` |
| permission policy | `runtime/src/permissions.rs` | active mode, tool requirements | `authorize` |
| hooks | `runtime/src/hooks.rs` | the commands configured | `run_pre_tool_use`, `run_post_tool_use` |
| session, usage, compaction | `runtime/src/{session,usage,compact}.rs` | messages, counters | push, `record`, `from_session`, `compact_session`, save and load |
| Last Look Back (LLB) | `moe-llb/src` | target files, snapshot files, ticket | `execute`; the MCP tool `llb_write_safe` |
| MCP client | `runtime/src/mcp_stdio.rs` | server processes, route table, next request id | `discover_tools`, `call_tool`, `shutdown` |
| sub-agents and todo list | `tools/src/lib.rs` | manifests, output files, the todo file | `execute_agent`, `execute_todo_write` |
| memory graph and vault | `tools/src/lib.rs` | vault, embedding, index and graph files | `run_vault_write`, `vault_sync_index`, `run_memory` |
| terminal client | `albert-cli/src/{main,tui}.rs` | runtime, cancel flag, approval channels, screen | submit loop, TUI thread, turn thread, `/permissions`, `/model`, `/exit`, ... |
| model API client | `api/src` | attempts, byte buffer, pending events | `send_with_retry`, `stream_message`, `next_event` |
| shell and other commands | `runtime/src/bash.rs`, `tools/src/lib.rs` | a child process, its pipes, a deadline | `execute_bash`, `execute_shell_command`, `execute_repl`, and `output_with_stdin` of a hook |
| configuration, prompts, OAuth, files | `runtime/src` | files | read, merge, write |
| commands, compat harness, rtk-integration, moe-reference, Python workspace | | none of their own, or vendored | |

How the parts interact.  The submit loop of the terminal client lowers the cancel
flag and starts `run_turn` on a thread of its own.  The turn alternates a blocking call
of the API client with the tools of the reply.  Each tool passes the policy, which may
call back the operator through the TUI thread's event queue, then the pre-tool hooks, then
the executor (built-in tool, MCP call or sub-agent), then the post-tool hooks.  The TUI
thread raises the cancel flag at any moment.  A sub-agent is another conversation loop on
a detached thread, without a prompter and with 32 iterations.  After the turn the client
writes the session to its file.  `moe-llb` is a library with an MCP server: whoever wants
to change a file passes it a request and a closure.

What is hard, and what makes each part correct:

* **Conversation loop.** The loop has eight ways to be done with a tool use: denied by the
  mode, by the operator or by a hook; run to +1 or -1; run to 0 with or without recovery;
  not able to run.  Most of them write a result, two write a prompt in the user's name
  instead, two drop the rest of the reply, and ESC may fall anywhere between them.  Correct
  means: every use is dealt with once and in order, nothing refused runs, nothing runs twice,
  a cancelled reply leaves no trace, requests per prompt are bounded, turns end.  An API
  that wants a result for every use and a use for every result asks for more than the loop
  gives (section 4).
* **Session.** Compaction removes history and must keep its recent end; the counters
  are 32 bits wide and are recomputed when a session is resumed.
* **LLB.** A transaction over files without a lock, with undo by copying: errors half
  way, rollbacks that fail, big files, processes that die, snapshots in the very directory
  whose entries are counted, two processes in the same millisecond.  Correct means: a
  rollback restores, a snapshot is there as long as it may be needed and not longer, an
  action that did something else than declared is not committed, an honest one is.
* **MCP client.** A server process may die, refuse, answer page by page or speak out of
  turn; requests, routes and process state must stay in step although ids are never compared.
* **Sub-agents and todo list.** Detached threads write manifests and a shared file; writes
  fail and the process exits in the middle.  Correct means: files tell what happened.
* **Memory.** Several processes append to and rewrite the same files without a lock.
* **Terminal client.** Three threads, a flag, two channels, a popup and one terminal.
  Correct means: consent is for the call it was given to, only ESC cancels, the screen
  tells the truth, one reader of the terminal, every turn returns.
* **API client.** Retry limit, a byte stream cut at arbitrary places, and calls of the model
  that lack a name or whose arguments do not parse.
* **Commands.** Two bounded pipes, a deadline, a child that may leave descendants with its
  pipes behind, and for hooks an input that has to be delivered first.  Correct means: the
  output is complete and in order, the verdict is the command's, nothing goes on running
  that the call still hears of, and the call returns.

The full list of what is hard to test, line by line, is under `hazards` in
`PROJECT.json`.

## 2. Modules

| module | models | extends |
|---|---|---|
| `Permissions` | modes, their order, `authorize` | |
| `Session` | messages, `UsageTracker`, `compact_session` | `Permissions` |
| `ConversationLoop` | `run_turn` and its loop | both |
| `LastLookBack` | `albert_llb::execute` and the answer of `llb_write_safe` | |
| `AtomicMutation` | what an atomic mutation promises; implemented by `LastLookBack` | |
| `McpManager` | `McpServerManager`, its servers, and the way the CLI uses it | |
| `SubAgents` | `execute_agent`, its threads and files, `execute_todo_write` | |
| `MemoryStores` | vault, embeddings, index and graph under several processes | |
| `TuiTurn` | the threads of the full-screen client around a turn | |
| `ApiStream` | one call of the model: retries, chunks, frames, reply | |
| `ChildCommands` | one command run for a tool or a hook: pipes, deadline, kill, exit code | |
| `ConversationLoopProofs`, `LastLookBackProofs`, `McpManagerProofs`, `SubAgentsProofs`, `MemoryStoresProofs`, `TuiTurnProofs`, `ApiStreamProofs`, `ChildCommandsProofs` | theorems | the module of the name, `TLAPS` |
| `MC...` | constants for TLC | the module of the name |

In each module some definitions are marked `Mutant`.  They are not used by the
specification; each is an action or operator with a plausible bug, and putting it in the
place of the right one makes TLC find the property it belongs to violated (`mutants` in
`PROJECT.json`).

### ConversationLoop

The variables are the fields of `ConversationRuntime` (`mode`, `session`, `usage`,
`cancelled`), the locals of the loop (`pc`, `iterations`, `pending`, `toolFailed`), how the
last turn ended (`outcome`), the API's supply of ids (`nextId`), counters that bound the
model (`turns`) and three history variables (`requests`, `executed`, `approved`).
One action corresponds to one stretch of code between two points where the turn's
thread blocks or where the cancel flag is read:

| action | code |
|---|---|
| `StartTurn`, `Cancel` | the caller: push the prompt; ESC |
| `LoopTop` | first checkpoint and iteration limit |
| `SendRequest`, `StreamFails`, `ReceiveReply` | the API call, second checkpoint, `build_assistant_message`, `record`, the arm of evaluation +1 |
| `AuthorizeTool`, `OperatorAllows`, `OperatorDenies` | `authorize` and the prompter |
| `PreHook`, `ExecuteTool`, `ExecuteErrs`, `PostHook` | hooks and executor |
| `GapRecovered`, `GapHalts` | state 0 |
| `Finish` | `maybe_auto_compact` and return |

A message keeps its kind, the uses it makes or the use it answers, whether the answer
is an error and why, and the input tokens reported with it.  Tools are names, inputs are
left out.  A reply is any sequence of at most `MaxUses` tool names, with or without
usage and stop event.  The evaluation of a reply is the constant +1 in the code
(`get_consensus_evaluation`), so its other arms are not modelled.  `CounterModulus`
stands for 2^32; the model wraps like a release build, while a debug build stops with a
panic at that point.  The hooks are those of `new_with_features`; a runtime built with
`new`, as the terminal client does, is the instance `HookDenials = {FALSE}`.

### LastLookBack and AtomicMutation

`disk` holds the targets (content and execute bit), `snaps` the snapshot files by target
and millisecond, `strays` the number of other entries of the directory, and `tx` one
record per call of `execute`: program counter, request, ticket tier, entry count before,
snapshot handle, verdict, and two history fields (`behaviour`, `pre`).  The actions follow
`execute`: `Submit` and `HumanAnswers` (Gate 1), `Capture`, `Snapshot` or its failures
(`SnapshotFails` writes nothing, `SnapshotTears` a part of the copy), the caller's closure (`ActionReturns`, `ActionErrs`, `ActionPanics`),
`Gate2`, `Undo`, `Close` (the drop of the handle, whose removal may fail unnoticed: the
record then keeps the name of the file).  `Crash` stops a process between any
two of them; `Outsider` adds and removes entries next to them.

The closure is the environment: it does what was declared, fails before or after
damaging the target, panics, or claims success after doing nothing, leaving a file
behind, setting the execute bit or writing to a neighbour.  The closure of
`llb_write_safe` writes the content whatever the operation says; for CHMOD that is one of
the actions that claim success without doing what was declared.  All targets are in one
directory.  Paths are names; the blacklist is a set of names.

`AtomicMutation` says what a user expects: a request is granted in one step that gives
the file the declared value, or refused without effect.  `ImplementsAtomic` maps a file
to what Gate 1 saw until the verdict is `allow`.

### McpManager

`client` is what the manager holds of a server (`process`, `initialized`), `server` the
processes (alive, the requests they received, their standard output), `index` the route
table `tool_index`, `nextId` the request counter, and `op` the operation under way: a
`discover_tools`, a `call_tool`, or the discovery followed by a call that
`execute_mcp_tool` of the CLI performs (`ExecuteTool`).  The manager is behind a lock, so there is one
operation at a time.  `Spawn`, `Ready`, `Send` and `Receive` are the steps of `ensure_server_ready`
and `request`; `Shutdown` and `Reconfigure` are `shutdown` and the `/mcp` commands;
`ShutdownStops` is a `shutdown` that ends at a server it cannot kill or wait for.
`Answer`, `SpeakUp` and `Die` are the server: it answers a request of its log with a
result, an error or neither, sends a notification or request of its own, or dies.
Framing and JSON are reduced to what the client tells apart.  `executor` records which
tokio runtime the pipes were registered with.

### SubAgents

`agent` is where the launching thread or the detached thread of each agent is; `output`
and `manifest` are its files; `store` is the todo file and `todo` the `TodoWrite` call of
each thread.  `WriteOutput`, `WriteManifest` and `StartThread` are `execute_agent_with_spawn`;
`Build`, `EndTurn`, `AppendOutput` and `WriteStatus` are `spawn_agent_job`,
`run_agent_job` and `persist_agent_terminal_state`.  A whole-file write is one step for manifests
(torn if it fails) and two, truncate and fill, for the shared todo file.  `Exit` ends the
process.  The conversation of a sub-agent is one step, `EndTurn`: it is the loop of
`ConversationLoop`.

### MemoryStores

Files are sequences of pieces: a record, a torn record, one torn inside a character, a line
feed (`writeln!` on an unbuffered file is two writes).  `Readable` is what `read_to_string`,
`lines()` and the JSON parser make of them: nothing at all of a file with half a character.  A call
of `run_vault_write` goes through `record`, `lineFeed`, `sync`, `embed`, `embedLf`, `rebuild`,
`fillIndex`; the adding actions of `run_memory` through `readGraph`, `rewrite`,
`fillGraph`.  Processes interleave between any two of these steps, and may die at any of
them.  `ReadVault` reads the vault and the embedding file in one step, although the code
opens one after the other; a vault that cannot be read ends the synchronisation, embeddings
that cannot are none.  Ids are unique because they are UUIDs.

### TuiTurn

`events` is the channel of the TUI thread (keys and everything other threads send it),
`submits` the channel of the main thread, `ui` the state on the screen and who has the
terminal, `flag` the cancel flag, `main` the submit loop, `turn` the thread of a turn and
`settings` the permission mode as chosen, as shown and as the runtime was built with.
The TUI takes one event per step, so keys interleave with requests, answers and handovers
exactly in the order of the channel; a drawing that fails (`DrawFails`) may take it away at any moment,
with the terminal as it is (`ui.raw`).  Lines are kinds: a prompt, an `@` line, `/permissions`,
`/model`, `/plan`, a command that takes the terminal, `/exit`.  A turn looks at the flag, calls
the model, which answers or asks for a tool, and asks the operator when the policy says so.
A dropped channel end is not a message of its own: it is the absence of the request in
queue and popup (`QuestionLost`).

### ApiStream

One `call` with its attempts, the `message` the server sends, the `wire`, the parser's
`buffer` and the `reply` as the client holds it.  A message is a sequence of blocks; the
input of a tool use comes whole or in `Fragments` pieces; a call may be `garbled` (its
arguments empty or no JSON) or `nameless` (for a buffered answer also: without an id).  `Translated` is what `translate_from_openai`
and its like make of a buffered answer: both are lost, and a body without a message is one of no blocks.
`HandedOn` is what `flush_tool_calls` does to the calls of a stream: a garbled one gets `{}`, a nameless one is
lost.  A frame is one token, and a
blank line two (LF LF) or four (CR LF CR LF); `Chunk` delivers any number of tokens, so a chunk may end
inside a blank line.  `Parse` is the loop of `push`: `NextFrame` again and again, which cuts
a frame off or finds none.  `TakeAll` is the client's loop over the events.  Clients are the CLI over a native, an OpenAI-compatible or a
buffered provider, and a sub-agent.

### ChildCommands

`kind` is the code that runs the command: the bash tool, PowerShell with and without a
timeout, the REPL tool, a hook, or a tool in the background.  `at` is where that code is,
`process` what the child and one descendant of it are doing, `ends` the ends of pipes each
holds (a descendant inherits them, and any process may close or redirect one and live on), `pipe` the bytes on their way,
`read` and `text` what the caller has, `sent` and `taken` the payload of a hook.
`execute_bash_async` is `ReadChunk`, `SeeExit` and `TimesOut` (the branches of its
`select!`), then `CollectSome`, `NextStream` and `Collected` for the final drain.
`execute_shell_command` with a timeout alternates `Poll` and `LookAtClock`; what
`output()` and `wait_with_output()` do is `CollectSome` and `Collected`.  `output_with_stdin`
is `Feed`, `FeedFails` and `Fed`.  Characters have one or two bytes, because bash decodes
each chunk by itself; a character is written at once, as writes below `PIPE_BUF` are.
`written` is history.  What the command does (`WantToWrite`, `WantToRead`, `Fork`,
`CloseEnd`, `Exit`) is the environment.

## 3. What the runs show

A final disjunct of `Next` or `CHECK_DEADLOCK FALSE` lets a model stop where the system may
stop: no agent is left to start and no call to make (`sub_agents`), the operator
presses no further key or leaves (`tui_turn`), the call is over (`api_stream`, `child_commands`).

| run | question | instance |
|---|---|---|
| `loop_answers` | is every use dealt with, and does only what was permitted run? | one turn, two requests, up to two uses in each, five modes, prompter or none, a registered and an unregistered tool, hooks, ESC anywhere |
| `loop_history` | what do compaction, resumption and limits do to history? | two turns, up to two iterations each, `PreserveRecent` 2, counters modulo 5, threshold between two usage figures |
| `llb_sequential` | do rollbacks restore, does Gate 2 see and judge rightly, does a dead process's snapshot survive? | two transactions one after the other on two names (one blacklisted), all operations, all behaviours but an early failure, panics, expired tickets, failing restores, crashes |
| `llb_concurrent` | whose is a snapshot file, can a mutation get stuck? | two overlapping transactions on one file, two time stamps, contents below and above the size limit, panics, crashes, copies and removals that fail, an outsider |
| `llb_atomic` | does the protocol implement the atomic store? | two transactions of tier 2 and 3 |
| `mcp_manager` | do manager and servers stay in step? | two servers, two tools whose qualified names collide, all operations, two pages, one fault |
| `mcp_per_call` | can the CLI call a tool twice? | one server that always answers |
| `sub_agents` | do files tell what happened to agents and todo lists? | an agent that may write todos, one that may not, the main thread; two failures or exits |
| `memory_stores` | what is lost, what is found? | two processes, two memories, two entities, two accidents |
| `tui_turn` | do operator, screen, flag, turn and terminal stay in step? | every kind of line, three keys, two tool calls, one fault |
| `child_commands` | is output whole, verdict true, what is left running, and does the call return? | every kind of caller, a child and a descendant, pipes of two bytes, chunks of one, a payload of three, three bytes of output |
| `api_stream` | is what is taken for an answer the answer? | replies of up to two blocks, all four clients, every cut, three retries |

**`loop_answers`.**  `EveryUseIsFollowedUp` says what the loop makes of the uses of every
reply in the conversation, whatever happened to its tools.  It is the conjunction of
`EveryUseDealtWith` (the messages directly behind the reply deal with its uses one by one and
in order: a result answers exactly that use, a recovery or reflection prompt stands in its place;
what is then left is exactly what the `for` loop still holds, and nothing once another
message follows, unless the last of them is a halt or a reflection, behind which the rest is
dropped), `ResultsHaveTheirReply` (no result stands elsewhere, except directly behind the
summary of a compaction that cut off its reply) and `RequestEndsWithInput` (each request
ends with a prompt, a recovery prompt or a result).  It does not say that an API accepts the
conversation; section 4 lists the uses and results that stay alone.  `ToolsRunOnceInOrder`, `RefusedNeverRuns` and `OnlyPermittedRuns`
compare the conversation with what was executed.
`CancelledLearnsNothing`: while the
flag is up no reply enters the session or the counters.  Two uses and two requests suffice
for every pair of outcomes in one reply and for a second reply after any of them; a second
reply without tools ends the turn with a compaction that cuts through the results of the first.

**`loop_history`.**  `HistoryGrowsOrCompacts`: the session only grows, except where a
finished turn at or above the threshold leaves a summary and the recent messages as they
were.  `LastWordSurvives`: the final answer is the last message also after a compaction.
`UsageSurvivesResume`: until a compaction, `from_session` recomputes the tracker of the
running program, wrap-around and dropped replies included (a compaction drops messages and
their usage, so afterwards the two differ).  `RequestBudget`: requests are at most
`max_iterations` per prompt.  `TurnEnds`: every turn ends.  The code keeps 4 recent
messages; the runs keep 2, so that both turns compact and the second compacts a summary.

**`llb_sequential`.**  `RolledBackMeansRestored`: a guarded mutation that ended in error,
expiry or violation left its target, permission bits included, as Gate 1 found it.
`Gate2IsRight`: what Gate 2 lets through (`DeceitIsCaught`) and what it accuses
(`ViolationHasCause`), with the leftovers of dead processes in the directory it counts.  An
action that skips an overwrite, or that writes to a neighbouring file, is committed:
Gate 2 counts entries and does not compare contents, and the properties say no more than
that.  `UndoPointHeld`: from the moment the action may run the snapshot holds what Gate 1
found, for ever if the process dies.  The instance has no name with an executable-like
extension and no file above the size limit; section 4 says what happens there.

**`llb_concurrent`.**  `EverySnapshotIsOwned`: a snapshot file belongs to a transaction
under way, or its process died, or its copy failed on the way, or its removal failed; a
panicking action leaves none.  `EveryMutationSettles`: whatever others do to target and
snapshot, `execute` comes to its end.  `UndoPointHeld` does not hold here: with equal time
stamps the first transaction to settle deletes the snapshot of the other.

**`llb_atomic`.**  `ImplementsAtomic` on OVERWRITE, CHMOD and DELETE with actions whose
straying Gate 2 can see, and restores that work.

**`mcp_manager`.**  `Inv` includes `HandshakeInOrder`: a process sees `initialize` first,
nothing else before it accepted one, and no second one after.  `OutcomeIsTrue` has two
parts.  `AnswerBelongsToCall`: what
a call returns is the answer to that very request although ids are not compared, because
there is one request at a time and one answer is read for each; it may fail only after the server spoke out
of turn, when every later answer is off by one.  `DiscoveryIsExact`: routes are those
of the last complete listing.  `IoErrorHasCause`, the other part: an I/O error is the fault of a process that could not
start, died or spoke out of turn, or of the dropped executor.  `EveryOperationReturns`.

**`sub_agents`.**  `Inv` includes `StatusIsDocumented` and `RunningHasCause`: a final
status has its report in the output file, and a manifest that goes on saying
`running` is about somebody at work, killed, or unable to write.  `TodosAreTrue`: the todo
file is unreadable, and the old list a call returns outdated, only after overlapping calls,
failed writes or an exit in the middle of a call.  `EveryAgentReports`.

**`memory_stores`.**  `QuietStoresKeepAll`: without overlap and accident whatever was
reported stored can be read.  `IndexCatchesUp`: a call that was alone leaves every readable
memory in the index, whatever happened before.  `Inv` includes `IndexFindsMemories`
(meaning finds nothing that was never written) and `EmbeddedOnce` (no memory has two readable
embeddings, unless calls overlapped or the embeddings could not be read).

**`tui_turn`.**  `Inv` includes `PopupMeansAsking`: the popup on the screen is the question
the turn waits for.  `ConsentBeforeRun`: an answer left in the queue does not
count for the next question; the tools that only talk to the operator (`SendUserMessage`,
`Brief`) are allowed unasked, and never asked about.  `NoStaleCancel`: every line raises the cancel flag, yet no
turn ends cancelled unless ESC was pressed in it.  `ScreenIsTrue`: spinner and mode on the
screen are those of the client behind it.  `TerminalHandedOver`: as long as no
drawing fails, a command finds the terminal in ordinary mode (but under the report card), and
so does whoever comes after the program, unless saving failed.
`EveryTurnReturns`: unless the TUI was left with its popup open or the thread panicked, and
ESC releases the latter.

**`api_stream`.**  `FramesAreExact`: at any moment the reply is what the complete frames
received so far make, however they were cut.  `OutcomeIsJust` (`AnswerIsWhole` and
`ErrorHasCause`): a reply
taken for an answer has every text of the message and every call with a name and arguments that
parse, in order and with whole inputs, and of the other calls what `Due` says; and a call fails only if network
or server did.  The other exceptions (`map_stream_event` of the CLI drops fragments of an input, a sub-agent keeps what a
cut stream left) are written into the properties.  `Inv` includes `RequestsBounded`.

**`child_commands`.**  `Inv` includes `OnlyDetachedSurvive` (what a call leaves running it could not
hear of any more: a descendant that gave up its output, what is left of a hook that closed its
input, or the descendant of a bash command that timed out) and `OutcomeIsTrue` (a
hook that exits with 2 denies if it took its payload, success means exit 0, a timeout means
that the deadline passed).  `OutputIsWhole`: what was read and what is still in the pipe is
at any time what was written; at the end it is all of it, and only bash may show a
replacement mark for half a character.  `CommandReturns`: a call with a deadline fails
to return only if a descendant keeps a pipe for ever, one without only if that or the child
lives for ever;
and no process waits in a write for ever, except in the two crossings named in section 4.

## 4. Where the code does not do what it says

The run `mcp_per_call` checks a sentence of the repository and finds a behaviour against it:
`mcp_stdio.rs:1652` expects one `initialize` for a discovery and the calls after it, the
process being reused, while `execute_mcp_tool` (`main.rs:4979`) builds a runtime per call; the
pipes of the server go with the first one, and every later call fails.

The following were met while modelling and are built into the models as they are.

* Conversation.  The `break` after a halt of state 0 leaves the inner loop only, and the next
  request follows at once (`conversation.rs:386`, whose comment says "Actually halt if recovery
  failed"; `src/README.md:40` says Albert pauses and asks).  Requests go out with tool uses that
  have no result: a recovered use has a prompt in the user's name in its place
  (`conversation.rs:365`, `:374`), and so has one whose tool failed to run (`:336`), which goes
  out with the next turn; behind a halt (`:386`) and such a failure the other uses of the reply
  are dropped.  A compaction counts messages and not replies (`compact.rs:90`), so what it keeps
  may begin with results whose uses are gone.  Nothing repairs either before the request is
  sent.  `authorize` denies in read-only mode without asking, and in `Prompt` mode, which ranks
  above every usual requirement, allows without asking (`permissions.rs:105`; `main.rs:4316` has
  a popup for both).  `maybe_auto_compact` reads the usage recorded last, that of an earlier
  request when the last reply reported none (`conversation.rs:489`).
* LLB.  A new name with an executable-like extension has no snapshot, but three decisions
  assume one: a rejected new script stays on disk (`moe-llb-mcp.rs:279` says "rolled
  back"), one stray entry is forgiven, and an honest CREATE is rejected (`gate2.rs:89`).  A
  panic in the action drops the snapshot without a rollback (`runtime.rs:44`, against
  `snapshot.rs:51`).  After a rollback that failed nothing is locked (`runtime.rs:53`, against
  `moe-llb/README.md:171`).  CREATE over an existing plain file is tier 1 and has no undo.
  "Automatically deleted" (`moe-llb/README.md:161`) has two exceptions besides a crash: a
  copy that fails on the way leaves its part without a handle (`snapshot.rs:37`), and a
  removal that fails is ignored (`types.rs:142`).
* MCP.  Ids of answers are not compared; a server that died is never started again; reads
  have no timeout.
* API.  `expect_success` turns every HTTP status into an error that is not retried, while
  two ignored tests (`api/tests/client_integration.rs:165` and `:198`) expect retries and
  `RetriesExhausted`, which is never returned.  `SseParser::finish` is never
  called.  The CLI drops streamed tool inputs; a sub-agent takes a cut stream for an answer
  (`tools/src/lib.rs:1932`).  A call whose arguments do not parse is dropped from a buffered
  answer without a word (`client.rs:888`), but runs with an empty input when it was
  streamed, where a comment wants it so (`sse.rs:135`); one without a name is
  dropped by both (`client.rs:882`, `sse.rs:132`), one without an id by the first.  A 200 body without choices
  passes for an empty answer (`client.rs:868`).
* Terminal.  Leaving while a popup is open hangs turn and main thread.  ESC between
  a line and the lowering of the flag (`main.rs:1985`) is lost.  The report card drops a
  handover request, so a command runs below it.  An `@` line leaves the spinner on.  A failing save at `/exit` leaves
  the terminal raw, and so does a drawing or a setup that fails: each `?` in `run_inner`
  (`tui.rs:2749`, `:2808`, `:3531`) returns before the reset (`:3549`), and commands then run in
  that terminal.  `SendUserMessage` and `Brief` are allowed in modes that ask about every
  tool (`:3331`).  `/permissions` says that the mode changed although the rebuild failed
  (`main.rs:1335`).  `done_flag` is not set when a turn panics: nothing is joined or
  reported before ESC, although `main.rs:2019` forwards "until the agent thread is done"
  and `main.rs:2062` has the report.
* Commands.  The "hard cap" of two minutes (`bash.rs:188`) ends with the child: the drain
  after its exit (`:254`) has no deadline and waits for whoever holds the pipes, and a
  descendant that fills stderr while stdout is drained waits for it in turn.  Chunks are
  decoded one by one, so a character that straddles two reads becomes two replacement marks.
  A descendant that closes or redirects its output outlives the call, deadline or not, and a
  child that does keeps `select!` spinning on the end of file (`:231`) until it ends.
  A hook that exits with 2 without reading its input may be taken for one that failed to
  start, and the tool runs (`hooks.rs:286`; the test at `hooks.rs:318` has such a hook and
  expects a denial); one that closes its input and runs on is left running and counts as one that
  failed to start; one that writes more than a pipe holds before it reads a large
  payload never ends.  The REPL tool ignores `timeout_ms` (`tools/src/lib.rs:2596`), and
  PowerShell reports a death by signal like a success (`:2979`).  `execute_create_skill` takes
  any result of the compiler for a success, a timeout after its 10 ms included (`:643`).
  The sandbox runs a command below `unshare --fork`: a kill at the deadline reaches
  `unshare` and not the command.  Children in the background are never waited for.
* Memory.  A record cut short swallows the next one, which is reported as secured
  (`tools/src/lib.rs:5030` says otherwise); one cut inside a character makes the whole vault
  unreadable (`:4931`, and `vault_read`), while later writes still say secured.  Embeddings that
  cannot be read count as none (`:4941`), and every memory is embedded again.  A graph that does not parse is replaced by an empty
  one (`:4482`).  A sub-agent's `query_memory` recovery bypasses its set of allowed tools.

## 5. Fairness

* `ConversationLoop`: the turn's thread is scheduled, the API call returns or fails (the
  client has timeouts), a tool and the hooks end, the operator answers a prompt.  Nothing
  is assumed about ESC or about replies being free of tools: turns end because of the
  iteration limit, so with the default limit `usize::MAX` the property is about a limit
  nobody reaches in practice; sub-agents have 32.
* `LastLookBack`: a process that does not die runs `execute` to its end; the human of a
  DELETE need not answer, which is why `EveryMutationSettles` starts at `Capture`.
* `McpManager`: the steps of the operation, and a server that owes an answer gives one or
  dies.  A server that does neither blocks the manager for ever: the code has no timeout,
  and no property claims one.
* `SubAgents`: each thread is scheduled; its conversation has 32 iterations.
* `TuiTurn`: the three threads are scheduled, calls to the model return, and an operator who has
  a popup in front of him answers it.  No other key need ever be pressed.
* `ChildCommands`: the caller is scheduled, the kernel completes a read or write that can be
  completed, the deadline passes.  Nothing makes a command exit or read its input.

Fairness is weak throughout: once a thread can go on, only its own step disables it.
`MemoryStores` and `ApiStream` state safety only.

## 6. Bounds

`MaxUses` (tool uses in a reply), `MaxTurns`, `MaxRequests` bound the loop;
`MaxIterations` is the program's own limit.  `Stamps`, `Txs`, `Values` and `MaxStrays`
bound LLB: two transactions are enough for a snapshot and one that disturbs it, three
contents for old, new and half-written.  `MaxId` stops new MCP operations after so many
request ids (five allow a discovery of two servers and a call, or an operation after a
failed one), `MaxPages` is the length of a listing.  `MaxWrites` is the number of `TodoWrite` calls of a
thread.  `MaxKeys`, `MaxAhead` (events the operator is ahead of the client) and `MaxCalls`
(questions and tool calls) bound the terminal client; two calls are needed for an answer that
outlives its question.  `Fragments` and `MaxRetries` are the lengths of a streamed input and the client's
own limit.  `PipeSize`, `BufferSize` and `Payload` stand for 64 KiB, 4096 and the
JSON of a hook: the payload is larger than a pipe, a pipe larger than a chunk, and a chunk may
end inside a character; `MaxBytes` of output fill a pipe and leave one writer waiting.  `MaxFaults` is how often something goes wrong: one where every pair of
interleavings is explored, two where a failure in the handling of a failure matters.

## 7. What is proved

The theorems hold for all values of the constants that satisfy the named assumptions of
the module.

| module | theorem | statement |
|---|---|---|
| `ConversationLoopProofs` | `TypeCorrect` | `Spec => []TypeOK` |
| | `BudgetHolds` | `Spec => []RequestBudget` |
| | `ToolsInOrder` | `Spec => []ToolsRunOnceInOrder` |
| | `RefusedStaysRefused` | `Spec => []RefusedNeverRuns` |
| | `PermittedRuns` | `Spec => []OnlyPermittedRuns` |
| | `AnswerIsLast` | `Spec => []LastWordSurvives` |
| | `HistoryIsKept` | `Spec => HistoryGrowsOrCompacts` |
| | `NothingLearntAfterCancel` | `Spec => CancelledLearnsNothing` |
| | `ResumeRebuildsUsage` | `Spec => []UsageSurvivesResume` |
| | `UsesFollowedUp` | `Spec => []EveryUseIsFollowedUp` |
| `LastLookBackProofs` | `TypeInvariant` | `Spec => []TypeOK` |
| | `UndoPointsLast` | `~Concurrent => (Spec => []UndoPointHeld)` |
| | `RollbacksRestore` | `~Concurrent /\ ExecNames = {} => (Spec => []RolledBackMeansRestored)` |
| | `SnapshotsAreOwned` | `Spec => []EverySnapshotIsOwned` |
| | `Gate2Judges` | `Serial => (Spec => []Gate2IsRight)` |
| | `MutationsAreAtomic` | `AtomicServer => (Spec => ImplementsAtomic)` |
| `McpManagerProofs` | `HandshakesInOrder` | `Spec => []Inv` |
| | `OutcomesAreTrue` | `Spec => []OutcomeIsTrue` |
| | `DiscoveriesAreExact` | `Spec => []DiscoveryIsExact` |
| `SubAgentsProofs` | `FilesTellTheTruth` | `Spec => []Inv` |
| | `TodosStayTrue` | `Spec => []TodosAreTrue` |
| `MemoryStoresProofs` | `IndexIsSound` | `Spec => []Inv` |
| | `QuietKeepsAll` | `Spec => []QuietStoresKeepAll` |
| | `CatchesUp` | `Spec => IndexCatchesUp` |
| `TuiTurnProofs` | `PopupIsTheTurns` | `Spec => []Inv` |
| | `AnswersAreNotReused` | `Spec => []ConsentBeforeRun` |
| | `OnlyEscCancels` | `Spec => []NoStaleCancel` |
| | `TheScreenIsTrue` | `Spec => []ScreenIsTrue` |
| | `OneOwnerOfTheTerminal` | `Spec => []TerminalHandedOver` |
| `ApiStreamProofs` | `RetriesAreBounded` | `Spec => []Inv` |
| | `EveryFrameOnce` | `Spec => []FramesAreExact` |
| | `AnswersAreWhole` | `Spec => []OutcomeIsJust` |
| `ChildCommandsProofs` | `CommandsTellTheTruth` | `Spec => []Inv` |
| | `NothingIsLost` | `Spec => []OutputIsWhole` |

**Conversation loop** (`RequirementsAssumption`, `SessionAssumption`, `LoopAssumption`:
requirements are modes, usage figures fit the counters, at least one recent message is
kept, limits are numbers, the threshold is positive, as
`parse_auto_compaction_threshold` makes sure).

* `TypeInv` adds to the types that the thread holds a pending use exactly where it works
  on one (`pc` in `ToolPCs`), which is what makes `Head(pending)` a use.
* `BudgetInv` counts per turn: requests are within what finished turns and the iterations
  of this one allow, and one iteration is reserved for a request about to be sent.
  `RequestBudget` alone is not inductive: it says nothing of how far this turn is.
* `IdsInv` orders all ids: what ran, then what is pending, then what the API will hand
  out; the current use has run exactly at `gap` and `postHook`.
* `RefusedInv` rests on it: a refused id is neither executed nor pending and is older than
  the next id.  Compaction only drops messages, so it holds across turns.
* `PermInv` bridges the time between a decision and the message that shows the use: a use
  in the conversation whose id is still pending is that pending use, so what was decided
  for the current one is true of the one on display; `pc` in `GrantedPCs` remembers that
  it was decided.
* `LastWordInv` says that the loop reaches `finish` only behind a reply without tools;
  `CompactRecent` that compaction keeps the recent messages as a suffix, at least one of
  them.  `HistoryIsKept` rests on the same lemma.
* `UsageSurvivesResume` is inductive, given what `TrackerOf` makes of one more message;
  `TrackerOf` is a recursive function.  It needs no induction theorem about operators: that
  a recursion over `0 .. N` has exactly one solution is proved from the well-foundedness of
  `<` (`LeastNumber`, `SetInduction`, `PrimitiveRecursion`, `RecursionIsUnique`), and the
  unrolling of the definition follows (`TrackerOfAppend`).
* `FollowInv` adds to `EveryUseIsFollowedUp` that held uses belong to the reply which all
  messages at the end are about (`Holder`), that outside the tool steps nothing is held, and
  that from `top` to `waiting` the conversation ends in input.  Each step pushes one message
  that `Follows` what is held: it deals with the first use and leaves the others, or drops them.
  Compaction moves the kept messages down (`Moved`): a reply keeps everything
  behind it, and a result that loses its reply is then directly behind the summary.

**LLB** (`LlbAssumption`: ranges of the constants, at least one file).  The two safety
theorems are about one call at a time: with overlapping calls `UndoPointHeld` is false (two
snapshots may share a name).  `UndoInv` says that at most one transaction is in flight, that the target of one
that has not acted is as Gate 1 found it and that it holds no snapshot yet, that each live or orphaned
snapshot holds what its call found, and that two of them differ in name; the last clause is
what lets a later call close its own without touching the orphan.  `RollInv` adds that a
guarded call has a target to begin with and, once it may act, a handle: this is where
`ExecNames = {}` is needed, since a CREATE of a script is guarded without a target.
`EverySnapshotIsOwned` holds for any number of processes; `OwnInv` says that some call still
names each snapshot file, and that a call has no handle before it takes a snapshot.

`Gate2IsRight` has three hypotheses (`Serial`), each because it is false without: other
processes change the count of entries, and where the tier asks for a snapshot but none is taken, for
a file too big or the CREATE of an executable-like name, the count misses an entry and accuses an
honest action.
`GateInv` follows the evidence of Gate 2 (the count before, the bit before, the target now) from
capture to verdict.

`MutationsAreAtomic` is the refinement of `AtomicMutation`, under `AtomicServer`, the
conditions under which the code is an atomic store: no crash or panic between action and
verdict, a restore that works, guarded operations (a CREATE takes no snapshot), and actions
whose deviation Gate 2 can see (it compares no content, so an action that writes something
else, or nothing, is accepted).  `AtomInv` says that what is about to be accepted is the
declared outcome; each step of `LastLookBack` then is a step of `AtomicMutation` or a stutter: Gate 1
asks or refuses, an accepting Gate 2 grants, and the drop of the handle refuses what was undone.

**MCP manager** (`McpAssumption`: each set of servers has its order without repetition,
and every tool of a server a name).  `OutcomeIsTrue` compares an answer with a log the manager
cannot see, and nothing compares ids; what makes it true is that manager and server take
turns.  `OpInv` says which server the operation is at and which method comes next there.
`ServerInv` says of each server, as long as it never spoke out of turn, that it
owes the very request asked or that its answer to it is the only line to be read, exactly
while the operation waits for it, and that otherwise nothing is under way (`InStep`); that
the client counts it as greeted only after it accepted a greeting (`Greeting`); and that its
log is in order.  `OutInv` carries this to the end of the operation.  `RouteInv` is about a discovery
in progress: a route leads to what it found or to a server still due, and the server
whose pages are read has lost its old routes.

**Sub-agents** (`AgentsAssumption`: kinds of lists and threads are distinct values).
`FilesInv` ties status, last section and program counter of each agent together for every
step of its two threads.  `TodosInv` says that without overlap at most one call is under way, that
its old list is what the file holds until it truncates, and that the file is
torn only between truncate and fill.

**Memory stores** (`StoresAssumption`: there are memories and entities, they differ, and
neither is a torn file, a torn record or a line feed).  An append changes the lines of a file only at its end
(`LinesAppended`): it adds a line after a line feed, and takes the last one away when that was
open.  `Unique` says that a memory is in the vault once; `Sourced` that every embedding,
in the file or in hand, is of a memory of the vault; `Alone` that a call which nothing
overlapped is the only one under way; and `Ahead` that what such a call has still to embed
is not readable in the embeddings, unless these could not be read, while together with its records it covers the vault.
Together (`SyncInv`) they are inductive and imply `Inv`, and `IndexCatchesUp` is what `Ahead`
says of a call with nothing left to embed.  `QuietInv` describes files without accident: records and
line feeds alternate, and only the call under way sees the last line open or the graph torn.

**Terminal client** (`TuiAssumption`: ranges, and that no question is the absence of
one).  `AskInv` is the invariant of consent: the queue holds at most one request,
and it is the one the turn waits for; answers in the queue are to older or equal questions and were given by the
operator; ids grow; nobody is asked about a tool that talks; while a turn is alive the main thread forwards; a raised flag during a
turn is due to ESC.  `ScreenInv` follows the spinner and the mode through each position
of the main thread.  `HandoverInv` follows the terminal: while the main
thread waits in `ack` a `Suspend` is on its way to a TUI that is still up, and behind every `Resume` in the
queue; a TUI that is gone leaves an empty queue; and the program has ended only after the
terminal was given back or the save failed.  `RawInv` adds that a raw terminal belongs to a TUI
that shows something, or to none after a failure.

**Commands** (`SizesAssumption`: sizes are numbers, a pipe holds a character).  `Phases`
adds to `Inv` which caller can be where, that a hook whose output is collected was given its
whole payload, that a child was started wherever somebody waits for one, and that a timeout is
noted before the end only by PowerShell, past its deadline.  `Held` says that a writer holds
the pipe it writes to and that nobody comes back to a stream that was drained, which is what
makes an end of file final.  `WholeInv` carries `OutputIsWhole`:
text, buffer and pipe together show what was written (`Flow`), a command writes whole characters
(`Complete`), so that what is decoded at once is never half of one, and where the caller
says it has everything, buffer and pipe are empty (`Empty`).

**Model calls** (`ApiAssumption`: the clients there are, messages are sequences of blocks, an
input comes in at least one fragment).  Everything the model computes from a stream is a
recursive function (`Parse`, `TakeAll`, `Content`) or a fold (`FlattenSeq`); each is first
unrolled by the uniqueness of recursion, as in the conversation loop (`FlattenIs`,
`TakeAllIs`, `ContentIs`).  `StreamInv` consists of `Flows`, `Idle` and `Counts`.  `Flows` is the
heart: with `Received` bytes of the stream, `Whole` is the number of frames that are there with
their blank lines, the buffer holds exactly the bytes behind them, and the reply is what the
client makes of the first `Whole` events.  A chunk keeps it because of `ParseIs`: cut from a
frame boundary on, the loop of `push` hands on the frames up to the next incomplete one and leaves
the rest.  That rests on where a blank line can be found in framed bytes (`CutsLF`, `CutsCRLF`),
with the two separators of `next_frame` tried one after the other; there the proof needs
that a token of a frame is neither CR nor LF.  `Counts` says in addition to `RequestsBounded` how far
this try is, and that a request about to be sent is within the budget.

`OutcomeIsJust` needs two more facts.  The stop comes with the last frame and not before
(`StopComesLast`), so a stream that came through has one, and a reply with a stop has every frame; and a client
that took all of them holds what is due, block by block (`NativeSays`, `OpenAiSays`); what is
due of the first n blocks is `Owing`, in which lost blocks leave no trace.  For a
sub-agent that means that a tool use grows by its fragments from open to close
(`AgentGathers`), for an OpenAI-compatible provider that parts make one call with all its
arguments, that calls wait behind the texts until `[DONE]` (`Gathering`) and are then handed on
as they are due (`HandedIsDue`); the last but one is
where the order of such a message is needed (`TextsCome`: texts first).

Only model-checked: liveness (`TurnEnds`, `EveryMutationSettles`, `EveryOperationReturns`,
`EveryAgentReports`, `EveryTurnReturns`, `CommandReturns`), which is outside what the
prover does, and `ServersAreReused`, which is false.

## 8. Not modelled, and the plan

Left out, with the reason for each under `components` in `PROJECT.json`: drawing and
editing, texts and prompts, request translation for the providers, configuration merging,
OAuth and token files, the tools that are one system call sequence each, the JSON form of a
session, the scanner of shell commands, the rewriting of commands by rtk, the sandbox launcher, voice, cron and skill files.  They are sequential
conversions or input and output without state that outlives the call.
`rtk-integration` is a vendored copy of another program, half of all Rust lines of the repository;
`moe-reference`, the compat harness and the Python workspace are data and inventories.
That is why the modelled lines are a small share of all lines, and a large one of the files that
keep state across steps.

Next:

* a composition of `TuiTurn` with `ConversationLoop`: the turn of the former as an
  abstraction of the latter.
