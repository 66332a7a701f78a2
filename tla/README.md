# A TLA+ model of pycodex

pycodex is an AI coding agent. A Python process on one asyncio event loop talks
to a model, runs tools under an approval policy and a sandbox, and keeps the
conversation in a durable "rollout" file. A TypeScript/Ink client (`src/tui`)
starts that process and exchanges JSON lines with it.

This directory models the part of pycodex that decides what runs, what is
remembered and what the client is told: tool approval, the rollout recorder, the
turn loop with history, compaction, replay and resume, the TUI bridge that
drives turns and sessions, the client that drives the bridge, the tools'
processes and file writes, and one turn's conversation with the model, with its
retries and its skills. TLC checks all of
them on small instances; TLAPS proves their safety for every instance.

Contents: [inventory](#inventory), [modules](#modules-and-how-they-follow-the-code),
[runs](#runs), [fairness](#fairness), [proofs](#proofs),
[disagreements found](#disagreements-between-code-and-text),
[not modelled](#what-is-not-modelled), [plan](#plan).

## Inventory

Paths are under `src/`. Everything in Python runs on one event loop, so code
between two suspending `await`s is one indivisible step. That is the grain of
all the models.

| Component | State it keeps | Operations | Talks to |
|---|---|---|---|
| Tool approval: `pycodex/tools/orchestrator.py`, `approval/policy.py` | `ApprovalStore`: session grants by key, the pending prompt (an event) of each key, a lock | `execute_with_approval`, `get`/`put`, the shielded finalize task | Called by the tool router. Calls the user (`ask_user_fn`) and tools |
| Exec policy and sandbox: `approval/exec_policy.py`, `sandbox.py` | none | classify a command; build seatbelt/landlock argument vectors | Called by the orchestrator and the shell tool |
| Router and tools: `tools/base.py`, `shell.py`, `write_file.py`, `read_file.py`, `list_dir.py`, `grep_files.py` | tool registry; child processes and files | dispatch, run with a timeout, write atomically | Called by the agent |
| Rollout recorder: `core/rollout_recorder.py` | request queue, worker task, open file, `_closed` | `record`, `flush`, `shutdown` | Called by the session; owns the file |
| Rollout replay and schema: `core/rollout_replay.py`, `rollout_schema.py` | none | decode lines, rebuild history, counts and usage | Reads the recorder's file at resume |
| Session: `core/session.py` | history, counters, token usage, `_rollout_meta_written`, `_initial_context_injected` | append items, `to_prompt`, replace a range with a summary, `restore_from_rollout`, `close_rollout` | Mutated by the agent and by compaction |
| Agent loop: `core/agent.py` | per-turn locals: signal budget, injected skills, pending tool calls | `run_turn` | Model client, router, session, recorder, event callback |
| Compaction: `core/compaction.py` | none | plan a range, summarize, apply, record | Called at the head of each loop iteration |
| Event adapter: `core/event_adapter.py` | current turn id, item counters | agent event to protocol event | Called by the bridge |
| TUI bridge: `core/tui_bridge.py` | active session, turn task, pending approval futures | user input, interrupt, approval response, `/new`, resume, shutdown | stdin/stdout, agent, approval store |
| Model client: `core/model_client.py`, `fake_model_client.py` | retry counter of a stream | `stream` with retry, `complete` | HTTP service |
| Skills: `core/skills/*` | discovery cache | discover, resolve mentions, injection plan | Called by the agent |
| Session store: `core/session_store.py` | none (files) | list, resolve id or "latest", import | CLI, bridge |
| TUI client: `tui/src/**` | turns, buffered deltas, the prompt waiting for its turn and its timer, approval queue, session picker | protocol events, keys | bridge, over pipes |
| CLI: `__main__.py` | none | wiring, printing | all of the above |
| Configuration and initial context: `core/config.py`, `agent_profile.py`, `project_doc.py`, `initial_context.py` | none | read files once | CLI |

### What is hard here, and what makes each part correct

* **Approval.** The orchestrator is written, and tested, for calls that run
  concurrently and share an approval key (`run_turn` itself dispatches one at a
  time), and each coroutine can be cancelled wherever it is suspended. Correct means: one prompt per key; nobody waits on an event that no
  one will set; a session grant, once answered, is not lost by a cancellation;
  nothing runs without its own approval or a grant; and a shell command
  leaves a restrictive sandbox only in a retry the user approved.
* **Recorder.** There is one writer behind a queue, with a 30 s timeout on
  `flush` and `shutdown`, worker failure at any request, and kills that tear the
  last line. Correct means: the file is always a prefix of what was accepted, no
  record is glued to an unfinished line, acknowledged records survive, and
  every call returns.
* **Turn loop.** History in memory and ledger on disk are updated side by side
  while a turn can be interrupted, aborted by a tool, fail in the model or in the
  recorder, or die with the process. Compaction rewrites the history by index
  after an `await`, and replay repeats the rewrite. Correct means: replay equals
  memory, every call keeps an output, a turn reported as complete survives,
  the initial context appears once, and summaries are never summarized away.
* **Bridge.** Commands, the turn's task, approval futures, `/new` and resume race
  with each other; lines that are already buffered are handled before the task
  has run at all; an old session must be closed before the next one is taken,
  with a recorder that may have died. Correct means: events form the protocol
  the client relies on, every turn that was seen to start ends once, a waiting
  approval can be answered, a session that was used is left closed, and an
  interrupt or the end of input ends what runs.
* **Tools.** A command can outlive its timeout, leave a child that holds its
  pipes, or end as its timer fires; an interrupt ends the coroutine and not the
  process or thread behind it. Correct means: every call returns, a call that
  reports its own outcome has nothing running, a file is replaced whole.
* **Model stream and skills.** A stream is retried only if nothing of it was
  passed on; skills are named by the user and by the model, while their files
  are edited and the registry is cached. Correct means: text is neither
  repeated nor mixed, a skill is injected once and is the file its name means.
* **TUI client.** It acts on a view that is as old as the pipe is long, through
  key handlers that are one render older still, with a timer of 7 s on the start
  of a turn. Correct means: it comes to show what the bridge runs; a prompt's
  text is shown on the turn that runs it; no prompt is dropped, no interrupt hits
  another turn, and no question is left that nobody can answer.

`PROJECT.json` lists each hazard at its line with the properties that cover it,
or the reason why none does yet.

## Modules and how they follow the code

### `ToolApproval` (with `PromptGate`)

One process per `execute_with_approval` coroutine. `pc[c]` is the suspension
point: `wait` (on the pending prompt's event), `ask` (inside `ask_user_fn`),
`settle` (awaiting the shielded finalize), `trial` (the ON_FAILURE sandbox
attempt), `retry` (its second prompt), `direct`/`sandboxed` (the tool runs).

| TLA+ | Code |
|---|---|
| `cache`, `Put` | `ApprovalStore._cache`, `put` (session grants only) |
| `pending`, `Own`, `WaitFor` | `_pending_prompts` and the two branches under `prompt_lock` |
| `signalled`, `waitOn`, `Wake` | the `asyncio.Event` of a prompt and the waiters' loop |
| `finalizing`, `Finalize` | the task `asyncio.shield(_finalize_pending_prompt(...))` creates |
| `Start`, `Review`, `StandardApproval`, `Trial`, `TrialEnds`, `RetryAnswer` | the branches of `execute_with_approval` |
| `LeaveAsk`, `Answer`, `AskFails`, `Cancel` | the prompt's result, exception, or `task.cancel()` at any suspension |

Abstractions. The bodies under `prompt_lock` never suspend, so the lock is never
seen held and is not a variable. What exec policy says of a command is part of
the nondeterministic `kind`. DENIED and ABORT both end the call and are one
decision, `refused`. What a call returns is left out, because it changes nothing
in the store. The shielded finalize is a task of its own: cancelling its caller
does not cancel it.

`PromptGate` is the abstract specification: open a prompt only on a key that is
neither open nor granted; close it with nothing, a permit or a grant; admit a
call on a permit or a grant. `Gate` maps `pending`, `cache`, the reviewed calls'
verdicts and runs onto it.

### `RolloutRecorder` (with `DurableLog`)

The session (`session`, `reply`), the worker task (`worker`), the queue between
them, and the file as three parts: records synced (`disk`), records written but
not synced (`unsynced`), and how the file ends (`tail`). A batch is one request
(`record` takes a list), a flush one more.

| TLA+ | Code |
|---|---|
| `Record`, `Flush`, `Shutdown` | the three public methods up to their first suspension |
| `CallReturns`, `Timeout`, `CancelFlush` | the awaited future resolves, `wait_for` expires (the recorder closes and cancels its worker), the turn is cancelled |
| `WorkerStarts` | `_guard_newline_boundary`, then open for append |
| `WriteBatch`, `ServeFlush`, `ServeShutdown` | the worker's three request types |
| `WorkerFails` | the worker's `except`: close, drain the queue, fail its waiters; the request in service is *not* resolved |
| `Restart`, `Resume` | a kill or exit, then `replay_rollout` on what is left |

The worker takes request after request without giving the loop away, so while it
is `draining` the session does not move. A kill is possible between any
two steps. `Survives` says what a kill leaves of the unsynced records: any
prefix, perhaps half a record, perhaps cut inside a multi-byte character,
perhaps a whole record without its newline.

`DurableLog` is the promise to the session: records keep their order, a restart
keeps a prefix, and that prefix contains everything acknowledged. `Log` maps
`accepted` and `Len(disk)` onto it.

### `AgentTurn`

`history` is `Session._history`; `ledger` is what was handed to the recorder and
not lost; `flushed` is how much of it is acknowledged. The recorder enters at
its promise, `DurableLog`: a crash keeps a prefix of the ledger that contains
the first `flushed` records. `RecorderFails` and `PersistRaises` model a recorder
that died: the history in memory changes first, then `record` raises.

| TLA+ | Code |
|---|---|
| `StartTurn` | `run_turn` up to its first suspension: `session.meta`, initial context, user message, mentioned skills |
| `LoopTop`, `Plan`, `Compactable`, `CompactionDone`, `Replace` | the loop head, `ThresholdV1Strategy.plan`, `compact()` before and after the awaited summary, `replace_range_with_system_summary` |
| `Sample*` | the model's answer: final, with skill signals, with tool calls, or an exception |
| `ToolReturns`, `ToolAborts`, `Interrupt` | a tool's result, `ToolAborted`, task cancellation with the synthetic output |
| `FlushDone` | the flush at the end of the turn and only then `TurnCompleted` |
| `Close`, `CloseDone` | `close_rollout` |
| `Prompt` | `to_prompt`: a placeholder output for each unanswered call |
| `Replay`, `Apply`, `Resume` | `replay_rollout` and `restore_from_rollout` |
| `Parses`, `Replayable`, `AfterCrash`, `ReplayRaises` | `replay_rollout`'s errors: no file (`rollout_not_found`), a line that is no JSON and not the last (`replay_failure`) |

An item is its kind and an id; a call and its output share the id. The items in
`SplitIds` are those whose text holds U+0085, U+2028 or U+2029: the recorder
writes these characters as they are, and `str.splitlines()` takes them for line
ends, so the restore of a ledger with such a record raises. A whole record of
this kind is never taken for a truncated tail, because its first piece is not
the file's last line; a torn one is refused or dropped, depending on where it
is torn (`AfterCrash`). The file exists once the recorder's worker has run,
perhaps empty, and an empty file is resumed as an empty session. A session that
cannot be restored stays on disk, `down` or `lost`. Token
pressure is nondeterministic (`LoopTop` may compact whenever a plan exists),
and so are the model's choices. What a summary says is its id.

### `TuiBridge` (with `TurnProtocol`)

`loop` is the suspension point of the main coroutine: reading a line, resolving
a rollout in the thread pool, closing the old session, awaiting the cancelled
turn at the end of input, closing on exit; or `oneshot` for `_run_prompt_json`.
`task` is the turn's task: created and not yet run, running, asking, flushing.
`ledger[t]` is the rollout of thread `t`.

| TLA+ | Code |
|---|---|
| `UserInput`, `Slash`, `SlashNew`, `Respond`, `Resume`, `New`, `Interrupt` | the branches of `_handle_line` |
| `StartTurn`, `TurnFails`, `Ask`, `Answered`, `Finish`, `Complete` | `_run_turn`, `request_approval` and the events of `run_turn` they pass to the adapter |
| `Interrupted`, `NeverStarts` | `CancelledError` in the task; a task cancelled before its first step |
| `Started`, `FailureId`, `adapter` | `EventAdapter`'s turn counter and `failure_turn_id` |
| `SwitchTo`, `Resolved`, `Closed`, `CloseFails`, `Activate` | `_switch_session`, `session.resume`, `close_rollout` around the awaited shutdown, `_activate_session` |
| `EndOfInput`, `Leave`, `Exit` | the end of `run()`, then `_run_tui_mode`'s or `_run_prompt_json`'s own `close_rollout` |
| `Restored`, `Summary`, `EndsClosed` | `restore_session_from_rollout`, `list_sessions`, `read_session_closed` |
| `Crash`, `LaunchTui`, `LaunchOneShot` | a kill; the program started again, with or without `--resume` |

Abstractions. A rollout is three kinds of record (items, a counted turn,
`session.closed`); what a kill does to records not yet synced is the subject of
`RolloutRecorder`. `approved_for_session` is `approved` to the bridge. Item and
context events carry text only and are left out; the events kept are those that
open and close threads and turns, ask, refuse or answer a command.

`TurnProtocol` is the abstract specification of the event stream: one thread is
announced at a time, its turns are numbered from 1 without a gap, one is open
at most, and no thread or turn begins while one is. `view`, which is computed
from the emitted events alone, is the mapping.

### `TuiClient`

`TuiBridge` composed with its client: `cmds` and `evts` are the two pipes, `ui`
is the state of the hooks, `shown` what the key handlers in place were made
with. `running` and `early` are history variables for the properties, as is
`prompt`, which the line of a turn's start carries and the turn's entry keeps:
the prompt that the turn runs. A table from thread and turn number to prompt
would not do, since the adapter numbers from 1 again each time a thread is
resumed. The `error` of an entry is known by the prompt whose task raised it.

| TLA+ | Code |
|---|---|
| `Receive`, `Reduced`, `ThreadStarted`, `TurnStarted`, `TurnEnded`, `Hydrated` | the effect on `events` in `useTurns`, `reduceTurns`, `reduceApprovalQueue` |
| `Titled`, `Closing`, `Without` | `updateTurn` with the user's text, or the turn's end and error; the filter of the approval queue |
| `Pieces`, `Extended`, `Flushed`, `FlushDeltas` | buffered deltas: `flushPendingItemUpdates`, `setImmediate` |
| `Requested`, `Decide` | `classifyApprovalRequest`, `reduceApprovalQueue`; `respond`, called by `ApprovalModal`'s keys |
| `Submit`, `SubmitSlash`, `Disabled`, `Expire` | `handleSubmit`, `queueUserInput` with its timer, `isInputDisabled` |
| `Listed`, `Pick`, `Dismiss` | the session picker of `App` |
| `PressInterrupt` | `handleCtrlC` |
| `Install`, `Rendered` | Ink's `useInput` replaces a key handler in a passive effect, after the render |
| `ReadLine`, `Obeyed`, `Ignored` | one iteration of the bridge's `run()`: the handlers are `TuiBridge`'s own actions |
| `Stream`, `BridgeTurn`, `BridgeCancelled`, `BridgeSwitch` | the bridge's own steps |
| `Lines`, `Carried`, `Relay`, `Act` | each of a step's events becomes at most one line of the pipe |

Abstractions. React takes one event at a time, in order: the last-event cursor
and the window of 1000 events are a queue. All deltas are one letter, and a turn
shows how many of them it has beyond its final text. Events that only change
notices or the status bar are dropped on the way. The timer may run out whenever
it is set. Text editing, slash completion, tool panels and rendering are left
out. Turns shown by `session.hydrated` have ids of their own (`hydrated_1`, ...;
negative numbers in the model).

### `ToolExecution`

One coroutine (`state`), one process with a possible left-over child (`proc`,
`kid`) or one pool thread (`thread`) per call. `file` and `temp` name which
call *made* the file now at the target and at the temporary path, and
`content` says what each such file holds, so a rename and a truncation through
another call's descriptor come out as they do on disk.

| TLA+ | Code |
|---|---|
| `Dispatch`, `Refuse` | `ToolRouter.dispatch`, `ToolRegistry.execute` and the tools' checks of their arguments |
| `StartCommand`, `CommandReturns`, `Timeout`, `KillReturns`, `KillTimeout` | `shell._run_command`, `grep_files._exec_search_command` |
| `StartWrite`, `Open`, `Write`, `Publish`, `Cleanup`, `WriteReturns` | `write_file.handle`, `_write_atomic` |
| `Interrupt` | `CancelledError` in the awaiting coroutine |
| `ProcExits`, `KidEnds` | the operating system |

`Cleanup` may fail too: the error of the unlink is suppressed, and the thread
ends as `left`, with its file in place. All writes go to one path: paths do not interact. How a search's exit status
becomes a text is folded into `ok`.

### `Skills` and `SkillTurn`

`Skills` is `core/skills` as operators on skill files: roots in precedence
(`Roots`), the scan (`Scan`), what is kept, shadowed or ambiguous (`Keep`,
`Discover`, `Registry`), the names in a text (`Mentions`), and the messages they
lead to (`InjectionPlan`). `Candidates` is not code: it says directly which
files a name can mean, and is the reference `RightSkill` compares with.

`SkillTurn` is `run_turn` as far as sampling and skills go, with
`ModelClient.stream` below it:

| TLA+ | Code |
|---|---|
| `StartTurn`, `LoadRegistry`, `Injected`, `Existing` | `_load_skill_registry`, the user's mentions, `_append_injected_messages` and its look at an earlier attempt |
| `Delta`, `MessageDone`, `CallDone`, `ResponseCompleted` | `_normalize_event`'s cases and what `_sample_model` makes of them |
| `StreamBreaks`, `SamplingFails` | `stream`'s one retry before the first event; every other end |
| `CallsRound`, `SignalRound`, `Answered` | a round of tools; a round for skills the model named; the final answer |
| `Restart`, `Edit` | a new process with the history restored; a `SKILL.md` changed on disk |

Abstractions. A text is the `$names` in it. The history is the session's without
its initial context and without compaction, which `AgentTurn` has; so an attempt
that got as far as a tool call, or was itself tried again, stays in it, and the
scan of `Existing`, which ends at the first item that is not an injected one,
does not see its skills. A stream does not look at the
files, so an edit during one is taken to come before its first event. Pieces of
text are not empty.

### MC modules

`MCToolApproval` holds the calls, keys and key assignment, `MCSkillTurn` the
directories, layouts, files, what is installed at first, and texts. The other modules take only numbers and
are instantiated directly by their `.cfg`.

## Runs

| Run | Question | Bounds, and why they are enough |
|---|---|---|
| `tool_approval` (170 k states) | Do concurrent calls on one key stay collapsed, wakeable, approved and confined, and implement `PromptGate`? | Three calls on one key: an owner, a waiter, and a newcomer that arrives between the owner's answer, its finalize and the waiter's wake-up. Entries of different keys never touch. UNLESS_TRUSTED takes ON_REQUEST's branches and is left out of the instance. |
| `grant_on_failure` (violation) | Does a session grant end prompts of every kind? | same |
| `rollout_recorder` (42 k) | Is the file a clean prefix over failures, timeouts and restarts; do calls return; does the recorder implement `DurableLog`? | Four records in batches of one or two: a tear inside, at the end of, and between batches, with records behind it. Two flushes in a life: one served, one cancelled or timed out. Two restarts: the guard repairs a tail and its repair is torn again. |
| `crash_recovery` (violation) | Is every torn file replayable? | same |
| `agent_turn` (767 k) | Does the ledger replay to memory, is every call answered, do reported turns survive, is context unique, do summaries survive? | Six items with `KeepRecent = 2` and `MinReplace = 2` (the code's defaults are 8 and 2; only the history's length beyond `KeepRecent` matters): long enough for two compactions, for two calls in one answer, and for a turn before and after a crash. One crash. `SplitIds` holds the last item, so that rollouts that can be read and ones that cannot are both reached at every length. |
| `compaction_range` (violation) | Does a compaction remove only what was summarized? | same |
| `restored_context` (violation) | Does a restored session always hold its initial context? | same |
| `tui_bridge` (290 k) | Do events form `TurnProtocol`, are approvals answerable, sessions closed when left, interrupts and end of input effective? | Three threads: the one in use, one to resume, a new one. Two prompts: a turn that fails or is interrupted and one after it, in one session or two. Two requests: one decided and one pending, or one late answer. One relaunch, in either mode. |
| `tui_exit` (violation) | Does a clean exit leave every rollout closed? | two threads, one prompt |
| `tui_client` (443 k) | Does the client show what the bridge runs, and do keys take effect where they were meant to? | Two threads, so that turn ids start again; two prompts, one of which may be given up by the timer, interrupted or asked about; one request; one delta; four lines, which is prompt, answer or interrupt, `/new` or `/resume` with a choice, prompt. No relaunch: a client dies with its bridge. |
| `tool_execution` (178 k) | Do calls return, with nothing left running, and is a write atomic? | Three calls: a write whose thread outlives an interrupt, a second that overlaps it, a third after both. |
| `skill_turn` (1.25 M) | Is text neither repeated nor mixed; is each skill injected once, and the right one? | Two files, in three layouts, sixteen pairs to begin with (good ones under one name and under two, with and without an opt-out, a broken one) and one edit, before the first turn or later, that removes a file, breaks it or turns its skill into one opted out: two names, a name twice in one scope, one shadowed, one directory under two roots. Two turns, for the look at an earlier attempt. Two samplings, with a budget of one round for the model's names; two pieces of text. |

What the passing properties say:

* `OnePromptPerKey`, `NoLostWakeup`, `GrantEndsPrompts`, `RunsOnlyApproved`,
  `SandboxHolds` and `GateSpec` are the correctness statement of the
  orchestrator. `GrantEndsPrompts` counts a grant from the user's answer, so it
  covers the window in which the answer is known and the cache does not hold it
  yet. `WaitersReleased` is its liveness: a call does not wait for ever for an
  owner that has stopped asking.
* `FileIsPrefix` is about every file there can be, `LogSpec` about the records a
  flush or shutdown acknowledged, which includes all of them on a clean stop;
  `CallsReturn` is the liveness of `flush` and `shutdown`, including the
  request the worker died with, which only the timeout releases.
* `ReplayMatches` is the central property of the session: as long as
  recording works, replay of the ledger *is* the history and the turn count, at
  every step. Its one limit is named, `Replayable`: a record whose text splits
  its line makes the restore raise, although every write succeeded. `CallsAnswered`, `ReportedTurnsKept`, `ContextOnce` and
  `SummariesSurvive` are consequences users see.
* `ProtocolKept`, `ViewTrue` and `OutcomeReported` relate what the client has
  been told to what runs. `ViewTrue` has three parts: a turn that is shown as
  open runs (`OpenMeansRunning`), a request waits exactly when a turn waits for
  its answer (`Answerable`), and events name the announced thread and turn
  (`Attributed`). `SwitchCloses` and `CountsAgree` are about sessions: a used one
  is left with `session.closed` and the right count, even when a close fails
  half-way. The count in memory can be ahead of the rollout in one case, by one:
  the session counts a turn before it records it (`agent.py:257`), so with a
  recorder that failed during the turn the record raises and the count stays. `StopsEnd` is the bridge's liveness: an interrupt ends its turn
  (`InterruptEnds`), the end of input ends the program (`EofExits`).
* `ClientAgrees` shows that `view`, on which `TuiBridge` states its properties,
  is what the hooks compute once they have read everything, over switches that
  start turn ids again. `Askable` is why nobody waits on everybody: the user is
  asked exactly what a turn waits for. `PromptShown` and `KeysAimed`
  are about the round trip: a prompt's text lands on its own turn; the bridge
  drops none (`PromptsTaken`), and an interrupt cancels the turn it was pressed
  for (`InterruptAimed`).
  They hold up to one named limit, `early`, which TLC showed each of them to
  need: the timer gave up on a prompt whose turn was still to come.
  `EndedTurnsFixed` is why deltas are flushed before any other event: nothing
  reopens, moves, extends or retitles a turn that has ended. What can change is
  the error of one that has *failed*, because a failure before the next turn has
  started carries the number of the turn before. TLC showed that exception to be
  needed, and that it never makes a completed turn a failed one.
  `InterruptFrees` is the interrupt's liveness from key to screen.
* `ReturnedMeansEnded` says which calls may leave work behind: interrupted ones
  and shells killed with a child on their pipes. `CleanWrites` (`AtomicWrites` and
  `NoStrayTemp`) holds up to three named limits, all of which TLC showed to be
  needed: two writes to one path that overlap after an interrupt share a
  temporary name, text without a UTF-8 form leaves the temporary file, and so
  does a failed write whose unlink fails as well. A stray file always belongs to
  the call that left it.
  `CallsReturn` here is the liveness of timeouts: a killed shell's pipes are
  given up after one more second, and a search has no children to hold them.
* `TextOnce` is why `stream` may retry only before its first event;
  `InjectedOnce` ranges over the user's names, the model's, and a turn that was
  interrupted right after its injection and tried again (an attempt that got
  further is injected again, see [below](#disagreements-between-code-and-text)); `RightSkill` over shadowing, ambiguity, opt-outs
  and a registry older than the files.

Every property of a passing run is broken by a mutant: a faulty variant of an
action or helper (an unshielded finalize task, a missing newline guard, a
completion reported before its flush, ...) kept beside the original in the
module and marked `Faulty variant`. They are not part of any `Next`.

## Fairness

* `ToolApproval`: weak fairness of `Finalize`, `Settle` and `Wake` for each
  call, because the event loop runs every ready task. None for the user, the
  tools, or cancellation, so a prompt may stay open for ever.
* `RolloutRecorder`: weak fairness of the worker's steps, of the resolved call
  and of the 30 s timer. None for failures, kills or further calls.
* `TuiBridge`: weak fairness of a delivered cancellation (`Interrupted`,
  `NeverStarts`), of the thread pool's lookup, of the end of a close, which
  `flush_timeout` bounds, and of the exit. None for the client, the model, a
  user who is asked, or a turn that nobody interrupts.
* `TuiClient`: weak fairness of taking an event (the client's event loop), of
  reading a line, of a delivered cancellation and of the end of a switch, each
  bounded as in `TuiBridge`. None for keys, the timer, the handlers, or a turn
  that nobody interrupts.
* `ToolExecution`: weak fairness of each coroutine, whose timers fire, and of the
  pool's threads. None for commands or the children they leave, so the
  liveness of calls rests on the timers alone.
* `AgentTurn` and `SkillTurn` state no liveness: how long a model, a tool or a
  user takes is not the code's to promise.

`tui_bridge`, `tui_client`, `tool_execution` and `skill_turn` are checked with
`CHECK_DEADLOCK FALSE`: the program has exited, or every call the bounds allow
has returned, and nobody has to start another.

## Proofs

Seven modules prove theorems about the models, with `DataInduction`, a module of
lemmas, under three of them. Each theorem holds for **any** values of the
constants under the named assumptions of its model (`CallsAssumption`,
`RecorderAssumption`, ...: the bounds are numbers, keys and policies are the
code's, a scan finds files), so for any number of calls, records, threads,
items, skills and restarts. Every inductive invariant was model-checked as an
invariant of a run before it was proved.

| Module | Theorem | Statement |
|---|---|---|
| `ToolApprovalProofs` | `TypeCorrect` | `Spec => []TypeOK` |
|  | `PromptTable` | `Spec => []PromptInv` |
|  | `OnePrompt` | `Spec => []OnePromptPerKey` |
|  | `WaitersWakeable` | `Spec => []NoLostWakeup` |
|  | `GrantIsFinal` | `Spec => GrantEndsPrompts` |
|  | `OnlyApprovedRuns` | `Spec => []RunsOnlyApproved` |
|  | `NothingEscapes` | `Spec => []SandboxHolds` |
|  | `ImplementsGate` | `Spec => GateSpec` |
| `ToolExecutionProofs` | `CallsFit` | `Spec => []CallInv` |
|  | `TypeCorrect` | `Spec => []TypeOK` |
|  | `ReturnsEnded` | `Spec => []ReturnedMeansEnded` |
|  | `WritersTakeTurns` | `Spec => []WriteInv` |
|  | `WritesClean` | `Spec => []CleanWrites` |
|  | `OverlapTakesInterrupt` | `Spec => []OverlapInterrupted` |
| `RolloutRecorderProofs` | `TypeCorrect` | `Spec => []TypeOK` |
|  | `RecordsAccounted` | `Spec => [](ProtocolInv /\ AccountInv)` |
|  | `FileKept` | `Spec => []FileIsPrefix` |
|  | `AckedSurvive` | `Spec => []AckedOnDisk`, and no step shortens or changes the disk |
|  | `ImplementsLog` | `Spec => LogSpec` |
| `TuiBridgeProofs` | `BridgeHolds` | `Spec => []BridgeInv` |
|  | `TypeCorrect` | `Spec => []TypeOK` |
|  | `ClientToldTrue` | `Spec => []ViewTrue` |
|  | `PromptsAnswered` | `Spec => []OutcomeReported` |
|  | `TurnsCounted` | `Spec => []CountsAgree` |
|  | `LeftSessionsClosed` | `Spec => SwitchCloses` |
|  | `ImplementsProtocol` | `Spec => ProtocolKept` |
| `TuiClientProofs` | `SystemHolds` | `SystemSpec => []SystemInv` |
|  | `SystemIsBridge` | `SystemSpec => Spec`, `TuiBridge`'s |
|  | `ClientTypesHold` | `SystemSpec => []ClientTypeOK` |
|  | `ClientShowsBridge` | `SystemSpec => []ClientAgrees` |
|  | `NobodyWaits` | `SystemSpec => []Askable` |
|  | `PromptsShownRight` | `SystemSpec => []PromptShown` |
|  | `KeysReachTarget` | `SystemSpec => []KeysAimed` |
|  | `EndedTurnsKept` | `SystemSpec => EndedTurnsFixed` |
| `AgentTurnProofs` | `TurnHolds` | `Spec => []TurnInv` |
|  | `TypeCorrect` | `Spec => []TypeOK` |
|  | `LedgerReplays` | `Spec => []ReplayMatches` |
|  | `CallsGetOutputs` | `Spec => []CallsAnswered` |
|  | `ReportsKept` | `Spec => []ReportedTurnsKept` |
|  | `ContextInjectedOnce` | `Spec => []ContextOnce` |
|  | `SummariesKept` | `Spec => SummariesSurvive` |
| `SkillTurnProofs` | `SkillsHold` | `Spec => []SkillInv` |
|  | `TypeCorrect` | `Spec => []TypeOK` |
|  | `AnswersSaidOnce` | `Spec => []TextOnce` |
|  | `InjectedAtMostOnce` | `Spec => []InjectedOnce` |
|  | `RightSkillInjected` | `Spec => []RightSkill` |

### Tool approval

`OnePromptPerKey` is not inductive: nothing in it says why a call that finds the
table empty finds nobody asking. `PromptInv` says it: a key's entry belongs to a
call that is asking *or whose finalize task has yet to run* (`Owned`), and each
such call does own the entry (`Owners`); finalize tasks belong to calls that
left their prompt (`Finalizers`); a grant is in the cache or on its way there
(`GrantKept`); a waiter's event is set or still has an owner that will set it
(`NoLostWakeup`). Because a cancelled call leaves its finalize task behind,
ownership cannot be stated on `pc` alone. `RunInv` adds what a call has been
asked and has run at each suspension point; `RunsOnlyApproved` and
`SandboxHolds` are two of its conjuncts. `ImplementsGate` takes each action to an
`Open`, `Close`, `Admit` or a stutter of `PromptGate` under the mapping `Gate`;
its one delicate step is `GateFinalize`, where the answer, made earlier, takes
effect.

### Tool execution

`CallInv` says what a call of each kind can have under way: a process belongs to
a command, a child outlives only a process that has exited, a thread belongs to
a write, an outcome exists exactly on return. `CleanWrites` needs more, since it
says nothing of who is about to publish what. `WriteInv` names the makers of the
two files (`TempMade`, `FileMade`) and, as long as no two writes have been in
the pool at once, that one thread writes at a time, that it owns the temporary
file and that this file is empty or holds all of its own content. The part about
files left behind holds even after an overlap: a file at the temporary path is
always one whose maker is still writing, has raised or could not unlink it. `OverlapInterrupted` says why an
overlap is rare: somebody was interrupted first.

### Rollout recorder

`FileIsPrefix` is not inductive: it says nothing about what is still queued.
`AllAccounted` does: while the worker lives, the accepted records are those on
disk, then those in the handle, then those of the queued requests, in this
order (`LaidOut`, by an offset per request). A worker that failed or was
cancelled leaves only `Written`: what it wrote is a beginning of what was
accepted. `OkMeansSynced` then needs that a flush the session waits for is the
queue's last request (`AwaitedIsLast`), and that a recorder whose worker is gone
takes no more records (`GoneMeansClosed`). `AckedSurvive` states the durability
itself, over steps as well as states: acknowledged records are on disk, and no
step shortens or changes what is on disk. `ImplementsLog` maps the recorder to
`DurableLog` step by step.

### TUI bridge

`CoreInv` ties the running task, its turn's number, the adapter's current turn
and counter, and the sessions' counters together; `ViewInv` says what the client
can have been told at each point of a turn; `LedgerInv` counts the prompts and
turns of each rollout. A step sends several events at once, and `See` is folded
over them: `FirstSeen` shows that only the first can change the view, because
status and hydration, which follow it, never do. Five of the run's properties
are consequences of the conjunction, `BridgeInv`, and `ImplementsProtocol` maps
each step to one of `TurnProtocol` or to a stutter.

### TUI client

The client's state says nothing about the bridge's while events are under way,
so the invariant has to speak of what the client *will* have seen. A `Sight` is
what can be known of the bridge: its thread, its open and last turn, whether
that one failed, the request it waits for. `SystemInv` says that there is a
**trail** of sights, one between any two events in the pipe (`Trail`): each event
is one that the sight before it allows (`Legal`) and leads to the sight behind
it (`Move`). The first sight is what the hooks show (`Shows`), the last is what
the bridge does (`Leads`). The two ends are then proved apart:

* an event taken by the client shortens the trail. `ReadAny` shows, kind by
  kind, that `reduceTurns` and `reduceApprovalQueue` turn a state that fits a
  sight into one that fits the next, and leave ended turns alone, but for a failed one's error
  (`Stays`). This is where
  deltas must be flushed before any other event is reduced: a buffered delta
  belongs to the turn that is still open;
* a step of the bridge lengthens it (`GrowOne`, `GrowTwo`): what it sends is legal
  for the last sight. `Tells` covers all steps that ask nothing, start nothing and
  read no prompt or answer; the other four (`StartKeeps`, `AskKeeps`,
  `PromptKeeps`, `RespondKeeps`) are proved one by one.

Two conjuncts speak of the lines in the other pipe. `Asking` follows a request: it
is either still undecided, in the queue or on its way there, or it was shown and
is gone, and then its answer is on its way; no request follows one that the user
has not settled. `Timely`, unless the timer gave up early, follows a prompt: there
is at most one between the user and the turn shown, as a line, as the created
task or as the event of its start, and it is the one in the slot (`Slotted`,
`Single`); while a turn is shown, or the key handler in place was made with one,
there is none (`Blocked`); interrupts under way are for the turn that runs and
stand before any prompt (`Aimed`). `shown.busy => shown.disabled` is needed
because the handlers in place can be one render old.

`SystemIsBridge` gives the composition: the bridge's theorems hold for the
bridge that this client drives, and `SystemInv` contains `BridgeInv`. All sights
but the first are computed from the events, so TLC checks `SystemInv` on the
instance of `tui_client` by trying every first sight. `PromptShown` changed on the
way: it looked a turn's prompt up by thread and number, and two picks on an old
picker give two turns of one thread the same number (see `prompt` above).

### Agent turn

`ReplayMatches` is preserved by appending a record because replay applies one
record at a time (`ReplayAppend`). A compaction is the delicate record: replaying
its range must remove what the code removed. `TurnInv` therefore says that the
summaries of a history are its first items (`SummariesFirst`), and not of the
present history alone: after a crash the ledger is cut anywhere behind the last
flush, so the replay of **every** beginning of the ledger must have that shape
(`PrefixShape`), and the plan of a compaction must fit the history it is applied
to (`Planned`). None of this asks whether the file can be read: `Replayable` is a
hypothesis of `ReplayMatches`, and `Resume` has it as its guard. Calls and outputs are paired and adjacent (`Paired`), except for
the one call in flight. `ReportInv` and `ContextInv` relate what was reported
and injected to the flushed part. `SummariesKept`, an action property, follows
from the shape: a planned range begins after the summaries.

### Skills and streams

`TextOnce` needs only that an attempt which has yielded nothing has no text
(`TextInv`). `InjectedOnce` speaks of the items of this turn and of those directly
before it; what makes it inductive is `TurnAt`: every injected item of the turn,
and every one the scan found just before its user item, has a name the turn has
taken, so a later plan, which is made for names not taken, can repeat neither
kind. `PlanRight` shows that the
three parts of a plan have different names. `RightSkill` rests on what discovery
computes, for any number of roots and files: the scan has the scopes in order of
precedence (`ScanOrdered`); after each place, a good file is kept, or shares its
name with a kept one that is ambiguous or of a higher scope (`Known`,
`KnownStep`); so an entry of the registry is the one candidate for its name in
the declarative reference `Candidates` (`RegistryRight`).

### Folds and sequences

What folds and flattened sequences compute is proved by least counterexample:
`DataInduction` states for *sets* of numbers that a nonempty one has a least
member, which needs no operator as a parameter. From that follow that a fold's
function exists when its steps are given as a table (`TableFold`), induction over
positions (`EveryStep`) and the values of `FlattenSeq` (`FlattenIsFlat`); each
fold of a model then gets a lemma that unrolls it (`ReplayAppend`, `FirstSeen`,
`MentionsRun`, `RootsRun`, `DiscoverRun`, `OnlyRun`). `SelectSeq` is built in
and cannot be unfolded, so `Skills` selects with a fold of its own, `Only`.

### Only model-checked

* Liveness under fairness (`WaitersReleased`, `CallsReturn` of the recorder and of
  the tools, `StopsEnd`, `InterruptFrees`) and anything with `ENABLED`: out of the
  proof system's reach.
* The five runs that end in a violation: a counterexample needs no proof.

## Disagreements between code and text

Each is a run whose one property states what the repository says and which TLC
refutes with a trace.

* `grant_on_failure`: `ApprovalStore.put`'s docstring says a session grant is
  honoured for the store's lifetime. Under ON_FAILURE with a restrictive sandbox
  the trial-and-retry branch (`orchestrator.py:126`) looks at neither the cache
  nor the pending table: it asks again for a granted key.
* `crash_recovery`: the milestone notes promise recovery to the last valid
  record. `replay_rollout` decodes the whole file before it splits lines
  (`rollout_replay.py:94`), so a tail torn inside a multi-byte character raises.
* `compaction_range`: the plan is made on `to_prompt()`, which inserts
  placeholder outputs, and applied to the raw history (`compaction.py:254`).
  After a crash inside a tool call and a resume, items that were not summarized
  are removed.
* `restored_context`: `restore_from_rollout` assumes a restored session has had
  its initial context (`session.py:199-201`). A crash in the first turn, before
  its context record is on disk and with `session.meta` there, refutes it.
* `tui_exit`: `_run_tui_mode` closes the session it was started with
  (`__main__.py:511`), so after `/new` or a resume the session in use gets no
  `session.closed` on a clean exit and is listed as incomplete, although the
  milestone notes say a clean shutdown persists it.

Seen while modelling, and not given a run:

* A message, tool output or answer that holds U+0085, U+2028 or U+2029 makes its
  session unresumable: `model_dump_json` writes the character as it is
  (`rollout_recorder.py:209`), `str.splitlines()` splits the line at it
  (`rollout_replay.py:94`), and the replay raises `replay_failure`.
* A crash before the first record was written leaves an empty file, which is
  resumed as a session without a thread id; no file at all is `rollout_not_found`.
* `run_turn` counts the turn before it records it (`agent.py:257-258`), so a turn
  whose recorder has failed is counted in memory and in no rollout.
* `turn_failed` uses the number of the last turn that started
  (`event_adapter.py:166-182`). If the next prompt fails before its turn starts,
  the client writes the new error over that of the earlier turn
  (`useTurns.ts:357-379`), and `ChatView.tsx:334` shows it there.
* A failed write whose unlink fails too leaves its temporary file without a word
  (`write_file.py:118-119`).
* `_existing_injected_keys_for_same_turn` stops at the first item that is no
  injected one (`agent.py:502-504`). An attempt that was interrupted after a tool
  call, or was itself a retry, is not seen, and its skills are injected again,
  while `skills-plan.md:356` says that the agent must not re-inject the skills of
  the replayed turn and `skills-plan.md:467` lists the same for a resume
  (its line 359 describes the scan as it is). After an answer without text
  the scan also takes the injected items of the turn before for its own.
* One `SKILL.md` that is not UTF-8 raises through discovery
  (`skills/parser.py:97`), and the turn has no skills at all, while
  `skills-plan.md:339` says a malformed file excludes only itself.
  `Discoverable` models what the code does.
* An interrupt handled before the turn's task has first run cancels it before
  `_run_turn` (`tui_bridge.py:351`): no terminal event follows, although
  `todo-m4.md:222` says an interrupt emits the outcome once. The client
  sends none before it shows a turn, unless it exits on SIGINT. `OutcomeReported`
  shows that this is the only way to lose an outcome.
* If the client's timer gives up while the bridge is still closing a session (up
  to 30 s), the user is told to retry; both prompts then reach the bridge. The
  first turn is shown with the text of the second prompt, which the bridge drops
  without a word. This is the limit `early`.
* `turn.failed` for a turn that never started has no entry to go to: the client
  shows the timer's warning and not the error.
* On exit the client sends SIGTERM right after it ends the bridge's stdin
  (`index.ts:199`), and the bridge handles no signal: its end-of-input path is
  mostly cut short and `session.closed` not written.

## What is not modelled

* Of the TUI client, notices, the status bar, text editing, slash completion,
  rendering, and the exit of `index.ts` (to the bridge it is a `Crash` or the end
  of input). Clients cannot restart without their bridge.
* Sandbox adapters, configuration, project documents, argument parsing, the
  `session` subcommands, the text rules of exec policy: sequential functions
  without state.
* Token counters, usage totals, schema versions, display history, legacy
  import, archives: numbers and formats no modelled decision depends on.
* Of the model client, the conversion of prompts and tools and the offline
  fake; an abandoned stream is closed by the runtime's finalizer, later than
  any step here. Of skills, the YAML subset, the limits of the directory scan
  and the catalog's text. Of the tools, `read_file` and `list_dir`, which only
  read, and the text of outputs.

Assumptions the models rest on: call ids are distinct within a session; one
turn runs at a time per session (`TuiBridge` has it from `_turn_is_active`);
asyncio runs a task until it suspends, and `record` and event callbacks never
suspend; in `TuiBridge` a turn asks one question at a time, since `run_turn`
dispatches one call at a time.

## Plan

Done: `ToolApproval` with `PromptGate`, `RolloutRecorder` with `DurableLog`,
`AgentTurn`, `TuiBridge` with `TurnProtocol`, `ToolExecution`, `Skills` with
`SkillTurn`, and `TuiClient` over `TuiBridge`, each model-checked and its safety
proved. Left: that `AgentTurn`'s use of the
recorder is `DurableLog`'s promise, as a mapping between the two models instead of
the prose above. `AgentTurn` syncs and acknowledges in one step, which is two of
`DurableLog`'s, so it takes a variable for what is durable but not acknowledged.
