# PixelAgency in TLA+

PixelAgency (the code calls itself PilotDeck) is an agent host written in
TypeScript. Channels (a terminal, a web page, twenty messaging services) submit a
user's message as a *turn* of a *session*. The gateway opens or reuses an agent
for that session, and the agent loops between a language model and tools until the
model stops. All of it runs in one Node process, on one event loop, over files
in the user's home directory.

This directory holds TLA+ specifications of the parts of that program where the order of
events decides what happens, model-checking configurations for them, and
machine-checked proofs. Paths below are relative to the repository's `src/`
directory. `PROJECT.json` maps every definition to the lines it stands for.

Contents: [1 Inventory](#1-inventory) · [2 Modules](#2-modules) ·
[3 From code to model](#3-from-code-to-model) · [4 Runs](#4-runs) ·
[5 Fairness](#5-fairness) · [6 Proofs](#6-proofs) ·
[7 Where the code departs from what it says](#7-where-the-code-departs-from-what-it-says) ·
[8 What is not modelled](#8-what-is-not-modelled) · [9 Plan](#9-plan)

## 1 Inventory

### Components that carry the core logic

| component | state it keeps | operations | interacts with |
|---|---|---|---|
| **Turn slots** `gateway/SessionRouter.ts`, `gateway/client/InProcessGateway.ts` | session records with a dirty mark, `inFlightTurns`, `turnCompletions`, event sinks | `submitTurn` (host generator and background pump), `abortTurn`, `close`, idle sweep, dirty rebuild | opens agent sessions, rejects prompts at the end of a turn, refreshes the configuration before one |
| **Prompt buses** `gateway/permission`, `gateway/elicitation` | requests waiting per session | register, answer, abort, reject all | a run blocks on them; the user answers through the gateway |
| **Configuration reload** `pilot/config/PilotConfigStore.ts`, `cli/createLocalGateway.ts` (`ProjectRuntimeRegistry`) | the snapshot, a runtime per project, private MCP runtimes per session | watcher and pre-turn reload, publication, `invalidate`, building a session | marks the router's sessions; stops runtimes under running turns |
| **Agent loop** `agent/loop/AgentLoop.ts`, `agent/turn/TurnRunner.ts` | messages, retry guards, round counter | prepare, request, execute tools, retry after an error, compact, finish | context runtime, model router, tool scheduler, transcript |
| **Context window** `context/projection`, `context/compaction`, `context/recovery` | none (pure functions of a message list) and one model call for summaries | project, snip, summarise, truncate | called by the loop |
| **Transcript** `session/transcript`, `session/resume` | a JSONL file, the writer's sequence and promise chain | append, read, replay, resume | written by `TurnRunner`, read when a session is opened |
| **Model calls** `router/RouterRuntime.ts` (`execute`), `model/streaming/streamModel.ts` | attempt, retry counters, what has been yielded | fall back, retry transiently or after an empty answer, resend a broken stream | provider over HTTP, the loop as its reader |
| **Routing** `router/RouterRuntime.ts` (`decide`), `router/session` | sticky choices per session, usage cache | decide on a model | before a model call |
| **Tool calls** `tool/execution`, `tool/scheduler` | pending calls, audit records | validate, hook, permit, execute; concurrent groups | permissions, hooks, prompt buses, MCP |
| **Permissions and plan mode** `permission`, `agent/runtime/PlanTodoState.ts` | rules per session, mode, saved mode, plan | decide, remember, enter and leave plan mode | tool calls, the loop |
| **MCP connections** `mcp/client`, `mcp/runtime` | connection promise, client, tool list | start, call, reconnect, recycle, close | tools; started and stopped by the registry |
| **Background tasks** `task/runtime` | child processes, output files | start, stop with grace, read, limit | shell tool |
| **Scheduled tasks** `cron` | a task file, running set, one timer | create, update, delete, tick, fire | submits turns |
| **Always-on discovery** `always-on` | lock file, state file, timer per project | gates, tick, fire, publish | submits turns, reacts to them |
| **File history** `session/filesystem` | snapshots, backups by path and version | track an edit, snapshot, rewind | edit tools |

The other components (channel adapters, web server and user interface, providers'
wire formats, configuration parsing, prompt assembly, memory core, hooks and plugins,
built-in tools, subagents, statistics, command line, skills and products) are listed in
`PROJECT.json` with the reason why they are outside; see also section 8.

### What is hard about them, and what makes them correct

*Turn slots.* `submitTurn` is two coroutines: the generator the host reads, and the
pump that drives the agent. Between any two of their awaits a user may stop the turn,
close the session or answer a prompt, a sweep may evict the session, a configuration
change may mark it, and the host may walk away. Correct means that turns of one session
are serial, that what a turn leaves behind (slot, prompts, completion) is gone when the
next begins, that `abortTurn` returns only when its turn is out of the slot, that a turn
starts from everything its session has recorded however its object was replaced, and
that no session stays busy for ever.

*Reload.* A change is published while sessions are being built. Correct means that it
reaches every session, that a turn runs with what its refresh saw, and that every private MCP
runtime that runs is one the limit counts and the next close or change will stop.

*Agent loop and context.* Aborts, failed answers, four kinds of retry and three tiers of
compaction all rewrite one message list. Correct means that what is sent to the model is
well formed (every tool call answered, no answer without its call, not empty), that a
summary tells about everything it replaces, and that a turn ends.

*Transcript.* Appends are rejected or torn, and the process may die between two of them.
Correct means that a restart reads back what the session knew, in order, in whole turns.

*Model calls.* Three layers retry over one stream whose reader has already seen a part.
Correct means one answer from one provider, a stop that is final, a bounded number of
requests, and an end.

*Tool calls and permissions.* The calls of an answer run beside each other and wait for
hooks, for the user and for tools, while the user changes rules, grants and the mode of
the session. Correct means that nothing runs that the rules and the mode forbid, that a
call which needs to run alone does, that calls stay within their answer, that an approved
plan restores the mode before it, and that a stop lets no further call in.

*MCP connections.* Connects, reconnects, timeouts and closes await each other's promises.
Correct means that a client said to be connected has a connection, that callers share one
connection and do not lose it to each other, that a list of tools belongs to the connection
in use, and that every call ends.

*Scheduled tasks.* Every operation reads the task file, awaits and rewrites it, beside
timers, runs and calls. Correct means that runs stay within their limit and give their
slots back, that one chain of timers keeps the scheduler going, that what callers were told
stays true of the file, and that a waiting task gets its turn.

*Always-on discovery.* Timers, a lock file, two more rewritten files, and a user who edits
the same cycles. Correct means that fires exclude each other and are due, that one work
cycle is active, that ticks never cease, that a fire gives its lock back, and that a dormant
project is watched.

*Background tasks, file history* (not modelled yet): children that never report their
exit, a limit that counts finished tasks, backups that overwrite each other. The `hazards`
of `PROJECT.json` name each such place by line, those no property covers with the reason.

## 2 Modules

| module | what it is |
|---|---|
| `SessionTurns` | turn slots, session objects, prompt buses |
| `Conversation` | abstract: serial turns of a session, each starting from all that was recorded |
| `RuntimeReload` | configuration versions, runtime cache, marks, private MCP runtimes |
| `ContextWindow` | the message algorithms as operators (no state) |
| `AgentLoop` | EXTENDS `ContextWindow`: the loop over several turns of one session |
| `TranscriptLog` | the transcript file, its writer and the session's memory |
| `ModelRequest` | one model call: `execute`, `streamAttempt`, `streamModel` |
| `ModelCall` | abstract: an answer of one speaker that grows, then one outcome |
| `ToolCalls` | the calls of an answer: scheduler, decisions, prompts, modes, todo gate |
| `McpConnection` | one `McpClient`: connect, call, reconnect, recycle, close |
| `CronTasks` | the task file, the scheduler and its timers, runs, calls, reloads |
| `Discovery` | the discovery scheduler, its lock and files, fires, reruns, edits, crashes |
| `MC…` | instances for TLC: model values, bounds, symmetry |
| `…Proofs` | theorems about the module of that name |

The detailed modules meet at named places. `SessionTurns` takes a run as a step with a
beginning and an end; `AgentLoop` is what happens inside, and its `Request` to
`Answer` steps are one behaviour of `ModelRequest` seen from the caller. `TranscriptLog`
and `AgentLoop` both model `TurnRunner.run`: the first its records, the second its
messages. `SessionTurns` assumes of the disk only what `TranscriptLog` shows, that a
completed turn can be read back. `RuntimeReload` assumes that one turn at a time runs
under a key, which `SessionTurns` shows. `ToolCalls` is what `AgentLoop` calls `Execute`, opened up: the
results of an answer are a choice in the one and come about in the other. `McpConnection`
is one of the clients whose life as a whole `RuntimeReload` follows, used by tools that
`ToolCalls` takes as running. `CronTasks` and `Discovery` are hosts of `SessionTurns`: their
runs and fires submit turns and take nothing of them but that they end. They are separate because their product
would be out of reach of a model checker, and each assumption is a property of another.

## 3 From code to model

The process is single-threaded, so **a step is the code between two awaits**. Where
an await is on something that settles at once and nothing else can observe the gap, it
does not split a step. Where I/O, a timer, a model or a user is awaited, it does.

**`SessionTurns`.** `record`, `dirty` and `slot` are `SessionRouter`'s maps; `completion`
and `sink` those of `InProcessGateway`; the two buses hold the turns with a registered
request. `host` and `pump` are the program counters of the two coroutines: `Submit`,
`RefuseBusy`, `Begin`, `StreamEnds`, `Leave`, `Drained` are the generator,
`Created`, `Recreated`, `OpenFails`, `Start`, `Accept`, `RunEnds` the pump and the
`AgentSession` under it. `AskPermission` and `AskQuestion` register a prompt,
`PermissionDecide` and `RespondElicitation` answer it. `AbortSignal`, `AbortAwait`,
`AbortReturn` are `abortTurn`. `Unwind` is the `finally` block of the generator. An
`AgentSession` object is named after the turn that built it, so identity of objects is
visible. Its `memory` is what a later run in it sees, `transcript` what a new object reads
from disk. `EarlyLeave` says whether hosts may stop reading a stream: the bundled channels
read to the end, `cron/runtime/CronFire.ts` leaves when a write fails. Left out: event
contents, the `remember` flag of a permission answer.

**`RuntimeReload`.** `disk` and `readable` are the file, `snapshot` that of
`PilotConfigStore`, `runtime` the version the registry's cached runtime was built from
(0 for none). `record`, `dirty` and `built` are the router's records, `mcp` the map of
private MCP runtimes, `live` those whose processes run. `Stop` is `evictSessionMcp`, `Revives`
the clients' connecting again after it, for a tool call or while a session is being built.
`pulled` is history: the runtimes that were stopped while somebody used them (`InUse`), or by a
change of another project, and whose users may therefore start them again. `Loads`/`Publish` are a
successful reload, by the watcher (`WatchReload`) or at the start of a turn (`Submit`).
`UseCached` and `BeginOpen` are the two branches of `getOrCreate`, `Attach` and `Opened`
the two awaits inside a build. `crossed` is a history variable: the objects that were under
construction at a publication.
Configurations are numbered in the order they are written, so restoring an earlier
content is not expressed. There is one project.

**`ContextWindow`, `AgentLoop`.** A message has a role, the calls it makes, the calls it
answers, whether it holds anything else, whether an answer was moved to a file, and
`tells`, the prompts it tells about. `Projected`, `Snipped`, `Summarized`, `Truncated`,
`WithoutErrorPair` are the five algorithms. In the loop, `Submit`, `StartLoop`, `Blocked`
are `TurnRunner` and the hooks before a turn, `Prepare` the head of a round with its
compaction, `Request`, `RouterFails`, `Answer`, `AnswerRetried`, `AnswerFails` the model's
outcomes with the code's own classification of errors (`Errors`), `Stop`, `Execute`,
`NextRound`, `LastRound` what follows an answer. `Abort` may fire between any two steps,
`FoundAborted` is every check of the signal, `Throws` every exception that leaves the
loop. Token estimation, hooks' decisions, tool results and the model are nondeterministic.
Left out: permission modes, the sliding window (`maxContextMessages`, which nothing sets),
subagents, usage figures.

**`TranscriptLog`.** An entry is named by its turn and its number within the turn.
`log` is the set of entries that can be read from the file, `tail` a torn line at its end,
`pending` the append under way, `broken` the rejected `writeChain`. `Land`, `Tear`
and `Rejected` are the outcomes of an append. `Crash`, `Evict`, `Rebuild` and `Open` end
and begin the life of a session object; `Replayed` and `Restored` are what it reads.
Left out: references to subagents, metadata entries, compaction boundaries (nothing writes
them), usage, loss of data the operating system had accepted.

**`ModelRequest`.** `phase` is where the code awaits; `attempt`, `tries`, `transient`
and the zero-usage counter are the retry state of the three layers. `surfaced` is what the
caller has read, `partial` and `at` what the checkpoint and the provider hold of an answer.
`Responds` … `StreamFails` are what a provider does, `Stop` each check of the signal,
`Resend`, `FallBack`, `BackOff`, `RetryEmpty` the retries, `Deliver` and `Surrender` the
two ends. An answer is text pieces and then tool-call pieces; framing events are left out.
Left out: `decide()`, `complete()`, how statistics are stored.

**`ToolCalls`.** A tool stands for a tool with an input; constants say what it says of
that input. `mode` and `before` are `permissionMode` and `permissionModeBeforePlan`, `rule`
what the rules of user, project and policy say of a tool, `session` the grants. A call's
`pc` is the await it is at: `Enters` (abort, hooks), `Refused`, `Decided` (the gate of
`PlanTodoState` in `Gated`, then `Decision`, which is `PermissionRuntime.decide`), `Granted`,
`NotGranted`, `Runs`, `ToolFails`, `ToolSucceeds`, `Reported`, `NotReported` follow
`ToolRuntime.execute`. `MayEnter` is the order of `ConcurrentToolScheduler`: safe calls
together, the others alone. `BatchEnds`, `Applies`, `Answer` are the loop's side of it, and
`Throws` a rejection that fails the answer while the calls beside it run on (`left`; `torn`
when a later answer meets them). Left out: matching a rule against an input, inputs that
hooks change, schemas.

**`McpConnection`.** Connections are numbered as they are built; `client`, `promise`,
`cache`, `dir` say which of them a field of `McpClient` is of. `Starts`, `Call`,
`CachedList` begin a call, `Ready`, `HandshakeFails`, `LateEnds` end a handshake,
`Answered`, `Fails`, `TimesOut`, `Expires` a request; `Reconnects` and `Recycle` replace the
connection, `Close` and `Closed` are `close()`, `ConnClosed` the SDK's side of it, `Drops` a
server that goes away. Continuations that follow a settled promise at once belong to
the step that settles it. The SDK and the server are modelled from their use.

**`CronTasks`.** `file` is the task file; an operation is a `Read` and, later, a `Rename`, a
`Tear` (two writers of one millisecond share a temporary file) or a `Rejected` write of
what was read. `timer` is the handle the scheduler knows, `lost` counts pending timers
whose handle was overwritten. `ListAll`, `BootRead`, `BootWrite`, `Started` are `start`,
`TickLoop`, `DelayReads`, `DelayWrites`, `TickEnds` a tick, `Marks`, `TurnEnds`, `Recorded`,
`Settles…` a run of `CronFire`, `…Called`, `Creates`, `Deletes`, `Aborted` the calls of
`CronRuntime`, `Rebuild` a reload, which leaves old runs going. A crash is an initial file.
`promise` and `disturbed` are history: what callers were told, and whether an update was
lost. Time is `TimePasses`, for one task at a time. `RunNowCalled` joins the two reads of
`runTaskNow`; a task that is gone at the second makes it a `CreateCalled` like any other.

**`Discovery`.** `disk` holds the state file and the index of cycles, each `Torn` while it
is rewritten. An activity (`act`) is a tick, fire, rerun, signal or edit with the file
operations it has yet to do (`todo`), so `Reads`, `Opens`, `Writes` interleave with
everybody else's. `Gates`, `Acquire`, `Load`, `Discover`, `Workspace`, `Prepare`, `Execute`,
`Rest`, `Release` are the stages of a fire. `Fault` rejects any of them except the two that
handle the lock file, which reject in ways of their own: `Acquire` may create the file and fail
to write it, which ends the tick outside its `try`; `Release` may fail to remove it, which is
swallowed. Either way the file stays and the scheduler goes on; `abandoned` (history) tells such
a lock, or one left by a crash, from that of a fire. `Disposes` removes a cycle's workspace before
its index is rewritten (`Opens`); a disposal that rejects is swallowed. `sched` is the scheduler of each generation, with its timer, the timers it has
lost, its watcher. Dates are what the gates make of them. Left out: channel leases,
plans and reports, run events, how a workspace is made, the migration of an old state file,
the change of day, a configuration without dormancy.

## 4 Runs

Distinct states are those of a complete exploration. Deadlock is not checked in any run:
in each module the program may stop legitimately (no more turns are submitted, a call has
settled); that it does not stop elsewhere is what the liveness properties are for.

| run | instance | states | shows |
|---|---|---|---|
| `session_turns` | 1 key, 3 interchangeable turns, 1 abort, 1 prompt per run, hosts that stay | 1 189 159 | `PromptsFollowTheirTurn`, refinement of `Conversation` |
| `session_turns_aborted` | 2 turns, hosts may leave | 328 412 | `AbortReleasesSlot` without the assumption on hosts, `TurnsSettle` (liveness) |
| `runtime_reload` | 2 keys, 3 turns, 2 edits, limit 1 | 2 583 435 | `ChangesReachSessions`, `McpWithinLimit` |
| `config_change_lost` | the same | – | the code's comment is violated (section 7) |
| `agent_loop` | 2 turns, 3 requests, 2 rounds, 1 correction, 1 compaction, answers with 0 or 1 call | 1 414 927 | what is sent, what turns leave, what compaction keeps |
| `transcript_log` | 3 turns, 2 messages each, 8 lines, 2 faults | 1 349 049 | `MemorySurvivesRestart`, `TurnsReplayWhole`, `SequenceIsOrder` |
| `model_request` | 2 providers, 2 attempts of each retry, answers of 3 pieces | 191 014 | one answer, a final stop, bounded requests, accounting, `EveryCallSettles` (liveness) |
| `tool_calls` | 2 calls at a time, 5 tools, 3 rules, 2 modes | 1 143 688 | permissions, isolation of calls, todo list, modes, `AbortsEndTurns` (liveness) |
| `mcp_connection` | 3 calls, 6 connections, 1 close | 1 538 908 | agreement on connections, `CallsSettle` (liveness) |
| `cron_races` | 1 recurring task, 2 runs, 2 ticks, 1 call, 2 open operations | 625 070 | slots, timers, `RunningTasksHaveRuns` under overlapping, torn and rejected writes |
| `cron_tasks` | 2 tasks, 1 slot, 1 reload | 235 698 | promises to callers, `QuietAfterStop`, `WaitingTasksAreServed` (liveness) |
| `discovery` | 2 schedulers, 3 fires, 1 fault, 1 rerun, signal or edit | 600 736 | exclusion, budget, one cycle, `DiscoveryGoesOn` (liveness) |

The type invariants of `AgentLoop`, `CronTasks` and `Discovery` are checked by their
runs and proved, those of the other modules only proved (section 6).

**Why the bounds are enough to be interesting.** Three turns of one session are the
fewest in which one is abandoned, one replaces its object and one observes both;
turns of different keys share nothing in `SessionTurns`, so one key loses nothing.
In `RuntimeReload` a second key competes for the MCP limit, and two edits let a publication
fall into a build whose predecessor was already stale. In `AgentLoop` the
second turn starts from what an aborted, failed or compacted first one left; three
requests suffice for a failure, its retry and a later round; `HeadTurns` and `TailTurns`
are 1 (the code's defaults are 2 and 4), so that a few messages already have a middle to
remove; `KeepPercent` and `TruncatePercent` are the code's. In `TranscriptLog` two faults
are a torn line and a crash or rejection on top of it, and eight lines hold two whole turns
of the three, so that the limit on the size of the file is crossed. In
`ModelRequest`, `FewPieces` = 1 separates broken streams with a substantial checkpoint from
those without, and two attempts of each kind exercise the boundary of every counter.
In `ToolCalls` two calls are the fewest that can meet, and the five tools cover what
decisions tell apart: one the rules name and that changes things and runs alone, one that
says it may run, the two that change the mode, and the one that writes the todo list; its rules
are of the user (the theorem `DenyHolds` speaks of all), answers
and turns are unbounded. In `McpConnection` three calls, two of which may list the tools or
only start, let one reconnect, one time out
and one arrive late, and six connections are two for each of them. In `CronTasks` the first
run takes two runs and two ticks of one task, so that a second chain of timers and a
leaked slot exist; the second takes two tasks that compete for the slot and follows the file
up to its first lost update, after which the file says nothing that a property could
rest on. In `Discovery` a second scheduler is what a reload and what a restart after a crash
leave, three fires reach the budget of two, and the disturbances (a rerun, a signal, an edit)
occur one at a time beside a fault: `OneDisturbance` is a constraint of that run.
The theorems of section 6 do not depend on any of these numbers.

**Symmetry** is used only in `session_turns`, over turns, which the module never tells
apart; that run checks no liveness.

**Sensitivity.** Every property has a mutant in `PROJECT.json`: a plausible slip in one
mapped definition (`…Deaf`, `…Inclusive`, `…Empty` and so on, written next to the
definition they alter) under which TLC finds that property violated.

### What the properties say

Several are conjunctions; their parts are definitions with comments of their own.

- `PromptsFollowTheirTurn` (`NoStalePrompts`, `BlockedRunIsAnswerable`): prompts die with
  their turn, and a run that waits for one can be answered through its own open stream.
- `ImplementsConversation`: refinement mapping `status <- Statuses`, `view <- base`,
  `said <- transcript`. Runs of a session never overlap, and each starts from every recorded
  turn of its session.
- `AbortReleasesSlot`: when `abortTurn` has returned, the turn it found holds the slot no
  more, so an immediate new submit is not refused because of it.
- `TurnsSettle` (`AbortedTurnSettles`, `EveryTurnSettles`): a turn whose signal fired
  unwinds with nobody's help, and every turn ends if users answer and hosts stay.
- `ChangesReachSessions` (`UnmarkedIsCurrent`, `TurnsRunFresh`): a change reaches every
  session except those under construction when it was published. The exception is real:
  section 7.
- `McpWithinLimit`: a private MCP runtime with processes is the one registered under its key,
  so that the limit counts it and somebody will stop it, and at most `MaxMcp` such run at once.
  This takes a stop that loses its runtime for good: everybody who could use it must be gone, its
  session no longer cached and no turn about to find it. The exception, `pulled`, is real too.
- `HistoryIsWellFormed`: the shape of what is sent to a provider and of what turns leave.
  `OnlyTruncationEmptiesRequests` and `OnlyAbortsLeaveCallsOpen` name the two ways in which it
  can degrade: the cut after an overflow, and an aborted turn.
- `RequestsAreAccounted`: every request of a turn is paid for by a round, a correction or
  a guard.
- `SummaryIsFaithful`: a compaction that succeeds forgets no prompt and breaks no pair.
- `MemorySurvivesRestart`: everything a session remembers would be replayed. Only a turn
  that lost an entry to a torn line is excepted, and only while the file is short
  enough to be read. `TurnsReplayWhole`, `SequenceIsOrder`: no half turns, no
  interleaving of old and new turns after a resume.
- `ImplementsModelCall`: refinement mapping on `Speaker`, `surfaced`, `phase`. `AbortIsFinal`,
  `RequestsAreBounded`, `AccountedUnlessTold`, `EveryCallSettles` complete it.
- `PermissionsHold` (`PlanModeReadsOnly`, `DenyRulesHold`): at any await after its
  decision, a call that runs was permitted by the rules and the mode it was decided in. The
  exceptions the code makes (a grant of the session, the word of the tool) are stated.
- `CallsKeepToTheirAnswer`: a call that may not run beside others has none of its answer
  beside it; between answers nothing is under way but what a rejection left; calls run in
  the mode of the session.
- `TodoListIsKept`: while the list of an approved plan is missing or stale, nothing that
  changes anything runs, except calls that are safe or were left behind.
- `ModeIsRestored`, `AbortsEndTurns`: approval gives back the mode plan mode was entered
  from; after a stop no call enters and the turn ends.
- `ConnectionsAgree`: connected means that there is a client, one reconnect at a time, and
  one connection, whose profile directory exists; without a timeout or a close beside a
  reconnect (`raced`) nothing is lost. `OldConnectionsAreUnused`, `ClosedStaysClosed`,
  `CallsSettle`.
- `RunsHoldSlots`, `OneChain`, `QuietAfterStop`, `RunningTasksHaveRuns`,
  `TasksComeAndGoAsTold`, `WaitingTasksAreServed`: what the scheduler owes its callers, with
  the exceptions `disturbed` (an update of the file was lost) and `doubled` (a poke during a
  tick made a second chain).
- `FiresAreAlone`, `OneActiveCycle`, `FiresAreDue`, `DiscoveryGoesOn`: the same for
  discovery, with `spoiled` (a lost update), `beside` (a rerun or an edit beside another
  activity) and `forked` (a signal during a tick). A crash excuses nothing but the lock. A lock
  is of the one fire under way, or `abandoned`, and `abandoned` is a crash, a rejected `unlink` or a
  lock file that could not be written; every other fire gives its lock back, a failing one too.
- What these exceptions exempt is what some hazards of `PROJECT.json` consist of: an update that
  is lost (`disturbed`, `spoiled`), a second chain of timers (`doubled`, `forked`), a rerun beside a
  fire (`beside`). There the code breaks the promise, so no property covers those hazards; their
  notes say so, and section 7 says what happens.

## 5 Fairness

The program's own steps are weakly fair: a promise that resolves resumes its
coroutine, and the event loop starves nobody. It is also assumed that everything external the program awaits
settles: a model stream ends or fails, a session opens or throws, a run that is not blocked
on a prompt ends (`ProgramFairness`, and `FairSpec` of `ModelRequest`). Nothing is assumed
of users: no submit, stop, close or answer need ever happen. `EveryTurnSettles` is an
implication whose premise, `Attended`, says that prompts are answered and streams are read. A
provider that stalls in the middle of a body is outside the assumption: the code has no
timeout there (section 7).

`FairSpec` of the four newer modules follows the same rule. `ToolCalls`: only
what an aborted turn waits for goes on (a single weak fairness); a user need not answer, since
an abort ends a prompt. `McpConnection`:
handshakes, requests and closes settle, which the SDK's timeouts enforce. `CronTasks`: timers
run out, file operations end one way or the other, the turns of runs end. `Discovery`: the
same, and the turns of its agents; neither faults nor edits are fair, and the cooldown
passes.

## 6 Proofs

The modules of theorems, checked by TLAPS for every value of the constants under the
named assumptions of the modules (`KeyOf` is a function, bounds are naturals, at least one
provider, ...).

| module | theorems | inductive invariant |
|---|---|---|
| `SessionTurnsProofs` | `TypeCorrect`, `AbortContract`, `OneRun`, `PromptsAreLive`, `TalkIsImplemented` | see below |
| `AgentLoopProofs` | `TypeCorrect`, `HistoryStaysWellFormed`, `SummariesAreFaithful`, `ProjectedIsPaired`, `RequestsUseGuards`, `TurnsAskBoundedly` | `LoopInv`: `Scalars`, `Shaped`, `Ongoing`, `Remembered`, `Substance`, `Asked`; `CountInv`: counters are naturals within their guards, and the account |
| `TranscriptLogProofs` | `TypeCorrect`, `SequencesAscend`, `TurnsAreWhole`, `MemorySurvives` | `Counted` (the writer is ahead of the file), `Whole`, `MemoryIsOnFile` |
| `ModelRequestProofs` | `TypeCorrect`, `OneAnswer`, `StopsAreFinal`, `CallsAreAccounted`, `CallsAreBounded` | `Flags`, `Numbers`, `Quiet`, `StoppedOrAwaiting`, `Books`, `Budget` |
| `ToolCallsProofs` | `Types`, `Alone`, `Ended`, `Restored`, `Aborted`, `PlansReadOnly`, `DenyHolds`, `ModeHolds`, `PermissionsAreKept`, `AnswersAreKept`, `TodoKept` | `Settled`, `Ordered`, `Moded`, `Remembered`, `Permitted`, `Gates` |
| `RuntimeProofs` on `McpConnection` | `TypeCorrect`, `ConnectionsAgreeHolds`, `OldConnectionsHold`, `ClosedStaysClosedHolds` | `Placed`, `Single`, `ConnectedMeansClient`, `Agreed`, `Calm`, `ListHeld`, `Untouched` |
| `RuntimeProofs` on `RuntimeReload` | `ReloadTypeCorrect`, `ChangesArrive`, `McpLimitHolds` | `Fresh`: `Ordered` (the snapshot lies between what turns saw and the disk, a cached runtime is no older), `Settled` (turns work with finished sessions), `OpensCurrent` (a session under construction is current unless crossed), and the two properties; `SlotsWithinLimit`, `Counted` |
| `CronTasksProofs` | `TypeCorrect`, `RunsHoldSlotsHolds`, `OneChainHolds`, `QuietAfterStopHolds`, `TasksComeAndGoAsToldHolds`, `RunningTasksHaveRunsHolds` | `Replaceable`, `Owned`, `Clocks` (`Timed` and two properties), `Files`, `Told`, `Served` |
| `DiscoveryProofs` | `TypeCorrect`, `FiresAreAloneHolds`, `FiresAreDueHolds`, `OneActiveCycleHolds` | `Typed`, `OnCourse`, `Accounted`; `Lone`, `Unborn`, `Chained`; `Apart`, `Ordered`, `Alone`, `Remembered`; `Kept` |

*SessionTurns.* None of its properties is inductive. `Opened` ties a pump's place to its
object. `SlotHeld` says that the turn in a slot is the one whose stream is open, with its
completion and its sink registered. `AbortTracks` follows what an abort found in the slot
through its phases and needs no assumption on hosts, so `AbortContract` holds for all of
them. `WorkHeld` says that a pump at work belongs to an open stream, which with `SlotHeld`
gives `OneRunPerSession` and holds only if hosts stay (`~EarlyLeave`). `PromptsHeld` puts
nothing on the buses but prompts of the turn in the slot. `MemoryHeld` says that a cached
object, and the object of a pump at work, remember exactly what is on record, which makes
every step of the gateway a step or a stutter of `Conversation` (`TalkIsImplemented`). `OneRun`,
`PromptsAreLive` and `TalkIsImplemented` state the assumption `~EarlyLeave`.

*RuntimeReload.* The type theorem comes first. `McpLimitHolds` puts two invariants together: the
map never outgrows the limit (`SlotsWithinLimit`), and what runs is in the map (`Counted`). The
latter is `LiveAreRegistered`, which every stop would break if the stopped runtime could be
started again. `GoneAreIdle` says that one stopped for good is `Idle`: no turn runs in
its session or builds it, and no clean record leads the next turn to it. For this two turns of a
key must not be in flight together (`OneAtATime`), a session is only built for a key without a clean
record (`OpensForNeed`), what is registered and cached fits its key (`KeysFit`), and nobody has a
private runtime before the build that starts it (`GivenAfterOpening`). TLC checked `Counted` first.

*AgentLoop.* The history is well formed only between answers, so the invariant says how far
each phase is from that. `Ongoing`: outside an answer the history answers every call at once
and none twice (`History`); while an answer is worked on it is such a history and one more
assistant message, whose calls nothing answers yet, because they are new. `Remembered` says
the same of `base`, which an exception falls back to, and `Shaped` that user messages call
nothing and assistant messages answer nothing, which the cuts rely on. `Substance` keeps
something to send until an overflow cuts it off. That each algorithm of `ContextWindow` keeps
`History` are lemmas over all sequences of messages (`SnippedIs`, `KeptIs`, `SummarizedIs`,
`CompactedIs`, `WithoutErrorPairIs`, `WithResultsIs`), from `Nth` and `NonEmpty` up; what
they keep of calls and prompts gives `SummariesAreFaithful`. `SummarizedIs` shows that nothing
dangles behind a summary whatever it was given, aborted turns included. `ProjectedIsPaired`
is an induction along the walk of `MessageProjector`, with `PairedBut` for what is still open; it
needs no invariant, so even the history of an aborted turn is sent paired. `Nth`, `NonEmpty` and
`Walk` are written as functions for the sake of these proofs.
`TurnsAskBoundedly` adds the counters' own bounds to the account: a turn makes
at most `MaxTurns + MaxSelfCorrect + 2` requests and one for each retry without images, for
any behaviour of model, tools and user.

*TranscriptLog.* `SequencesAscend` needs that the sequence of the writer is above all that
is on a readable file, through crashes and rebuilds. `MemorySurvives` needs `TurnsAreWhole`
and that what a turn has produced so far is on file or in flight.

*ModelRequest.* `OneAnswer` is the refinement of `ModelCall`, from `Quiet` (between
two streams the caller has read nothing). `CallsAreBounded` uses
`Budget`: streams are paid for by attempts, and requests by streams. `StopsAreFinal` rests on
`StoppedOrAwaiting`: once the signal has fired the call is at an await or stopped.

*ToolCalls.* Every step of a call is one of four kinds (it goes on, it enters, it throws, it
is applied), which `Moves`, `Enters`, `Throws` and `Applies` name; the lemmas go over these kinds,
not over the actions. `Settled` says which calls may be under way in each phase of the turn,
`Ordered` that behind a call that runs alone only such calls wait; they give `Ended` and
`Alone`. `Moded` adds that waiting calls were given the mode of the session. `Permitted` is
the decision of a call, kept at every await after it although rules, grants and mode
change; `Gates` ties the todo gate to the calls that passed it, `Remembered` the mode that
`enter_plan_mode` found to the one the session has saved. `AbortsEndTurns` is half proved
(`Aborted`); its other half is liveness.

*McpConnection.* `Placed` says which states a connection may be in when it is a client, was
sent a request or is waited for to close. `Agreed` is what the fields have in common while
nothing was raced: whatever is alive is the connection of the promise, with its profile
directory, which no recycled connection takes along. `Calm` excludes races without timeouts
and closes: the only connection being closed is then the one a reconnect waits for, and it is
still the client. `ListHeld` has to know that a list is never of a connection that a reconnect
is closing, or dropping that connection would leave it stale.

*CronTasks.* `RunsHoldSlots` counts slots by runs, and each step of a run moves one between
the two sides. Timers and ticks come one for a runtime only if later runtimes have none yet and a
runtime without a second chain has lost no timer and knows its tick: `Timed`, which
makes `OneChain` and `QuietAfterStop` inductive. `Replaceable` leaves a stopped runtime a
successor. For the file, the lemma `WritesOne` says that as long as no update was lost a
write changes the entry of one task, because a snapshot differs from the file in nothing else
(`Files`, `Owned`). `Told` then ties the promise to a caller to that entry and to
every operation that still holds a copy of it, and `Served` a task the file calls running
to the run, the tick or the pending rewrite that will settle it.

*Discovery.* What an activity has left to do is data, so types need `OnCourse`: it is the rest
of a program of its kind, and which operation follows which is a table (`Successions`,
`Moves`). That a new cycle has a number is an account (`Accounted`): cycles made and owed are
no more than fires and reruns begun. `FiresAreAlone` is `Lone` (a fire has the lock, no two
are under way, and a lock no fire has was abandoned) and `Chained` (a scheduler has one of a timer and a tick until a signal comes
during a tick; one that is stopping has what it awaits). `FiresAreDue` is about what has
happened while the gates see a file, so `Remembered` says that the state file, or whoever is about to
rewrite it, counts the fires and knows of cooldown and dormancy. It holds while one activity
at a time holds a file's content (`Alone`) and one at a time works (`OneWorker`, a lemma from
`Chained`, from `Apart`, and from `Ordered`: a scheduler starts after those before it). Past the
gates this says that the fire is due, and nothing changes that before the lock is taken.
`OneActiveCycle` needs that two files agree that are written one after the other:
`Pointed(p, q)` is what state file and index, those about to rewrite them, and those who have looked at
them make of the active cycle, with p and q different only while a new cycle is on its way
from the index to the state file. One activity at a time deals with cycles (`OneHand`, from
`Lone` and `Apart`) and makes one only where it saw none active, which is why this needs no
`~forked`. The histories `spoiled`, `beside` and `forked` only ever turn true (`OnceSpoiled`).
TLC checked `Remembered`, `Kept` and what they rest on as invariants of the run first.
`NoContentAssumption` tells the markers `Torn` and `Nothing` from contents.

**Only model-checked:** all liveness (fairness and ENABLED are beyond the prover:
`TurnsSettle`, `EveryCallSettles`, `CallsSettle`, `AbortsEndTurns`, `WaitingTasksAreServed`,
`DiscoveryGoesOn`). Every safety property that a passing run checks has a theorem.

## 7 Where the code departs from what it says

The run `config_change_lost` shows this one by a counterexample:
`gateway/client/InProcessGateway.ts:227` guarantees a fresh key "for the very next turn". A
change published while `getOrCreate` awaits a build marks no record, or a mark that line 58
of `SessionRouter.ts` then wipes. The session runs with the old configuration until something
else rebuilds it.

The models have the behaviours below as well. No run states them, but each is the reason
for an exception that a property names, or for one that it does not claim.

*Turns, configuration, loop, transcript, model calls*

- `pilot/config/types.ts:112` calls the limit on MCP the maximum number of concurrent
  instances. A client connects again when it is used after its runtime was stopped: by a tool call
  of a turn that was running when `invalidate()`, a close or a rebuild stopped it, by a build under
  way then, and by every later turn of a clean cached session that a change of another project
  stopped (`cli/createLocalGateway.ts:1060`). Such a runtime is outside the count, and nobody
  stops it (`pulled`).
- `agent/loop/AgentLoop.ts:188` says that the original messages are used if summarization
  fails. They are replaced by a boundary and the kept tail.
- Line 375 of the same file calls recovery single-shot; the retry without images sets no
  guard.
- `router/RouterRuntime.ts:680` locks in an attempt to avoid duplicates; `streamModel` under
  it asks again for the whole of an answer that broke off early.
- A question asked after its host has left stays on the bus of its session, although
  `gateway/elicitation/GatewayElicitationBus.ts:60` says that the turn's end rejects it.
- `permissionDecide` can answer `delivered: true` for a request whose run was aborted
  (`gateway/protocol/types.ts:188`).
- A session closed during a rebuild leaves an MCP runtime that nobody stops.
- The cut after an overflow may leave only tool results, which projection then drops:
  an empty request.
- `ContextOverflowRecovery` documents a second, harder cut; the code gives up.
- A network failure before the headers of a response is not retried by `streamModel`.
- Calls that fail with an error event are never accounted: the reader leaves the generator
  at that event, before `execute` resumes (`AccountedUnlessTold` states exactly this).
- The timeout of a request ends with its headers, so a stalled body waits for a user.
- An event at the end of a stream without a blank line after it is dropped.
- A transcript above 50 MB is read as empty, and its session starts anew in the same file.
- A restart brings back messages that a compaction had removed, since no compaction is
  recorded.
- `afterTurnCompleted` may throw in the `finally` block of a finished turn.

*Tool calls*

- A rejection leaves the other safe calls of its answer running, into later answers and turns
  (`tool/scheduler/ConcurrentToolScheduler.ts:53`).
- A grant of the session also holds in plan mode and against a deny rule of the user; a
  "remember" is lost when a rule allows the tool already.
- An abort right after the approval of a plan leaves the mode "plan" with the gate open for
  the todo list. `exit_plan_mode` outside plan mode resets any mode to the default. A mode
  saved before plan mode survives an override by the user (`agent/loop/AgentLoop.ts:546`).
- A `PostToolUse` hook that fails turns done work into an error
  (`tool/execution/ToolRuntime.ts:202`).
- Reads that follow edits in an answer run before them, since safe calls go first.

*MCP connections*

- The errors of a retry are thrown without their code (`mcp/client/McpClient.ts:241`), and a
  retry that times out does not recycle the connection.
- Recycling closes the client of the moment, which may have replaced the one that timed out.
- A handshake that timed out may leave its process, and a reconnect its profile directory.
- `close()` does not wait for a connect under way, and the next call connects again.
- A list that arrives after an invalidation is cached (line 206).

*Scheduled tasks*

- Overlapping operations lose updates; a run may write a deleted task back
  (`cron/runtime/CronFire.ts:50`, against the promise of `cron/tools/CronDeleteTool.ts:9`).
- A run whose first write is rejected keeps its slot for good (line 49); one whose record is
  rejected leaves its task "running" (line 95).
- `start()` may reject without arming a timer; a poke during a tick makes two chains.
- A stop between registration and `submitTurn` does not reach the turn. A date beyond the
  search of 366 days (29 February) leaves a task without a next run. Continuous pokes put
  the timer off, so delayed tasks may starve.

*Discovery*

- `always-on/runtime/DiscoveryFire.ts:107` promises at most one active cycle. Reruns take
  neither lock nor gates: beside a discovery both create one. A failed apply returns its
  cycle to active after another was made. Archiving removes a workspace in use.
- A signal during a tick makes a second chain of timers, which `stop()` does not know.
- A torn state file reads as its default: count, cooldown, dormancy, active cycle are gone.
- A fire that throws marks no completion, hence no cooldown. A lock file left by a crash
  blocks every later tick.
- So does one that the scheduler itself leaves while it goes on: `releaseDiscoveryLock` swallows a
  rejected `unlink` (`always-on/runtime/DiscoveryFire.ts:1035`), and a `writeFile` that fails after
  creating the file (line 1024) rejects before the `try` of `tick()`. Nothing looks at the age or the
  pid of a lock file, so no discovery runs until somebody removes it.
- The disposal of a workspace that rejects is swallowed, and its cycle is archived or applied all
  the same: the workspace stays.
- Changes during a fire, before its watcher is made, are missed. `start()` that rejects on an
  unreadable file leaves a scheduler without a timer; a rejected `clearDormant` is an
  unhandled rejection.

## 8 What is not modelled

*Outside for good:* wire formats of providers and messaging services, web server and user
interface, prompt assembly, parsing of configuration, skills and plugins, hooks' processes,
built-in tools' work, the vendored memory core, statistics files. They are I/O or pure
functions over text; where they matter to a model they are a nondeterministic choice. They are
also most of the repository's lines, which is why the map covers a small part of it.
`CollaborationBus` and the department registry are synchronous maps with no order to get
wrong. A subagent is another `AgentLoop` inside one tool call.

*Not yet:* `BackgroundTaskRuntime` (its limit counts finished tasks, and a child that reports an error
but no exit is waited for without end), `FileHistoryStore` (only `trackEdit` has a caller, and
it overwrites version 1 of a backup), the sticky choices of `RouterRuntime.decide`, the
parallel starts of `McpRuntime`.

*Inside the modelled components:* what section 3 lists under "left out".

*Assumed:* file-system calls are atomic per line or torn (`TranscriptLog`) and rewrites atomic,
torn or rejected as their modules say; starting and stopping an MCP runtime is one step
(`RuntimeReload`); timers fire eventually; continuations of a settled promise run before
anything else (`McpConnection`).

## 9 Plan

Done, in this order: `SessionTurns` with `Conversation`, `RuntimeReload`, `ContextWindow` with
`AgentLoop`, `TranscriptLog`, `ModelRequest` with `ModelCall`, `ToolCalls`, `McpConnection`,
`CronTasks`, `Discovery`, and the proofs of all of them.

Next, most important first:

1. `BackgroundTasks`: start, exit, stop with its grace period, the limit.
2. `FileHistory`, once something calls its snapshots.
3. Sticky routing: the choice of a session across the awaits of a decision.

In the modelled components: a configuration changed and changed back between two
reads (`pilot/config/PilotConfigStore.ts:72`) and sessions that no project scope marks
(`gateway/SessionRouter.ts:119`) would need configurations with contents, and several
projects, in `RuntimeReload`.
