# TAgent Core in TLA+

TAgent Core runs agent tasks durably. One Node.js process, the *Generation*,
owns a SQLite database and executes *TaskRuns*; a small supervisor, the *Host*,
starts it, replaces it by a new release and restarts it after a crash. This
directory holds TLA+ models of that code, the TLC configurations that check
them, and TLAPS proofs. `PROJECT.json` maps every definition to the source lines
it models and lists runs, mutants, hazards, findings and theorems. Paths below
are relative to the repository.

## Inventory

| Component | State it keeps | Operations | Hard behaviour | What makes it correct |
| --- | --- | --- | --- | --- |
| TaskRun and Attempt lifecycle (`packages/execution`, `sqlite/attempt-repository.ts`, `task-run-transition-repository.ts`) | `runs`, `attempts`, `execution_leases`, `candidate_results`, `supervisor_decisions`, `tool_attempts`, `user_input_requests`; runtimes and promises in memory | launch, initialize, prompt, record candidate, review, settle, time out, cancel, ask for input, resume, re-adjudicate | everything interleaves at awaits; lease expiry; late callbacks; crash between transactions | one active Attempt, matching the run; delivery only under an executed verdict; terminal states final; no run left running without an executor |
| Continuations and recovery (`continuation-scheduler.ts`, `recovery-coordinator.ts`, `runtime-registry.ts`, `store.ts`) | `run_continuations` with owner, lease and due time; the recovery timer | queue, claim, renew, release, requeue, safe crash recovery, startup interruption, shutdown | crash and restart, expired leases | started eventually, never continuing what a human must decide |
| Supervisor review (`composition/supervisor.ts`, `supervisor-reviewer.ts`, `supervisor-audit-algebra.ts`, `run-governance-application.ts`) | decisions, gates, coverage, approvals, accepted uncertainties | prerequisites, judge, audit, decide, classify a failure, approve, accept | the judge is an await; verdicts come in every shape; acceptances outlive Attempts | a TaskRun completes only on an honest verdict of what it delivers |
| Session inbox and admission (`packages/admission`, `task-policy.ts`, `store.ts`) | `session_supervisor_inbox`, Sessions, approvals of external actions | submit, route, edit, reorder, claim, launch, retry, start in parallel, approve | the Router is an await; claims race with continuations and resumes | one TaskRun of a Session at a time, no lost wakeup, no unapproved external Attempt |
| Control inbox (`control-inbox-dispatcher.ts`) | `control_inbox` | enqueue, claim, deliver, record | delivery is an await on a runtime that may end | at most one delivery; the outcome tells the truth |
| Pi runtime adapter (`adapters/runtime-pi`) | one prompt, its deferred controls, the harness | prompt, retry, fall back, compact, pause, steer, abort | a dozen awaits, each crossed by abort and controls | an abort ends the prompt; nothing accepted is left behind |
| Tool pipeline and operation receipts (`tool-execution-pipeline.ts`, `operation-receipt-execution.ts`) | `tool_attempts`, `operations`, `run_checks` | announce, claim, dispatch, settle, replay, register a check | effect and receipt are not atomic; processes outlive the Core | an effect lands at most once and under a claim; a trusted check is current |
| Local workspace tools (`adapters/workspace-local`) | none | classify a command, run it | a classification that is too mild | see tool pipeline |
| Host and Generation hand-off (`host.ts`, `host-generation-session.ts`, `host-state-store.ts`, `generation-protocol.ts`) | `activation.json`, the `current` link, the child process | start, activate, drain, hand off, roll back, restart with back-off | crash between file writes and process events | one supervised Generation; no contradictory answers; every request answered |
| Instance lock, writer lease, core lifecycle (`core-instance-lock.ts`, `core-writer-lease.ts`, `writer-fence-guard.ts`, `core-lifecycle.ts`) | lock and marker files, lease row with fence, lifecycle phase | acquire, recover, heartbeat, fence, close | heartbeat past its deadline, two processes, unlink by path | a ready process holds the newest fence; a lost authority closes |
| Event journal and consumers (`store.ts`, `event-routes.ts`) | `run_events`, consumer cursors, SSE connections | append, claim, replay, stream, acknowledge | late and reordered acknowledgements, replay racing publication | gapless streams; a cursor passes only handled events |
| Web console (`apps/web-console`) | what is shown, remembered revisions | load, stream, poll; Skill panel | answers that arrive late or in the wrong order | what is shown ends up true |
| Workspace goals (`workspace-goal-service.ts`, `workspace-goal-repository.ts`) | Goals, definitions, Roadmaps, links, evidence, verdicts | create, revise, decide, generate, start, record, close, reconcile | outcomes recorded late or twice, two writes per item | the newest TaskRun owns an item; nothing failed restarts by itself |
| Skill Center (`skill-application.ts`, `skill-repository.ts`) | catalog, revisions, bundles on disk, selections | upload, edit, delete, select, freeze | long asynchronous edits, two clients | an edit keeps what it was checked against |
| Profile operations and command receipts (`profile-operation-support.ts`, `profile-contract-repository.ts`) | receipts by idempotency key | claim, execute, settle, replay | duplicated requests, crash after claim, second opener | one effect per key, answers that agree |
| Memory (`packages/memory`) | records, capture and reindex jobs | capture, consolidate, recall | worker leases and retries | a job is not lost |
| HTTP transport and ABI schemas | none of their own | parse, route, validate | - | - |

The components interact through the database and through synchronous calls in
one process. `AdmissionCoordinator` claims an inbox item and calls
`AttemptExecutor.launch`; the executor runs `AttemptSettlementService.execute`
as a promise, which awaits the Pi runtime and the Supervisor; the runtime calls
the tool pipeline; reactions call the `ContinuationScheduler` and record the
outcome of a Roadmap item; timers call the `RecoveryCoordinator`; HTTP handlers
call resume, approve, submit-input, control and cancel at any await. The console
follows the journal. Every write of the process goes through the connection
guard of the writer fence.

## Modules

| Module | Content |
| --- | --- |
| `TaskRunLifecycle`, `TaskRunLifecycleProofs` | the TaskRun/Attempt lifecycle, continuations, recovery, startup, shutdown and crash; theorems about it |
| `HostActivation` | the Host: start, activation, rollback, crash restart and close, with the Generation's side of the protocol |
| `WriterFence` | instance lock, writer lease, connection guard, bootstrap and lifecycle of contending processes |
| `TaskPolicy` | execution policies: what the Router may propose and the floors below it (operators) |
| `SessionInbox` | submission, inbox, admission, approvals of external actions |
| `SupervisorAudit` | extends `TaskPolicy`: the settlement review, the completion algebra, acceptances |
| `PiRuntime` | one prompt of the Pi runtime adapter |
| `ControlInbox` | extends `PiRuntime`: the durable control inbox composed with the runtime that takes the controls |
| `ShellPolicy` | the classification of shell commands (operators) |
| `EffectLedger` | abstract specification: effects that land at most once, under a claim |
| `ToolReceipts` | uses `ShellPolicy`; tool pipeline, receipts, processes and checks; implements `EffectLedger` |
| `WorkspaceGoals` | Goals, Roadmaps, their TaskRuns, evidence and verdicts |
| `EventStream` | journal, consumer cursor and SSE route |
| `LiveSync` | extends `EventStream`: the console's live view, composed with the stream it follows |
| `SkillCenter` | catalog, bundles, selections, conditional and idempotent mutations |
| `OperationReceipts` | extends `SkillCenter`: receipts of effects that are not one transaction |
| `SkillConsole` | extends `OperationReceipts`: the Skill panel of the console; the whole system of the three |
| `HostProofs` | theorems about `HostActivation`: which Generation the Host runs, and what it answers |
| `AuthorityProofs` | theorems about `WriterFence`, `SupervisorAudit` and `WorkspaceGoals`: who may write, on whose word a TaskRun is completed, who owns an item and on what a Goal is closed |
| `SessionInboxProofs`, `ControlInboxProofs`, `ToolReceiptsProofs`, `LiveSyncProofs`, `SkillConsoleProofs` | theorems about the module of the same name and the modules it extends |
| `MC...` | the modules TLC runs: scenarios, scripts and symmetries, one per run group |

A SQLite transaction is atomic and JavaScript runs to completion between awaits,
so everywhere an action is the code between two awaits with all its writes. Two
modules of the same process meet where one abstracts the other:
`SessionInbox` has Attempts that prepare, run and end, which are
`TaskRunLifecycle`'s; `ToolReceipts`, `ControlInbox` and `SupervisorAudit` take
from it that Attempts follow one another and that a write is fenced;
`TaskRunLifecycle` lets the Supervisor choose among its actions, which
`SupervisorAudit` computes; its `phase` and `Crash` are what `HostActivation`
does to a Generation.

Every property has a "faulty variant", an operator next to the definition it
varies (a dropped guard, a missing reset, a swapped order), under which TLC finds
the property violated; `PROJECT.json` lists them as mutants.

### TaskRunLifecycle: state

Each table is a function of the run, and of the ordinal of the Attempt where its
rows belong to an Attempt. `runs[r].restarted` says that a `restart.interruption`
event exists, `runs[r].failure` is the reason in the `run.failed` event, the two
facts later code reads from the event journal. Leases are `live`, `expired` or
`released`: time is the step from live to expired. `continuations[r]` is the one
queued or running row, with the number of rows so far (`total`) and of crash
recoveries (`crashes`); `mine` says that this process owns it. `decisions` keeps
the latest decision of an Attempt: an earlier one is never read again. `tools`
keeps one call of an Attempt, which is enough for the questions the code asks (is
one running, or of unknown outcome).

`proc[r]` is the in-memory executor of a run, the promise `launch` creates: which
await it stands at (`preparing`, `initializing`, `executing`, `reviewing`,
`failReview`, `finalizing`), or `retained` when its runtime could not be disposed.
`phase` is the life of the process: up, closing, leases released, down, and the
two points of startup where a crash exposes different tables.

### TaskRunLifecycle: actions

A SQLite transaction is atomic and JavaScript runs to completion between awaits,
so an action is a synchronous segment with all its writes. Where one segment
commits several transactions and a crash between them matters (settlement, then
the approval request, then `updateContinuation`, then `queueContinuation`) the
segment is a sequence of micro-steps: nothing else runs between them
(`Quiet`), but `Crash` may, and no time passes. Every write of an executor is
guarded by what its transaction checks: `FenceValid`, `CanSettle` and
`Recoverable` are the conditions of `TaskRunExecutionFenceValidator.validate`,
`settleAttempt` and `recoverInterruptedAttempt`; `OwnsContinuation` is
`ownsContinuationLease`.

What the Supervisor decides is a choice over the actions its code can return. A
prompt may return, throw, ask for input, call tools, or never end.

Abstractions and their reasons:

- Database writes succeed. A failing SQLite write ends in the same places as the
  crash that the model allows everywhere.
- User commands arrive while the process serves. HTTP is closed after in-flight
  requests, before the runtimes are.
- A resume that waits for the old executor is modelled at the moment its wait
  ends; until then it has written nothing.
- Synchronous preparation of a launch is two adjacent steps of the asynchronous
  one.
- The runtime factory's asynchronous disposal after a failed launch has no
  durable effect and is left out.
- The approvals of external actions are in `SessionInbox`. The deferred first
  recovery of an activation candidate belongs to the Host and is left out.
- Messages, prompts, transcripts and checkpoints are left out.

### HostActivation: state

`current` and `file` are what survives on disk: the release link and
`activation.json`. `reqs` and `fence` are what survives in the database: the
accepted activation operations with their terminal events, and the writer fence.
`gens` holds every Generation process ever forked with its session object in the
Host: how far it is (`spawned`, `locked`, `ready`, `dead`), the flags
`managedExit` and `unexpectedExitReported`, the fence of its READY message, the
messages on their way to it and from it, and whether it hangs, was told to end or
has lost its parent. The other variables are the fields of `CoreHost`, and one
record for each task that awaits something: `start`, the activation `act`, the
`restart` task, the crash records in `exits` and `closing`. A task that awaits a
write keeps the object it passed to the store in `snap`; `state` may have moved on
when the write lands.

### HostActivation: actions

The Host is one event loop, so an action is a segment between two awaits, with the
write it waited for. The segments of `activate` and `rollback` are in the order of
the code; each has the outcome of its await (lands, or throws before or after the
rename), and `Caught` and `RollbackThrows` are the two catch blocks. `startRelease`
is awaited by three tasks: `Readied` is its success, `RefuseReady` the kill in its
catch block, and the caller's failure branch waits for the exit. A process may
exit, hang or lose its parent at every point. Requests, answers and READY are
messages; those to a dead process are lost.

Abstractions and their reasons:

- A crash timestamp counts until it leaves the window, which may happen whenever
  the code filters (`Recent`). It does not while a process that lost its parent
  still lives: the window is minutes, the grace of such a process seconds.
- `drain` sends DRAIN, then SIGTERM, then SIGKILL: in the model the process is told
  to end, and ends. A heartbeat re-arms a deadline; only the expiry of a silent
  process is a step.
- READY and the redispatch that the Generation schedules with it are one action.
  The Host may handle that ACTIVATE before `startRelease` has resumed, since the
  session passes it on once READY was read (host-generation-session.ts:174). The
  history variable `early` remembers that an activation began so; an early
  activation counts among the events that `MaxEvents` bounds.
- Error texts are left out, except that the answer to a request that does not match
  its own record carries another text than the record (`identity_conflict`).
- `Boot` is the instance lock: a process fails while another one holds it. The
  writer fence grows when READY is sent.
- IPC parsing, HOST_STATUS and the unmanaged development release are left out;
  `handleDetachedActivationFailure` is not reachable in the model, whose awaits
  throw only where the code catches.

### WriterFence

A member of `Proc` is one life of a process. `lock` and `marker` are the two
files: absent, torn (created and still empty) or naming their creator; `lease` is
the row with its fence. `boot[p]` follows `bootstrapCore` step by step: create the
lock, judge a foreign one, take the marker, unlink by path, claim the lease,
install the guard, open the store, initialize, become ready; then the stages of a
heartbeat, the ordered close and the exit. Time is abstract: `stale[p]` says that
a heartbeat is too old, `lease.expired` that the row is. A lease expires only
after its owner's heartbeat went stale. `hijacked` is a history variable: an unlink
by path hit the file of a live process. File-system and process probes are taken
to answer correctly when they answer.

### SessionInbox and TaskPolicy

An item and the TaskRun made from it share a name. A submission is a handler that
reads the running TaskRun, awaits the Router, and then writes; the Router's answer
is a free choice of the dispositions its schema admits. Operator commands, claims,
launches, immediate and parallel starts, launch retries, approvals, continuations,
shutdown, crash and startup are actions. The dispatch of the queue is a flag set
where the code calls `setImmediate`, and only there: the paths that do not dispatch
are in the model. Two history variables: `chosen`, what a person decided to start
beside another TaskRun, and `stalled`, what a path leaves queued on purpose. The
runtime of any Attempt, a continued or approved one too, may fail to be built, and
its TaskRun can then be launched again by a person; that retry asks the mode of the
contract alone, and `retried` names the Attempt it made. `TaskPolicy` reduces the
text of a request to what the regular expressions find in it. `PolicyFloors`,
assumed in `MCSessionInbox` and therefore evaluated by TLC, says for every policy
and every request that the floors hold and that the Router cannot lower them.

### PiRuntime and ControlInbox

`pc` is the await at which `executeQuery` stands; `turn`, `stopped` and `queue` are
the harness, a library, of which the model assumes what the header of the module
lists. Provider failures, `Retry-After` windows, fallback models, overflow and
threshold compaction, user-input pauses and abort are actions; whether a context
is over budget is a free choice wherever the code estimates it. The code flushes
the first deferred steer in the same synchronous step as the start of a turn; the
model allows it later too. `ControlInbox` adds the rows, the detached delivery
task, the fence under which the outcome is recorded, the next Attempt and the
restart.

### ToolReceipts, ShellPolicy and EffectLedger

A call is announced, claims its operation, is guarded, dispatched and settled; its
process tree lives on its own and its effect lands at some moment while it lives,
also after the Core that started it died. The same call id may come again. Faults
are aborts, lost leases, expiries and restarts. `check` is one required row of
`run_checks`, registered on a receipt. `EffectLedger` says what a receipt
promises, without leases, processes or restarts; `EffectsAreLedgered` states that
the pipeline implements it, under the mapping in `Ledger`. The contract has a mode
other than `external_action`, and one Attempt runs at a time.

### WorkspaceGoals

Goals with their definitions and Roadmaps, the Inbox rows and TaskRuns of items,
decisions by revision, outcomes, harvested evidence and verdicts. An outcome is
recorded by the reaction that ends a TaskRun and again by startup, so it may be
late or repeated. Startup follows `recoverSessionInbox` step by step: `StartCore`
begins the transaction of `reconcileRunState`, which keeps the database as it sees
it in `mem.recovery.tx`; `AttachMissing` and `ReplayOutcome` take one TaskRun each;
`ReconcileCommits` stores the result, and `AdvanceReconciled` lets automatic
progression follow, TaskRun by TaskRun. A crash loses the transaction before the
commit and the rest of the progression after it. Evidence is a set of rows, each
with the time of its last update, of which the latest that is not stale decides; the
history `heard` keeps the rows as they were first recorded. All criteria are
required; a generation has one request id; the
Inbox may start its rows in any order; evidence is stale exactly when a newer
Attempt exists. `Budgets` bounds the disturbances of a behaviour (revisions,
decisions, cancellations, retries, resumes, crashes) as alternatives, each with
its own budget.

### EventStream and LiveSync

What the journal will hold is a script; events are named by their sequence numbers,
and their kinds follow the public projection (event-mappers.ts:53-79): a kind has a
public type of its own, or reaches the client as `diagnostic.internal`, or is never
published. `StartContinuation` journals `continuation.started` and `context.loaded`
and publishes the second one first, and where the continuation cannot be prepared
the first one not at all. A connection is in replay up to a watermark while
published events collect in a buffer, then live; `Limit` bounds buffer and pump and
`Window` the frames in flight, and the overflow paths are modelled. A generation is
only ever compared with the cursor's, so its holder keeps a flag, `newest`. The
console loads a snapshot, claims the consumer, handles events, with awaits only
where a TaskRun was blocked or ended, acknowledges, polls every five seconds when
the stream is not healthy (`health`: none, fresh or aged) and the page is attentive.
A read of the Core finds the TaskRun as it was at some moment between request and
answer. The branches of the console for `run.updated`, `transcript.updated`, the
continuation and `run.waiting_for_input` match no public type, so what they would
refresh is left to the poll. The sequence number of a checkpoint is nondeterministic
within what the code allows. `Disturbances` bounds failures, losses of attention and
re-entries.

### SkillCenter, OperationReceipts and SkillConsole

A bundle stands for its content hash. Uploads and edits are handlers over several
awaits (read, validate, publish to disk, commit); every mutation is bound to an
idempotency key and a revision and may be delivered again at any time. Keys are
fresh random ids, so the next unused one stands for any. `OperationReceipts` adds
the claim, effect and settlement of operations and commands, a second opener of the
database, and restarts. A command whose service throws is answered with the failure
whatever its receipt says; an operation that throws, or refuses, with what its
receipt says. `effects` and `told` are history. `SkillConsole` adds one tab: the
authority token, refreshes in progress, the mutation behind `busyRef` and the
revisions the API client remembers. The limit of 32 references of a Workspace is
left out; the limits on archives are constants.

### SupervisorAudit

One TaskRun over several Attempts; an Attempt has at most one tool operation, the
TaskRun at most one required check, and a verdict cites the same evidence for
every criterion it finds covered. A candidate is delivered whole, incomplete or
cut. The review awaits a judge that answers in any shape, fails over or is out;
meanwhile the TaskRun may be cancelled, receive a control, or see an acceptance
expire. `gates`, `decision` and `accepted` are the rows; `verdict` is history: what
judged the current candidate. A plan is absent, open or done; the keys of failures
are merged into the classes the algebra tells apart. Artifacts, memory, the
coverage of Goals and the selectors of quotes are left out, and so are the
steering instructions of `reviewCheckpoint`.

## Runs

| Run | Configuration | Result |
| --- | --- | --- |
| `lifecycle` | `TaskRunLifecycle.cfg`; 86,260 states | holds |
| `host_activation` | `HostActivation.cfg`; 426,668 states | holds |
| `writer_safety` | `WriterFence_safety.cfg` | holds |
| `writer_liveness` | `WriterFence_liveness.cfg` | holds |
| `inbox_safety` | `SessionInbox_safety.cfg`; 1,389,402 states | holds |
| `control_runtime` | `ControlInbox_runtime.cfg` | holds |
| `tool_receipts` | `ToolReceipts_safety.cfg` | holds |
| `workspace_goals` | `WorkspaceGoals_safety.cfg`; 667,608 states | holds |
| `live_sync` | `LiveSync_safety.cfg`; 614,644 states | holds |
| `skill_center` | `SkillConsole_safety.cfg`; 1,522,382 states | holds |
| `supervisor_audit` | `SupervisorAudit_safety.cfg`; 203,668 states | holds |
| `lifecycle_settling_crash` | `TaskRunLifecycle_settling_crash.cfg` | violated |

Further configurations, for use by hand. They show disagreements between the code
and what the repository says of it (see Findings). The first one has three
invariants: run it with TLC's `-continue` to see each of them violated.

| Configuration | Property | Result |
| --- | --- | --- |
| `TaskRunLifecycle_claims.cfg` | `AmbiguityAwaitsHuman`, `ApprovalStopsExecution`, `CompletedAttemptIsFinal` | violated |
| `HostActivation_parallel_restart.cfg` | `NoParallelRestart` | violated |
| `HostActivation_recovered_result.cfg` | `SucceededRunsTarget` | violated |
| `HostActivation_exact_replay.cfg` | `ReplayIsExact` | violated |
| `WriterFence_host_heartbeat.cfg` | `HostHeartbeatsAreFenced` | violated |
| `WriterFence_torn_lock.cfg` | `CrashNeverPreventsStartup` | violated |
| `WriterFence_unfenced_open.cfg` | `OnlyTheFencedMutates` | violated |
| `SessionInbox_retry.cfg` | `RetryAwaitsApproval` | violated |
| `LiveSync_recovery.cfg` | `ContentEventuallyCurrent` | violated |
| `SkillConsole_edit.cfg` | `EditTakesEffect` | violated |
| `SupervisorAudit_expiry.cfg` | `AcceptancesAreActive` | violated |

Deadlock is checked in `WriterFence`, whose final states stutter explicitly. It is
not checked elsewhere: a system whose TaskRuns have ended, or a Host that was
closed, may stop, and so may a model at one of its bounds.

### lifecycle

`RunningIffActive` (the two projections of "executes" agree after every
transaction), `DeliveryAuthorized` (acceptance needs an executed verdict of the
current Attempt), `NoOrphanedRun` (a serving process can always end a running
TaskRun), `OldAttemptsFrozen` (superseded Attempts are history),
`TerminalIsFinal`, `RunEventuallyRests` (a TaskRun that runs in a process that
stays up comes to rest) and `ContinuationEventuallyStarts`.

Bounds. One TaskRun: the guards between TaskRuns of a Session are in the model
(`SessionFree`, `Claimable`) but an instance with two of them exceeds TLC's reach
at this granularity, and the properties are about one TaskRun at a time; the
exclusion between TaskRuns is checked in `SessionInbox`, and the proofs cover any
set of TaskRuns. Two Attempts are a first one and its continuation or resume while
the first one's callbacks are pending; one continuation and one crash recovery
reach both limits; three process generations allow a crash or shutdown at every
point, twice. The theorems lift these bounds for every safety property of the run.
`MaxAttempts` and `MaxGenerations` bound the model only, the other two
are configuration values of the code.

Fairness (`FairSpec`). Weakly fair are: preparations, which have their own time
limit; promise reactions; disposers, which end or fail; the lease heartbeat, the
hard timer and the recovery timer, which are Node.js timers. An executor whose
Attempt is no longer current ends, because its runtime was aborted and the
reviewer's stream has an idle timeout of its own. No fairness is assumed of a
prompt, an initialization or a review of a current Attempt: that the TaskRun rests
nevertheless is the point of `RunEventuallyRests`. A crash or shutdown is never
owed; the liveness properties allow for a process that is not up.
`ContinuationEventuallyStarts` leaves out a TaskRun whose runtime could not be
disposed (`retained`), which the code deliberately never starts again in the same
process.

### host_activation

`AtMostOneGeneration` (four tasks fork, each after an await),
`IdleHostSupervises` (no order of exits and failures leaves the service dead or
unwatched), `OneAnswer` (no answer contradicts another one or the recorded event in
status or release), `CloseLeavesNoChild`, `RequestEventuallyAnswered` and
`StoppedHostEnds`. The run contains activations that begin before `startRelease` has
resumed. The four safety properties are about histories without one, because the
code does not keep them otherwise (see Findings); the two liveness properties hold
with them too.

Bounds. Two releases let an activation change the release, repeat it, and roll back.
Two requests let one wait behind the other and be overtaken by a change of release.
`MaxFaults = 2` is a failure and one during the recovery from it; the fault may be a
crash, a hang, a failed verification or a failed write, before or after the rename.
`MaxEvents = 3` bounds requests, faults and early activations together: two requests
and a failure, or one and two. `MaxCrashes = 1` lets the budget be reached, and
`MaxHostStarts = 2` lets the Host crash or be closed anywhere and live again.
`MaxCrashes` is configuration of the code, the others bound the model.

Fairness: systemd restarts a Host that failed, promise reactions and timers of the
Host run, a message is delivered, SIGKILL ends a process, and a Generation that does
not hang goes on booting and reporting. Crashes, requests, SIGTERM and a start after
a clean stop are not fair. These steps are one weakly fair action, `Progress`: no
behaviour visits a state twice, so a step of the group that stays possible is taken
in the end.

### writer_safety, writer_liveness

`ReadyIsCurrent`: a process that reports ready owns the newest fence.
`NoOverlappingWriters`: while no unlink by path has hit a live owner's file, no two
processes can write. `Takeover`: a lone start after a crash that left whole files
gets the lease. `LostAuthorityCloses`: a process that lost its lease, its lock or
its heartbeat closes. The safety instance has a crashed holder of lock and lease, a
crashed recoverer of them and two processes that start; the liveness instance has
no recoverer. Fences are bounded by `MaxFence = 3`, one per life that can get one.

Fairness: a process that runs goes on running, and time passes. Nothing promises
that the file system answers the check of a lock, but then the heartbeat ages, and
that is noticed. Crashes and requests to close are never owed.

### inbox_safety

`StartsAlone`: a TaskRun starts beside another one of its Session only because a
person approved a parallel task or resumed, approved or answered this TaskRun.
`NoIdleBacklog`: no queued item waits in an idle Session without a wakeup on its
way, unless an operation that never dispatches let it go; `stalled` records these,
and the comment at the property lists them. `ExternalAwaitsApproval`: an external
Attempt runs only under an approval of that Attempt, whichever way it began, except
for the Attempt of a launch retry of a TaskRun that became external by a guarded
tool (see Findings). `SettledItemFrozen`: an item that left the queue is not changed
any more, also by an edit that was waiting for the Router. Two submissions of which
one adds a related objective, or a submission and a Roadmap item, two concurrent
callers (symmetric), two operator commands and one restart: every pair of await
windows can overlap.
The external request and the Roadmap item have up to three Attempts, so that one that
a guarded tool made external can be approved, fail and be launched again; the second
request has two, and the related objective one.

### control_runtime

`OutcomeIsTrue`: no control is handed to a harness twice, and a row that is queued or
rejected was never handed over. `SettlesEmpty`: a prompt that completes leaves no accepted
control behind. `AbortSettles`: an abort ends the prompt. A steer and a follow-up
control, with retries, with a fallback model, and with a second Attempt; capacity 2
reaches the limit, windows of 0 and 3 seconds lie on both sides of the budget.

Fairness: the event loop runs the continuations of `executeQuery` that are due, the
harness honours an abort or a refusal and ends a compaction. Nothing is assumed of
the provider, of a retry delay, or of callers.

### tool_receipts

`EffectsAreLedgered` is the refinement. `TrustedCheckIsCurrent`: a check the gate
trusts was not overtaken by a mutation that settled. `NoBlindRepeat`: a
shell command that failed is not run again unchanged as the next call, in this
Attempt or a later one. Four scripts mix reading,
writing and shell commands so that a check, a mutation and a repeated failure
meet; three call ids (symmetric), two Attempts, two faults.

### workspace_goals

`NewestRunOwnsItem`: an item shows its newest TaskRun, whatever is recorded late.
`NoAutomaticRetry`: an item admitted automatically has had no TaskRun yet, also when
startup replays the outcomes of all of them.
`ClosedOnLastVerdict`: a Goal closes only when the verdict recorded last for each
criterion, among those of current Attempts, is "covered". Two
Goals (symmetric), one criterion, Roadmaps of two items, three Inbox rows and
TaskRuns, and nine alternative budgets of disturbances.

### live_sync

`StreamIsGapless`: a connection delivers the public events in order, without a gap
from its base, although internal ones may arrive late or not at all.
`AckedWasHandled`: the durable cursor passes only public events that were handled.
`RunEventuallyCurrent`: a page that stays visible ends up showing the TaskRun as it
is, which for the kinds without a public type the poll alone brings about. Six
scripts with deltas, boundaries, waiting, end, resumption and continuations, prepared
or not; buffers of two, which hold the two events of a continuation and overflow with
a third; one disturbance.

Fairness: the server, the stream effect, handlers, polling, acknowledgements, the
ageing of health, loads and late claims go on. The journal, failures and the
attention of the user are not fair.

### skill_center

`OneEffectPerKey`, `OutcomesAgree` (clients, before and after a restart, are told
what the receipt of a key says; a command whose receipt a second opener swept and
whose service then threw may be told failed too, never success), `ShownSelectionIsHere` (the panel
shows the selection of its own Workspace) and `EditKeepsSupportingFiles` (an edit
keeps the files of the revision it was checked against). Five scenarios say which
keys the tab, another client and the operations use, and how often the Core
restarts; two handlers at a time are enough for an edit to be overtaken.

### supervisor_audit

`CompletionIsHonest`: under a strict gate the verdict on the delivered candidate found
each criterion covered, or unsupported or blocked with an acceptance on record; never
contradicted. `CompletedCandidateWasJudged`: a gated TaskRun completes only with a
candidate that a judge, or the comparison of a literal answer, has seen in this
Attempt. `FloorHolds`: strict work that needs a trusted check completes only with one
of this Attempt's own operations and with its plan done.
Two criteria, six contracts (gate profiles and policies), five remarks, two
Attempts, two acceptances. No fairness: the questions are safety.

## Findings

`PROJECT.json` lists the first one with its run. The others are shown by the
configurations run by hand, or, where none is named, were met while modelling and
follow from reading the lines; the models contain the behaviour.

Lifecycle:

- *Crash while settling* (`StartupInterruptPossible`). The Attempt row is `settling`
  from the recording of the candidate to its settlement, the whole Supervisor
  review. After a crash in that window `listInterruptibleSystemAttempts` throws at
  every start.
- *Approval* (`ApprovalStopsExecution`). docs/SUPERVISOR.md:105 says of
  `pause_for_approval` "do not auto-continue". The continuation lease is not read
  again after the review; if it expired meanwhile, settlement and approval request
  are committed, and the repair of the lease still requeues and runs the
  continuation (store.ts:1518).
- *Ambiguity* (`AmbiguityAwaitsHuman`). docs/PERSISTENCE_AND_RECOVERY.md:72: "Any
  ambiguity leaves the Run `interrupted` for human reconciliation." The safe crash
  recovery keeps to it; the repair of expired continuation leases, which follows
  it, does not look at `tool_attempts`.
- *Completed Attempt* (`CompletedAttemptIsFinal`). tests/attempt-domain.test.ts:38
  gives a completed Attempt no successor. The same repair rewrites the current
  Attempt to `blocked` without looking at its status (store.ts:1524).

Host:

- *Parallel restart* (`NoParallelRestart`). host.ts:335: a
  crash while release verification is in flight "must not start a parallel
  crash-restart loop". `startRelease` enables exit recovery one turn of the event
  loop after READY. An ACTIVATE handled in that turn has already taken the exit
  path for the activation; it is taken back, and the exit of the Generation is
  answered both by the restart task and by a rollback, which both fork. `active` then
  names the later child: `close()` stops that one and returns with the other alive,
  against docs/PERSISTENCE_AND_RECOVERY.md ("terminates any candidate that crossed
  close before returning"). In the same order `start()` may reconcile the record of an
  activation of `current` that is in flight and answer it succeeded before it fails.
  A restarted Generation sends READY and ACTIVATE back to back, so the order is an
  ordinary one. Drop `early` from the properties to see the behaviours.
- *Recovered result* (`SucceededRunsTarget`). docs/PERSISTENCE_AND_RECOVERY.md:89:
  `current` plus `activation.json` "deterministically decides whether the recovered
  result is committed or rolled back". `committed` is on disk before the candidate is
  checked for the last time. If it exits during that write, the rollback restores
  `current`; a crash of the Host before `rolled_back` is written leaves a terminal
  phase that no longer fits `current`, and the next Host repeats it.
- *Exact replay* (`ReplayIsExact`). tests/core-host.test.ts:669: "exactly replays the
  result". A request that fails before its target is resolved is recorded with the
  running release as target, and does not match its own record when it is repeated.
  The two error texts make two events, and the second one throws.

Writer authority:

- *Heartbeats without authority* (`HostHeartbeatsAreFenced`).
  docs/PERSISTENCE_AND_RECOVERY.md:37 speaks of "writer-fenced IPC heartbeats".
  `announceReady` sends the fence it had at READY whatever became of the lease; a
  Generation that lost its authority and closed keeps them going, because the IPC
  channel keeps the process alive, and the Host never replaces it.
- *Torn lock* (`CrashNeverPreventsStartup`). docs/PERSISTENCE_AND_RECOVERY.md:35: "a
  crash cannot permanently prevent startup". `writeLockFile` creates the file and
  writes it afterwards; a crash in between leaves an empty file that every later
  start rejects.
- *Unfenced open* (`OnlyTheFencedMutates`). README.md:98: "Only the active fenced
  Generation may mutate control-plane state". Marker and lock are unlinked by path
  after the last check, so an unlink can remove the file of a process that already
  runs; the second process then opens the store, which settles started receipts
  (store.ts:263) before any guard is installed.

Inbox and controls:

- *Retry* (`RetryAwaitsApproval`). docs/SUPERVISOR.md:31: a later Attempt "requires a
  fresh real approval", and Core pauses "instead of launching a retry that cannot
  inherit authority". A TaskRun that a guarded tool made external, was approved, and
  then failed to build its runtime is retryable (store.ts:1051-1060), and the retry
  asks only whether the contract's mode is external (admission-coordinator.ts:401).
- A TaskRun that a tool escalated to external action and that was answered is neither
  resumed nor paused by a repeated submission (user-input-submission.ts against
  external-action-resume-boundary.ts:57; docs/PERSISTENCE_AND_RECOVERY.md:45 calls
  the intermediate states recoverable). Two submissions of one key that race can mark an
  item as duplicate of itself (admission-coordinator.ts:130, docs/API_V1.md:222).
  `SubmittedInputRecoverable` and `DuplicateOfAnother` in `SessionInbox` state the
  two; add them to the configuration to see the behaviours.
- The answer to an external TaskRun that waits for input blocks it for its approval,
  which releases the queue of the Session, and nothing dispatches that queue
  (user-input-submission.ts:25-85). It takes two external TaskRuns, of which the
  earlier one is answered, so it lies beyond the bounds of `inbox_safety`; the proof
  of `NoIdleBacklog` failed on it. The property now names this operation among those
  that never dispatch.
- docs/RUNTIME.md:85 promises controls in FIFO order. A control can overtake deferred
  ones; a rejected delivery, or one whose prompt settled, ends the delivery task and
  leaves later rows queued until another control arrives
  (control-inbox-dispatcher.ts:107-128).

Tools:

- A check registered again on an old receipt is stored as not stale although a
  mutation lies between (`bindTrustedCheckEvidence`), against
  docs/PERSISTENCE_AND_RECOVERY.md:103 and docs/RELEASE_CHECKLIST.md:78.
  `TrustedCheckIsCurrent` is about mutations that land after the registration. The
  comment at shared.ts:303 says that verification commands "do not invalidate prior
  receipts"; code execution, which they are classified as, does.
- A lost fence leaves a receipt `running` until the next restart.

Goals: a retried launch of an old failed TaskRun runs an item that a newer one has
completed; a blocked TaskRun can be resumed after its Goal was revised or closed;
docs/WORKSPACE_GOALS.md:86 calls the newest evidence decisive, the code takes the one
recorded last, which may be of an older TaskRun.

Console and Skills:

- `startQueuedContinuation` publishes `continuation.started` after `context.loaded`,
  which has the higher sequence number (continuation-scheduler.ts:113-114). A live
  stream sends it late; one that drains its replay buffer drops it
  (event-routes.ts:175). It is internal for clients, so no public event is lost. The
  console has handlers for it and for other types that the public projection
  replaces (event-mappers.ts:57, 77); they are never called.
- A command whose receipt a second opener of the database swept, and whose service
  then throws, is reported failed (task-run-routes.ts:111), and outcome unknown when it
  is repeated.
- *Content* (`ContentEventuallyCurrent`). use-workspace-live-sync.ts:235: "polling
  provides eventual UI recovery". A handler that reads the TaskRun, the list and the
  conversation in parallel may find no active TaskRun and an older conversation; then
  the effect stops, every later poll returns before it reads the conversation, and
  the last turn is not shown until the Workspace is entered again. A load that reads
  the conversation before the TaskRun ends in the same state.
- *Edits* (`EditTakesEffect`). docs/SKILLS.md:25 against skill-repository.ts:39-48: an
  edit whose bundle equals an earlier revision's is committed without becoming the
  current one.
- A toggle made before the refresh that follows a re-entry uses the old selection
  (WorkspaceSkillsControl.tsx:58, 131). A background refresh moves the remembered
  revision while an editor is open, so its save is not refused (skill-api.ts:28-34).

Supervisor:

- *Expiry* (`AcceptancesAreActive`). docs/SUPERVISOR.md:128: expiry is evaluated when
  settlement or re-adjudication occurs. The algebra spreads the stored coverage
  (lines 59-66), and with it the mark an expired acceptance left there.
- docs/SUPERVISOR.md:31: "If settlement or a transient failure would otherwise require
  another Attempt, Core pauses". A pending control makes the decision
  `wait_for_runtime` before that step is reached, and a block with an older
  acceptance becomes `start_continuation` after it; the Continuation is queued and
  then cancelled (continuation-scheduler.ts:81-94).
- Acceptances given for criteria that were `blocked` by an outage of the judge persist.

Further hazards that no property states, with the lines where they bite: resume
cancels the queued continuation before the transition that may be refused
(run-context-service.ts:75); a preparation that always throws is retried without
bound (continuation-scheduler.ts:114); a crash between settlement and queueing after
`wait_for_runtime` (store.ts:1389); a timeout that finds an expired lease throws out
of the timer (attempt-executor.ts:60); the limit on continuations and crash
recoveries have two writers (continuation-scheduler.ts:60); a write of
`activation.json` can land after a later one (host-state-store.ts:125); a Roadmap
draft made for an older definition.

## Proofs

Eight modules hold theorems, each about the specification of one module (`AuthorityProofs`
of three), for every value of the constants that the named assumption of that module allows. The
assumptions say what the constants are: bounds are naturals (positive where an empty
budget would leave nothing to start), sets of names are finite where the code counts
them, `None` is not a row, a scenario draws on declared names, the items of a Roadmap
name criteria of some definition (`RoadmapsAssumption`). None restricts the
behaviour of the code, and TLC evaluates each of them in the run of its module. The
theorems so lift the bounds of the runs, and no fairness is needed.

| Module | Theorem | States |
| --- | --- | --- |
| `TaskRunLifecycleProofs` | `TypeCorrect` | `[]TypeOK` |
| | `RunningIffActiveHolds` | `[]RunningIffActive` |
| | `DeliveryAuthorizedHolds` | `[]DeliveryAuthorized` |
| | `NoOrphanedRunHolds` | `[]NoOrphanedRun` |
| | `TerminalIsFinalHolds`, `OldAttemptsFrozenHolds` | the action properties of these names |
| `AuthorityProofs` | `TypeCorrect` | `[]TypeOK` of `WriterFence` |
| | `ReadyWriterIsCurrent` | `[]ReadyIsCurrent` |
| | `WritersDoNotOverlap` | `[]NoOverlappingWriters` |
| | `FencesNeverRepeat`, `RowFenceOnlyGrows` | no two lives share a fence; the fence of the row never decreases |
| `HostProofs` | `HostTypeCorrect` | `[]HostTypeOK`, the types of `HostActivation` |
| | `HostHasOneChild` | `[]AtMostOneGeneration` |
| | `HostSupervisesWhenIdle` | `[]IdleHostSupervises` |
| | `ClosedHostHasNoChild` | the action property `CloseLeavesNoChild` |
| | `RequestsHaveOneAnswer` | `[]OneAnswer` |
| `SessionInboxProofs` | `QueueIsServed` | `[]NoIdleBacklog` |
| | `ExternalActionsAreApproved` | `[]ExternalAwaitsApproval` |
| | `TaskRunsStartAlone`, `SettledItemsStay` | the action properties `StartsAlone`, `SettledItemFrozen` |
| `ControlInboxProofs` | `OutcomesAreTrue` | `[]OutcomeIsTrue` |
| | `PromptsSettleEmpty` | `[]SettlesEmpty` |
| `ToolReceiptsProofs` | `PipelineImplementsLedger` | the refinement of `EffectLedger` |
| | `TrustedChecksAreCurrent` | `[]TrustedCheckIsCurrent` |
| | `FailedCommandsDoNotRepeat` | `[]NoBlindRepeat` |
| `LiveSyncProofs` | `StreamHasNoGap` | `[]StreamIsGapless` |
| | `CursorFollowsHandlers` | `[]AckedWasHandled` |
| `SkillConsoleProofs` | `EffectsLandOnce`, `ClientsAreToldTheSame` | `[]OneEffectPerKey`, `[]OutcomesAgree` |
| | `ShownSelectionBelongsHere` | `[]ShownSelectionIsHere` |
| | `EditsKeepSupportingFiles` | the action property `EditKeepsSupportingFiles` |
| `AuthorityProofs` | `CompletionsAreHonest` | `[]CompletionIsHonest` |
| | `CompletedCandidatesWereJudged` | `[]CompletedCandidateWasJudged` |
| | `DeterministicFloor` | `[]FloorHolds` |
| | `NewestOwnsItem` | `[]NewestRunOwnsItem` |
| | `ProgressionNeverRetries`, `GoalsCloseOnLastVerdict` | the action properties `NoAutomaticRetry`, `ClosedOnLastVerdict` |

The arguments, and why each inductive invariant is needed:

- `TaskRunLifecycle`. A lemma per row update gives its type. A step does one of three
  things to the row of a TaskRun and its Attempts (`RowStep`): it keeps them, rewrites
  run and current Attempt in agreement, or starts the next Attempt while none is
  active; `RunningIffActive` and `TerminalIsFinal` follow. `DeliveryAuthorized` is not
  inductive: recording a decision must not overwrite the one that delivered the
  response. `VerdictInv` adds that an Attempt has no decision while its executor
  prepares or works, nor before it exists. `OldAttemptsFrozen` needs that a step
  writes at most the Candidate of the current Attempt (`CandidateStep`).
  `NoOrphanedRun` says that a running TaskRun of a serving process has an executor
  that prepares or rows that can be recovered. It is not inductive: `Launch` takes a
  lease for version 1 of the Attempt, and an executor that loses a continuation's
  lease gives up the row it claimed. `Served` therefore adds that a preparing Attempt
  has version 1, that executor and row speak of the same Attempt, and that a
  continuing executor still has its row; `ServiceInv` says where in the life of the
  process it holds, and that nothing runs between the points of startup.
- `WriterFence`. `Protected` is the heart: a process past the installation of the
  guard, whose heartbeat is in time and whose close has not begun, is current. A
  takeover is possible only of an expired lease, and a lease expires only after its
  owner's heartbeat is late. `EarlyInv` (nothing is held before the lease is claimed),
  `FenceInv` and `ReadyInv` (ready implies running and not closing) carry it to
  `ReadyIsCurrent`. For `NoOverlappingWriters`, `LockInv` says that, until an unlink by
  path hits a live process's file, whoever came past the lock and has not closed holds
  it. The same module shows that no fence is handed out twice, whatever happened to the
  lock.
- `HostActivation`. `AtMostOneGeneration` is far from inductive: five tasks hold
  sessions across awaits. `SupInv` says what children there are by where the tasks
  are. A Host that was not stopped has one task at most between two sessions, and the
  session it waits for is the only child (`Held`), with its exit owned by the task;
  without a task the active session is ready, watched, and its exit is reported
  (`Serving`); between the report and the fork of a restart there is no child. A
  stopped Host forks nothing, and what `close()` awaits covers what still runs: the
  session it stopped, the candidate a rollback waits for, or `fatal` ends the
  process. Without a Host, what runs has lost its parent. Steps of processes and
  timers are `Calm`: they make no child and change no owner. All of it
  is under `~early`: an ACTIVATE taken from a session whose `startRelease` has not
  resumed leaves the exit to two owners, and TLC has the counterexample. What these
  four properties say is therefore about the histories without such an activation.
- `HostActivation`, the answers. `OneAnswer` relates messages, database and file
  across lives of the Host. `AnsInv` says of each place an answer can be read from
  that it may be told (`Word`): a record in a terminal phase agrees with everything
  that was told of its request, one in flight has a request nobody was told about.
  These places are `activation.json`, the Host's record, the snapshot a recovery
  reconciles and those of crash records on their way to the file. Four facts carry
  it. The instance lock leaves one session with mail on the wire (`OneLock`), and
  what it has there is one request or one answer (`Sound`). Requests are answered
  in order (`Past`), so that the file, when it lags behind, names a settled request.
  While an activation runs its request is unknown to everybody (`Unsaid`), and the
  session that will be told waits for it (`Waiting`); a record written under another
  identity than its request's says `failed`, under the release that runs (`Fits`).
  A step of a session tells nobody anything unless it delivers (`Fades`, `Heard`),
  one of the activation is `ActStep`, and an answer is `ToldAns`. `SupInv` is used
  where a step could cross another task.
- `SessionInbox`. The operations are functions from tables to tables, and the proof
  follows them: `Step(s, t, X)` says what an operation keeps that turns `s` into `t`
  and starts at most the TaskRuns in `X`; `Woken(t)` what a dispatch, or an operation
  that admits it makes none, leaves. `InboxInv` holds the shapes and both state
  invariants; the action properties come with it. For a retry, the Attempt it makes
  is the one the exception names, until the next Attempt begins.
- `ControlInbox` with `PiRuntime`. A control is in one place: its row, the call of the
  delivery task, the deferred list or the harness (`HandInv`). All steps but the
  dispatcher's only move controls forward, which is shown once. `SettleInv` says why
  the one ending that leaves late controls behind, the abort of a TaskRun that waits
  for input, is never the clean one.
- `ToolReceipts`. `ReceiptInv` relates the receipt of an operation, its process tree,
  the number of times its effect landed, and the body that executes it. With it each
  action is one step of `EffectLedger` or leaves the ledger alone. `OvertakenInv` says
  of every mutation since the registration of a check what `TrustedCheckIsCurrent`
  says when the gate looks. `NoBlindRepeat` looks at two rows and what lies between
  them, and is not inductive: a command that is still running could fail after its
  repeat was claimed. `RepeatInv` therefore says that a command that can still fail is
  the newest row, so nothing follows a failure the guard has not seen, and that the
  repeat of a failed command is itself a failed row, of a call that was blocked, so the
  guard sees the failure again.
- `LiveSync` with `EventStream`. `StreamInv` adds to the delivered frames what is
  still to be written: the replay buffer continues at the high watermark, the pump
  continues the frames, what neither holds is not public. The two events that
  `StartContinuation` publishes in reverse are shown to leave this so, because neither
  is public. `CursorInv` follows an event
  from the frame to the cursor: what is scheduled, on its way or durable was handled
  with everything before it.
- `SkillConsole` with `OperationReceipts`. An effect is owed or has landed, never both
  (`OwedInv`); what a client was told is what the receipt says now, the
  failure of a swept command excepted (`ToldInv`); a
  refresh or mutation whose authority is current belongs to the Workspace shown
  (`AuthorityInv`). For `EditKeepsSupportingFiles`, `EditInv` says that every revision
  somebody expects (a request, a handler, the client's cache, a page on its way to the
  tab, the value in a receipt) was read from the catalog and is not ahead of it, and
  that an edit whose revision is still current holds the current supporting files. The
  first half is what makes the second one survive a commit: revisions only grow
  (`DbGrows`), ids are not reused, so an edit that was overtaken never becomes current
  again. It rests on the assumption that no key is used both by the tab and by
  another client; both draw random ids.
- `SupervisorAudit`. First what the completion algebra does: it completes only when no
  failure is left, forgives contract failures alone, and marks only what an active
  acceptance names. `AuditInv` adds the memory between Attempts: a blocked TaskRun
  that an acceptance may still complete keeps in its stored gates a failure nobody can
  forgive, or the verdict on its own candidate.
- `WorkspaceGoals`, the owners. `NewestRunOwnsItem` is not inductive: a late outcome
  must find that a newer TaskRun owns the item, and that needs the links, the Inbox and
  the TaskRuns to agree. `DatabaseOK` says that what was approved, done and linked is
  about items that exist, that links name TaskRuns, and that the TaskRun an item names
  is the one of its newest link, so each method of the repository can be taken alone.
  `persistRunLinkAndSnapshot` appends the link that is newest from then on and names
  its TaskRun; `recordRunOutcome` never changes an owner, because a writer that finds
  no newer owner is the owner already; a new Roadmap has untouched items and no links.
  `OwnershipInv` adds the transaction of `reconcileRunState`: what it sees is in order
  too, and it leaves the Inbox as committed. `OwnershipStep` says with it
  that a step admits by itself only items without a link, which is `NoAutomaticRetry`.
- `WorkspaceGoals`, closing. An Attempt is harvested once, so evidence rows are added
  and never rewritten (`Onward`). `ClosingInv` says that
  the evidence so is the history of what was heard, and that what a transaction of
  startup sees was reached `Onward` from the committed database, whose commit
  therefore forgets nothing. A closing Goal is judged by the row updated last, which is
  what was heard last.

Some definitions were rewritten, without a change of meaning, so that the provers can
follow them: the completion algebra of `SupervisorAudit` and the dispatch choices of
`ControlInbox` and `SessionInbox` are named operators instead of nested LET and CHOOSE;
the streak of failures in `ToolReceipts` is counted on the rows and not on a
filtered copy; a table of `SkillCenter` gets its new row from `With`; the startup of
`WorkspaceGoals` takes a step per TaskRun where it was a fold over all of them.

Every invariant and every action property of the passing runs is so proved. Out of the
prover's reach, and left to TLC: the liveness properties, which need fairness
and ENABLED; what recursive definitions compute for every input, which needs induction
over data; and RECURSIVE operators, which no module with a theorem, nor any module it
uses, declares.

## Not modelled

- Memory: capture, consolidation and recall behind a job queue and a model. The
  modelled parts see only the text it adds to a context; the receipts of its
  operator commands are in `OperationReceipts`.
- HTTP transport and ABI schemas: parsing and routing without state. Routes whose
  order of reads and writes matters are part of the module of the state they touch.
- The other panels of the console, which render what they are given.
- Goal operation receipts (the protocol of `OperationReceipts` in another table),
  optional criteria, and the prompts that draft a Roadmap.
- The Supervisor's interventions during a prompt (`reviewCheckpoint`) and the
  selectors of evidence quotes.
- IPC parsing, HOST_STATUS, the unmanaged development release, and the Continuation
  that `prepareGenerationHandoff` writes.
- Model configuration, token accounting, file and process I/O of a tool beyond
  whether its effect lands, and the text of messages, prompts and transcripts.

## Plan

1. `MemoryJobs`: the capture and reindex jobs with leases and retries.
2. The hand-off Continuation, composed with `TaskRunLifecycle` and `HostActivation`.
3. The checkpoint interventions, composed with `PiRuntime`.
