# A TLA+ verification of Backflow

Backflow runs coding agents in containers. A Go server keeps tasks in Postgres,
an orchestrator goroutine polls them, starts an agent container for each and
watches it until it ends, and an HTTP API, Discord and SMS create, cancel and
retry tasks meanwhile. This directory models the parts of the server where
those actors meet, checks the models with TLC and proves part of what the runs
check with TLAPS.

All paths below are relative to the repository's root, and Go paths without a
directory are in `internal/orchestrator/`.

## 1. Inventory

| Component | State | Operations | Where |
|---|---|---|---|
| Task and instance tables | rows in Postgres | one SQL statement each; every `UPDATE` selects by id only | `internal/store/postgres.go`, `internal/models` |
| Orchestrator | `running`, `inspectFailures` in memory | `tick`: CheckInterruptions, monitorCancelled, monitorRecovering, monitorRunning, dispatchPending, Evaluate; `recoverOnStartup` | `orchestrator.go`, `dispatch.go`, `monitor.go`, `recovery.go` |
| Task API | none of its own | create, cancel, delete, retry: a read, a check, a write | `internal/api/handlers.go`, `task_actions.go` |
| EC2 scaler, spot handler | instance rows, `idleSince` | RequestScaleUp, reconcilePending, reconcileRunning, scaleDown, CheckInterruptions | `ec2/scaler.go`, `ec2/spot.go` |
| Container runners | containers | RunAgent, InspectContainer, StopContainer, GetAgentOutput | `docker/`, `fargate/` |
| Event bus | channel, `closed`, `emitMu`, `closeOnce`, `subs` | Emit, Subscribe, Close, CloseWithTimeout, deliver | `internal/notify/bus.go` |
| Notifiers | Discord threads | webhook with retries, SMS, Discord thread per task | `internal/notify/{webhook,messaging,discord}.go` |
| Readings pipeline | readings | duplicate check, embedding, upsert | `monitor.go`, `internal/embeddings` |
| Authentication | API keys, a cached "any key exists" | bearer token, keys with scopes and expiry, restriction of the API | `internal/api/auth.go`, `server.go` |
| Task creation | none | validation, defaults | `internal/api/task_creator.go`, `internal/config` |
| Discord commands, inbound SMS | configured roles, sender table | create, cancel, retry tasks | `internal/discord`, `internal/messaging` |
| Server process | none | start order, shutdown order, crash | `cmd/backflow/main.go` |
| Migration tool, S3, statistics, agent images | | | `cmd/migrate-to-postgres`, `s3/`, `internal/debug`, `docker/` |

How they interact. The orchestrator and the API share only the tables: there
is no lock and, but for `StartTask` with `IncrementRunningContainers`, no
transaction between them. A row read by one is written by the other before the
first has written it back. The orchestrator counts slots twice, in memory
(`Orchestrator.running`) and in the table (`running_containers`), and both are
rebuilt by recovery. The scaler is called by the orchestrator's goroutine (from
dispatch, from requeueing and at the end of a tick), and it alone writes
instance rows besides the orchestrator. Both emit events on the bus, which one
goroutine delivers to the notifiers.

What is hard. API writes landing between two statements of the orchestrator;
slots released on six paths; a crash between launching a container and
recording it; a recovery that works from three lists taken one after another
while the API is already serving; interrupted containers and hosts; inspect
calls that fail now and then; statements that fail in the middle of a sequence
whose other statements succeed; channel, lock and `Once` of the bus against
each other. `PROJECT.json` lists these hazards at their lines.

What makes each part correct:

- store and orchestrator: slot counters match the tasks that hold slots; no
  slot leaks; dispatch stays within the limit and takes the oldest first; a
  task is launched again only for a reason; one agent per task and none
  forgotten; the status follows the lifecycle; cancelled tasks are stopped and
  cleaned up; failed ones become retryable; every task ends;
- API: retries go through once per cleanup and within the cap;
- scaler: never more instances than the limit; a host in use is not taken down,
  an idle one is; no host runs that no row names, but for a fault that parts
  them; nothing that dies or fails keeps a task waiting for a host for good;
- bus: no panic, closing is final, subscribers get every accepted event once
  and in order, `Emit` and `CloseWithTimeout` always return;
- notifiers: one Discord thread per task, and messages whose last one tells how
  the task ended and offers the retry it may have, no earlier than cleanup;
- readings: no reader is started for a known URL, a completed read task has its
  reading and a failed one none, and nothing replaces a summary by less;
- task creation: whatever the door and however the server has been restarted
  since, a container gets what the request asked for, a read task runs
  equipped in its own image, and dispatch refuses what was accepted only for
  cause;
- authentication: a request is carried out, or turned away, only for a cause
  that was true while it was under way, or no longer ago than the cache may
  remember.

## 2. Plan

Done, in this order:

1. `TaskStore`: the tables and a statement per operator.
2. `Orchestrator`: the orchestrator's goroutine, the API's writes, the
   containers and the environment. `OrchestratorProperties` states what it
   should guarantee, with the abstract specifications `SlotPool`, `RetryBudget`
   and `TaskLifecycle`.
3. Proofs: `OrchestratorProofs`.
4. `EventBus`, `EventBusProperties`, `EventLog`, `EventBusProofs`.

5. `ReadPipeline` and `ReadProofs`: the duplicate check at dispatch against the
   upsert at completion, with readers, cancels, retries and deletions between.
6. `Announcements` and `AnnouncementProofs`: events, bus, the Discord notifier's
   threads and the Retry button, for one task.
7. `Intake` and `IntakeProofs`: settings, doors, validation, defaults, the
   environment of a container.

8. `Ec2Scaler` and `ScalerProofs`: every call to EC2 and every statement of the
   scaler apart, so that crashes and failing calls come between a host and its
   row. `Orchestrator` keeps the scaler in two steps, with tasks and containers
   in full.
9. `Access` and `AccessProofs`: tokens, keys, scopes and the cached "any key
   exists" against a table that people edit by hand; roles and senders.

10. `TaskProofs`: launches, lifecycle, agents, the slots of instances,
    scale-down, the account of `o.running` and the order of dispatch, whose
    invariants describe every stale row of every loop.

To come:

11. `Delivery`: the three attempts of the webhook notifier and the SMS notifier
    as subscribers of the bus.

## 3. Modules

| Module | Models | Correspondence |
|---|---|---|
| `TaskStore` | `postgres.go` on tasks and instances | a table is a function from ids to rows; a statement is an operator from a table to a table. A row keeps status, instance, container, "started_at is set", ready_for_retry, user_retry_count. Ids are in created_at order |
| `Orchestrator` | the orchestrator, API writes, runner and cloud behaviour | `phase` is the loop of the tick, `pc` the place in it, `todo` and `snap` the list it took, `running` and `failures` the fields of the struct. `req` is what a handler decided to write. `ctr` is every container launched so far |
| `OrchestratorProperties` | its properties and invariant | |
| `SlotPool` | what `running` promises | a slot is taken only when one is free |
| `RetryBudget` | what ready_for_retry and user_retry_count promise | a gate, opened by the orchestrator, shut by each retry, at most the cap |
| `TaskLifecycle` | the life of a task nobody cancels | edges of the status as the code takes them, which are not those of docs/schema.md:146 (section 7) |
| `EventBus` | `bus.go` | a goroutine is a program counter, emitMu is the set of goroutines at certain labels, the channel is a sequence with a flag |
| `EventBusProperties` | its properties and invariant | |
| `EventLog` | what the bus promises | a log, and for each subscriber a contiguous piece of it |
| `ReadPipeline` | read tasks: `dispatch`'s duplicate check, the reader container, `handleReadingCompletion`, `UpsertReading`, cancels with `monitorCancelled`, retries, deletions with their cascade | `task` and `readings` are the tables, `agent` the container and the report it will leave, `requests` what handlers have checked and are about to write, `pc` and `cur` what the orchestrator does for which task, `seen` and `result` its local variables. `undone` is history: the tasks cancelled after they had completed. A reading is its URL, its task, and whether a page, a stub or nothing was read |
| `Announcements` | the `bus.Emit` calls beside their statements, a bounded bus, `notify/discord.go` | `orch` and `req` are what the orchestrator and a handler have still to do, `notifier` is the place in `Notify`, `thread` the row of discord_task_threads, `threads` counts the threads at Discord, `told` is the last message |
| `Intake` | `config.Load`, the four doors, `Validate`, `TaskDefaults.Apply`, the tests of `dispatch`, `buildEnvFlags` and `buildECSEnvVars`, the first tests of the entrypoints | `settings` are those of the running server, `task` the row, `container` what the runner built from it. `promised` and `changed` are history: what the task was accepted with, and whether the server has been restarted with other settings since |
| `Ec2Scaler` | `ec2/scaler.go`, `ec2/spot.go`, `ec2/ec2.go`, and what a tick does to instance rows | `row` is the instances table, `host` what EC2 knows; `pc`, `todo` and `hand` are the place in the tick, its list, and the host whose row comes next; a row is `old` once five minutes have passed since it was written. `waiting` stands for the pending tasks, a row's count for the agents on it. `faults` counts what has gone wrong, by what it may part |
| `Access` | `api/auth.go`, `blockPublicAccess`, `hasPermission`, `GetAllowedSender` | `keys` and `sender` are the tables, `cache` the two variables under `cacheMu`, `req` the requests in flight with the label each has reached. `since` and a request's `was` are history: how long ago the table was empty, and whether the credential was good since the request came |
| `OrchestratorProofs`, `TaskProofs`, `EventBusProofs`, `ReadProofs`, `AnnouncementProofs`, `IntakeProofs`, `ScalerProofs`, `AccessProofs` | theorems, section 5 | |
| `MCOrchestrator`, `MCEventBus`, `MCReadPipeline`, `MCIntake`, `MCAccess` | instances for TLC | model values, symmetry, the environments of `Intake`, the settings of `Access` |

`PROJECT.json`'s `map` gives the source lines of every definition.

Operators with a suffix after an underscore (`OldestFirst_OneMore`) are
deliberate faults: variants of the operator after them, used by no
specification. Each shows that a property fails if the code had that bug.

### Atomicity

An action of `Orchestrator` ends at the next statement on the tasks table, at
the next container call that a crash may separate from a statement, or at a
list. Between two actions a request, a crash, an exiting container or another
loop may come. What is put together, and why nothing is lost:

- An inspect call goes with the statement that follows it. The result cannot
  become stale for the statement in a way the model lacks: a container that
  exits right after it was seen alive is seen alive by an earlier action too,
  and the requests that could come between write the row in a separate step on
  either side.
- A statement on an instance row goes with the memory update beside it. Only
  the orchestrator's goroutine writes instance rows, so nobody can look between.
- `Restart` (schema migration, the loss of memory, the synthetic instance's
  reset), `RebuildCounters` and `Evaluate` are single steps whose statements do
  not fail. The scaler's launch and insert are one step.
- Three lists taken by recovery are three steps, because API writes do fall
  between them.

`MaxConcurrent` in local and Fargate mode is a setting of the server, and the
synthetic instance's capacity is another which defaults to it; the model uses
`ContainersPerInst` for both.

In `ReadPipeline` a launch, the completion of a killed task and the clean-up of
a cancelled one are one step each: their parts are in `Orchestrator`, and what
matters here is the check before the launch against the upsert after the exit.
The lookup, the inspection, the embedding, the upsert and the completing
statement are steps of their own, and a crash may come between any two. In
`Announcements` a statement and the `Emit` that announces it are two steps, and
each call of the notifier is one. In `Intake` a task is made, launched, or
finished in one step, and the server may be restarted with other settings
between any two. Tasks do not meet there: no action for one looks at another.

In `Ec2Scaler` a call to EC2 goes with the statement that follows from its
answer, unless a crash or a failing statement between the two leaves host and
row apart: launch, insert and undo are three steps, termination and its record
two. The readiness of SSM and of Docker is one fact of a host. In `Access` a
request's step ends where it waits for a statement; both critical sections of
`cacheMu` are single steps, with the unlocked statement between them.

In the bus, every lock, flag and channel operation is a step. A read lock is
released in the step that leaves the critical section. `Lock` that waits keeps
new readers out, as Go's `RWMutex` does.

### Environment

Agents exit at any time, well or badly. Fargate takes a container back
(`Reclaim`), EC2 a host with all its containers (`HostDies`), at most
`MaxFaults` times. With `Glitches`, inspect, stop, launch and describe calls
may fail at any time. `Crash` loses the server's memory and requests in flight,
`MaxCrashes` times. `StoreFails` is a failing statement of the orchestrator,
`MaxStoreFaults` times. `Expire` is the passing of a task's deadline.

In `Ec2Scaler` one budget, `MaxFaults`, is shared by crashes, failing calls and
statements, and Spot interruptions; they are counted by kind, since a property
says which of them may part a host from its row. A shutdown counts as a crash
there: the cancelled context fails every later call of the tick. In `Access`
any statement may fail, without a budget, and keys and senders change at any
time.

Some of what the cloud does deserves a word. ECS takes the task's id as client
token (fargate/fargate.go:98), so a launch repeated soon after may be answered
with the earlier container, stopped or not: `Relaunched`. A launch may have
happened though its answer was lost. `docker stop` is followed by `docker rm`,
so a container stopped by the server cannot be inspected any more. A report
(status.json, or the log line on ECS) may be missing or unread: the container's
exit code then speaks alone. The harness in a container is assumed to do what
its prompt tells it: the reader to look its URL up first, the coding agent to
report code or review as the mode.

## 4. Runs

`local_requests`, `event_bus`, `read_pipeline`, `announcements`, `intake`, `scaler`
and `access` check the inductive invariants of section 5 beside what follows from
them.

All runs of `Orchestrator` have at most two tasks: the properties relate a task
to counters, to another task that competes with it for a slot, and to one older
or younger. One slot makes them compete, two slots make the counters pass 1.
One user retry gives two lives of a task, and stale rows and flags from the
first. One request in flight interleaves with every pair of statements of the
orchestrator; two of them meet only in the row, where each statement is atomic
and, but for the retry, unconditional. One crash, with one fault, gives
recovery from every state, including those a fault produced.

| Run | Instance | Shows |
|---|---|---|
| `local_requests` | local, 2 tasks, 1 slot, cancel, delete, retry, 1 retry | the invariant of the proofs, oldest first, and the retry budget, under all requests |
| `fargate` | Fargate, 2 tasks, one of them a read, 2 slots, 1 retry each, failing stops and launches; of a crash, a reclaim, a failing statement, a retry and a task that cannot be inspected any two | slots are accounted for, and no launch is without a cause |
| `ec2` | 2 tasks, 2 instances in turn, 1 at a time, 1 slot, retry, 1 crash, 1 dying host | dispatch within the pool, the scaler's limit, no instance slot lost, hosts in use are kept, one agent per task, none orphaned, the code's lifecycle |
| `live` | Fargate, 2 tasks, 1 slot, cancel, 1 crash, 1 reclaim | progress, and slots are accounted for under cancels |
| `scaler` | 3 host ids, 1 instance at a time, 1 slot, 2 faults | hosts are accounted for, tasks served, idle hosts given up |
| `access` | 2 requests, 1 key without write permission, a cache of 2 slices of time, statements of at most 1 | causes for every request carried out or turned away |
| `event_bus` | 2 emitters with 2 events each, a buffer of 2, `Close` and `CloseWithTimeout` together, 2 subscribers | all properties of the bus, and that it implements `EventLog` |
| `read_pipeline` | 2 read tasks, forced or not, 2 URLs, docker or ECS, 1 request in flight, 1 retry each; of a crash, a failing call or lost container, and each task's retry, cancel or deletion any two | the status tells whether a reading is there, known URLs are not read again, summaries last |
| `announcements` | 1 task, 1 request at a time, 1 retry, a bus of 2, 1 crash or failing call | one thread, a Retry button neither early nor missing |
| `intake` | 1 task, all requests, 82 environments, in 34 of which the server starts, two of them with NaN for a reader's limit | reads are equipped, refusals have a cause, containers get what was promised |
| `cancelled_revived`, `requeued_stranded` | 2 and 1 tasks | the disagreements of section 7 |

Some properties are conditional, where the code gives no more:

- `OneAgentPerTask` needs that no crash and no failed statement came between
  launch and record (`LaunchesRecorded`), and is checked without failing calls:
  a `StopContainer` that fails leaves the agent at work while its task goes on
  without it, since every caller ignores the error (monitor.go:37).
- `SlotsAccounted` always says that `o.running` counts no task without a slot;
  it is exact while nothing was cancelled and no statement failed
  (`Undisturbed`), and the count of an instance as long as, besides, nothing
  was requeued (`NoneRequeued`). All of it excepts a retry beside a failed
  statement (`NoneRetried` or no `storeFaults`): the statement may leave a task
  running that is flagged for a retry already, and the retry then loses its slot
  (section 7). It is not true in EC2 mode, where an interruption requeues tasks
  without giving back their places in `o.running` (section 7), nor of deletions
  that land late, nor of cancels and retries together, and is checked without
  these: `fargate` has the retries, `live` the cancels.
- `StatusTellsReading` excepts duplicates, and readings that went with the
  deletion of another task; of failed tasks a crash, a lost answer between the
  upsert and the completing statement, and a task that was cancelled after it
  had completed (`undone`), which a retry then fails as a duplicate of the
  reading it left (section 7). `SummaryKept` excepts the forced task, the
  missing report and the deleted task. Each exception is reachable.
- `ReadsEquipped` lets a read have NaN for a limit if the server that accepted
  it has NaN for a default, which `Load` does not refuse (section 7).
- `LastWord` excepts a full bus and faults, a task that needs input, whose
  message has no button, and a cancel after a retry that overtook the flag of
  the cleanup before it (section 7).
- `RefusedForCause` excepts a server without an embedder, which is not asked
  for when a read task is accepted.
- `OldestFirstDispatch` lets a retried task come in behind a list already taken.
- `EveryTaskEnds` assumes that no slot of the synthetic instance was lost by a
  requeue (`SlotsNotLost`), which `requeued_stranded` shows to be necessary,
  and `EndedIsRetryable` excepts a failed task whose server crashes before it
  sets the flag. `FollowsLifecycle` is checked without cancellations, and against
  the edges of the code: the diagram of docs/schema.md lacks two (section 7).
- `HostsAccounted` counts the faults that may part a host from its row, each
  for one host: the crash, the failing or lost answer, and the insert that fails
  together with its undoing. Without such a fault it says that none is unknown.
- `TaskServed` assumes that no host boots for good (`HostsSettle`), and lets a
  task wait while every instance allowed is full.
- `ActedForCause` and `TurnedAwayForCause` allow for the cache: without a key a
  request may pass for `hasKeysCacheTTL + MaxWait` after the table was last
  empty, and be refused for `Horizon` after it last was not.

`event_bus`, `read_pipeline` and `announcements` turn off the deadlock check:
the bus is drained, everyone has emitted and everyone has subscribed; every
task has ended with no retry left; or all has been said.

In `announcements` one request at a time is the bound of the run; with two the
same properties hold of 22 million states, which takes longer than a routine
check should. Two tasks would not meet: threads, buttons and flags are per task
and the bus keeps the order of all. In `read_pipeline` `MaxFaults` is shared by
failing calls, failing statements and lost containers; its constraint
`TwoTroubles` counts these with the crash, the tasks retried, the tasks cancelled
and the tasks deleted, asked for or done, and keeps behaviours with at most two,
such as the late cancel of a completed task and its retry. Two tasks are the two
ends of every race for a URL, and a second URL is what a reader may report
instead. In `intake` a value stands for a class that the code treats alike: a
limit for budget, runtime and turns, "low" and "high" for two values told apart
only by which is the default; `MCIntake` varies each setting that some
condition looks at, and takes the defaults of coding tasks sound or
too large.

The bound in `event_bus` of two events per emitter makes four, twice the
buffer: it fills, drops, and fills again. Two subscribers make an order within
the snapshot, and may subscribe in the middle of an event.

`fargate` bounds crashes, reclaims and failing statements by one each, retries by
one per task and, by its own constraint `TwoTroubles`, all of them together, with
the tasks whose inspection fails, to two in a behaviour: any two meet, and three
at once are the theorems' part. The two runs with a constraint check no liveness,
which it would make unsound.

Three host ids in `scaler` are the instance in service, one that a fault has
left without a row, and the next; an id that both sides are done with is used
again. Two faults are an insert that fails with its undoing, or a fault during
the recovery from another. Two instances at a time were checked beside it, with
one fault for all properties and with two for the invariants (106 and 583
thousand states); they add a list of two to each loop. In `access` a second
request is the one whose slow answer overwrites the first's; two slices of time
tell an answer just got, one still good and one too old, and one more is what a
statement takes. A key that lacks the scope of one route and has those of the
others gives every outcome of the lookup.

### Fairness

`live` and `requeued_stranded` assume weak fairness of `OrchestratorStep` (Start ticks on a timer and
the calls of a tick return; the embedder's, which has no timeout, is not made:
the run has no read task), of `Restart` (the service is restarted)
and of `Expire` for each task (max_runtime_sec defaults to 1800 and time
passes). Nothing is assumed of users, agents or the cloud: an agent that never
exits is ended by its deadline. Crashes and retries are bounded, without which
nobody could promise an end.

`scaler` assumes weak fairness of `Tick` and of `Restart`, for the same reasons,
and that time passes: strong fairness of `Age`, since a row written again and
again is young each time, and the two last loops of a tick are taken to last
less than five minutes. Weak fairness of `Recycle` only keeps the model from
running out of ids. Nothing is assumed of EC2, of the agents, or of users; that
hosts become ready is a premise of `TaskServed` alone.

`event_bus` assumes weak fairness of each goroutine's steps and of the receiving
part of deliver, and nothing of `Notify`: a notifier may hang. `CallsReturn` must
hold anyway; `EventsDelivered` makes the exception explicit.

## 5. Theorems

All theorems hold for every value of the constants that the modules' `ASSUME`s
allow: `StoreAssumption`, `OrchestratorAssumption`, `BusAssumption`,
`ReadAssumption`, `AnnouncementsAssumption`, `IntakeAssumption`,
`ScalerAssumption` and `AccessAssumption`, which are types, "one synthetic instance outside EC2 mode", that some environment lets the
server start, and that the set of host ids is finite.

- `OrchestratorProofs`: `Invariance` and `TypeCorrect`. The type invariant
  alone is not inductive: that `Current` is a task needs that a loop with a
  task in hand has a non-empty list (`LoopShape`), that a launched container
  has an instance needs that dispatch has chosen one, and that a request writes
  an existing task's row needs `RequestShape`. `SlotBudget` says that the free
  slots dispatch counted once still cover the tasks it has left; it rests on
  `OldestFirstBounded`, that a list with `LIMIT k` has at most k rows.
  The proof has one lemma per loop of the tick and one step per action.
  `SlotPoolImplemented`: under `IInv` every step takes one slot
  when one is free, gives one back, forgets or reopens the pool, or leaves it.
  `InstanceLimit`: the scaler's one guarded launch is the only
  step that brings an instance into service. `RetryBudgetImplemented`: each
  statement on a row is a step of `RetryBudget`; no assumption about which
  process runs it or how stale its reason is enters the argument.
- `TaskProofs`: what becomes of a task while the loops act on rows they listed
  long ago. Each theorem adds to `IInv` an invariant of its own:
  - `LaunchesPaidFor`. `LaunchInv` balances accounts. The launches of a task are
    paid by its first one, its retries and the crashes, and each lost container
    that its row has done with (`Spent`) pays for one more; at most `faults`
    containers are lost. While the row is launched and not yet done with, or is
    `Listed` in a loop that may still queue or launch it, one payment is kept
    in reserve. It holds whatever is cancelled, deleted or retried and whatever
    statement or call fails. Outside EC2 mode only: there a host whose describe
    call fails is taken for dead, its containers are lost without a fault of
    theirs, and the count fails.
  - `LifecycleFollowed`. `FreshInv` says that a row in hand is not stale: while
    only retries write rows beside the orchestrator, a row listed as pending,
    running or recovering is still so when its turn comes, since a retry needs
    a failed row. A failing statement breaks that (a row is left where the loop
    believes to have moved it from), so that the theorem assumes none; a cancel
    breaks the lifecycle itself. Crashes, lost containers and glitches do not.
  - `AgentsAlone`. `AgentInv`: an agent at work is named by its task's row, or
    the orchestrator is between its launch and the statement that records it,
    or between the statement that takes it off the row and the end of its
    handling; a task that is pending, or assigned and not launched, has none at
    work. A glitch has a
    live container taken for a dead one, and a crash or a failed statement
    leaves a container unrecorded: both are excepted.
  - `SlotsCovered`. `SlotInv` counts for each instance the tasks that hold a
    slot of it, those that recovery is still to count, and the one in hand whose
    slot is already taken or not yet given back. Up to the first crash; after a
    second one with two slots on a host the property fails, since tasks still
    recovering are not counted (section 7).
  - `BusyHostsKept`. Scale-down looks at counters alone: that its victim runs
    no agent is `SlotsCovered` together with `OnItsHost`, that a container
    runs where its task's row says.
  - `AccountKept`, that is `SlotsAccounted`. `RowInv` and `CountsOK` hold while
    users only cancel, or while they only retry and either no task has been
    retried or no statement has failed, so they
    may not say, as `FreshInv` does, that a row in hand is as it was listed:
    `ListedRow` says that it is, or has been cancelled, or that the loop has
    changed it; the property excepts the retry beside a failed statement, so that
    where users retry, `NoneRetried` or the absence of failed statements goes
    with these invariants. `SlotTasks` are the tasks whose slots are not given back, from
    the row for all but the task in hand, and from the label for that one; a
    step takes at most one away or adds one, as it does with `o.running`
    (`CountStep`). A cancelled row that no list will overwrite (`Settled`) may
    give its slot back twice, so that from then on the count is only a lower
    bound, `Quiet` no more. `RecoveryOK` relates what recovery has listed to
    what it will count, while requests go on. The count of the instance is shown
    equal to `o.running`, step by step (`InstInv`), as long as nothing is
    requeued; `FirstCrashes` says why that needs no more than one recovery: up
    to the second crash recovery finds nothing that was recovering before, which
    it would count in `o.running` alone. For `o.running` itself crashes do not
    matter.
  - `DispatchInOrder`, that is `OldestFirstDispatch`, in every mode and with
    every request, where no statement fails. `OrderInv`: a pending task that was
    never retried is still to come in the list, is younger than the whole list,
    or has found no instance with a free slot, and then none comes free before
    the loop ends. A read task whose rejection cannot be written stays pending
    behind its turn, hence the hypothesis.

  The hypothesis `Ops \subseteq {"retry"}` of `LifecycleFollowed`,
  `AgentsAlone`, `SlotsCovered` and `BusyHostsKept` is that of the runs: with
  cancels and deletions these four fail, as section 7 lists. So does
  `SlotsAccounted` with deletions, or with cancels and retries together.
- `EventBusProofs`: `BusInvariance`, from which `NeverPanics`, `ClosedForGood`
  and `EventLogImplemented` follow. `LocksHeld` is the argument of the locks and
  `closeOnce`: whoever is about to send excludes the closer past its lock, and
  only one closer ever gets there. `QueueOK` makes the channel the tail of the
  log, `NumbersOK` orders an emitter's events, `PositionsOK` places what each
  subscriber has in the log, counting the event the snapshot still owes it.
- `ReadProofs`: `ReadInvariance`, and from it `StatusTells`, `NoReaderForKnown`
  and `SummariesLast`. What a status tells is decided long before it is
  written, so `ReadInv` follows the orchestrator: `LaunchSound` keeps the
  answer of the lookup until the launch, since the goroutine that could store a
  reading is the one that is launching; `CompletionSound` says that from the
  inspection to the completing statement the container's report stays and the
  task is running, cancelled or deleted, or pending if it was still flagged
  from a completing statement that failed, and what is about to be stored;
  `ReadingsSound` says that a reading's task is completed, about to be, or was
  before it was cancelled (`undone`). `Told`, that a task has led to a reading,
  only ever ceases with a deletion, which it then names. `Meddled` is what a
  request may do to the row the orchestrator works on. One lemma is for steps
  beside that work (`BesideKeeps`), one for those of the idle orchestrator
  (`IdleKeeps`), one for those that end its work (`EndKeeps`).
- `AnnouncementProofs`: `AnnInvariance`, and from it `FewThreads`,
  `ButtonAfterCleanup` and `LastWordTrue`. What was said last is true only when
  all has been said; before, the true word may be anywhere on its way. `LastIn`
  says of a set of events that the orchestrator's last word is in it, be it in
  its hand, in the bus behind nothing but requests, with the notifier, or told,
  and one lemma for each stage (`WordSaid`, `WordDelivered`, `WordTold`, with
  `RequestSaid` for what comes between) shows that no step loses it. In the first
  life of a task the container that a cancel leaves on the row tells whose
  cleanup the flag belongs to (`FirstLifeSound`); a second life has a stale flag
  and no such tell, which is why `LastWord` excepts it. `ThreadSound` counts the
  thread that is started and not yet stored. A fault makes the words vacuous
  and is what a further thread is charged to.
- `IntakeProofs`: `IntakeInvariance`, and from it `ReadsStayEquipped`,
  `NoIdleRefusal` and `PromiseKept`, for any set of environments. What a
  container has was built from the row by settings that may differ from those
  that made the row, so the properties say too little to be kept by a step:
  `RowsSound` adds that the row itself keeps the promise, and that the settings
  which let a read task in are there until a restart (`ReadLimit` says of a NaN
  that it was the accepting server's default). `Doors` reduces the four
  doors to one insert of an admitted request, `NewRow` shows what `Apply` makes
  of it; the other steps leave alone what was resolved.

- `ScalerProofs`: `ScalerInvariance` and `NoneForgotten`. That hosts without a
  row are few is not inductive: between a failing insert and the call that is
  to undo it, the host in hand is one that a second fault would leave unknown.
  `ScalerInv` therefore bounds the unknown hosts twice, by the crashes and
  failing calls with the failing terminations, and, counting the host to be
  undone, with the failing inserts; the smaller of the two is what faults
  explain. `Committed` is within the limit because nothing but a launch adds to
  it, under the test of `RequestScaleUp`, and the goroutine that made the test
  is the only one that writes rows. The proof counts sets: one lemma for steps
  that leave the counts alone (`Harmless`) and one for a fault that parts one
  host (`Parting`), then one per action.
- `AccessProofs`: `AccessInvariance`, and from it `OnlyForCause` and
  `NotWithoutCause`. `Remembered` says how old the remembered fact may be, the
  lifetime of the cache and one slow statement more, and `UnderWay` carries that
  to the request that has the answer and is still waiting: its own waiting is
  added. The time since the table was last empty, or not, is the ghost both
  speak of. There is a lemma for the step of one request (`OneGoes`) and one
  for edits of the tables, which touch what every request remembers.

Only model-checked: liveness, which needs `ENABLED`. Every safety property of a
passing run is the subject of a theorem.

## 6. Not modelled

- Text: what prompts, error messages, reports and metadata say, costs, and the
  agent's output in S3.
- The webhook and SMS notifiers: three attempts and one, whose failure is
  logged and changes nothing; planned, section 2.
- The shutdown sequence (`cmd/backflow/main.go:245`) as a whole. What it does to
  the orchestrator is a crash of the models, and what it does to the bus is
  `CloseWithTimeout` of `EventBus`. It does not wait for the tick in progress,
  and shuts HTTP down last, so that events of requests still served are dropped
  by a closed bus; the code promises no more.
- The signatures of Discord's and Twilio's requests, and the replies of
  Discord commands. A signature is taken as verified where a door is entered.
- The clients of the AWS SDK, made on first use: by the Fargate runner without
  a lock, from two goroutines (fargate/fargate.go:39), a race that
  docs/reviews/fargate.md:18 describes.
- A changed mode or limit between restarts, but in `Intake`: the slots of a
  server that comes up in another mode are not followed.
- A default harness other than the two, which `Load` accepts.
- The work of the coding agent; the migration tool, a copy that runs once;
  statistics.

## 7. Where code and documents disagree

Runs that show a violation:

- `cancelled_revived`: `dispatch` assigns and starts a task from the row it
  listed, without testing the status again, so a task cancelled in between goes
  from cancelled to provisioning (dispatch.go:82), though docs/schema.md:156
  calls cancelled terminal.
- `requeued_stranded`: outside EC2 mode a requeued task never gives back its
  slot of the synthetic instance (monitor.go:413) and then waits for it, though
  monitor.go:407 says it is put back "so it will be dispatched".

Found while modelling, reachable in the models or excepted there by name, and
not kept as runs:

- A prompt put into S3 because the ECS overrides are too long
  (fargate/fargate.go:427) reaches a container that asks for PROMPT before it
  fetches it (`docker/agent/entrypoint.sh:5` and `:33`,
  `docker/reader/reader-entrypoint.sh:7` and `:62`), and exits, though
  README.md:317 offers the bucket for that. `Begin` of `Intake` fails such a
  task.
- A task completed while a cancel was on its way becomes cancelled, and
  monitorCancelled releases its slot a second time (monitor.go:41), after which
  dispatch launches past the limit.
- An EC2 interruption requeues tasks without giving back their places in
  `o.running` (ec2/spot.go:84); the slots are lost until the next restart.
- Nothing in the reader's image reads `FORCE`: a forced reader looks its URL up
  (`docker/reader/reader-entrypoint.sh:93`), finds it, and overwrites the
  summary with the stub of a duplicate.
- A read task is accepted by a server without an embedder
  (`internal/api/task_creator.go:90`) and fails at dispatch every time.
- A late cancel turns a completed task into a cancelled one
  (`internal/api/task_actions.go:23`). If it was a read, monitorCancelled flags
  it (monitor.go:29), a retry puts it back (`internal/api/task_actions.go:45`),
  and dispatch fails it because its URL has a reading, its own (dispatch.go:63):
  a failed task with a reading, though nothing crashed or failed.
- The diagram of docs/schema.md:146-154 has running go to interrupted and then
  "(re-queued as pending)" when a container is lost, and no way for a task to
  fail before it runs. requeueTask sets pending directly
  (`internal/store/postgres.go:212`; no statement writes interrupted), and
  dispatch fails tasks that are provisioning (dispatch.go:40).
  `TaskLifecycle` has the code's edges.
- "NaN" passes for a read budget above zero (`internal/config/config.go:278`),
  since `envFloat` takes what ParseFloat reads, and every read of that server
  then has no budget (`internal/config/defaults.go:79`).
- ready_for_retry set in one life survives an overwritten cancel and lets a
  retry through before the container is cleaned up (monitor.go:368).
- A task that fails in dispatch never gets its retry flag (dispatch.go:40),
  though docs/schema.md:44 describes it as set once the task is cleaned up.
- A restart counts only tasks that were running: a second restart forgets the
  slots of those still recovering (recovery.go:68).
- A failed DescribeInstance marks a running host terminated and frees its place
  while it runs on (ec2/scaler.go:230).
- A host that runs but whose SSM agent or Docker never answers keeps its row
  pending for good, and no other is launched (ec2/scaler.go:133, 190); the age of
  the row counts only when the host cannot be described.
- A crash, a lost answer, or a failing insert with a failing undo leaves a host
  without a row (ec2/scaler.go:144-166). Nothing looks for such hosts, at start
  or later, so they run until somebody notices.
- The rows of an interruption stay draining (ec2/spot.go:64): no loop lists them
  again.
- A slow `HasAPIKeys` may overwrite the answer of a later one
  (`internal/api/auth.go:109`), so that a new key protects nothing for the
  lifetime of the cache and the statement's time more.
- A database error at the lookup of a key is answered 401, as a bad key is
  (`internal/api/auth.go:71`), while one before it is answered 500.
- A failing `CompleteTask` goes unnoticed (monitor.go:160): `handleCompletion`
  releases the slot and sets the retry flag on a row that is still running, and
  `RetryTask` tests only the flag and the cap (`internal/store/postgres.go:252`),
  so that a retry admitted earlier resets a running task and loses its slot.
- The count of inspect failures is kept by task and outlives the container it
  was counted for (monitor.go:106).
- Deleting a task that dispatch has listed leaks its slot and leaves its
  container without a row (`internal/api/handlers.go:121`).

From the parts the models leave out or pass over:

- `ssmOnce` remembers a failed start of the SSM client (ec2/scaler.go:48): no
  host becomes ready until the next restart.
- `isDockerReady` may hold up the tick, and with it every task, for five minutes
  (ec2/scaler.go:102).
- A change of mode does not follow the hosts: Fargate mode marks the rows of EC2
  hosts terminated while they run on (orchestrator.go:149), local mode leaves
  them in service, and EC2 mode leaves the row of "fargate" running
  (orchestrator.go:94), which dispatch may then choose.
- Discord's Retry emits no task.retry event, as the API's does
  (`internal/discord/interactions.go:106`, `internal/api/handlers.go:182`),
  and the API's carries no reply channel, so that no SMS tells of it.
- Messages about tasks that need input or were interrupted never have a Retry
  button (`internal/notify/discord.go:153`), which docs/discord-setup.md:87
  lists.
- "Cancellation requested" may be posted after "Task cancelled" and its Retry
  button (`internal/api/task_actions.go:27`).
- The webhook's JSON leaves out the fields of a reading and retry_limit_reached
  (`internal/notify/webhook.go`).
- A task created by SMS emits no task.created event
  (`internal/messaging/inbound.go:152`).
- The modal accepts the budget "NaN" (`internal/discord/create.go:151`), which
  no later test stops and JSON cannot encode: `GET /tasks` then answers with an
  empty body (`internal/api/responses.go:16`).
- Defaults of coding tasks are not validated: a runtime of zero never times out
  (monitor.go:89), a value beyond 32 bits makes every insert fail.
- `allowed_tools` is called honored (`internal/api/task_creator.go:80`), but no
  runner passes it on.
