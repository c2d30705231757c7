# Verification of discBotManager

TLA+ models, TLC runs and TLAPS proofs for discBotManager: a FastAPI dashboard
and a separate *process supervisor* that manage Discord bots on one host and share
one SQLite database.

## 1. The system

Two long-running Python processes and the bots themselves:

* the **dashboard** (`app/main.py`): users, permissions, the web pages, backups and
  data editing; it asks the supervisor over HTTP for everything about processes;
* the **supervisor** (`app/supervisor`): launches and stops bots, receives their
  heartbeats, runs the scheduler, the console capture and the telemetry. Its
  synchronous endpoints run in a thread pool, so two requests interleave anywhere;
  the heartbeat endpoint is `async` without an `await` in its body, so heartbeats are
  serial among themselves but not against the thread pool;
* the **bots**, each with an `agent.py` that posts heartbeats and applies maintenance
  mode.

Everything durable is in the shared database. SQLAlchemy sessions are created with
`expire_on_commit=False`: a session works on the row as it loaded it, and a commit
writes only the columns that the session changed. Most of the hazards below come
from that, because nothing re-reads or versions a row.

### 1.1 Inventory

| component | source | state | operations | hard behaviour | correct when |
|---|---|---|---|---|---|
| Process supervisor | `supervisor/service.py` | `bot_instances` rows (generations), per-bot locks, OS processes | start, stop, restart, status/reconcile/health | lock-free status against locked operations, stale sessions, supervisor crash between launch and commit, processes that die at any time | at most one verified process per bot; only the lock holder moves the operator's intent; what runs is reported in the end |
| Heartbeats | `services/heartbeat.py` | heartbeat columns of the current generation, applied maintenance | accept | late, duplicated and reordered heartbeats of this and older generations; concurrent reconciliation | a heartbeat of an old generation changes nothing; agent timestamps only grow |
| Bot state | `services/bot_state.py` | none | resolve | priorities between disabled, process, connection, staleness, maintenance | "ready" only for a running process with a fresh, ready heartbeat |
| Bot agent | `agent.py` | maintenance gate, event, backoff | heartbeat loop, listeners | a request to send lost while sending; backoff | the gate follows the last answer |
| Maintenance | `services/maintenance.py` | desired and applied state | set, require, reconcile_applied | desired state changes while the bot applies the previous one | "synchronised" only for the current generation and value |
| Scheduler: runs | `scheduler/service.py` enqueue, execute, _finish, _recover_interrupted | `_running` set, `task_runs`, `operations` | manual and scheduled runs | exclusion by an in-memory set, timeouts, restart in the middle, SQLite's single writer | no overlap of a FORBID_OVERLAP task; every attempt ends in a recorded state |
| Scheduler: schedules | `scheduler/service.py` reconcile, configure, toggle | `task_schedules`, APScheduler jobs | configure, toggle, reconcile | concurrent reconciliations, compensation of a refused configuration | a disabled schedule has no job |
| Process workflows | `services/process_manager.py`, `routes.py` | workflow locks, operation rows | start/stop/restart actions | client timeout shorter than the supervisor's stop timeout; exceptions between acquire and try | each lock is released, each operation settles |
| Backups | `services/backups.py`, `backup_routes.py` | backup rows and directories, data locks | create, verify, restore, pin, retention | a failure or crash at each file operation, rollback, bot restarted or left stopped | after a restore the data is entirely old or entirely new |
| Data editing | `services/data.py` | bot files, versions | save_json, save_config | optimistic version check, backup before edit | no lost update |
| Database editing | `services/sqlite_data.py` | bot databases | mutate, mutate_process_aware | stop, backup, mutate, validate, restart, recover, each of which can fail | a failed edit is rolled back and the bot's state restored |
| Incidents | `services/incidents.py` | incidents, timeline, error groups | process, reconcile | duplicate and out-of-order events, crash loop promotion | an event counts once; a loop is three crashes; what is settled stays settled |
| Events, operations | `core/events.py`, `core/operations.py` | activity, audit, operations | publish, record, create_operation | the number of an operation is a row count | unique public ids |
| Console | `services/console.py` | ring buffer, subscriptions | append, records, subscribe | one shared cursor per bot | an open subscriber gets what is shared, in order and without a hole |
| Telemetry, snapshots | `services/telemetry.py`, `services/guild_snapshots.py` | samples, snapshots | collect, accept | sampling of a process that changes identity | an answer is about a process that was alive; the activity adds up to the cache |
| Permissions, administration | `services/permissions.py`, `services/admin.py`, `auth/` | users, assignments, overrides | has, visible_bot, assign, override | precedence of deny, role, assignment, disabled bots | access that is lost ends an open socket |

Templates, static files, migrations, `schemas.py`, `config.py`, `seed.py`,
`adapters/`, `modules/registry.py` and the deployment units hold no behaviour of
their own and are not modelled.

### 1.2 Interaction

```
browser -> dashboard -> (HTTP, 3 s timeout) -> supervisor -> processes
                |                                 |   ^
                +--------- shared SQLite ---------+   | heartbeats
                                                     bots
```

## 2. How the project is built

| part of the system | detailed module | what it is shown to implement | proofs |
|---|---|---|---|
| process supervisor | `Supervisor` | `BotLifecycle` | `SupervisorProofs` |
| runs of a task | `TaskRuns` | | `TaskRunsProofs` |
| heartbeats, agent, maintenance | `Heartbeat` | | `HeartbeatProofs` |
| schedules | `Schedules` | | `SchedulesProofs` |
| backups, restore, retention | `Backups` | `AtomicReplace` | `BotDataProofs` |
| workflows and edits | `Workflows` | | `BotDataProofs` |
| incidents, operation numbers | `Incidents` | | `IncidentsProofs` |
| console, access of its sockets | `Console` | | `ConsoleProofs` |
| guild snapshots | `Snapshots` | | `FeedsProofs` |
| telemetry | `Telemetry` | | `FeedsProofs` |

Modules named `MC...` hold instances for TLC; a `.cfg` beside them gives the bounds.
`Backups` and `Workflows` share the parameters in `BotDataParameters`, `Snapshots` and
`Telemetry` those in `FeedParameters`; `MCBotData` and `MCFeeds` extend the two
modules of a pair and check both in one run: `MCInit` chooses a behaviour to be one of the
first or of the second, which share no state. `BotDataProofs` and `FeedsProofs` hold the
proofs of a pair. Hence the prefixes `Workflow` and `Telemetry` of the names that the
other module of the pair has too, and `Backup` and `Snapshot` of their theorems.

The same bot appears in several modules at different grains. `Supervisor` takes a start
apart that is one step to `Workflows`; `Backups` takes the replacement of a directory
apart that is one step of `Workflows`' restore and recovery; `Heartbeat` has the start
of a bot only as far as the policy in its environment is concerned.

## 3. Modules

### 3.1 `BotLifecycle` and `Supervisor`

`BotLifecycle` is the promise: a bot has generations; a generation is created only
while no verified process runs; the process of the current generation becomes
verified only while the operator intends the bot to run; intent, once withdrawn,
returns only with a new generation.

`Supervisor` is the code of `SupervisorService` for one bot. Rows and locks are keyed by
the bot, so bots do not interact and one is enough. A request is cut where another
thread can see or change what it uses:

| code | action |
|---|---|
| SELECT of the current row, with the lock taken before it in start/stop/restart | `BeginStatus`, `BeginOperation` |
| `_reconcile_row` (look at the process table) and the decision after it | `StatusCheck`, `StartCheck`, `StopCheck`, `RestartCheck` |
| the second `_identity_valid` of stop and restart | `StopVerify`, `RestartVerify` |
| the commit that ends the request, or precedes the signal | `CommitAndReturn`, `CommitAndSignal` |
| terminate / wait / kill / wait, or an exception of psutil | `Terminate`, `SignalRaises` |
| the commit of "offline" | `StopFinal`, `RestartFinal` |
| `_configuration` and the commit of the new "starting" row | `Insert`, `ConfigurationRaises` |
| `Popen`, or its failure (caught in start, not in restart) | `Spawn`, `StartSpawnFails`, `RestartSpawnFails` |
| the commit of PID and creation time | `Record` |
| a bot process ends by itself; the supervisor dies and comes back; the dashboard edits `bots.enabled` | `ProcessDies`, `SupervisorRestarts`, `ToggleEnabled` |

`seen` and `work` are the session: the row as loaded and as modified. A commit
(`Written`) writes the columns in which they differ on top of whatever is committed by
then. A row is reduced to the columns that decide: `state`, `expected_running`, whether
PID and creation time are filled in, whether `ended_at` is. `_identity_valid` compares
PID, creation time, executable, directory and arguments with the process table; the
creation time makes a reused PID fail, so it is "the identity is filled in and the
generation's own process is alive".

`Signals` follows the code's order: the process is signalled only after the commit of
"stopping" or "restarting".

### 3.2 `TaskRuns`

One task of one bot. Runs are numbered as they are asked for; each has a thread of the
supervisor (`pc`), a row (`run`), and, when manual, an operation (`op`) and a call of the
dashboard (`call`). `held` says that the task's key is in `_running`.

| code (`scheduler/service.py`, `scheduler/routes.py`) | action |
|---|---|
| `run_task`: the operation is committed, the supervisor called; its answer, or the time-out after which the operation is failed | `RequestRun`, `DashboardLearns`, `DashboardTimesOut` |
| `enqueue`: the check, the claim under `_guard`; then the commit, or its failure with the key claimed | `Enqueue`, `EnqueueCommits`, `EnqueueFails` |
| the engine calls `execute`: skip, drop or claim | `Tick` |
| `execute` up to the commit of "running", `_precondition` included | `BeginManual`, `BeginScheduled` |
| the handler, or its time-out | `HandlerEnds` |
| `_finish` with the operation, then `finally` | `Finish`, `Release` |
| a restart with `_recover_interrupted` | `SupervisorRestarts` |
| the adapter loses the task; the bot becomes unfit or crashes | `AdapterChanges`, `BotChanges` |

`BeginScheduled` has no separate row before its commit because the row is only flushed;
the flush takes SQLite's write lock, and the status request of `_precondition` must
write when the bot has crashed. With the default database the two exclude each other,
and the run raises (section 4.1).

### 3.3 `Heartbeat`

The agent of the current generation, the heartbeats and answers on their way, the row,
the policy and the sessions that work on them.

| code | action |
|---|---|
| `agent.py`: Discord's events, a heartbeat sent, its answer, its time-out | `LinkChanges`, `AgentSends`, `AgentLearns`, `AgentGivesUp` |
| `HeartbeatService.accept`: rejected; the row loaded; the policy loaded; the commit | `AcceptRejects`, `AcceptReads`, `AcceptReadsPolicy`, `AcceptCommits` |
| `MaintenanceService.set`: load, commit | `SetReads`, `SetCommits` |
| `SupervisorService.status`: load; reconciliation, commit and answer | `StatusReads`, `StatusCommits` |
| `start`: the new row; the policy for the environment; the launch, with the gate closed or open from it; the commit of the identity | `StartInserts`, `StartReadsPolicy`, `StartLaunches`, `StartRecords` |
| `stop` or `restart`: the commit before the signal; the commit of "offline" | `StopSignals`, `StopRecords` |
| connection, process and clock | `MessageLost`, `BotDies`, `Tick` |

Time is kept as ages, since the code only compares differences with limits: `Tick` makes
everything a tick older, up to `Old`, which is beyond every limit. Handlers are serial
(the endpoint is `async` without an `await`), so `serving` is one session; the dashboard's
`set` and the supervisor's thread pool interleave with it anywhere. A message or session
is about the current generation or an older one, whichever. `readyAge`, `offered`,
`settled` and `raced` are history and constrain nothing.

### 3.4 `Schedules`

The schedule row of one task, the engine's job for it, and the sessions of any number of
threads.

| code (`scheduler/service.py`) | action |
|---|---|
| `configure` and `toggle`: load and checks; commit | `ConfigureReads`, `ToggleReads`, `RequestCommits` |
| `reconcile`: load and decision; the engine; `remove_job`; commit | `ReconcileBegins`, `ReconcileLoads`, `ReconcileEngine`, `ReconcileRemoves`, `ReconcileCommits` |
| the rest of `configure`: was it accepted; the compensation, after which it reconciles | `ConfigureChecks`, `ConfigureRestores` |
| the engine calls `execute`; an instant passes unheeded | `EngineFires`, `InstantPasses` |
| the schedule in `_finish` | `RunEnds` |
| the bot or its adapter changes; a restart | `FitChanges`, `SupervisorRestarts` |

`_finish` is one step: it flushes its run before it loads the schedule, so that nobody
else commits until it does. Two configurations stand for all: "once", whose instant
passes, and "daily". `next_run_at`, `last_run_at` and `last_status` are only shown and
left out. `clean` and `asked` are history: which threads are in a reconciliation that
nothing has disturbed, and what a configure was asked for, kept while nobody else writes
the row or the job (`alone` are those for which it is kept). It is compared with what the
row stores when the configure returns (`Accepted`), so that a request that loses one of
its settings on the way does not pass.

### 3.5 `Backups` and `AtomicReplace`

`AtomicReplace` is the promise: a bot's data is replaced as a whole by the contents of a
verified archive; while what it replaced is kept the replacement can be undone, to
exactly that; only after it has settled can a failure lose the data.

`Backups` is the code of `BackupService` for one bot, with any number of requests. What a
directory or archive holds is the number of the write that produced it, `Mixed` when a
copy straddled a write, `Damaged` when a removal stopped halfway.

| code | action |
|---|---|
| the routes, `create` up to its first file; `save_json` and `mutate`, which have the data lock first | `RequestBackup`, `RequestRestore`, `RequestEdit` |
| the rest of `create`: archive, verification, rename, commit; or the row that stays failed | `FinishCopy`, `FailCopy` |
| `retention_cleanup`: the rows it loads; the archives it removes, up to the first that raises | `Retain`, `Clean` |
| `pin` | `Pin` |
| `restore`: verification and data lock; what is raised before the `try` | `Accept`, `Refuse`, `PrepareRaises` |
| `_extract`; the two renames; validation; removal; commit | `Extract`, `MoveAside`, `MoveIn`, `Validate`, `RemoveAside`, `Commit` |
| the handler: the failure; both renames back; the record | `NothingMoved`, `Fails`, `Undo`, `PutBack`, `UndoFails`, `Report` |
| an edit's write, its validation, `recover_pre_edit` | `EditWrites`, `EditFails`, `EditStands`, `EditRecovers` |
| the bot writes; the dashboard dies | `BotWrites`, `Crash` |

Every file operation can fail; a plain `create` is not under the data lock, so that a copy
can straddle a write. The model showed a few things that no document speaks of: a row
that failed has no directory, so that the `rmtree` of retention raises and retention stops
there; a removal of the rollback directory that fails halfway, followed by the rollback,
puts a damaged directory back and reports success; a commit that fails after that
removal loses the data (the only way to lose it, see `ImplementsReplace`); an error
between the acceptance of a restore and its `try` leaves its operation running.

### 3.6 `Workflows`

What the dashboard does to a bot over several steps, in the order of the code:
`process_action` (`AskAction` to `ActionDone`), the offline edit of a database
(`OpenOffline` to `OfflineGivesUp`, one action for each stage of
`mutate_process_aware`), live edits of rows and files (`OpenEdit` to `LiveEditFails`) and
the restore route (`OpenRestore` to `RestoreAmends`). They meet in the workflow lock, the
data lock, the process and the data. An order to the supervisor is obeyed, refused, or
obeyed later although the dashboard gave up after three seconds (`late`, `LateOrder`).
The data is the number of its write, whether it is valid, and who wrote it; a token
(the hash that an edit carries) stands for the number, as contents do not recur.

Faithfully modelled and worth knowing: `process_action` enters the workflow lock by hand
before the `try` that leaves it, so that an exception in between leaks it (`ActionLeaks`);
the handler of an offline edit restarts the bot after the locks are released; an error
after the edit's commit leaves a stopped bot stopped; the hash of a file is compared once,
before the backup; the restore route takes no workflow lock.

### 3.7 `Incidents`

`EventBus.publish` with the incident service in the transaction of its caller, and the
numbering of operations in the same database. SQLite admits one writer and shows nobody
uncommitted rows, so a transaction is one step from its first flush on (`Publish`,
`Insert`); what is read or constructed before is a step of its own (`Make`, `Number`).
`MakeAgain` delivers an event again, `Rollback` is any error of a request, `Restart` the
reconciliation at the start of the dashboard. `Wired` names the codes that are published
through the bus. The run wires all that have a rule; in the program as it stands the
supervisor and the heartbeat service add their activity to their own sessions, so that
crashes and disconnections never become incidents (`supervisor/service.py:72`).

An incident is a crash or a loop of crashes when its kind says so (`Crashes`); those of
the last five minutes are `Recent`, and three of them make the one that is recorded a
loop. `Threes` are three crashes no further apart than a span: the promise in
`LoopIsThreeCrashes` is about them and not about the order in which they are committed.

### 3.8 `Console`

The broker of the supervisor (`Capture`, `SupervisorRestarts`), the subscription manager
(`Subscribe`, `Share`, `RevokeSubscriptions`), the loop of a socket in `routes.py`
(`Connect` to `Leave`, one action from an `await` to the next), and the access of the user
behind the sockets (`Has`, `Allowed`, and the requests of the owner that change it).
A socket polls for itself and shares what it gets through one cursor per bot. An answer
is an interval of one run's numbers: all records after `first` up to `last`, which is what
the broker's list amounts to, as it numbers without gaps; `Beyond` is the part of it that
the cursor has not passed. `Chain(s)` is what a socket has in order: the record it sent
last, and those that wait for it. `crossed`
is history: an answer of an earlier run of the supervisor was shared after one of a later
run, which resets the cursor and repeats records; `InOrder` and `SendsInOrder` except it.

Worth knowing: a subscription whose `accept` raises is leaked and counts against the
limits for ever (`AcceptFails`); a client that is gone is noticed only when something is
sent to it; an override "allow" grants access even if the assignment is disabled.

### 3.9 `Snapshots` and `Telemetry`

`Snapshots`: the agent's loop (`Wake`, `Return`, `Lost`), the acceptance of a snapshot
with its transitions and activity events (`Accept`, `Reject`), the refresh request that a
heartbeat's answer carries (`Ask`, `HeartbeatAnswers`), and the instances. A guild is
absent, well or failing, which is what its diagnostics add up to. Snapshots can be lost,
late or overtake each other; the code takes them in the order of their arrival.

Whether a snapshot is taken depends on the newest row of `bot_instances`, and so the
commits to its state and its `ended_at` are steps of their own:

| code (`supervisor/service.py`) | action |
|---|---|
| `start`, or `restart` after its stop: the starting row; the launch, or its failure; the commit of the identity and "running" | `Starts`, `Spawns`, `SpawnFails`, `Records` |
| `stop`, `restart`: the intent; the signal and the commit of "offline" | `Stops`, `Stopped` |
| `_reconcile_row` in a status request, or at the beginning of an operation | `Found`, `NotFound` |
| the process ends by itself | `Dies` |

A status request takes no lock and may come between the commits of a start: `NotFound`
then sets `ended_at` of a row whose process lives (83), `Records` leaves it (139), and
`Current` refuses its snapshots from then on (`guild_snapshots.py:20`), as the heartbeats
are refused. "starting" and "restarting" are "running" here, because nothing that is
modelled tells them apart; a status request is one step, and the supervisor stays up.
Requests that commit what they loaded earlier, and crashes, are in `Supervisor`.

`Telemetry`: one pass of the collector, cut at each call of the store (`Load`, `Validate`,
`Prime`, `ReadProcess`, `ReadFails`, `Add`, `Clean`), against requests (`AskTelemetry`, `Answer`) and what
happens to rows and processes. `lastAlive` is history. Ages are capped one tick beyond
the limit.

## 4. Runs

| run | instance | shows |
|---|---|---|
| `supervisor` | 2 threads, 2 generations | `NoSupersededProcess`; `SupersededNotExpected`; `IntentByOperation`; `SignalOnlyWithdrawn`; the refinement of `BotLifecycle` |
| `supervisor_progress` | 2 threads, 1 generation, fair, polled | `LockReleased`: no path of start, stop or restart keeps the lock; `DeadIsNoticed`, `LiveIsAdopted` |
| `task_runs` | 2 runs, overlap forbidden, fair | `NoOverlap`; `KeyAccounted`; `CompletedIsRecorded`; `EndIsFinal`; `RunEnds`, `OperationSettles` |
| `heartbeat` | freshness 0, skew 1, interval 0; 1 message; polled | `OnlineIsRecent`: shown online means ready within freshness plus skew |
| `maintenance` | the same limits; 2 messages; policy switched | `GateFromLaunch`; `GateFollowsPolicy`; `TruthfulUnlessRaced` |
| `maintenance_converges` | the same with 1 message | `Converges`: once the policy stays, gate, policy and applied state agree for good |
| `schedules` | 2 threads; the task comes and goes | `ReconcileHeals`: one undisturbed reconciliation repairs whatever raced before; `ConfigureAllOrNothing`: the schedule that was asked for is stored and the engine's, or the row is as it was |
| `bot_data` | 2 requests; 3 backups, of which retention keeps 1, and 1 write; 3 contents of the data | `AbsenceIsRecoverable`, `PreservesNewest` and the refinement of `AtomicReplace`; `NoLostUpdate`, `RestartsOnlyValid`, `OperationTruthful` |
| `incidents` | 2 sessions, 3 events in 3 instants, each delivered any number of times; window and delay 1 | `DeliveredOnce`; `LoopIsThreeCrashes`; `HistoryStays` |
| `console` | 2 sockets; sizes in `MCConsole`: a restart, dropped records, changes of access | `NothingMissed`; `InOrder`; `AccessEnforced`; `CatchesUp` |
| `feeds` | 1 guild, 2 instances, 2 snapshots under way, limit 0; telemetry limit 1 | `ActivityAddsUp`, `CurrentIsRecent`; `Refreshed`: the cache gets there, as long as the row has not ended; `AvailableWasAlive`, `Sampled`, `Forgotten` |
| `supervisor_heard` | 2 threads, 2 generations | violated: `CurrentInstanceHeard` |

The comment above each property says what it is about and names the lines.

**Bounds.** *Supervisor*: the lock admits one operation at a time, and every lock-free
request touches the row once, so a third thread adds only a second stale commit of the
same kind; two generations are one and its successor, which is what start and restart
relate. The polled run has one generation because the convergence of one row is what it
is about; the launch of a restart, which needs a second one, and its failure (185) are in
`supervisor` and not in it. The row they leave, starting and without identity, is there by
a supervisor that ends before the launch. *TaskRuns*: a key has a keeper and a contender, and an end and a beginning can
overlap. *Heartbeat*: the limits are the smallest at which a message can be fresh, stale
and superseded, and a tick later than each; the minimum interval between heartbeats is 0,
the most permissive value, since that guard only rejects. One message on its way beside the handler, the answer and the outstanding
request already gives late ones; `maintenance` has two so that they can be reordered.
*Backups*: three rows are an old manual backup, a newer one that retention keeps, and a
safety backup; one write is enough for a copy that straddles it. *Workflows*: three
contents are the original, an edit and a second one, or one of the bot. *Incidents*:
three crashes make a loop, and with a window and a delay of one instant each a third instant lies
outside. *Console*: the buffer holds two, an answer and a queue one, so that each
overflows; `Sizes` is a list of small corners rather than one large box, since records, restarts
and changes of access multiply. *Feeds*: two instances are one and its successor; with a
limit of 0 a snapshot that is a tick old is refused, and one that is a tick old in the cache is stale.
Where a module has proofs, they hold for every value of the constants.

Several modules are not checked for deadlock (`CHECK_DEADLOCK FALSE`): once the bound of
requests, writes or events is reached and nobody asks, these parts may rest.

**Fairness.** `Supervisor`: `RequestFairness`, a request that has begun takes its next
step; the server's threads are scheduled by the operating system and each wait in a
request (`process.wait`) has a timeout. `PollingFairness` (strong): somebody keeps asking
for the status while a thread is free again and again; the dashboard and the health check
do. `DeadIsNoticed` and `LiveIsAdopted` also assume that the supervisor is not restarted
for ever (`SupervisorStays`). No fairness is assumed of operators, processes or crashes.
`TaskRuns` has weak fairness of every thread's steps (`Work`; a handler ends, since it is
under `asyncio.wait_for`) and of the dashboard's (its calls time out); its liveness
properties are about a task that stays registered. `Converges` states its fairness as its
antecedent: the policy stays, the bot lives, answers go on arriving. `Console`: a socket's
coroutine goes on, five seconds pass again and again, and the supervisor answers now and
then, strongly, since any single request may fail. `Snapshots`: the agent's loop goes on,
a request that cannot be accepted is answered, and not every request is lost. `Telemetry`:
the passes go on, and of their readings some succeed. `Backups`, `Workflows`, `Incidents`
and `Schedules` have no liveness property and assume none.

### 4.1 Where the program and its documentation disagree

*"A fresh current-instance heartbeat restores online state"* (`README.md:207`): a status
request between the two commits of a start finds a row without identity and sets
`ended_at`. The start then commits "running" and leaves `ended_at`;
`HeartbeatService.accept` rejects every heartbeat of a row that has ended, so the bot
never shows as ready until it is restarted. The run `supervisor_heard` shows it. The guild
snapshots of that bot are refused by the same condition (`guild_snapshots.py:20`), which
is why `Refreshed` is about a row that has not ended; without that, it is violated
(`ReadyRefreshed`).

The following have no run of their own. Where a definition is named, it states what the
document says, stands in its module, and TLC finds it violated when it is put in a cfg.

| document | code | definition |
|---|---|---|
| "Duplicate starts are rejected" (`README.md:153`) | the PID is committed after the launch; if the supervisor dies in between no row names the process, and the next start launches another. Two *verified* processes never coexist (`NoSupersededProcess`) | `Supervisor`, `OneProcess` |
| failed requirements "produce a safe `SKIPPED` result rather than an exception" (466) | a scheduled run of a crashed bot holds SQLite's write lock while the status request it makes must write; it raises and leaves no record | `TaskRuns`, `SkipsRecorded` |
| "Disabling a schedule prevents future automatic starts" (456) | reconciliations are not serialised: one that loaded the schedule before it was disabled adds the job after it was removed. The next undisturbed one heals (`ReconcileHeals`) | `Schedules`, `DisabledPrevents` |
| "A write starts only after the current instance is confirmed `OFFLINE`" (369) | an order that was given up on may start the bot after the confirmation | `Workflows`, `WriteOffline` |
| cleanup "always skips pinned or protected snapshots" (282) | the pin may come after the rows were loaded | `Backups`, `PinnedStays` |
| availability incidents stay open until a recovery resolves them (508), which "targets the newest matching open incident" (512) | no recovery matches `CRASH_LOOP`; a recovery that is delivered twice resolves a second incident | `Incidents`, `ReadyResolves` |
| a ready instance's snapshot is `CURRENT`, one kept while it is not connected is `CACHED` (538) | only the age decides | `Snapshots`, `CurrentIsConnected` |
| snapshots are sent on Ready, changes, periodically and on request, and replace the cache (536) | none of a bot that was looked at between the two commits of its start is taken | `Snapshots`, `ReadyRefreshed` |
| "An intentionally stopped process remains offline" (153) | a status request that selected the row before a stop and commits after it shows the bot as running or crashed until the next poll. It cannot flip the intent or the identity (`IntentByOperation`), and a later poll corrects it (`DeadIsNoticed`) | |
| "Manual execution does not change the schedule" (458) | `_finish` disables a one-time schedule at every success, whatever asked for the run (`RunEnds`) | |
| the dashboard "truthfully shows `PENDING_SYNC`" (574) | `accept` writes the applied state from the row it loaded; when it overlaps `set`, the row can claim until the next heartbeat what the gate does not have. `TruthfulUnlessRaced` excepts the overlap, `Converges` is what remains | |
| a replacement WebSocket "retrieves the supervisor's bounded history" (231); revoked subscriptions are marked for immediate revalidation (227) | while another socket of the bot is open, the cursor is theirs and a late joiner gets nothing that was already shared; a revoked socket is closed | |
| a revoked assignment withdraws access (114) | an override "allow" of the user survives it | |

## 5. Proofs

Every theorem is `Spec => ...`, for every value of the constants that the named
assumptions admit. In each proof module an inductive invariant `IInv` is shown to hold
initially and to be kept by each action, one lemma per action, one step per conjunct; the invariants and
action properties follow from it.

`SupervisorProofs` proves, for every set of threads and every number of generations,
from the assumptions that `NoThread` is not a thread and `MaxGen` a natural number:

* `Invariance`: `Spec => []IInv`;
* `TypeCorrect`, `NoSuperseded`, `SupersededQuiet`: the three invariants;
* `IntentLocked`, `SignalledWithdrawn`: the two action properties;
* `Implements`: `Spec => ImplementsLifecycle`, every step of the supervisor being a
  step of `BotLifecycle` or one that it does not see.

The invariants are not inductive: a start that has looked at the process table and
found nothing is about to insert a generation, and nothing in `NoSupersededProcess`
says that the process cannot have come back. `IInv` adds what the code relies on:
`ControlInv` (an operation is in progress exactly while its thread holds the lock),
`SessionInv` (the lock holder's session is about the newest row and agrees with it on
intent and identity, however stale its state), `StatusInv` (a status session never has
an intent or identity to write), `PhaseInv` (what each step has established for the
next, for instance that before an insert the newest generation has no verified
process) and `RowInv`. There is one lemma per action; the lemmas `CommitEffect`,
`CommitReturn` and `ReturnEffect` are shared by the actions that commit or return. The
action properties and the refinement go through `StepKinds`: each step is quiet (it at
most withdraws the intent, under the lock), changes a process, records an identity or
inserts a generation.

`TaskRunsProofs` proves for every number of runs and both policies, from
`MaxRuns \in Nat` and `ForbidOverlap \in BOOLEAN`: `Exclusion` (`NoOverlap`),
`KeyAccounting`, `Completion` (`CompletedIsRecorded`), `EndsOnce` (`EndIsFinal`) and the
type invariant. `NoOverlap` alone is not inductive: it must be known that a free key has
no keeper (`KeyAccounted`), that there is one keeper (`OneKeeper`), and what each step of
a thread knows of its row (`StepInv`). Lemmas: a thread moves within its claim, a
thread claims, a thread releases, the dashboard's steps, a restart.

`HeartbeatProofs` proves for every limit, number of messages and environment:

* `OnlineRecent` (`OnlineIsRecent`). The argument is about ages: what says "ready" is no
  younger than the bot's last being ready (`SentAge`, `ServingAge`, `RowAge`), a row has been
  heard of within the skew of its last message, and a status session that loaded the row
  carries the bound on (`LookingAge`); before a launch nothing speaks for the new
  generation (`Unlaunched`).
* `GateAtLaunch` (`GateFromLaunch`) and `GateFollows` (`GateFollowsPolicy`). The agent has
  one request out (`RequestInv`), and what is on its way to it is a policy in force since it
  was sent (`OfferedInv`), the launch's while that stays (`SettledInv`).
* `AppliedIsTrue` (`TruthfulUnlessRaced`). The property says nothing while sessions are
  open, so it is not inductive; `TruthInv` says what holds meanwhile. A message that
  awaits an answer is the youngest (`YoungestInv`); hence one that could still be accepted
  was sent with the gate of now, and no policy is on its way to the agent (`GateInv`):
  when the agent learns a policy, the message it learned from is the row's last, and older
  ones are refused. A session that was not overlapped holds the policy as it is
  (`ServingTruth`, `SettingTruth`), so its commit writes what is true; and a policy that
  looks applied is also in the answer on its way and in the launch in progress
  (`AppliedTruth`).
* `StaysConverged` (`ConvergedStays`). `Converges`, which needs fairness, says that policy,
  gate and applied state come together; this says that no late heartbeat takes them apart,
  and it rests on `GateInv`.

`SchedulesProofs` proves for every set of threads and environment: `Heals`
(`ReconcileHeals`) and `AllOrNothing` (`ConfigureAllOrNothing`). The invariant says for each
step of an undisturbed reconciliation what it has established (`Undisturbed`: its session
agrees with the row, its decision is the current one, and after the engine's step the job
is what it wants; at the check of a configure the two agree), and likewise for a configure
that nobody writes under (`Unshared`: what it will write, and then what the row stores, is
what it was asked for). `AllOrNothing` needs both: the job of an enabled schedule is there
if the reconciliation was undisturbed as well, since a bot that is enabled, or an instant
that passes, after the load is for the next reconciliation. One
lemma per action of a request gives its `Effect` on its own session; a session that is not
its own is a `Bystander`.

`BotDataProofs` proves of `Backups`, for every number of requests, every `Limit` above 0
and every number of backups and writes:

* `Recoverable` (`AbsenceIsRecoverable`). The property alone is not inductive: it must
  be known which safety backup a missing directory depends on, that it is its request's
  own (`OwnInv`), that retention works on manual rows only, that the one who replaces has
  the data lock (`LockInv`), what both directories hold at each step of a replacement
  (`PlaceInv`), and that the report does not lift the protection of the backup before
  the data is whole (`AbsenceInv`). What it promises is that an archive is there:
  `restore` itself raises while the directory is missing (`source_root`), so that somebody
  has to bring it back from the archive by other means.
* `NewestPreserved` (`PreservesNewest`). `RetentionInv`: what a cleanup has loaded keeps
  `Limit` newer manual rows, although other cleanups remove rows with sets loaded earlier
  or later. The lemma `Removing` is the reason: if each removed row has `Limit` newer ones,
  those that follow the newest removed row are not removed, and there are `Limit` of them.
  Every other step keeps the manual rows and their archives (`StepKeeps`).
* `Implements` (`ImplementsReplace`): each step is one of `AtomicReplace` or is not seen
  by it. The mapping: the data is the live directory or, while that is missing, the
  rollback directory that will be put back; a replacement has begun once both are there,
  and has settled once the rollback directory is gone and its request has yet to commit.
  A rollback directory that a crash has stranded counts as the data, although nothing in
  the program looks for it.

and of `Workflows`, for every number of requests and writes: `LocksHeld` (`WorkflowLockInv`:
who is between taking and giving back a lock is its holder; only `ActionLeaks` keeps one),
`NoneLost` (`NoLostUpdate`), `RestartedValid` (`RestartsOnlyValid`) and `Truthful`
(`OperationTruthful`). `RestartsOnlyValid` is about the restart that is a stage of an
offline edit, not about those by its handler or by a restore, and `OperationTruthful` about
the operations of edits. `ChangeInv` says what the holder of the data lock knows of the data
it wrote, and `NumberInv` that the token of a request is no newer than the data.

`FeedsProofs` proves of `Snapshots`, for every set of guilds, every limit and number of
instances: `AddsUp` (`ActivityAddsUp`) and `Recent` (`CurrentIsRecent`), from `CacheInv`, which adds to
both that a row which is not stale was accepted in time.

and of `Telemetry`, for every limit and number of instances: `Handled`
(`SampleHasHandle`) and `WasAlive` (`AvailableWasAlive`). The argument is about ages:
a pass bears the time of its beginning and reads the process later, so its target was
alive no longer ago than that (`PassInv`), and so a sample is at least as old as the last
sign of life of its instance (`AliveInv`).

`IncidentsProofs` proves for every set of sessions, any number of events and any bounds:
`EventOnce` (`DeliveredOnce`), `LoopsAreThree` (`LoopIsThreeCrashes`) and `HistoryKept`
(`HistoryStays`). It assumes `Delay <= Window`: what waits to be written waits at most
SQLite's busy timeout, seconds where the window is five minutes. `IInv` adds that an event
is known by its id (`LogInv`), that nothing is from the future and nothing waits longer
than the delay (`ClockInv`), and what the numbers are (`NumberInv`: the next is the length
plus one, so that of two requests that counted the same rows one must fail). A `Publish`
changes nothing, resolves an incident or records one (`PublishCases`); most other steps
leave the tables alone (`QuietStep`). For the loops, counting is done once
(`TwoOthers`, `ThreeOf`, `ThreeWith`): a set of at least three holds three that include a
given one; and `Spread` bounds how far apart they are, from which the `Window + Delay` of
the property comes.

`ConsoleProofs` proves for every finite set of sockets and every size of buffer, answer
and queue above 0:

* `AllShared` (`NothingMissed`), `SentInOrder` (`InOrder`) and `SubscriptionsKept`
  (`SubscriptionsAreSockets`). A queue is bounded, and empty where nobody is subscribed
  (`QueueInv`); the fan-out keeps what a queue has, and adds all or revokes
  (`OfferedEffect`). What it adds goes from the first record beyond the cursor to the last
  of the answer, where the cursor then is (`BeyondEffect`). That the first of it follows
  the record at the cursor (`FirstBeyond`) depends on the place the answer was asked
  from: hence `AnswerInv` (what an answer covers, given that place) and `CursorInv` (unless runs have
  crossed, the place is not beyond the cursor). Then what lies between was dropped by the
  broker, and stays so (`FollowsKept`).
* `SendsOrdered` (`SendsInOrder`): the same of what a socket sends, one record after
  another.
* `NoneAhead` (`NotAhead`): no number of one run is kept for another, across restarts of
  the supervisor. It is the safety half of `CatchesUp`: a cursor ahead of its run would
  wait in vain.

`Shapes` and `ReceiveShape` say once what each step leaves of a socket's queue, of the
cursor and of `crossed`; the lemmas above are about those shapes and not about actions.

Only model-checked is what needs fairness, which is out of the prover's reach:
`LockReleased`, `DeadIsNoticed`, `LiveIsAdopted`, `RunEnds`, `OperationSettles`,
`Converges`, `AccessEnforced`, `CatchesUp`, `Refreshed`, `Sampled` and `Forgotten`.
`CurrentInstanceHeard` is violated. Every other property of the runs, each invariant,
action property and refinement, is stated by a theorem. Conversely, the type invariants,
`SubscriptionsAreSockets`, `NotAhead`, `SendsInOrder` and `ConvergedStays` are listed in
no run since they are proved; TLC found them true on the instances of the runs first.

## 6. Not modelled

Some faults of the code are in the models and caught by no property, since the properties
would be false. A run whose task is no longer registered when it begins stays queued
(`BeginManual`): `RunEnds` and `OperationSettles` are about a task that stays registered.
The race of a reconciliation with a toggle is `DisabledPrevents`, of which `ReconcileHeals`
is what remains. An older snapshot may overwrite a newer one until the next is accepted.

* "database is locked" and other failures of a commit in the supervisor's requests.
* Several bots: rows, locks and processes are per bot.
* Zombies and PID reuse: `_identity_valid` is what the code computes when creation times
  are exact; its 20 ms tolerance is not modelled.
* The environment and secrets of a launch; the payloads.
* Several tasks: keys, rows and jobs are per task. Handlers' results, the history limit
  and the texts of runs.
* In `Heartbeat`: a restart of the supervisor between launch and commit (it is in
  `Supervisor`), the resolver's inputs "disabled", "crash loop" and "unknown", the first
  creation of the maintenance row, bypass rules and events.
* In `Schedules`: tasks that forbid disabling or editing (fewer requests of the same
  kind), a trigger that raises after the job was counted as expected, the grace time of
  a missed firing.
* In `Backups`: hashing, tar members and include patterns (an archive is intact or it is
  not), the retention of the kinds that nothing creates, preview and download.
* In `Workflows`: reading, listing, queries and the rules for single values, which change
  nothing.
* In `Incidents`: the texts and fingerprints of error groups. In `Console`: redaction,
  truncation, the log file, the limits per bot. In `Telemetry`: the history of samples. In
  `Snapshots`: the single diagnostics of a guild, and the bot being disabled.
* Login, the permission catalogue, the pages, and the components listed as
  `not_modelled` in `PROJECT.json`: wiring, schemas and static files.
