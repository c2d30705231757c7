------------------------------- MODULE TaskRuns -------------------------------
(***************************************************************************)
(* The runs of one scheduled task of one bot: SchedulerService.enqueue,    *)
(* execute, _precondition, _finish and _recover_interrupted                *)
(* (src/app/scheduler/service.py) in the threads of the supervisor, and    *)
(* the dashboard's run_task (src/app/scheduler/routes.py), which records   *)
(* an operation and calls the supervisor with a short timeout.             *)
(*                                                                         *)
(* Runs are numbered in the order in which they are asked for; each has    *)
(* its own thread.  A run is manual (it has an operation) or scheduled (it *)
(* has none, and its row appears only with the first commit of execute).   *)
(* The set _running is one flag for this task, held.                       *)
(***************************************************************************)
EXTENDS Naturals

CONSTANTS
  ForbidOverlap,  \* the task's concurrency policy is FORBID_OVERLAP
  MaxRuns         \* bound: runs that are ever asked for

ASSUME PolicyAssumption == ForbidOverlap \in BOOLEAN
ASSUME MaxRunsAssumption == MaxRuns \in Nat

VARIABLES
  registered,  \* the bot's adapter still exposes the task
  bot,         \* what _precondition finds out about the bot
  held,        \* the task's key is in _running
  asked,       \* number of runs asked for so far
  run,         \* task_runs.status by run
  op,          \* operations.status by run
  call,        \* the dashboard's HTTP call by run
  pc,          \* the run's thread in the supervisor
  result       \* what the handler came to

vars == <<registered, bot, held, asked, run, op, call, pc, result>>

-------------------------------------------------------------------------------
Runs == 1 .. MaxRuns

\* The task requires the process.  Unfit: disabled, in maintenance or stopped.
\* Crashed: expected to run and gone, so that each status request writes to the
\* database (it publishes BOT_CRASHED).
BotStates == {"ready", "unfit", "crashed"}
Results   == {"success", "failed", "timed_out"}
Final     == Results \cup {"skipped", "interrupted"}
Statuses  == Final \cup {"none", "queued", "running"}
Calls     == {"none", "sent", "accepted", "refused", "closed", "abandoned"}

\* Threads that have put the key into _running and will take it out.
Claimed == {"received", "queued", "begun", "handler", "ending", "release"}
Keepers == Claimed \cup {"leaked"}
Steps   == Claimed \cup {"none", "leaked", "done"}

Manual(i) == op[i] # "none"

Goto(i, step) == pc' = [pc EXCEPT ![i] = step]
Status(i, s)  == run' = [run EXCEPT ![i] = s]
Settle(i, s)  == op' = IF Manual(i) THEN [op EXCEPT ![i] = s] ELSE op

\* The policy lets this attempt in.
Free == ~(ForbidOverlap /\ held)

-------------------------------------------------------------------------------
\* The dashboard commits an operation and sends the request.
RequestRun ==
  /\ asked < MaxRuns
  /\ asked' = asked + 1
  /\ op' = [op EXCEPT ![asked + 1] = "running"]
  /\ call' = [call EXCEPT ![asked + 1] = "sent"]
  /\ UNCHANGED <<registered, bot, held, run, pc, result>>

\* The answer reaches the dashboard: a refusal fails the operation, a
\* success leaves it to the run.
DashboardLearns(i) ==
  /\ call[i] \in {"accepted", "refused"}
  /\ call' = [call EXCEPT ![i] = "closed"]
  /\ op' = IF call[i] = "refused" THEN [op EXCEPT ![i] = "failed"] ELSE op
  /\ UNCHANGED <<registered, bot, held, asked, run, pc, result>>

\* The call times out or loses its connection; the supervisor may have
\* received the request, or may still.
DashboardTimesOut(i) ==
  /\ call[i] \in {"sent", "accepted", "refused"}
  /\ call' = [call EXCEPT ![i] = "abandoned"]
  /\ op' = [op EXCEPT ![i] = "failed"]
  /\ UNCHANGED <<registered, bot, held, asked, run, pc, result>>

Answer(i, answer) ==
  call' = [call EXCEPT ![i] = IF @ = "sent" THEN answer ELSE @]

\* A faulty enqueue that only looks at the key, without taking it.
FaultyEnqueueLooks(i) ==
  /\ call[i] \in {"sent", "abandoned"}
  /\ pc[i] = "none"
  /\ registered /\ Free
  /\ Goto(i, "received")
  /\ UNCHANGED <<registered, bot, held, asked, run, op, call, result>>

\* enqueue: the check of the key and its claim are one step, under _guard.
Enqueue(i) ==
  /\ call[i] \in {"sent", "abandoned"}
  /\ pc[i] = "none"
  /\ \/ /\ registered /\ Free
        /\ held' = TRUE
        /\ Goto(i, "received")
        /\ UNCHANGED call
     \/ /\ ~(registered /\ Free)
        /\ Goto(i, "done")
        /\ Answer(i, "refused")
        /\ UNCHANGED held
  /\ UNCHANGED <<registered, bot, asked, run, op, result>>

\* The queued row is committed and the thread started.
EnqueueCommits(i) ==
  /\ pc[i] = "received"
  /\ Status(i, "queued")
  /\ Goto(i, "queued")
  /\ Answer(i, "accepted")
  /\ UNCHANGED <<registered, bot, held, asked, op, result>>

\* The commit raises: nothing takes the key out of _running again.
EnqueueFails(i) ==
  /\ pc[i] = "received"
  /\ Goto(i, "leaked")
  /\ Answer(i, "refused")
  /\ UNCHANGED <<registered, bot, held, asked, run, op, result>>

\* APScheduler fires the task's job (one instance of it at a time): an attempt
\* that the policy refuses is recorded as skipped, any other claims the key
\* and inserts its row, not yet committed.
Tick ==
  /\ asked < MaxRuns
  /\ registered
  /\ \A j \in 1 .. asked : ~Manual(j) => pc[j] = "done"
  /\ asked' = asked + 1
  /\ \/ /\ Free
        /\ held' = TRUE
        /\ Goto(asked + 1, "begun")
        /\ UNCHANGED run
     \/ /\ ~Free
        /\ Status(asked + 1, "skipped")
        /\ Goto(asked + 1, "done")
        /\ UNCHANGED held
  /\ UNCHANGED <<registered, bot, op, call, result>>

-------------------------------------------------------------------------------
Skip(i) ==
  /\ Status(i, "skipped")
  /\ Settle(i, "completed")
  /\ Goto(i, "release")

RunHandler(i) ==
  /\ Status(i, "running")
  /\ Goto(i, "handler")
  /\ UNCHANGED op

\* A faulty start that drops a run whose bot does not meet the requirements.
FaultyBeginManualDrops(i) ==
  /\ pc[i] = "queued"
  /\ \/ /\ bot = "ready"
        /\ RunHandler(i)
     \/ /\ bot # "ready"
        /\ Goto(i, "release")
        /\ UNCHANGED <<run, op>>
  /\ UNCHANGED <<registered, bot, held, asked, call, result>>

\* A faulty start that leaves a skipped run's operation alone.
FaultyBeginManualUnsettled(i) ==
  /\ pc[i] = "queued"
  /\ \/ /\ bot = "ready"
        /\ RunHandler(i)
     \/ /\ bot # "ready"
        /\ Status(i, "skipped")
        /\ Goto(i, "release")
        /\ UNCHANGED op
  /\ UNCHANGED <<registered, bot, held, asked, call, result>>

\* execute of a queued run: a task no longer registered is dropped without a
\* trace, a failed precondition is recorded as skipped, otherwise the run is
\* committed as running.
BeginManual(i) ==
  /\ pc[i] = "queued"
  /\ \/ /\ ~registered
        /\ Goto(i, "release")
        /\ UNCHANGED <<run, op>>
     \/ /\ registered /\ bot # "ready"
        /\ Skip(i)
     \/ /\ registered /\ bot = "ready"
        /\ RunHandler(i)
  /\ UNCHANGED <<registered, bot, held, asked, call, result>>

\* execute of a scheduled run holds SQLite's write lock since it inserted its
\* row.  The status request of _precondition has a session of its own: for a
\* crashed bot it must write, waits for the lock held by its own caller, and
\* raises; the row is rolled back.
BeginScheduled(i) ==
  /\ pc[i] = "begun"
  /\ \/ /\ bot = "crashed"
        /\ Goto(i, "release")
        /\ UNCHANGED <<run, op>>
     \/ /\ bot = "unfit"
        /\ Skip(i)
     \/ /\ bot = "ready"
        /\ RunHandler(i)
  /\ UNCHANGED <<registered, bot, held, asked, call, result>>

\* The handler returns, raises, or is cut off by its timeout.
HandlerEnds(i) ==
  /\ pc[i] = "handler"
  /\ \E r \in Results : result' = [result EXCEPT ![i] = r]
  /\ Goto(i, "ending")
  /\ UNCHANGED <<registered, bot, held, asked, run, op, call>>

\* A faulty _finish that completes every operation.
FaultyFinishCompletes(i) ==
  /\ pc[i] = "ending"
  /\ Status(i, result[i])
  /\ Settle(i, "completed")
  /\ Goto(i, "release")
  /\ UNCHANGED <<registered, bot, held, asked, call, result>>

\* _finish: the run's status and its operation's in one commit.
Finish(i) ==
  /\ pc[i] = "ending"
  /\ Status(i, result[i])
  /\ Settle(i, IF result[i] = "success" THEN "completed" ELSE "failed")
  /\ Goto(i, "release")
  /\ UNCHANGED <<registered, bot, held, asked, call, result>>

\* A faulty end without "finally".
FaultyReleaseKeeps(i) ==
  /\ pc[i] = "release"
  /\ Goto(i, "done")
  /\ UNCHANGED <<registered, bot, held, asked, run, op, call, result>>

\* "finally": the key leaves _running.
Release(i) ==
  /\ pc[i] = "release"
  /\ held' = FALSE
  /\ Goto(i, "done")
  /\ UNCHANGED <<registered, bot, asked, run, op, call, result>>

-------------------------------------------------------------------------------
Interrupted(i) == IF run[i] \in {"queued", "running"} THEN "interrupted" ELSE run[i]

\* A faulty recovery, run while the workers are still there.
FaultyRestartLate ==
  /\ run' = [i \in Runs |-> Interrupted(i)]
  /\ UNCHANGED <<registered, bot, held, asked, op, call, pc, result>>

\* The supervisor dies with its threads and its memory, and _recover_interrupted
\* closes what they left before any request is served.
SupervisorRestarts ==
  /\ run' = [i \in Runs |-> Interrupted(i)]
  /\ held' = FALSE
  /\ pc' = [i \in Runs |-> IF pc[i] = "none" THEN "none" ELSE "done"]
  /\ UNCHANGED <<registered, bot, asked, op, call, result>>

\* An administrator changes the bot's adapter.
AdapterChanges ==
  /\ registered' = ~registered
  /\ UNCHANGED <<bot, held, asked, run, op, call, pc, result>>

\* The bot is started, stopped, crashes, is disabled or put into maintenance.
BotChanges ==
  /\ \E b \in BotStates : bot' = b
  /\ UNCHANGED <<registered, held, asked, run, op, call, pc, result>>

-------------------------------------------------------------------------------
Init ==
  /\ registered = TRUE
  /\ bot = "ready"
  /\ held = FALSE
  /\ asked = 0
  /\ run  = [i \in Runs |-> "none"]
  /\ op   = [i \in Runs |-> "none"]
  /\ call = [i \in Runs |-> "none"]
  /\ pc   = [i \in Runs |-> "none"]
  /\ result = [i \in Runs |-> "none"]

\* The steps of a run's thread.
Work(i) ==
  \/ EnqueueCommits(i) \/ EnqueueFails(i)
  \/ BeginManual(i) \/ BeginScheduled(i)
  \/ HandlerEnds(i) \/ Finish(i) \/ Release(i)

\* The steps of the dashboard's call.
Dashboard(i) == DashboardLearns(i) \/ DashboardTimesOut(i)

Next ==
  \/ RequestRun
  \/ Tick
  \/ \E i \in Runs : Enqueue(i) \/ Work(i) \/ Dashboard(i)
  \/ SupervisorRestarts
  \/ AdapterChanges
  \/ BotChanges

Spec == Init /\ [][Next]_vars

\* Threads are scheduled, every handler has a timeout, and so has the call.
Fairness == \A i \in Runs : WF_vars(Work(i)) /\ WF_vars(Dashboard(i))

FairSpec == Spec /\ Fairness

-------------------------------------------------------------------------------
TypeOK ==
  /\ registered \in BOOLEAN
  /\ bot \in BotStates
  /\ held \in BOOLEAN
  /\ asked \in 0 .. MaxRuns
  /\ run \in [Runs -> Statuses]
  /\ op \in [Runs -> {"none", "running", "completed", "failed"}]
  /\ call \in [Runs -> Calls]
  /\ pc \in [Runs -> Steps]
  /\ result \in [Runs -> Results \cup {"none"}]

\* A task that forbids overlap has one worker at a time: manual runs and ticks
\* racing for the key, and runs ending while others begin, never put two
\* threads between the claim and the release.
NoOverlap ==
  ForbidOverlap =>
    \A i, j \in Runs : pc[i] \in Claimed /\ pc[j] \in Claimed => i = j

\* The key is in _running for a reason: a thread that will take it out, or an
\* enqueue that failed after its claim (the one way to lose the key until the
\* supervisor restarts).
KeyAccounted ==
  ForbidOverlap => (held <=> \E i \in Runs : pc[i] \in Keepers)

\* An operation shown as completed has a run that succeeded or was skipped, in
\* spite of timeouts of the dashboard and restarts of the supervisor.
CompletedIsRecorded ==
  \A i \in Runs : op[i] = "completed" => run[i] \in {"success", "skipped"}

\* A run recorded as running is being worked on: what the history shows as in
\* progress is, across restarts and errors.
InProgressIsWorked ==
  \A i \in Runs : run[i] = "running" => pc[i] \in {"handler", "ending"}

\* A run's end is recorded once: in particular a run interrupted by a restart
\* is never reported successful afterwards.
EndIsFinal ==
  [][\A i \in Runs : run[i] \in Final => run'[i] = run[i]]_vars

\* What each step of a thread knows about its run, and that nothing is known of
\* runs not yet asked for.
StepInv ==
  \A i \in Runs :
    /\ pc[i] \in {"none", "received", "begun", "leaked"} => run[i] = "none"
    /\ pc[i] = "queued" => run[i] = "queued"
    /\ pc[i] \in {"handler", "ending"} => run[i] = "running"
    /\ pc[i] = "ending" => result[i] \in Results
    /\ i > asked => pc[i] = "none" /\ op[i] = "none" /\ call[i] = "none"

\* The key of a task that forbids overlap has one keeper.
OneKeeper ==
  ForbidOverlap =>
    \A i, j \in Runs : pc[i] \in Keepers /\ pc[j] \in Keepers => i = j

\* The inductive invariant.
IInv ==
  /\ TypeOK
  /\ OneKeeper
  /\ StepInv
  /\ NoOverlap
  /\ KeyAccounted
  /\ CompletedIsRecorded
  /\ InProgressIsWorked

\* Every run comes to an end that is recorded, as long as the task stays
\* registered.
RunEnds ==
  []registered => \A i \in Runs : run[i] \in {"queued", "running"} ~> run[i] \in Final

\* Every operation is settled, by its run or by the dashboard that was refused or
\* gave up, as long as the task stays registered.  The exception is the
\* operation of an interrupted run, which nothing settles.
OperationSettles ==
  []registered =>
    \A i \in Runs : op[i] = "running" ~> op[i] # "running" \/ run[i] = "interrupted"

\* "failed requirements produce a safe SKIPPED result rather than an exception":
\* a thread that gives up before its handler leaves a finished run behind.
SkipsRecorded ==
  [][registered => \A i \in Runs :
       pc[i] \in {"queued", "begun"} /\ pc'[i] = "release" => run'[i] \in Final]_vars
===============================================================================
