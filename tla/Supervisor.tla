------------------------------ MODULE Supervisor ------------------------------
(***************************************************************************)
(* The process supervisor for one bot: SupervisorService.start, stop,      *)
(* restart, status/reconcile (src/app/supervisor/service.py) run by the    *)
(* threads of the supervisor's HTTP server, the bot's rows in              *)
(* bot_instances, and the operating-system processes behind them.  The     *)
(* heartbeat columns of a row are the subject of Heartbeat.tla.            *)
(*                                                                         *)
(* Everything in the code is keyed by the bot's id (rows, locks), so one   *)
(* bot is modelled and bots do not interact.  A request is cut into steps  *)
(* at the points where another thread can observe or change what it uses:  *)
(* the SELECT of the current row, each look at the process table, each     *)
(* commit, the signal and the launch.  A session is what SQLAlchemy keeps: *)
(* the row as loaded (seen) and as modified (work); a commit writes only   *)
(* the columns in which the two differ.  status and reconcile take no      *)
(* lock; start, stop and restart hold the bot's lock from their SELECT to  *)
(* their return.                                                           *)
(***************************************************************************)
EXTENDS Naturals

CONSTANTS
  Threads,   \* worker threads serving requests
  NoThread,  \* the lock is free
  MaxGen     \* bound: rows (generations) that can be inserted

ASSUME ThreadsAssumption == NoThread \notin Threads
ASSUME MaxGenAssumption  == MaxGen \in Nat

VARIABLES
  enabled,  \* bots.enabled, edited from the dashboard
  rows,     \* committed bot_instances rows, by generation
  last,     \* id of the newest row, 0 when there is none
  proc,     \* the process launched for each generation
  lock,     \* holder of the per-bot operation lock
  op,       \* the request a thread serves
  pc,       \* where the thread is in it
  sid,      \* generation of the row in the thread's session
  seen,     \* that row as the session loaded or last committed it
  work      \* that row as the session has modified it

vars == <<enabled, rows, last, proc, lock, op, pc, sid, seen, work>>

-------------------------------------------------------------------------------
Gens       == 1 .. MaxGen
ActiveStates == {"running", "starting", "stopping", "restarting"}
States     == ActiveStates \cup {"offline", "crashed", "unknown"}
Operations == {"start", "stop", "restart"}
Steps      == {"check", "verify", "commit", "signal", "final",
               "insert", "spawn", "record"}

\* The columns the supervisor's decisions read.  identity: pid and creation
\* time are filled in; ended: ended_at is.
Row == [state: States, expected: BOOLEAN, identity: BOOLEAN, ended: BOOLEAN]

StartingRow == [state |-> "starting", expected |-> TRUE, identity |-> FALSE,
                ended |-> FALSE]
NoRow == [state |-> "offline", expected |-> FALSE, identity |-> FALSE,
          ended |-> FALSE]

\* _identity_valid: the recorded process exists and is the one launched for
\* the row.  The creation time makes a reused PID fail, so the process that
\* can match is the generation's own.
IdentityValid(row, g) == row.identity /\ proc[g] = "alive"

\* A faulty _reconcile_row that adopts only what is expected to run.
FaultyReconciledExpected(row, valid) ==
  [row EXCEPT !.state = IF row.expected
                        THEN IF valid THEN "running" ELSE "crashed"
                        ELSE IF row.state \in ActiveStates THEN "offline" ELSE @]

\* _reconcile_row.  (It also clears the heartbeat columns of a stale row.)
Reconciled(row, valid) ==
  IF valid
  THEN [row EXCEPT !.state = "running"]
  ELSE IF row.state \in ActiveStates \/ row.expected
  THEN [row EXCEPT !.state = IF row.expected THEN "crashed" ELSE "offline",
                   !.ended = TRUE]
  ELSE row

\* A faulty commit that writes back every column of the row as loaded.
FaultyWrittenWhole(base, old, new) == new

\* A commit's UPDATE: only the columns the session changed.
Written(base, old, new) ==
  [state    |-> IF new.state # old.state THEN new.state ELSE base.state,
   expected |-> IF new.expected # old.expected THEN new.expected ELSE base.expected,
   identity |-> IF new.identity # old.identity THEN new.identity ELSE base.identity,
   ended    |-> IF new.ended # old.ended THEN new.ended ELSE base.ended]

CommittedRow(t, new) == Written(rows[sid[t]], seen[t], new)

-------------------------------------------------------------------------------
At(t, step) == pc[t] = step

Goto(t, step) == pc' = [pc EXCEPT ![t] = step]

\* The session after a SELECT or a commit: nothing pending.
Clean(t, g, row) ==
  /\ sid'  = [sid EXCEPT ![t] = g]
  /\ seen' = [seen EXCEPT ![t] = row]
  /\ work' = [work EXCEPT ![t] = row]

\* The session's row modified but not committed.
Modify(t, row) ==
  /\ work' = [work EXCEPT ![t] = row]
  /\ UNCHANGED <<op, sid, seen>>

\* Commit the session's row as new.
Commit(t, new) ==
  /\ rows' = [rows EXCEPT ![sid[t]] = CommittedRow(t, new)]
  /\ UNCHANGED <<enabled, last>>

\* The request returns or raises: session closed, lock released by "finally".
Return(t) ==
  /\ Goto(t, "idle")
  /\ op' = [op EXCEPT ![t] = "none"]
  /\ Clean(t, 0, NoRow)
  /\ lock' = IF lock = t THEN NoThread ELSE lock

-------------------------------------------------------------------------------
\* A faulty operation that does not look at the lock.
FaultyBeginUnlocked(t, o) ==
  /\ At(t, "idle")
  /\ o # "start" => last > 0
  /\ Goto(t, IF last > 0 THEN "check" ELSE "insert")
  /\ lock' = t
  /\ op' = [op EXCEPT ![t] = o]
  /\ Clean(t, last, IF last > 0 THEN rows[last] ELSE NoRow)
  /\ UNCHANGED <<enabled, rows, last, proc>>

\* status, reconcile and health: SELECT the current row without the lock.
\* With no row they change nothing.
BeginStatus(t) ==
  /\ At(t, "idle")
  /\ last > 0
  /\ Goto(t, "check")
  /\ op' = [op EXCEPT ![t] = "status"]
  /\ Clean(t, last, rows[last])
  /\ UNCHANGED <<enabled, rows, last, proc, lock>>

\* start, stop and restart: take the lock or raise SupervisorConflict, then
\* SELECT.  A disabled bot is not started; a bot without a row is not
\* stopped or restarted.
BeginOperation(t, o) ==
  /\ At(t, "idle")
  /\ lock = NoThread
  /\ o = "start" => enabled
  /\ o # "start" => last > 0
  /\ lock' = t
  /\ op' = [op EXCEPT ![t] = o]
  /\ \/ /\ last > 0
        /\ Goto(t, "check")
        /\ Clean(t, last, rows[last])
     \/ /\ last = 0
        /\ Goto(t, "insert")
        /\ UNCHANGED <<sid, seen, work>>
  /\ UNCHANGED <<enabled, rows, last, proc>>

\* The look at the process table by _reconcile_row, in each request.
Observed(t) == Reconciled(seen[t], IdentityValid(seen[t], sid[t]))

\* A faulty status request that reports the stored row without looking.
FaultyStatusTrustsRow(t) ==
  /\ At(t, "check")
  /\ op[t] = "status"
  /\ Goto(t, "commit")
  /\ UNCHANGED <<enabled, rows, last, proc, lock, op, sid, seen, work>>

StatusCheck(t) ==
  /\ At(t, "check")
  /\ op[t] = "status"
  /\ Modify(t, Observed(t))
  /\ Goto(t, "commit")
  /\ UNCHANGED <<enabled, rows, last, proc, lock>>

\* A faulty start that forgets to withdraw the previous generation's intent.
FaultyStartKeepsIntent(t) ==
  /\ At(t, "check")
  /\ op[t] = "start"
  /\ LET row == Observed(t) IN
     /\ Modify(t, row)
     /\ Goto(t, IF row.state \in ActiveStates THEN "commit" ELSE "insert")
  /\ UNCHANGED <<enabled, rows, last, proc, lock>>

\* A faulty start that trusts the stored state and not the process table.
FaultyStartTrustsRow(t) ==
  /\ At(t, "check")
  /\ op[t] = "start"
  /\ Modify(t, [seen[t] EXCEPT !.expected = FALSE])
  /\ Goto(t, IF seen[t].state \in ActiveStates THEN "commit" ELSE "insert")
  /\ UNCHANGED <<enabled, rows, last, proc, lock>>

\* A generation that still counts as active refuses the start, after
\* committing what the look found; any other is no longer expected to run.
StartCheck(t) ==
  /\ At(t, "check")
  /\ op[t] = "start"
  /\ LET row == Observed(t) IN
     \/ /\ row.state \in ActiveStates
          /\ Modify(t, row)
          /\ Goto(t, "commit")
     \/ /\ row.state \notin ActiveStates
          /\ Modify(t, [row EXCEPT !.expected = FALSE])
          /\ Goto(t, "insert")
  /\ UNCHANGED <<enabled, rows, last, proc, lock>>

\* Stopping what is not running only records the intent.
StopCheck(t) ==
  /\ At(t, "check")
  /\ op[t] = "stop"
  /\ LET row == Observed(t) IN
     \/ /\ row.state = "running"
          /\ Modify(t, row)
          /\ Goto(t, "verify")
     \/ /\ row.state # "running"
          /\ Modify(t, [row EXCEPT !.expected = FALSE, !.state = "offline"])
          /\ Goto(t, "commit")
  /\ UNCHANGED <<enabled, rows, last, proc, lock>>

\* Restarting what is not running raises, and the session is rolled back.
RestartCheck(t) ==
  /\ At(t, "check")
  /\ op[t] = "restart"
  /\ LET row == Observed(t) IN
     \/ /\ row.state = "running"
          /\ Modify(t, row)
          /\ Goto(t, "verify")
          /\ UNCHANGED lock
     \/ /\ row.state # "running"
          /\ Return(t)
  /\ UNCHANGED <<enabled, rows, last, proc>>

\* The second identity check, immediately before the intent is withdrawn.
StopVerify(t) ==
  /\ At(t, "verify")
  /\ op[t] = "stop"
  /\ \/ /\ IdentityValid(work[t], sid[t])
        /\ Modify(t, [work[t] EXCEPT !.state = "stopping", !.expected = FALSE])
     \/ /\ ~IdentityValid(work[t], sid[t])
        /\ Modify(t, [work[t] EXCEPT !.state = "unknown"])
  /\ Goto(t, "commit")
  /\ UNCHANGED <<enabled, rows, last, proc, lock>>

\* A faulty restart that leaves the old generation expected to run.
FaultyRestartKeepsIntent(t) ==
  /\ At(t, "verify")
  /\ op[t] = "restart"
  /\ IdentityValid(work[t], sid[t])
  /\ Modify(t, [work[t] EXCEPT !.state = "restarting"])
  /\ Goto(t, "commit")
  /\ UNCHANGED <<enabled, rows, last, proc, lock>>

RestartVerify(t) ==
  /\ At(t, "verify")
  /\ op[t] = "restart"
  /\ \/ /\ IdentityValid(work[t], sid[t])
        /\ Modify(t, [work[t] EXCEPT !.state = "restarting", !.expected = FALSE])
        /\ Goto(t, "commit")
        /\ UNCHANGED lock
     \/ /\ ~IdentityValid(work[t], sid[t])
        /\ Return(t)
  /\ UNCHANGED <<enabled, rows, last, proc>>

-------------------------------------------------------------------------------
\* The first commit is followed by a signal: always in restart, which has
\* verified its process, and in stop when it has.
Signals(t) ==
  \/ op[t] = "restart"
  \/ op[t] = "stop" /\ work[t].state = "stopping"

\* The commit that ends a status request, a refused start, a stop of
\* something that was not running, and a stop that raises IdentityMismatch.
CommitAndReturn(t) ==
  /\ At(t, "commit")
  /\ ~Signals(t)
  /\ Commit(t, work[t])
  /\ Return(t)
  /\ UNCHANGED proc

\* The commit before the signal: "stopping" or "restarting", no longer expected.
CommitAndSignal(t) ==
  /\ At(t, "commit")
  /\ Signals(t)
  /\ Commit(t, work[t])
  /\ Clean(t, sid[t], work[t])
  /\ Goto(t, "signal")
  /\ UNCHANGED <<proc, lock, op>>

\* terminate, wait, and kill after the timeout: the process is gone.
Terminate(t) ==
  /\ At(t, "signal")
  /\ proc' = [proc EXCEPT ![sid[t]] = "dead"]
  /\ Modify(t, [work[t] EXCEPT !.state = "offline", !.ended = TRUE])
  /\ Goto(t, "final")
  /\ UNCHANGED <<enabled, rows, last, lock>>

\* A faulty error path without "finally": the lock is never released.
FaultySignalRaisesLocked(t) ==
  /\ At(t, "signal")
  /\ Goto(t, "idle")
  /\ UNCHANGED <<enabled, rows, last, proc, lock, op, sid, seen, work>>

\* psutil raises: the process had already gone (NoSuchProcess), or survives
\* the second wait (TimeoutExpired).  The row stays as committed.
SignalRaises(t) ==
  /\ At(t, "signal")
  /\ Return(t)
  /\ UNCHANGED <<enabled, rows, last, proc>>

StopFinal(t) ==
  /\ At(t, "final")
  /\ op[t] = "stop"
  /\ Commit(t, work[t])
  /\ Return(t)
  /\ UNCHANGED proc

RestartFinal(t) ==
  /\ At(t, "final")
  /\ op[t] = "restart"
  /\ Commit(t, work[t])
  /\ Clean(t, sid[t], work[t])
  /\ Goto(t, "insert")
  /\ UNCHANGED <<proc, lock, op>>

-------------------------------------------------------------------------------
\* The new generation's row; the transaction also carries what the session
\* changed in the previous one.
Insert(t) ==
  /\ At(t, "insert")
  /\ last < MaxGen
  /\ last' = last + 1
  /\ rows' = [g \in Gens |->
                IF g = last + 1 THEN StartingRow
                ELSE IF g = sid[t] THEN CommittedRow(t, work[t])
                ELSE rows[g]]
  /\ Clean(t, last + 1, StartingRow)
  /\ Goto(t, "spawn")
  /\ UNCHANGED <<enabled, proc, lock, op>>

\* _configuration raises (a missing entry file or executable), nothing pending
\* is committed.
ConfigurationRaises(t) ==
  /\ At(t, "insert")
  /\ Return(t)
  /\ UNCHANGED <<enabled, rows, last, proc>>

\* Popen succeeds: the process runs, its identity is not yet durable.
Spawn(t) ==
  /\ At(t, "spawn")
  /\ proc' = [proc EXCEPT ![sid[t]] = "alive"]
  /\ Modify(t, [work[t] EXCEPT !.identity = TRUE, !.state = "running"])
  /\ Goto(t, "record")
  /\ UNCHANGED <<enabled, rows, last, lock>>

\* Popen fails: start records the crash, restart lets the exception through.
StartSpawnFails(t) ==
  /\ At(t, "spawn")
  /\ op[t] = "start"
  /\ Commit(t, [work[t] EXCEPT !.state = "crashed", !.ended = TRUE])
  /\ Return(t)
  /\ UNCHANGED proc

RestartSpawnFails(t) ==
  /\ At(t, "spawn")
  /\ op[t] = "restart"
  /\ Return(t)
  /\ UNCHANGED <<enabled, rows, last, proc>>

\* The launched process's PID and creation time become durable.
Record(t) ==
  /\ At(t, "record")
  /\ Commit(t, work[t])
  /\ Return(t)
  /\ UNCHANGED proc

-------------------------------------------------------------------------------
\* A bot process exits or crashes on its own.
ProcessDies(g) ==
  /\ proc[g] = "alive"
  /\ proc' = [proc EXCEPT ![g] = "dead"]
  /\ UNCHANGED <<enabled, rows, last, lock, op, pc, sid, seen, work>>

\* The supervisor dies and is restarted: locks, sessions and requests are
\* gone; rows and detached bot processes remain.
SupervisorRestarts ==
  /\ lock' = NoThread
  /\ op'   = [t \in Threads |-> "none"]
  /\ pc'   = [t \in Threads |-> "idle"]
  /\ sid'  = [t \in Threads |-> 0]
  /\ seen' = [t \in Threads |-> NoRow]
  /\ work' = [t \in Threads |-> NoRow]
  /\ UNCHANGED <<enabled, rows, last, proc>>

\* An administrator enables or disables the registration.
ToggleEnabled ==
  /\ enabled' = ~enabled
  /\ UNCHANGED <<rows, last, proc, lock, op, pc, sid, seen, work>>

-------------------------------------------------------------------------------
Init ==
  /\ enabled = TRUE
  /\ rows = [g \in Gens |-> NoRow]
  /\ last = 0
  /\ proc = [g \in Gens |-> "none"]
  /\ lock = NoThread
  /\ op   = [t \in Threads |-> "none"]
  /\ pc   = [t \in Threads |-> "idle"]
  /\ sid  = [t \in Threads |-> 0]
  /\ seen = [t \in Threads |-> NoRow]
  /\ work = [t \in Threads |-> NoRow]

\* A request that has begun runs on.
Progress(t) ==
  \/ StatusCheck(t) \/ StartCheck(t) \/ StopCheck(t) \/ RestartCheck(t)
  \/ StopVerify(t) \/ RestartVerify(t)
  \/ CommitAndReturn(t) \/ CommitAndSignal(t)
  \/ Terminate(t) \/ SignalRaises(t) \/ StopFinal(t) \/ RestartFinal(t)
  \/ Insert(t) \/ ConfigurationRaises(t)
  \/ Spawn(t) \/ StartSpawnFails(t) \/ RestartSpawnFails(t) \/ Record(t)

Next ==
  \/ \E t \in Threads :
     \/ BeginStatus(t)
     \/ \E o \in Operations : BeginOperation(t, o)
     \/ Progress(t)
  \/ \E g \in Gens : ProcessDies(g)
  \/ SupervisorRestarts
  \/ ToggleEnabled

Spec == Init /\ [][Next]_vars

\* The server's threads are scheduled and every wait in a request is bounded
\* by the stop timeout, so a begun request always takes its next step.
RequestFairness == \A t \in Threads : WF_vars(Progress(t))

FairSpec == Spec /\ RequestFairness

\* Open dashboards and the health check keep asking for the bot's status.
PollingFairness == SF_vars(\E t \in Threads : BeginStatus(t))

PolledSpec == Spec /\ RequestFairness /\ PollingFairness

-------------------------------------------------------------------------------
\* Every variable keeps its type: in particular no commit stores a state the
\* dashboard's resolver does not know.
TypeOK ==
  /\ enabled \in BOOLEAN
  /\ rows \in [Gens -> Row]
  /\ last \in 0 .. MaxGen
  /\ proc \in [Gens -> {"none", "alive", "dead"}]
  /\ lock \in Threads \cup {NoThread}
  /\ op \in [Threads -> Operations \cup {"status", "none"}]
  /\ pc \in [Threads -> Steps \cup {"idle"}]
  /\ sid \in [Threads -> 0 .. MaxGen]
  /\ seen \in [Threads -> Row]
  /\ work \in [Threads -> Row]

\* A process whose identity was made durable stops running before the bot gets
\* another generation: start refuses, and restart ends the old process, under
\* every interleaving with lock-free status requests, crashes of the supervisor
\* included ("Restart ends the old generation before creating a new one").
NoSupersededProcess ==
  \A g \in Gens : rows[g].identity /\ proc[g] = "alive" => g = last

\* Only the newest generation can be expected to run: an older row, which
\* reconcile never visits again, is not left claiming that it should be running.
SupersededNotExpected ==
  \A g \in Gens : rows[g].expected => g = last

\* expected_running, the operator's intent, changes only under the bot's lock,
\* by an operation: a status request holding a stale copy of the row never
\* flips it, although it commits to the same row.
IntentByOperation ==
  [][\A g \in Gens : rows'[g].expected # rows[g].expected =>
       lock \in Threads /\ op[lock] \in Operations]_vars

\* No process is signalled unless the committed row already says that it is no
\* longer expected to run: a supervisor that dies after the signal never
\* mistakes the stop for a crash.
SignalOnlyWithdrawn ==
  [][\A t \in Threads : pc[t] = "signal" /\ pc'[t] = "final" =>
       ~rows[sid[t]].expected]_vars

\* Every operation gives the bot's lock back: no error path of start, stop or
\* restart leaves the bot refusing every later operation.
LockReleased == \A t \in Threads : lock = t ~> lock # t

\* The supervisor is not restarted for ever: within a run of requests cut short
\* again and again nothing need be noticed.
SupervisorStays == <>[][~SupervisorRestarts]_vars

\* A bot process that is gone is not reported as running for ever, given that
\* someone keeps asking for the status: a status request with stale data can
\* bring "running" back, and a later one corrects it.
DeadIsNoticed ==
  SupervisorStays => \A g \in Gens :
    proc[g] = "dead" ~> rows[g].state \notin ActiveStates \/ g # last

\* A live process whose identity is durable is adopted in the end, whatever
\* state an interrupted operation or a stale status request left in its row,
\* across restarts of the supervisor.
LiveIsAdopted ==
  SupervisorStays => \A g \in Gens :
    rows[g].identity /\ proc[g] = "alive" ~>
      rows[g].state = "running" \/ proc[g] # "alive"

\* The operator intends the current generation to run.
Intended == \E g \in Gens : g = last /\ rows[g].expected

\* The current generation's process runs, and its identity is durable.
Verified == \E g \in Gens : g = last /\ rows[g].identity /\ proc[g] = "alive"

\* The supervisor implements BotLifecycle: generations, intent, and the one
\* verified process.
Lifecycle == INSTANCE BotLifecycle WITH
  generation <- last, intended <- Intended, live <- Verified

ImplementsLifecycle == Lifecycle!Spec

-------------------------------------------------------------------------------
\* The inductive invariant behind the three invariants above, by what it is
\* about.  Steps and locks: an operation is in progress exactly while its
\* thread holds the lock, and each step belongs to the requests that have it.
ControlInv ==
  \A t \in Threads :
    /\ op[t] \in Operations <=> lock = t
    /\ pc[t] = "idle" <=> op[t] = "none"
    /\ op[t] = "none" => sid[t] = 0 /\ seen[t] = NoRow /\ work[t] = NoRow
    /\ op[t] = "status" => pc[t] \in {"check", "commit"}
    /\ pc[t] \in {"verify", "signal", "final"} => op[t] \in {"stop", "restart"}
    /\ pc[t] \in {"insert", "spawn", "record"} => op[t] \in {"start", "restart"}

\* Rows and processes: nothing exists beyond the newest generation, and an
\* identity belongs to a process that was launched.
RowInv ==
  \A g \in Gens :
    /\ g > last => rows[g] = NoRow /\ proc[g] = "none"
    /\ rows[g].identity => proc[g] # "none"

\* A status request's session never has an intent or an identity to write.
StatusInv ==
  \A t \in Threads :
    op[t] = "status" =>
      /\ sid[t] \in 1 .. last
      /\ work[t].expected = seen[t].expected
      /\ work[t].identity = seen[t].identity

\* An operation's session is about the newest row, and knows the intent and
\* the identity committed there, however stale its view of the state may be.
\* It can withdraw the intent, not declare it.
SessionInv ==
  \A t \in Threads :
    lock = t =>
      /\ sid[t] = last
      /\ pc[t] # "insert" => last > 0
      /\ last > 0 => /\ rows[last].expected = seen[t].expected
                     /\ rows[last].identity = seen[t].identity
      /\ pc[t] # "record" => work[t].identity = seen[t].identity
      /\ work[t].expected => seen[t].expected

\* What each step of an operation has established for the next one.
PhaseInv ==
  \A t \in Threads :
    lock = t =>
      /\ pc[t] = "commit" /\ Signals(t) => ~work[t].expected
      /\ pc[t] \in {"signal", "final"} => ~seen[t].expected /\ ~work[t].expected
      /\ pc[t] = "final" => proc[last] # "alive"
      /\ pc[t] = "insert" =>
           /\ ~work[t].expected
           /\ last > 0 => ~(rows[last].identity /\ proc[last] = "alive")
      /\ pc[t] \in {"spawn", "record"} =>
           /\ ~seen[t].identity
           /\ seen[t].expected /\ work[t].expected
      /\ pc[t] = "spawn" => proc[last] = "none"
      /\ pc[t] = "record" => proc[last] # "none"

IInv ==
  /\ TypeOK
  /\ ControlInv
  /\ RowInv
  /\ StatusInv
  /\ SessionInv
  /\ PhaseInv
  /\ NoSupersededProcess
  /\ SupersededNotExpected

-------------------------------------------------------------------------------
\* Two statements of the documentation that the program does not keep.

\* "Duplicate starts are rejected": the bot never has two processes at once,
\* verified or not.
OneProcess ==
  \A g, h \in Gens : proc[g] = "alive" /\ proc[h] = "alive" => g = h

\* "a fresh current-instance heartbeat restores online state without restarting
\* the bot": the process of the current generation, shown as running, has not
\* been marked as ended, which HeartbeatService.accept takes as a reason to
\* reject each of its heartbeats.
CurrentInstanceHeard ==
  \A g \in Gens :
    g = last /\ rows[g].state = "running" /\ proc[g] = "alive" => ~rows[g].ended

===============================================================================
