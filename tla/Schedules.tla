------------------------------ MODULE Schedules ------------------------------
(***************************************************************************)
(* The schedule of one registered task of one bot: its task_schedules row  *)
(* against the job that the scheduling engine holds for it                 *)
(* (SchedulerService.configure, toggle, reconcile and start in             *)
(* src/app/scheduler/service.py, in the threads of the supervisor), and    *)
(* what the end of a run writes to the row (_finish).                      *)
(*                                                                         *)
(* Schedules of other tasks have rows and jobs of their own.  Two          *)
(* configurations stand for all: "once", an instant that may pass, and     *)
(* "daily", which recurs.  A session keeps the row as it loaded it and a   *)
(* commit writes the columns that it changed.  next_run_at and the last    *)
(* result, which are only shown, are left out.                             *)
(***************************************************************************)
CONSTANTS
  Threads,     \* threads of the supervisor's server
  Fits         \* what becomes of the bot and its adapter

ASSUME EnvironmentAssumption == Fits \subseteq {"ok", "disabled", "gone"}

VARIABLES
  row,      \* the task_schedules row
  job,      \* the engine's job: the configuration it was added for
  past,     \* the instant of "once" has passed
  fit,      \* the bot is enabled, disabled, or no longer has the task
  request,  \* by thread: the request and its session
  clean,    \* history: reconciliations since whose load nothing else has moved
  asked     \* history: by configure, what it was asked for, while nobody else has
            \* written row or job since it began

vars == <<row, job, past, fit, request, clean, asked>>

-------------------------------------------------------------------------------
Configs == {"daily", "once"}
Absent  == [present |-> FALSE]
Idle    == [step |-> "idle"]

Jobs    == Configs \cup {"none"}

Schedule == [enabled : BOOLEAN, config : Configs, required : BOOLEAN]
Rows     == Schedule \cup {Absent}

\* What configure is asked for.
Payloads == [enabled : BOOLEAN, config : Configs]

\* payload: the argument of configure, until it is written.  row and new: the
\* session's row as loaded and as changed.  want: the job that a reconciliation
\* expects of the engine.  before: what configure puts back when the engine does
\* not take the schedule.
Steps == {"write", "load", "engine", "remove", "commit", "check", "restore"}
Operations == {"configure", "toggle", "reconcile"}
Requests ==
  [step : Steps, op : Operations, payload : Payloads \cup {Absent},
   before : Rows, row : Rows, new : Rows, want : Jobs]

Column(loaded, new, stored) == IF new # loaded THEN new ELSE stored

Written(loaded, new, stored) ==
  [enabled  |-> Column(loaded.enabled, new.enabled, stored.enabled),
   config   |-> Column(loaded.config, new.config, stored.config),
   required |-> Column(loaded.required, new.required, stored.required)]

\* A commit of one row.  The UPDATE of a deleted row raises, and so does the
\* INSERT of one that is there; the DELETE of a deleted row does not.
CommitRaises(loaded, new) ==
  new \notin {loaded, Absent} /\ (row = Absent) # (loaded = Absent)
Committed(loaded, new) ==
  IF new = loaded THEN row
  ELSE IF loaded = Absent \/ new = Absent THEN new
  ELSE Written(loaded, new, row)

Begin(t, op, step, payload, before, new) ==
  request' = [request EXCEPT ![t] =
    [step |-> step, op |-> op, payload |-> payload, before |-> before, row |-> before,
     new |-> new, want |-> "none"]]
Goto(t, step) == request' = [request EXCEPT ![t].step = step]
Return(t)     == request' = [request EXCEPT ![t] = Idle]

-------------------------------------------------------------------------------
\* Requests.

\* The row that stores a payload.
Stored(payload, required) ==
  [enabled |-> payload.enabled, config |-> payload.config, required |-> required]

\* A faulty update of an existing row that leaves its configuration.
FaultyConfigureReads(t) ==
  /\ request[t] = Idle
  /\ fit # "gone"
  /\ \E payload \in Payloads :
       /\ payload.config = "once" => ~past
       /\ Begin(t, "configure", "write", payload, row,
                IF row = Absent THEN Stored(payload, TRUE)
                ELSE [row EXCEPT !.enabled = payload.enabled, !.required = TRUE])
  /\ UNCHANGED <<row, job, past, fit>>

\* The session loads the row; the payload has been validated.
ConfigureReads(t) ==
  /\ request[t] = Idle
  /\ fit # "gone"
  /\ \E payload \in Payloads :
       /\ payload.config = "once" => ~past
       /\ Begin(t, "configure", "write", payload, row, Stored(payload, TRUE))
  /\ UNCHANGED <<row, job, past, fit>>

ToggleReads(t) ==
  /\ request[t] = Idle
  /\ fit # "gone" /\ row # Absent
  /\ \E enabled \in BOOLEAN :
       Begin(t, "toggle", "write", Absent, row,
             [row EXCEPT !.enabled = enabled, !.required = TRUE])
  /\ UNCHANGED <<row, job, past, fit>>

ReconcileBegins(t) ==
  /\ request[t] = Idle
  /\ Begin(t, "reconcile", "load", Absent, Absent, Absent)
  /\ UNCHANGED <<row, job, past, fit>>

\* The commit of configure or toggle.  What follows a toggle is a reconciliation.
RequestCommits(t) ==
  LET r == request[t] IN
  /\ r.step = "write"
  /\ IF CommitRaises(r.row, r.new)
     THEN Return(t) /\ UNCHANGED row
     ELSE /\ row' = Committed(r.row, r.new)
          /\ request' = [request EXCEPT ![t] =
               [@ EXCEPT !.step = "load", !.payload = Absent, !.row = Absent, !.new = Absent,
                         !.op = IF r.op = "configure" THEN r.op ELSE "reconcile",
                         !.before = IF r.op = "configure" THEN r.before ELSE Absent]]
  /\ UNCHANGED <<job, past, fit>>

-------------------------------------------------------------------------------
\* reconcile.  The guarded validation refuses an instant that has passed.
Valid(config)  == config = "daily" \/ ~past
Scheduled(r)   == r # Absent /\ fit = "ok" /\ r.enabled /\ Valid(r.config)
Orphaned(r)    == fit = "gone" \/ (fit = "ok" /\ r.enabled /\ ~Valid(r.config))
Reconciled(r)  ==
  IF r = Absent THEN Absent
  ELSE [r EXCEPT !.required = Orphaned(r)]
Wanted(r) == IF Scheduled(r) THEN r.config ELSE "none"

\* The schedules and bots are loaded, and what is expected of the engine decided.
ReconcileLoads(t) ==
  /\ request[t].step = "load"
  /\ request' = [request EXCEPT ![t] =
       [@ EXCEPT !.step = "engine", !.row = row, !.new = Reconciled(row), !.want = Wanted(row)]]
  /\ UNCHANGED <<row, job, past, fit>>

\* A faulty reconciliation that never removes a job.
FaultyReconcileEngineKeeps(t) ==
  LET r == request[t] IN
  /\ r.step = "engine"
  /\ job' = IF r.want # "none" THEN r.want ELSE job
  /\ Goto(t, "commit")
  /\ UNCHANGED <<row, past, fit>>

\* An expected job is added or replaced.  Otherwise the list of jobs shows
\* whether there is one to remove.
ReconcileEngine(t) ==
  LET r == request[t] IN
  /\ r.step = "engine"
  /\ IF r.want # "none"
     THEN job' = r.want /\ Goto(t, "commit")
     ELSE /\ Goto(t, IF job = "none" THEN "commit" ELSE "remove")
          /\ UNCHANGED job
  /\ UNCHANGED <<row, past, fit>>

\* remove_job raises when the job is gone by now.
ReconcileRemoves(t) ==
  /\ request[t].step = "remove"
  /\ IF job = "none" THEN Return(t) ELSE Goto(t, "commit")
  /\ job' = "none"
  /\ UNCHANGED <<row, past, fit>>

ReconcileCommits(t) ==
  LET r == request[t] IN
  /\ r.step = "commit"
  /\ IF CommitRaises(r.row, r.new)
     THEN Return(t) /\ UNCHANGED row
     ELSE /\ row' = Committed(r.row, r.new)
          /\ IF r.op = "configure"
             THEN request' = [request EXCEPT ![t] =
                    [@ EXCEPT !.step = "check", !.row = Absent, !.new = Absent,
                              !.want = "none"]]
             ELSE Return(t)
  /\ UNCHANGED <<job, past, fit>>

-------------------------------------------------------------------------------
\* The end of configure: a row that still asks for reconciliation was refused,
\* and is put back.  A row that is gone raises.
ConfigureChecks(t) ==
  /\ request[t].step = "check"
  /\ IF row # Absent /\ row.required
     THEN request' = [request EXCEPT ![t] =
            [@ EXCEPT !.step = "restore", !.row = row, !.new = request[t].before]]
     ELSE Return(t)
  /\ UNCHANGED <<row, job, past, fit>>

\* A faulty compensation that forgets the configuration.
FaultyConfigureRestoresPartly(t) ==
  LET r == request[t] IN
  /\ r.step = "restore"
  /\ row' = IF r.new = Absent THEN Absent ELSE [row EXCEPT !.enabled = r.new.enabled]
  /\ request' = [request EXCEPT ![t] =
       [@ EXCEPT !.step = "load", !.op = "reconcile", !.before = Absent,
                 !.row = Absent, !.new = Absent]]
  /\ UNCHANGED <<job, past, fit>>

ConfigureRestores(t) ==
  LET r == request[t] IN
  /\ r.step = "restore"
  /\ IF CommitRaises(r.row, r.new)
     THEN Return(t) /\ UNCHANGED row
     ELSE /\ row' = Committed(r.row, r.new)
          /\ request' = [request EXCEPT ![t] =
               [@ EXCEPT !.step = "load", !.op = "reconcile", !.before = Absent,
                         !.row = Absent, !.new = Absent]]
  /\ UNCHANGED <<job, past, fit>>

-------------------------------------------------------------------------------
\* The engine and the runs.

\* The instant comes: the engine calls execute, and a job that fires once is gone.
\* A recurring job stays as it is.
EngineFires ==
  /\ job = "once"
  /\ past' = TRUE
  /\ job' = "none"
  /\ UNCHANGED <<row, fit, request>>

\* The instant passes while the engine has no job for it.
InstantPasses ==
  /\ job # "once" /\ ~past
  /\ past' = TRUE
  /\ UNCHANGED <<row, job, fit, request>>

\* _finish of any run, manual or scheduled: a success disables a one-time schedule.
\* The session has written its run before it loads the schedule, so nobody
\* commits in between.
RunEnds ==
  /\ row # Absent /\ row.config = "once"
  /\ row' = [row EXCEPT !.enabled = FALSE]
  /\ UNCHANGED <<job, past, fit, request>>

-------------------------------------------------------------------------------
\* The bot is disabled or enabled, or its adapter loses or regains the task.
FitChanges ==
  /\ \E new \in Fits \ {fit} : fit' = new
  /\ UNCHANGED <<row, job, past, request>>

\* The supervisor dies and starts: the engine is empty and paused until the
\* schedules are reconciled.
SupervisorRestarts ==
  /\ request' = [t \in Threads |-> Idle]
  /\ row' = Reconciled(row)
  /\ job' = Wanted(row)
  /\ UNCHANGED <<past, fit>>

-------------------------------------------------------------------------------
Init ==
  /\ row = Absent
  /\ job = "none"
  /\ past = FALSE
  /\ fit = "ok"
  /\ request = [t \in Threads |-> Idle]
  /\ clean = {} /\ asked = [t \in Threads |-> Absent]

Reconcile(t) ==
  ReconcileLoads(t) \/ ReconcileEngine(t) \/ ReconcileRemoves(t) \/ ReconcileCommits(t)

Request(t) ==
  \/ ConfigureReads(t) \/ ToggleReads(t) \/ ReconcileBegins(t) \/ RequestCommits(t)
  \/ Reconcile(t)
  \/ ConfigureChecks(t) \/ ConfigureRestores(t)

Step ==
  \/ \E t \in Threads : Request(t)
  \/ EngineFires \/ InstantPasses \/ RunEnds
  \/ FitChanges \/ SupervisorRestarts

\* The history.  A thread stays clean while it goes on or nothing moves.  What a
\* configure was asked for is kept while it goes on or nobody writes the row or the
\* job: while it is alone.
alone == {t \in Threads : asked[t] # Absent}

Track ==
  /\ clean' = {t \in Threads :
       /\ request'[t] # Idle
       /\ \/ request[t].step = "load" /\ request'[t].step = "engine"
          \/ t \in clean /\ (\/ request'[t] # request[t]
                             \/ UNCHANGED <<row, job, past, fit>>)}
  /\ asked' = [t \in Threads |->
       IF request'[t] = Idle \/ request'[t].op # "configure" THEN Absent
       ELSE IF request[t] = Idle THEN request'[t].payload
       ELSE IF request'[t] # request[t] \/ UNCHANGED <<row, job>> THEN asked[t]
       ELSE Absent]

Next == Step /\ Track

Spec == Init /\ [][Next]_vars

-------------------------------------------------------------------------------
TypeOK ==
  /\ row \in Rows
  /\ job \in Jobs
  /\ past \in BOOLEAN
  /\ fit \in {"ok", "disabled", "gone"}
  /\ request \in [Threads -> Requests \cup {Idle}]
  /\ clean \subseteq Threads
  /\ asked \in [Threads -> Payloads \cup {Absent}]

\* Row and engine agree: there is a job just when there should be, and the row
\* says so.
Agreed ==
  /\ job = Wanted(row)
  /\ row # Absent => row.required = Orphaned(row)

\* What a reconciliation has established since whose load nothing else has moved.
Undisturbed(t) ==
  LET r == request[t] IN
  /\ r.step \in {"engine", "remove", "commit"} =>
       r.row = row /\ r.new = Reconciled(row) /\ r.want = Wanted(row)
  /\ r.step = "remove" => r.want = "none" /\ job # "none"
  /\ r.step = "commit" => job = r.want
  /\ r.step = "check" => Agreed

\* The row stores what configure was asked for.
Stores(t) == \E required \in BOOLEAN : row = Stored(asked[t], required)

\* Where a configure is that nobody else has written under.
Unshared(t) ==
  LET r == request[t] IN
  /\ r.op = "configure"
  /\ r.step = "write" => r.row = row /\ r.before = row /\ r.new = Stored(asked[t], TRUE)
  /\ r.step # "write" => Stores(t)
  /\ r.step \in {"engine", "remove", "commit"} =>
       /\ r.row = row
       /\ r.new # Absent /\ r.new.enabled = row.enabled /\ r.new.config = row.config
       /\ r.want # "none" => row.enabled /\ row.config = r.want
  /\ r.step = "remove" => r.want = "none" /\ job # "none"
  /\ r.step = "commit" => job = r.want
  /\ r.step \in {"check", "restore"} /\ job # "none" => row.enabled /\ row.config = job
  /\ r.step = "restore" => r.row = row /\ r.new = r.before

CleanInv == \A t \in clean : Undisturbed(t)
AloneInv == \A t \in alone : Unshared(t)

IInv == TypeOK /\ CleanInv /\ AloneInv

\* One undisturbed reconciliation brings row and engine together, whatever raced,
\* failed halfway or was left behind before it.
ReconcileHeals ==
  [][\A t \in clean : request[t].step = "commit" /\ request'[t].step # "commit"
       => Agreed']_vars

\* What a configure that is not refused has brought about: the schedule is stored as
\* it was asked for, the engine has no other job, and unless the bot or the instant
\* changed meanwhile it has the job when the schedule calls for one.
Accepted(t) ==
  /\ row = Stored(asked[t], FALSE)
  /\ job # "none" => row.enabled /\ row.config = job
  /\ t \in clean => job = Wanted(row)

\* A configure that nobody else writes to row or job under is all or nothing: either
\* its schedule is stored and the engine's, or the row is put back as it was; and it
\* does not fail halfway (service.py 74-96).
ConfigureAllOrNothing ==
  [][\A t \in alone :
       /\ ConfigureChecks(t) /\ request'[t] = Idle => Accepted(t)
       /\ ConfigureRestores(t) => row' = request[t].before
       /\ RequestCommits(t) \/ Reconcile(t) => request'[t] # Idle]_vars

\* README: "Disabling a schedule prevents future automatic starts".  With nobody in
\* the middle of a request, a disabled schedule has no recurring job left.
DisabledPrevents ==
  /\ \A t \in Threads : request[t] = Idle
  /\ row # Absent /\ ~row.enabled
  => job # "daily"
===============================================================================
