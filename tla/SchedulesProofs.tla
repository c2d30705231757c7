--------------------------- MODULE SchedulesProofs ---------------------------
(***************************************************************************)
(* Proofs about Schedules, for every set of threads and every environment. *)
(***************************************************************************)
EXTENDS Schedules, TLAPS

\* The initial state satisfies the inductive invariant.
LEMMA InitInv == Init => IInv
  BY DEF Init, IInv, TypeOK, CleanInv, AloneInv, alone, Rows, Jobs, Absent

-------------------------------------------------------------------------------
\* A thread whose session has a step is in the middle of a request.
LEMMA InRequest ==
  ASSUME TypeOK, NEW t \in Threads, request[t].step \in Steps
  PROVE  request[t] \in Requests
  BY DEF TypeOK, Requests, Idle, Steps

\* An absent row differs from a present one, and from what configure is asked for.
LEMMA AbsentRow == Absent \notin Schedule /\ Absent \notin Payloads
  BY DEF Absent, Schedule, Payloads

\* What a payload is stored as.
LEMMA StoredRow ==
  ASSUME NEW payload \in Payloads, NEW required \in BOOLEAN
  PROVE  /\ Stored(payload, required) \in Schedule
         /\ Stored(payload, required) # Absent
         /\ Stored(payload, required).enabled = payload.enabled
         /\ Stored(payload, required).config = payload.config
         /\ Stored(payload, required).required = required
         /\ \A r \in Schedule :
              r.enabled = payload.enabled /\ r.config = payload.config
                => r = Stored(payload, r.required)
  BY AbsentRow DEF Stored, Schedule, Payloads

\* What a session wrote or decided keeps its type.
LEMMA DecisionTypes ==
  ASSUME TypeOK
  PROVE  Reconciled(row) \in Rows /\ Wanted(row) \in Jobs
  <1>1. CASE row = Absent
    BY <1>1 DEF Reconciled, Wanted, Scheduled, Rows, Jobs
  <1>2. CASE row \in Schedule
    <2>1. Orphaned(row) \in BOOLEAN
      BY DEF Orphaned
    <2>2. [row EXCEPT !.required = Orphaned(row)] \in Schedule
      BY <1>2, <2>1 DEF Schedule
    <2>3. row.config \in Configs
      BY <1>2 DEF Schedule
    <2> QED
      BY <1>2, <2>2, <2>3, AbsentRow DEF Reconciled, Wanted, Rows, Jobs
  <1> QED
    BY <1>1, <1>2 DEF TypeOK, Rows

\* A commit that does not raise leaves a row or none.
LEMMA CommitType ==
  ASSUME TypeOK, NEW loaded \in Rows, NEW new \in Rows, ~CommitRaises(loaded, new)
  PROVE  Committed(loaded, new) \in Rows
  <1>1. CASE new = loaded \/ loaded = Absent \/ new = Absent
    BY <1>1 DEF Committed, TypeOK
  <1>2. CASE new # loaded /\ loaded # Absent /\ new # Absent
    <2>1. row \in Schedule /\ loaded \in Schedule /\ new \in Schedule
      BY <1>2 DEF CommitRaises, TypeOK, Rows
    <2>2. Written(loaded, new, row) \in Schedule
      BY <2>1 DEF Written, Column, Schedule
    <2> QED
      BY <1>2, <2>2 DEF Committed, Rows
  <1> QED
    BY <1>1, <1>2

\* A session that loaded the row as it is commits it as it changed it.
LEMMA CommitWhole ==
  ASSUME TypeOK, NEW new \in Rows
  PROVE  ~CommitRaises(row, new) /\ Committed(row, new) = new
  <1>1. ~CommitRaises(row, new)
    BY DEF CommitRaises
  <1>2. CASE new = row \/ row = Absent \/ new = Absent
    BY <1>1, <1>2 DEF Committed
  <1>3. CASE new # row /\ row # Absent /\ new # Absent
    <2>1. row \in Schedule /\ new \in Schedule
      BY <1>3 DEF TypeOK, Rows
    <2>2. new = [enabled |-> new.enabled, config |-> new.config, required |-> new.required]
      BY <2>1 DEF Schedule
    <2>3. \A a, b : Column(a, b, a) = b
      BY DEF Column
    <2>4. Written(row, new, row) = new
      BY <2>2, <2>3 DEF Written
    <2> QED
      BY <1>1, <1>3, <2>4 DEF Committed
  <1> QED
    BY <1>1, <1>2, <1>3

\* A step that changes the session of one thread.
LEMMA OneSession ==
  ASSUME TypeOK, NEW t \in Threads, NEW v \in Requests \cup {Idle},
         request' = [request EXCEPT ![t] = v]
  PROVE  /\ request' \in [Threads -> Requests \cup {Idle}]
         /\ request'[t] = v
         /\ \A u \in Threads \ {t} : request'[u] = request[u]
  BY DEF TypeOK

\* What a configure that is alone was asked for.
LEMMA AskedType ==
  ASSUME TypeOK, NEW t \in alone
  PROVE  asked[t] \in Payloads
  BY DEF TypeOK, alone

-------------------------------------------------------------------------------
\* What TypeOK says of the state, the history left out.
StateTyped ==
  /\ row \in Rows
  /\ job \in Jobs
  /\ past \in BOOLEAN
  /\ fit \in {"ok", "disabled", "gone"}
  /\ request \in [Threads -> Requests \cup {Idle}]

\* What a step of a request does: it types the state, is about one session, and
\* establishes for it what the invariant says of the step it goes to.
Effect(t) ==
  /\ StateTyped'
  /\ \A u \in Threads \ {t} : request'[u] = request[u]
  /\ request'[t] # Idle =>
       /\ Undisturbed(t) \/ request[t].step = "load" => Undisturbed(t)'
       /\ /\ request'[t].op = "configure"
          /\ \/ request[t] = Idle /\ asked'[t] = request'[t].payload
             \/ /\ request[t] # Idle /\ Unshared(t)
                /\ t \in alone /\ asked'[t] = asked[t]
          => Unshared(t)'

\* A step that ends the request.
LEMMA ReturnEffect ==
  ASSUME TypeOK, NEW t \in Threads, Return(t), row' \in Rows, job' \in Jobs,
         UNCHANGED <<past, fit>>
  PROVE  Effect(t)
  <1>1. /\ request' \in [Threads -> Requests \cup {Idle}]
        /\ request'[t] = Idle
        /\ \A u \in Threads \ {t} : request'[u] = request[u]
    BY DEF Return, TypeOK
  <1> QED
    BY <1>1 DEF Effect, StateTyped, TypeOK

\* A step that begins a request.
LEMMA BeginEffect ==
  ASSUME TypeOK, NEW t \in Threads, request[t] = Idle,
         NEW op \in Operations, NEW step \in {"write", "load"},
         NEW payload \in Payloads \cup {Absent}, NEW before \in Rows, NEW new \in Rows,
         Begin(t, op, step, payload, before, new),
         op = "configure" =>
           step = "write" /\ before = row /\ new = Stored(payload, TRUE),
         UNCHANGED <<row, job, past, fit>>
  PROVE  Effect(t)
  <1> DEFINE v == [step |-> step, op |-> op, payload |-> payload, before |-> before,
                   row |-> before, new |-> new, want |-> "none"]
  <1>1. v \in Requests
    BY DEF Requests, Steps, Jobs
  <1>2. /\ request' \in [Threads -> Requests \cup {Idle}]
        /\ request'[t] = v
        /\ \A u \in Threads \ {t} : request'[u] = request[u]
    BY <1>1, OneSession DEF Begin
  <1>3. Undisturbed(t)'
    BY <1>2 DEF Undisturbed
  <1>4. request'[t].op = "configure" /\ asked'[t] = request'[t].payload => Unshared(t)'
    BY <1>2 DEF Unshared
  <1> QED
    BY <1>2, <1>3, <1>4 DEF Effect, StateTyped, TypeOK

LEMMA ConfigureReadsStep ==
  ASSUME TypeOK, NEW t \in Threads, ConfigureReads(t)
  PROVE  Effect(t)
  <1>1. PICK payload \in Payloads :
          Begin(t, "configure", "write", payload, row, Stored(payload, TRUE))
    BY DEF ConfigureReads
  <1>2. Stored(payload, TRUE) \in Rows /\ row \in Rows
    BY StoredRow DEF Rows, TypeOK
  <1>3. "configure" \in Operations
    BY DEF Operations
  <1>4. request[t] = Idle /\ UNCHANGED <<row, job, past, fit>>
    BY DEF ConfigureReads
  <1> QED
    BY <1>1, <1>2, <1>3, <1>4, BeginEffect

LEMMA ToggleReadsStep ==
  ASSUME TypeOK, NEW t \in Threads, ToggleReads(t)
  PROVE  Effect(t)
  <1>1. PICK enabled \in BOOLEAN :
          Begin(t, "toggle", "write", Absent, row,
                [row EXCEPT !.enabled = enabled, !.required = TRUE])
    BY DEF ToggleReads
  <1> DEFINE new == [row EXCEPT !.enabled = enabled, !.required = TRUE]
  <1>2. new \in Rows /\ row \in Rows
    BY DEF ToggleReads, TypeOK, Rows, Schedule
  <1>3. "toggle" \in Operations
    BY DEF Operations
  <1>4. request[t] = Idle /\ UNCHANGED <<row, job, past, fit>>
    BY DEF ToggleReads
  <1> QED
    BY <1>1, <1>2, <1>3, <1>4, BeginEffect

LEMMA ReconcileBeginsStep ==
  ASSUME TypeOK, NEW t \in Threads, ReconcileBegins(t)
  PROVE  Effect(t)
  <1>1. Begin(t, "reconcile", "load", Absent, Absent, Absent)
    BY DEF ReconcileBegins
  <1>2. "reconcile" \in Operations /\ Absent \in Rows
    BY DEF Operations, Rows
  <1>3. request[t] = Idle /\ UNCHANGED <<row, job, past, fit>>
    BY DEF ReconcileBegins
  <1> QED
    BY <1>1, <1>2, <1>3, BeginEffect

\* A step that goes on to v.  Its premises are what the invariant asks of v.
LEMMA GoEffect ==
  ASSUME TypeOK, NEW t \in Threads, NEW v \in Requests,
         request' = [request EXCEPT ![t] = v],
         row' \in Rows, job' \in Jobs, UNCHANGED <<past, fit>>,
         request[t] # Idle,
         (Undisturbed(t) \/ request[t].step = "load") /\ request'[t] = v => Undisturbed(t)',
         /\ Unshared(t) /\ t \in alone /\ asked'[t] = asked[t]
         /\ request'[t] = v /\ v.op = "configure"
         => Unshared(t)'
  PROVE  Effect(t)
  <1>1. /\ request' \in [Threads -> Requests \cup {Idle}]
        /\ request'[t] = v
        /\ \A u \in Threads \ {t} : request'[u] = request[u]
    BY OneSession
  <1> QED
    BY <1>1 DEF Effect, StateTyped, TypeOK

LEMMA RequestCommitsStep ==
  ASSUME TypeOK, NEW t \in Threads, RequestCommits(t)
  PROVE  Effect(t)
  <1> DEFINE r == request[t]
  <1>1. r \in Requests /\ r.step = "write" /\ r # Idle
    BY InRequest DEF RequestCommits, Steps, Idle
  <1>2. UNCHANGED <<job, past, fit>>
    BY DEF RequestCommits
  <1>3. CASE CommitRaises(r.row, r.new)
    BY <1>2, <1>3, ReturnEffect DEF RequestCommits, TypeOK
  <1>4. CASE ~CommitRaises(r.row, r.new)
    <2> DEFINE v == [r EXCEPT !.step = "load", !.payload = Absent, !.row = Absent,
                        !.new = Absent,
                        !.op = IF r.op = "configure" THEN r.op ELSE "reconcile",
                        !.before = IF r.op = "configure" THEN r.before ELSE Absent]
    <2>1. request' = [request EXCEPT ![t] = v] /\ row' = Committed(r.row, r.new)
      BY <1>4 DEF RequestCommits
    <2>2. v \in Requests
      BY <1>1 DEF Requests, Steps, Rows, Operations
    <2>3. row' \in Rows /\ job' \in Jobs
      BY <1>1, <1>2, <1>4, <2>1, CommitType DEF Requests, TypeOK
    <2>4. v.step = "load"
      BY <1>1 DEF Requests
    <2>5. request'[t] = v => Undisturbed(t)'
      BY <2>4 DEF Undisturbed
    <2>6. ASSUME Unshared(t), asked'[t] = asked[t], request'[t] = v, v.op = "configure"
          PROVE  Unshared(t)'
      <3>1. r.row = row /\ r.new = Stored(asked[t], TRUE) /\ r.new \in Rows
        BY <1>1, <2>6 DEF Unshared, Requests
      <3>2. row' = Stored(asked[t], TRUE)
        BY <2>1, <3>1, CommitWhole
      <3> QED
        BY <2>4, <2>6, <3>2 DEF Unshared, Stores
    <2> HIDE DEF v
    <2> QED
      BY <1>1, <1>2, <2>1, <2>2, <2>3, <2>5, <2>6, GoEffect
  <1> QED
    BY <1>3, <1>4

LEMMA ReconcileLoadsStep ==
  ASSUME TypeOK, NEW t \in Threads, ReconcileLoads(t)
  PROVE  Effect(t)
  <1> DEFINE r == request[t]
             v == [r EXCEPT !.step = "engine", !.row = row, !.new = Reconciled(row),
                            !.want = Wanted(row)]
  <1>1. r \in Requests /\ r.step = "load" /\ r # Idle
    BY InRequest DEF ReconcileLoads, Steps, Idle
  <1>2. request' = [request EXCEPT ![t] = v] /\ UNCHANGED <<row, job, past, fit>>
    BY DEF ReconcileLoads
  <1>3. v \in Requests
    BY <1>1, DecisionTypes DEF Requests, Steps, TypeOK
  <1>4. /\ v.step = "engine" /\ v.row = row /\ v.new = Reconciled(row) /\ v.want = Wanted(row)
        /\ v.op = r.op
    BY <1>1 DEF Requests
  <1>5. Reconciled(row)' = Reconciled(row) /\ Wanted(row)' = Wanted(row)
    BY <1>2 DEF Reconciled, Wanted, Scheduled, Orphaned, Valid
  <1>6. request'[t] = v => Undisturbed(t)'
    BY <1>2, <1>4, <1>5 DEF Undisturbed
  <1>7. ASSUME Unshared(t), t \in alone, asked'[t] = asked[t],
               request'[t] = v, v.op = "configure"
        PROVE  Unshared(t)'
    <2>1. /\ row \in Schedule /\ row # Absent
          /\ Stores(t)
      <3>1. asked[t] \in Payloads
        BY <1>7, AskedType
      <3> QED
        BY <1>1, <1>7, <3>1, StoredRow DEF Unshared, Stores
    <2>2. /\ Reconciled(row) # Absent
          /\ Reconciled(row).enabled = row.enabled /\ Reconciled(row).config = row.config
      <3>1. Orphaned(row) \in BOOLEAN
        BY DEF Orphaned
      <3>2. [row EXCEPT !.required = Orphaned(row)] \in Schedule
        BY <2>1, <3>1 DEF Schedule
      <3> QED
        BY <2>1, <3>2, AbsentRow DEF Reconciled, Schedule
    <2>3. Wanted(row) # "none" => row.enabled /\ row.config = Wanted(row)
      BY DEF Wanted, Scheduled
    <2>4. Stores(t)'
      BY <1>2, <1>7, <2>1 DEF Stores, Stored
    <2>5. /\ v.step = "engine" /\ v.op = "configure" /\ v.row = row
          /\ v.new # Absent /\ v.new.enabled = row.enabled /\ v.new.config = row.config
          /\ v.want # "none" => row.enabled /\ row.config = v.want
      BY <1>4, <1>7, <2>2, <2>3
    <2>6. row' = row /\ request'[t] = v
      BY <1>2, <1>7
    <2> HIDE DEF v
    <2> QED
      BY <2>4, <2>5, <2>6 DEF Unshared
  <1> HIDE DEF v
  <1>8. row' \in Rows /\ job' \in Jobs
    BY <1>2 DEF TypeOK
  <1> QED
    BY <1>1, <1>2, <1>3, <1>6, <1>7, <1>8, GoEffect

\* A step that moves the session on and leaves it as it is otherwise.
LEMMA GotoEffect ==
  ASSUME TypeOK, NEW t \in Threads, request[t] \in Requests, NEW step \in Steps,
         Goto(t, step)
  PROVE  LET v == [request[t] EXCEPT !.step = step] IN
         /\ v \in Requests
         /\ request' = [request EXCEPT ![t] = v]
         /\ v.step = step /\ v.op = request[t].op /\ v.before = request[t].before
         /\ v.row = request[t].row /\ v.new = request[t].new /\ v.want = request[t].want
  <1> DEFINE v == [request[t] EXCEPT !.step = step]
  <1>1. request' = [request EXCEPT ![t] = v]
    BY DEF Goto
  <1>2. v \in Requests
    BY DEF Requests
  <1> QED
    BY <1>1, <1>2 DEF Requests

LEMMA ReconcileEngineStep ==
  ASSUME TypeOK, NEW t \in Threads, ReconcileEngine(t)
  PROVE  Effect(t)
  <1> DEFINE r == request[t]
             step == IF r.want # "none" \/ job = "none" THEN "commit" ELSE "remove"
             v == [r EXCEPT !.step = step]
  <1>1. r \in Requests /\ r.step = "engine" /\ r # Idle
    BY InRequest DEF ReconcileEngine, Steps, Idle
  <1>2. Goto(t, step) /\ UNCHANGED <<row, past, fit>>
    BY DEF ReconcileEngine
  <1>3. job' = IF r.want # "none" THEN r.want ELSE job
    BY DEF ReconcileEngine
  <1>4. step \in Steps
    BY DEF Steps
  <1>5. /\ v \in Requests /\ request' = [request EXCEPT ![t] = v]
        /\ v.step = step /\ v.op = r.op /\ v.before = r.before
        /\ v.row = r.row /\ v.new = r.new /\ v.want = r.want
    BY <1>1, <1>2, <1>4, GotoEffect
  <1>6. Reconciled(row)' = Reconciled(row) /\ Wanted(row)' = Wanted(row)
    BY <1>2 DEF Reconciled, Wanted, Scheduled, Orphaned, Valid
  <1>7. row' \in Rows /\ job' \in Jobs
    BY <1>1, <1>2, <1>3 DEF TypeOK, Requests
  <1>8. Undisturbed(t) /\ request'[t] = v => Undisturbed(t)'
    BY <1>1, <1>2, <1>3, <1>5, <1>6 DEF Undisturbed
  <1>9. Unshared(t) /\ asked'[t] = asked[t] /\ request'[t] = v => Unshared(t)'
    <2> SUFFICES ASSUME Unshared(t), asked'[t] = asked[t], request'[t] = v
                 PROVE  Unshared(t)'
      OBVIOUS
    <2>1. Stores(t)
      BY <1>1 DEF Unshared
    <2>2. Stores(t)'
      BY <1>2, <2>1 DEF Stores, Stored
    <2>3. /\ r.op = "configure" /\ r.row = row
          /\ r.new # Absent /\ r.new.enabled = row.enabled /\ r.new.config = row.config
          /\ r.want # "none" => row.enabled /\ row.config = r.want
      BY <1>1 DEF Unshared
    <2>4. v.step = "commit" => job' = r.want
      BY <1>3, <1>5
    <2>5. v.step = "remove" => r.want = "none" /\ job' # "none"
      BY <1>3, <1>5
    <2> HIDE DEF v
    <2> QED
      BY <1>2, <1>5, <2>2, <2>3, <2>4, <2>5 DEF Unshared
  <1> HIDE DEF v
  <1> QED
    BY <1>1, <1>2, <1>5, <1>7, <1>8, <1>9, GoEffect

LEMMA ReconcileRemovesStep ==
  ASSUME TypeOK, NEW t \in Threads, ReconcileRemoves(t)
  PROVE  Effect(t)
  <1> DEFINE r == request[t]
             v == [r EXCEPT !.step = "commit"]
  <1>1. r \in Requests /\ r.step = "remove" /\ r # Idle
    BY InRequest DEF ReconcileRemoves, Steps, Idle
  <1>2. job' = "none" /\ UNCHANGED <<row, past, fit>>
    BY DEF ReconcileRemoves
  <1>3. row' \in Rows /\ job' \in Jobs
    BY <1>2 DEF TypeOK, Jobs
  <1>4. CASE job = "none"
    <2>1. Return(t)
      BY <1>4 DEF ReconcileRemoves
    <2> QED
      BY <1>2, <1>3, <2>1, ReturnEffect
  <1>5. CASE job # "none"
    <2>1. Goto(t, "commit")
      BY <1>5 DEF ReconcileRemoves
    <2>2. /\ v \in Requests /\ request' = [request EXCEPT ![t] = v]
          /\ v.step = "commit" /\ v.op = r.op /\ v.before = r.before
          /\ v.row = r.row /\ v.new = r.new /\ v.want = r.want
      BY <1>1, <2>1, GotoEffect DEF Steps
    <2>3. Reconciled(row)' = Reconciled(row) /\ Wanted(row)' = Wanted(row)
      BY <1>2 DEF Reconciled, Wanted, Scheduled, Orphaned, Valid
    <2>4. Undisturbed(t) /\ request'[t] = v => Undisturbed(t)'
      BY <1>1, <1>2, <2>2, <2>3 DEF Undisturbed
    <2>5. ASSUME Unshared(t), asked'[t] = asked[t], request'[t] = v
          PROVE  Unshared(t)'
      <3>1. /\ r.op = "configure" /\ Stores(t) /\ r.row = row
            /\ r.new # Absent /\ r.new.enabled = row.enabled /\ r.new.config = row.config
            /\ r.want = "none"
        BY <1>1, <2>5 DEF Unshared
      <3>2. Stores(t)'
        BY <1>2, <2>5, <3>1 DEF Stores, Stored
      <3> HIDE DEF v
      <3> QED
        BY <1>2, <2>2, <2>5, <3>1, <3>2 DEF Unshared
    <2> HIDE DEF v
    <2> QED
      BY <1>1, <1>2, <1>3, <2>2, <2>4, <2>5, GoEffect
  <1> QED
    BY <1>4, <1>5

\* What a reconciliation decided is its own decision about the row it leaves.
LEMMA DecisionStands ==
  ASSUME TypeOK, row' = Reconciled(row), job' = Wanted(row), UNCHANGED <<past, fit>>
  PROVE  Agreed'
  <1>1. CASE row = Absent
    BY <1>1 DEF Agreed, Reconciled, Wanted, Scheduled
  <1>2. CASE row \in Schedule
    <2>1. row' = [row EXCEPT !.required = Orphaned(row)] /\ Orphaned(row) \in BOOLEAN
      BY <1>2, AbsentRow DEF Reconciled, Orphaned
    <2>2. /\ row' \in Schedule
          /\ row'.enabled = row.enabled /\ row'.config = row.config
          /\ row'.required = Orphaned(row)
      BY <1>2, <2>1 DEF Schedule
    <2> QED
      BY <1>2, <2>2, AbsentRow DEF Agreed, Wanted, Scheduled, Orphaned, Valid
  <1> QED
    BY <1>1, <1>2 DEF TypeOK, Rows

LEMMA ReconcileCommitsStep ==
  ASSUME TypeOK, NEW t \in Threads, ReconcileCommits(t)
  PROVE  Effect(t)
  <1> DEFINE r == request[t]
             v == [r EXCEPT !.step = "check", !.row = Absent, !.new = Absent,
                            !.want = "none"]
  <1>1. r \in Requests /\ r.step = "commit" /\ r # Idle
    BY InRequest DEF ReconcileCommits, Steps, Idle
  <1>2. UNCHANGED <<job, past, fit>> /\ job' \in Jobs
    BY DEF ReconcileCommits, TypeOK
  <1>3. CASE CommitRaises(r.row, r.new)
    BY <1>2, <1>3, ReturnEffect DEF ReconcileCommits, TypeOK
  <1>4. CASE ~CommitRaises(r.row, r.new)
    <2>1. row' = Committed(r.row, r.new)
      BY <1>4 DEF ReconcileCommits
    <2>2. row' \in Rows
      BY <1>1, <1>4, <2>1, CommitType DEF Requests
    <2>3. CASE r.op # "configure"
      <3>1. Return(t)
        BY <1>4, <2>3 DEF ReconcileCommits
      <3> QED
        BY <1>2, <2>2, <3>1, ReturnEffect
    <2>4. CASE r.op = "configure"
      <3>1. request' = [request EXCEPT ![t] = v]
        BY <1>4, <2>4 DEF ReconcileCommits
      <3>2. v \in Requests /\ v.step = "check" /\ v.op = "configure"
        BY <1>1, <2>4 DEF Requests, Steps, Rows, Jobs
      <3>3. ASSUME Undisturbed(t), request'[t] = v
            PROVE  Undisturbed(t)'
        <4>1. r.row = row /\ r.new = Reconciled(row) /\ job = Wanted(row)
          BY <1>1, <3>3 DEF Undisturbed
        <4>2. row' = Reconciled(row) /\ UNCHANGED <<job, past, fit>>
          BY <1>2, <2>1, <4>1, CommitWhole, DecisionTypes
        <4>3. Agreed'
          BY <4>1, <4>2, DecisionStands
        <4> QED
          BY <3>2, <3>3, <4>3 DEF Undisturbed
      <3>4. ASSUME Unshared(t), t \in alone, asked'[t] = asked[t], request'[t] = v
            PROVE  Unshared(t)'
        <4>1. row' = r.new
          BY <1>1, <2>1, <3>4, CommitWhole DEF Unshared, Requests
        <4>2. /\ r.new # Absent /\ r.new.enabled = row.enabled /\ r.new.config = row.config
              /\ r.want # "none" => row.enabled /\ row.config = r.want
              /\ job = r.want
              /\ Stores(t)
          BY <1>1, <3>4 DEF Unshared
        <4>3. asked[t] \in Payloads
          BY <3>4, AskedType
        <4>4. r.new \in Schedule
          BY <1>1, <4>2 DEF Requests, Rows
        <4>5. r.new = Stored(asked[t], r.new.required) /\ r.new.required \in BOOLEAN
          BY <4>2, <4>3, <4>4, StoredRow DEF Schedule, Stores
        <4> QED
          BY <1>2, <3>2, <3>4, <4>1, <4>2, <4>5 DEF Unshared, Stores
      <3> HIDE DEF v
      <3> QED
        BY <1>1, <1>2, <2>2, <3>1, <3>2, <3>3, <3>4, GoEffect
    <2> QED
      BY <2>3, <2>4
  <1> QED
    BY <1>3, <1>4

LEMMA ConfigureChecksStep ==
  ASSUME TypeOK, NEW t \in Threads, ConfigureChecks(t)
  PROVE  Effect(t)
  <1> DEFINE r == request[t]
             v == [r EXCEPT !.step = "restore", !.row = row, !.new = r.before]
  <1>1. r \in Requests /\ r.step = "check" /\ r # Idle
    BY InRequest DEF ConfigureChecks, Steps, Idle
  <1>2. UNCHANGED <<row, job, past, fit>> /\ row' \in Rows /\ job' \in Jobs
    BY DEF ConfigureChecks, TypeOK
  <1>3. CASE ~(row # Absent /\ row.required)
    <2>1. Return(t)
      BY <1>3 DEF ConfigureChecks
    <2> QED
      BY <1>2, <2>1, ReturnEffect
  <1>4. CASE row # Absent /\ row.required
    <2>1. request' = [request EXCEPT ![t] = v]
      BY <1>4 DEF ConfigureChecks
    <2>2. /\ v \in Requests /\ v.step = "restore" /\ v.op = r.op
          /\ v.row = row /\ v.new = r.before /\ v.before = r.before
      BY <1>1 DEF Requests, Steps, TypeOK
    <2>3. request'[t] = v => Undisturbed(t)'
      BY <2>2 DEF Undisturbed
    <2>4. ASSUME Unshared(t), asked'[t] = asked[t], request'[t] = v
          PROVE  Unshared(t)'
      <3>1. /\ r.op = "configure" /\ Stores(t)
            /\ job # "none" => row.enabled /\ row.config = job
        BY <1>1, <2>4 DEF Unshared
      <3>2. Stores(t)'
        BY <1>2, <2>4, <3>1 DEF Stores, Stored
      <3> HIDE DEF v
      <3> QED
        BY <1>2, <2>2, <2>4, <3>1, <3>2 DEF Unshared
    <2> HIDE DEF v
    <2> QED
      BY <1>1, <1>2, <2>1, <2>2, <2>3, <2>4, GoEffect
  <1> QED
    BY <1>3, <1>4

LEMMA ConfigureRestoresStep ==
  ASSUME TypeOK, NEW t \in Threads, ConfigureRestores(t)
  PROVE  Effect(t)
  <1> DEFINE r == request[t]
             v == [r EXCEPT !.step = "load", !.op = "reconcile", !.before = Absent,
                            !.row = Absent, !.new = Absent]
  <1>1. r \in Requests /\ r.step = "restore" /\ r # Idle
    BY InRequest DEF ConfigureRestores, Steps, Idle
  <1>2. UNCHANGED <<job, past, fit>> /\ job' \in Jobs
    BY DEF ConfigureRestores, TypeOK
  <1>3. CASE CommitRaises(r.row, r.new)
    BY <1>2, <1>3, ReturnEffect DEF ConfigureRestores, TypeOK
  <1>4. CASE ~CommitRaises(r.row, r.new)
    <2>1. row' = Committed(r.row, r.new) /\ request' = [request EXCEPT ![t] = v]
      BY <1>4 DEF ConfigureRestores
    <2>2. row' \in Rows
      BY <1>1, <1>4, <2>1, CommitType DEF Requests
    <2>3. v \in Requests /\ v.step = "load" /\ v.op = "reconcile"
      BY <1>1 DEF Requests, Steps, Operations, Rows
    <2>4. request'[t] = v => Undisturbed(t)'
      BY <2>3 DEF Undisturbed
    <2> HIDE DEF v
    <2> QED
      BY <1>1, <1>2, <2>1, <2>2, <2>3, <2>4, GoEffect
  <1> QED
    BY <1>3, <1>4

LEMMA RequestStep ==
  ASSUME TypeOK, NEW t \in Threads, Request(t)
  PROVE  Effect(t)
  BY ConfigureReadsStep, ToggleReadsStep, ReconcileBeginsStep, RequestCommitsStep,
     ReconcileLoadsStep, ReconcileEngineStep, ReconcileRemovesStep, ReconcileCommitsStep,
     ConfigureChecksStep, ConfigureRestoresStep DEF Request, Reconcile

-------------------------------------------------------------------------------
\* A session that its thread leaves alone stays what it was while nothing moves.
LEMMA Bystander ==
  ASSUME NEW u \in Threads, request'[u] = request[u]
  PROVE  /\ UNCHANGED <<row, job, past, fit>> /\ Undisturbed(u) => Undisturbed(u)'
         /\ UNCHANGED <<row, job>> /\ asked'[u] = asked[u] /\ Unshared(u) => Unshared(u)'
  <1>1. ASSUME UNCHANGED <<row, job, past, fit>>, Undisturbed(u)
        PROVE  Undisturbed(u)'
    <2>1. Reconciled(row)' = Reconciled(row) /\ Wanted(row)' = Wanted(row)
      BY <1>1 DEF Reconciled, Wanted, Scheduled, Orphaned, Valid
    <2>2. Agreed' = Agreed
      BY <1>1 DEF Agreed, Wanted, Scheduled, Orphaned, Valid
    <2> QED
      BY <1>1, <2>1, <2>2 DEF Undisturbed
  <1>2. ASSUME UNCHANGED <<row, job>>, asked'[u] = asked[u], Unshared(u)
        PROVE  Unshared(u)'
    <2>1. Stores(u)' = Stores(u)
      BY <1>2 DEF Stores, Stored
    <2> QED
      BY <1>2, <2>1 DEF Unshared
  <1> QED
    BY <1>1, <1>2

\* A thread is alone because it has just begun a configure, or goes on with it.
LEMMA StillAlone ==
  ASSUME Track, NEW u \in alone'
  PROVE  /\ u \in Threads /\ request'[u] # Idle /\ request'[u].op = "configure"
         /\ \/ request[u] = Idle /\ asked'[u] = request'[u].payload
            \/ /\ u \in alone /\ asked'[u] = asked[u] /\ request[u] # Idle
               /\ request'[u] # request[u] \/ UNCHANGED <<row, job>>
  BY DEF Track, alone

\* The history keeps its type.
LEMMA HistoryType ==
  ASSUME TypeOK, Track, request' \in [Threads -> Requests \cup {Idle}]
  PROVE  clean' \subseteq Threads /\ asked' \in [Threads -> Payloads \cup {Absent}]
  <1>1. \A t \in Threads : request'[t] # Idle => request'[t].payload \in Payloads \cup {Absent}
    BY DEF Requests
  <1> QED
    BY <1>1 DEF TypeOK, Track

\* A step of one request keeps the invariant.
LEMMA RequestInv ==
  ASSUME IInv, NEW t \in Threads, Request(t), Track
  PROVE  IInv'
  <1>1. Effect(t)
    BY RequestStep DEF IInv
  <1>2. TypeOK'
    BY <1>1, HistoryType DEF Effect, StateTyped, TypeOK, IInv
  <1>3. ASSUME NEW u \in clean'
        PROVE  Undisturbed(u)'
    <2>1. /\ u \in Threads /\ request'[u] # Idle
          /\ \/ request[u].step = "load" /\ request'[u].step = "engine"
             \/ u \in clean /\ (\/ request'[u] # request[u]
                                \/ UNCHANGED <<row, job, past, fit>>)
      BY <1>3 DEF Track
    <2>2. u \in clean => Undisturbed(u)
      BY DEF IInv, CleanInv
    <2>3. CASE u = t
      BY <1>1, <2>1, <2>2, <2>3 DEF Effect
    <2>4. CASE u # t
      <3>1. request'[u] = request[u]
        BY <1>1, <2>1, <2>4 DEF Effect
      <3> QED
        BY <2>1, <2>2, <3>1, Bystander
    <2> QED
      BY <2>3, <2>4
  <1>4. ASSUME NEW u \in alone'
        PROVE  Unshared(u)'
    <2>1. /\ u \in Threads /\ request'[u] # Idle /\ request'[u].op = "configure"
          /\ \/ request[u] = Idle /\ asked'[u] = request'[u].payload
             \/ /\ u \in alone /\ asked'[u] = asked[u] /\ request[u] # Idle
                /\ request'[u] # request[u] \/ UNCHANGED <<row, job>>
      BY <1>4, StillAlone
    <2>2. u \in alone => Unshared(u)
      BY DEF IInv, AloneInv
    <2>3. CASE u = t
      BY <1>1, <2>1, <2>2, <2>3 DEF Effect
    <2>4. CASE u # t
      <3>1. request'[u] = request[u]
        BY <1>1, <2>1, <2>4 DEF Effect
      <3> QED
        BY <2>1, <2>2, <3>1, Bystander
    <2> QED
      BY <2>3, <2>4
  <1>5. CleanInv' /\ AloneInv'
    BY <1>3, <1>4 DEF CleanInv, AloneInv
  <1> QED
    BY <1>2, <1>5 DEF IInv

\* The engine, the end of a run and the environment leave the sessions alone.
LEMMA OtherInv ==
  ASSUME IInv, EngineFires \/ InstantPasses \/ RunEnds \/ FitChanges, Track
  PROVE  IInv'
  <1>1. UNCHANGED request
    BY DEF EngineFires, InstantPasses, RunEnds, FitChanges
  <1>2. row' \in Rows /\ job' \in Jobs
    <2>1. ASSUME RunEnds
          PROVE  row' \in Rows
      BY <2>1 DEF RunEnds, IInv, TypeOK, Rows, Schedule
    <2> QED
      BY <2>1 DEF EngineFires, InstantPasses, RunEnds, FitChanges, IInv, TypeOK, Jobs
  <1>3. past' \in BOOLEAN
    BY DEF EngineFires, InstantPasses, RunEnds, FitChanges, IInv, TypeOK
  <1>4. fit' \in {"ok", "disabled", "gone"}
    BY EnvironmentAssumption DEF EngineFires, InstantPasses, RunEnds, FitChanges, IInv, TypeOK
  <1>5. TypeOK'
    BY <1>1, <1>2, <1>3, <1>4, HistoryType DEF IInv, TypeOK
  <1>6. CleanInv'
    BY <1>1, Bystander DEF IInv, CleanInv, Track
  <1>7. AloneInv'
    <2>1. ASSUME NEW u \in alone'
          PROVE  Unshared(u)'
      <3>1. request'[u] = request[u] /\ u \in Threads
        BY <1>1, StillAlone
      <3>2. u \in alone /\ asked'[u] = asked[u] /\ UNCHANGED <<row, job>>
        BY <3>1, StillAlone
      <3>3. Unshared(u)
        BY <3>2 DEF IInv, AloneInv
      <3> QED
        BY <3>1, <3>2, <3>3, Bystander
    <2> QED
      BY <2>1 DEF AloneInv
  <1> QED
    BY <1>5, <1>6, <1>7 DEF IInv

\* A restart forgets every session.
LEMMA RestartInv ==
  ASSUME IInv, SupervisorRestarts, Track
  PROVE  IInv'
  <1>1. \A t \in Threads : request'[t] = Idle
    BY DEF SupervisorRestarts
  <1>2. /\ clean' = {} /\ alone' = {}
        /\ asked' \in [Threads -> Payloads \cup {Absent}]
    BY <1>1 DEF Track, alone
  <1>3. row' \in Rows /\ job' \in Jobs
    BY DecisionTypes DEF SupervisorRestarts, IInv
  <1>4. TypeOK'
    BY <1>2, <1>3 DEF SupervisorRestarts, IInv, TypeOK
  <1> QED
    BY <1>2, <1>4 DEF IInv, CleanInv, AloneInv

LEMMA NextInv == IInv /\ [Next]_vars => IInv'
  <1> SUFFICES ASSUME IInv, [Next]_vars PROVE IInv'
    OBVIOUS
  <1>1. CASE Next
    BY <1>1, RequestInv, OtherInv, RestartInv DEF Next, Step
  <1>2. CASE UNCHANGED vars
    <2>1. TypeOK' /\ alone' = alone /\ UNCHANGED <<row, job, past, fit, request, clean, asked>>
      BY <1>2 DEF vars, IInv, TypeOK, alone
    <2>2. ASSUME NEW t \in Threads
          PROVE  /\ Undisturbed(t) => Undisturbed(t)'
                 /\ Unshared(t) => Unshared(t)'
      BY <2>1, <2>2, Bystander
    <2> QED
      BY <2>1, <2>2 DEF IInv, TypeOK, alone, CleanInv, AloneInv
  <1> QED
    BY <1>1, <1>2

\* The inductive invariant: types, and what reconciliations and configures that
\* nobody disturbed have established.
THEOREM Invariance == Spec => []IInv
  BY InitInv, NextInv, PTL DEF Spec

\* Row, job and sessions keep their types.
THEOREM TypeCorrect == Spec => []TypeOK
  <1>1. IInv => TypeOK
    BY DEF IInv
  <1> QED
    BY <1>1, Invariance, PTL

-------------------------------------------------------------------------------
\* A step that changes a session, without a restart, is a step of its request.
LEMMA OwnStep ==
  ASSUME IInv, Step, NEW t \in Threads, request'[t] # request[t], ~SupervisorRestarts
  PROVE  Request(t)
  <1>1. PICK u \in Threads : Request(u)
    BY DEF Step, EngineFires, InstantPasses, RunEnds, FitChanges
  <1>2. u = t
    BY <1>1, RequestStep DEF Effect, IInv
  <1> QED
    BY <1>1, <1>2

\* One undisturbed reconciliation heals, for any number of threads, whatever raced
\* before it (SchedulerService.reconcile).
THEOREM Heals == Spec => ReconcileHeals
  <1>1. ASSUME IInv, Next, NEW t \in clean,
               request[t].step = "commit", request'[t].step # "commit"
        PROVE  Agreed'
    <2>1. t \in Threads /\ TypeOK /\ Undisturbed(t)
      BY <1>1 DEF IInv, TypeOK, CleanInv
    <2>2. CASE SupervisorRestarts
      BY <2>1, <2>2, DecisionStands DEF SupervisorRestarts
    <2>3. CASE ~SupervisorRestarts
      <3>1. Request(t)
        BY <1>1, <2>1, <2>3, OwnStep DEF Next
      <3>2. ReconcileCommits(t)
        <4>1. request[t] # Idle
          BY <1>1 DEF Idle
        <4>2. ~(ConfigureReads(t) \/ ToggleReads(t) \/ ReconcileBegins(t))
          BY <4>1 DEF ConfigureReads, ToggleReads, ReconcileBegins
        <4>3. ~(RequestCommits(t) \/ ConfigureChecks(t) \/ ConfigureRestores(t))
          BY <1>1 DEF RequestCommits, ConfigureChecks, ConfigureRestores
        <4>4. ~(ReconcileLoads(t) \/ ReconcileEngine(t) \/ ReconcileRemoves(t))
          BY <1>1 DEF ReconcileLoads, ReconcileEngine, ReconcileRemoves
        <4> QED
          BY <3>1, <4>2, <4>3, <4>4 DEF Request, Reconcile
      <3>3. /\ request[t].row = row /\ request[t].new = Reconciled(row)
            /\ job = Wanted(row)
        BY <1>1, <2>1 DEF Undisturbed
      <3>4. row' = Reconciled(row) /\ UNCHANGED <<job, past, fit>>
        BY <2>1, <3>2, <3>3, CommitWhole, DecisionTypes DEF ReconcileCommits
      <3> QED
        BY <2>1, <3>3, <3>4, DecisionStands
    <2> QED
      BY <2>2, <2>3
  <1>2. IInv /\ [Next]_vars =>
          [\A t \in clean : request[t].step = "commit" /\ request'[t].step # "commit"
             => Agreed']_vars
    BY <1>1
  <1> QED
    BY <1>2, Invariance, PTL DEF Spec, ReconcileHeals

\* A configure that nobody else writes under is all or nothing, for any number of
\* threads: what it was asked for is stored, accepted and the engine's, or the row is
\* as it was, and nothing raises on the way (SchedulerService.configure).
THEOREM AllOrNothing == Spec => ConfigureAllOrNothing
  <1> DEFINE A(t) ==
       /\ ConfigureChecks(t) /\ request'[t] = Idle => Accepted(t)
       /\ ConfigureRestores(t) => row' = request[t].before
       /\ RequestCommits(t) \/ Reconcile(t) => request'[t] # Idle
  <1>1. ASSUME IInv, NEW t \in alone
        PROVE  A(t)
    <2> DEFINE r == request[t]
    <2>1. t \in Threads /\ TypeOK /\ Unshared(t) /\ asked[t] \in Payloads
      BY <1>1, AskedType DEF IInv, alone, AloneInv
    <2>2. ASSUME ConfigureChecks(t), request'[t] = Idle
          PROVE  Accepted(t)
      <3>1. /\ Stores(t)
            /\ job # "none" => row.enabled /\ row.config = job
        BY <2>1, <2>2 DEF ConfigureChecks, Unshared
      <3>2. ~row.required
        <4>1. row # Absent
          BY <2>1, <3>1, StoredRow DEF Stores
        <4>2. CASE row.required
          <5>1. request' = [request EXCEPT ![t] =
                  [@ EXCEPT !.step = "restore", !.row = row, !.new = request[t].before]]
            BY <2>2, <4>1, <4>2 DEF ConfigureChecks
          <5>2. r \in Requests
            BY <2>1, <2>2, InRequest DEF ConfigureChecks, Steps
          <5>3. request'[t].step = "restore"
            BY <2>1, <5>1, <5>2 DEF TypeOK, Requests
          <5> QED
            BY <2>2, <5>3 DEF Idle
        <4> QED
          BY <4>2
      <3>3. row = Stored(asked[t], FALSE)
        <4>1. PICK required \in BOOLEAN : row = Stored(asked[t], required)
          BY <3>1 DEF Stores
        <4>2. required = FALSE
          BY <2>1, <3>2, <4>1, StoredRow
        <4> QED
          BY <4>1, <4>2
      <3>4. t \in clean => job = Wanted(row)
        BY <1>1, <2>2 DEF IInv, CleanInv, Undisturbed, ConfigureChecks, Agreed
      <3> QED
        BY <3>1, <3>3, <3>4 DEF Accepted
    <2>3. ASSUME ConfigureRestores(t)
          PROVE  row' = r.before
      <3>1. r \in Requests /\ r.step = "restore"
        BY <2>1, <2>3, InRequest DEF ConfigureRestores, Steps
      <3>2. r.row = row /\ r.new = r.before /\ r.new \in Rows
        BY <2>1, <3>1 DEF Unshared, Requests
      <3> QED
        BY <2>1, <2>3, <3>2, CommitWhole DEF ConfigureRestores
    <2>4. ASSUME RequestCommits(t) \/ Reconcile(t)
          PROVE  request'[t] # Idle
      <3>1. r \in Requests /\ r.step \in {"write", "load", "engine", "remove", "commit"}
        BY <2>1, <2>4, InRequest
           DEF RequestCommits, Reconcile, ReconcileLoads, ReconcileEngine,
               ReconcileRemoves, ReconcileCommits, Steps
      <3>2. PICK v : v \in Requests /\ request' = [request EXCEPT ![t] = v]
        <4>1. r.op = "configure"
          BY <2>1 DEF Unshared
        <4>2. CASE RequestCommits(t)
          <5>1. r.row = row /\ r.new \in Rows
            BY <2>1, <3>1, <4>2 DEF RequestCommits, Unshared, Requests
          <5>2. ~CommitRaises(r.row, r.new)
            BY <2>1, <5>1, CommitWhole
          <5> DEFINE v == [r EXCEPT !.step = "load", !.payload = Absent, !.row = Absent,
                              !.new = Absent,
                              !.op = IF r.op = "configure" THEN r.op ELSE "reconcile",
                              !.before = IF r.op = "configure" THEN r.before ELSE Absent]
          <5>3. request' = [request EXCEPT ![t] = v]
            BY <4>2, <5>2 DEF RequestCommits
          <5>4. v \in Requests
            BY <3>1 DEF Requests, Steps, Rows, Operations
          <5> QED
            BY <5>3, <5>4
        <4>3. CASE ReconcileLoads(t)
          <5>1. [r EXCEPT !.step = "engine", !.row = row, !.new = Reconciled(row),
                          !.want = Wanted(row)] \in Requests
            BY <2>1, <3>1, DecisionTypes DEF Requests, Steps, TypeOK
          <5> QED
            BY <4>3, <5>1 DEF ReconcileLoads
        <4>4. ASSUME NEW step \in Steps, Goto(t, step)
              PROVE  \E v : v \in Requests /\ request' = [request EXCEPT ![t] = v]
          BY <2>1, <3>1, <4>4, GotoEffect
        <4>5. CASE ReconcileEngine(t)
          BY <4>4, <4>5 DEF ReconcileEngine, Steps
        <4>6. CASE ReconcileRemoves(t)
          <5>1. job # "none"
            BY <2>1, <4>6 DEF ReconcileRemoves, Unshared
          <5> QED
            BY <4>4, <4>6, <5>1 DEF ReconcileRemoves, Steps
        <4>7. CASE ReconcileCommits(t)
          <5>1. r.row = row /\ r.new \in Rows
            BY <2>1, <3>1, <4>7 DEF ReconcileCommits, Unshared, Requests
          <5>2. ~CommitRaises(r.row, r.new)
            BY <2>1, <5>1, CommitWhole
          <5> DEFINE v == [r EXCEPT !.step = "check", !.row = Absent, !.new = Absent,
                                    !.want = "none"]
          <5>3. request' = [request EXCEPT ![t] = v]
            BY <4>1, <4>7, <5>2 DEF ReconcileCommits
          <5>4. v \in Requests
            BY <3>1 DEF Requests, Steps, Rows, Jobs
          <5> QED
            BY <5>3, <5>4
        <4> QED
          BY <2>4, <4>2, <4>3, <4>5, <4>6, <4>7 DEF Reconcile
      <3>3. request'[t] = v
        BY <2>1, <3>2 DEF TypeOK
      <3>4. v.step \in Steps
        BY <3>2 DEF Requests
      <3> QED
        BY <3>3, <3>4 DEF Idle, Steps
    <2> QED
      BY <2>2, <2>3, <2>4
  <1> HIDE DEF A
  <1>2. IInv /\ [Next]_vars => [\A t \in alone : A(t)]_vars
    BY <1>1
  <1>3. Spec => [][\A t \in alone : A(t)]_vars
    BY <1>2, Invariance, PTL DEF Spec
  <1> QED
    BY <1>3 DEF ConfigureAllOrNothing, A
===============================================================================
