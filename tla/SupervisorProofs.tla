--------------------------- MODULE SupervisorProofs ---------------------------
(***************************************************************************)
(* Proofs about Supervisor, for every set of threads and every number of   *)
(* generations: its inductive invariant, the safety properties that follow *)
(* from it, and that it implements BotLifecycle.                           *)
(***************************************************************************)
EXTENDS Supervisor, TLAPS

\* _reconcile_row keeps the columns that state intent and identity, and its
\* state is "running" exactly for a valid identity, unless it was already.
LEMMA ReconciledRow ==
  ASSUME NEW row \in Row, NEW valid \in BOOLEAN
  PROVE  /\ Reconciled(row, valid) \in Row
         /\ Reconciled(row, valid).expected = row.expected
         /\ Reconciled(row, valid).identity = row.identity
         /\ valid => Reconciled(row, valid).state = "running"
         /\ Reconciled(row, valid).state \notin {"stopping", "restarting"}
  BY DEF Reconciled, Row, States, ActiveStates

\* A commit writes a well-formed row, and leaves alone what the session left
\* alone.
LEMMA WrittenRow ==
  ASSUME NEW base \in Row, NEW old \in Row, NEW new \in Row
  PROVE  /\ Written(base, old, new) \in Row
         /\ Written(base, old, new).expected =
              IF new.expected # old.expected THEN new.expected ELSE base.expected
         /\ Written(base, old, new).identity =
              IF new.identity # old.identity THEN new.identity ELSE base.identity
  BY DEF Written, Row

\* The rows a session starts from are well formed.
LEMMA NoRowType == NoRow \in Row /\ StartingRow \in Row
  BY DEF NoRow, StartingRow, Row, States, ActiveStates

\* The initial state satisfies the inductive invariant.
LEMMA InitInv == Init => IInv
  <1> SUFFICES ASSUME Init PROVE IInv
    OBVIOUS
  <1>2. TypeOK
    BY NoRowType, MaxGenAssumption DEF Init, TypeOK
  <1>3. ControlInv /\ RowInv /\ StatusInv /\ SessionInv /\ PhaseInv
    BY ThreadsAssumption DEF Init, ControlInv, RowInv, StatusInv, SessionInv,
       PhaseInv, Signals, Operations, NoRow, Gens
  <1>4. NoSupersededProcess /\ SupersededNotExpected
    BY DEF Init, NoSupersededProcess, SupersededNotExpected, NoRow
  <1> QED
    BY <1>2, <1>3, <1>4 DEF IInv

\* A request past its SELECT, other than a launch for a bot without rows, has a
\* row of the table in its session.
LEMMA SessionRow ==
  ASSUME IInv, NEW t \in Threads, pc[t] # "idle", pc[t] # "insert"
  PROVE  /\ sid[t] \in Gens
         /\ sid[t] \in 1 .. last
         /\ seen[t] \in Row
         /\ work[t] \in Row
         /\ rows[sid[t]] \in Row
  <1>1. op[t] \in Operations \cup {"status"}
    BY DEF IInv, TypeOK, ControlInv
  <1>2. sid[t] \in 1 .. last
    BY <1>1, MaxGenAssumption DEF IInv, TypeOK, ControlInv, StatusInv, SessionInv
  <1> QED
    BY <1>2, MaxGenAssumption DEF IInv, TypeOK, Gens

\* What a commit does to the rows.
LEMMA CommitEffect ==
  ASSUME IInv, NEW t \in Threads, pc[t] # "idle", pc[t] # "insert",
         NEW new \in Row, Commit(t, new)
  PROVE  /\ rows' \in [Gens -> Row]
         /\ \A g \in Gens : g # sid[t] => rows'[g] = rows[g]
         /\ rows'[sid[t]].expected =
              IF new.expected # seen[t].expected
              THEN new.expected ELSE rows[sid[t]].expected
         /\ rows'[sid[t]].identity =
              IF new.identity # seen[t].identity
              THEN new.identity ELSE rows[sid[t]].identity
         /\ UNCHANGED <<enabled, last>>
  <1>1. CommittedRow(t, new) \in Row
    BY SessionRow, WrittenRow DEF CommittedRow
  <1>2. rows' = [rows EXCEPT ![sid[t]] = CommittedRow(t, new)]
    BY DEF Commit
  <1>3. rows'[sid[t]] = CommittedRow(t, new)
    BY <1>2, SessionRow DEF IInv, TypeOK
  <1>4. rows' \in [Gens -> Row] /\ \A g \in Gens : g # sid[t] => rows'[g] = rows[g]
    BY <1>1, <1>2 DEF IInv, TypeOK
  <1> QED
    BY <1>3, <1>4, SessionRow, WrittenRow DEF CommittedRow, Commit

\* Returning leaves the types, the lock discipline and the other sessions.
LEMMA ReturnEffect ==
  ASSUME IInv, NEW t \in Threads, Return(t)
  PROVE  /\ lock' \in Threads \cup {NoThread}
         /\ op' \in [Threads -> Operations \cup {"status", "none"}]
         /\ pc' \in [Threads -> Steps \cup {"idle"}]
         /\ sid' \in [Threads -> 0 .. MaxGen]
         /\ seen' \in [Threads -> Row]
         /\ work' \in [Threads -> Row]
         /\ ControlInv'
         /\ op'[t] = "none" /\ lock' # t
         /\ \A u \in Threads : lock' = u => lock = u
         /\ \A u \in Threads \ {t} :
              /\ op'[u] = op[u] /\ pc'[u] = pc[u] /\ sid'[u] = sid[u]
              /\ seen'[u] = seen[u] /\ work'[u] = work[u]
  <1> USE DEF IInv, Return, Goto, Clean
  <1>1. /\ lock' \in Threads \cup {NoThread}
        /\ op' \in [Threads -> Operations \cup {"status", "none"}]
        /\ pc' \in [Threads -> Steps \cup {"idle"}]
        /\ sid' \in [Threads -> 0 .. MaxGen]
        /\ seen' \in [Threads -> Row]
        /\ work' \in [Threads -> Row]
    BY NoRowType, MaxGenAssumption DEF TypeOK
  <1>2. ControlInv'
    BY ThreadsAssumption DEF TypeOK, ControlInv, Operations
  <1>3. op'[t] = "none" /\ lock' # t /\ \A u \in Threads : lock' = u => lock = u
    BY ThreadsAssumption DEF TypeOK
  <1>4. \A u \in Threads \ {t} :
          /\ op'[u] = op[u] /\ pc'[u] = pc[u] /\ sid'[u] = sid[u]
          /\ seen'[u] = seen[u] /\ work'[u] = work[u]
    BY DEF TypeOK
  <1> QED
    BY <1>1, <1>2, <1>3, <1>4

\* One lemma for each action: it keeps the inductive invariant.
LEMMA BeginStatusStep ==
  ASSUME IInv, NEW t \in Threads, BeginStatus(t)
  PROVE  IInv'
  <1> USE DEF IInv, BeginStatus, At, Goto, Clean
  <1>1. TypeOK'
    <2>1. last \in Gens /\ rows[last] \in Row
      BY MaxGenAssumption DEF TypeOK, Gens
    <2> QED
      BY <2>1 DEF TypeOK, Steps
  <1>2. ControlInv'
    BY DEF TypeOK, ControlInv, Operations
  <1>3. RowInv' /\ NoSupersededProcess' /\ SupersededNotExpected'
    BY DEF RowInv, NoSupersededProcess, SupersededNotExpected
  <1>4. StatusInv'
    BY DEF TypeOK, StatusInv
  <1>5. SessionInv' /\ PhaseInv'
    BY DEF TypeOK, SessionInv, PhaseInv, Signals, ControlInv, Operations
  <1> QED
    BY <1>1, <1>2, <1>3, <1>4, <1>5

LEMMA BeginOperationStep ==
  ASSUME IInv, NEW t \in Threads, NEW o \in Operations, BeginOperation(t, o)
  PROVE  IInv'
  <1> USE DEF IInv, BeginOperation, At, Goto, Clean
  <1>1. TypeOK'
    <2>1. last > 0 => last \in Gens /\ rows[last] \in Row
      BY MaxGenAssumption DEF TypeOK, Gens
    <2>2. UNCHANGED <<enabled, rows, last, proc>> /\ lock' \in Threads \cup {NoThread}
      OBVIOUS
    <2>3. sid' \in [Threads -> 0 .. MaxGen] /\ seen' \in [Threads -> Row] /\ work' \in [Threads -> Row]
      BY <2>1 DEF TypeOK
    <2>4. op' \in [Threads -> Operations \cup {"status", "none"}] /\ pc' \in [Threads -> Steps \cup {"idle"}]
      BY DEF TypeOK, Steps
    <2> QED
      BY <2>2, <2>3, <2>4 DEF TypeOK
  <1>2. ControlInv'
    BY ThreadsAssumption DEF TypeOK, ControlInv, Operations
  <1>3. RowInv' /\ NoSupersededProcess' /\ SupersededNotExpected'
    BY DEF RowInv, NoSupersededProcess, SupersededNotExpected
  <1>4. StatusInv'
    BY DEF TypeOK, StatusInv, Operations
  <1>5. SessionInv'
    BY ThreadsAssumption DEF TypeOK, SessionInv, ControlInv, Operations
  <1>6. PhaseInv'
    BY ThreadsAssumption DEF TypeOK, PhaseInv, Signals, ControlInv, Operations, NoRow
  <1> QED
    BY <1>1, <1>2, <1>3, <1>4, <1>5, <1>6

LEMMA StatusCheckStep ==
  ASSUME IInv, NEW t \in Threads, StatusCheck(t)
  PROVE  IInv'
  <1> USE DEF IInv, StatusCheck, At, Goto, Modify
  <1>1. /\ Observed(t) \in Row
        /\ Observed(t).expected = seen[t].expected
        /\ Observed(t).identity = seen[t].identity
    BY SessionRow, ReconciledRow DEF Observed, IdentityValid
  <1>2. TypeOK'
    BY <1>1 DEF TypeOK, Steps
  <1>3. ControlInv'
    BY DEF TypeOK, ControlInv, Operations
  <1>4. RowInv' /\ NoSupersededProcess' /\ SupersededNotExpected'
    BY DEF RowInv, NoSupersededProcess, SupersededNotExpected
  <1>5. StatusInv'
    BY <1>1 DEF TypeOK, StatusInv
  <1>6. SessionInv' /\ PhaseInv'
    BY DEF TypeOK, SessionInv, PhaseInv, Signals, ControlInv, Operations
  <1> QED
    BY <1>2, <1>3, <1>4, <1>5, <1>6

LEMMA StartCheckStep ==
  ASSUME IInv, NEW t \in Threads, StartCheck(t)
  PROVE  IInv'
  <1> USE DEF IInv, StartCheck, At, Goto, Modify
  <1>1. /\ Observed(t) \in Row
        /\ Observed(t).identity = seen[t].identity
        /\ Observed(t).expected = seen[t].expected
        /\ IdentityValid(seen[t], sid[t]) => Observed(t).state = "running"
        /\ Observed(t).state \notin {"stopping", "restarting"}
    BY SessionRow, ReconciledRow DEF Observed, IdentityValid
  <1>2. /\ [Observed(t) EXCEPT !.expected = FALSE] \in Row
        /\ [Observed(t) EXCEPT !.expected = FALSE].identity = seen[t].identity
        /\ [Observed(t) EXCEPT !.expected = FALSE].expected = FALSE
    BY <1>1 DEF Row
  <1>3. lock = t
    BY DEF ControlInv, Operations
  <1>4. TypeOK'
    BY <1>1, <1>2 DEF TypeOK, Steps
  <1>5. ControlInv'
    BY DEF TypeOK, ControlInv, Operations
  <1>6. RowInv' /\ NoSupersededProcess' /\ SupersededNotExpected'
    BY DEF RowInv, NoSupersededProcess, SupersededNotExpected
  <1>7. StatusInv'
    BY DEF TypeOK, StatusInv
  <1>8. SessionInv'
    BY <1>1, <1>2, <1>3 DEF TypeOK, SessionInv
  <1>9. PhaseInv'
    <2>1. CASE Observed(t).state \in ActiveStates
      BY <1>1, <1>3, <2>1 DEF TypeOK, PhaseInv, Signals, ActiveStates
    <2>2. CASE Observed(t).state \notin ActiveStates
      <3>1. ~(rows[last].identity /\ proc[last] = "alive")
        BY <1>1, <1>3, <2>2 DEF SessionInv, IdentityValid, ActiveStates
      <3> QED
        BY <1>2, <1>3, <2>2, <3>1 DEF TypeOK, PhaseInv, Signals
    <2> QED
      BY <2>1, <2>2
  <1> QED
    BY <1>4, <1>5, <1>6, <1>7, <1>8, <1>9

LEMMA StopCheckStep ==
  ASSUME IInv, NEW t \in Threads, StopCheck(t)
  PROVE  IInv'
  <1> USE DEF IInv, StopCheck, At, Goto, Modify
  <1> DEFINE offline == [Observed(t) EXCEPT !.expected = FALSE, !.state = "offline"]
  <1>1. /\ Observed(t) \in Row
        /\ Observed(t).identity = seen[t].identity
        /\ Observed(t).expected = seen[t].expected
    BY SessionRow, ReconciledRow DEF Observed, IdentityValid
  <1>2. /\ offline \in Row
        /\ offline.identity = seen[t].identity
        /\ offline.state = "offline" /\ offline.expected = FALSE
    BY <1>1 DEF Row, States
  <1>3. lock = t
    BY DEF ControlInv, Operations
  <1>4. TypeOK'
    BY <1>1, <1>2 DEF TypeOK, Steps
  <1>5. ControlInv'
    BY DEF TypeOK, ControlInv, Operations
  <1>6. RowInv' /\ NoSupersededProcess' /\ SupersededNotExpected'
    BY DEF RowInv, NoSupersededProcess, SupersededNotExpected
  <1>7. StatusInv'
    BY DEF TypeOK, StatusInv
  <1>8. SessionInv'
    BY <1>1, <1>2, <1>3 DEF TypeOK, SessionInv
  <1>9. PhaseInv'
    BY <1>1, <1>2, <1>3 DEF TypeOK, PhaseInv, Signals
  <1> QED
    BY <1>4, <1>5, <1>6, <1>7, <1>8, <1>9

\* A request that returns without committing anything.
LEMMA ReturnOnly ==
  ASSUME IInv, NEW t \in Threads, Return(t), UNCHANGED <<enabled, rows, last, proc>>
  PROVE  IInv'
  <1> USE DEF IInv
  <1>1. TypeOK' /\ ControlInv'
    BY ReturnEffect DEF TypeOK
  <1>2. RowInv' /\ NoSupersededProcess' /\ SupersededNotExpected'
    BY DEF RowInv, NoSupersededProcess, SupersededNotExpected
  <1>3. StatusInv'
    BY ReturnEffect DEF StatusInv
  <1>4. SessionInv' /\ PhaseInv'
    BY ReturnEffect DEF SessionInv, PhaseInv, Signals
  <1> QED
    BY <1>1, <1>2, <1>3, <1>4

\* A request's last commit: an intent is written to the newest row only, and an
\* identity to the newest row once its process was launched.
LEMMA CommitReturn ==
  ASSUME IInv, NEW t \in Threads, pc[t] # "idle", pc[t] # "insert",
         NEW new \in Row, Commit(t, new), Return(t), UNCHANGED proc,
         new.expected = seen[t].expected \/ lock = t,
         new.identity = seen[t].identity \/ (lock = t /\ proc[last] # "none")
  PROVE  IInv'
  <1> USE DEF IInv
  <1>1. TypeOK' /\ ControlInv'
    BY ReturnEffect, CommitEffect DEF TypeOK
  <1>2. sid[t] \in 1 .. last /\ sid[t] \in Gens /\ (lock = t => sid[t] = last)
    BY SessionRow DEF SessionInv
  <1>3. RowInv'
    BY <1>2, CommitEffect, MaxGenAssumption DEF RowInv, TypeOK
  <1>4. NoSupersededProcess' /\ SupersededNotExpected'
    BY <1>2, CommitEffect DEF NoSupersededProcess, SupersededNotExpected
  <1>5. StatusInv'
    BY ReturnEffect, CommitEffect DEF StatusInv
  <1>6. ASSUME NEW u \in Threads, lock' = u
        PROVE  /\ u # t /\ lock = u /\ lock # t
               /\ last > 0 => /\ last \in Gens
                              /\ rows'[last].expected = rows[last].expected
                              /\ rows'[last].identity = rows[last].identity
    <2>1. u # t /\ lock = u /\ lock # t
      BY <1>6, ReturnEffect
    <2>2. last > 0 => last \in Gens
      BY MaxGenAssumption DEF TypeOK, Gens
    <2> QED
      BY <2>1, <2>2, CommitEffect
  <1>7. SessionInv'
    BY <1>6, ReturnEffect, CommitEffect DEF SessionInv
  <1>8. PhaseInv'
    BY <1>6, ReturnEffect, CommitEffect DEF PhaseInv, Signals
  <1> QED
    BY <1>1, <1>3, <1>4, <1>5, <1>7, <1>8

LEMMA RestartCheckStep ==
  ASSUME IInv, NEW t \in Threads, RestartCheck(t)
  PROVE  IInv'
  <1>1. CASE Observed(t).state # "running"
    BY <1>1, ReturnOnly DEF RestartCheck
  <1>2. CASE Observed(t).state = "running"
    <2> USE <1>2 DEF IInv, RestartCheck, At, Goto, Modify
    <2>1. /\ Observed(t) \in Row
          /\ Observed(t).identity = seen[t].identity
          /\ Observed(t).expected = seen[t].expected
      BY SessionRow, ReconciledRow DEF Observed, IdentityValid
    <2>2. lock = t
      BY DEF ControlInv, Operations
    <2>3. TypeOK'
      BY <2>1 DEF TypeOK, Steps
    <2>4. ControlInv'
      BY DEF TypeOK, ControlInv, Operations
    <2>5. RowInv' /\ NoSupersededProcess' /\ SupersededNotExpected'
      BY DEF RowInv, NoSupersededProcess, SupersededNotExpected
    <2>6. StatusInv'
      BY DEF TypeOK, StatusInv
    <2>7. SessionInv' /\ PhaseInv'
      BY <2>1, <2>2 DEF TypeOK, SessionInv, PhaseInv, Signals
    <2> QED
      BY <2>3, <2>4, <2>5, <2>6, <2>7
  <1> QED
    BY <1>1, <1>2

LEMMA StopVerifyStep ==
  ASSUME IInv, NEW t \in Threads, StopVerify(t)
  PROVE  IInv'
  <1> USE DEF IInv, StopVerify, At, Goto, Modify
  <1> DEFINE stopping == [work[t] EXCEPT !.state = "stopping", !.expected = FALSE]
             unknown  == [work[t] EXCEPT !.state = "unknown"]
  <1>1. lock = t /\ work[t] \in Row /\ work[t].identity = seen[t].identity
    BY DEF TypeOK, ControlInv, SessionInv, Operations
  <1>2. /\ stopping \in Row /\ stopping.identity = seen[t].identity
        /\ stopping.expected = FALSE
        /\ unknown \in Row /\ unknown.identity = seen[t].identity
        /\ unknown.state = "unknown" /\ unknown.expected = work[t].expected
    BY <1>1 DEF Row, States, ActiveStates
  <1>3. TypeOK'
    BY <1>2 DEF TypeOK, Steps
  <1>4. ControlInv'
    BY DEF TypeOK, ControlInv, Operations
  <1>5. RowInv' /\ NoSupersededProcess' /\ SupersededNotExpected'
    BY DEF RowInv, NoSupersededProcess, SupersededNotExpected
  <1>6. StatusInv'
    BY DEF TypeOK, StatusInv
  <1>7. SessionInv' /\ PhaseInv'
    BY <1>1, <1>2 DEF TypeOK, SessionInv, PhaseInv, Signals
  <1> QED
    BY <1>3, <1>4, <1>5, <1>6, <1>7

LEMMA RestartVerifyStep ==
  ASSUME IInv, NEW t \in Threads, RestartVerify(t)
  PROVE  IInv'
  <1>1. CASE ~IdentityValid(work[t], sid[t])
    BY <1>1, ReturnOnly DEF RestartVerify
  <1>2. CASE IdentityValid(work[t], sid[t])
    <2> USE <1>2 DEF IInv, RestartVerify, At, Goto, Modify
    <2> DEFINE restarting == [work[t] EXCEPT !.state = "restarting", !.expected = FALSE]
    <2>1. lock = t /\ work[t] \in Row /\ work[t].identity = seen[t].identity
      BY DEF TypeOK, ControlInv, SessionInv, Operations
    <2>2. /\ restarting \in Row /\ restarting.identity = seen[t].identity
          /\ restarting.expected = FALSE
      BY <2>1 DEF Row, States, ActiveStates
    <2>3. TypeOK'
      BY <2>2 DEF TypeOK, Steps
    <2>4. ControlInv'
      BY DEF TypeOK, ControlInv, Operations
    <2>5. RowInv' /\ NoSupersededProcess' /\ SupersededNotExpected'
      BY DEF RowInv, NoSupersededProcess, SupersededNotExpected
    <2>6. StatusInv'
      BY DEF TypeOK, StatusInv
    <2>7. SessionInv'
      BY <2>1, <2>2 DEF TypeOK, SessionInv
    <2>8. PhaseInv'
      <3>1. work'[t] = restarting /\ pc'[t] = "commit"
        BY DEF TypeOK
      <3> QED
        BY <2>1, <2>2, <3>1 DEF TypeOK, PhaseInv, Signals
    <2> QED
      BY <2>3, <2>4, <2>5, <2>6, <2>7, <2>8
  <1> QED
    BY <1>1, <1>2

LEMMA CommitAndReturnStep ==
  ASSUME IInv, NEW t \in Threads, CommitAndReturn(t)
  PROVE  IInv'
  <1>1. pc[t] = "commit" /\ work[t] \in Row
    BY DEF CommitAndReturn, At, IInv, TypeOK
  <1>2. op[t] = "status" \/ lock = t
    BY <1>1 DEF IInv, TypeOK, ControlInv
  <1>3. work[t].expected = seen[t].expected \/ lock = t
    BY <1>2 DEF IInv, StatusInv
  <1>4. work[t].identity = seen[t].identity
    BY <1>1, <1>2 DEF IInv, StatusInv, SessionInv
  <1> QED
    BY <1>1, <1>3, <1>4, CommitReturn DEF CommitAndReturn

\* A commit in the middle of an operation keeps the session on the newest row.
LEMMA CommitContinue ==
  ASSUME IInv, NEW t \in Threads, lock = t, pc[t] # "idle", pc[t] # "insert",
         pc[t] # "record", work[t].expected = FALSE,
         Commit(t, work[t]), Clean(t, sid[t], work[t]),
         UNCHANGED <<proc, lock, op>>,
         NEW step \in {"signal", "insert"}, Goto(t, step),
         step = "signal" => op[t] \in {"stop", "restart"},
         step = "insert" => op[t] = "restart" /\ proc[last] # "alive"
  PROVE  IInv'
  <1> USE DEF IInv, Clean, Goto
  <1>1. sid[t] = last /\ sid[t] \in Gens /\ work[t] \in Row /\ seen[t] \in Row
    BY SessionRow DEF SessionInv
  <1>2. TypeOK'
    BY <1>1, CommitEffect DEF TypeOK, Steps
  <1>3. ControlInv'
    BY DEF TypeOK, ControlInv, Operations
  <1>4. work[t].identity = seen[t].identity
    BY DEF SessionInv
  <1>5. rows'[last].expected = FALSE /\ rows'[last].identity = seen[t].identity
    BY <1>1, <1>4, CommitEffect DEF SessionInv, TypeOK, Row
  <1>6. RowInv'
    <2>1. \A g \in Gens : rows'[g].identity = rows[g].identity
      BY <1>1, <1>4, CommitEffect
    <2>2. \A g \in Gens : g > last => rows'[g] = rows[g]
      BY <1>1, CommitEffect, MaxGenAssumption DEF TypeOK, Gens
    <2> QED
      BY <1>1, <2>1, <2>2, CommitEffect DEF RowInv
  <1>7. NoSupersededProcess' /\ SupersededNotExpected'
    BY <1>1, <1>4, CommitEffect DEF NoSupersededProcess, SupersededNotExpected
  <1>8. StatusInv'
    BY CommitEffect DEF TypeOK, StatusInv, ControlInv, Operations
  <1>9. SessionInv'
    BY <1>1, <1>4, <1>5, CommitEffect DEF TypeOK, SessionInv
  <1>10. PhaseInv'
    BY <1>1, CommitEffect DEF TypeOK, PhaseInv, Signals
  <1> QED
    BY <1>2, <1>3, <1>6, <1>7, <1>8, <1>9, <1>10

LEMMA CommitAndSignalStep ==
  ASSUME IInv, NEW t \in Threads, CommitAndSignal(t)
  PROVE  IInv'
  <1>1. pc[t] = "commit" /\ op[t] \in {"stop", "restart"} /\ lock = t
    BY DEF CommitAndSignal, Signals, At, IInv, ControlInv, Operations
  <1>2. ~work[t].expected /\ work[t].expected \in BOOLEAN
    BY <1>1 DEF CommitAndSignal, IInv, PhaseInv, Signals, TypeOK, Row
  <1> QED
    BY <1>1, <1>2, CommitContinue DEF CommitAndSignal

LEMMA TerminateStep ==
  ASSUME IInv, NEW t \in Threads, Terminate(t)
  PROVE  IInv'
  <1> USE DEF IInv, Terminate, At, Goto, Modify
  <1> DEFINE offline == [work[t] EXCEPT !.state = "offline", !.ended = TRUE]
  <1>1. /\ lock = t /\ sid[t] = last /\ sid[t] \in Gens
        /\ work[t] \in Row /\ work[t].identity = seen[t].identity
        /\ work[t].expected = FALSE
    BY SessionRow DEF TypeOK, ControlInv, SessionInv, PhaseInv, Operations, Row
  <1>2. /\ offline \in Row
        /\ offline.expected = FALSE
        /\ offline.identity = seen[t].identity
    BY <1>1 DEF Row, States
  <1>3. proc'[last] = "dead" /\ \A g \in Gens : g # last => proc'[g] = proc[g]
    BY <1>1 DEF TypeOK
  <1>4. TypeOK'
    BY <1>1, <1>2 DEF TypeOK, Steps
  <1>5. ControlInv'
    BY DEF TypeOK, ControlInv, Operations
  <1>6. RowInv'
    BY <1>1, <1>3, MaxGenAssumption DEF RowInv, TypeOK
  <1>7. NoSupersededProcess' /\ SupersededNotExpected'
    BY <1>3 DEF NoSupersededProcess, SupersededNotExpected
  <1>8. StatusInv'
    BY DEF TypeOK, StatusInv, ControlInv, Operations
  <1>9. SessionInv'
    BY <1>1, <1>2 DEF TypeOK, SessionInv
  <1>10. PhaseInv'
    BY <1>1, <1>2, <1>3 DEF TypeOK, PhaseInv, Signals
  <1> QED
    BY <1>4, <1>5, <1>6, <1>7, <1>8, <1>9, <1>10

LEMMA SignalRaisesStep ==
  ASSUME IInv, NEW t \in Threads, SignalRaises(t)
  PROVE  IInv'
  BY ReturnOnly DEF SignalRaises

LEMMA StopFinalStep ==
  ASSUME IInv, NEW t \in Threads, StopFinal(t)
  PROVE  IInv'
  <1>1. pc[t] = "final" /\ work[t] \in Row /\ lock = t
    BY DEF StopFinal, At, IInv, TypeOK, ControlInv, Operations
  <1>2. work[t].identity = seen[t].identity
    BY <1>1 DEF IInv, SessionInv
  <1> QED
    BY <1>1, <1>2, CommitReturn DEF StopFinal

LEMMA RestartFinalStep ==
  ASSUME IInv, NEW t \in Threads, RestartFinal(t)
  PROVE  IInv'
  <1>1. pc[t] = "final" /\ op[t] = "restart" /\ lock = t
    BY DEF RestartFinal, At, IInv, TypeOK, ControlInv, Operations
  <1>2. work[t].expected = FALSE /\ proc[last] # "alive"
    BY <1>1 DEF IInv, PhaseInv, TypeOK, Row
  <1> QED
    BY <1>1, <1>2, CommitContinue DEF RestartFinal

LEMMA ConfigurationRaisesStep ==
  ASSUME IInv, NEW t \in Threads, ConfigurationRaises(t)
  PROVE  IInv'
  BY ReturnOnly DEF ConfigurationRaises

LEMMA SpawnStep ==
  ASSUME IInv, NEW t \in Threads, Spawn(t)
  PROVE  IInv'
  <1> USE DEF IInv, Spawn, At, Goto, Modify
  <1> DEFINE launched == [work[t] EXCEPT !.identity = TRUE, !.state = "running"]
  <1>1. /\ lock = t /\ sid[t] = last /\ sid[t] \in Gens
        /\ work[t] \in Row
        /\ rows[last].identity = FALSE
    BY SessionRow DEF TypeOK, ControlInv, SessionInv, PhaseInv, Operations, Row
  <1>2. launched \in Row /\ launched.expected = work[t].expected
    BY <1>1 DEF Row, States, ActiveStates
  <1>3. proc'[last] = "alive" /\ \A g \in Gens : g # last => proc'[g] = proc[g]
    BY <1>1 DEF TypeOK
  <1>4. TypeOK'
    BY <1>1, <1>2 DEF TypeOK, Steps
  <1>5. ControlInv'
    BY DEF TypeOK, ControlInv, Operations
  <1>6. RowInv'
    BY <1>1, <1>3, MaxGenAssumption DEF RowInv, TypeOK
  <1>7. NoSupersededProcess' /\ SupersededNotExpected'
    BY <1>3 DEF NoSupersededProcess, SupersededNotExpected
  <1>8. StatusInv'
    BY DEF TypeOK, StatusInv, ControlInv, Operations
  <1>9. SessionInv'
    BY <1>1 DEF TypeOK, SessionInv
  <1>10. PhaseInv'
    BY <1>1, <1>2, <1>3 DEF TypeOK, PhaseInv, Signals
  <1> QED
    BY <1>4, <1>5, <1>6, <1>7, <1>8, <1>9, <1>10

LEMMA StartSpawnFailsStep ==
  ASSUME IInv, NEW t \in Threads, StartSpawnFails(t)
  PROVE  IInv'
  <1> DEFINE crashed == [work[t] EXCEPT !.state = "crashed", !.ended = TRUE]
  <1>1. pc[t] = "spawn" /\ work[t] \in Row /\ lock = t
    BY DEF StartSpawnFails, At, IInv, TypeOK, ControlInv, Operations
  <1>2. crashed \in Row /\ crashed.identity = seen[t].identity
    BY <1>1 DEF IInv, SessionInv, Row, States
  <1> QED
    BY <1>1, <1>2, CommitReturn DEF StartSpawnFails

LEMMA RestartSpawnFailsStep ==
  ASSUME IInv, NEW t \in Threads, RestartSpawnFails(t)
  PROVE  IInv'
  BY ReturnOnly DEF RestartSpawnFails

LEMMA RecordStep ==
  ASSUME IInv, NEW t \in Threads, Record(t)
  PROVE  IInv'
  <1>1. pc[t] = "record" /\ work[t] \in Row /\ lock = t
    BY DEF Record, At, IInv, TypeOK, ControlInv, Operations
  <1>2. proc[last] # "none"
    BY <1>1 DEF IInv, PhaseInv
  <1> QED
    BY <1>1, <1>2, CommitReturn DEF Record

\* What the transaction that creates a generation does to the rows.
LEMMA InsertEffect ==
  ASSUME IInv, NEW t \in Threads, Insert(t)
  PROVE  /\ lock = t /\ last + 1 \in Gens /\ last' = last + 1
         /\ rows' \in [Gens -> Row]
         /\ rows'[last + 1] = StartingRow
         /\ \A g \in Gens : g < last => rows'[g] = rows[g]
         /\ \A g \in Gens : g > last + 1 => rows'[g] = rows[g]
         /\ last > 0 => /\ last \in Gens
                        /\ ~rows'[last].expected
                        /\ rows'[last].identity = rows[last].identity
  <1> USE DEF IInv, Insert, At
  <1>1. lock = t /\ sid[t] = last /\ last \in Nat /\ last + 1 \in Gens
    BY MaxGenAssumption DEF TypeOK, ControlInv, SessionInv, Operations, Gens
  <1>2. /\ work[t] \in Row /\ seen[t] \in Row
        /\ work[t].identity = seen[t].identity /\ ~work[t].expected
        /\ work[t].expected \in BOOLEAN
    BY <1>1 DEF TypeOK, SessionInv, PhaseInv, Row
  <1>3. last > 0 => last \in Gens /\ rows[last] \in Row
    BY <1>1, MaxGenAssumption DEF TypeOK, Gens
  <1>4. last > 0 => /\ CommittedRow(t, work[t]) \in Row
                    /\ ~CommittedRow(t, work[t]).expected
                    /\ CommittedRow(t, work[t]).identity = rows[last].identity
    BY <1>1, <1>2, <1>3, WrittenRow DEF CommittedRow, SessionInv
  <1>5. \A g \in Gens : rows'[g] \in Row
    BY <1>1, <1>4, NoRowType, MaxGenAssumption DEF TypeOK, Gens
  <1>6. rows' \in [Gens -> Row]
    BY <1>5
  <1>7. rows'[last + 1] = StartingRow
    BY <1>1
  <1>8. \A g \in Gens : g < last \/ g > last + 1 => rows'[g] = rows[g]
    BY <1>1 DEF Gens
  <1>9. last > 0 => rows'[last] = CommittedRow(t, work[t])
    BY <1>1, <1>3
  <1> QED
    BY <1>1, <1>3, <1>4, <1>6, <1>7, <1>8, <1>9

LEMMA InsertStep ==
  ASSUME IInv, NEW t \in Threads, Insert(t)
  PROVE  IInv'
  <1> USE DEF IInv
  <1>1. /\ lock = t /\ last + 1 \in Gens /\ last' = last + 1
        /\ rows' \in [Gens -> Row]
        /\ rows'[last + 1] = StartingRow
        /\ \A g \in Gens : g < last => rows'[g] = rows[g]
        /\ \A g \in Gens : g > last + 1 => rows'[g] = rows[g]
        /\ last > 0 => /\ last \in Gens
                       /\ ~rows'[last].expected
                       /\ rows'[last].identity = rows[last].identity
    BY InsertEffect
  <1>2. last \in Nat /\ last' \in 0 .. MaxGen /\ last' > 0
    BY <1>1, MaxGenAssumption DEF TypeOK, Gens
  <1>3. /\ pc[t] = "insert" /\ pc' = [pc EXCEPT ![t] = "spawn"]
        /\ sid' = [sid EXCEPT ![t] = last + 1]
        /\ seen' = [seen EXCEPT ![t] = StartingRow]
        /\ work' = [work EXCEPT ![t] = StartingRow]
        /\ UNCHANGED <<enabled, proc, lock, op>>
    BY DEF Insert, At, Goto, Clean
  <1>4. TypeOK'
    BY <1>1, <1>2, <1>3, NoRowType DEF TypeOK, Steps
  <1>5. ControlInv'
    BY <1>3 DEF TypeOK, ControlInv, Operations
  <1>6. ASSUME NEW g \in Gens
        PROVE  g \in Nat /\ (g < last \/ g = last \/ g = last + 1 \/ g > last + 1)
    BY <1>2, MaxGenAssumption DEF Gens
  <1>7. RowInv'
    <2> SUFFICES ASSUME NEW g \in Gens
                 PROVE  /\ g > last' => rows'[g] = NoRow /\ proc'[g] = "none"
                        /\ rows'[g].identity => proc'[g] # "none"
      BY DEF RowInv
    <2>1. CASE g < last \/ g > last + 1
      <3>1. g \in Nat /\ rows'[g] = rows[g] /\ proc'[g] = proc[g]
        BY <1>1, <1>3, <1>6, <2>1
      <3>2. g > last' => g > last
        BY <1>1, <1>2, <3>1
      <3> QED
        BY <3>1, <3>2 DEF RowInv
    <2>2. CASE g = last
      <3>1. last > 0 /\ ~(g > last')
        BY <1>1, <1>2, <2>2 DEF Gens
      <3>2. rows'[g].identity = rows[g].identity /\ proc'[g] = proc[g]
        BY <1>1, <1>3, <2>2, <3>1
      <3> QED
        BY <3>1, <3>2 DEF RowInv
    <2>3. CASE g = last + 1
      BY <1>1, <1>2, <1>3, <1>6, <2>3 DEF StartingRow
    <2> QED
      BY <1>6, <2>1, <2>2, <2>3
  <1>8. last > 0 => ~(rows[last].identity /\ proc[last] = "alive")
    BY <1>1, <1>3 DEF PhaseInv
  <1>9. /\ NoSupersededProcess'
        /\ SupersededNotExpected'
    <2> SUFFICES ASSUME NEW g \in Gens
                 PROVE  /\ rows'[g].identity /\ proc'[g] = "alive" => g = last'
                        /\ rows'[g].expected => g = last'
      BY DEF NoSupersededProcess, SupersededNotExpected
    <2>1. CASE g < last
      <3>1. g # last /\ rows'[g] = rows[g] /\ proc'[g] = proc[g]
        BY <1>1, <1>2, <1>3, <1>6, <2>1
      <3> QED
        BY <3>1 DEF NoSupersededProcess, SupersededNotExpected
    <2>2. CASE g = last
      <3>1. last > 0
        BY <1>1, <1>2, <2>2 DEF Gens
      <3>2. /\ rows'[g].identity = rows[g].identity /\ proc'[g] = proc[g]
            /\ ~rows'[g].expected
            /\ ~(rows[g].identity /\ proc[g] = "alive")
        BY <1>1, <1>3, <1>8, <2>2, <3>1
      <3> QED
        BY <3>2
    <2>3. CASE g = last + 1
      BY <1>1, <2>3
    <2>4. CASE g > last + 1
      BY <1>1, <1>2, <1>3, <1>6, <2>4 DEF RowInv, NoRow
    <2> QED
      BY <1>6, <2>1, <2>2, <2>3, <2>4
  <1>10. StatusInv'
    BY <1>1, <1>2, <1>3 DEF TypeOK, StatusInv, ControlInv, Operations
  <1>11. SessionInv'
    BY <1>1, <1>2, <1>3 DEF TypeOK, SessionInv
  <1>12. PhaseInv'
    <2>1. proc'[last + 1] = "none"
      BY <1>1, <1>2, <1>3 DEF RowInv
    <2> QED
      BY <1>1, <1>2, <1>3, <2>1 DEF TypeOK, PhaseInv, Signals, StartingRow
  <1> QED
    BY <1>4, <1>5, <1>7, <1>9, <1>10, <1>11, <1>12

LEMMA ProcessDiesStep ==
  ASSUME IInv, NEW g \in Gens, ProcessDies(g)
  PROVE  IInv'
  <1> USE DEF IInv, ProcessDies
  <1>1. /\ proc' \in [Gens -> {"none", "alive", "dead"}]
        /\ \A h \in Gens : /\ proc'[h] = "alive" => proc[h] = "alive"
                            /\ proc'[h] = "none" <=> proc[h] = "none"
    BY DEF TypeOK
  <1>2. TypeOK' /\ ControlInv' /\ StatusInv' /\ SessionInv'
    BY <1>1 DEF TypeOK, ControlInv, StatusInv, SessionInv
  <1>3. RowInv' /\ NoSupersededProcess' /\ SupersededNotExpected'
    BY <1>1 DEF RowInv, NoSupersededProcess, SupersededNotExpected
  <1>4. last > 0 => last \in Gens
    BY MaxGenAssumption DEF TypeOK, Gens
  <1>5. PhaseInv'
    BY <1>1, <1>4 DEF PhaseInv, Signals, SessionInv
  <1> QED
    BY <1>2, <1>3, <1>5

LEMMA SupervisorRestartsStep ==
  ASSUME IInv, SupervisorRestarts
  PROVE  IInv'
  <1> USE ThreadsAssumption, MaxGenAssumption, NoRowType DEF IInv, SupervisorRestarts
  <1>1. TypeOK'
    BY DEF TypeOK
  <1>2. ControlInv' /\ StatusInv' /\ SessionInv' /\ PhaseInv'
    BY DEF ControlInv, StatusInv, SessionInv, PhaseInv, Operations
  <1>3. RowInv' /\ NoSupersededProcess' /\ SupersededNotExpected'
    BY DEF RowInv, NoSupersededProcess, SupersededNotExpected
  <1> QED
    BY <1>1, <1>2, <1>3

\* A step that changes nothing but the registration's flag, or nothing at all.
LEMMA UnchangedRows ==
  ASSUME IInv, enabled' \in BOOLEAN,
         UNCHANGED <<rows, last, proc, lock, op, pc, sid, seen, work>>
  PROVE  IInv'
  <1> USE DEF IInv
  <1>1. TypeOK' /\ ControlInv' /\ RowInv' /\ StatusInv' /\ SessionInv'
    BY DEF TypeOK, ControlInv, RowInv, StatusInv, SessionInv
  <1>2. PhaseInv' /\ NoSupersededProcess' /\ SupersededNotExpected'
    BY DEF PhaseInv, Signals, NoSupersededProcess, SupersededNotExpected
  <1> QED
    BY <1>1, <1>2

\* Every step keeps the inductive invariant.
LEMMA NextInv == IInv /\ [Next]_vars => IInv'
  <1> SUFFICES ASSUME IInv, [Next]_vars PROVE IInv'
    OBVIOUS
  <1>1. ASSUME NEW t \in Threads, Progress(t) PROVE IInv'
    BY <1>1, StatusCheckStep, StartCheckStep, StopCheckStep, RestartCheckStep,
       StopVerifyStep, RestartVerifyStep, CommitAndReturnStep, CommitAndSignalStep,
       TerminateStep, SignalRaisesStep, StopFinalStep, RestartFinalStep, InsertStep,
       ConfigurationRaisesStep, SpawnStep, StartSpawnFailsStep,
       RestartSpawnFailsStep, RecordStep DEF Progress
  <1>2. CASE ToggleEnabled
    BY <1>2, UnchangedRows DEF ToggleEnabled, IInv, TypeOK
  <1>3. CASE UNCHANGED vars
    BY <1>3, UnchangedRows DEF vars, IInv, TypeOK
  <1> QED
    BY <1>1, <1>2, <1>3, BeginStatusStep, BeginOperationStep, ProcessDiesStep,
       SupervisorRestartsStep DEF Next

-------------------------------------------------------------------------------
\* The inductive invariant holds in every reachable state, for any number of
\* threads and generations.
THEOREM Invariance == Spec => []IInv
  BY InitInv, NextInv, PTL DEF Spec

\* Every variable keeps its type.
THEOREM TypeCorrect == Spec => []TypeOK
  <1>1. IInv => TypeOK
    BY DEF IInv
  <1> QED
    BY Invariance, <1>1, PTL

\* No generation is created while the recorded process of an earlier one runs.
THEOREM NoSuperseded == Spec => []NoSupersededProcess
  <1>1. IInv => NoSupersededProcess
    BY DEF IInv
  <1> QED
    BY Invariance, <1>1, PTL

\* Only the newest generation is ever expected to run.
THEOREM SupersededQuiet == Spec => []SupersededNotExpected
  <1>1. IInv => SupersededNotExpected
    BY DEF IInv
  <1> QED
    BY Invariance, <1>1, PTL

-------------------------------------------------------------------------------
\* What a step does to intent, identity, generation and process: the facts the
\* action properties and the refinement share.  A commit belongs either to an
\* operation on the newest row, which may withdraw the intent, or to a status
\* request, which changes neither column.
LEMMA CommitColumns ==
  ASSUME IInv, NEW t \in Threads, pc[t] \notin {"idle", "insert", "record"},
         NEW new \in Row, Commit(t, new),
         new.identity = work[t].identity,
         new.expected = work[t].expected
  PROVE  \A g \in Gens :
           /\ rows'[g].identity = rows[g].identity
           /\ rows'[g].expected => rows[g].expected
           /\ rows'[g].expected # rows[g].expected =>
                lock = t /\ op[t] \in Operations
  <1> USE DEF IInv
  <1>1. op[t] \in Operations \cup {"status"}
    BY DEF TypeOK, ControlInv
  <1>2. new.identity = seen[t].identity
    BY <1>1 DEF StatusInv, SessionInv, ControlInv
  <1>3. op[t] = "status" => new.expected = seen[t].expected
    BY DEF StatusInv
  <1>4. op[t] \in Operations =>
          /\ lock = t /\ sid[t] = last
          /\ rows[last].expected = seen[t].expected
          /\ new.expected => seen[t].expected
    BY MaxGenAssumption DEF ControlInv, SessionInv, TypeOK
  <1>5. sid[t] \in Gens /\ seen[t] \in Row
    BY SessionRow
  <1> SUFFICES ASSUME NEW g \in Gens
               PROVE  /\ rows'[g].identity = rows[g].identity
                      /\ rows'[g].expected => rows[g].expected
                      /\ rows'[g].expected # rows[g].expected =>
                           lock = t /\ op[t] \in Operations
    OBVIOUS
  <1>6. CASE g # sid[t]
    BY <1>6, CommitEffect
  <1>7. CASE g = sid[t]
    <2>1. /\ rows'[g].expected = IF new.expected # seen[t].expected
                                 THEN new.expected ELSE rows[g].expected
          /\ rows'[g].identity = rows[g].identity
      BY <1>2, <1>7, CommitEffect
    <2>2. new.expected \in BOOLEAN /\ seen[t].expected \in BOOLEAN
      BY <1>5 DEF Row
    <2> QED
      BY <1>1, <1>3, <1>4, <1>7, <2>1, <2>2
  <1> QED
    BY <1>6, <1>7

\* The four kinds of steps.  Quiet: processes and identities stay, an intent is
\* at most withdrawn, and by the operation that holds the lock.
Quiet ==
  /\ UNCHANGED <<last, proc>>
  /\ \A g \in Gens :
       /\ rows'[g].identity = rows[g].identity
       /\ rows'[g].expected => rows[g].expected
       /\ rows'[g].expected # rows[g].expected =>
            lock \in Threads /\ op[lock] \in Operations

\* A process ends, or is launched without a durable identity.
ProcessChanges ==
  /\ UNCHANGED <<last, rows>>
  /\ \A g \in Gens :
       proc'[g] = "alive" => proc[g] = "alive" \/ ~rows[g].identity

\* The launched process's identity becomes durable.
Recorded ==
  /\ UNCHANGED <<last, proc>>
  /\ last \in Gens
  /\ ~rows[last].identity /\ rows[last].expected
  /\ \A g \in Gens : rows'[g].expected = rows[g].expected

\* A generation is created.
Inserted ==
  /\ last' = last + 1
  /\ last + 1 \in Gens
  /\ rows'[last + 1] = StartingRow
  /\ \A g \in Gens : rows[g].identity /\ proc[g] = "alive" => g # last
  /\ lock \in Threads /\ op[lock] \in Operations

LEMMA StepKinds ==
  ASSUME IInv, Next
  PROVE  Quiet \/ ProcessChanges \/ Recorded \/ Inserted
  <1> USE DEF IInv
  <1>1. CASE UNCHANGED <<rows, last, proc>>
    BY <1>1 DEF Quiet
  <1>2. ASSUME NEW t \in Threads, CommitAndReturn(t) \/ CommitAndSignal(t)
                                  \/ StopFinal(t) \/ RestartFinal(t)
        PROVE  Quiet
    <2>1. /\ pc[t] \notin {"idle", "insert", "record"} /\ work[t] \in Row
          /\ Commit(t, work[t]) /\ UNCHANGED proc
      BY <1>2 DEF CommitAndReturn, CommitAndSignal, StopFinal, RestartFinal, At, TypeOK
    <2> QED
      BY <2>1, CommitColumns DEF Quiet, Commit
  <1>3. ASSUME NEW t \in Threads, StartSpawnFails(t)
        PROVE  Quiet
    <2> DEFINE new == [work[t] EXCEPT !.state = "crashed", !.ended = TRUE]
    <2>1. pc[t] = "spawn" /\ work[t] \in Row /\ Commit(t, new) /\ UNCHANGED proc
      BY <1>3 DEF StartSpawnFails, At, TypeOK
    <2>2. /\ new \in Row /\ new.identity = work[t].identity
          /\ new.expected = work[t].expected
      BY <2>1 DEF Row, States
    <2> QED
      BY <2>1, <2>2, CommitColumns DEF Quiet, Commit
  <1>4. ASSUME NEW t \in Threads, Record(t)
        PROVE  Recorded
    <2>1. pc[t] = "record" /\ work[t] \in Row /\ Commit(t, work[t]) /\ UNCHANGED proc
      BY <1>4 DEF Record, At, TypeOK
    <2>2. lock = t /\ op[t] \in Operations
      BY <2>1 DEF ControlInv, Operations
    <2>3. /\ sid[t] = last /\ last > 0
          /\ rows[last].expected = seen[t].expected
          /\ rows[last].identity = seen[t].identity
          /\ ~seen[t].identity /\ seen[t].expected /\ work[t].expected
      BY <2>1, <2>2 DEF SessionInv, PhaseInv
    <2>4. sid[t] \in Gens /\ seen[t] \in Row
      BY <2>1, SessionRow
    <2>5. seen[t].expected \in BOOLEAN /\ work[t].expected \in BOOLEAN
      BY <2>1, <2>4 DEF Row
    <2>6. \A g \in Gens : rows'[g].expected = rows[g].expected
      BY <2>1, <2>3, <2>5, CommitEffect
    <2> QED
      BY <2>1, <2>3, <2>4, <2>6 DEF Recorded, Commit
  <1>5. ASSUME NEW t \in Threads, Insert(t)
        PROVE  Inserted
    <2>1. lock = t /\ last' = last + 1 /\ last + 1 \in Gens /\ rows'[last + 1] = StartingRow
      BY <1>5, InsertEffect
    <2>2. pc[t] = "insert" /\ op[t] \in Operations
      BY <1>5, <2>1 DEF Insert, At, ControlInv
    <2>3. last > 0 => ~(rows[last].identity /\ proc[last] = "alive")
      BY <2>1, <2>2 DEF PhaseInv
    <2>4. \A g \in Gens : g > 0
      BY DEF Gens
    <2> QED
      BY <2>1, <2>2, <2>3, <2>4 DEF Inserted
  <1>6. ASSUME NEW t \in Threads, Terminate(t)
        PROVE  ProcessChanges
    BY <1>6 DEF Terminate, ProcessChanges, TypeOK
  <1>7. ASSUME NEW t \in Threads, Spawn(t)
        PROVE  ProcessChanges
    <2>1. pc[t] = "spawn"
      BY <1>7 DEF Spawn, At
    <2>2. lock = t
      BY <2>1 DEF ControlInv, Operations
    <2>3. sid[t] = last /\ ~rows[last].identity
      BY <2>1, <2>2 DEF SessionInv, PhaseInv
    <2>4. /\ UNCHANGED <<last, rows>>
          /\ \A g \in Gens : proc'[g] = "alive" => proc[g] = "alive" \/ g = sid[t]
      BY <1>7 DEF Spawn, TypeOK
    <2> QED
      BY <2>3, <2>4 DEF ProcessChanges
  <1>8. ASSUME NEW g \in Gens, ProcessDies(g)
        PROVE  ProcessChanges
    BY <1>8 DEF ProcessDies, ProcessChanges, TypeOK
  <1>9. ASSUME NEW t \in Threads, Progress(t)
        PROVE  Quiet \/ ProcessChanges \/ Recorded \/ Inserted
    <2>1. CASE \/ StatusCheck(t) \/ StartCheck(t) \/ StopCheck(t) \/ RestartCheck(t)
               \/ StopVerify(t) \/ RestartVerify(t) \/ SignalRaises(t)
               \/ ConfigurationRaises(t) \/ RestartSpawnFails(t)
      BY <1>1, <2>1 DEF StatusCheck, StartCheck, StopCheck, RestartCheck, StopVerify,
         RestartVerify, SignalRaises, ConfigurationRaises, RestartSpawnFails
    <2> QED
      BY <1>2, <1>3, <1>4, <1>5, <1>6, <1>7, <1>9, <2>1 DEF Progress
  <1>10. CASE ToggleEnabled \/ SupervisorRestarts
    BY <1>1, <1>10 DEF ToggleEnabled, SupervisorRestarts
  <1>11. ASSUME NEW t \in Threads,
                BeginStatus(t) \/ \E o \in Operations : BeginOperation(t, o)
         PROVE  UNCHANGED <<rows, last, proc>>
    BY <1>11 DEF BeginStatus, BeginOperation
  <1> QED
    BY <1>1, <1>8, <1>9, <1>10, <1>11 DEF Next

\* expected_running changes only by an operation that holds the bot's lock.
THEOREM IntentLocked == Spec => IntentByOperation
  <1>1. ASSUME IInv, Next
        PROVE  \A g \in Gens : rows'[g].expected # rows[g].expected =>
                 lock \in Threads /\ op[lock] \in Operations
    BY <1>1, StepKinds DEF Quiet, ProcessChanges, Recorded, Inserted
  <1>2. IInv /\ [Next]_vars =>
          [\A g \in Gens : rows'[g].expected # rows[g].expected =>
             lock \in Threads /\ op[lock] \in Operations]_vars
    BY <1>1
  <1> QED
    BY Invariance, <1>2, PTL DEF Spec, IntentByOperation

\* A process is signalled only after its row durably says it is not expected.
THEOREM SignalledWithdrawn == Spec => SignalOnlyWithdrawn
  <1>1. ASSUME IInv, Next, NEW t \in Threads, pc[t] = "signal", pc'[t] = "final"
        PROVE  ~rows[sid[t]].expected
    <2>1. lock = t /\ last > 0
      BY <1>1 DEF IInv, TypeOK, ControlInv, SessionInv, Operations
    <2> QED
      BY <1>1, <2>1 DEF IInv, SessionInv, PhaseInv
  <1>2. IInv /\ [Next]_vars =>
          [\A t \in Threads : pc[t] = "signal" /\ pc'[t] = "final" =>
             ~rows[sid[t]].expected]_vars
    BY <1>1
  <1> QED
    BY Invariance, <1>2, PTL DEF Spec, SignalOnlyWithdrawn

\* Every step of the supervisor is a step of the lifecycle, or changes nothing
\* that the lifecycle speaks of.
LEMMA StepRefines ==
  ASSUME IInv, Next
  PROVE  [Lifecycle!Next]_(Lifecycle!lifecycleVars)
  <1> USE DEF Lifecycle!Next, Lifecycle!lifecycleVars
  <1>0. /\ Intended \in BOOLEAN /\ Intended' \in BOOLEAN
        /\ Verified \in BOOLEAN /\ Verified' \in BOOLEAN
    BY DEF Intended, Verified
  <1>1. CASE Quiet
    <2>1. last' = last /\ (Intended' => Intended) /\ (Verified' <=> Verified)
      BY <1>1 DEF Quiet, Intended, Verified
    <2>2. last' = last /\ Verified' = Verified
          /\ (Intended' = Intended \/ (Intended = TRUE /\ Intended' = FALSE))
      BY <1>0, <2>1, Zenon
    <2> QED
      BY <2>2, Zenon DEF Lifecycle!Withdraw
  <1>2. CASE ProcessChanges
    <2>1. last' = last /\ (Intended' <=> Intended) /\ (Verified' => Verified)
      BY <1>2 DEF ProcessChanges, Intended, Verified
    <2>2. last' = last /\ Intended' = Intended
          /\ (Verified' = Verified \/ (Verified = TRUE /\ Verified' = FALSE))
      BY <1>0, <2>1, Zenon
    <2> QED
      BY <2>2, Zenon DEF Lifecycle!Exit
  <1>3. CASE Recorded
    <2>1. last' = last /\ Intended /\ Intended' /\ ~Verified
      BY <1>3 DEF Recorded, Intended, Verified
    <2>2. /\ last' = last /\ Intended = TRUE /\ Intended' = Intended
          /\ Verified = FALSE /\ (Verified' = Verified \/ Verified' = TRUE)
      BY <1>0, <2>1, Zenon
    <2> QED
      BY <2>2, Zenon DEF Lifecycle!Verify
  <1>4. CASE Inserted
    <2>1. last' = last + 1 /\ ~Verified /\ Intended' /\ ~Verified'
      BY <1>4 DEF Inserted, Intended, Verified, StartingRow
    <2>2. Intended' = TRUE /\ Verified = FALSE /\ Verified' = FALSE
      BY <1>0, <2>1, Zenon
    <2> QED
      BY <2>1, <2>2, Zenon DEF Lifecycle!NewGeneration
  <1> QED
    BY <1>1, <1>2, <1>3, <1>4, StepKinds

\* The supervisor implements the lifecycle: generations, intent and the one
\* verified process, under every interleaving and every crash of the supervisor.
THEOREM Implements == Spec => ImplementsLifecycle
  <1>1. Init => Lifecycle!Init
    BY DEF Init, Lifecycle!Init, Intended, Verified, NoRow
  <1>2. UNCHANGED vars => UNCHANGED Lifecycle!lifecycleVars
    BY DEF vars, Lifecycle!lifecycleVars, Intended, Verified
  <1>3. IInv /\ [Next]_vars => [Lifecycle!Next]_(Lifecycle!lifecycleVars)
    BY <1>2, StepRefines
  <1> QED
    BY Invariance, <1>1, <1>3, PTL DEF Spec, ImplementsLifecycle, Lifecycle!Spec

===============================================================================
