---------------------------- MODULE TaskRunsProofs ----------------------------
(***************************************************************************)
(* Proofs about TaskRuns, for every number of runs and both policies.      *)
(***************************************************************************)
EXTENDS TaskRuns, TLAPS

\* The initial state satisfies the inductive invariant.
LEMMA InitInv == Init => IInv
  <1> SUFFICES ASSUME Init PROVE IInv
    OBVIOUS
  <1>1. TypeOK
    <2>1. asked \in 0 .. MaxRuns
      BY MaxRunsAssumption DEF Init
    <2>2. run \in [Runs -> Statuses] /\ pc \in [Runs -> Steps] /\ call \in [Runs -> Calls]
      BY DEF Init, Statuses, Steps, Calls
    <2> QED
      BY <2>1, <2>2 DEF Init, TypeOK, BotStates
  <1>2. StepInv /\ CompletedIsRecorded /\ InProgressIsWorked
    BY DEF Init, StepInv, CompletedIsRecorded, InProgressIsWorked
  <1>3. NoOverlap /\ OneKeeper /\ KeyAccounted
    BY DEF Init, NoOverlap, OneKeeper, KeyAccounted, Keepers, Claimed
  <1> QED
    BY <1>1, <1>2, <1>3 DEF IInv

\* A step that moves one thread within the claim, or changes no thread, keeps
\* the exclusion; what it does to the run is stated by its premises.
LEMMA MoveStep ==
  ASSUME IInv, NEW i \in Runs, NEW step \in Steps,
         pc' = [pc EXCEPT ![i] = step], held' = held,
         pc[i] \in Keepers <=> step \in Keepers,
         pc[i] # "leaked"
  PROVE  NoOverlap' /\ OneKeeper' /\ KeyAccounted'
  <1> USE DEF IInv
  <1>1. \A j \in Runs : j # i => pc'[j] = pc[j]
    BY DEF TypeOK
  <1>2. pc'[i] = step
    BY DEF TypeOK
  <1>3. NoOverlap' /\ OneKeeper'
    BY <1>1, <1>2 DEF NoOverlap, OneKeeper, Keepers, Claimed
  <1>4. KeyAccounted'
    BY <1>1, <1>2 DEF KeyAccounted, Keepers, Claimed
  <1> QED
    BY <1>3, <1>4

\* A step that claims the key for a thread that had none.
LEMMA ClaimStep ==
  ASSUME IInv, NEW i \in Runs, NEW step \in Claimed,
         pc' = [pc EXCEPT ![i] = step], held' = TRUE, pc[i] = "none", Free
  PROVE  NoOverlap' /\ OneKeeper' /\ KeyAccounted'
  <1> USE DEF IInv
  <1>1. \A j \in Runs : j # i => pc'[j] = pc[j]
    BY DEF TypeOK
  <1>2. pc'[i] = step
    BY DEF TypeOK
  <1>3. ForbidOverlap => \A j \in Runs : pc[j] \notin Keepers
    BY DEF Free, KeyAccounted
  <1> QED
    BY <1>1, <1>2, <1>3 DEF NoOverlap, OneKeeper, KeyAccounted, Keepers

\* The dashboard's steps touch neither runs nor threads.
LEMMA DashboardStep ==
  ASSUME IInv, NEW i \in Runs, Dashboard(i)
  PROVE  IInv'
  <1> USE DEF IInv, Dashboard, DashboardLearns, DashboardTimesOut
  <1>1. TypeOK' /\ StepInv'
    BY DEF TypeOK, StepInv, Calls
  <1>2. NoOverlap' /\ OneKeeper' /\ KeyAccounted' /\ InProgressIsWorked' /\ CompletedIsRecorded'
    BY DEF TypeOK, NoOverlap, OneKeeper, KeyAccounted, InProgressIsWorked, CompletedIsRecorded
  <1> QED
    BY <1>1, <1>2

\* enqueue, until its thread is started.
LEMMA EnqueueStep ==
  ASSUME IInv, NEW i \in Runs, Enqueue(i) \/ EnqueueCommits(i) \/ EnqueueFails(i)
  PROVE  IInv'
  <1> USE DEF IInv, Enqueue, EnqueueCommits, EnqueueFails, Goto, Answer, Status
  <1>1. TypeOK'
    BY DEF TypeOK, Calls, Steps, Claimed, Statuses
  <1>2. StepInv'
    BY DEF TypeOK, StepInv
  <1>3. CompletedIsRecorded' /\ InProgressIsWorked'
    BY DEF TypeOK, StepInv, CompletedIsRecorded, InProgressIsWorked
  <1>4. NoOverlap' /\ OneKeeper' /\ KeyAccounted'
    <2>1. CASE Enqueue(i) /\ registered /\ Free
      <3>1. pc' = [pc EXCEPT ![i] = "received"] /\ held' = TRUE /\ pc[i] = "none"
        BY <2>1
      <3> QED
        BY <2>1, <3>1, ClaimStep DEF Claimed
    <2>2. CASE ~(Enqueue(i) /\ registered /\ Free)
      <3>1. PICK step \in Steps :
              /\ pc' = [pc EXCEPT ![i] = step] /\ held' = held
              /\ pc[i] \in Keepers <=> step \in Keepers
              /\ pc[i] # "leaked"
        BY <2>2 DEF Steps, Keepers, Claimed
      <3> QED
        BY <3>1, MoveStep
    <2> QED
      BY <2>1, <2>2
  <1> QED
    BY <1>1, <1>2, <1>3, <1>4

\* A run's thread, from its start to the end of _finish.
LEMMA ThreadStep ==
  ASSUME IInv, NEW i \in Runs,
         BeginManual(i) \/ BeginScheduled(i) \/ HandlerEnds(i) \/ Finish(i)
  PROVE  IInv'
  <1> USE DEF IInv, BeginManual, BeginScheduled, HandlerEnds, Finish, Goto, Status,
              Settle, Skip, RunHandler
  <1>1. TypeOK'
    BY DEF TypeOK, StepInv, Steps, Claimed, Statuses, Final, Results
  <1>2. StepInv'
    BY DEF TypeOK, StepInv, Manual
  <1>3. CompletedIsRecorded'
    BY DEF TypeOK, StepInv, CompletedIsRecorded, Manual
  <1>4. InProgressIsWorked'
    BY DEF TypeOK, StepInv, InProgressIsWorked, Results
  <1>5. NoOverlap' /\ OneKeeper' /\ KeyAccounted'
    <2>1. PICK step \in Steps :
            /\ pc' = [pc EXCEPT ![i] = step] /\ held' = held
            /\ pc[i] \in Keepers <=> step \in Keepers
            /\ pc[i] # "leaked"
      BY DEF Steps, Keepers, Claimed
    <2> QED
      BY <2>1, MoveStep
  <1> QED
    BY <1>1, <1>2, <1>3, <1>4, <1>5

\* A tick claims the key, or records a skip.
LEMMA TickStep ==
  ASSUME IInv, Tick
  PROVE  IInv'
  <1> USE DEF IInv, Tick, Goto, Status
  <1> DEFINE i == asked + 1
  <1>1. /\ i \in Runs /\ asked' = i /\ i > asked /\ asked \in Nat
        /\ asked' \in 0 .. MaxRuns
    BY MaxRunsAssumption DEF TypeOK, Runs
  <1>2. pc[i] = "none" /\ op[i] = "none" /\ call[i] = "none" /\ run[i] = "none"
    BY <1>1 DEF StepInv
  <1> HIDE DEF i
  <1>3. TypeOK'
    <2>1. run' \in [Runs -> Statuses]
      BY <1>1 DEF TypeOK, Statuses, Final, i
    <2>2. pc' \in [Runs -> Steps] /\ held' \in BOOLEAN
      BY <1>1 DEF TypeOK, Steps, Claimed, i
    <2> QED
      BY <1>1, <2>1, <2>2 DEF TypeOK
  <1>4. StepInv'
    BY <1>1, <1>2, MaxRunsAssumption DEF TypeOK, StepInv, Runs, i
  <1>5. CompletedIsRecorded' /\ InProgressIsWorked'
    BY <1>1, <1>2 DEF TypeOK, CompletedIsRecorded, InProgressIsWorked, i
  <1>6. NoOverlap' /\ OneKeeper' /\ KeyAccounted'
    <2>1. CASE Free /\ held' = TRUE /\ pc' = [pc EXCEPT ![i] = "begun"]
      BY <1>1, <1>2, <2>1, ClaimStep DEF Claimed
    <2>2. CASE held' = held /\ pc' = [pc EXCEPT ![i] = "done"]
      BY <1>1, <1>2, <2>2, MoveStep DEF Claimed, Keepers, Steps
    <2> QED
      BY <2>1, <2>2 DEF i
  <1> QED
    BY <1>3, <1>4, <1>5, <1>6

\* The key is released by the one thread that holds it.
LEMMA ReleaseStep ==
  ASSUME IInv, NEW i \in Runs, Release(i)
  PROVE  IInv'
  <1> USE DEF IInv, Release, Goto
  <1>1. TypeOK' /\ StepInv'
    BY DEF TypeOK, StepInv, Steps
  <1>2. CompletedIsRecorded' /\ InProgressIsWorked'
    BY DEF TypeOK, CompletedIsRecorded, InProgressIsWorked
  <1>3. \A j \in Runs : j # i => pc'[j] = pc[j]
    BY DEF TypeOK
  <1>4. pc'[i] = "done" /\ pc[i] = "release"
    BY DEF TypeOK
  <1>5. NoOverlap' /\ OneKeeper'
    BY <1>3, <1>4 DEF NoOverlap, OneKeeper, Keepers, Claimed
  <1>6. KeyAccounted'
    BY <1>3, <1>4 DEF KeyAccounted, OneKeeper, Keepers, Claimed
  <1> QED
    BY <1>1, <1>2, <1>5, <1>6

\* The dashboard asks for a run.
LEMMA RequestRunStep ==
  ASSUME IInv, RequestRun
  PROVE  IInv'
  <1> USE DEF IInv, RequestRun
  <1>1. /\ asked + 1 \in Runs /\ asked \in Nat
        /\ asked' = asked + 1 /\ asked' \in 0 .. MaxRuns
    BY MaxRunsAssumption DEF TypeOK, Runs
  <1>2. run[asked + 1] = "none"
    BY <1>1 DEF StepInv
  <1>3. TypeOK'
    BY <1>1 DEF TypeOK, Calls
  <1>4. StepInv'
    BY <1>1, MaxRunsAssumption DEF TypeOK, StepInv, Runs
  <1>5. CompletedIsRecorded' /\ InProgressIsWorked'
    BY DEF TypeOK, CompletedIsRecorded, InProgressIsWorked
  <1>6. NoOverlap' /\ OneKeeper' /\ KeyAccounted'
    BY DEF NoOverlap, OneKeeper, KeyAccounted
  <1> QED
    BY <1>3, <1>4, <1>5, <1>6

\* A restart leaves no thread, no key, and no run in progress.
LEMMA SupervisorRestartsStep ==
  ASSUME IInv, SupervisorRestarts
  PROVE  IInv'
  <1> USE DEF IInv, SupervisorRestarts, Interrupted
  <1>1. \A i \in Runs : pc'[i] \in {"none", "done"} /\ (pc'[i] = "none" <=> pc[i] = "none")
    OBVIOUS
  <1>2. TypeOK'
    <2>1. run' \in [Runs -> Statuses]
      BY DEF TypeOK, Statuses, Final
    <2>2. pc' \in [Runs -> Steps]
      BY DEF TypeOK, Steps
    <2> QED
      BY <2>1, <2>2 DEF TypeOK
  <1>3. StepInv'
    BY <1>1 DEF StepInv
  <1>4. CompletedIsRecorded' /\ InProgressIsWorked'
    BY DEF CompletedIsRecorded, InProgressIsWorked
  <1>5. NoOverlap' /\ OneKeeper' /\ KeyAccounted'
    BY <1>1 DEF NoOverlap, OneKeeper, KeyAccounted, Keepers, Claimed
  <1> QED
    BY <1>2, <1>3, <1>4, <1>5

\* Every step keeps the inductive invariant.
LEMMA NextInv == IInv /\ [Next]_vars => IInv'
  <1> SUFFICES ASSUME IInv, [Next]_vars PROVE  IInv'
    OBVIOUS
  <1>1. CASE \/ UNCHANGED vars
             \/ AdapterChanges
             \/ BotChanges
    <2>1. TypeOK'
      BY <1>1 DEF IInv, TypeOK, vars, AdapterChanges, BotChanges
    <2>2. UNCHANGED <<held, asked, run, op, call, pc, result>>
      BY <1>1 DEF vars, AdapterChanges, BotChanges
    <2> QED
      BY <2>1, <2>2 DEF IInv, StepInv, NoOverlap, OneKeeper, KeyAccounted,
         CompletedIsRecorded, InProgressIsWorked
  <1>2. ASSUME NEW i \in Runs, Enqueue(i) \/ Work(i) \/ Dashboard(i) PROVE  IInv'
    BY <1>2, EnqueueStep, ThreadStep, ReleaseStep, DashboardStep DEF Work
  <1> QED
    BY <1>1, <1>2, RequestRunStep, TickStep, SupervisorRestartsStep DEF Next

-------------------------------------------------------------------------------
\* The inductive invariant holds in every reachable state.
THEOREM Invariance == Spec => []IInv
  BY InitInv, NextInv, PTL DEF Spec

\* Every variable keeps its type.
THEOREM TypeCorrect == Spec => []TypeOK
  <1>1. IInv => TypeOK
    BY DEF IInv
  <1> QED
    BY Invariance, <1>1, PTL

\* A task that forbids overlap has one worker at a time.
THEOREM Exclusion == Spec => []NoOverlap
  <1>1. IInv => NoOverlap
    BY DEF IInv
  <1> QED
    BY Invariance, <1>1, PTL

\* The key is in _running exactly while a thread will take it out, or one has
\* failed to.
THEOREM KeyAccounting == Spec => []KeyAccounted
  <1>1. IInv => KeyAccounted
    BY DEF IInv
  <1> QED
    BY Invariance, <1>1, PTL

\* A completed operation has a recorded run.
THEOREM Completion == Spec => []CompletedIsRecorded
  <1>1. IInv => CompletedIsRecorded
    BY DEF IInv
  <1> QED
    BY Invariance, <1>1, PTL

\* A run's recorded end never changes.
THEOREM EndsOnce == Spec => EndIsFinal
  <1>1. ASSUME IInv, Next, NEW i \in Runs, run[i] \in Final
        PROVE  run'[i] = run[i]
    <2> USE <1>1 DEF IInv, Status
    <2>1. /\ run \in [Runs -> Statuses]
          /\ run[i] \notin {"none", "queued", "running"}
          /\ pc[i] \in {"release", "done"}
      BY DEF TypeOK, StepInv, Steps, Claimed, Final, Results
    <2>2. ASSUME NEW j \in Runs, Enqueue(j) \/ Work(j) \/ Dashboard(j)
          PROVE  run'[i] = run[i]
      BY <2>1, <2>2 DEF Work, Enqueue, EnqueueCommits, EnqueueFails, BeginManual,
         BeginScheduled, HandlerEnds, Finish, Release, Dashboard, DashboardLearns,
         DashboardTimesOut, Skip, RunHandler
    <2>3. CASE Tick
      <3>1. asked + 1 \in Runs => pc[asked + 1] = "none"
        BY <2>3, MaxRunsAssumption DEF StepInv, TypeOK, Tick, Runs
      <3> QED
        BY <2>1, <2>3, <3>1 DEF Tick
    <2>4. CASE RequestRun \/ AdapterChanges \/ BotChanges
      BY <2>4 DEF RequestRun, AdapterChanges, BotChanges
    <2>5. CASE SupervisorRestarts
      BY <2>1, <2>5 DEF SupervisorRestarts, Interrupted
    <2> QED
      BY <2>2, <2>3, <2>4, <2>5 DEF Next
  <1>2. IInv /\ [Next]_vars =>
          [\A i \in Runs : run[i] \in Final => run'[i] = run[i]]_vars
    BY <1>1
  <1> QED
    BY Invariance, <1>2, PTL DEF Spec, EndIsFinal

===============================================================================
