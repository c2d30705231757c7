----------------------------- MODULE FeedsProofs -----------------------------
(***************************************************************************)
(* Proofs about the two feeds the supervisor keeps of a bot.  Snapshots,   *)
(* for every set of guilds, every limit and every number of instances: the *)
(* activity adds up, and what is shown as current is recent.  Telemetry,   *)
(* for every number of instances and every limit: a sample has a handle,   *)
(* and an answer that carries one is about a process that was alive within *)
(* the limit.                                                              *)
(***************************************************************************)
EXTENDS Snapshots, Telemetry, TLAPS

\* What a guild without a row is cached as, and the bounds of the ages.
LEMMA Types ==
  /\ NoRow \in [standing : Standing, instance : 0 .. MaxInstances,
                generated : 0 .. Old, received : 0 .. Stale + 1]
  /\ Late \in Nat /\ Old \in Nat
  BY StaleAssumption, BoundAssumption DEF NoRow, Standing, Late, Old

\* The initial state satisfies the inductive invariant.
LEMMA SnapshotInitInv == Init => IInv
  <1> SUFFICES ASSUME Init PROVE IInv
    OBVIOUS
  <1>1. guilds \in [Guilds -> Standing]
    BY DEF Init, Standing
  <1>2. instance = NewRow(1) /\ agent = NewAgent /\ sent = {} /\ asked = FALSE
    BY DEF Init
  <1>3. /\ rows = [g \in Guilds |-> NoRow]
        /\ status = [g \in Guilds |-> "absent"]
        /\ told = [g \in Guilds |-> "absent"]
    BY DEF Init
  <1>4. TypeOK
    <2>1. status \in [Guilds -> Standing]
      BY <1>3 DEF Standing
    <2>2. instance \in [id : 1 .. MaxInstances, state : States,
                      ended : BOOLEAN, ready : BOOLEAN]
      BY <1>2, BoundAssumption DEF NewRow, States
    <2>3. operation = "none"
      BY DEF Init
    <2> QED
      BY <1>1, <1>2, <1>3, <2>1, <2>2, <2>3, Types DEF TypeOK, NewAgent
  <1>5. CacheInv
    <2>1. 0 <= 0 + 2 * Stale
      BY StaleAssumption
    <2> QED
      BY <1>3, <2>1 DEF CacheInv, NoRow
  <1> QED
    BY <1>4, <1>5 DEF IInv

\* What becomes of a guild when a snapshot is accepted.
LEMMA KeptRow ==
  ASSUME IInv, NEW m \in sent, Current(m), NEW g \in Guilds
  PROVE  /\ Kept(m, g) \in [standing : Standing, instance : 0 .. MaxInstances,
                            generated : 0 .. Old, received : 0 .. Stale + 1]
         /\ Kept(m, g).standing = m.guilds[g]
         /\ m.guilds[g] = "absent" <=> Kept(m, g) = NoRow
         /\ Kept(m, g).generated <= 2 * Stale /\ Kept(m, g).received = 0
         /\ m.guilds[g] \in Standing
  <1>1. /\ m.guilds[g] \in Standing /\ m.instance \in 1 .. MaxInstances
        /\ m.age \in 0 .. 2 * Stale
    BY StaleAssumption DEF IInv, TypeOK, Snapshot, Current, Late
  <1> QED
    BY <1>1, Types, StaleAssumption, BoundAssumption DEF Kept, NoRow, Old

\* The status kept for the next comparison is that of the row.
LEMMA KnownStatus ==
  ASSUME IInv, NEW m \in sent, NEW g \in Guilds
  PROVE  Known(m, g) = m.guilds[g]
  BY DEF IInv, CacheInv, Known, NoRow

\* A reader of the activity follows: at most one event is published of a guild,
\* and it is the one that the reader can take.
LEMMA ReadFollows ==
  ASSUME IInv, NEW m \in sent, Current(m), NEW g \in Guilds
  PROVE  Read(m, g) = m.guilds[g]
  <1>1. m.guilds[g] \in Standing /\ rows[g].standing \in Standing
    BY KeptRow DEF IInv, TypeOK
  <1>2. status[g] = rows[g].standing /\ told[g] = rows[g].standing
    BY DEF IInv, CacheInv
  <1>3. rows[g].standing = "absent" <=> rows[g] = NoRow
    BY DEF IInv, CacheInv
  <1>4. CASE m.guilds[g] = rows[g].standing
    <2>1. Events(m, g) = <<>>
      BY <1>2, <1>3, <1>4 DEF Events
    <2> QED
      BY <2>1, <1>2, <1>4 DEF Read
  <1>5. CASE m.guilds[g] # "absent" /\ rows[g].standing = "absent"
    <2>1. Events(m, g) = <<"JOINED">>
      BY <1>2, <1>3, <1>5 DEF Events
    <2> QED
      BY <2>1, <1>2, <1>5 DEF Read, Reading
  <1>6. CASE m.guilds[g] = "absent" /\ rows[g].standing # "absent"
    <2>1. Events(m, g) = <<"REMOVED">>
      BY <1>3, <1>6 DEF Events
    <2> QED
      BY <2>1, <1>2, <1>6 DEF Read, Reading
  <1>7. CASE m.guilds[g] = "FAIL" /\ rows[g].standing = "PASS"
    <2>1. Events(m, g) = <<"FAILED">> \o <<>> \o <<>>
      BY <1>2, <1>3, <1>7, Zenon DEF Events
    <2>2. Events(m, g) = <<"FAILED">>
      BY <2>1
    <2> QED
      BY <2>2, <1>2, <1>7 DEF Read, Reading
  <1>8. CASE m.guilds[g] = "PASS" /\ rows[g].standing = "FAIL"
    <2>1. Events(m, g) = <<"RECOVERED">> \o <<>> \o <<>>
      BY <1>2, <1>3, <1>8 DEF Events
    <2>2. Events(m, g) = <<"RECOVERED">>
      BY <2>1
    <2> QED
      BY <2>2, <1>2, <1>8 DEF Read, Reading
  <1> QED
    BY <1>1, <1>4, <1>5, <1>6, <1>7, <1>8 DEF Standing

\* An accepted snapshot keeps the inductive invariant.
LEMMA AcceptStep ==
  ASSUME IInv, Accept
  PROVE  IInv'
  <1>1. PICK m \in sent :
          /\ Current(m)
          /\ sent'   = sent \ {m}
          /\ rows'   = [g \in Guilds |-> Kept(m, g)]
          /\ status' = [g \in Guilds |-> Known(m, g)]
          /\ told'   = [g \in Guilds |-> Read(m, g)]
    BY DEF Accept
  <1>2. TypeOK'
    BY <1>1, KeptRow, KnownStatus DEF IInv, TypeOK, Accept, lifecycle
  <1>3. CacheInv'
    BY <1>1, KeptRow, KnownStatus, ReadFollows, StaleAssumption DEF CacheInv, Standing
  <1> QED
    BY <1>2, <1>3 DEF IInv

\* Time passes: a row and its snapshot age together.
LEMMA SnapshotTickStep ==
  ASSUME IInv, Tick
  PROVE  IInv'
  <1>1. \A age \in Nat, cap \in Nat : age <= cap =>
          Older(age, cap) \in 0 .. cap /\ age <= Older(age, cap) /\ Older(age, cap) <= age + 1
    BY DEF Older
  <1>2. sent' \subseteq Snapshot
    <2>1. \A m \in Snapshot : [m EXCEPT !.age = Older(m.age, Late)] \in Snapshot
      BY <1>1, Types DEF Snapshot
    <2>2. \A m \in sent : m \in Snapshot
      BY DEF IInv, TypeOK
    <2> QED
      BY <2>1, <2>2 DEF Tick
  <1>3. \A g \in Guilds :
          /\ rows'[g] \in [standing : Standing, instance : 0 .. MaxInstances,
                           generated : 0 .. Old, received : 0 .. Stale + 1]
          /\ rows'[g].standing = rows[g].standing
          /\ rows'[g] = NoRow <=> rows[g] = NoRow
          /\ rows'[g].received <= Stale => rows'[g].generated <= rows'[g].received + 2 * Stale
    <2> TAKE g \in Guilds
    <2>1. CASE rows[g] = NoRow
      BY <2>1, StaleAssumption DEF IInv, TypeOK, CacheInv, Tick, NoRow
    <2>2. CASE rows[g] # NoRow
      <3>1. rows'[g] = [rows[g] EXCEPT !.generated = Older(rows[g].generated, Old),
                                       !.received = Older(rows[g].received, Stale + 1)]
        BY <2>2 DEF Tick
      <3>2. rows[g].generated \in 0 .. Old /\ rows[g].received \in 0 .. Stale + 1
        BY DEF IInv, TypeOK
      <3>3. /\ Older(rows[g].generated, Old) \in 0 .. Old
            /\ Older(rows[g].generated, Old) <= rows[g].generated + 1
        BY <3>2, Types DEF Older
      <3>4. Older(rows[g].received, Stale + 1) \in 0 .. Stale + 1
        BY <3>2, StaleAssumption DEF Older
      <3>5. Older(rows[g].received, Stale + 1) <= Stale =>
              /\ rows[g].received <= Stale
              /\ Older(rows[g].received, Stale + 1) = rows[g].received + 1
        BY <3>2, StaleAssumption DEF Older
      <3>6. rows[g].standing # "absent"
        BY <2>2 DEF IInv, CacheInv
      <3>7. /\ rows'[g] \in [standing : Standing, instance : 0 .. MaxInstances,
                             generated : 0 .. Old, received : 0 .. Stale + 1]
            /\ rows'[g].standing = rows[g].standing
        <4>1. rows[g] \in [standing : Standing, instance : 0 .. MaxInstances,
                          generated : 0 .. Old, received : 0 .. Stale + 1]
          BY DEF IInv, TypeOK
        <4> QED
          BY <3>1, <3>3, <3>4, <4>1
      <3>8. rows'[g] # NoRow
        BY <3>6, <3>7 DEF NoRow
      <3>9. rows'[g].received <= Stale => rows'[g].generated <= rows'[g].received + 2 * Stale
        <4>1. /\ rows'[g].received = Older(rows[g].received, Stale + 1)
              /\ rows'[g].generated = Older(rows[g].generated, Old)
          BY <3>1 DEF IInv, TypeOK
        <4>2. rows[g].received <= Stale => rows[g].generated <= rows[g].received + 2 * Stale
          BY DEF IInv, CacheInv
        <4>3. 2 * Stale \in Nat
          BY StaleAssumption
        <4> QED
          BY <3>2, <3>5, <3>3, <4>1, <4>2, <4>3, Types
      <3> QED
        BY <2>2, <3>7, <3>8, <3>9
    <2> QED
      BY <2>1, <2>2
  <1>4. TypeOK'
    BY <1>2, <1>3 DEF IInv, TypeOK, Tick, lifecycle
  <1>5. CacheInv'
    BY <1>3 DEF IInv, CacheInv, Tick
  <1> QED
    BY <1>4, <1>5 DEF IInv

\* The other steps leave rows, statuses and activity alone.
LEMMA OtherStep ==
  ASSUME IInv, [Next]_vars, ~Accept, ~Tick
  PROVE  IInv'
  <1> USE DEF IInv, TypeOK
  <1>1. UNCHANGED <<rows, status, told>>
    BY DEF Next, vars, supervisor, Changes, Ready, Disconnects, Wake, Return, Lost,
       Reject, Ask, HeartbeatAnswers, Dies, Found, NotFound, Stops, Stopped, Starts,
       Spawns, SpawnFails, Records
  <1>2. CacheInv'
    BY <1>1 DEF CacheInv
  <1>3. CASE UNCHANGED vars
    BY <1>1, <1>2, <1>3 DEF vars, lifecycle, supervisor
  <1>4. CASE Changes
    BY <1>1, <1>2, <1>4 DEF Changes, lifecycle, supervisor
  <1>5. CASE Ready \/ Disconnects
    <2>1. agent' \in [alive : BOOLEAN, ready : BOOLEAN, wanted : BOOLEAN,
                     pc : {"waiting", "sending"}]
      BY <1>5 DEF Ready, Disconnects
    <2> QED
      BY <1>1, <1>2, <1>5, <2>1 DEF Ready, Disconnects, lifecycle, supervisor
  <1>6. CASE Wake
    <2>1. [instance |-> instance.id, guilds |-> guilds, age |-> 0] \in Snapshot
      BY Types DEF Snapshot
    <2>2. agent' \in [alive : BOOLEAN, ready : BOOLEAN, wanted : BOOLEAN,
                     pc : {"waiting", "sending"}]
      BY <1>6 DEF Wake
    <2> QED
      BY <1>1, <1>2, <1>6, <2>1, <2>2 DEF Wake, lifecycle, supervisor
  <1>7. CASE Return
    BY <1>1, <1>2, <1>7 DEF Return, lifecycle, supervisor
  <1>8. CASE Lost \/ Reject
    BY <1>1, <1>2, <1>8 DEF Lost, Reject, lifecycle, supervisor
  <1>9. CASE Ask
    BY <1>1, <1>2, <1>9 DEF Ask, lifecycle
  <1>10. CASE HeartbeatAnswers
    BY <1>1, <1>2, <1>10 DEF HeartbeatAnswers
  <1>11. CASE Dies
    BY <1>1, <1>2, <1>11 DEF Dies, DeadAgent, NewAgent, lifecycle, supervisor
  <1>12. CASE Found \/ NotFound
    BY <1>1, <1>2, <1>12 DEF Found, NotFound, States, Over, supervisor
  <1>13. CASE Stops \/ Stopped
    BY <1>1, <1>2, <1>13 DEF Stops, Stopped, DeadAgent, NewAgent, States, Over, supervisor
  <1>14. CASE Starts
    BY <1>1, <1>2, <1>14, BoundAssumption DEF Starts, NewRow, States, supervisor
  <1>15. CASE Spawns
    BY <1>1, <1>2, <1>15 DEF Spawns, NewAgent, supervisor
  <1>16. CASE SpawnFails \/ Records
    BY <1>1, <1>2, <1>16 DEF SpawnFails, Records, States, Over, supervisor
  <1> QED
    BY <1>3, <1>4, <1>5, <1>6, <1>7, <1>8, <1>9, <1>10, <1>11, <1>12, <1>13, <1>14, <1>15,
       <1>16 DEF Next

\* Every step keeps the inductive invariant.
LEMMA SnapshotNextInv == IInv /\ [Next]_vars => IInv'
  BY AcceptStep, SnapshotTickStep, OtherStep

\* The inductive invariant: types, and the agreement of rows, statuses and activity.
THEOREM SnapshotInvariance == Spec => []IInv
  <1>1. Init => IInv
    BY SnapshotInitInv
  <1>2. IInv /\ [Next]_vars => IInv'
    BY SnapshotNextInv
  <1> QED
    BY <1>1, <1>2, PTL DEF Spec

\* Every variable keeps its type.
THEOREM SnapshotTypeCorrect == Spec => []TypeOK
  <1>1. IInv => TypeOK
    BY DEF IInv
  <1> QED
    BY <1>1, SnapshotInvariance, PTL

\* Whatever is lost, late or overtaken, the activity adds up to what is cached, for
\* any guilds (guild_snapshots.py 33-38, 66-72).
THEOREM AddsUp == Spec => []ActivityAddsUp
  <1>1. IInv => ActivityAddsUp
    BY DEF IInv, CacheInv, ActivityAddsUp
  <1> QED
    BY <1>1, SnapshotInvariance, PTL

\* What is shown as current was so at most three times the limit ago, for any limit
\* (guild_snapshots.py 23, 73-77).
THEOREM Recent == Spec => []CurrentIsRecent
  <1>1. ASSUME IInv, NEW g \in Guilds, Shown(g) = "CURRENT"
        PROVE  rows[g].generated <= 3 * Stale
    <2>1. rows[g].received <= Stale
      BY <1>1, StaleAssumption DEF Shown, IInv, TypeOK
    <2> QED
      BY <1>1, <2>1, StaleAssumption DEF IInv, TypeOK, CacheInv
  <1>2. IInv => CurrentIsRecent
    BY <1>1 DEF CurrentIsRecent
  <1> QED
    BY <1>2, SnapshotInvariance, PTL

-------------------------------------------------------------------------------
\* Ages grow, and stay ages.
LEMMA Aging ==
  ASSUME NEW age \in Ages
  PROVE  Aged(age) \in Ages /\ age <= Aged(age)
  BY StaleAssumption DEF Ages, Aged

\* What is no older than something else stays so.
LEMMA AgingKeepsOrder ==
  ASSUME NEW a \in Ages, NEW b \in Ages, a <= b
  PROVE  Aged(a) <= Aged(b) /\ 0 <= Aged(b)
  BY StaleAssumption DEF Ages, Aged

\* A sample that is not missing is of an instance.
LEMMA SampleOfInstance ==
  ASSUME TelemetryIInv, latest # None
  PROVE  latest.instance \in Instances
  BY DEF TelemetryIInv, TelemetryTypeOK, SampleHasHandle

\* Clearing drops the sample or leaves it.
LEMMA Clearing ==
  ASSUME NEW i \in 0 .. MaxInstances
  PROVE  Cleared(i) \in {None, latest} /\ (latest.instance = i => Cleared(i) = None)
  BY DEF Cleared

\* A missing sample is one, of no instance.
LEMMA NoSample == None \in Sample
  BY StaleAssumption, BoundAssumption DEF None, Sample, Ages

\* The initial state satisfies the inductive invariant.
LEMMA TelemetryInitInv == TelemetryInit => TelemetryIInv
  BY StaleAssumption, BoundAssumption
     DEF TelemetryInit, TelemetryIInv, TelemetryTypeOK, SampleHasHandle, PassInv, AliveInv, None, IdlePass, NoRequest,
         Sample, Ages, Instances

\* One lemma for each action: it keeps the inductive invariant.
LEMMA StartsStep ==
  ASSUME TelemetryIInv, RowStarts
  PROVE  TelemetryIInv'
  <1> USE StaleAssumption, BoundAssumption DEF TelemetryIInv, RowStarts, actual
  <1>1. TelemetryTypeOK'
    <2>1. row' \in [id : 0 .. MaxInstances, running : BOOLEAN]
      BY DEF TelemetryTypeOK
    <2> QED
      BY <2>1 DEF TelemetryTypeOK
  <1>2. SampleHasHandle'
    BY DEF SampleHasHandle
  <1>3. PassInv'
    BY DEF PassInv
  <1>4. AliveInv'
    BY DEF TelemetryTypeOK, AliveInv
  <1> QED
    BY <1>1, <1>2, <1>3, <1>4

LEMMA LaunchesStep ==
  ASSUME TelemetryIInv, Launches
  PROVE  TelemetryIInv'
  <1> USE StaleAssumption, BoundAssumption DEF TelemetryIInv, Launches, actual
  <1>1. TelemetryTypeOK'
    <2>1. row' \in [id : 0 .. MaxInstances, running : BOOLEAN]
      BY DEF TelemetryTypeOK
    <2>2. 0 \in Ages
      BY DEF Ages
    <2>3. lastAlive' \in [Instances -> Ages]
      BY <2>2 DEF TelemetryTypeOK
    <2> QED
      BY <2>1, <2>3 DEF TelemetryTypeOK
  <1>2. SampleHasHandle'
    BY DEF SampleHasHandle
  <1>3. PassInv'
    BY DEF TelemetryTypeOK, PassInv, Ages
  <1>4. AliveInv'
    <2>1. row.id \in Instances /\ row'.id = row.id
      BY DEF TelemetryTypeOK, AliveInv, Instances
    <2>2. lastAlive'[row.id] = 0
      BY <2>1 DEF TelemetryTypeOK
    <2>3. latest # None => lastAlive'[latest.instance] <= latest.age
      BY <2>1, SampleOfInstance DEF TelemetryTypeOK, AliveInv, Sample, Ages
    <2> QED
      BY <2>1, <2>2, <2>3, BoundAssumption DEF AliveInv, Instances
  <1> QED
    BY <1>1, <1>2, <1>3, <1>4

LEMMA DiesStep ==
  ASSUME TelemetryIInv, ProcessDies
  PROVE  TelemetryIInv'
  <1> USE StaleAssumption, BoundAssumption DEF TelemetryIInv, ProcessDies, actual
  <1>1. TelemetryTypeOK'
    BY DEF TelemetryTypeOK
  <1>2. SampleHasHandle'
    BY DEF SampleHasHandle
  <1>3. PassInv'
    BY DEF PassInv
  <1>4. AliveInv'
    BY DEF AliveInv
  <1> QED
    BY <1>1, <1>2, <1>3, <1>4

LEMMA RowFollowsStep ==
  ASSUME TelemetryIInv, RowFollows
  PROVE  TelemetryIInv'
  <1> USE StaleAssumption, BoundAssumption DEF TelemetryIInv, RowFollows, actual
  <1>1. TelemetryTypeOK'
    BY DEF TelemetryTypeOK
  <1>2. SampleHasHandle'
    BY DEF SampleHasHandle
  <1>3. PassInv'
    BY DEF PassInv
  <1>4. AliveInv'
    BY DEF TelemetryTypeOK, AliveInv
  <1> QED
    BY <1>1, <1>2, <1>3, <1>4

LEMMA StopsStep ==
  ASSUME TelemetryIInv, RowStops
  PROVE  TelemetryIInv'
  <1> USE StaleAssumption, BoundAssumption DEF TelemetryIInv, RowStops, actual
  <1>1. TelemetryTypeOK'
    BY DEF TelemetryTypeOK
  <1>2. SampleHasHandle'
    BY DEF SampleHasHandle
  <1>3. PassInv'
    BY DEF PassInv
  <1>4. AliveInv'
    BY DEF TelemetryTypeOK, AliveInv
  <1> QED
    BY <1>1, <1>2, <1>3, <1>4

LEMMA TelemetryTickStep ==
  ASSUME TelemetryIInv, TelemetryTick
  PROVE  TelemetryIInv'
  <1> USE StaleAssumption, BoundAssumption DEF TelemetryIInv, TelemetryTick, actual
  <1>1. TelemetryTypeOK'
    <2>1. latest' \in Sample
      BY Aging DEF TelemetryTypeOK, Sample
    <2>2. collector' = collector \/ collector' = [collector EXCEPT !.age = Aged(collector.age)]
      OBVIOUS
    <2>3. collector' \in [pc : {"stopped", "idle", "validating", "sampling", "adding", "cleaning"},
                         target : 0 .. MaxInstances, age : Ages]
      BY <2>2, Aging DEF TelemetryTypeOK
    <2>4. lastAlive' \in [Instances -> Ages]
      BY Aging DEF TelemetryTypeOK, Ages
    <2> QED
      BY <2>1, <2>3, <2>4 DEF TelemetryTypeOK
  <1>2. SampleHasHandle'
    <2>1. latest'.instance = latest.instance /\ (latest' # None => latest # None)
      BY DEF TelemetryTypeOK, Sample
    <2> QED
      BY <2>1 DEF SampleHasHandle
  <1>3. PassInv'
    <2>1. collector'.pc = collector.pc /\ collector'.target = collector.target
      BY DEF TelemetryTypeOK
    <2>2. ASSUME collector.pc = "adding"
          PROVE  lastAlive'[collector.target] <= collector'.age
      <3>1. collector'.age = Aged(collector.age)
        BY <2>2 DEF TelemetryTypeOK
      <3>2. /\ collector.target \in Instances
            /\ lastAlive[collector.target] <= collector.age
            /\ lastAlive[collector.target] \in Ages /\ collector.age \in Ages
        BY <2>2 DEF TelemetryTypeOK, PassInv
      <3>3. lastAlive'[collector.target] \in {0, Aged(lastAlive[collector.target])}
        BY <3>2
      <3> QED
        BY <3>1, <3>2, <3>3, AgingKeepsOrder
    <2> QED
      BY <2>1, <2>2 DEF PassInv
  <1>4. AliveInv'
    <2>1. ASSUME latest # None
          PROVE  lastAlive'[latest.instance] <= latest'.age
      <3>1. latest'.age = Aged(latest.age)
        BY <2>1 DEF TelemetryTypeOK, Sample
      <3>2. /\ latest.instance \in Instances
            /\ lastAlive[latest.instance] <= latest.age
            /\ lastAlive[latest.instance] \in Ages /\ latest.age \in Ages
        BY <2>1, SampleOfInstance DEF TelemetryTypeOK, AliveInv, Sample
      <3>3. lastAlive'[latest.instance] \in {0, Aged(lastAlive[latest.instance])}
        BY <3>2
      <3> QED
        BY <3>1, <3>2, <3>3, AgingKeepsOrder
    <2>2. latest'.instance = latest.instance /\ (latest' # None => latest # None)
      BY DEF TelemetryTypeOK, Sample
    <2>3. process = "alive" => row.id \in Instances /\ lastAlive'[row.id] = 0
      BY DEF TelemetryTypeOK, AliveInv, Instances
    <2> QED
      BY <2>1, <2>2, <2>3 DEF AliveInv
  <1> QED
    BY <1>1, <1>2, <1>3, <1>4

LEMMA LoadStep ==
  ASSUME TelemetryIInv, Load
  PROVE  TelemetryIInv'
  <1> USE StaleAssumption, BoundAssumption DEF TelemetryIInv, Load, actual
  <1>1. TelemetryTypeOK'
    <2>1. 0 \in Ages /\ 0 \in 0 .. MaxInstances
      BY DEF Ages
    <2> QED
      BY <2>1 DEF TelemetryTypeOK
  <1>2. SampleHasHandle'
    BY DEF SampleHasHandle
  <1>3. PassInv'
    BY DEF PassInv
  <1>4. AliveInv'
    BY DEF AliveInv
  <1> QED
    BY <1>1, <1>2, <1>3, <1>4

LEMMA ValidateStep ==
  ASSUME TelemetryIInv, Validate
  PROVE  TelemetryIInv'
  <1> USE StaleAssumption, BoundAssumption DEF TelemetryIInv, Validate, actual
  <1>1. TelemetryTypeOK'
    <2>1. Cleared(collector.target) \in Sample /\ handles \ {collector.target} \subseteq Instances
      BY Clearing, NoSample DEF TelemetryTypeOK
    <2>2. collector' \in [pc : {"stopped", "idle", "validating", "sampling", "adding", "cleaning"},
                         target : 0 .. MaxInstances, age : Ages]
      BY DEF TelemetryTypeOK
    <2> QED
      BY <2>1, <2>2 DEF TelemetryTypeOK, DropTarget
  <1>2. SampleHasHandle'
    BY Clearing DEF TelemetryTypeOK, SampleHasHandle, DropTarget
  <1>3. PassInv'
    BY DEF TelemetryTypeOK, PassInv
  <1>4. AliveInv'
    BY Clearing DEF TelemetryTypeOK, AliveInv, DropTarget
  <1> QED
    BY <1>1, <1>2, <1>3, <1>4

LEMMA PrimeStep ==
  ASSUME TelemetryIInv, Prime
  PROVE  TelemetryIInv'
  <1> USE StaleAssumption, BoundAssumption DEF TelemetryIInv, Prime, actual
  <1>1. TelemetryTypeOK'
    <2>1. collector.target \in Instances
      BY DEF TelemetryTypeOK, PassInv, Instances
    <2>2. collector' \in [pc : {"stopped", "idle", "validating", "sampling", "adding", "cleaning"},
                         target : 0 .. MaxInstances, age : Ages]
      BY DEF TelemetryTypeOK
    <2> QED
      BY <2>1, <2>2 DEF TelemetryTypeOK
  <1>2. SampleHasHandle'
    BY DEF SampleHasHandle
  <1>3. PassInv'
    BY DEF TelemetryTypeOK, PassInv
  <1>4. AliveInv'
    BY DEF AliveInv
  <1> QED
    BY <1>1, <1>2, <1>3, <1>4

LEMMA ReadStep ==
  ASSUME TelemetryIInv, ReadProcess
  PROVE  TelemetryIInv'
  <1> USE StaleAssumption, BoundAssumption DEF TelemetryIInv, ReadProcess, actual
  <1>1. TelemetryTypeOK'
    BY DEF TelemetryTypeOK
  <1>2. SampleHasHandle'
    BY DEF SampleHasHandle
  <1>3. PassInv'
    BY DEF TelemetryTypeOK, PassInv, AliveInv, TargetAlive, Ages
  <1>4. AliveInv'
    BY DEF AliveInv
  <1> QED
    BY <1>1, <1>2, <1>3, <1>4

LEMMA ReadFailsStep ==
  ASSUME TelemetryIInv, ReadFails
  PROVE  TelemetryIInv'
  <1> USE StaleAssumption, BoundAssumption DEF TelemetryIInv, ReadFails, actual
  <1>1. TelemetryTypeOK'
    <2>1. Cleared(collector.target) \in Sample /\ handles \ {collector.target} \subseteq Instances
      BY Clearing, NoSample DEF TelemetryTypeOK
    <2>2. collector' \in [pc : {"stopped", "idle", "validating", "sampling", "adding", "cleaning"},
                         target : 0 .. MaxInstances, age : Ages]
      BY DEF TelemetryTypeOK
    <2> QED
      BY <2>1, <2>2 DEF TelemetryTypeOK, DropTarget
  <1>2. SampleHasHandle'
    BY Clearing DEF TelemetryTypeOK, SampleHasHandle, DropTarget
  <1>3. PassInv'
    BY DEF TelemetryTypeOK, PassInv
  <1>4. AliveInv'
    BY Clearing DEF TelemetryTypeOK, AliveInv, DropTarget
  <1> QED
    BY <1>1, <1>2, <1>3, <1>4

LEMMA AddStep ==
  ASSUME TelemetryIInv, Add
  PROVE  TelemetryIInv'
  <1> USE StaleAssumption, BoundAssumption DEF TelemetryIInv, Add, actual
  <1>1. TelemetryTypeOK'
    BY DEF TelemetryTypeOK, Sample
  <1>2. SampleHasHandle'
    BY DEF PassInv, SampleHasHandle
  <1>3. PassInv'
    BY DEF TelemetryTypeOK, PassInv
  <1>4. AliveInv'
    BY DEF PassInv, AliveInv
  <1> QED
    BY <1>1, <1>2, <1>3, <1>4

LEMMA CleanStep ==
  ASSUME TelemetryIInv, Clean
  PROVE  TelemetryIInv'
  <1> USE StaleAssumption, BoundAssumption DEF TelemetryIInv, Clean, actual
  <1>1. TelemetryTypeOK'
    <2>1. IdlePass \in [pc : {"stopped", "idle", "validating", "sampling", "adding", "cleaning"},
                       target : 0 .. MaxInstances, age : Ages]
      BY DEF IdlePass, Ages
    <2> QED
      BY <2>1, NoSample DEF TelemetryTypeOK
  <1>2. SampleHasHandle'
    BY DEF SampleHasHandle
  <1>3. PassInv'
    BY DEF PassInv, IdlePass
  <1>4. AliveInv'
    BY DEF AliveInv
  <1> QED
    BY <1>1, <1>2, <1>3, <1>4

LEMMA ShutdownStep ==
  ASSUME TelemetryIInv, Shutdown
  PROVE  TelemetryIInv'
  <1> USE StaleAssumption, BoundAssumption DEF TelemetryIInv, Shutdown, actual
  <1>1. TelemetryTypeOK'
    <2>1. collector' \in [pc : {"stopped", "idle", "validating", "sampling", "adding", "cleaning"},
                       target : 0 .. MaxInstances, age : Ages]
      BY DEF IdlePass, Ages
    <2>2. request' \in [pc : {"idle", "asked"}, instance : 0 .. MaxInstances, expected : BOOLEAN]
      BY DEF NoRequest
    <2> QED
      BY <2>1, <2>2, NoSample DEF TelemetryTypeOK
  <1>2. SampleHasHandle'
    BY DEF SampleHasHandle
  <1>3. PassInv'
    BY DEF PassInv, IdlePass
  <1>4. AliveInv'
    BY DEF AliveInv
  <1> QED
    BY <1>1, <1>2, <1>3, <1>4

LEMMA StartupStep ==
  ASSUME TelemetryIInv, Startup
  PROVE  TelemetryIInv'
  <1> USE StaleAssumption, BoundAssumption DEF TelemetryIInv, Startup, actual
  <1>1. TelemetryTypeOK'
    <2>1. IdlePass \in [pc : {"stopped", "idle", "validating", "sampling", "adding", "cleaning"},
                       target : 0 .. MaxInstances, age : Ages]
      BY DEF IdlePass, Ages
    <2> QED
      BY <2>1 DEF TelemetryTypeOK
  <1>2. SampleHasHandle'
    BY DEF SampleHasHandle
  <1>3. PassInv'
    BY DEF PassInv, IdlePass
  <1>4. AliveInv'
    BY DEF AliveInv
  <1> QED
    BY <1>1, <1>2, <1>3, <1>4

LEMMA AskStep ==
  ASSUME TelemetryIInv, AskTelemetry
  PROVE  TelemetryIInv'
  <1> USE StaleAssumption, BoundAssumption DEF TelemetryIInv, AskTelemetry, actual
  <1>1. TelemetryTypeOK'
    BY DEF TelemetryTypeOK
  <1>2. SampleHasHandle'
    BY DEF SampleHasHandle
  <1>3. PassInv'
    BY DEF PassInv
  <1>4. AliveInv'
    BY DEF AliveInv
  <1> QED
    BY <1>1, <1>2, <1>3, <1>4

LEMMA AnswerStep ==
  ASSUME TelemetryIInv, Answer
  PROVE  TelemetryIInv'
  <1> USE StaleAssumption, BoundAssumption DEF TelemetryIInv, Answer, actual
  <1>1. TelemetryTypeOK'
    <2>1. request.instance \in 0 .. MaxInstances
      BY DEF TelemetryTypeOK
    <2>2. latest' \in Sample
      BY <2>1, Clearing, NoSample DEF TelemetryTypeOK
    <2>3. request' \in [pc : {"idle", "asked"}, instance : 0 .. MaxInstances, expected : BOOLEAN]
      BY DEF NoRequest
    <2> QED
      BY <2>2, <2>3 DEF TelemetryTypeOK
  <1>2. SampleHasHandle'
    BY Clearing DEF TelemetryTypeOK, SampleHasHandle
  <1>3. PassInv'
    BY DEF PassInv
  <1>4. AliveInv'
    BY Clearing DEF TelemetryTypeOK, AliveInv
  <1> QED
    BY <1>1, <1>2, <1>3, <1>4

\* Every step keeps the inductive invariant.
LEMMA TelemetryNextInv ==
  ASSUME TelemetryIInv, [TelemetryNext]_telemetryVars
  PROVE  TelemetryIInv'
  <1>1. CASE UNCHANGED telemetryVars
    BY <1>1 DEF telemetryVars, actual, TelemetryIInv, TelemetryTypeOK, SampleHasHandle, PassInv, AliveInv
  <1>2. CASE TelemetryNext
    BY <1>2, StartsStep, LaunchesStep, DiesStep, RowFollowsStep, StopsStep,
       TelemetryTickStep, LoadStep, ValidateStep, PrimeStep, ReadStep, ReadFailsStep,
       AddStep, CleanStep, ShutdownStep, StartupStep, AskStep, AnswerStep DEF TelemetryNext,
       Pass
  <1> QED
    BY <1>1, <1>2

\* The inductive invariant: types, handles, and what the time of a pass and of a
\* sample says of the process.
THEOREM TelemetryInvariance == TelemetrySpec => []TelemetryIInv
  <1>1. TelemetryInit => TelemetryIInv
    BY TelemetryInitInv
  <1>2. TelemetryIInv /\ [TelemetryNext]_telemetryVars => TelemetryIInv'
    BY TelemetryNextInv
  <1> QED
    BY <1>1, <1>2, PTL DEF TelemetrySpec

\* Every variable keeps its type.
THEOREM TelemetryTypeCorrect == TelemetrySpec => []TelemetryTypeOK
  <1>1. TelemetryIInv => TelemetryTypeOK
    BY DEF TelemetryIInv
  <1> QED
    BY <1>1, TelemetryInvariance, PTL

\* No sample is left behind by a handle that was dropped (telemetry.py 73, 83-84).
THEOREM Handled == TelemetrySpec => []SampleHasHandle
  <1>1. TelemetryIInv => SampleHasHandle
    BY DEF TelemetryIInv
  <1> QED
    BY <1>1, TelemetryInvariance, PTL

\* An answer that carries a sample is about a process that was alive within
\* telemetry_stale_after_seconds, for any number of instances and however a pass, a
\* request, deaths and launches interleave (telemetry.py 67-94).
THEOREM WasAlive == TelemetrySpec => AvailableWasAlive
  <1>1. TelemetryIInv /\ [TelemetryNext]_telemetryVars
        => [Answer /\ Available => lastAlive[request.instance] <= StaleAfter]_telemetryVars
    <2> SUFFICES ASSUME TelemetryIInv, Available PROVE lastAlive[request.instance] <= StaleAfter
      OBVIOUS
    <2>1. latest # None /\ latest.instance = request.instance /\ latest.age <= StaleAfter
      BY DEF Available
    <2>2. request.instance \in Instances
      BY <2>1, SampleOfInstance
    <2>3. lastAlive[request.instance] <= latest.age
      BY <2>1 DEF TelemetryIInv, AliveInv
    <2> QED
      BY <2>1, <2>2, <2>3, StaleAssumption DEF TelemetryIInv, TelemetryTypeOK, Ages, Sample
  <1> QED
    BY <1>1, TelemetryInvariance, PTL DEF TelemetrySpec, AvailableWasAlive
===============================================================================
