------------------------------ MODULE Incidents ------------------------------
(***************************************************************************)
(* What becomes of the events of one bot: EventBus.publish records the     *)
(* activity and hands it to the incident service in the transaction of the *)
(* caller, next to the numbering of operations in the same database.       *)
(*                                                                         *)
(* SQLite admits one writer, and no one sees what it has not committed: a  *)
(* transaction is one step from its first flush to its commit.  What is    *)
(* read or constructed before the flush is a step of its own.  Texts,      *)
(* redaction and the fingerprint are left out: an error group is one of    *)
(* each kind.                                                              *)
(***************************************************************************)
EXTENDS Integers, FiniteSets, Sequences

CONSTANTS
  Sessions,   \* sessions of the dashboard and the scheduler
  Wired,      \* codes whose producers publish them through EventBus
  Window,     \* the five minutes in which crashes make a loop
  Delay,      \* longest wait for the writer's turn
  MaxClock,   \* bound: instants
  MaxEvents,  \* bound: events
  MaxOperations  \* bound: operations

Recoveries == {"ready", "heartbeat"}
Failures   == {"crashed", "disconnected", "failed", "task"}
Codes      == Failures \cup Recoveries

ASSUME WiredAssumption   == Wired \subseteq Codes
ASSUME TimeAssumption    == Window \in Nat /\ Delay \in 0 .. Window
ASSUME BoundAssumption   ==
  MaxClock \in Nat /\ MaxEvents \in Nat /\ MaxOperations \in Nat

VARIABLES
  now,      \* the clock
  log,      \* events that were constructed
  store,    \* the tables, as committed
  session   \* what each session is doing

vars == <<now, log, store, session>>

\* INCIDENT_RULES, RECOVERY_RULES and POINT_IN_TIME.
Kind(code) ==
  CASE code = "crashed"      -> "BOT_CRASH"
    [] code = "disconnected" -> "DISCORD_DISCONNECT"
    [] code = "failed"       -> "READY_TIMEOUT"
    [] code = "task"         -> "TASK_FAILURE"

Recovers(code) ==
  IF code = "ready" THEN {"DISCORD_DISCONNECT", "READY_TIMEOUT", "BOT_CRASH"}
                    ELSE {"DISCORD_DISCONNECT"}

CrashKinds  == {"BOT_CRASH", "CRASH_LOOP"}
Reconciled  == {"DISCORD_DISCONNECT", "READY_TIMEOUT", "BOT_CRASH"}
Kinds       == Reconciled \cup {"CRASH_LOOP", "TASK_FAILURE"}
GroupKinds  == {"READY_TIMEOUT", "TASK_FAILURE"}  \* their events carry an error

Event    == [id : 1 .. MaxEvents, code : Codes, at : 0 .. MaxClock]
Incident == [kind : Kinds, at : 0 .. MaxClock, event : 1 .. MaxEvents,
             resolution : {"none", "AUTOMATIC", "RECONCILED", "OCCURRED"}]

\* The tables: incidents, their timeline rows, occurrence_count of the error
\* groups, and the numbers of the operations.
Empty == [incidents  |-> <<>>,
          timeline   |-> {},
          groups     |-> [k \in GroupKinds |-> 0],
          operations |-> <<>>]

Idle == [pc |-> "idle"]

Init ==
  /\ now = 0
  /\ log = {}
  /\ store = Empty
  /\ session = [s \in Sessions |-> Idle]

-------------------------------------------------------------------------------
Open(i) == i.resolution = "none"

\* A row of the timeline, once for each source event.
Timeline(tables, e, n) ==
  IF \E row \in tables.timeline : row.event = e.id
  THEN tables.timeline
  ELSE tables.timeline \cup {[event |-> e.id, incident |-> n]}

\* The crashes and loops, and those since an instant.
Crashes(incidents) == {n \in 1 .. Len(incidents) : incidents[n].kind \in CrashKinds}
Recent(incidents, since) == {n \in Crashes(incidents) : incidents[n].at >= since}

\* A faulty promotion that counts before the newest crash is flushed.
FaultyPromoted(incidents, e) ==
  IF Cardinality(Recent(incidents, e.at - Window)) > 3 THEN "CRASH_LOOP" ELSE "BOT_CRASH"

\* _promote_crash_loop, of the newest crash, itself among them.
Promoted(incidents, e) ==
  IF Cardinality(Recent(incidents, e.at - Window)) >= 3 THEN "CRASH_LOOP" ELSE "BOT_CRASH"

Raised(tables, e) ==
  LET kind      == Kind(e.code)
      n         == Len(tables.incidents) + 1
      incident  == [kind |-> kind, at |-> e.at, event |-> e.id,
                    resolution |-> IF kind = "TASK_FAILURE" THEN "OCCURRED" ELSE "none"]
      incidents == Append(tables.incidents, incident)
  IN [tables EXCEPT
        !.incidents = IF kind = "BOT_CRASH"
                      THEN [incidents EXCEPT ![n].kind = Promoted(incidents, e)]
                      ELSE incidents,
        !.timeline  = Timeline(tables, e, n),
        !.groups    = [k \in GroupKinds |-> tables.groups[k] + IF k = kind THEN 1 ELSE 0]]

\* A faulty consumer that counts the occurrence before it looks for a duplicate.
FaultyFailed(tables, e) ==
  IF \E row \in tables.timeline : row.event = e.id
  THEN [tables EXCEPT !.groups =
          [k \in GroupKinds |-> IF k = Kind(e.code) THEN @[k] + 1 ELSE @[k]]]
  ELSE Raised(tables, e)

\* process: an event whose row is in the timeline was delivered before.
Failed(tables, e) ==
  IF \E row \in tables.timeline : row.event = e.id THEN tables ELSE Raised(tables, e)

\* _resolve: the newest open incident that the recovery is about.
Newest(incidents, kinds) ==
  {n \in 1 .. Len(incidents) :
     /\ Open(incidents[n]) /\ incidents[n].kind \in kinds
     /\ \A m \in 1 .. Len(incidents) :
          Open(incidents[m]) /\ incidents[m].kind \in kinds
            => incidents[m].at <= incidents[n].at}

Resolved(tables, e) ==
  LET newest == Newest(tables.incidents, Recovers(e.code))
  IN IF newest = {} THEN {tables}
     ELSE {[tables EXCEPT
              !.incidents = [tables.incidents EXCEPT ![n].resolution = "AUTOMATIC"],
              !.timeline  = Timeline(tables, e, n)] : n \in newest}

\* EventBus.publish: what comes of an event that passes through it.
Outcomes(tables, e) ==
  IF e.code \notin Wired THEN {tables}
  ELSE IF e.code \in Recoveries THEN Resolved(tables, e)
  ELSE {Failed(tables, e)}

-------------------------------------------------------------------------------
Tick ==
  /\ now < MaxClock
  /\ \A s \in Sessions : session[s].pc = "made" => now - session[s].event.at < Delay
  /\ now' = now + 1
  /\ UNCHANGED <<log, store, session>>

\* A DomainEvent is constructed, with its id and time.
Make(s) ==
  /\ session[s] = Idle
  /\ \E code \in Codes :
       LET e == [id |-> Cardinality(log) + 1, code |-> code, at |-> now]
       IN /\ e.id <= MaxEvents
          /\ log' = log \cup {e}
          /\ session' = [session EXCEPT ![s] = [pc |-> "made", event |-> e]]
  /\ UNCHANGED <<now, store>>

\* The same event is delivered again, while it is recent.
MakeAgain(s) ==
  /\ session[s] = Idle
  /\ \E e \in log :
       /\ now - e.at <= Delay
       /\ session' = [session EXCEPT ![s] = [pc |-> "made", event |-> e]]
  /\ UNCHANGED <<now, log, store>>

\* The transaction of the activity, once it is the session's turn to write.
Publish(s) ==
  /\ session[s].pc = "made"
  /\ store' \in Outcomes(store, session[s].event)
  /\ session' = [session EXCEPT ![s] = Idle]
  /\ UNCHANGED <<now, log>>

\* create_operation: the rows are counted before the session writes.
Number(s) ==
  /\ session[s] = Idle
  /\ Len(store.operations) < MaxOperations
  /\ session' = [session EXCEPT ![s] =
       [pc |-> "numbered", number |-> Len(store.operations) + 1]]
  /\ UNCHANGED <<now, log, store>>

\* A faulty table without the unique constraint.
FaultyTaken(s) == FALSE

Taken(s) == \E n \in 1 .. Len(store.operations) : store.operations[n] = session[s].number

\* The flush of the row, whose public_id is unique: of a request whose number is
\* taken, nothing is committed.
Insert(s) ==
  /\ session[s].pc = "numbered"
  /\ ~Taken(s)
  /\ store' = [store EXCEPT !.operations = Append(@, session[s].number)]
  /\ session' = [session EXCEPT ![s] = Idle]
  /\ UNCHANGED <<now, log>>

\* Whatever raises in the request takes the activity, the operation and all.
Rollback(s) ==
  /\ session[s] # Idle
  /\ session' = [session EXCEPT ![s] = Idle]
  /\ UNCHANGED <<now, log, store>>

\* A faulty reconciliation of every incident of the kinds.
FaultyRestart ==
  /\ \E n \in 1 .. Len(store.incidents) : Open(store.incidents[n])
  /\ \E ready \in BOOLEAN :
       store' = [store EXCEPT !.incidents =
         [n \in DOMAIN @ |->
            IF ready /\ @[n].kind \in Reconciled
            THEN [@[n] EXCEPT !.resolution = "RECONCILED"] ELSE @[n]]]
  /\ session' = [s \in Sessions |-> Idle]
  /\ UNCHANGED <<now, log>>

\* The start of the dashboard: nothing it served is left, and the open incidents
\* of a bot whose current instance is ready and expected are resolved.
Restart ==
  /\ \E n \in 1 .. Len(store.incidents) : Open(store.incidents[n])
  /\ \E ready \in BOOLEAN :
       store' = [store EXCEPT !.incidents =
         [n \in 1 .. Len(store.incidents) |->
            LET i == store.incidents[n]
            IN IF ready /\ Open(i) /\ i.kind \in Reconciled
               THEN [i EXCEPT !.resolution = "RECONCILED"] ELSE i]]
  /\ session' = [s \in Sessions |-> Idle]
  /\ UNCHANGED <<now, log>>

Next ==
  \/ Tick
  \/ \E s \in Sessions :
       \/ Make(s) \/ MakeAgain(s) \/ Publish(s)
       \/ Number(s) \/ Insert(s) \/ Rollback(s)
  \/ Restart

Spec == Init /\ [][Next]_vars

-------------------------------------------------------------------------------
\* Type invariant.
Tables ==
  [incidents  : Seq(Incident),
   timeline   : SUBSET [event : 1 .. MaxEvents, incident : Nat],
   groups     : [GroupKinds -> Nat],
   operations : Seq(1 .. MaxOperations)]

TypeOK ==
  /\ now \in 0 .. MaxClock
  /\ log \subseteq Event
  /\ store \in Tables
  /\ session \in [Sessions ->
       {Idle} \cup [pc : {"made"}, event : log]
              \cup [pc : {"numbered"}, number : 1 .. MaxOperations]]

\* However often an event is delivered, and whichever transactions fail, it has
\* at most one incident and one row, its incident's row is its own, and
\* occurrence_count is the number of the group's incidents (incidents.py 70-83,
\* 103-113).
DeliveredOnce ==
  LET incidents == store.incidents
      N == 1 .. Len(incidents)
  IN /\ \A n, m \in N : incidents[n].event = incidents[m].event => n = m
     /\ \A r, q \in store.timeline : r.event = q.event => r = q
     /\ \A n \in N : [event |-> incidents[n].event, incident |-> n] \in store.timeline
     /\ \A k \in GroupKinds :
          store.groups[k] = Cardinality({n \in N : incidents[n].kind = k})

\* Three crashes no further apart than a span.
Threes(incidents, span) ==
  {three \in SUBSET Crashes(incidents) :
     /\ Cardinality(three) = 3
     /\ \A n, m \in three : incidents[n].at <= incidents[m].at + span}

\* Three crashes within five minutes make a loop of one of them, in whichever
\* order they are committed; and a loop has three crashes that are no further
\* apart than that and the wait of a late one together, as the count has no upper
\* end (114-118).
LoopIsThreeCrashes ==
  LET incidents == store.incidents
      Loop(n)   == incidents[n].kind = "CRASH_LOOP"
  IN /\ \A three \in Threes(incidents, Window) : \E n \in three : Loop(n)
     /\ \A n \in Crashes(incidents) :
          Loop(n) => \E three \in Threes(incidents, Window + Delay) : n \in three

\* What is resolved stays as it is, what is recorded stays recorded, and an
\* incident that is open stays what it was until it is resolved: restarts and
\* transactions that fail take nothing back.  Operations are numbered in their
\* order: of two requests that count the same rows, one fails (operations.py 8-9).
HistoryStays ==
  [][LET old == store.incidents
         new == store'.incidents
     IN /\ Len(old) <= Len(new)
        /\ \A n \in 1 .. Len(old) : IF Open(old[n])
             THEN [new[n] EXCEPT !.resolution = "none"] = old[n]
             ELSE new[n] = old[n]
        /\ store.timeline \subseteq store'.timeline
        /\ store'.operations \in
             {store.operations, Append(store.operations, Len(store.operations) + 1)}]_vars

\* An event is known by its id.
LogInv ==
  /\ IsFiniteSet(log)
  /\ \A e \in log : e.id <= Cardinality(log)
  /\ \A e, f \in log : e.id = f.id => e = f

\* Nothing is from the future, and what waits for its turn to be written waits no
\* longer than the delay.
ClockInv ==
  /\ \A e \in log : e.at <= now
  /\ \A n \in 1 .. Len(store.incidents) : store.incidents[n].at <= now
  /\ \A s \in Sessions : session[s].pc = "made" => now <= session[s].event.at + Delay

\* The operations are numbered from one on, and a request that has counted them
\* has a number that is taken, or the next.
NumberInv ==
  /\ \A n \in 1 .. Len(store.operations) : store.operations[n] = n
  /\ \A s \in Sessions :
       session[s].pc = "numbered" => session[s].number <= Len(store.operations) + 1

\* The inductive invariant.
IInv ==
  TypeOK /\ LogInv /\ ClockInv /\ NumberInv /\ DeliveredOnce /\ LoopIsThreeCrashes

\* README 508: "Availability incidents remain OPEN until an objective trusted
\* recovery event resolves them automatically", and 512: the recovery "targets the
\* newest matching open incident".
ReadyResolves ==
  [][\A s \in Sessions :
       LET newest == Newest(store.incidents, Kinds) IN
       Publish(s) /\ session[s].event.code = "ready" /\ newest # {}
         => \E n \in newest : ~Open(store'.incidents[n])]_vars
===============================================================================
