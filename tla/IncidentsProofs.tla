---------------------------- MODULE IncidentsProofs ----------------------------
(***************************************************************************)
(* Proofs about Incidents, for every set of sessions, every length of the  *)
(* window and of the wait, and every number of events: an event is         *)
(* delivered once, a loop is three crashes, and history stays.             *)
(***************************************************************************)
EXTENDS Incidents, FiniteSetTheorems, TLAPS

USE WiredAssumption, TimeAssumption, BoundAssumption

-------------------------------------------------------------------------------
\* Counting.

\* Of three or more there are two beside any one of them.
LEMMA TwoOthers ==
  ASSUME NEW S, IsFiniteSet(S), Cardinality(S) >= 3, NEW x \in S
  PROVE  \E a, b \in S : a # x /\ b # x /\ a # b
<1>1. /\ IsFiniteSet(S \ {x}) /\ Cardinality(S \ {x}) = Cardinality(S) - 1
      /\ Cardinality(S) \in Nat
  BY FS_RemoveElement, FS_CardinalityType
<1> DEFINE T == S \ {x}
<1>2. T # {}
  BY <1>1, FS_EmptySet
<1>3. PICK a \in T : TRUE
  BY <1>2
<1>4. IsFiniteSet(T) /\ Cardinality(T) \in Nat /\ Cardinality(T) >= 2
  BY <1>1
<1>5. T \ {a} # {}
  <2> HIDE DEF T
  <2>1. IsFiniteSet(T \ {a}) /\ Cardinality(T \ {a}) = Cardinality(T) - 1
    BY <1>4, FS_RemoveElement
  <2>. QED
    BY <1>4, <2>1, FS_EmptySet
<1>. QED
  BY <1>3, <1>5

\* Three different ones are three.
LEMMA ThreeOf ==
  ASSUME NEW a, NEW b, NEW c, a # b, a # c, b # c
  PROVE  Cardinality({a, b, c}) = 3
<1>1. IsFiniteSet({a}) /\ Cardinality({a}) = 1
  BY FS_Singleton
<1>2. IsFiniteSet({a} \cup {b}) /\ Cardinality({a} \cup {b}) = 2
  BY <1>1, FS_AddElement
<1>3. Cardinality(({a} \cup {b}) \cup {c}) = 3
  BY <1>2, FS_AddElement
<1>4. ({a} \cup {b}) \cup {c} = {a, b, c}
  OBVIOUS
<1>. QED
  BY <1>3, <1>4

\* Of three or more there are three with any one of them.
LEMMA ThreeWith ==
  ASSUME NEW S, IsFiniteSet(S), Cardinality(S) >= 3, NEW x \in S
  PROVE  \E three \in SUBSET S : x \in three /\ Cardinality(three) = 3
<1>1. PICK a, b \in S : a # x /\ b # x /\ a # b
  BY TwoOthers
<1>2. Cardinality({a, b, x}) = 3
  BY <1>1, ThreeOf
<1>. QED
  BY <1>1, <1>2

\* What is from no earlier than a window before an instant, and what is from no
\* later than a delay after it, are no further apart than both.
LEMMA Spread ==
  ASSUME NEW a \in Nat, NEW b \in Nat, NEW t \in Nat, NEW at \in Nat,
         a <= t, t <= at + Delay, b >= at - Window
  PROVE  a <= b + (Window + Delay)
OBVIOUS

\* The numbers of the incidents that have some property are finitely many.
LEMMA FiniteNumbers ==
  ASSUME NEW n \in Nat, NEW S \in SUBSET (1 .. n)
  PROVE  IsFiniteSet(S) /\ Cardinality(S) \in Nat
<1>1. IsFiniteSet(1 .. n)
  BY FS_Interval
<1>2. IsFiniteSet(S)
  BY <1>1, FS_Subset
<1>. QED
  BY <1>2, FS_CardinalityType

-------------------------------------------------------------------------------
\* The tables.

LEMMA LenIsNat == ASSUME NEW tables \in Tables PROVE Len(tables.incidents) \in Nat
BY DEF Tables

LEMMA RowOf ==
  ASSUME NEW tables \in Tables, NEW e \in Event, NEW n \in Nat
  PROVE  Timeline(tables, e, n) \in SUBSET [event : 1 .. MaxEvents, incident : Nat]
BY DEF Timeline, Tables, Event

LEMMA KindOf ==
  ASSUME NEW code \in Failures
  PROVE  /\ Kind(code) \in {"BOT_CRASH", "DISCORD_DISCONNECT", "READY_TIMEOUT", "TASK_FAILURE"}
         /\ Kind(code) \in Kinds
BY DEF Failures, Kind, Kinds, Reconciled

\* What the tables of a failure are: one incident more, the last, of the event; a
\* crash or a loop, by the count of the recent ones, when the event is a crash.
LEMMA RaisedEffect ==
  ASSUME NEW tables \in Tables, NEW e \in Event, e.code \in Failures,
         NEW t, t = Raised(tables, e), NEW n, n = Len(tables.incidents) + 1
  PROVE  /\ t \in Tables
         /\ Len(t.incidents) = n
         /\ \A m \in 1 .. Len(tables.incidents) : t.incidents[m] = tables.incidents[m]
         /\ t.incidents[n].event = e.id /\ t.incidents[n].at = e.at
         /\ t.incidents[n].kind = IF Kind(e.code) = "BOT_CRASH"
              THEN IF Cardinality(Recent(t.incidents, e.at - Window)) >= 3
                   THEN "CRASH_LOOP" ELSE "BOT_CRASH"
              ELSE Kind(e.code)
         /\ t.timeline = Timeline(tables, e, n)
         /\ t.groups = [k \in GroupKinds |->
              tables.groups[k] + IF k = Kind(e.code) THEN 1 ELSE 0]
         /\ t.operations = tables.operations
<1> DEFINE old == tables.incidents
           kind == Kind(e.code)
           incident == [kind |-> kind, at |-> e.at, event |-> e.id,
                        resolution |-> IF kind = "TASK_FAILURE" THEN "OCCURRED" ELSE "none"]
           raised == Append(old, incident)
           kept == IF kind = "BOT_CRASH"
                   THEN [raised EXCEPT ![n].kind = Promoted(raised, e)] ELSE raised
           groups == [k \in GroupKinds |-> tables.groups[k] + IF k = kind THEN 1 ELSE 0]
<1>1. t = [tables EXCEPT !.incidents = kept, !.timeline = Timeline(tables, e, n),
                         !.groups = groups]
  BY DEF Raised
<1>2. incident \in Incident
  <2>1. e.id \in 1 .. MaxEvents /\ e.at \in 0 .. MaxClock
    BY DEF Event
  <2>2. kind \in Kinds
    BY KindOf
  <2>. QED
    BY <2>1, <2>2 DEF Incident
<1>3. old \in Seq(Incident) /\ n \in Nat /\ n >= 1
  BY DEF Tables
<1>4. /\ raised \in Seq(Incident) /\ Len(raised) = n
      /\ \A m \in 1 .. Len(old) : raised[m] = old[m]
      /\ raised[n] = incident
  <2> HIDE DEF incident
  <2>. QED
    BY <1>2, <1>3
<1>5. Promoted(raised, e) \in CrashKinds /\ CrashKinds \subseteq Kinds
  BY DEF Promoted, CrashKinds, Kinds, Reconciled
<1>6. /\ kept \in Seq(Incident) /\ Len(kept) = n
      /\ \A m \in 1 .. Len(old) : kept[m] = old[m]
      /\ kept[n] = [incident EXCEPT !.kind = IF kind = "BOT_CRASH" THEN Promoted(raised, e) ELSE kind]
  <2> HIDE DEF raised
  <2>1. CASE kind = "BOT_CRASH"
    <3> DEFINE p == Promoted(raised, e)
    <3>1. p \in Kinds
      BY <1>5
    <3> HIDE DEF p
    <3>2. [incident EXCEPT !.kind = p] \in Incident
      BY <1>2, <3>1 DEF Incident
    <3> HIDE DEF incident
    <3>3. kept = [raised EXCEPT ![n] = [incident EXCEPT !.kind = p]]
      BY <1>3, <1>4, <2>1 DEF p
    <3>. QED
      BY <1>3, <1>4, <2>1, <3>2, <3>3 DEF p
  <2>2. CASE kind # "BOT_CRASH"
    BY <1>3, <1>4, <2>2
  <2>. QED
    BY <2>1, <2>2
<1>7. groups \in [GroupKinds -> Nat]
  <2>1. \A k \in GroupKinds : tables.groups[k] \in Nat
    BY DEF Tables
  <2>. QED
    BY <2>1
<1> HIDE DEF kept, groups
<1>8. /\ t.incidents = kept /\ t.timeline = Timeline(tables, e, n) /\ t.groups = groups
      /\ t.operations = tables.operations /\ t \in Tables
  <2> DEFINE rows == Timeline(tables, e, n)
  <2>1. rows \in SUBSET [event : 1 .. MaxEvents, incident : Nat]
    BY <1>3, RowOf
  <2> HIDE DEF rows
  <2>2. t = [tables EXCEPT !.incidents = kept, !.timeline = rows, !.groups = groups]
    BY <1>1 DEF rows
  <2>3. kept \in Seq(Incident)
    BY <1>6
  <2>4. t \in Tables
    BY <1>7, <2>1, <2>2, <2>3 DEF Tables
  <2>5. /\ t.incidents = kept /\ t.timeline = rows /\ t.groups = groups
        /\ t.operations = tables.operations
    BY <2>2 DEF Tables
  <2>. QED
    BY <2>4, <2>5 DEF rows
<1>9. /\ kept[n].event = e.id /\ kept[n].at = e.at
      /\ kept[n].kind = IF kind = "BOT_CRASH" THEN Promoted(raised, e) ELSE kind
  BY <1>6
<1>10. ASSUME kind = "BOT_CRASH", NEW since PROVE Recent(kept, since) = Recent(raised, since)
  <2>1. /\ raised[n].kind \in CrashKinds /\ kept[n].kind \in CrashKinds
        /\ raised[n].at = kept[n].at
    BY <1>4, <1>5, <1>9, <1>10 DEF CrashKinds
  <2>2. \A m \in 1 .. n : m # n => kept[m] = raised[m]
    BY <1>3, <1>4, <1>6
  <2> HIDE DEF raised
  <2>. QED
    BY <1>4, <1>6, <2>1, <2>2 DEF Recent, Crashes
<1>11. kept[n].kind = IF kind = "BOT_CRASH"
              THEN IF Cardinality(Recent(kept, e.at - Window)) >= 3
                   THEN "CRASH_LOOP" ELSE "BOT_CRASH"
              ELSE kind
  BY <1>9, <1>10 DEF Promoted
<1>. QED
  BY <1>6, <1>8, <1>9, <1>11 DEF groups

\* What a recovery makes of the tables: it resolves an incident that was open.
LEMMA ResolvedEffect ==
  ASSUME NEW tables \in Tables, NEW e \in Event, NEW t \in Resolved(tables, e)
  PROVE  \/ t = tables
         \/ \E n \in 1 .. Len(tables.incidents) :
              /\ t \in Tables
              /\ Open(tables.incidents[n])
              /\ t.incidents = [tables.incidents EXCEPT ![n].resolution = "AUTOMATIC"]
              /\ t.timeline = Timeline(tables, e, n)
              /\ t.groups = tables.groups /\ t.operations = tables.operations
<1>1. CASE Newest(tables.incidents, Recovers(e.code)) = {}
  BY <1>1 DEF Resolved
<1>2. CASE Newest(tables.incidents, Recovers(e.code)) # {}
  <2>1. PICK n \in Newest(tables.incidents, Recovers(e.code)) :
          t = [tables EXCEPT
                 !.incidents = [tables.incidents EXCEPT ![n].resolution = "AUTOMATIC"],
                 !.timeline  = Timeline(tables, e, n)]
    BY <1>2 DEF Resolved
  <2>2. n \in 1 .. Len(tables.incidents) /\ Open(tables.incidents[n])
    BY DEF Newest
  <2>3. [tables.incidents[n] EXCEPT !.resolution = "AUTOMATIC"] \in Incident
    <3>1. tables.incidents[n] \in Incident
      BY <2>2 DEF Tables
    <3>. QED
      BY <3>1 DEF Incident
  <2> DEFINE new == [tables.incidents EXCEPT ![n].resolution = "AUTOMATIC"]
  <2>4. new \in Seq(Incident)
    BY <2>2, <2>3 DEF Tables
  <2> HIDE DEF new
  <2>5. /\ t.incidents = new /\ t.timeline = Timeline(tables, e, n)
        /\ t.groups = tables.groups /\ t.operations = tables.operations
    BY <2>1 DEF new, Tables
  <2>6. t \in Tables
    <3> DEFINE rows == Timeline(tables, e, n)
    <3>1. rows \in SUBSET [event : 1 .. MaxEvents, incident : Nat]
      BY <2>2, RowOf
    <3>2. t = [tables EXCEPT !.incidents = new, !.timeline = rows]
      BY <2>1 DEF new
    <3> HIDE DEF rows
    <3>. QED
      BY <2>4, <3>1, <3>2 DEF Tables
  <2>. QED
    BY <2>2, <2>5, <2>6 DEF new
<1>. QED
  BY <1>1, <1>2

\* No incident is made or becomes another: at most it is resolved.
SameIncidents(old, new) ==
  /\ Len(new) = Len(old)
  /\ \A n \in 1 .. Len(old) :
       \/ new[n] = old[n]
       \/ \E how \in {"AUTOMATIC", "RECONCILED"} :
            Open(old[n]) /\ new[n] = [old[n] EXCEPT !.resolution = how]

LEMMA SameColumns ==
  ASSUME NEW old \in Seq(Incident), NEW new \in Seq(Incident), SameIncidents(old, new)
  PROVE  \A n \in 1 .. Len(old) :
           new[n].kind = old[n].kind /\ new[n].at = old[n].at /\ new[n].event = old[n].event
<1>1. \A i \in Incident : \A how \in {"AUTOMATIC", "RECONCILED"} :
        /\ [i EXCEPT !.resolution = how].kind = i.kind
        /\ [i EXCEPT !.resolution = how].at = i.at
        /\ [i EXCEPT !.resolution = how].event = i.event
  BY DEF Incident
<1>2. SUFFICES ASSUME NEW n \in 1 .. Len(old)
               PROVE  /\ new[n].kind = old[n].kind /\ new[n].at = old[n].at
                      /\ new[n].event = old[n].event
  OBVIOUS
<1>3. old[n] \in Incident
  OBVIOUS
<1>4. \/ new[n] = old[n]
      \/ \E how \in {"AUTOMATIC", "RECONCILED"} : new[n] = [old[n] EXCEPT !.resolution = how]
  BY DEF SameIncidents
<1>5. CASE new[n] = old[n]
  BY <1>5
<1>6. CASE new[n] # old[n]
  <2>1. PICK how \in {"AUTOMATIC", "RECONCILED"} : new[n] = [old[n] EXCEPT !.resolution = how]
    BY <1>4, <1>6
  <2>. QED
    BY <1>1, <1>3, <2>1
<1>. QED
  BY <1>5, <1>6

\* What a session holds.
LEMMA SessionTypes ==
  ASSUME TypeOK, NEW s \in Sessions
  PROVE  /\ session[s].pc \in {"idle", "made", "numbered"}
         /\ session[s].pc = "idle" <=> session[s] = Idle
         /\ session[s].pc = "made" => session[s].event \in log /\ session[s].event \in Event
         /\ session[s].pc = "numbered" => session[s].number \in 1 .. MaxOperations
BY DEF TypeOK, Idle

\* What becomes of the tables when an event is published.
LEMMA PublishEffect ==
  ASSUME TypeOK, NEW s \in Sessions, Publish(s), NEW e, e = session[s].event
  PROVE  /\ session[s].pc = "made" /\ e \in log /\ e \in Event
         /\ \/ store' = store
            \/ /\ e.code \in Failures
               /\ ~\E row \in store.timeline : row.event = e.id
               /\ store' = Raised(store, e)
            \/ \E n \in 1 .. Len(store.incidents) :
                 /\ store' \in Tables
                 /\ Open(store.incidents[n])
                 /\ store'.incidents = [store.incidents EXCEPT ![n].resolution = "AUTOMATIC"]
                 /\ store'.timeline = Timeline(store, e, n)
                 /\ store'.groups = store.groups /\ store'.operations = store.operations
<1>1. session[s].pc = "made" /\ e \in log /\ e \in Event /\ store \in Tables
  BY SessionTypes DEF Publish, TypeOK
<1>2. store' \in Outcomes(store, e)
  BY DEF Publish
<1>3. e.code \in Codes
  BY <1>1 DEF Event
<1>4. CASE e.code \notin Wired
  BY <1>1, <1>2, <1>4 DEF Outcomes
<1>5. CASE e.code \in Wired /\ e.code \in Recoveries
  <2>1. store' \in Resolved(store, e)
    BY <1>2, <1>5 DEF Outcomes
  <2>. QED
    BY ZenonT(60), <1>1, <2>1, ResolvedEffect
<1>6. CASE e.code \in Wired /\ e.code \notin Recoveries
  <2>1. store' = Failed(store, e)
    BY <1>2, <1>6 DEF Outcomes
  <2>. QED
    BY <1>1, <1>3, <1>6, <2>1 DEF Failed, Codes
<1>. QED
  BY <1>4, <1>5, <1>6

\* A resolution by a recovery leaves the incidents what they were.
LEMMA ResolvedIsSame ==
  ASSUME NEW old \in Seq(Incident), NEW n \in 1 .. Len(old), Open(old[n]),
         NEW new, new = [old EXCEPT ![n].resolution = "AUTOMATIC"]
  PROVE  SameIncidents(old, new)
<1>1. /\ Len(new) = Len(old)
      /\ \A m \in 1 .. Len(old) : m # n => new[m] = old[m]
      /\ new[n] = [old[n] EXCEPT !.resolution = "AUTOMATIC"]
  <2>1. Len(old) \in Nat /\ DOMAIN old = 1 .. Len(old)
    OBVIOUS
  <2>2. DOMAIN new = 1 .. Len(old)
    BY <2>1
  <2>3. new \in Seq(Incident)
    <3>1. [old[n] EXCEPT !.resolution = "AUTOMATIC"] \in Incident
      <4>1. old[n] \in Incident
        OBVIOUS
      <4>. QED
        BY <4>1 DEF Incident
    <3> DEFINE i == [old[n] EXCEPT !.resolution = "AUTOMATIC"]
    <3>2. new = [old EXCEPT ![n] = i]
      OBVIOUS
    <3> HIDE DEF i
    <3>. QED
      BY <3>1, <3>2 DEF i
  <2>. QED
    BY <2>1, <2>2, <2>3
<1>. QED
  BY <1>1 DEF SameIncidents

\* The start of the dashboard.
LEMMA RestartEffect ==
  ASSUME TypeOK, Restart
  PROVE  /\ store' \in Tables
         /\ SameIncidents(store.incidents, store'.incidents)
         /\ UNCHANGED <<now, log>>
         /\ store'.timeline = store.timeline /\ store'.groups = store.groups
         /\ store'.operations = store.operations
         /\ session' = [s \in Sessions |-> Idle]
<1> DEFINE old == store.incidents
<1>1. PICK ready \in BOOLEAN :
        store' = [store EXCEPT !.incidents =
         [n \in 1 .. Len(store.incidents) |->
            LET i == store.incidents[n]
            IN IF ready /\ Open(i) /\ i.kind \in Reconciled
               THEN [i EXCEPT !.resolution = "RECONCILED"] ELSE i]]
  BY DEF Restart
<1> DEFINE After(i) == IF ready /\ Open(i) /\ i.kind \in Reconciled
                       THEN [i EXCEPT !.resolution = "RECONCILED"] ELSE i
           new == [n \in 1 .. Len(old) |-> After(old[n])]
<1>2. store \in Tables /\ old \in Seq(Incident) /\ Len(old) \in Nat
  BY DEF TypeOK, Tables
<1>3. \A i \in Incident : After(i) \in Incident
  BY DEF Incident
<1>4. /\ \A i \in Incident :
           After(i) = i \/ (Open(i) /\ After(i) = [i EXCEPT !.resolution = "RECONCILED"])
  OBVIOUS
<1>5. store' = [store EXCEPT !.incidents = new]
  BY <1>1
<1> HIDE DEF After
<1>6. new \in Seq(Incident) /\ Len(new) = Len(old)
  <2>1. \A n \in 1 .. Len(old) : After(old[n]) \in Incident
    BY <1>2, <1>3
  <2>. QED
    BY <1>2, <2>1
<1>7. SameIncidents(old, new)
  <2>1. \A n \in 1 .. Len(old) : old[n] \in Incident /\ new[n] = After(old[n])
    BY <1>2
  <2>. QED
    BY <1>4, <1>6, <2>1 DEF SameIncidents
<1> HIDE DEF new
<1>8. /\ store' \in Tables /\ store'.incidents = new
      /\ store'.timeline = store.timeline /\ store'.groups = store.groups
      /\ store'.operations = store.operations
  BY <1>2, <1>5, <1>6 DEF Tables
<1>. QED
  BY <1>7, <1>8 DEF Restart

\* The flush of an operation's row.
LEMMA InsertEffect ==
  ASSUME TypeOK, NEW s \in Sessions, Insert(s)
  PROVE  /\ session[s].pc = "numbered" /\ session[s].number \in 1 .. MaxOperations
         /\ store' \in Tables
         /\ store'.operations = Append(store.operations, session[s].number)
         /\ store'.incidents = store.incidents /\ store'.timeline = store.timeline
         /\ store'.groups = store.groups
<1>1. session[s].pc = "numbered" /\ session[s].number \in 1 .. MaxOperations /\ store \in Tables
  BY SessionTypes DEF Insert, TypeOK
<1>2. store' = [store EXCEPT !.operations = Append(store.operations, session[s].number)]
  BY DEF Insert
<1> DEFINE new == Append(store.operations, session[s].number)
<1>3. new \in Seq(1 .. MaxOperations)
  BY <1>1 DEF Tables
<1> HIDE DEF new
<1>4. store' = [store EXCEPT !.operations = new]
  BY <1>2 DEF new
<1>5. /\ store' \in Tables /\ store'.operations = new
      /\ store'.incidents = store.incidents /\ store'.timeline = store.timeline
      /\ store'.groups = store.groups
  BY <1>1, <1>3, <1>4 DEF Tables
<1>. QED
  BY <1>1, <1>5 DEF new

-------------------------------------------------------------------------------
\* Types.

LEMMA InitTyped == Init => TypeOK
<1> SUFFICES ASSUME Init PROVE TypeOK
  OBVIOUS
<1>1. store \in Tables
  BY DEF Init, Empty, Tables
<1>. QED
  BY <1>1 DEF Init, TypeOK

\* The tables after a publication are tables.
LEMMA PublishTyped ==
  ASSUME TypeOK, NEW s \in Sessions, Publish(s)
  PROVE  store' \in Tables
<1> DEFINE e == session[s].event
<1>1. store \in Tables
  BY DEF TypeOK
<1>2. e \in Event
  BY PublishEffect
<1> HIDE DEF e
<1>3. e.code \in Failures => Raised(store, e) \in Tables
  BY <1>1, <1>2, RaisedEffect
<1>. QED
  BY <1>1, <1>3, PublishEffect DEF e

LEMMA NextTyped == ASSUME TypeOK, IsFiniteSet(log), [Next]_vars PROVE TypeOK'
<1>1. CASE Tick
  BY <1>1 DEF Tick, TypeOK
<1>2. ASSUME NEW s \in Sessions, Make(s) PROVE TypeOK'
  <2>1. PICK code \in Codes :
          LET e == [id |-> Cardinality(log) + 1, code |-> code, at |-> now]
          IN /\ e.id <= MaxEvents
             /\ log' = log \cup {e}
             /\ session' = [session EXCEPT ![s] = [pc |-> "made", event |-> e]]
    BY <1>2 DEF Make
  <2> DEFINE e == [id |-> Cardinality(log) + 1, code |-> code, at |-> now]
  <2>2. Cardinality(log) \in Nat
    BY FS_CardinalityType
  <2>3. Cardinality(log) + 1 <= MaxEvents
    BY <2>1
  <2>4. e \in Event
    BY <2>2, <2>3 DEF Event, TypeOK
  <2>5. log' = log \cup {e} /\ session' = [session EXCEPT ![s] = [pc |-> "made", event |-> e]]
    BY <2>1
  <2> HIDE DEF e
  <2>. QED
    BY <1>2, <2>4, <2>5 DEF Make, TypeOK
<1>3. ASSUME NEW s \in Sessions, MakeAgain(s) PROVE TypeOK'
  BY <1>3 DEF MakeAgain, TypeOK
<1>4. ASSUME NEW s \in Sessions, Publish(s) PROVE TypeOK'
  BY <1>4, PublishTyped DEF Publish, TypeOK
<1>5. ASSUME NEW s \in Sessions, Number(s) PROVE TypeOK'
  <2>1. Len(store.operations) + 1 \in 1 .. MaxOperations
    BY <1>5 DEF Number, TypeOK, Tables
  <2>. QED
    BY <1>5, <2>1 DEF Number, TypeOK
<1>6. ASSUME NEW s \in Sessions, Insert(s) PROVE TypeOK'
  BY <1>6, InsertEffect DEF Insert, TypeOK
<1>7. ASSUME NEW s \in Sessions, Rollback(s) PROVE TypeOK'
  BY <1>7 DEF Rollback, TypeOK
<1>8. CASE Restart
  BY <1>8, RestartEffect DEF TypeOK
<1>9. CASE UNCHANGED vars
  BY <1>9 DEF TypeOK, vars
<1>. QED
  BY <1>1, <1>2, <1>3, <1>4, <1>5, <1>6, <1>7, <1>8, <1>9 DEF Next

-------------------------------------------------------------------------------
\* What a publication, or any other step, leaves of the incidents.

LEMMA PublishCases ==
  ASSUME TypeOK, NEW s \in Sessions, Publish(s), NEW e, e = session[s].event,
         NEW n, n = Len(store.incidents) + 1
  PROVE  /\ store'.operations = store.operations
         /\ \/ /\ SameIncidents(store.incidents, store'.incidents)
               /\ store'.groups = store.groups
               /\ \/ store'.timeline = store.timeline
                  \/ \E m \in Nat : store'.timeline = Timeline(store, e, m)
            \/ /\ e.code \in Failures
               /\ ~\E row \in store.timeline : row.event = e.id
               /\ Len(store'.incidents) = n
               /\ \A m \in 1 .. Len(store.incidents) : store'.incidents[m] = store.incidents[m]
               /\ store'.incidents[n].event = e.id /\ store'.incidents[n].at = e.at
               /\ store'.incidents[n].kind = IF Kind(e.code) = "BOT_CRASH"
                    THEN IF Cardinality(Recent(store'.incidents, e.at - Window)) >= 3
                         THEN "CRASH_LOOP" ELSE "BOT_CRASH"
                    ELSE Kind(e.code)
               /\ store'.timeline = Timeline(store, e, n)
               /\ store'.groups = [k \in GroupKinds |->
                    store.groups[k] + IF k = Kind(e.code) THEN 1 ELSE 0]
<1>1. store \in Tables /\ store.incidents \in Seq(Incident) /\ e \in Event
  BY PublishEffect DEF TypeOK, Tables
<1>2. CASE store' = store
  BY <1>2 DEF SameIncidents
<1>3. CASE /\ e.code \in Failures
           /\ ~\E row \in store.timeline : row.event = e.id
           /\ store' = Raised(store, e)
  BY SMTT(30), <1>1, <1>3, RaisedEffect
<1>4. ASSUME NEW m \in 1 .. Len(store.incidents),
             Open(store.incidents[m]),
             store'.incidents = [store.incidents EXCEPT ![m].resolution = "AUTOMATIC"],
             store'.timeline = Timeline(store, e, m),
             store'.groups = store.groups, store'.operations = store.operations
      PROVE  /\ SameIncidents(store.incidents, store'.incidents)
             /\ store'.groups = store.groups /\ store'.operations = store.operations
             /\ \E k \in Nat : store'.timeline = Timeline(store, e, k)
  <2>1. SameIncidents(store.incidents, store'.incidents)
    BY <1>1, <1>4, ResolvedIsSame
  <2>. QED
    BY <1>4, <2>1
<1>. QED
  BY ZenonT(60), <1>2, <1>3, <1>4, PublishEffect

\* A row that is in the timeline stays there.
LEMMA PublishGrows ==
  ASSUME TypeOK, NEW s \in Sessions, Publish(s)
  PROVE  store.timeline \subseteq store'.timeline
<1> DEFINE e == session[s].event
<1>1. \A m : store.timeline \subseteq Timeline(store, e, m)
  BY DEF Timeline
<1>2. store.timeline \subseteq Raised(store, e).timeline
  <2> DEFINE n == Len(store.incidents) + 1
  <2>1. store \in Tables
    BY DEF TypeOK
  <2>2. Raised(store, e).timeline = Timeline(store, e, n)
    BY <2>1 DEF Raised, Tables
  <2>. QED
    BY <1>1, <2>2
<1> HIDE DEF e
<1>3. CASE store' = store
  BY <1>3
<1>4. CASE store' = Raised(store, e)
  BY <1>2, <1>4
<1>5. ASSUME NEW m, store'.timeline = Timeline(store, e, m)
      PROVE  store.timeline \subseteq store'.timeline
  BY <1>1, <1>5
<1>. QED
  BY <1>3, <1>4, <1>5, PublishEffect DEF e

\* A step of anything but a publication.
LEMMA QuietStep ==
  ASSUME TypeOK, [Next]_vars, ~\E s \in Sessions : Publish(s)
  PROVE  /\ SameIncidents(store.incidents, store'.incidents)
         /\ store'.groups = store.groups /\ store'.timeline = store.timeline
         /\ \/ store'.operations = store.operations
            \/ \E s \in Sessions : Insert(s)
<1>1. CASE store' = store
  BY <1>1 DEF SameIncidents
<1>2. CASE \E s \in Sessions : Insert(s)
  BY <1>2, InsertEffect DEF SameIncidents
<1>3. CASE Restart
  BY <1>3, RestartEffect
<1>4. \/ store' = store \/ Restart
      \/ \E s \in Sessions : Insert(s)
  BY DEF Next, Tick, Make, MakeAgain, Number, Rollback, vars
<1>. QED
  BY <1>1, <1>2, <1>3, <1>4

-------------------------------------------------------------------------------
\* The log, the clock and the numbers.

LEMMA InitRest == Init => LogInv /\ ClockInv /\ NumberInv
<1> SUFFICES ASSUME Init PROVE LogInv /\ ClockInv /\ NumberInv
  OBVIOUS
<1>1. LogInv
  BY FS_EmptySet DEF Init, LogInv
<1>2. ClockInv /\ NumberInv
  BY DEF Init, ClockInv, NumberInv, Empty, Idle
<1>. QED
  BY <1>1, <1>2

LEMMA NextLog == ASSUME TypeOK, LogInv, [Next]_vars PROVE LogInv'
<1>1. ASSUME NEW s \in Sessions, Make(s) PROVE LogInv'
  <2>1. PICK e : e.id = Cardinality(log) + 1 /\ log' = log \cup {e}
    <3>1. PICK code \in Codes :
            LET e == [id |-> Cardinality(log) + 1, code |-> code, at |-> now]
            IN log' = log \cup {e}
      BY <1>1 DEF Make
    <3>. QED
      BY <3>1
  <2>2. IsFiniteSet(log) /\ Cardinality(log) \in Nat
    BY FS_CardinalityType DEF LogInv
  <2>3. \A f \in log : f.id \in Nat /\ f.id <= Cardinality(log)
    BY DEF LogInv, TypeOK, Event
  <2>4. e \notin log
    BY <2>1, <2>2, <2>3
  <2>5. IsFiniteSet(log') /\ Cardinality(log') = Cardinality(log) + 1
    BY <2>1, <2>2, <2>4, FS_AddElement
  <2>6. \A f \in log' : f.id <= Cardinality(log')
    BY <2>1, <2>2, <2>3, <2>5
  <2>7. \A f, g \in log' : f.id = g.id => f = g
    BY <2>1, <2>2, <2>3 DEF LogInv
  <2>. QED
    BY <2>5, <2>6, <2>7 DEF LogInv
<1>2. CASE log' = log
  BY <1>2 DEF LogInv
<1>. QED
  BY <1>1, <1>2 DEF Next, Tick, MakeAgain, Publish, Number, Insert, Rollback, Restart, vars

LEMMA NextClock == ASSUME TypeOK, TypeOK', ClockInv, [Next]_vars PROVE ClockInv'
<1>1. now \in Nat /\ now' \in Nat /\ now <= now'
  BY DEF TypeOK, Next, Tick, Make, MakeAgain, Publish, Number, Insert, Rollback, Restart, vars
<1>2. ASSUME NEW e \in log' PROVE e.at <= now'
  <2>1. \A f \in log : f.at \in Nat /\ f.at <= now'
    BY <1>1 DEF ClockInv, TypeOK, Event
  <2>2. CASE e \in log
    BY <2>1, <2>2
  <2>3. CASE e \notin log
    <3>1. e.at = now
      BY <2>3 DEF Next, Tick, Make, MakeAgain, Publish, Number, Insert, Rollback, Restart, vars
    <3>. QED
      BY <1>1, <3>1
  <2>. QED
    BY <2>2, <2>3
<1>3. ASSUME NEW n \in 1 .. Len(store'.incidents) PROVE store'.incidents[n].at <= now'
  <2>1. /\ store.incidents \in Seq(Incident) /\ Len(store.incidents) \in Nat
        /\ \A m \in 1 .. Len(store.incidents) : store.incidents[m].at \in Nat
    <3>1. store.incidents \in Seq(Incident)
      BY DEF TypeOK, Tables
    <3>2. \A i \in Incident : i.at \in Nat
      BY DEF Incident
    <3>. QED
      BY <3>1, <3>2
  <2>2. CASE SameIncidents(store.incidents, store'.incidents)
    <3>1. n \in 1 .. Len(store.incidents)
      BY <2>2 DEF SameIncidents
    <3>2. store'.incidents[n].at = store.incidents[n].at
      <4>1. store'.incidents \in Seq(Incident)
        BY DEF TypeOK, Tables
      <4>. QED
        BY <2>1, <2>2, <3>1, <4>1, SameColumns
    <3>. QED
      BY <1>1, <2>1, <3>1, <3>2 DEF ClockInv
  <2>3. ASSUME NEW s \in Sessions, Publish(s), NEW e \in log, e = session[s].event,
               Len(store'.incidents) = Len(store.incidents) + 1,
               \A m \in 1 .. Len(store.incidents) : store'.incidents[m] = store.incidents[m],
               store'.incidents[Len(store.incidents) + 1].at = e.at
        PROVE  store'.incidents[n].at <= now'
    <3>1. n \in 1 .. Len(store.incidents) \/ n = Len(store.incidents) + 1
      BY <2>1, <2>3
    <3>2. e.at \in Nat /\ e.at <= now
      BY DEF ClockInv, TypeOK, Event
    <3>3. CASE n \in 1 .. Len(store.incidents)
      <4>1. store'.incidents[n].at = store.incidents[n].at
        BY <2>3, <3>3
      <4>2. store.incidents[n].at \in Nat /\ store.incidents[n].at <= now
        BY <2>1, <3>3 DEF ClockInv
      <4>. QED
        BY <1>1, <4>1, <4>2
    <3>4. CASE n = Len(store.incidents) + 1
      <4>1. store'.incidents[n].at = e.at
        BY <2>3, <3>4
      <4>. QED
        BY <1>1, <3>2, <4>1
    <3>. QED
      BY <3>1, <3>3, <3>4
  <2>4. CASE ~\E s \in Sessions : Publish(s)
    BY <2>2, <2>4, QuietStep
  <2>5. ASSUME NEW s \in Sessions, Publish(s) PROVE store'.incidents[n].at <= now'
    <3> DEFINE e == session[s].event
    <3>1. e \in log
      BY <2>5, PublishEffect
    <3> DEFINE k == Len(store.incidents) + 1
    <3> HIDE DEF e, k
    <3>2. \/ SameIncidents(store.incidents, store'.incidents)
          \/ /\ Len(store'.incidents) = k
             /\ \A m \in 1 .. Len(store.incidents) : store'.incidents[m] = store.incidents[m]
             /\ store'.incidents[k].at = e.at
      BY <2>5, PublishCases DEF e, k
    <3>. QED
      BY <2>2, <2>3, <2>5, <3>1, <3>2 DEF e, k
  <2>. QED
    BY <2>4, <2>5
<1>4. ASSUME NEW t \in Sessions, session'[t].pc = "made" PROVE now' <= session'[t].event.at + Delay
  <2>1. CASE Tick
    <3>1. session[t].pc = "made" /\ now - session[t].event.at < Delay
          /\ now' = now + 1 /\ session' = session
      BY <1>4, <2>1 DEF Tick
    <3>2. session[t].event.at \in Nat
      BY <3>1, SessionTypes DEF Event
    <3>. QED
      BY <1>1, <3>1, <3>2
  <2>2. ASSUME now' = now, session'[t] = session[t] PROVE now' <= session'[t].event.at + Delay
    BY <1>4, <2>2 DEF ClockInv
  <2>3. ASSUME NEW s \in Sessions, Make(s) PROVE now' <= session'[t].event.at + Delay
    <3>1. CASE s = t
      <4>1. session'[t].event.at = now /\ now' = now
        BY <2>3, <3>1 DEF Make, TypeOK
      <4>. QED
        BY <1>1, <4>1
    <3>2. CASE s # t
      BY <2>2, <2>3, <3>2 DEF Make, TypeOK
    <3>. QED
      BY <3>1, <3>2
  <2>4. ASSUME NEW s \in Sessions, MakeAgain(s) PROVE now' <= session'[t].event.at + Delay
    <3>1. PICK e \in log : /\ now - e.at <= Delay
                           /\ session' = [session EXCEPT ![s] = [pc |-> "made", event |-> e]]
      BY <2>4 DEF MakeAgain
    <3>2. e.at \in Nat /\ now' = now
      BY <2>4 DEF TypeOK, Event, MakeAgain
    <3>3. CASE s = t
      BY <1>1, <3>1, <3>2, <3>3 DEF TypeOK
    <3>4. CASE s # t
      BY <2>2, <3>1, <3>2, <3>4 DEF TypeOK
    <3>. QED
      BY <3>3, <3>4
  <2>5. ASSUME NEW s \in Sessions, Publish(s) \/ Number(s) \/ Insert(s) \/ Rollback(s)
        PROVE  now' <= session'[t].event.at + Delay
    <3>1. now' = now /\ s # t
      BY <1>4, <2>5 DEF Publish, Number, Insert, Rollback, TypeOK, Idle
    <3>2. session'[t] = session[t]
      BY <2>5, <3>1 DEF Publish, Number, Insert, Rollback, TypeOK
    <3>. QED
      BY <2>2, <3>1, <3>2
  <2>6. ~Restart
    BY <1>4 DEF Restart, Idle
  <2>7. CASE UNCHANGED vars
    BY <2>2, <2>7 DEF vars
  <2>. QED
    BY <2>1, <2>3, <2>4, <2>5, <2>6, <2>7 DEF Next
<1>. QED
  BY <1>2, <1>3, <1>4 DEF ClockInv

\* The number that is inserted is the next.
LEMMA InsertsNext ==
  ASSUME TypeOK, NumberInv, NEW s \in Sessions, Insert(s)
  PROVE  session[s].number = Len(store.operations) + 1
<1>1. /\ session[s].pc = "numbered" /\ session[s].number \in 1 .. MaxOperations
      /\ ~Taken(s)
  BY InsertEffect DEF Insert
<1>2. Len(store.operations) \in Nat
  BY DEF TypeOK, Tables
<1>3. session[s].number <= Len(store.operations) + 1
  BY <1>1 DEF NumberInv
<1>4. session[s].number \notin 1 .. Len(store.operations)
  BY <1>1 DEF NumberInv, Taken
<1>. QED
  BY <1>1, <1>2, <1>3, <1>4

LEMMA NextNumbers == ASSUME TypeOK, NumberInv, [Next]_vars PROVE NumberInv'
<1>1. /\ Len(store.operations) \in Nat /\ store.operations \in Seq(1 .. MaxOperations)
      /\ \A t \in Sessions : session[t].pc = "numbered" => session[t].number \in Nat
  BY SessionTypes DEF TypeOK, Tables
<1>2. ASSUME NEW s \in Sessions, Insert(s) PROVE NumberInv'
  <2> DEFINE n == Len(store.operations) + 1
  <2>1. store'.operations = Append(store.operations, n)
    BY <1>2, InsertEffect, InsertsNext
  <2>2. n \in 1 .. MaxOperations
    BY <1>2, InsertEffect, InsertsNext
  <2>3. /\ Len(store'.operations) = n /\ store'.operations[n] = n
        /\ \A m \in 1 .. Len(store.operations) : store'.operations[m] = store.operations[m]
    <3> HIDE DEF n
    <3>1. n = Len(store.operations) + 1
      BY DEF n
    <3>. QED
      BY <1>1, <2>1, <2>2, <3>1
  <2>4. \A m \in 1 .. Len(store'.operations) : store'.operations[m] = m
    BY SMTT(30), <1>1, <2>3 DEF NumberInv
  <2>5. \A t \in Sessions : session'[t].pc = "numbered" =>
          session[t].pc = "numbered" /\ session'[t].number = session[t].number
    BY <1>2 DEF Insert, TypeOK, Idle
  <2>6. \A t \in Sessions : session'[t].pc = "numbered" =>
          session'[t].number <= Len(store'.operations) + 1
    BY <1>1, <2>3, <2>5 DEF NumberInv
  <2>. QED
    BY <2>4, <2>6 DEF NumberInv
<1>3. ASSUME store'.operations = store.operations,
             \A t \in Sessions : session'[t].pc = "numbered" =>
               \/ session'[t] = session[t]
               \/ session'[t].number = Len(store.operations) + 1
      PROVE  NumberInv'
  BY <1>1, <1>3 DEF NumberInv
<1>4. ASSUME NEW s \in Sessions, Publish(s) PROVE NumberInv'
  <2>1. store'.operations = store.operations
    BY <1>4, PublishCases
  <2>2. \A t \in Sessions : session'[t].pc = "numbered" => session'[t] = session[t]
    BY <1>4 DEF Publish, TypeOK, Idle
  <2>. QED
    BY <1>3, <2>1, <2>2
<1>5. ASSUME NEW s \in Sessions, Make(s) \/ MakeAgain(s) \/ Number(s) \/ Rollback(s)
      PROVE  NumberInv'
  <2>1. store' = store
    BY <1>5 DEF Make, MakeAgain, Number, Rollback
  <2>2. \A t \in Sessions : session'[t].pc = "numbered" =>
               \/ session'[t] = session[t]
               \/ session'[t].number = Len(store.operations) + 1
    BY <1>5 DEF Make, MakeAgain, Number, Rollback, TypeOK, Idle
  <2>. QED
    BY <1>3, <2>1, <2>2
<1>6. CASE Restart
  <2>1. store'.operations = store.operations /\ session' = [s \in Sessions |-> Idle]
    BY <1>6, RestartEffect
  <2>. QED
    BY <1>3, <2>1 DEF Idle
<1>7. CASE Tick \/ UNCHANGED vars
  BY <1>3, <1>7 DEF Tick, vars
<1>. QED
  BY <1>2, <1>4, <1>5, <1>6, <1>7 DEF Next

-------------------------------------------------------------------------------
\* An event is delivered once.

LEMMA InitDelivered == Init => DeliveredOnce
<1> SUFFICES ASSUME Init PROVE DeliveredOnce
  OBVIOUS
<1>1. /\ store.incidents = <<>> /\ store.timeline = {} /\ Len(store.incidents) = 0
      /\ store.groups = [k \in GroupKinds |-> 0]
  BY DEF Init, Empty
<1>2. \A k : {n \in 1 .. Len(store.incidents) : store.incidents[n].kind = k} = {}
  BY <1>1
<1>. QED
  BY <1>1, <1>2, FS_EmptySet DEF DeliveredOnce

\* Where no incident is new, and at most a row is.
LEMMA DeliveredKept ==
  ASSUME TypeOK, TypeOK', DeliveredOnce,
         SameIncidents(store.incidents, store'.incidents),
         store'.groups = store.groups,
         \/ store'.timeline = store.timeline
         \/ \E e, m : store'.timeline = Timeline(store, e, m)
  PROVE  DeliveredOnce'
<1> DEFINE old == store.incidents
           new == store'.incidents
<1>1. /\ old \in Seq(Incident) /\ new \in Seq(Incident) /\ Len(new) = Len(old)
  BY DEF TypeOK, Tables, SameIncidents
<1>2. \A n \in 1 .. Len(old) : new[n].kind = old[n].kind /\ new[n].event = old[n].event
  BY <1>1, SameColumns
<1>3. \A n, m \in 1 .. Len(old) : old[n].event = old[m].event => n = m
  BY DEF DeliveredOnce
<1>4. store.timeline \subseteq store'.timeline
  BY DEF Timeline
<1>5. \A n \in 1 .. Len(old) : [event |-> old[n].event, incident |-> n] \in store.timeline
  BY DEF DeliveredOnce
<1>6. \A r, q \in store'.timeline : r.event = q.event => r = q
  <2>1. \A r, q \in store.timeline : r.event = q.event => r = q
    BY DEF DeliveredOnce
  <2>2. CASE store'.timeline = store.timeline
    BY <2>1, <2>2
  <2>3. ASSUME NEW e, NEW m, store'.timeline = Timeline(store, e, m)
        PROVE  \A r, q \in store'.timeline : r.event = q.event => r = q
    <3>1. CASE \E row \in store.timeline : row.event = e.id
      BY <2>1, <2>3, <3>1 DEF Timeline
    <3>2. CASE ~\E row \in store.timeline : row.event = e.id
      <4>1. store'.timeline = store.timeline \cup {[event |-> e.id, incident |-> m]}
        BY <2>3, <3>2 DEF Timeline
      <4>. QED
        BY <2>1, <3>2, <4>1
    <3>. QED
      BY <3>1, <3>2
  <2>. QED
    BY <2>2, <2>3
<1>7. \A k \in GroupKinds :
        store.groups[k] = Cardinality({n \in 1 .. Len(old) : old[n].kind = k})
  BY DEF DeliveredOnce
<1>8. \A k : {n \in 1 .. Len(new) : new[n].kind = k} = {n \in 1 .. Len(old) : old[n].kind = k}
  BY <1>1, <1>2
<1>9. /\ \A n, m \in 1 .. Len(new) : new[n].event = new[m].event => n = m
      /\ \A n \in 1 .. Len(new) : [event |-> new[n].event, incident |-> n] \in store'.timeline
  BY <1>1, <1>2, <1>3, <1>4, <1>5
<1>10. \A k \in GroupKinds :
        store'.groups[k] = Cardinality({n \in 1 .. Len(new) : new[n].kind = k})
  BY <1>7, <1>8
<1>. QED
  BY <1>6, <1>9, <1>10 DEF DeliveredOnce

\* Where an incident is made.
LEMMA DeliveredMade ==
  ASSUME TypeOK, DeliveredOnce, NEW e, NEW n, n = Len(store.incidents) + 1,
         e.code \in Failures,
         ~\E row \in store.timeline : row.event = e.id,
         Len(store'.incidents) = n,
         \A m \in 1 .. Len(store.incidents) : store'.incidents[m] = store.incidents[m],
         store'.incidents[n].event = e.id,
         store'.incidents[n].kind = Kind(e.code)
           \/ (Kind(e.code) = "BOT_CRASH" /\ store'.incidents[n].kind = "CRASH_LOOP"),
         store'.timeline = Timeline(store, e, n),
         store'.groups = [k \in GroupKinds |->
           store.groups[k] + IF k = Kind(e.code) THEN 1 ELSE 0]
  PROVE  DeliveredOnce'
<1> DEFINE old == store.incidents
           new == store'.incidents
           N   == 1 .. Len(old)
           Of(k) == {m \in 1 .. Len(old) : old[m].kind = k}
           OfNew(k) == {m \in 1 .. Len(new) : new[m].kind = k}
<1>1. /\ Len(old) \in Nat /\ n \in Nat /\ n \notin N /\ 1 .. Len(new) = N \cup {n}
      /\ \A m \in N : new[m] = old[m]
  BY DEF TypeOK, Tables
<1>2. store'.timeline = store.timeline \cup {[event |-> e.id, incident |-> n]}
  BY DEF Timeline
<1>3. \A m \in N : [event |-> old[m].event, incident |-> m] \in store.timeline
  BY DEF DeliveredOnce
<1>4. \A m \in N : old[m].event # e.id
  BY <1>3
<1>5. \A m, l \in 1 .. Len(new) : new[m].event = new[l].event => m = l
  <2>1. \A m, l \in N : old[m].event = old[l].event => m = l
    BY DEF DeliveredOnce
  <2>2. \A m \in N : new[m].event = old[m].event /\ new[m].event # e.id
    BY <1>1, <1>4
  <2>3. new[n].event = e.id
    OBVIOUS
  <2>4. \A m, l \in N : new[m].event = new[l].event => m = l
    BY <2>1, <2>2
  <2>5. \A m, l \in N \cup {n} : new[m].event = new[l].event => m = l
    <3> HIDE DEF new, N
    <3>. QED
      BY <2>2, <2>3, <2>4
  <2>. QED
    BY <1>1, <2>5
<1>6. \A r, q \in store'.timeline : r.event = q.event => r = q
  <2>1. \A r, q \in store.timeline : r.event = q.event => r = q
    BY DEF DeliveredOnce
  <2>. QED
    BY <1>2, <2>1
<1>7. \A m \in 1 .. Len(new) : [event |-> new[m].event, incident |-> m] \in store'.timeline
  <2>1. [event |-> new[n].event, incident |-> n] \in store'.timeline
    BY <1>2
  <2>. QED
    BY <1>1, <1>2, <1>3, <2>1
<1>8. ASSUME NEW k \in GroupKinds PROVE store'.groups[k] = Cardinality(OfNew(k))
  <2>1. store.groups[k] = Cardinality(Of(k))
    BY DEF DeliveredOnce
  <2>2. IsFiniteSet(Of(k)) /\ Cardinality(Of(k)) \in Nat
    <3>1. Of(k) \in SUBSET (1 .. Len(old))
      OBVIOUS
    <3>. QED
      BY <1>1, <3>1, FiniteNumbers
  <2>3. store'.groups[k] = store.groups[k] + IF k = Kind(e.code) THEN 1 ELSE 0
    OBVIOUS
  <2>4. k # "BOT_CRASH" /\ k # "CRASH_LOOP"
    BY DEF GroupKinds
  <2>5. new[n].kind = k <=> k = Kind(e.code)
    BY <2>4
  <2>6. CASE k = Kind(e.code)
    <3>1. OfNew(k) = Of(k) \cup {n} /\ n \notin Of(k)
      BY <1>1, <2>5, <2>6
    <3>2. Cardinality(OfNew(k)) = Cardinality(Of(k)) + 1
      BY ZenonT(60), <2>2, <3>1, FS_AddElement
    <3>. QED
      BY <2>1, <2>3, <2>6, <3>2
  <2>7. CASE k # Kind(e.code)
    <3>1. OfNew(k) = Of(k)
      BY <1>1, <2>5, <2>7
    <3>2. store.groups[k] \in Nat
      BY <2>1, <2>2
    <3> HIDE DEF Of, OfNew
    <3>3. store'.groups[k] = store.groups[k]
      BY <2>3, <2>7, <3>2
    <3>. QED
      BY <2>1, <3>1, <3>3
  <2>. QED
    BY <2>6, <2>7
<1>. QED
  BY <1>5, <1>6, <1>7, <1>8 DEF DeliveredOnce

LEMMA NextDelivered ==
  ASSUME TypeOK, TypeOK', DeliveredOnce, [Next]_vars PROVE DeliveredOnce'
<1>1. CASE ~\E s \in Sessions : Publish(s)
  BY <1>1, QuietStep, DeliveredKept
<1>2. ASSUME NEW s \in Sessions, Publish(s) PROVE DeliveredOnce'
  <2> DEFINE e == session[s].event
             n == Len(store.incidents) + 1
  <2> HIDE DEF e, n
  <2>1. \/ /\ SameIncidents(store.incidents, store'.incidents)
           /\ store'.groups = store.groups
           /\ \/ store'.timeline = store.timeline
              \/ \E m \in Nat : store'.timeline = Timeline(store, e, m)
        \/ /\ e.code \in Failures
           /\ ~\E row \in store.timeline : row.event = e.id
           /\ Len(store'.incidents) = n
           /\ \A m \in 1 .. Len(store.incidents) : store'.incidents[m] = store.incidents[m]
           /\ store'.incidents[n].event = e.id
           /\ \/ store'.incidents[n].kind = Kind(e.code)
              \/ Kind(e.code) = "BOT_CRASH" /\ store'.incidents[n].kind = "CRASH_LOOP"
           /\ store'.timeline = Timeline(store, e, n)
           /\ store'.groups = [k \in GroupKinds |->
                store.groups[k] + IF k = Kind(e.code) THEN 1 ELSE 0]
    BY SMTT(30), <1>2, PublishCases DEF e, n
  <2>. QED
    BY <2>1, DeliveredKept, DeliveredMade DEF n
<1>. QED
  BY <1>1, <1>2

-------------------------------------------------------------------------------
\* A loop is three crashes.

LEMMA InitLoops == Init => LoopIsThreeCrashes
<1> SUFFICES ASSUME Init PROVE LoopIsThreeCrashes
  OBVIOUS
<1>1. Crashes(store.incidents) = {}
  BY DEF Init, Empty, Crashes
<1>2. \A span : Threes(store.incidents, span) = {}
  <2>1. \A three \in SUBSET {} : Cardinality(three) = 0
    BY FS_EmptySet
  <2>. QED
    BY <1>1, <2>1 DEF Threes
<1>. QED
  BY <1>1, <1>2 DEF LoopIsThreeCrashes

\* The same incidents have the same crashes among them.
LEMMA LoopKept ==
  ASSUME TypeOK, TypeOK', LoopIsThreeCrashes,
         SameIncidents(store.incidents, store'.incidents)
  PROVE  LoopIsThreeCrashes'
<1> DEFINE old == store.incidents
           new == store'.incidents
<1>1. /\ old \in Seq(Incident) /\ new \in Seq(Incident) /\ Len(new) = Len(old)
  BY DEF TypeOK, Tables, SameIncidents
<1>2. \A n \in 1 .. Len(old) : new[n].kind = old[n].kind /\ new[n].at = old[n].at
  BY <1>1, SameColumns
<1>3. Crashes(new) = Crashes(old) /\ Crashes(old) \subseteq 1 .. Len(old)
  BY <1>1, <1>2 DEF Crashes
<1>4. \A span : Threes(new, span) = Threes(old, span)
  <2>1. ASSUME NEW span, NEW three \in SUBSET Crashes(old)
        PROVE  (\A n, m \in three : new[n].at <= new[m].at + span)
                 <=> \A n, m \in three : old[n].at <= old[m].at + span
    BY <1>2, <1>3
  <2>. QED
    BY <1>3, <2>1 DEF Threes
<1>5. \A span : \A three \in Threes(old, span) : three \subseteq 1 .. Len(old)
  BY <1>3 DEF Threes
<1>6. /\ \A three \in Threes(old, Window) : \E n \in three : old[n].kind = "CRASH_LOOP"
      /\ \A n \in Crashes(old) : old[n].kind = "CRASH_LOOP" =>
           \E three \in Threes(old, Window + Delay) : n \in three
  BY DEF LoopIsThreeCrashes
<1>7. \A three \in Threes(new, Window) : \E n \in three : new[n].kind = "CRASH_LOOP"
  BY <1>2, <1>4, <1>5, <1>6
<1>8. \A n \in Crashes(new) : new[n].kind = "CRASH_LOOP" =>
        \E three \in Threes(new, Window + Delay) : n \in three
  BY <1>2, <1>3, <1>4, <1>6
<1>. QED
  BY <1>7, <1>8 DEF LoopIsThreeCrashes

\* The incident that is made is counted among those since five minutes before it,
\* and so are the others, up to now: the count has no upper end.
LEMMA LoopMade ==
  ASSUME TypeOK, TypeOK', ClockInv, LoopIsThreeCrashes,
         NEW e \in Event, e.at <= now, now <= e.at + Delay, e.code \in Failures,
         NEW n, n = Len(store.incidents) + 1,
         Len(store'.incidents) = n,
         \A m \in 1 .. Len(store.incidents) : store'.incidents[m] = store.incidents[m],
         store'.incidents[n].at = e.at,
         store'.incidents[n].kind = IF Kind(e.code) = "BOT_CRASH"
           THEN IF Cardinality(Recent(store'.incidents, e.at - Window)) >= 3
                THEN "CRASH_LOOP" ELSE "BOT_CRASH"
           ELSE Kind(e.code)
  PROVE  LoopIsThreeCrashes'
<1> DEFINE old == store.incidents
           new == store'.incidents
           N   == 1 .. Len(old)
           recent == Recent(new, e.at - Window)
<1>1. /\ Len(old) \in Nat /\ n \in Nat /\ n \notin N /\ 1 .. Len(new) = N \cup {n}
      /\ \A m \in N : new[m] = old[m]
  BY SMTT(30) DEF TypeOK, Tables
<1>2. /\ \A m \in N : old[m].at \in Nat /\ old[m].at <= now
      /\ now \in Nat /\ e.at \in Nat /\ Window \in Nat /\ Delay \in Nat
  <2>1. \A m \in N : old[m] \in Incident
    BY DEF TypeOK, Tables
  <2>2. \A i \in Incident : i.at \in Nat
    BY DEF Incident
  <2>3. \A m \in N : old[m].at <= now
    BY DEF ClockInv
  <2>4. now \in Nat /\ e.at \in Nat
    BY DEF TypeOK, Event
  <2>. QED
    BY <2>1, <2>2, <2>3, <2>4
<1>3. \A m \in 1 .. Len(new) : new[m].at \in Nat /\ new[m].at <= now
  BY <1>1, <1>2
<1>4. new[n].kind \in CrashKinds <=> Kind(e.code) = "BOT_CRASH"
  BY KindOf DEF CrashKinds
<1>5. /\ Crashes(new) \ {n} = Crashes(old)
      /\ Crashes(old) \subseteq N /\ Crashes(new) \subseteq 1 .. Len(new)
  BY <1>1 DEF Crashes
<1>6. \A span : \A three : n \notin three => (three \in Threes(new, span) <=> three \in Threes(old, span))
  <2>1. ASSUME NEW span, NEW three, n \notin three
        PROVE  three \in Threes(new, span) <=> three \in Threes(old, span)
    <3>1. three \in SUBSET Crashes(new) <=> three \in SUBSET Crashes(old)
      BY <1>5, <2>1
    <3>2. ASSUME three \in SUBSET Crashes(old)
          PROVE  (\A k, m \in three : new[k].at <= new[m].at + span)
                   <=> \A k, m \in three : old[k].at <= old[m].at + span
      BY <1>1, <1>5, <3>2
    <3>. QED
      BY <3>1, <3>2 DEF Threes
  <2>. QED
    BY <2>1
<1>7. /\ \A three \in Threes(old, Window) : \E m \in three : old[m].kind = "CRASH_LOOP"
      /\ \A m \in Crashes(old) : old[m].kind = "CRASH_LOOP" =>
           \E three \in Threes(old, Window + Delay) : m \in three
  BY DEF LoopIsThreeCrashes
<1>8. recent \subseteq 1 .. Len(new) /\ IsFiniteSet(recent) /\ Cardinality(recent) \in Nat
  <2>1. recent \in SUBSET (1 .. Len(new))
    BY <1>5 DEF Recent
  <2>. QED
    BY <1>1, <2>1, FiniteNumbers
<1>9. ASSUME NEW three \in Threes(new, Window)
      PROVE  \E m \in three : new[m].kind = "CRASH_LOOP"
  <2>1. CASE n \notin three
    <3>1. PICK m \in three : old[m].kind = "CRASH_LOOP"
      BY <1>6, <1>7, <1>9, <2>1
    <3>2. three \subseteq Crashes(old)
      BY <1>5, <1>9, <2>1 DEF Threes
    <3>. QED
      BY <1>1, <1>5, <3>1, <3>2
  <2>2. CASE n \in three
    <3>1. /\ three \subseteq Crashes(new) /\ Cardinality(three) = 3
          /\ \A m \in three : new[n].at <= new[m].at + Window
      BY <1>9, <2>2 DEF Threes
    <3>2. Kind(e.code) = "BOT_CRASH"
      BY <1>4, <2>2, <3>1 DEF Crashes
    <3>3. ASSUME NEW m \in three PROVE new[m].at >= e.at - Window
      <4>1. new[m].at \in Nat /\ e.at <= new[m].at + Window
        BY <1>3, <1>5, <3>1
      <4> HIDE DEF new
      <4>. QED
        BY <1>2, <4>1
    <3>4. three \subseteq recent
      BY <3>1, <3>3 DEF Recent
    <3>5. Cardinality(three) <= Cardinality(recent)
      BY <1>8, <3>4, FS_Subset
    <3>. QED
      BY <1>8, <2>2, <3>1, <3>2, <3>5
  <2>. QED
    BY <2>1, <2>2
<1>10. ASSUME NEW m \in Crashes(new), new[m].kind = "CRASH_LOOP"
       PROVE  \E three \in Threes(new, Window + Delay) : m \in three
  <2>1. CASE m # n
    <3>1. m \in Crashes(old) /\ old[m].kind = "CRASH_LOOP"
      BY <1>1, <1>5, <1>10, <2>1
    <3>2. PICK three \in Threes(old, Window + Delay) : m \in three
      BY <1>7, <3>1
    <3>3. n \notin three
      BY <1>1, <1>5 DEF Threes
    <3>. QED
      BY <1>6, <3>2, <3>3
  <2>2. CASE m = n
    <3>1. Kind(e.code) = "BOT_CRASH" /\ Cardinality(recent) >= 3
      BY <1>10, <2>2, KindOf
    <3>2. n \in recent
      BY <1>2, <1>10, <2>2 DEF Recent
    <3>3. PICK three \in SUBSET recent : n \in three /\ Cardinality(three) = 3
      <4> HIDE DEF recent
      <4>. QED
        BY <1>8, <3>1, <3>2, ThreeWith
    <3>4. \A k \in three : /\ k \in Crashes(new)
                           /\ new[k].at \in Nat /\ new[k].at <= now /\ new[k].at >= e.at - Window
      BY <1>3, <1>5, <3>3 DEF Recent
    <3>5. ASSUME NEW k \in three, NEW l \in three
          PROVE  new[k].at <= new[l].at + (Window + Delay)
      <4>1. /\ new[k].at \in Nat /\ new[k].at <= now
            /\ new[l].at \in Nat /\ new[l].at >= e.at - Window
        BY <3>4
      <4> HIDE DEF new
      <4>. QED
        BY <1>2, <4>1, Spread
    <3>6. three \in Threes(new, Window + Delay)
      BY <3>3, <3>4, <3>5 DEF Threes
    <3>. QED
      BY <2>2, <3>3, <3>6
  <2>. QED
    BY <2>1, <2>2
<1>. QED
  BY <1>9, <1>10 DEF LoopIsThreeCrashes

LEMMA NextLoops ==
  ASSUME TypeOK, TypeOK', ClockInv, LoopIsThreeCrashes, [Next]_vars PROVE LoopIsThreeCrashes'
<1>1. CASE ~\E s \in Sessions : Publish(s)
  BY <1>1, QuietStep, LoopKept
<1>2. ASSUME NEW s \in Sessions, Publish(s) PROVE LoopIsThreeCrashes'
  <2> DEFINE e == session[s].event
             n == Len(store.incidents) + 1
  <2>1. e \in Event /\ e.at <= now /\ now <= e.at + Delay
    BY <1>2, PublishEffect DEF ClockInv
  <2> HIDE DEF e, n
  <2>2. \/ SameIncidents(store.incidents, store'.incidents)
        \/ /\ e.code \in Failures
           /\ Len(store'.incidents) = n
           /\ \A m \in 1 .. Len(store.incidents) : store'.incidents[m] = store.incidents[m]
           /\ store'.incidents[n].at = e.at
           /\ store'.incidents[n].kind = IF Kind(e.code) = "BOT_CRASH"
                THEN IF Cardinality(Recent(store'.incidents, e.at - Window)) >= 3
                     THEN "CRASH_LOOP" ELSE "BOT_CRASH"
                ELSE Kind(e.code)
    BY <1>2, PublishCases DEF e, n
  <2>. QED
    BY <2>1, <2>2, LoopKept, LoopMade DEF n
<1>. QED
  BY <1>1, <1>2

-------------------------------------------------------------------------------
\* The inductive invariant, and what follows from it.

LEMMA NextInv == ASSUME IInv, [Next]_vars PROVE IInv'
<1>1. TypeOK /\ LogInv /\ ClockInv /\ NumberInv /\ DeliveredOnce /\ LoopIsThreeCrashes
  BY DEF IInv
<1>2. IsFiniteSet(log)
  BY <1>1 DEF LogInv
<1>3. TypeOK'
  BY <1>1, <1>2, NextTyped
<1>4. LogInv' /\ ClockInv' /\ NumberInv'
  BY <1>1, <1>3, NextLog, NextClock, NextNumbers
<1>5. DeliveredOnce' /\ LoopIsThreeCrashes'
  BY <1>1, <1>3, NextDelivered, NextLoops
<1>. QED
  BY <1>3, <1>4, <1>5 DEF IInv

\* The inductive invariant holds: the consumer of incidents, the numbering of
\* operations and the start of the dashboard keep it together.
THEOREM Invariance == Spec => []IInv
<1>1. Init => IInv
  BY InitTyped, InitRest, InitDelivered, InitLoops DEF IInv
<1>2. IInv /\ [Next]_vars => IInv'
  BY NextInv
<1>. QED
  BY <1>1, <1>2, PTL DEF Spec

\* The tables, the log and the sessions have their types.
THEOREM TypeCorrect == Spec => []TypeOK
<1>1. IInv => TypeOK
  BY DEF IInv
<1>. QED
  BY <1>1, Invariance, PTL

\* However often an event is delivered, and whichever transactions fail, it has at
\* most one incident and one row, and the counts of the groups are right.
THEOREM EventOnce == Spec => []DeliveredOnce
<1>1. IInv => DeliveredOnce
  BY DEF IInv
<1>. QED
  BY <1>1, Invariance, PTL

\* Three crashes within the window make a loop of one of them, and no loop has
\* fewer than three that are within the window and the wait of a late one.
THEOREM LoopsAreThree == Spec => []LoopIsThreeCrashes
<1>1. IInv => LoopIsThreeCrashes
  BY DEF IInv
<1>. QED
  BY <1>1, Invariance, PTL

\* Of an incident that is resolved, nothing but the resolution is new.
LEMMA ResolvedHistory ==
  ASSUME NEW old \in Seq(Incident), NEW new, SameIncidents(old, new)
  PROVE  /\ Len(old) <= Len(new)
         /\ \A n \in 1 .. Len(old) : IF Open(old[n])
              THEN [new[n] EXCEPT !.resolution = "none"] = old[n]
              ELSE new[n] = old[n]
<1>1. \A i \in Incident : Open(i) =>
        /\ [i EXCEPT !.resolution = "none"] = i
        /\ \A how \in {"AUTOMATIC", "RECONCILED"} :
             [[i EXCEPT !.resolution = how] EXCEPT !.resolution = "none"] = i
  BY DEF Incident, Open
<1>2. Len(old) \in Nat /\ Len(new) = Len(old)
  BY DEF SameIncidents
<1>3. SUFFICES ASSUME NEW n \in 1 .. Len(old)
               PROVE  IF Open(old[n])
                      THEN [new[n] EXCEPT !.resolution = "none"] = old[n]
                      ELSE new[n] = old[n]
  BY <1>2
<1>4. old[n] \in Incident
  OBVIOUS
<1>5. CASE new[n] = old[n]
  BY <1>1, <1>4, <1>5
<1>6. ASSUME NEW how \in {"AUTOMATIC", "RECONCILED"}, Open(old[n]),
             new[n] = [old[n] EXCEPT !.resolution = how]
      PROVE  [new[n] EXCEPT !.resolution = "none"] = old[n]
  BY <1>1, <1>4, <1>6
<1>. QED
  BY <1>5, <1>6 DEF SameIncidents

\* What is resolved or recorded stays, an open incident stays what it was until it
\* is resolved, and the operations are numbered in their order.
THEOREM HistoryKept == Spec => HistoryStays
<1> DEFINE old == store.incidents
           new == store'.incidents
           Stays == /\ Len(old) <= Len(new)
                    /\ \A n \in 1 .. Len(old) : IF Open(old[n])
                         THEN [new[n] EXCEPT !.resolution = "none"] = old[n]
                         ELSE new[n] = old[n]
                    /\ store.timeline \subseteq store'.timeline
                    /\ store'.operations \in
                         {store.operations, Append(store.operations, Len(store.operations) + 1)}
<1>1. ASSUME IInv, [Next]_vars PROVE Stays
  <2>1. TypeOK /\ NumberInv /\ old \in Seq(Incident) /\ Len(old) \in Nat
    BY <1>1 DEF IInv, TypeOK, Tables
  <2>2. CASE ~\E s \in Sessions : Publish(s)
    <3>1. /\ SameIncidents(old, new) /\ store'.timeline = store.timeline
          /\ \/ store'.operations = store.operations
             \/ \E s \in Sessions : Insert(s)
      BY <1>1, <2>1, <2>2, QuietStep
    <3>2. store'.operations \in
            {store.operations, Append(store.operations, Len(store.operations) + 1)}
      BY <2>1, <3>1, InsertEffect, InsertsNext
    <3>. QED
      BY <2>1, <3>1, <3>2, ResolvedHistory
  <2>3. ASSUME NEW s \in Sessions, Publish(s) PROVE Stays
    <3> DEFINE e == session[s].event
               n == Len(store.incidents) + 1
    <3> HIDE DEF e, n
    <3>1. /\ store'.operations = store.operations
          /\ store.timeline \subseteq store'.timeline
          /\ \/ SameIncidents(store.incidents, store'.incidents)
             \/ /\ Len(store'.incidents) = n
                /\ \A m \in 1 .. Len(store.incidents) :
                     store'.incidents[m] = store.incidents[m]
      <4> HIDE DEF old, new, Stays
      <4>1. TypeOK
        BY <2>1
      <4>2. store'.operations = store.operations
        BY <2>3, <4>1, PublishCases DEF e, n
      <4>3. store.timeline \subseteq store'.timeline
        BY <2>3, <4>1, PublishGrows
      <4>4. \/ SameIncidents(store.incidents, store'.incidents)
            \/ /\ Len(store'.incidents) = n
               /\ \A m \in 1 .. Len(store.incidents) :
                    store'.incidents[m] = store.incidents[m]
        BY <2>3, <4>1, PublishCases DEF e, n
      <4>. QED
        BY <4>2, <4>3, <4>4
    <3>2. CASE SameIncidents(old, new)
      BY <2>1, <3>1, <3>2, ResolvedHistory
    <3>3. CASE Len(new) = n /\ \A m \in 1 .. Len(old) : new[m] = old[m]
      <4>1. \A i \in Incident : Open(i) => [i EXCEPT !.resolution = "none"] = i
        BY DEF Incident, Open
      <4>2. \A m \in 1 .. Len(old) : old[m] \in Incident
        BY <2>1
      <4>. QED
        BY SMTT(30), <2>1, <3>1, <3>3, <4>1, <4>2 DEF n
    <3>. QED
      BY <3>1, <3>2, <3>3
  <2>. QED
    BY <2>2, <2>3
<1>2. IInv /\ [Next]_vars => [Stays]_vars
  BY <1>1
<1>. QED
  BY <1>2, Invariance, PTL DEF Spec, HistoryStays

================================================================================
