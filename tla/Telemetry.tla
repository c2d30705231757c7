------------------------------ MODULE Telemetry ------------------------------
(***************************************************************************)
(* The telemetry of one bot: the collector's thread samples the validated  *)
(* process every few seconds, the supervisor's API answers from the store. *)
(*                                                                         *)
(* The store is locked per call; between its calls a pass of the collector *)
(* and a request interleave with each other and with what happens to the   *)
(* process.  Only the newest row counts; times are ages in ticks.          *)
(***************************************************************************)
EXTENDS FeedParameters

VARIABLES
  row,         \* the newest row of bot_instances, id 0 when there is none
  process,     \* the process of that row
  latest,      \* the store's latest sample
  handles,     \* the instances whose process handle is primed
  collector,   \* the pass: where it is, its target (0: none), the age of its now
  request,     \* one telemetry request: the instance it read
  lastAlive    \* history: how long ago the process of an instance was alive

actual == <<row, process>>
telemetryVars   == <<actual, latest, handles, collector, request, lastAlive>>

Instances == 1 .. MaxInstances
Ages      == 0 .. StaleAfter + 1
Aged(age) == IF age <= StaleAfter THEN age + 1 ELSE age

None       == [instance |-> 0, age |-> 0]
Sample     == [instance : 0 .. MaxInstances, age : Ages]
IdlePass   == [pc |-> "idle", target |-> 0, age |-> 0]
NoRequest  == [pc |-> "idle", instance |-> 0, expected |-> FALSE]

TelemetryInit ==
  /\ row = [id |-> 0, running |-> FALSE]
  /\ process = "dead"
  /\ latest = None
  /\ handles = {}
  /\ collector = IdlePass
  /\ request = NoRequest
  /\ lastAlive = [i \in Instances |-> StaleAfter + 1]

-------------------------------------------------------------------------------
\* What the supervisor does with rows and processes meanwhile.

RowStarts ==
  /\ ~row.running /\ process = "dead" /\ row.id < MaxInstances
  /\ row' = [id |-> row.id + 1, running |-> TRUE]
  /\ process' = "coming"
  /\ UNCHANGED <<latest, handles, collector, request, lastAlive>>

Launches ==
  /\ process = "coming"
  /\ row' = [row EXCEPT !.running = TRUE]
  /\ process' = "alive"
  /\ lastAlive' = [lastAlive EXCEPT ![row.id] = 0]
  /\ UNCHANGED <<latest, handles, collector, request>>

ProcessDies ==
  /\ process # "dead"
  /\ process' = "dead"
  /\ UNCHANGED <<row, latest, handles, collector, request, lastAlive>>

\* A reconciliation, or a stop or restart that begins or has ended.
RowFollows ==
  /\ row.id # 0
  /\ row' = [row EXCEPT !.running = (process = "alive")]
  /\ UNCHANGED <<process, latest, handles, collector, request, lastAlive>>
RowStops ==
  /\ row.running /\ process = "alive"
  /\ row' = [row EXCEPT !.running = FALSE]
  /\ UNCHANGED <<process, latest, handles, collector, request, lastAlive>>

TelemetryTick ==
  /\ latest' = IF latest = None THEN None ELSE [latest EXCEPT !.age = Aged(@)]
  /\ collector' = IF collector.pc \in {"idle", "stopped"} THEN collector
                  ELSE [collector EXCEPT !.age = Aged(@)]
  /\ lastAlive' = [i \in Instances |->
       IF process = "alive" /\ i = row.id THEN 0 ELSE Aged(lastAlive[i])]
  /\ UNCHANGED <<actual, handles, request>>

-------------------------------------------------------------------------------
\* clear_current: the latest sample, unless it is another instance's.
Cleared(i) == IF i \in {0, latest.instance} THEN None ELSE latest

\* The collector.

\* collect_once takes the time, then the newest row, if it says running.  A pass
\* that cannot read the rows changes nothing.
Load ==
  /\ collector = IdlePass
  /\ collector' = [pc |-> "validating", age |-> 0,
                    target |-> IF row.running THEN row.id ELSE 0]
  /\ UNCHANGED <<actual, latest, handles, request, lastAlive>>

\* The process of the row that was loaded.
TargetAlive == collector.target = row.id /\ process = "alive"

\* A faulty drop that keeps the sample.
FaultyDropTarget ==
  /\ handles' = handles \ {collector.target}
  /\ UNCHANGED latest

\* The sample and the handle of the target are dropped.
DropTarget ==
  /\ latest' = Cleared(collector.target)
  /\ handles' = handles \ {collector.target}

Validate ==
  /\ collector.pc = "validating"
  /\ IF collector.target = 0
     THEN /\ collector' = [collector EXCEPT !.pc = "cleaning"]
          /\ UNCHANGED <<latest, handles>>
     ELSE IF TargetAlive
     THEN /\ collector' = [collector EXCEPT !.pc = "sampling"]
          /\ UNCHANGED <<latest, handles>>
     ELSE /\ collector' = [collector EXCEPT !.pc = "cleaning"]
          /\ DropTarget
  /\ UNCHANGED <<actual, request, lastAlive>>

\* A faulty first reading whose handle is not kept.
FaultyPrime ==
  /\ collector.pc = "sampling" /\ TargetAlive /\ collector.target \notin handles
  /\ collector' = [collector EXCEPT !.pc = "cleaning"]
  /\ UNCHANGED <<actual, latest, handles, request, lastAlive>>

\* A process seen for the first time gets a handle and no sample.
Prime ==
  /\ collector.pc = "sampling" /\ TargetAlive /\ collector.target \notin handles
  /\ handles' = handles \cup {collector.target}
  /\ collector' = [collector EXCEPT !.pc = "cleaning"]
  /\ UNCHANGED <<actual, latest, request, lastAlive>>

\* The process is read through its handle.
ReadProcess ==
  /\ collector.pc = "sampling" /\ TargetAlive /\ collector.target \in handles
  /\ collector' = [collector EXCEPT !.pc = "adding"]
  /\ UNCHANGED <<actual, latest, handles, request, lastAlive>>

\* psutil raises, as it does of a process that has ended.
ReadFails ==
  /\ collector.pc = "sampling"
  /\ DropTarget
  /\ collector' = [collector EXCEPT !.pc = "cleaning"]
  /\ UNCHANGED <<actual, request, lastAlive>>

\* A faulty sample that takes its time when it is added.
FaultyAdd ==
  /\ collector.pc = "adding"
  /\ latest' = [instance |-> collector.target, age |-> 0]
  /\ collector' = [collector EXCEPT !.pc = "cleaning"]
  /\ UNCHANGED <<actual, handles, request, lastAlive>>

\* The sample bears the time of the pass.
Add ==
  /\ collector.pc = "adding"
  /\ latest' = [instance |-> collector.target, age |-> collector.age]
  /\ collector' = [collector EXCEPT !.pc = "cleaning"]
  /\ UNCHANGED <<actual, handles, request, lastAlive>>

\* The handles that are not the target's are dropped, with their samples.
Clean ==
  /\ collector.pc = "cleaning"
  /\ handles' = handles \cap {collector.target}
  /\ latest' = IF latest.instance \in handles \ {collector.target} THEN None ELSE latest
  /\ collector' = IdlePass
  /\ UNCHANGED <<actual, request, lastAlive>>

\* The supervisor is stopped or crashes: the store is memory, and goes with it.
Shutdown ==
  /\ collector.pc # "stopped"
  /\ collector' = [IdlePass EXCEPT !.pc = "stopped"]
  /\ request' = NoRequest
  /\ latest' = None
  /\ handles' = {}
  /\ UNCHANGED <<actual, lastAlive>>
Startup ==
  /\ collector.pc = "stopped"
  /\ collector' = IdlePass
  /\ UNCHANGED <<actual, latest, handles, request, lastAlive>>

-------------------------------------------------------------------------------
\* The telemetry request.

\* registered_instance.
AskTelemetry ==
  /\ request = NoRequest /\ collector.pc # "stopped"
  /\ request' = [pc |-> "asked", instance |-> row.id, expected |-> row.running]
  /\ UNCHANGED <<actual, latest, handles, collector, lastAlive>>

\* current_payload has a sample of the instance, and it is not stale.
Available ==
  /\ request.expected
  /\ latest # None
  /\ latest.instance = request.instance
  /\ latest.age <= StaleAfter

\* The answer; the sample of an instance that is not running is dropped.
Answer ==
  /\ request.pc = "asked"
  /\ latest' = IF request.expected THEN latest ELSE Cleared(request.instance)
  /\ request' = NoRequest
  /\ UNCHANGED <<actual, handles, collector, lastAlive>>

-------------------------------------------------------------------------------
Pass == Load \/ Validate \/ Prime \/ ReadProcess \/ ReadFails \/ Add \/ Clean

TelemetryNext ==
  \/ RowStarts \/ Launches \/ ProcessDies \/ RowFollows \/ RowStops \/ TelemetryTick
  \/ Pass \/ Shutdown \/ Startup
  \/ AskTelemetry \/ Answer

\* The passes go on, and of their readings some succeed.
TelemetryFairness ==
  WF_telemetryVars(Pass) /\ SF_telemetryVars(Prime) /\ SF_telemetryVars(ReadProcess)

TelemetrySpec == TelemetryInit /\ [][TelemetryNext]_telemetryVars /\ TelemetryFairness

-------------------------------------------------------------------------------
\* Type invariant.
TelemetryTypeOK ==
  /\ row \in [id : 0 .. MaxInstances, running : BOOLEAN]
  /\ process \in {"dead", "coming", "alive"}
  /\ latest \in Sample
  /\ handles \subseteq Instances
  /\ collector \in [pc : {"stopped", "idle", "validating", "sampling", "adding", "cleaning"},
                    target : 0 .. MaxInstances, age : Ages]
  /\ request \in [pc : {"idle", "asked"}, instance : 0 .. MaxInstances, expected : BOOLEAN]
  /\ lastAlive \in [Instances -> Ages]

\* A sample is never without a handle: whatever ends a process, the pass that drops
\* its handle drops its sample, so that none is left over for good
\* (telemetry.py 73, 83-84).
SampleHasHandle == latest # None => latest.instance \in handles

\* An answer with a sample is about a process that was alive within the limit, even
\* if the pass was slow, the process has ended since, or another instance has
\* begun (telemetry.py 67-82, 90-94; api.py 104-107).
AvailableWasAlive ==
  [][Answer /\ Available => lastAlive[request.instance] <= StaleAfter]_telemetryVars

\* While a process is alive, its row says so and the supervisor is up, its samples
\* come, and no request that began before takes them away for good.
Sampled ==
  <>[](process = "alive" /\ row.running /\ collector.pc # "stopped")
    => []<>(latest.instance = row.id)

\* Once there is no process, there is no sample and no handle (telemetry.py 73, 84).
Forgotten == <>[](process = "dead") => <>[](latest = None /\ handles = {})

-------------------------------------------------------------------------------
\* The inductive invariant.  A pass that has read its target holds its handle, and
\* bears a time from which the target was alive.
PassInv ==
  /\ collector.pc \in {"sampling", "adding"} => collector.target # 0
  /\ collector.pc = "adding" =>
       /\ collector.target \in handles
       /\ lastAlive[collector.target] <= collector.age

\* No process was alive later than it was: a sample is as old, at least.
AliveInv ==
  /\ process # "dead" => row.id # 0
  /\ process = "alive" => lastAlive[row.id] = 0
  /\ latest # None => lastAlive[latest.instance] <= latest.age

TelemetryIInv == TelemetryTypeOK /\ SampleHasHandle /\ PassInv /\ AliveInv
===============================================================================
