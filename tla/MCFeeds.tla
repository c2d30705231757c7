------------------------------- MODULE MCFeeds -------------------------------
\* The two feeds the supervisor keeps of a bot share no state: a behaviour is one
\* of guild snapshots, with the supervisor's collector stopped and no row, or one
\* of telemetry, with the last instance ended and no snapshot under way.
EXTENDS Snapshots, Telemetry

VARIABLE feed

SnapshotsStill ==
  /\ guilds = [g \in Guilds |-> "absent"]
  /\ instance = [NewRow(MaxInstances) EXCEPT !.state = "offline", !.ended = TRUE]
  /\ operation = "none"
  /\ agent = DeadAgent
  /\ sent = {}
  /\ rows = [g \in Guilds |-> NoRow]
  /\ status = guilds /\ told = guilds
  /\ asked = FALSE

TelemetryStill ==
  /\ row = [id |-> 0, running |-> FALSE]
  /\ process = "dead"
  /\ latest = None /\ handles = {} /\ request = NoRequest
  /\ collector = [IdlePass EXCEPT !.pc = "stopped"]
  /\ lastAlive = [i \in Instances |-> StaleAfter + 1]

MCInit == \/ feed = "snapshots" /\ Init /\ TelemetryStill
          \/ feed = "telemetry" /\ TelemetryInit /\ SnapshotsStill

SnapshotsGoOn   == feed = "snapshots" /\ Next /\ UNCHANGED <<feed, telemetryVars>>
TelemetryGoesOn == feed = "telemetry" /\ TelemetryNext /\ UNCHANGED <<feed, vars>>
MCNext == SnapshotsGoOn \/ TelemetryGoesOn

\* What stands still has nothing to be fair to.
MCSpec ==
  MCInit /\ [][MCNext]_<<feed, vars, telemetryVars>> /\ Fairness /\ TelemetryFairness
==============================================================================
