------------------------------ MODULE Snapshots ------------------------------
(***************************************************************************)
(* The guild snapshots of one bot: the agent sends what Discord shows it,  *)
(* the supervisor keeps the latest and tells the activity what changed.    *)
(*                                                                         *)
(* The supervisor handles a snapshot within one step of its event loop.    *)
(* The agent gives up on a request after five seconds, and the request may *)
(* still arrive.  A guild stands as its diagnostics do: absent, or all of  *)
(* them pass, or one fails.  Times are ages in ticks.  The bot is enabled. *)
(*                                                                         *)
(* Of the bot's process there is what decides whether a snapshot is taken: *)
(* the commits of start, stop and restart, and the status requests, which  *)
(* take no lock and may come between them.  A status request is one step   *)
(* here, and the supervisor stays up; a session that commits what it loaded *)
(* before the row changed, and crashes, are the subject of Supervisor.tla. *)
(***************************************************************************)
EXTENDS FeedParameters, FiniteSets, Sequences

VARIABLES
  guilds,      \* the standing of each guild in Discord
  instance,    \* the newest row of bot_instances
  operation,   \* how far the start is, or that of a restart, which holds the bot's lock
  agent,       \* the agent of that instance's process
  sent,        \* the snapshots on their way
  rows,        \* discord_guild_snapshots
  status,      \* discord_diagnostic_states
  asked,       \* snapshot_refresh_requests
  told         \* history: what the activity events of each guild add up to

lifecycle  == <<instance, operation>>
supervisor == <<rows, status, asked, told>>
vars       == <<guilds, lifecycle, agent, sent, supervisor>>

Standing == {"absent", "PASS", "FAIL"}
Late     == 2 * Stale + 1
Old      == 3 * Stale + 1
Older(age, cap) == IF age < cap THEN age + 1 ELSE cap

Snapshot == [instance : 1 .. MaxInstances, guilds : [Guilds -> Standing], age : 0 .. Late]
NoRow    == [standing |-> "absent", instance |-> 0, generated |-> 0, received |-> 0]

\* "running" is starting and restarting as well, which are taken alike by what is
\* modelled here.
Over       == {"offline", "crashed"}
States     == {"running", "stopping"} \cup Over
NewRow(id) == [id |-> id, state |-> "running", ended |-> FALSE, ready |-> FALSE]
NewAgent   == [alive |-> TRUE, ready |-> FALSE, pc |-> "waiting", wanted |-> FALSE]
DeadAgent  == [NewAgent EXCEPT !.alive = FALSE]

Init ==
  /\ guilds \in [Guilds -> {"absent", "PASS"}]
  /\ instance = NewRow(1)
  /\ operation = "none"
  /\ agent = NewAgent
  /\ sent = {}
  /\ rows = [g \in Guilds |-> NoRow]
  /\ status = [g \in Guilds |-> "absent"]
  /\ asked = FALSE
  /\ told = [g \in Guilds |-> "absent"]

-------------------------------------------------------------------------------
\* The agent.

Changes ==
  /\ \E g \in Guilds : \E standing \in Standing \ {guilds[g]} :
       guilds' = [guilds EXCEPT ![g] = standing]
  /\ agent' = [agent EXCEPT !.wanted = @ \/ agent.ready]
  /\ UNCHANGED <<lifecycle, sent, supervisor>>

Ready ==
  /\ agent.alive /\ ~agent.ready
  /\ agent' = [agent EXCEPT !.ready = TRUE, !.wanted = TRUE]
  /\ UNCHANGED <<guilds, lifecycle, sent, supervisor>>

Disconnects ==
  /\ agent.ready
  /\ agent' = [agent EXCEPT !.ready = FALSE]
  /\ UNCHANGED <<guilds, lifecycle, sent, supervisor>>

\* A faulty loop that sends only what is wanted.
FaultyWake ==
  /\ agent.alive /\ agent.pc = "waiting" /\ agent.wanted
  /\ agent.ready => Cardinality(sent) < MaxFlight
  /\ sent' = IF agent.ready THEN sent \cup {[instance |-> instance.id, guilds |-> guilds, age |-> 0]}
                            ELSE sent
  /\ agent' = IF agent.ready THEN [agent EXCEPT !.pc = "sending"]
                             ELSE [agent EXCEPT !.wanted = FALSE]
  /\ UNCHANGED <<guilds, lifecycle, supervisor>>

\* _snapshot_loop goes on, because a snapshot is wanted or the interval is over.
\* An agent that is not ready clears what is wanted.
Wake ==
  /\ agent.alive /\ agent.pc = "waiting"
  /\ agent.ready => Cardinality(sent) < MaxFlight
  /\ sent' = IF agent.ready THEN sent \cup {[instance |-> instance.id, guilds |-> guilds, age |-> 0]}
                            ELSE sent
  /\ agent' = IF agent.ready THEN [agent EXCEPT !.pc = "sending"]
                             ELSE [agent EXCEPT !.wanted = FALSE]
  /\ UNCHANGED <<guilds, lifecycle, supervisor>>

\* The answer, an error or the timeout: what was wanted is cleared.
Return ==
  /\ agent.pc = "sending"
  /\ agent' = [agent EXCEPT !.pc = "waiting", !.wanted = FALSE]
  /\ UNCHANGED <<guilds, lifecycle, sent, supervisor>>

Lost ==
  /\ \E m \in sent : sent' = sent \ {m}
  /\ UNCHANGED <<guilds, lifecycle, agent, supervisor>>

-------------------------------------------------------------------------------
\* The supervisor.

\* The row of a process that may report.
Reporting == ~instance.ended /\ instance.state = "running"

\* A faulty check that takes a snapshot of any age.
FaultyCurrent(m) == m.instance = instance.id /\ Reporting

\* authenticate_instance.
Current(m) ==
  /\ m.instance = instance.id
  /\ Reporting
  /\ m.age <= 2 * Stale

\* The row of a guild after the snapshot.
Kept(m, g) ==
  IF m.guilds[g] = "absent" THEN NoRow
  ELSE [standing |-> m.guilds[g], instance |-> m.instance, generated |-> m.age, received |-> 0]

\* A faulty removal that leaves the status of the guild.
FaultyKnown(m, g) == IF m.guilds[g] = "absent" THEN status[g] ELSE m.guilds[g]

\* The status kept for the next comparison: removed with the guild.
Known(m, g) ==
  IF m.guilds[g] # "absent" THEN m.guilds[g]
  ELSE IF rows[g] # NoRow THEN "absent" ELSE status[g]

\* _transitions, then joined or removed.
Events(m, g) ==
  (IF m.guilds[g] # "absent" /\ status[g] \notin {"absent", m.guilds[g]}
   THEN <<IF m.guilds[g] = "FAIL" THEN "FAILED" ELSE "RECOVERED">> ELSE <<>>)
  \o (IF m.guilds[g] # "absent" /\ rows[g] = NoRow THEN <<"JOINED">> ELSE <<>>)
  \o (IF m.guilds[g] = "absent" /\ rows[g] # NoRow THEN <<"REMOVED">> ELSE <<>>)

\* What a reader of the activity makes of one more event.
Reading(known, event, standing) ==
  CASE event = "JOINED"    /\ known = "absent"  -> standing
    [] event = "REMOVED"   /\ known # "absent"  -> "absent"
    [] event = "FAILED"    /\ known = "PASS"    -> "FAIL"
    [] event = "RECOVERED" /\ known = "FAIL"    -> "PASS"
    [] OTHER -> "confused"

Read(m, g) ==
  LET events == Events(m, g) IN
  CASE events = <<>>     -> told[g]
    [] Len(events) = 1 -> Reading(told[g], events[1], m.guilds[g])
    [] OTHER           -> "confused"

Accept ==
  /\ \E m \in sent :
       /\ Current(m)
       /\ sent'   = sent \ {m}
       /\ rows'   = [g \in Guilds |-> Kept(m, g)]
       /\ status' = [g \in Guilds |-> Known(m, g)]
       /\ told'   = [g \in Guilds |-> Read(m, g)]
  /\ UNCHANGED <<guilds, lifecycle, agent, asked>>

Reject ==
  /\ \E m \in sent : ~Current(m) /\ sent' = sent \ {m}
  /\ UNCHANGED <<guilds, lifecycle, agent, supervisor>>

\* The dashboard's refresh, of a bot that is expected to run.
Ask ==
  /\ instance.state = "running" /\ ~asked
  /\ asked' = TRUE
  /\ UNCHANGED <<guilds, lifecycle, agent, sent, rows, status, told>>

\* A heartbeat is accepted.  Its answer takes the request along, or is lost with it.
HeartbeatAnswers ==
  /\ agent.alive /\ Reporting
  /\ instance' = [instance EXCEPT !.ready = agent.ready]
  /\ asked' = FALSE
  /\ agent' \in {agent, [agent EXCEPT !.wanted = @ \/ asked]}
  /\ UNCHANGED <<guilds, operation, sent, rows, status, told>>

-------------------------------------------------------------------------------
\* The process.

Dies ==
  /\ agent.alive
  /\ agent' = DeadAgent
  /\ UNCHANGED <<guilds, lifecycle, sent, supervisor>>

\* _identity_valid: the process of the row lives, and the row says which it is.
Identified == agent.alive /\ operation # "launched"

\* _reconcile_row, in a status request or before an operation.  A process that is
\* found has its readiness withdrawn when the last heartbeat is too old.
Found ==
  /\ Identified
  /\ \E ready \in {FALSE, instance.ready} :
       instance' = [instance EXCEPT !.state = "running", !.ready = ready]
  /\ UNCHANGED <<guilds, operation, agent, sent, supervisor>>

\* One that is not found has ended, also when it is only about to be launched or
\* recorded.  It crashed, unless a stop or a restart had announced its end.  A crashed
\* row is withdrawn again.
NotFound ==
  /\ ~Identified /\ instance.state # "offline"
  /\ \E state \in CASE instance.state = "stopping" -> {"offline"}
                    [] instance.state = "running" /\ operation = "none" -> Over
                    [] OTHER -> {"crashed"} :
       instance' = [instance EXCEPT !.state = state, !.ended = TRUE, !.ready = FALSE]
  /\ UNCHANGED <<guilds, operation, agent, sent, supervisor>>

\* stop saves its intent before it signals.  That of restart is "restarting".
Stops ==
  /\ operation = "none" /\ agent.alive
  /\ instance' = [instance EXCEPT !.state = "stopping"]
  /\ UNCHANGED <<guilds, operation, agent, sent, supervisor>>

\* The process is signalled and has ended, and so has the row; ready is left as it
\* is.  When psutil raises instead, stop and restart end without this step.
Stopped ==
  /\ operation = "none" /\ instance.state # "crashed"
  /\ agent' = DeadAgent
  /\ instance' = [instance EXCEPT !.state = "offline", !.ended = TRUE]
  /\ UNCHANGED <<guilds, operation, sent, supervisor>>

\* start, or restart after its stop: the first commit inserts the row.
Starts ==
  /\ operation = "none" /\ ~agent.alive /\ instance.id < MaxInstances
  /\ instance' = NewRow(instance.id + 1)
  /\ operation' = "inserted"
  /\ UNCHANGED <<guilds, agent, sent, supervisor>>

Spawns ==
  /\ operation = "inserted"
  /\ agent' = NewAgent
  /\ operation' = "launched"
  /\ UNCHANGED <<guilds, instance, sent, supervisor>>

\* There is no process, or none any more: start records it, restart does not.
SpawnFails ==
  /\ operation # "none" /\ ~agent.alive
  /\ instance' \in {instance, [instance EXCEPT !.state = "crashed", !.ended = TRUE]}
  /\ operation' = "none"
  /\ UNCHANGED <<guilds, agent, sent, supervisor>>

\* The second commit: the process is identified and the state "running".  It leaves
\* ended_at as it is.
Records ==
  /\ operation = "launched"
  /\ instance' = [instance EXCEPT !.state = "running"]
  /\ operation' = "none"
  /\ UNCHANGED <<guilds, agent, sent, supervisor>>

-------------------------------------------------------------------------------
Tick ==
  /\ sent' = {[m EXCEPT !.age = Older(@, Late)] : m \in sent}
  /\ rows' = [g \in Guilds |->
       IF rows[g] = NoRow THEN NoRow
       ELSE [rows[g] EXCEPT !.generated = Older(@, Old), !.received = Older(@, Stale + 1)]]
  /\ UNCHANGED <<guilds, lifecycle, agent, status, asked, told>>

-------------------------------------------------------------------------------
Next ==
  \/ Changes \/ Ready \/ Disconnects \/ Wake \/ Return \/ Lost
  \/ Accept \/ Reject \/ Ask \/ HeartbeatAnswers
  \/ Dies \/ Found \/ NotFound
  \/ Stops \/ Stopped
  \/ Starts \/ Spawns \/ SpawnFails \/ Records
  \/ Tick

\* The agent's loop goes on, and a snapshot that is sent arrives or not, now and
\* then in time.
Fairness == WF_vars(Wake \/ Return) /\ WF_vars(Reject) /\ SF_vars(Accept)

Spec == Init /\ [][Next]_vars /\ Fairness

-------------------------------------------------------------------------------
\* availability.
Shown(g) ==
  IF rows[g].received > Stale THEN "STALE"
  ELSE IF rows[g].instance # instance.id \/ ~instance.ready THEN "CACHED"
  ELSE "CURRENT"

\* Type invariant.
TypeOK ==
  /\ guilds \in [Guilds -> Standing]
  /\ instance \in [id : 1 .. MaxInstances, state : States,
                  ended : BOOLEAN, ready : BOOLEAN]
  /\ operation \in {"none", "inserted", "launched"}
  /\ agent \in [alive : BOOLEAN, ready : BOOLEAN, wanted : BOOLEAN,
                pc : {"waiting", "sending"}]
  /\ sent \subseteq Snapshot
  /\ rows \in [Guilds -> [standing : Standing, instance : 0 .. MaxInstances,
                          generated : 0 .. Old, received : 0 .. Stale + 1]]
  /\ status \in [Guilds -> Standing]
  /\ asked \in BOOLEAN

\* However snapshots are lost, late or overtake each other, and across instances:
\* the activity adds up to what is cached -- each guild joined once before it is
\* removed, a capability failed once before it recovers, nothing repeated
\* (guild_snapshots.py 33-38, 66-72).
ActivityAddsUp == \A g \in Guilds : told[g] = rows[g].standing

\* What the supervisor compares with is what it cached and what it told, and a row
\* that is not stale was accepted in time.
CacheInv ==
  \A g \in Guilds :
    /\ status[g] = rows[g].standing /\ told[g] = rows[g].standing
    /\ rows[g].standing = "absent" <=> rows[g] = NoRow
    /\ rows[g].received <= Stale => rows[g].generated <= rows[g].received + 2 * Stale

\* The inductive invariant.
IInv == TypeOK /\ CacheInv

\* What is shown as current was so at most three times the limit ago: the delay
\* that is accepted, and the time it is kept (guild_snapshots.py 23, 73-77).
CurrentIsRecent ==
  \A g \in Guilds :
    rows[g] # NoRow /\ Shown(g) = "CURRENT" => rows[g].generated <= 3 * Stale

\* README 538: a ready instance's snapshot is CURRENT, one kept while it is not
\* connected is CACHED.
CurrentIsConnected ==
  \A g \in Guilds : rows[g] # NoRow /\ Shown(g) = "CURRENT" => instance.state \notin Over

\* While the bot stays ready and Discord stays as it is, the cache gets there, also
\* when a request was cleared while another was sent, or lost with an answer: the
\* interval sees to it (agent.py 103-109).  The bot that is being stopped is left out,
\* and the one that ReadyRefreshed is about.
Refreshed ==
  <>[](agent.ready /\ instance.state # "stopping" /\ ~instance.ended)
    /\ <>[][FALSE]_guilds
    => <>[](\A g \in Guilds : rows[g].standing = guilds[g])

\* README 536: the snapshots of a ready bot are refreshed.  The row of one that was looked at
\* between the two commits of its start is running with ended_at set, and none of its
\* snapshots is accepted again (service.py 83, 139; guild_snapshots.py 20).
ReadyRefreshed ==
  <>[](agent.ready /\ instance.state # "stopping") /\ <>[][FALSE]_guilds
    => <>[](\A g \in Guilds : rows[g].standing = guilds[g])
===============================================================================
