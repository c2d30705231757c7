------------------------------ MODULE Heartbeat ------------------------------
(***************************************************************************)
(* The heartbeats of one bot, what the dashboard learns from them, and the *)
(* maintenance policy they carry: HeartbeatService.accept                  *)
(* (src/app/services/heartbeat.py), the agent in the bot's process         *)
(* (src/app/agent.py), MaintenanceService.set                              *)
(* (src/app/services/maintenance.py), and of SupervisorService the         *)
(* reconciliation of a status request and the commits of start and stop.   *)
(*                                                                         *)
(* Times are kept as ages, in ticks: Tick makes everything older, and what *)
(* is older than any limit is Old.  "Never" is Old as well: every check of *)
(* the code treats the two alike.  A tick is longer than a heartbeat's     *)
(* handling and not longer than the agent's interval.  Generations are     *)
(* relative: a message or session is about the current row or an older one.*)
(***************************************************************************)
EXTENDS Naturals, FiniteSets

CONSTANTS
  Timeout,      \* bot_heartbeat_timeout_seconds
  Skew,         \* clock_skew: the oldest message accepted
  MinInterval,  \* minimum_interval between accepted messages
  Events,       \* the links that Discord's events bring the bot to
  Wishes,       \* what administrators set the maintenance policy to
  Polled,       \* somebody asks for the status
  MaxFlight     \* bound: messages on their way

Links  == {"down", "connected", "ready"}
Switch == {"on", "off"}

ASSUME LimitsAssumption ==
  Timeout \in Nat /\ Skew \in Nat /\ MinInterval \in Nat /\ MaxFlight \in Nat
ASSUME EnvironmentAssumption == Events \subseteq Links /\ Wishes \subseteq Switch /\ Polled \in BOOLEAN

VARIABLES
  row,       \* the current bot_instances row
  policy,    \* bot_maintenance: enabled, and applied_enabled
  agent,     \* the agent of the current generation
  sent,      \* heartbeats on their way
  reply,     \* the answer on its way to the agent's outstanding request
  serving,   \* the session of the heartbeat handler
  looking,   \* the session of a status request
  setting,   \* the session of an enable or disable of maintenance
  phase,     \* the start or stop in progress
  launch,    \* the policy in the environment of the launch
  readyAge,  \* history: since when the current bot has not been ready
  offered,   \* history: values of the policy since the agent's last request
  settled,   \* history: the policy is as it was when the generation was created
  raced      \* history: a heartbeat and an enable or disable have overlapped

vars == <<row, policy, agent, sent, reply, serving, looking, setting,
          phase, launch, readyAge, offered, settled, raced>>

supervision == <<row, phase, launch, looking>>
history     == <<readyAge, offered, settled, raced>>

-------------------------------------------------------------------------------
Old  == Timeout + Skew + MinInterval + 1
Ages == 0 .. Old
Older(age) == IF age = Old THEN Old ELSE age + 1

Applied == Switch \cup {"unset"}
States  == {"none", "starting", "running", "stopping", "restarting", "crashed", "offline"}

Rows == [state : States, known : BOOLEAN, ended : BOOLEAN, expected : BOOLEAN,
         connected : BOOLEAN, ready : BOOLEAN, lastSent : Ages, lastHeard : Ages]

\* awaited: the agent has not given up on it.  current: of the current row.
Messages ==
  [age : Ages, link : Links, gate : Switch, awaited : BOOLEAN, current : BOOLEAN]

Idle == [step |-> "idle"]

Policies == [enabled : Switch, applied : Applied]

Agents ==
  [alive : BOOLEAN, link : Links, gate : Switch, waiting : BOOLEAN, rested : BOOLEAN]

\* The handler's session: what it loaded of row and policy, and its "now".
Servings ==
  [step : {"row", "policy"}, msg : Messages, now : Ages, connected : BOOLEAN,
   ready : BOOLEAN, enabled : Switch, applied : Applied]

\* The sessions of a status request and of an enable or disable.
Lookings == [step : {"read"}, row : Rows, current : BOOLEAN]
Settings == [step : {"read"}, new : Switch, enabled : Switch, applied : Applied]

\* A commit writes a column when the session has changed it.
Column(loaded, new, stored) == IF new # loaded THEN new ELSE stored

NewRow ==
  [state |-> "starting", known |-> FALSE, ended |-> FALSE, expected |-> TRUE,
   connected |-> FALSE, ready |-> FALSE, lastSent |-> Old, lastHeard |-> Old]

\* A faulty agent that takes the answer to a request it has given up on.
FaultyGivenUpAnswered(m) == m

\* Messages and sessions when the agent gives up, or its generation does.
GivenUp(m)    == [m EXCEPT !.awaited = FALSE]
Superseded(m) == [m EXCEPT !.awaited = FALSE, !.current = FALSE]
InServing(Change(_)) ==
  IF serving = Idle THEN Idle ELSE [serving EXCEPT !.msg = Change(@)]

-------------------------------------------------------------------------------
\* The agent (agent.py).

\* Discord events.
LinkChanges ==
  /\ agent.alive
  /\ \E link \in Events \ {agent.link} :
       /\ agent' = [agent EXCEPT !.link = link]
       /\ readyAge' = IF link = "ready" THEN 0 ELSE readyAge
  /\ UNCHANGED <<policy, sent, reply, serving, setting, offered, settled, raced, supervision>>

\* send_once up to the request.  The agent rests between two requests.
AgentSends ==
  /\ agent.alive /\ ~agent.waiting /\ agent.rested
  /\ Cardinality(sent) < MaxFlight
  /\ sent' = sent \cup {[age |-> 0, link |-> agent.link, gate |-> agent.gate,
                         awaited |-> TRUE, current |-> TRUE]}
  /\ agent' = [agent EXCEPT !.waiting = TRUE, !.rested = FALSE]
  /\ offered' = {policy.enabled}
  /\ UNCHANGED <<policy, reply, serving, setting, readyAge, settled, raced, supervision>>

\* A faulty agent whose gate closes and never opens.
FaultyAgentLearnsOn ==
  /\ reply \in Switch
  /\ agent' = [agent EXCEPT !.gate = IF reply = "on" THEN "on" ELSE @, !.waiting = FALSE]
  /\ reply' = "none"
  /\ offered' = {}
  /\ UNCHANGED <<policy, sent, serving, setting, readyAge, settled, raced, supervision>>

\* send_once from the answer: the gate takes the policy answered.
AgentLearns ==
  /\ reply \in Switch
  /\ agent' = [agent EXCEPT !.gate = reply, !.waiting = FALSE]
  /\ reply' = "none"
  /\ offered' = {}
  /\ UNCHANGED <<policy, sent, serving, setting, readyAge, settled, raced, supervision>>

\* The request is refused, lost, or takes too long: the gate stays.  The
\* message may still arrive.
AgentGivesUp ==
  /\ agent.waiting
  /\ agent' = [agent EXCEPT !.waiting = FALSE]
  /\ reply' = "none"
  /\ sent' = {GivenUp(m) : m \in sent}
  /\ serving' = InServing(GivenUp)
  /\ offered' = {}
  /\ UNCHANGED <<policy, setting, readyAge, settled, raced, supervision>>

MessageLost ==
  /\ \E m \in sent : sent' = sent \ {m}
  /\ UNCHANGED <<policy, agent, reply, serving, setting, history, supervision>>

BotDies ==
  /\ agent.alive
  /\ agent' = [agent EXCEPT !.alive = FALSE, !.waiting = FALSE]
  /\ reply' = "none"
  /\ sent' = {GivenUp(m) : m \in sent}
  /\ serving' = InServing(GivenUp)
  /\ offered' = {}
  /\ UNCHANGED <<policy, setting, readyAge, settled, raced, supervision>>

-------------------------------------------------------------------------------
\* HeartbeatService.accept.  The handler serves one message at a time.

\* A faulty handler without the limit on the clock skew.
FaultyAcceptableStale(m) ==
  /\ m.current /\ ~row.ended
  /\ row.state \in {"starting", "running", "restarting"}
  /\ m.age < row.lastSent \/ row.lastSent = Old
  /\ row.lastHeard >= MinInterval

\* A faulty handler without the order of the agent's timestamps.
FaultyAcceptableLate(m) ==
  /\ m.current /\ ~row.ended
  /\ row.state \in {"starting", "running", "restarting"}
  /\ m.age <= Skew
  /\ row.lastHeard >= MinInterval

Acceptable(m) ==
  /\ m.current /\ ~row.ended
  /\ row.state \in {"starting", "running", "restarting"}
  /\ m.age <= Skew
  /\ m.age < row.lastSent
  /\ row.lastHeard >= MinInterval

AcceptRejects ==
  /\ serving = Idle
  /\ \E m \in sent :
       /\ ~Acceptable(m)
       /\ sent' = sent \ {m}
       /\ reply' = IF m.awaited THEN "rejected" ELSE reply
  /\ UNCHANGED <<policy, agent, serving, setting, history, supervision>>

\* The checks, on the row as loaded.
AcceptReads ==
  /\ serving = Idle
  /\ \E m \in sent :
       /\ Acceptable(m)
       /\ sent' = sent \ {m}
       /\ serving' = [step |-> "row", msg |-> m, now |-> 0,
                      connected |-> row.connected, ready |-> row.ready,
                      enabled |-> "off", applied |-> "unset"]
  /\ raced' = (raced /\ setting # Idle)
  /\ UNCHANGED <<policy, agent, reply, setting, readyAge, offered, settled, supervision>>

AcceptReadsPolicy ==
  /\ serving.step = "row"
  /\ serving' = [serving EXCEPT !.step = "policy", !.enabled = policy.enabled,
                                !.applied = policy.applied]
  /\ UNCHANGED <<policy, agent, sent, reply, setting, history, supervision>>

\* The commit, and the answer: the policy as it was loaded before the commit.
AcceptCommits ==
  LET m == serving.msg
      connected == m.link # "down"
      ready     == m.link = "ready"
  IN
  /\ serving.step = "policy"
  /\ row' = IF m.current
            THEN [row EXCEPT
                    !.lastSent = m.age, !.lastHeard = serving.now,
                    !.connected = Column(serving.connected, connected, @),
                    !.ready     = Column(serving.ready, ready, @)]
            ELSE row
  /\ policy' = [policy EXCEPT !.applied = Column(serving.applied, m.gate, @)]
  /\ reply' = IF m.awaited THEN serving.enabled ELSE reply
  /\ serving' = Idle
  /\ raced' = (raced \/ setting # Idle)
  /\ UNCHANGED <<agent, sent, looking, setting, phase, launch, readyAge, offered, settled>>

-------------------------------------------------------------------------------
\* MaintenanceService.set, one at a time (process_workflow_locks).  Disabling
\* what is disabled changes nothing; enabling again may change the message.
SetReads ==
  /\ setting = Idle
  /\ \E new \in Wishes :
       /\ new = "off" => policy.enabled = "on"
       /\ setting' = [step |-> "read", new |-> new,
                      enabled |-> policy.enabled, applied |-> policy.applied]
  /\ raced' = (raced /\ serving # Idle)
  /\ UNCHANGED <<policy, agent, sent, reply, serving, readyAge, offered, settled, supervision>>

SetCommits ==
  /\ setting # Idle
  /\ policy' = [enabled |-> Column(setting.enabled, setting.new, policy.enabled),
                applied |-> Column(setting.applied, "unset", policy.applied)]
  /\ setting' = Idle
  /\ offered' = IF agent.waiting THEN offered \cup {policy'.enabled} ELSE {}
  /\ settled' = FALSE
  /\ raced' = (raced \/ serving # Idle)
  /\ UNCHANGED <<agent, sent, reply, serving, readyAge, supervision>>

-------------------------------------------------------------------------------
\* SupervisorService, as far as heartbeats see it.

\* The session of a status request.  last_agent_timestamp is not read.
StatusReads ==
  /\ Polled
  /\ looking = Idle
  /\ row.state # "none"
  /\ looking' = [step |-> "read", row |-> [row EXCEPT !.lastSent = Old], current |-> TRUE]
  /\ UNCHANGED <<row, policy, agent, sent, reply, serving, setting, phase, launch, history>>

\* _reconcile_row on the row as loaded, and the process as it is.  The process
\* of an older row has ended.
Reconciled(r) ==
  IF r.known /\ looking.current /\ agent.alive
  THEN [r EXCEPT !.state = "running",
                 !.connected = @ /\ r.lastHeard <= Timeout,
                 !.ready     = @ /\ r.lastHeard <= Timeout]
  ELSE IF r.expected \/ r.state \in {"starting", "running", "stopping", "restarting"}
  THEN [r EXCEPT !.state = IF r.expected THEN "crashed" ELSE "offline",
                 !.ended = TRUE, !.connected = FALSE, !.ready = FALSE]
  ELSE r

\* BotStateResolver.resolve of the payload.  "waiting": starting or
\* disconnected, which the age of the process tells apart.
Resolve(r) ==
  CASE r.state \in {"stopping", "restarting"} -> r.state
    [] r.state \in {"none", "crashed", "offline"} ->
         IF r.expected \/ r.state = "crashed" THEN "crashed" ELSE "offline"
    [] r.state \in {"running", "starting"} ->
         IF r.lastHeard <= Timeout /\ r.connected /\ r.ready
         THEN IF policy.enabled = "on" THEN "maintenance" ELSE "online"
         ELSE "waiting"

\* The state that the status request answers with.
Shown == Resolve(Reconciled(looking.row))

StatusCommits ==
  /\ looking # Idle
  /\ LET old == looking.row
         new == Reconciled(old)
     IN row' = IF looking.current
               THEN [row EXCEPT
                       !.state     = Column(old.state, new.state, @),
                       !.ended     = Column(old.ended, new.ended, @),
                       !.connected = Column(old.connected, new.connected, @),
                       !.ready     = Column(old.ready, new.ready, @)]
               ELSE row
  /\ looking' = Idle
  /\ UNCHANGED <<policy, agent, sent, reply, serving, setting, phase, launch, history>>

\* start: the row of a new generation is committed.
StartInserts ==
  /\ phase = "idle"
  /\ ~agent.alive
  /\ row' = NewRow
  /\ phase' = "inserted"
  /\ sent' = {Superseded(m) : m \in sent}
  /\ serving' = InServing(Superseded)
  /\ looking' = IF looking = Idle THEN Idle ELSE [looking EXCEPT !.current = FALSE]
  /\ settled' = TRUE
  /\ UNCHANGED <<policy, agent, reply, setting, launch, readyAge, offered, raced>>

StartReadsPolicy ==
  /\ phase = "inserted"
  /\ launch' = policy.enabled
  /\ phase' = "configured"
  /\ UNCHANGED <<row, looking, policy, agent, sent, reply, serving, setting, history>>

\* A faulty launch without the policy in its environment.
FaultyStartLaunchesOpen ==
  /\ phase = "configured"
  /\ agent' = [alive |-> TRUE, link |-> "down", gate |-> "off",
               waiting |-> FALSE, rested |-> TRUE]
  /\ phase' = "launched"
  /\ readyAge' = Old
  /\ launch' = "off"
  /\ UNCHANGED <<row, looking, policy, sent, reply, serving, setting, offered, settled, raced>>

\* Popen, or its failure: start records it, restart does not.
StartLaunches ==
  /\ phase = "configured"
  /\ \/ /\ agent' = [alive |-> TRUE, link |-> "down", gate |-> launch,
                     waiting |-> FALSE, rested |-> TRUE]
        /\ phase' = "launched"
        /\ readyAge' = Old
        /\ UNCHANGED row
     \/ /\ row' = [row EXCEPT !.state = "crashed", !.ended = TRUE]
        /\ phase' = "idle"
        /\ UNCHANGED <<agent, readyAge>>
     \/ /\ phase' = "idle"
        /\ UNCHANGED <<row, agent, readyAge>>
  /\ launch' = "off"
  /\ UNCHANGED <<looking, policy, sent, reply, serving, setting, offered, settled, raced>>

StartRecords ==
  /\ phase = "launched"
  /\ row' = [row EXCEPT !.state = "running", !.known = TRUE]
  /\ phase' = "idle"
  /\ UNCHANGED <<launch, looking, policy, agent, sent, reply, serving, setting, history>>

\* stop, or the first half of restart.
StopSignals ==
  /\ phase = "idle"
  /\ row.known /\ agent.alive
  /\ \E state \in {"stopping", "restarting"} :
       row' = [row EXCEPT !.state = state, !.expected = FALSE]
  /\ phase' = "stopping"
  /\ UNCHANGED <<launch, looking, policy, agent, sent, reply, serving, setting, history>>

StopRecords ==
  /\ phase = "stopping"
  /\ ~agent.alive
  /\ row' = [row EXCEPT !.state = "offline", !.ended = TRUE]
  /\ phase' = "idle"
  /\ UNCHANGED <<launch, looking, policy, agent, sent, reply, serving, setting, history>>

\* A tick: ages grow in the rows, loaded and stored, and in the messages.
AgedRow(r) == [r EXCEPT !.lastSent = Older(@), !.lastHeard = Older(@)]
AgedMessage(m) == [m EXCEPT !.age = Older(@)]

Tick ==
  /\ row' = AgedRow(row)
  /\ sent' = {AgedMessage(m) : m \in sent}
  /\ serving' = IF serving = Idle THEN Idle
                ELSE [serving EXCEPT !.msg = AgedMessage(@), !.now = Older(@)]
  /\ looking' = IF looking = Idle THEN Idle ELSE [looking EXCEPT !.row = AgedRow(@)]
  /\ agent' = [agent EXCEPT !.rested = TRUE]
  /\ readyAge' = IF agent.alive /\ agent.link = "ready" THEN 0 ELSE Older(readyAge)
  /\ UNCHANGED <<policy, reply, setting, phase, launch, offered, settled, raced>>

-------------------------------------------------------------------------------
Init ==
  /\ row = [NewRow EXCEPT !.state = "none", !.expected = FALSE]
  /\ policy = [enabled |-> "off", applied |-> "unset"]
  /\ agent = [alive |-> FALSE, link |-> "down", gate |-> "off",
              waiting |-> FALSE, rested |-> TRUE]
  /\ sent = {}
  /\ reply = "none"
  /\ serving = Idle /\ looking = Idle /\ setting = Idle
  /\ phase = "idle"
  /\ launch = "off"
  /\ readyAge = Old
  /\ offered = {}
  /\ settled = FALSE
  /\ raced = FALSE

Agent      == LinkChanges \/ AgentSends \/ AgentLearns \/ AgentGivesUp \/ BotDies
Accept     == AcceptRejects \/ AcceptReads \/ AcceptReadsPolicy \/ AcceptCommits
Set        == SetReads \/ SetCommits
Status     == StatusReads \/ StatusCommits
Supervise  == StartInserts \/ StartReadsPolicy \/ StartLaunches \/ StartRecords
              \/ StopSignals \/ StopRecords

Next == Agent \/ MessageLost \/ Accept \/ Set \/ Status \/ Supervise \/ Tick

Spec == Init /\ [][Next]_vars

-------------------------------------------------------------------------------
TypeOK ==
  /\ row \in Rows
  /\ policy \in Policies
  /\ agent \in Agents
  /\ sent \in SUBSET Messages
  /\ reply \in Switch \cup {"none", "rejected"}
  /\ serving \in Servings \cup {Idle}
  /\ looking \in Lookings \cup {Idle}
  /\ setting \in Settings \cup {Idle}
  /\ phase \in {"idle", "inserted", "configured", "launched", "stopping"}
  /\ launch \in Switch
  /\ readyAge \in Ages
  /\ offered \in SUBSET Switch
  /\ settled \in BOOLEAN
  /\ raced \in BOOLEAN

\* A bot shown as online (or in maintenance) has been ready no longer ago than
\* the freshness limit and the clock skew together, whatever is delayed,
\* reordered, lost or left of older generations, and its process is alive.
OnlineIsRecent ==
  [][StatusCommits /\ Shown \in {"online", "maintenance"}
       => agent.alive /\ looking.current /\ readyAge <= Timeout + Skew]_vars

\* The dashboard shows the policy as applied only when the live bot's gate has it:
\* a late heartbeat of an earlier gate, or of an earlier generation, never makes
\* a policy look applied.  Excepted is an enable or disable that overlaps the
\* handling of a heartbeat, until the next of either.
TruthfulUnlessRaced ==
  (/\ serving = Idle /\ setting = Idle /\ ~raced
   /\ agent.alive
   /\ policy.applied = policy.enabled)
    => agent.gate = policy.enabled

\* No command-open window: the gate of a launched bot is the policy from its first
\* instant and through every lost or late answer, as long as the policy stays.
GateFromLaunch ==
  settled /\ agent.alive => agent.gate = policy.enabled

\* The gate only moves to a value that the policy had since the request was sent:
\* the answer to a request given up on is never applied.
GateFollowsPolicy ==
  [][agent.alive /\ agent'.alive /\ agent'.gate # agent.gate
       => agent'.gate \in offered]_vars

\* The agent has one request out, and of it either the message, the session or
\* the answer.
RequestInv ==
  /\ agent.waiting => agent.alive
  /\ reply # "none" => agent.waiting
  /\ \A m \in sent : m.awaited =>
       /\ agent.waiting /\ reply = "none"
       /\ \A n \in sent : n.awaited => n = m
  /\ serving # Idle /\ serving.msg.awaited =>
       /\ agent.waiting /\ reply = "none"
       /\ \A m \in sent : ~m.awaited

\* What is on its way to the agent is a policy offered since its request.
OfferedInv ==
  /\ agent.waiting => policy.enabled \in offered
  /\ reply \in Switch => reply \in offered
  /\ serving.step = "policy" /\ serving.msg.awaited => serving.enabled \in offered

\* While the policy is as it was when the generation was created, the gate has it
\* and nothing on its way says otherwise.
SettledInv ==
  /\ phase \in {"inserted", "configured"} => ~agent.alive
  /\ settled =>
       /\ agent.alive => agent.gate = policy.enabled
       /\ reply \in Switch => reply = policy.enabled
       /\ serving.step = "policy" /\ serving.msg.awaited => serving.enabled = policy.enabled
       /\ phase = "configured" => launch = policy.enabled

PolicyInv == RequestInv /\ OfferedInv /\ SettledInv

\* What says "ready" is no older than the bot's last being ready, and a row has
\* been heard of within the skew of its last message.
SentAge ==
  /\ agent.alive /\ agent.link = "ready" => readyAge = 0
  /\ \A m \in sent : m.current /\ m.link = "ready" => readyAge <= m.age
ServingAge ==
  serving # Idle /\ serving.msg.current =>
    /\ serving.msg.link = "ready" => readyAge <= serving.msg.age
    /\ serving.msg.age <= serving.now + Skew
    /\ row.ready => serving.ready
RowAge ==
  /\ row.ready => readyAge <= row.lastSent
  /\ row.lastSent <= row.lastHeard + Skew
LookingAge ==
  looking # Idle /\ looking.current /\ looking.row.ready =>
    readyAge <= looking.row.lastHeard + Skew

\* Before the launch nothing speaks for the new generation.
Unlaunched ==
  phase \in {"inserted", "configured"} =>
    /\ ~row.ready
    /\ \A m \in sent : ~m.current
    /\ serving # Idle => ~serving.msg.current
    /\ looking # Idle /\ looking.current => ~looking.row.ready

AgeInv == SentAge /\ ServingAge /\ RowAge /\ LookingAge /\ Unlaunched

\* What awaits an answer was sent last, by the current bot.
YoungestInv ==
  /\ \A m \in sent : m.awaited =>
       m.current /\ \A n \in sent : m.age <= n.age
  /\ serving # Idle /\ serving.msg.awaited =>
       serving.msg.current /\ \A n \in sent : serving.msg.age <= n.age

\* A message that could still be accepted was sent with the gate of now, and no
\* policy is on its way to the agent: of what it has learned from, it is not older.
Telling(m) == agent.alive => m.gate = agent.gate /\ reply \notin Switch
GateInv ==
  /\ \A m \in sent : m.current /\ m.age < row.lastSent => Telling(m)
  /\ serving # Idle /\ serving.msg.current =>
       serving.msg.age <= row.lastSent /\ Telling(serving.msg)

\* A session that has not been raced holds the policy as it is, and a heartbeat of
\* an earlier generation is served only while the policy is settled.
ServingTruth ==
  serving # Idle /\ ~raced =>
    /\ serving.step = "policy" =>
         serving.enabled = policy.enabled /\ serving.applied = policy.applied
    /\ ~serving.msg.current => settled
SettingTruth ==
  setting # Idle /\ ~raced => setting.applied = policy.applied

\* A policy that looks applied is in the gate, in the answer on its way to it, and
\* in the launch in progress.
AppliedTruth ==
  serving = Idle /\ setting = Idle /\ ~raced /\ policy.applied = policy.enabled =>
    /\ agent.alive => agent.gate = policy.enabled
    /\ reply \in Switch => reply = policy.enabled
    /\ phase = "configured" => launch = policy.enabled

RaceInv  == ServingTruth /\ SettingTruth /\ AppliedTruth
TruthInv == YoungestInv /\ GateInv /\ RaceInv

\* The inductive invariant.
IInv == TypeOK /\ PolicyInv /\ AgeInv /\ TruthInv

\* Once the policy stays and the bot lives, answers that keep arriving bring gate,
\* policy and the state shown as applied together for good.
Converges ==
  <>[](agent.alive /\ setting = Idle) /\ []<><<AgentLearns>>_vars
    => <>[](agent.gate = policy.enabled /\ policy.applied = policy.enabled)

\* The policy, what the bot does and what is shown as applied agree, and nothing that
\* is handled says otherwise.
Converged ==
  /\ agent.alive /\ setting = Idle
  /\ agent.gate = policy.enabled /\ policy.applied = policy.enabled
  /\ reply \in Switch => reply = policy.enabled
  /\ serving # Idle =>
       /\ serving.msg.current
       /\ serving.step = "policy" => serving.enabled = policy.enabled

\* What has converged stays so until the bot ends or the policy is set again: no late
\* message, of this generation or another, takes it back (heartbeat.py 65-84).
ConvergedStays ==
  [][Converged /\ agent'.alive /\ setting' = Idle => Converged']_vars
===============================================================================
