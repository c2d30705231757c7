--------------------------- MODULE HeartbeatProofs ---------------------------
(***************************************************************************)
(* Proofs about Heartbeat, for every choice of its limits: its types, the  *)
(* gate's agreement with the policy, the age of what is shown online, and  *)
(* that a policy shown as applied is in the gate.                          *)
(***************************************************************************)
EXTENDS Heartbeat, TLAPS

USE LimitsAssumption, EnvironmentAssumption

-------------------------------------------------------------------------------
\* Types.

LEMMA OldIsAge == Old \in Ages /\ 0 \in Ages
BY DEF Old, Ages

LEMMA OlderIsAge == ASSUME NEW a \in Ages PROVE Older(a) \in Ages
BY DEF Older, Ages, Old

LEMMA InitTyped == Init => TypeOK
<1> SUFFICES ASSUME Init PROVE TypeOK
  OBVIOUS
<1> USE DEF Init
<1>1. row \in Rows
  BY OldIsAge DEF NewRow, Rows, States
<1>2. policy \in Policies /\ agent \in Agents
  BY DEF Policies, Agents, Switch, Applied, Links
<1>3. launch \in Switch
  BY DEF Switch
<1>. QED
  BY <1>1, <1>2, <1>3, OldIsAge DEF TypeOK

LEMMA AgentTyped == ASSUME TypeOK, Agent PROVE TypeOK'
<1>1. CASE LinkChanges
  <2>1. readyAge' \in Ages
    BY <1>1, OldIsAge DEF LinkChanges, TypeOK
  <2>2. agent' \in Agents
    BY <1>1 DEF LinkChanges, TypeOK, Agents
  <2>. QED
    BY <1>1, <2>1, <2>2 DEF LinkChanges, TypeOK, supervision
<1>2. CASE AgentSends
  <2>1. [age |-> 0, link |-> agent.link, gate |-> agent.gate,
         awaited |-> TRUE, current |-> TRUE] \in Messages
    BY OldIsAge DEF TypeOK, Messages, Agents
  <2>2. agent' \in Agents
    BY <1>2 DEF AgentSends, TypeOK, Agents
  <2>3. offered' \in SUBSET Switch
    BY <1>2 DEF AgentSends, TypeOK, Policies
  <2>. QED
    BY <1>2, <2>1, <2>2, <2>3 DEF AgentSends, TypeOK, supervision
<1>3. CASE AgentLearns
  <2>1. agent' \in Agents
    BY <1>3 DEF AgentLearns, TypeOK, Agents
  <2>. QED
    BY <1>3, <2>1 DEF AgentLearns, TypeOK, supervision
<1>4. ASSUME NEW m \in Messages PROVE GivenUp(m) \in Messages
  BY DEF GivenUp, Messages
<1>5. ASSUME serving' = InServing(GivenUp) PROVE serving' \in Servings \cup {Idle}
  BY <1>4, <1>5 DEF TypeOK, InServing, Servings
<1>6. CASE AgentGivesUp
  <2>1. agent' \in Agents
    BY <1>6 DEF AgentGivesUp, TypeOK, Agents
  <2>. QED
    BY <1>4, <1>5, <1>6, <2>1 DEF AgentGivesUp, TypeOK, supervision
<1>7. CASE BotDies
  <2>1. agent' \in Agents
    BY <1>7 DEF BotDies, TypeOK, Agents
  <2>. QED
    BY <1>4, <1>5, <1>7, <2>1 DEF BotDies, TypeOK, supervision
<1>. QED
  BY <1>1, <1>2, <1>3, <1>6, <1>7 DEF Agent

LEMMA AcceptTyped == ASSUME TypeOK, Accept PROVE TypeOK'
<1>1. CASE AcceptRejects
  BY <1>1 DEF AcceptRejects, TypeOK, supervision, history
<1>2. CASE AcceptReads
  <2>1. PICK m \in sent :
          /\ sent' = sent \ {m}
          /\ serving' = [step |-> "row", msg |-> m, now |-> 0,
                         connected |-> row.connected, ready |-> row.ready,
                         enabled |-> "off", applied |-> "unset"]
    BY <1>2 DEF AcceptReads
  <2>2. m \in Messages
    BY DEF TypeOK
  <2>3. row.connected \in BOOLEAN /\ row.ready \in BOOLEAN
    BY DEF TypeOK, Rows
  <2>4. serving' \in Servings
    BY <2>1, <2>2, <2>3, OldIsAge DEF Servings, Switch, Applied
  <2>. QED
    BY <1>2, <2>1, <2>4 DEF AcceptReads, TypeOK, supervision
<1>3. CASE AcceptReadsPolicy
  <2>1. serving \in Servings
    BY <1>3 DEF AcceptReadsPolicy, TypeOK, Idle
  <2>2. serving' \in Servings
    BY <1>3, <2>1 DEF AcceptReadsPolicy, TypeOK, Servings, Policies
  <2>. QED
    BY <1>3, <2>2 DEF AcceptReadsPolicy, TypeOK, supervision, history
<1>4. CASE AcceptCommits
  <2>1. serving \in Servings
    BY <1>4 DEF AcceptCommits, TypeOK, Idle
  <2>2. row' \in Rows
    BY <1>4, <2>1 DEF AcceptCommits, TypeOK, Servings, Messages, Rows, Column
  <2>3. policy' \in Policies
    BY <1>4, <2>1 DEF AcceptCommits, TypeOK, Servings, Messages, Column, Policies, Applied, Switch
  <2>4. reply' \in Switch \cup {"none", "rejected"} /\ serving' = Idle /\ raced' \in BOOLEAN
    BY <1>4, <2>1 DEF AcceptCommits, TypeOK, Servings
  <2>. QED
    BY <1>4, <2>2, <2>3, <2>4 DEF AcceptCommits, TypeOK
<1>. QED
  BY <1>1, <1>2, <1>3, <1>4 DEF Accept

LEMMA SetTyped == ASSUME TypeOK, Set PROVE TypeOK'
<1>1. CASE SetReads
  <2>1. setting' \in Settings
    BY <1>1 DEF SetReads, TypeOK, Policies, Settings
  <2>. QED
    BY <1>1, <2>1 DEF SetReads, TypeOK, supervision
<1>2. CASE SetCommits
  <2>1. policy' \in Policies
    BY <1>2 DEF SetCommits, TypeOK, Column, Policies, Settings, Applied
  <2>2. offered' \in SUBSET Switch
    BY <1>2, <2>1 DEF SetCommits, TypeOK, Policies
  <2>. QED
    BY <1>2, <2>1, <2>2 DEF SetCommits, TypeOK, supervision
<1>. QED
  BY <1>1, <1>2 DEF Set

LEMMA ReconciledTyped == ASSUME NEW r \in Rows PROVE Reconciled(r) \in Rows
BY DEF Reconciled, Rows, States

LEMMA StatusTyped == ASSUME TypeOK, Status PROVE TypeOK'
<1>1. CASE StatusReads
  <2>1. [row EXCEPT !.lastSent = Old] \in Rows
    BY OldIsAge DEF TypeOK, Rows
  <2>. QED
    BY <1>1, <2>1 DEF StatusReads, TypeOK, history, Lookings
<1>2. CASE StatusCommits
  <2>1. looking.row \in Rows
    BY <1>2 DEF StatusCommits, TypeOK, Lookings
  <2>2. Reconciled(looking.row) \in Rows
    BY <2>1, ReconciledTyped
  <2>3. ASSUME ~looking.current PROVE row' \in Rows
    BY <1>2, <2>3 DEF StatusCommits, TypeOK
  <2>4. ASSUME looking.current PROVE row' \in Rows
    <3> DEFINE old == looking.row
               new == Reconciled(looking.row)
    <3>1. row' = [row EXCEPT !.state     = Column(old.state, new.state, @),
                             !.ended     = Column(old.ended, new.ended, @),
                             !.connected = Column(old.connected, new.connected, @),
                             !.ready     = Column(old.ready, new.ready, @)]
      BY <1>2, <2>4 DEF StatusCommits
    <3>2. old \in Rows /\ new \in Rows
      BY <2>1, <2>2
    <3> HIDE DEF old, new
    <3>. QED
      BY <3>1, <3>2 DEF TypeOK, Column, Rows
  <2>5. row' \in Rows
    BY <2>3, <2>4 DEF TypeOK
  <2>. QED
    BY <1>2, <2>5 DEF StatusCommits, TypeOK, history
<1>. QED
  BY <1>1, <1>2 DEF Status

LEMMA SuperviseTyped == ASSUME TypeOK, Supervise PROVE TypeOK'
<1>1. CASE StartInserts
  <2>1. NewRow \in Rows
    BY OldIsAge DEF NewRow, Rows, States
  <2>2. ASSUME NEW m \in Messages PROVE Superseded(m) \in Messages
    BY DEF Superseded, Messages
  <2>3. serving' \in Servings \cup {Idle}
    BY <1>1, <2>2 DEF StartInserts, TypeOK, InServing, Servings
  <2>4. looking' \in Lookings \cup {Idle}
    BY <1>1 DEF StartInserts, TypeOK, Lookings
  <2>. QED
    BY <1>1, <2>1, <2>2, <2>3, <2>4 DEF StartInserts, TypeOK
<1>2. CASE StartReadsPolicy
  BY <1>2 DEF StartReadsPolicy, TypeOK, history, Policies
<1>3. CASE StartLaunches
  <2>1. row' \in Rows /\ readyAge' \in Ages
    <3>1. [row EXCEPT !.state = "crashed", !.ended = TRUE] \in Rows
      BY DEF TypeOK, Rows, States
    <3>. QED
      BY <1>3, <3>1, OldIsAge DEF StartLaunches, TypeOK
  <2>2. agent' \in Agents /\ launch' \in Switch
    <3>1. [alive |-> TRUE, link |-> "down", gate |-> launch,
           waiting |-> FALSE, rested |-> TRUE] \in Agents
      BY DEF TypeOK, Agents, Links
    <3>2. "off" \in Switch
      BY DEF Switch
    <3>. QED
      BY <1>3, <3>1, <3>2 DEF StartLaunches, TypeOK
  <2>. QED
    BY <1>3, <2>1, <2>2 DEF StartLaunches, TypeOK
<1>4. CASE StartRecords
  <2>1. row' \in Rows
    BY <1>4 DEF StartRecords, TypeOK, Rows, States
  <2>. QED
    BY <1>4, <2>1 DEF StartRecords, TypeOK, history
<1>5. CASE StopSignals
  <2>1. row' \in Rows
    BY <1>5 DEF StopSignals, TypeOK, Rows, States
  <2>. QED
    BY <1>5, <2>1 DEF StopSignals, TypeOK, history
<1>6. CASE StopRecords
  <2>1. row' \in Rows
    BY <1>6 DEF StopRecords, TypeOK, Rows, States
  <2>. QED
    BY <1>6, <2>1 DEF StopRecords, TypeOK, history
<1>. QED
  BY <1>1, <1>2, <1>3, <1>4, <1>5, <1>6 DEF Supervise

LEMMA TickTyped == ASSUME TypeOK, Tick PROVE TypeOK'
<1>1. ASSUME NEW r \in Rows PROVE AgedRow(r) \in Rows
  BY OlderIsAge DEF AgedRow, Rows
<1>2. ASSUME NEW m \in Messages PROVE AgedMessage(m) \in Messages
  BY OlderIsAge DEF AgedMessage, Messages
<1>3. sent' \in SUBSET Messages
  BY <1>2 DEF Tick, TypeOK
<1>4. serving' \in Servings \cup {Idle}
  BY <1>2, OlderIsAge DEF Tick, TypeOK, Servings
<1>5. looking' \in Lookings \cup {Idle}
  BY <1>1 DEF Tick, TypeOK, Lookings
<1>6. row' \in Rows /\ readyAge' \in Ages
  BY <1>1, OlderIsAge, OldIsAge DEF Tick, TypeOK
<1>7. agent' \in Agents
  BY DEF Tick, TypeOK, Agents
<1>. QED
  BY <1>3, <1>4, <1>5, <1>6, <1>7 DEF Tick, TypeOK

LEMMA NextTyped == ASSUME TypeOK, [Next]_vars PROVE TypeOK'
<1>1. CASE MessageLost
  BY <1>1 DEF MessageLost, TypeOK, supervision, history
<1>2. CASE UNCHANGED vars
  BY <1>2 DEF TypeOK, vars
<1>. QED
  BY <1>1, <1>2, AgentTyped, AcceptTyped, SetTyped, StatusTyped, SuperviseTyped, TickTyped
     DEF Next

-------------------------------------------------------------------------------
\* The gate and the policy.

LEMMA InitPolicy == Init => PolicyInv
BY DEF Init, PolicyInv, RequestInv, OfferedInv, SettledInv, Idle, Switch

LEMMA IdleStep == Idle.step = "idle"
BY DEF Idle

\* Giving up leaves nothing awaited.
LEMMA GivenUpAwaited ==
  ASSUME TypeOK, sent' = {GivenUp(m) : m \in sent}, serving' = InServing(GivenUp)
  PROVE  /\ \A m \in sent' : ~m.awaited
         /\ serving' # Idle => ~serving'.msg.awaited
<1>1. ASSUME NEW m \in Messages PROVE ~GivenUp(m).awaited
  BY DEF GivenUp, Messages
<1>2. ASSUME serving # Idle PROVE serving'.msg = GivenUp(serving.msg) /\ serving.msg \in Messages
  BY <1>2 DEF InServing, TypeOK, Servings
<1>3. serving = Idle => serving' = Idle
  BY DEF InServing
<1>. QED
  BY <1>1, <1>2, <1>3 DEF TypeOK

LEMMA SupersededAwaited ==
  ASSUME TypeOK, sent' = {Superseded(m) : m \in sent}, serving' = InServing(Superseded)
  PROVE  /\ \A m \in sent' : ~m.awaited /\ ~m.current
         /\ serving' # Idle => ~serving'.msg.awaited /\ ~serving'.msg.current
<1>1. ASSUME NEW m \in Messages PROVE ~Superseded(m).awaited /\ ~Superseded(m).current
  BY DEF Superseded, Messages
<1>2. ASSUME serving # Idle PROVE serving'.msg = Superseded(serving.msg) /\ serving.msg \in Messages
  BY <1>2 DEF InServing, TypeOK, Servings
<1>3. serving = Idle => serving' = Idle
  BY DEF InServing
<1>. QED
  BY <1>1, <1>2, <1>3 DEF TypeOK

\* A step after which no request is out and the gate is as it was, or dead.
LEMMA NothingAwaited ==
  ASSUME TypeOK, PolicyInv,
         ~agent'.waiting, reply' = "none",
         \A m \in sent' : ~m.awaited,
         serving' # Idle => ~serving'.msg.awaited,
         phase' \in {"inserted", "configured"} => ~agent'.alive,
         settled' /\ agent'.alive => agent'.gate = policy'.enabled,
         settled' /\ phase' = "configured" => launch' = policy'.enabled
  PROVE  PolicyInv'
<1>1. "none" \notin Switch /\ Idle.step # "policy"
  BY IdleStep DEF Switch
<1>2. RequestInv'
  BY DEF RequestInv
<1>3. OfferedInv'
  BY <1>1 DEF OfferedInv
<1>4. SettledInv'
  BY <1>1 DEF SettledInv
<1>. QED
  BY <1>2, <1>3, <1>4 DEF PolicyInv

LEMMA AgentPolicy == ASSUME TypeOK, PolicyInv, Agent PROVE PolicyInv'
<1> USE DEF PolicyInv
<1>1. CASE LinkChanges
  <2>1. /\ agent'.alive = agent.alive /\ agent'.gate = agent.gate
        /\ agent'.waiting = agent.waiting
    BY <1>1 DEF LinkChanges, TypeOK, Agents
  <2>2. UNCHANGED <<policy, sent, reply, serving, phase, launch, offered, settled>>
    BY <1>1 DEF LinkChanges, supervision
  <2>. QED
    BY <2>1, <2>2 DEF RequestInv, OfferedInv, SettledInv
<1>2. CASE AgentSends
  <2>1. /\ agent'.alive = agent.alive /\ agent'.gate = agent.gate
        /\ agent'.waiting /\ agent.alive /\ ~agent.waiting
    BY <1>2 DEF AgentSends, TypeOK, Agents
  <2>2. /\ sent' = sent \cup {[age |-> 0, link |-> agent.link, gate |-> agent.gate,
                              awaited |-> TRUE, current |-> TRUE]}
        /\ offered' = {policy.enabled}
        /\ UNCHANGED <<policy, reply, serving, phase, settled, launch>>
    BY <1>2 DEF AgentSends, supervision
  <2>3. /\ reply = "none" /\ "none" \notin Switch
        /\ \A m \in sent : ~m.awaited
        /\ serving # Idle => ~serving.msg.awaited
    BY <2>1 DEF RequestInv, Switch
  <2>4. RequestInv'
    BY <2>1, <2>2, <2>3 DEF RequestInv
  <2>5. OfferedInv'
    BY <2>1, <2>2, <2>3, IdleStep DEF OfferedInv
  <2>6. SettledInv'
    BY <2>1, <2>2, <2>3 DEF SettledInv
  <2>. QED
    BY <2>4, <2>5, <2>6
<1>3. CASE AgentLearns
  <2>1. /\ agent'.alive = agent.alive /\ agent'.gate = reply /\ ~agent'.waiting
        /\ reply \in Switch /\ reply' = "none" /\ reply # "none"
    BY <1>3 DEF AgentLearns, TypeOK, Agents, Switch
  <2>2. UNCHANGED <<policy, sent, serving, phase, settled, launch>>
    BY <1>3 DEF AgentLearns, supervision
  <2>3. /\ \A m \in sent : ~m.awaited
        /\ serving # Idle => ~serving.msg.awaited
    BY <2>1 DEF RequestInv
  <2>. QED
    BY <2>1, <2>2, <2>3, NothingAwaited DEF SettledInv
<1>4. CASE AgentGivesUp
  <2>1. /\ agent'.alive = agent.alive /\ agent'.gate = agent.gate /\ ~agent'.waiting
        /\ reply' = "none"
        /\ UNCHANGED <<policy, phase, settled, launch>>
    BY <1>4 DEF AgentGivesUp, TypeOK, Agents, supervision
  <2>2. /\ \A m \in sent' : ~m.awaited
        /\ serving' # Idle => ~serving'.msg.awaited
    BY <1>4, GivenUpAwaited DEF AgentGivesUp
  <2>. QED
    BY <2>1, <2>2, NothingAwaited DEF SettledInv
<1>5. CASE BotDies
  <2>1. /\ ~agent'.alive /\ ~agent'.waiting /\ reply' = "none"
        /\ UNCHANGED <<policy, phase, settled, launch>>
    BY <1>5 DEF BotDies, TypeOK, Agents, supervision
  <2>. QED
    BY <1>5, <2>1, GivenUpAwaited, NothingAwaited DEF SettledInv, BotDies
<1>. QED
  BY <1>1, <1>2, <1>3, <1>4, <1>5 DEF Agent

LEMMA AcceptPolicy == ASSUME TypeOK, PolicyInv, Accept PROVE PolicyInv'
<1> USE DEF PolicyInv
<1>1. CASE AcceptRejects
  <2>1. PICK m \in sent :
          /\ sent' = sent \ {m}
          /\ reply' = IF m.awaited THEN "rejected" ELSE reply
    BY <1>1 DEF AcceptRejects
  <2>2. serving = Idle /\ UNCHANGED <<agent, policy, serving, phase, launch, offered, settled>>
    BY <1>1 DEF AcceptRejects, supervision, history
  <2>3. RequestInv'
    BY <2>1, <2>2 DEF RequestInv
  <2>4. OfferedInv' /\ SettledInv'
    BY <2>1, <2>2 DEF OfferedInv, SettledInv, Switch
  <2>. QED
    BY <2>3, <2>4
<1>2. CASE AcceptReads
  <2>1. PICK m \in sent :
          /\ sent' = sent \ {m}
          /\ serving' = [step |-> "row", msg |-> m, now |-> 0,
                         connected |-> row.connected, ready |-> row.ready,
                         enabled |-> "off", applied |-> "unset"]
    BY <1>2 DEF AcceptReads
  <2>2. UNCHANGED <<agent, policy, reply, phase, launch, offered, settled>>
    BY <1>2 DEF AcceptReads, supervision
  <2>3. serving'.step = "row" /\ serving'.msg = m
    BY <2>1
  <2>4. RequestInv'
    BY <2>1, <2>2, <2>3 DEF RequestInv
  <2>5. OfferedInv' /\ SettledInv'
    BY <2>2, <2>3 DEF OfferedInv, SettledInv
  <2>. QED
    BY <2>4, <2>5
<1>3. CASE AcceptReadsPolicy
  <2>1. serving # Idle /\ serving \in Servings
    BY <1>3, IdleStep DEF AcceptReadsPolicy, TypeOK
  <2>2. serving'.msg = serving.msg /\ serving'.enabled = policy.enabled
    BY <1>3, <2>1 DEF AcceptReadsPolicy, Servings
  <2>3. UNCHANGED <<agent, policy, sent, reply, offered, phase, settled, launch>>
    BY <1>3 DEF AcceptReadsPolicy, history, supervision
  <2>4. RequestInv'
    BY <2>1, <2>2, <2>3 DEF RequestInv
  <2>5. OfferedInv'
    BY <2>1, <2>2, <2>3 DEF OfferedInv, RequestInv
  <2>6. SettledInv'
    BY <2>1, <2>2, <2>3 DEF SettledInv
  <2>. QED
    BY <2>4, <2>5, <2>6
<1>4. CASE AcceptCommits
  <2>1. serving # Idle /\ serving' = Idle /\ serving'.step # "policy"
    BY <1>4, IdleStep DEF AcceptCommits
  <2>2. policy'.enabled = policy.enabled
    BY <1>4 DEF AcceptCommits, TypeOK, Policies
  <2>3. /\ reply' = IF serving.msg.awaited THEN serving.enabled ELSE reply
        /\ UNCHANGED <<agent, sent, phase, launch, offered, settled>>
    BY <1>4 DEF AcceptCommits
  <2>4. RequestInv'
    BY <2>1, <2>3 DEF RequestInv
  <2>5. OfferedInv' /\ SettledInv'
    BY <1>4, <2>1, <2>2, <2>3 DEF OfferedInv, SettledInv, AcceptCommits
  <2>. QED
    BY <2>4, <2>5
<1>. QED
  BY <1>1, <1>2, <1>3, <1>4 DEF Accept

LEMMA SetPolicy == ASSUME TypeOK, PolicyInv, Set PROVE PolicyInv'
<1> USE DEF PolicyInv
<1>1. CASE SetReads
  <2>1. UNCHANGED <<agent, policy, sent, reply, serving, phase, launch, offered, settled>>
    BY <1>1 DEF SetReads, supervision
  <2>. QED
    BY <2>1 DEF RequestInv, OfferedInv, SettledInv
<1>2. CASE SetCommits
  <2>1. /\ offered' = IF agent.waiting THEN offered \cup {policy'.enabled} ELSE {}
        /\ settled' = FALSE
        /\ UNCHANGED <<agent, sent, reply, serving, phase, launch>>
    BY <1>2 DEF SetCommits, supervision
  <2>2. RequestInv'
    BY <2>1 DEF RequestInv
  <2>3. OfferedInv'
    BY <2>1, IdleStep DEF OfferedInv, RequestInv, Switch
  <2>4. SettledInv'
    BY <2>1 DEF SettledInv
  <2>. QED
    BY <2>2, <2>3, <2>4
<1>. QED
  BY <1>1, <1>2 DEF Set

LEMMA SupervisePolicy == ASSUME TypeOK, PolicyInv, Supervise PROVE PolicyInv'
<1> USE DEF PolicyInv
<1>1. ASSUME UNCHANGED <<agent, policy, sent, reply, serving, offered, settled>>,
             phase' \in {"inserted", "configured"} => ~agent.alive,
             settled /\ phase' = "configured" => launch' = policy.enabled
      PROVE  PolicyInv'
  BY <1>1 DEF RequestInv, OfferedInv, SettledInv
<1>2. CASE StartInserts
  <2>1. /\ ~agent.alive /\ phase' = "inserted"
        /\ sent' = {Superseded(m) : m \in sent} /\ serving' = InServing(Superseded)
        /\ UNCHANGED <<agent, reply>>
    BY <1>2 DEF StartInserts
  <2>2. ~agent.waiting /\ reply = "none"
    BY <2>1 DEF RequestInv
  <2>. QED
    BY <2>1, <2>2, SupersededAwaited, NothingAwaited
<1>3. CASE StartReadsPolicy
  BY <1>1, <1>3 DEF StartReadsPolicy, SettledInv, history
<1>4. CASE StartLaunches
  <2>1. ~agent.alive /\ (settled => launch = policy.enabled)
    BY <1>4 DEF StartLaunches, SettledInv
  <2>2. /\ ~agent.waiting /\ reply = "none"
        /\ \A m \in sent : ~m.awaited
        /\ serving # Idle => ~serving.msg.awaited
    BY <2>1 DEF RequestInv
  <2>3. CASE phase' = "launched"
    <3>1. agent'.alive /\ agent'.gate = launch /\ ~agent'.waiting
      BY <1>4, <2>3 DEF StartLaunches
    <3>. QED
      BY <1>4, <2>1, <2>2, <2>3, <3>1, NothingAwaited DEF StartLaunches
  <2>4. CASE phase' = "idle"
    BY <1>4, <1>1, <2>4 DEF StartLaunches
  <2>. QED
    BY <1>4, <2>3, <2>4 DEF StartLaunches
<1>5. CASE StartRecords
  BY <1>1, <1>5 DEF StartRecords, history
<1>6. CASE StopSignals
  BY <1>1, <1>6 DEF StopSignals, history
<1>7. CASE StopRecords
  BY <1>1, <1>7 DEF StopRecords, history
<1>. QED
  BY <1>2, <1>3, <1>4, <1>5, <1>6, <1>7 DEF Supervise

LEMMA TickPolicy == ASSUME TypeOK, PolicyInv, Tick PROVE PolicyInv'
<1> USE DEF PolicyInv
<1>1. ASSUME NEW m \in Messages PROVE AgedMessage(m).awaited = m.awaited
  BY DEF AgedMessage, Messages
<1>2. sent \subseteq Messages /\ sent' = {AgedMessage(m) : m \in sent}
  BY DEF Tick, TypeOK
<1>3. serving = Idle => serving' = Idle
  BY DEF Tick
<1>4. serving # Idle =>
        /\ serving' # Idle
        /\ serving'.step = serving.step /\ serving'.enabled = serving.enabled
        /\ serving'.msg.awaited = serving.msg.awaited
  BY <1>1 DEF Tick, TypeOK, Servings, Idle
<1>5. /\ agent'.alive = agent.alive /\ agent'.waiting = agent.waiting
      /\ agent'.gate = agent.gate
      /\ UNCHANGED <<policy, reply, phase, launch, offered, settled>>
  BY DEF Tick, TypeOK, Agents
<1>6. RequestInv'
  BY <1>1, <1>2, <1>3, <1>4, <1>5 DEF RequestInv
<1>7. OfferedInv'
  BY <1>3, <1>4, <1>5, IdleStep DEF OfferedInv
<1>8. SettledInv'
  BY <1>3, <1>4, <1>5, IdleStep DEF SettledInv
<1>. QED
  BY <1>6, <1>7, <1>8

LEMMA NextPolicy == ASSUME TypeOK, PolicyInv, [Next]_vars PROVE PolicyInv'
<1>1. ASSUME UNCHANGED <<agent, policy, reply, serving, phase, launch, offered, settled>>,
             sent' \subseteq sent
      PROVE  PolicyInv'
  BY <1>1 DEF PolicyInv, RequestInv, OfferedInv, SettledInv
<1>2. CASE MessageLost
  BY <1>1, <1>2 DEF MessageLost, supervision, history
<1>3. CASE Status
  BY <1>1, <1>3 DEF Status, StatusReads, StatusCommits, history
<1>4. CASE UNCHANGED vars
  BY <1>1, <1>4 DEF vars
<1>. QED
  BY <1>2, <1>3, <1>4, AgentPolicy, AcceptPolicy, SetPolicy, SupervisePolicy, TickPolicy
     DEF Next

-------------------------------------------------------------------------------
\* The age of what is shown.

LEMMA OlderKeepsOrder ==
  ASSUME NEW a \in Ages, NEW b \in Ages, NEW d \in Nat, a <= b + d
  PROVE  Older(a) <= Older(b) + d
BY DEF Older, Ages, Old

LEMMA AgesAreNat == Ages \subseteq Nat
BY DEF Ages, Old

LEMMA InitAge == Init => AgeInv
BY AgesAreNat, OldIsAge, IdleStep
   DEF Init, AgeInv, SentAge, ServingAge, RowAge, LookingAge, Unlaunched, NewRow

\* What the parts of AgeInv need of the types.
LEMMA AgeTypes ==
  ASSUME TypeOK
  PROVE  /\ readyAge \in Nat /\ row.lastSent \in Nat /\ row.lastHeard \in Nat
         /\ \A m \in sent : m.age \in Nat
         /\ serving # Idle => serving.now \in Nat /\ serving.msg.age \in Nat
         /\ looking # Idle => looking.row.lastHeard \in Nat
BY AgesAreNat DEF TypeOK, Rows, Messages, Servings, Lookings

\* A step that changes no row, session or phase, and no age for the worse.
LEMMA AgeKept ==
  ASSUME TypeOK, AgeInv,
         UNCHANGED <<row, looking, phase>>,
         readyAge' = readyAge,
         agent'.alive => agent.alive, agent'.link = agent.link,
         serving' # Idle => /\ serving # Idle
                           /\ serving'.now = serving.now /\ serving'.ready = serving.ready
                           /\ serving'.msg.age = serving.msg.age
                           /\ serving'.msg.link = serving.msg.link
                           /\ serving'.msg.current = serving.msg.current,
         \A n \in sent' : \E m \in sent :
           n.age = m.age /\ n.link = m.link /\ n.current = m.current
  PROVE  AgeInv'
<1> USE DEF AgeInv
<1>1. SentAge'
  BY DEF SentAge
<1>2. ServingAge'
  BY DEF ServingAge
<1>3. RowAge' /\ LookingAge'
  BY DEF RowAge, LookingAge
<1>4. Unlaunched'
  BY DEF Unlaunched
<1>. QED
  BY <1>1, <1>2, <1>3, <1>4

LEMMA GivenUpKeeps ==
  ASSUME TypeOK, serving' = InServing(GivenUp)
  PROVE  /\ \A m \in sent : GivenUp(m).age = m.age /\ GivenUp(m).link = m.link
                            /\ GivenUp(m).current = m.current
         /\ serving' # Idle => /\ serving # Idle
                              /\ serving'.now = serving.now /\ serving'.ready = serving.ready
                              /\ serving'.msg.age = serving.msg.age
                              /\ serving'.msg.link = serving.msg.link
                              /\ serving'.msg.current = serving.msg.current
<1>1. ASSUME NEW m \in Messages
      PROVE  /\ GivenUp(m).age = m.age /\ GivenUp(m).link = m.link
             /\ GivenUp(m).current = m.current
  BY DEF GivenUp, Messages
<1>2. ASSUME serving # Idle
      PROVE  /\ serving'.now = serving.now /\ serving'.ready = serving.ready
             /\ serving'.msg = GivenUp(serving.msg) /\ serving.msg \in Messages
  BY <1>2 DEF InServing, TypeOK, Servings
<1>3. serving = Idle => serving' = Idle
  BY DEF InServing
<1>. QED
  BY <1>1, <1>2, <1>3 DEF TypeOK

LEMMA AgentAge == ASSUME TypeOK, PolicyInv, AgeInv, Agent PROVE AgeInv'
<1>1. CASE LinkChanges
  <2>1. /\ readyAge' <= readyAge /\ readyAge' \in Nat
        /\ agent'.link = "ready" => readyAge' = 0
        /\ agent'.alive = agent.alive
    <3>1. PICK link \in Events \ {agent.link} :
            /\ agent' = [agent EXCEPT !.link = link]
            /\ readyAge' = IF link = "ready" THEN 0 ELSE readyAge
      BY <1>1 DEF LinkChanges
    <3>2. agent'.link = link /\ agent'.alive = agent.alive
      BY <3>1 DEF TypeOK, Agents
    <3>. QED
      BY <3>1, <3>2, AgeTypes
  <2>2. UNCHANGED <<row, looking, phase, sent, serving>>
    BY <1>1 DEF LinkChanges, supervision
  <2>3. SentAge' /\ RowAge'
    BY <2>1, <2>2, AgeTypes DEF AgeInv, SentAge, RowAge
  <2>4. ServingAge' /\ LookingAge' /\ Unlaunched'
    BY <2>1, <2>2, AgeTypes DEF AgeInv, ServingAge, LookingAge, Unlaunched
  <2>. QED
    BY <2>3, <2>4 DEF AgeInv
<1>2. CASE AgentSends
  <2> DEFINE new == [age |-> 0, link |-> agent.link, gate |-> agent.gate,
                     awaited |-> TRUE, current |-> TRUE]
  <2>1. /\ agent.alive /\ agent'.alive = agent.alive /\ agent'.link = agent.link
        /\ sent' = sent \cup {new} /\ new.age = 0 /\ new.link = agent.link
        /\ UNCHANGED <<row, looking, phase, serving, readyAge>>
    BY <1>2 DEF AgentSends, TypeOK, Agents, supervision
  <2> HIDE DEF new
  <2>2. SentAge'
    BY <2>1 DEF AgeInv, SentAge
  <2>3. ServingAge' /\ RowAge' /\ LookingAge'
    BY <2>1 DEF AgeInv, ServingAge, RowAge, LookingAge
  <2>4. phase \notin {"inserted", "configured"}
    BY <2>1 DEF PolicyInv, SettledInv
  <2>. QED
    BY <2>2, <2>3, <2>4, <2>1 DEF AgeInv, Unlaunched
<1>3. CASE AgentLearns
  <2>1. agent'.alive = agent.alive /\ agent'.link = agent.link
    BY <1>3 DEF AgentLearns, TypeOK, Agents
  <2>. QED
    BY <1>3, <2>1, AgeKept DEF AgentLearns, supervision
<1>4. CASE AgentGivesUp
  <2>1. agent'.alive = agent.alive /\ agent'.link = agent.link
    BY <1>4 DEF AgentGivesUp, TypeOK, Agents
  <2>. QED
    BY <1>4, <2>1, AgeKept, GivenUpKeeps DEF AgentGivesUp, supervision
<1>5. CASE BotDies
  <2>1. ~agent'.alive /\ agent'.link = agent.link
    BY <1>5 DEF BotDies, TypeOK, Agents
  <2>2. serving' = InServing(GivenUp) /\ UNCHANGED <<row, looking, phase, readyAge>>
    BY <1>5 DEF BotDies, supervision
  <2>3. \A n \in sent' : \E m \in sent :
          n.age = m.age /\ n.link = m.link /\ n.current = m.current
    BY <1>5, <2>2, GivenUpKeeps DEF BotDies
  <2>4. agent'.alive => agent.alive
    BY <2>1
  <2>. QED
    BY <2>1, <2>2, <2>3, <2>4, AgeKept, GivenUpKeeps
<1>. QED
  BY <1>1, <1>2, <1>3, <1>4, <1>5 DEF Agent

LEMMA AcceptAge == ASSUME TypeOK, AgeInv, Accept PROVE AgeInv'
<1>1. CASE AcceptRejects
  BY <1>1, AgeKept DEF AcceptRejects, supervision, history
<1>2. CASE AcceptReads
  <2>1. PICK m \in sent :
          /\ Acceptable(m)
          /\ sent' = sent \ {m}
          /\ serving' = [step |-> "row", msg |-> m, now |-> 0,
                         connected |-> row.connected, ready |-> row.ready,
                         enabled |-> "off", applied |-> "unset"]
    BY <1>2 DEF AcceptReads
  <2>2. /\ serving'.msg = m /\ serving'.now = 0 /\ serving'.ready = row.ready
        /\ m.age <= Skew
    BY <2>1 DEF Acceptable
  <2>3. UNCHANGED <<agent, row, looking, phase, readyAge>>
    BY <1>2 DEF AcceptReads, supervision
  <2>4. ServingAge'
    BY <2>1, <2>2, <2>3, AgeTypes DEF AgeInv, SentAge, ServingAge
  <2>5. SentAge' /\ RowAge' /\ LookingAge'
    BY <2>1, <2>3 DEF AgeInv, SentAge, RowAge, LookingAge
  <2>6. Unlaunched'
    BY <2>1, <2>2, <2>3 DEF AgeInv, Unlaunched
  <2>. QED
    BY <2>4, <2>5, <2>6 DEF AgeInv
<1>3. CASE AcceptReadsPolicy
  <2>1. serving # Idle /\ serving \in Servings
    BY <1>3, IdleStep DEF AcceptReadsPolicy, TypeOK
  <2>2. /\ serving'.msg = serving.msg /\ serving'.now = serving.now
        /\ serving'.ready = serving.ready
    BY <1>3, <2>1 DEF AcceptReadsPolicy, Servings
  <2>. QED
    BY <1>3, <2>1, <2>2, AgeKept DEF AcceptReadsPolicy, supervision, history
<1>4. CASE AcceptCommits
  <2>1. serving # Idle /\ serving' = Idle /\ serving \in Servings
    BY <1>4, IdleStep DEF AcceptCommits, TypeOK
  <2>2. UNCHANGED <<agent, sent, looking, phase, readyAge>>
    BY <1>4 DEF AcceptCommits
  <2>3. CASE ~serving.msg.current
    <3>1. row' = row
      BY <1>4, <2>3 DEF AcceptCommits
    <3>. QED
      BY <2>1, <2>2, <3>1 DEF AgeInv, SentAge, ServingAge, RowAge, LookingAge, Unlaunched
  <2>4. CASE serving.msg.current
    <3>1. /\ row'.lastSent = serving.msg.age /\ row'.lastHeard = serving.now
          /\ row'.ready = Column(serving.ready, serving.msg.link = "ready", row.ready)
      BY <1>4, <2>4 DEF AcceptCommits, TypeOK, Rows
    <3>2. row'.ready => serving.msg.link = "ready"
      BY <2>1, <2>4, <3>1 DEF AgeInv, ServingAge, Column, Servings, TypeOK, Rows
    <3>3. RowAge'
      BY <2>1, <2>2, <2>4, <3>1, <3>2 DEF AgeInv, ServingAge, RowAge
    <3>4. SentAge' /\ ServingAge' /\ LookingAge'
      BY <2>1, <2>2 DEF AgeInv, SentAge, ServingAge, LookingAge
    <3>5. phase' \notin {"inserted", "configured"}
      BY <2>1, <2>2, <2>4 DEF AgeInv, Unlaunched
    <3>. QED
      BY <3>3, <3>4, <3>5 DEF AgeInv, Unlaunched
  <2>. QED
    BY <2>3, <2>4
<1>. QED
  BY <1>1, <1>2, <1>3, <1>4 DEF Accept

\* A step of the rows alone, after which the row is no more ready than before.
LEMMA RowStep ==
  ASSUME TypeOK, AgeInv,
         UNCHANGED <<agent, sent, serving, readyAge>>,
         row'.ready => row.ready,
         row'.lastSent = row.lastSent, row'.lastHeard = row.lastHeard,
         looking' # Idle /\ looking'.current /\ looking'.row.ready =>
           readyAge <= looking'.row.lastHeard + Skew,
         phase' \in {"inserted", "configured"} =>
           /\ phase \in {"inserted", "configured"}
           /\ looking' # Idle /\ looking'.current => ~looking'.row.ready
  PROVE  AgeInv'
<1> USE DEF AgeInv
<1>1. SentAge' /\ ServingAge'
  BY DEF SentAge, ServingAge
<1>2. RowAge' /\ LookingAge'
  BY DEF RowAge, LookingAge
<1>3. Unlaunched'
  BY DEF Unlaunched
<1>. QED
  BY <1>1, <1>2, <1>3

LEMMA StatusAge == ASSUME TypeOK, AgeInv, Status PROVE AgeInv'
<1>1. CASE StatusReads
  <2>1. /\ looking'.row.ready = row.ready /\ looking'.row.lastHeard = row.lastHeard
        /\ UNCHANGED <<agent, sent, serving, readyAge, row, phase>>
    BY <1>1 DEF StatusReads, history, TypeOK, Rows
  <2>2. row.ready => readyAge <= row.lastHeard + Skew
    BY AgeTypes DEF AgeInv, RowAge
  <2>. QED
    BY <2>1, <2>2, RowStep DEF AgeInv, Unlaunched
<1>2. CASE StatusCommits
  <2>1. /\ looking' = Idle
        /\ UNCHANGED <<agent, sent, serving, readyAge, phase>>
    BY <1>2 DEF StatusCommits, history
  <2>2. looking.row \in Rows
    BY <1>2 DEF StatusCommits, TypeOK, Lookings
  <2>3. ~Reconciled(looking.row).ready \/ Reconciled(looking.row).ready = looking.row.ready
    BY <2>2 DEF Reconciled, Rows
  <2>4. Reconciled(looking.row).ready \in BOOLEAN /\ looking.row.ready \in BOOLEAN
    BY <2>2, ReconciledTyped DEF Rows
  <2>5. \/ row' = row
        \/ /\ row'.ready = Column(looking.row.ready, Reconciled(looking.row).ready, row.ready)
           /\ row'.lastSent = row.lastSent /\ row'.lastHeard = row.lastHeard
    BY <1>2 DEF StatusCommits, TypeOK, Rows
  <2>6. /\ row'.ready => row.ready
        /\ row'.lastSent = row.lastSent /\ row'.lastHeard = row.lastHeard
    BY <2>3, <2>4, <2>5 DEF Column
  <2>. QED
    BY <2>1, <2>6, RowStep
<1>. QED
  BY <1>1, <1>2 DEF Status

LEMMA SuperviseAge == ASSUME TypeOK, PolicyInv, AgeInv, Supervise PROVE AgeInv'
<1>1. ASSUME UNCHANGED <<agent, sent, serving, readyAge, looking>>,
             row'.ready = row.ready,
             row'.lastSent = row.lastSent, row'.lastHeard = row.lastHeard,
             phase' \in {"inserted", "configured"} => phase \in {"inserted", "configured"}
      PROVE  AgeInv'
  BY <1>1, RowStep DEF AgeInv, LookingAge, Unlaunched
<1>2. CASE StartInserts
  <2>1. /\ ~agent'.alive /\ ~row'.ready
        /\ row'.lastSent = Old /\ row'.lastHeard = Old
        /\ looking' # Idle => ~looking'.current
    BY <1>2 DEF StartInserts, NewRow, TypeOK, Lookings
  <2>2. /\ \A m \in sent' : ~m.current
        /\ serving' # Idle => ~serving'.msg.current
    BY <1>2, SupersededAwaited DEF StartInserts
  <2>3. Old \in Nat
    BY OldIsAge, AgesAreNat
  <2>. QED
    BY <2>1, <2>2, <2>3 DEF AgeInv, SentAge, ServingAge, RowAge, LookingAge, Unlaunched
<1>3. CASE StartReadsPolicy
  BY <1>1, <1>3 DEF StartReadsPolicy, history
<1>4. CASE StartLaunches
  <2>1. /\ ~row.ready
        /\ \A m \in sent : ~m.current
        /\ serving # Idle => ~serving.msg.current
        /\ looking # Idle /\ looking.current => ~looking.row.ready
    BY <1>4 DEF StartLaunches, AgeInv, Unlaunched
  <2>2. CASE phase' = "launched"
    <3>1. row' = row /\ agent'.link = "down"
      BY <1>4, <2>2 DEF StartLaunches
    <3>2. UNCHANGED <<sent, serving, looking>>
      BY <1>4 DEF StartLaunches
    <3>. QED
      BY <2>1, <2>2, <3>1, <3>2 DEF AgeInv, SentAge, ServingAge, RowAge, LookingAge, Unlaunched
  <2>3. CASE phase' = "idle"
    BY <1>1, <1>4, <2>3 DEF StartLaunches, TypeOK, Rows
  <2>. QED
    BY <1>4, <2>2, <2>3 DEF StartLaunches
<1>5. CASE StartRecords
  BY <1>1, <1>5 DEF StartRecords, history, TypeOK, Rows
<1>6. CASE StopSignals
  BY <1>1, <1>6 DEF StopSignals, history, TypeOK, Rows
<1>7. CASE StopRecords
  BY <1>1, <1>7 DEF StopRecords, history, TypeOK, Rows
<1>. QED
  BY <1>2, <1>3, <1>4, <1>5, <1>6, <1>7 DEF Supervise

LEMMA TickAge == ASSUME TypeOK, AgeInv, Tick PROVE AgeInv'
<1>1. ASSUME NEW m \in Messages
      PROVE  /\ AgedMessage(m).age = Older(m.age) /\ AgedMessage(m).link = m.link
             /\ AgedMessage(m).current = m.current
  BY DEF AgedMessage, Messages
<1>2. ASSUME NEW r \in Rows
      PROVE  /\ AgedRow(r).lastSent = Older(r.lastSent)
             /\ AgedRow(r).lastHeard = Older(r.lastHeard)
             /\ AgedRow(r).ready = r.ready
  BY DEF AgedRow, Rows
<1>3. readyAge' = 0 \/ readyAge' = Older(readyAge)
  BY DEF Tick
<1>4. ASSUME NEW a \in Ages, NEW d \in Nat, readyAge <= a + d
      PROVE  readyAge' <= Older(a) + d
  <2>1. Older(a) \in Nat /\ readyAge \in Ages
    BY OlderIsAge, AgesAreNat DEF TypeOK
  <2>. QED
    BY <1>3, <1>4, <2>1, OlderKeepsOrder
<1>5. ASSUME NEW a \in Ages, readyAge <= a PROVE readyAge' <= Older(a)
  <2>1. a \in Nat /\ Older(a) \in Nat /\ readyAge' \in Nat
    BY OlderIsAge, AgesAreNat, TickTyped DEF TypeOK
  <2>. QED
    BY <1>4, <1>5, <2>1
<1>6. agent'.alive = agent.alive /\ agent'.link = agent.link /\ phase' = phase
  BY DEF Tick, TypeOK, Agents
<1>7. SentAge'
  <2>1. agent'.alive /\ agent'.link = "ready" => readyAge' = 0
    BY <1>6 DEF Tick
  <2>2. ASSUME NEW n \in sent', n.current, n.link = "ready" PROVE readyAge' <= n.age
    <3>1. PICK m \in sent : n = AgedMessage(m)
      BY DEF Tick
    <3>2. m \in Messages /\ m.age \in Ages
      BY DEF TypeOK, Messages
    <3>. QED
      BY <1>1, <1>5, <2>2, <3>1, <3>2 DEF AgeInv, SentAge
  <2>. QED
    BY <2>1, <2>2 DEF SentAge
<1>8. ASSUME serving' # Idle
      PROVE  /\ serving # Idle /\ serving.msg.age \in Ages /\ serving.now \in Ages
             /\ serving'.msg.age = Older(serving.msg.age)
             /\ serving'.msg.link = serving.msg.link
             /\ serving'.msg.current = serving.msg.current
             /\ serving'.now = Older(serving.now)
             /\ serving'.ready = serving.ready
  <2>1. serving # Idle /\ serving \in Servings
    BY <1>8 DEF Tick, TypeOK
  <2>2. serving' = [serving EXCEPT !.msg = AgedMessage(@), !.now = Older(@)]
    BY <2>1 DEF Tick
  <2>3. /\ serving'.msg = AgedMessage(serving.msg) /\ serving.msg \in Messages
        /\ serving'.now = Older(serving.now) /\ serving'.ready = serving.ready
        /\ serving.now \in Ages
    BY <2>1, <2>2 DEF Servings
  <2>4. serving.msg.age \in Ages
    BY <2>3 DEF Messages
  <2>. QED
    BY <1>1, <2>1, <2>3, <2>4
<1>9. row'.lastSent = Older(row.lastSent) /\ row'.lastHeard = Older(row.lastHeard)
      /\ row'.ready = row.ready /\ row.lastSent \in Ages /\ row.lastHeard \in Ages
  BY <1>2 DEF Tick, TypeOK, Rows
<1>10. ServingAge'
  BY <1>5, <1>8, <1>9, OlderKeepsOrder DEF AgeInv, ServingAge
<1>11. RowAge'
  BY <1>5, <1>9, OlderKeepsOrder DEF AgeInv, RowAge
<1>12. ASSUME looking' # Idle
       PROVE  /\ looking # Idle /\ looking'.current = looking.current
              /\ looking'.row.ready = looking.row.ready
              /\ looking'.row.lastHeard = Older(looking.row.lastHeard)
              /\ looking.row.lastHeard \in Ages
  <2>1. looking # Idle /\ looking \in Lookings
    BY <1>12 DEF Tick, TypeOK
  <2>2. /\ looking'.row = AgedRow(looking.row) /\ looking'.current = looking.current
        /\ looking.row \in Rows
    BY <2>1 DEF Tick, Lookings
  <2>3. looking.row.lastHeard \in Ages
    BY <2>2 DEF Rows
  <2>. QED
    BY <1>2, <2>1, <2>2, <2>3
<1>13. LookingAge'
  BY <1>4, <1>12 DEF AgeInv, LookingAge
<1>14. Unlaunched'
  <2>1. \A n \in sent' : \E m \in sent : n.current = m.current
    BY <1>1 DEF Tick, TypeOK
  <2>. QED
    BY <2>1, <1>6, <1>8, <1>9, <1>12 DEF AgeInv, Unlaunched
<1>. QED
  BY <1>7, <1>10, <1>11, <1>13, <1>14 DEF AgeInv

LEMMA NextAge == ASSUME TypeOK, PolicyInv, AgeInv, [Next]_vars PROVE AgeInv'
<1>1. CASE MessageLost
  BY <1>1, AgeKept DEF MessageLost, supervision, history
<1>2. CASE Set
  BY <1>2, AgeKept DEF Set, SetReads, SetCommits, supervision
<1>3. CASE UNCHANGED vars
  BY <1>3, AgeKept DEF vars
<1>. QED
  BY <1>1, <1>2, <1>3, AgentAge, AcceptAge, StatusAge, SuperviseAge, TickAge DEF Next

-------------------------------------------------------------------------------
\* What looks applied.

LEMMA InitTruth == Init => TruthInv
BY DEF Init, TruthInv, YoungestInv, GateInv, RaceInv, ServingTruth, SettingTruth,
       AppliedTruth, Idle, Switch

\* Giving up changes no gate and no column of the handler's session.
LEMMA GivenUpSays ==
  ASSUME TypeOK, serving' = InServing(GivenUp)
  PROVE  /\ \A m \in sent : GivenUp(m).gate = m.gate
         /\ serving' = Idle <=> serving = Idle
         /\ serving # Idle => /\ serving'.msg.gate = serving.msg.gate
                             /\ serving'.step = serving.step
                             /\ serving'.enabled = serving.enabled
                             /\ serving'.applied = serving.applied
<1>1. ASSUME NEW m \in Messages PROVE GivenUp(m).gate = m.gate
  BY DEF GivenUp, Messages
<1>2. ASSUME serving # Idle
      PROVE  /\ serving'.msg = GivenUp(serving.msg) /\ serving.msg \in Messages
             /\ serving'.step = serving.step /\ serving.step # "idle"
             /\ serving'.enabled = serving.enabled /\ serving'.applied = serving.applied
  BY <1>2 DEF InServing, TypeOK, Servings
<1>3. serving = Idle => serving' = Idle
  BY DEF InServing
<1>. QED
  BY <1>1, <1>2, <1>3, IdleStep DEF TypeOK

\* A new generation changes no column of the handler's session.
LEMMA SupersededSays ==
  ASSUME TypeOK, serving' = InServing(Superseded)
  PROVE  /\ serving' = Idle <=> serving = Idle
         /\ serving # Idle => /\ serving'.step = serving.step
                             /\ serving'.enabled = serving.enabled
                             /\ serving'.applied = serving.applied
<1>1. ASSUME serving # Idle
      PROVE  /\ serving'.step = serving.step /\ serving.step # "idle"
             /\ serving'.enabled = serving.enabled /\ serving'.applied = serving.applied
  BY <1>1 DEF InServing, TypeOK, Servings
<1>2. serving = Idle => serving' = Idle
  BY DEF InServing
<1>. QED
  BY <1>1, <1>2, IdleStep

\* A tick in the handler's session, and in the messages.
LEMMA TickedServing ==
  ASSUME TypeOK, Tick
  PROVE  /\ serving' = Idle <=> serving = Idle
         /\ serving # Idle =>
              /\ serving.msg.age \in Ages
              /\ serving'.msg.age = Older(serving.msg.age)
              /\ serving'.msg.current = serving.msg.current
              /\ serving'.msg.awaited = serving.msg.awaited
              /\ serving'.msg.gate = serving.msg.gate
              /\ serving'.step = serving.step
              /\ serving'.enabled = serving.enabled
              /\ serving'.applied = serving.applied
<1>1. CASE serving = Idle
  BY <1>1 DEF Tick
<1>2. CASE serving # Idle
  <2>1. serving \in Servings
    BY <1>2 DEF TypeOK
  <2>2. serving' = [serving EXCEPT !.msg = AgedMessage(@), !.now = Older(@)]
    BY <1>2 DEF Tick
  <2>3. /\ serving'.msg = AgedMessage(serving.msg) /\ serving.msg \in Messages
        /\ serving'.step = serving.step /\ serving.step # "idle"
        /\ serving'.enabled = serving.enabled /\ serving'.applied = serving.applied
    BY <2>1, <2>2 DEF Servings
  <2>. QED
    BY <1>2, <2>3, IdleStep DEF AgedMessage, Messages
<1>. QED
  BY <1>1, <1>2

LEMMA TickedSent ==
  ASSUME TypeOK, Tick, NEW n \in sent'
  PROVE  \E m \in sent :
           /\ m.age \in Ages /\ n.age = Older(m.age)
           /\ n.current = m.current /\ n.awaited = m.awaited /\ n.gate = m.gate
<1>1. PICK m \in sent : n = AgedMessage(m)
  BY DEF Tick
<1>2. m \in Messages
  BY DEF TypeOK
<1>. QED
  BY <1>1, <1>2 DEF AgedMessage, Messages

\* Aging keeps the order, and what is younger afterwards was younger before.
LEMMA OlderMonotone ==
  ASSUME NEW a \in Ages, NEW b \in Ages
  PROVE  /\ a <= b => Older(a) <= Older(b)
         /\ Older(a) < Older(b) => a < b
BY DEF Older, Ages, Old

-------------------------------------------------------------------------------
\* The message that awaits its answer.

\* What is on its way was on its way, or is being served, and nothing is sent.
LEMMA YoungestKept ==
  ASSUME YoungestInv, sent' \subseteq sent,
         \/ serving' = Idle
         \/ serving # Idle /\ serving' # Idle /\ serving'.msg = serving.msg
         \/ serving' # Idle /\ serving'.msg \in sent
  PROVE  YoungestInv'
BY DEF YoungestInv

LEMMA NoneAwaited ==
  ASSUME \A m \in sent' : ~m.awaited, serving' # Idle => ~serving'.msg.awaited
  PROVE  YoungestInv'
BY DEF YoungestInv

LEMMA NextYoungest == ASSUME TypeOK, PolicyInv, YoungestInv, [Next]_vars PROVE YoungestInv'
<1>1. CASE LinkChanges \/ AgentLearns
  BY <1>1, YoungestKept DEF LinkChanges, AgentLearns
<1>2. CASE AgentSends
  <2> DEFINE new == [age |-> 0, link |-> agent.link, gate |-> agent.gate,
                     awaited |-> TRUE, current |-> TRUE]
  <2>1. ~agent.waiting /\ sent' = sent \cup {new} /\ serving' = serving
    BY <1>2 DEF AgentSends
  <2>2. new.age = 0 /\ new.current
    OBVIOUS
  <2> HIDE DEF new
  <2>3. /\ \A m \in sent : ~m.awaited
        /\ serving # Idle => ~serving.msg.awaited
    BY <2>1 DEF PolicyInv, RequestInv
  <2>4. \A n \in sent' : 0 <= n.age
    BY <2>1, <2>2, AgeTypes
  <2>. QED
    BY <2>1, <2>2, <2>3, <2>4 DEF YoungestInv
<1>3. CASE AgentGivesUp \/ BotDies
  BY <1>3, GivenUpAwaited, NoneAwaited DEF AgentGivesUp, BotDies
<1>4. CASE MessageLost \/ Set \/ Status
  BY <1>4, YoungestKept DEF MessageLost, Set, SetReads, SetCommits, Status, StatusReads,
     StatusCommits
<1>5. CASE AcceptRejects
  BY <1>5, YoungestKept DEF AcceptRejects
<1>6. CASE AcceptReads
  <2>1. PICK m \in sent :
          /\ sent' = sent \ {m}
          /\ serving' = [step |-> "row", msg |-> m, now |-> 0,
                         connected |-> row.connected, ready |-> row.ready,
                         enabled |-> "off", applied |-> "unset"]
    BY <1>6 DEF AcceptReads
  <2>2. serving'.msg = m /\ serving'.step = "row"
    BY <2>1
  <2>. QED
    BY <2>1, <2>2, IdleStep, YoungestKept
<1>7. CASE AcceptReadsPolicy
  <2>1. serving # Idle /\ serving \in Servings
    BY <1>7, IdleStep DEF AcceptReadsPolicy, TypeOK
  <2>2. serving'.msg = serving.msg /\ serving'.step = "policy" /\ sent' = sent
    BY <1>7, <2>1 DEF AcceptReadsPolicy, Servings
  <2>. QED
    BY <2>1, <2>2, IdleStep, YoungestKept
<1>8. CASE AcceptCommits
  BY <1>8, YoungestKept DEF AcceptCommits
<1>9. CASE StartInserts
  BY <1>9, SupersededAwaited, NoneAwaited DEF StartInserts
<1>10. CASE StartReadsPolicy \/ StartLaunches \/ StartRecords \/ StopSignals \/ StopRecords
  BY <1>10, YoungestKept DEF StartReadsPolicy, StartLaunches, StartRecords, StopSignals,
     StopRecords
<1>11. CASE Tick
  <2>1. ASSUME NEW m \in sent', m.awaited
        PROVE  m.current /\ \A n \in sent' : m.age <= n.age
    <3>1. PICK l \in sent : l.age \in Ages /\ m.age = Older(l.age)
                            /\ m.current = l.current /\ m.awaited = l.awaited
      BY <1>11, TickedSent
    <3>2. ASSUME NEW n \in sent' PROVE m.age <= n.age
      <4>1. PICK k \in sent : k.age \in Ages /\ n.age = Older(k.age)
        BY <1>11, TickedSent
      <4>2. l.age <= k.age
        BY <2>1, <3>1 DEF YoungestInv
      <4>. QED
        BY <3>1, <4>1, <4>2, OlderMonotone
    <3>. QED
      BY <2>1, <3>1, <3>2 DEF YoungestInv
  <2>2. ASSUME serving' # Idle, serving'.msg.awaited
        PROVE  serving'.msg.current /\ \A n \in sent' : serving'.msg.age <= n.age
    <3>1. /\ serving # Idle /\ serving.msg.awaited /\ serving.msg.age \in Ages
          /\ serving'.msg.age = Older(serving.msg.age)
          /\ serving'.msg.current = serving.msg.current
      BY <1>11, <2>2, TickedServing
    <3>2. ASSUME NEW n \in sent' PROVE serving'.msg.age <= n.age
      <4>1. PICK k \in sent : k.age \in Ages /\ n.age = Older(k.age)
        BY <1>11, TickedSent
      <4>2. serving.msg.age <= k.age
        BY <3>1 DEF YoungestInv
      <4>. QED
        BY <3>1, <4>1, <4>2, OlderMonotone
    <3>. QED
      BY <3>1, <3>2 DEF YoungestInv
  <2>. QED
    BY <2>1, <2>2 DEF YoungestInv
<1>12. CASE UNCHANGED vars
  BY <1>12, YoungestKept DEF vars
<1>. QED
  BY <1>1, <1>2, <1>3, <1>4, <1>5, <1>6, <1>7, <1>8, <1>9, <1>10, <1>11, <1>12
     DEF Next, Agent, Accept, Supervise

-------------------------------------------------------------------------------
\* What the messages tell of the gate.

\* A step that leaves the gate, the last accepted message and what was sent.
LEMMA GateKept ==
  ASSUME GateInv,
         agent'.alive => agent.alive /\ agent'.gate = agent.gate,
         reply' \in Switch => reply \in Switch,
         row'.lastSent = row.lastSent,
         \A n \in sent' : n.current =>
           \E m \in sent : m.current /\ m.age = n.age /\ m.gate = n.gate,
         serving' # Idle /\ serving'.msg.current =>
           /\ serving # Idle /\ serving.msg.current
           /\ serving'.msg.age = serving.msg.age /\ serving'.msg.gate = serving.msg.gate
  PROVE  GateInv'
<1>1. ASSUME NEW n \in sent', n.current, n.age < row'.lastSent PROVE Telling(n)'
  <2>1. PICK m \in sent : m.current /\ m.age = n.age /\ m.gate = n.gate
    BY <1>1
  <2>2. Telling(m)
    BY <1>1, <2>1 DEF GateInv
  <2>. QED
    BY <2>1, <2>2 DEF Telling
<1>2. ASSUME serving' # Idle, serving'.msg.current
      PROVE  serving'.msg.age <= row'.lastSent /\ Telling(serving.msg)'
  <2>1. serving.msg.age <= row.lastSent /\ Telling(serving.msg)
    BY <1>2 DEF GateInv
  <2>. QED
    BY <1>2, <2>1 DEF Telling
<1>. QED
  BY <1>1, <1>2 DEF GateInv, Telling

\* Nothing on its way speaks for the current generation.
LEMMA NoneCurrent ==
  ASSUME \A m \in sent' : ~m.current, serving' # Idle => ~serving'.msg.current
  PROVE  GateInv'
BY DEF GateInv

LEMMA AgentGate == ASSUME TypeOK, PolicyInv, GateInv, Agent PROVE GateInv'
<1>1. CASE LinkChanges
  <2>1. agent'.alive = agent.alive /\ agent'.gate = agent.gate
    BY <1>1 DEF LinkChanges, TypeOK, Agents
  <2>. QED
    BY <1>1, <2>1, GateKept DEF LinkChanges, supervision
<1>2. CASE AgentSends
  <2> DEFINE new == [age |-> 0, link |-> agent.link, gate |-> agent.gate,
                     awaited |-> TRUE, current |-> TRUE]
  <2>1. /\ ~agent.waiting /\ sent' = sent \cup {new}
        /\ agent'.alive = agent.alive /\ agent'.gate = agent.gate
        /\ UNCHANGED <<row, serving, reply>>
    BY <1>2 DEF AgentSends, TypeOK, Agents, supervision
  <2>2. new.gate = agent.gate
    OBVIOUS
  <2> HIDE DEF new
  <2>3. reply \notin Switch
    BY <2>1 DEF PolicyInv, RequestInv, Switch
  <2>. QED
    BY <2>1, <2>2, <2>3 DEF GateInv, Telling
<1>3. CASE AgentLearns
  <2>1. /\ reply \in Switch /\ agent.alive
        /\ UNCHANGED <<row, sent, serving>>
    BY <1>3 DEF AgentLearns, PolicyInv, RequestInv, Switch, supervision
  <2>. QED
    BY <2>1 DEF GateInv, Telling
<1>4. ASSUME sent' = {GivenUp(m) : m \in sent}, serving' = InServing(GivenUp),
             agent'.alive => agent.alive /\ agent'.gate = agent.gate,
             reply' = "none", row' = row
      PROVE  GateInv'
  <2>1. "none" \notin Switch
    BY DEF Switch
  <2>2. \A n \in sent' : n.current =>
          \E m \in sent : m.current /\ m.age = n.age /\ m.gate = n.gate
    BY <1>4, GivenUpKeeps, GivenUpSays
  <2>3. serving' # Idle /\ serving'.msg.current =>
           /\ serving # Idle /\ serving.msg.current
           /\ serving'.msg.age = serving.msg.age /\ serving'.msg.gate = serving.msg.gate
    BY <1>4, GivenUpKeeps, GivenUpSays
  <2>. QED
    BY <1>4, <2>1, <2>2, <2>3, GateKept
<1>5. CASE AgentGivesUp
  <2>1. agent'.alive = agent.alive /\ agent'.gate = agent.gate
    BY <1>5 DEF AgentGivesUp, TypeOK, Agents
  <2>. QED
    BY <1>4, <1>5, <2>1 DEF AgentGivesUp, supervision
<1>6. CASE BotDies
  <2>1. ~agent'.alive
    BY <1>6 DEF BotDies, TypeOK, Agents
  <2>. QED
    BY <1>4, <1>6, <2>1 DEF BotDies, supervision
<1>. QED
  BY <1>1, <1>2, <1>3, <1>5, <1>6 DEF Agent

LEMMA AcceptGate == ASSUME TypeOK, YoungestInv, GateInv, Accept PROVE GateInv'
<1>1. CASE AcceptRejects
  <2>1. "rejected" \notin Switch
    BY DEF Switch
  <2>. QED
    BY <1>1, <2>1, GateKept DEF AcceptRejects, supervision, history
<1>2. CASE AcceptReads
  <2>1. PICK m \in sent :
          /\ Acceptable(m)
          /\ sent' = sent \ {m}
          /\ serving' = [step |-> "row", msg |-> m, now |-> 0,
                         connected |-> row.connected, ready |-> row.ready,
                         enabled |-> "off", applied |-> "unset"]
    BY <1>2 DEF AcceptReads
  <2>2. /\ serving'.msg = m /\ UNCHANGED <<agent, row, reply>>
        /\ m.age < row.lastSent /\ m.current
    BY <1>2, <2>1 DEF AcceptReads, supervision, Acceptable
  <2>3. m.age <= row.lastSent
    BY <2>2, AgeTypes
  <2>. QED
    BY <2>1, <2>2, <2>3 DEF GateInv, Telling
<1>3. CASE AcceptReadsPolicy
  <2>1. serving # Idle /\ serving \in Servings
    BY <1>3, IdleStep DEF AcceptReadsPolicy, TypeOK
  <2>2. serving'.msg = serving.msg
    BY <1>3, <2>1 DEF AcceptReadsPolicy, Servings
  <2>. QED
    BY <1>3, <2>1, <2>2, GateKept DEF AcceptReadsPolicy, supervision, history
<1>4. CASE AcceptCommits
  <2>1. serving # Idle /\ serving' = Idle
    BY <1>4, IdleStep DEF AcceptCommits
  <2>2. /\ UNCHANGED <<agent, sent>>
        /\ reply' = IF serving.msg.awaited THEN serving.enabled ELSE reply
    BY <1>4 DEF AcceptCommits
  <2>3. /\ serving.msg.current => row'.lastSent = serving.msg.age
        /\ ~serving.msg.current => row' = row
    BY <1>4 DEF AcceptCommits, TypeOK, Rows
  <2>4. ASSUME NEW n \in sent, n.current, n.age < row'.lastSent PROVE Telling(n)'
    <3>1. CASE serving.msg.current
      <4>1. n.age < serving.msg.age /\ serving.msg.age <= row.lastSent
        BY <2>1, <2>3, <2>4, <3>1 DEF GateInv
      <4>2. n.age < row.lastSent /\ ~(serving.msg.age <= n.age)
        BY <2>1, <4>1, AgeTypes
      <4>. QED
        BY <2>1, <2>2, <2>4, <4>2 DEF GateInv, Telling, YoungestInv
    <3>2. CASE ~serving.msg.current
      BY <2>1, <2>2, <2>3, <2>4, <3>2 DEF GateInv, Telling, YoungestInv
    <3>. QED
      BY <3>1, <3>2
  <2>. QED
    BY <2>1, <2>2, <2>4 DEF GateInv
<1>. QED
  BY <1>1, <1>2, <1>3, <1>4 DEF Accept

LEMMA SuperviseGate == ASSUME TypeOK, AgeInv, GateInv, Supervise PROVE GateInv'
<1>1. CASE StartInserts
  BY <1>1, SupersededAwaited, NoneCurrent DEF StartInserts
<1>2. CASE StartReadsPolicy
  BY <1>2, GateKept DEF StartReadsPolicy, history
<1>3. CASE StartLaunches
  BY <1>3, NoneCurrent DEF StartLaunches, AgeInv, Unlaunched
<1>4. CASE StartRecords \/ StopSignals \/ StopRecords
  <2>1. row'.lastSent = row.lastSent
    BY <1>4 DEF StartRecords, StopSignals, StopRecords, TypeOK, Rows
  <2>. QED
    BY <1>4, <2>1, GateKept DEF StartRecords, StopSignals, StopRecords, history
<1>. QED
  BY <1>1, <1>2, <1>3, <1>4 DEF Supervise

LEMMA TickGate == ASSUME TypeOK, GateInv, Tick PROVE GateInv'
<1>1. agent'.alive = agent.alive /\ agent'.gate = agent.gate /\ reply' = reply
  BY DEF Tick, TypeOK, Agents
<1>2. row'.lastSent = Older(row.lastSent) /\ row.lastSent \in Ages
  BY DEF Tick, AgedRow, TypeOK, Rows
<1>3. ASSUME NEW n \in sent', n.current, n.age < row'.lastSent PROVE Telling(n)'
  <2>1. PICK m \in sent : m.age \in Ages /\ n.age = Older(m.age)
                          /\ n.current = m.current /\ n.gate = m.gate
    BY TickedSent
  <2>2. m.age < row.lastSent
    BY <1>2, <1>3, <2>1, OlderMonotone
  <2>. QED
    BY <1>1, <1>3, <2>1, <2>2 DEF GateInv, Telling
<1>4. ASSUME serving' # Idle, serving'.msg.current
      PROVE  serving'.msg.age <= row'.lastSent /\ Telling(serving.msg)'
  <2>1. /\ serving # Idle /\ serving.msg.current /\ serving.msg.age \in Ages
        /\ serving'.msg.age = Older(serving.msg.age) /\ serving'.msg.gate = serving.msg.gate
    BY <1>4, TickedServing
  <2>. QED
    BY <1>1, <1>2, <2>1, OlderMonotone DEF GateInv, Telling
<1>. QED
  BY <1>3, <1>4 DEF GateInv, Telling

LEMMA NextGate ==
  ASSUME TypeOK, PolicyInv, AgeInv, YoungestInv, GateInv, [Next]_vars PROVE GateInv'
<1>1. CASE MessageLost \/ Set
  BY <1>1, GateKept DEF MessageLost, Set, SetReads, SetCommits, supervision, history
<1>2. CASE Status
  <2>1. row'.lastSent = row.lastSent
    BY <1>2 DEF Status, StatusReads, StatusCommits, TypeOK, Rows
  <2>. QED
    BY <1>2, <2>1, GateKept DEF Status, StatusReads, StatusCommits, history
<1>3. CASE UNCHANGED vars
  BY <1>3, GateKept DEF vars
<1>. QED
  BY <1>1, <1>2, <1>3, AgentGate, AcceptGate, SuperviseGate, TickGate DEF Next

-------------------------------------------------------------------------------
\* The columns of the sessions.

\* A step of neither session: what the gate takes is the answer or the launch.
LEMMA RaceKept ==
  ASSUME RaceInv,
         UNCHANGED <<policy, setting, raced>>, settled => settled',
         serving' = Idle <=> serving = Idle,
         serving # Idle =>
           /\ serving'.step = serving.step
           /\ serving'.enabled = serving.enabled /\ serving'.applied = serving.applied
           /\ ~serving'.msg.current => ~serving.msg.current \/ settled',
         agent'.alive =>
           \/ agent.alive /\ agent'.gate = agent.gate
           \/ reply \in Switch /\ agent'.gate = reply
           \/ phase = "configured" /\ agent'.gate = launch,
         reply' \in Switch => reply' = reply,
         phase' = "configured" =>
           launch' = policy.enabled \/ (phase = "configured" /\ launch' = launch)
  PROVE  RaceInv'
<1>1. ServingTruth'
  BY DEF RaceInv, ServingTruth
<1>2. SettingTruth'
  BY DEF RaceInv, SettingTruth
<1>3. AppliedTruth'
  BY DEF RaceInv, AppliedTruth
<1>. QED
  BY <1>1, <1>2, <1>3 DEF RaceInv

LEMMA AgentRace == ASSUME TypeOK, RaceInv, Agent PROVE RaceInv'
<1>1. CASE LinkChanges \/ AgentSends
  <2>1. agent'.alive = agent.alive /\ agent'.gate = agent.gate
    BY <1>1 DEF LinkChanges, AgentSends, TypeOK, Agents
  <2>. QED
    BY <1>1, <2>1, RaceKept DEF LinkChanges, AgentSends, supervision
<1>2. CASE AgentLearns
  <2>1. agent'.gate = reply /\ reply \in Switch /\ reply' = "none" /\ "none" \notin Switch
    BY <1>2 DEF AgentLearns, TypeOK, Agents, Switch
  <2>. QED
    BY <1>2, <2>1, RaceKept DEF AgentLearns, supervision
<1>3. ASSUME serving' = InServing(GivenUp), reply' = "none",
             agent'.alive => agent.alive /\ agent'.gate = agent.gate,
             UNCHANGED <<policy, setting, raced, settled, phase, launch>>
      PROVE  RaceInv'
  <2>1. "none" \notin Switch
    BY DEF Switch
  <2>. QED
    BY <1>3, <2>1, GivenUpKeeps, GivenUpSays, RaceKept
<1>4. CASE AgentGivesUp
  <2>1. agent'.alive = agent.alive /\ agent'.gate = agent.gate
    BY <1>4 DEF AgentGivesUp, TypeOK, Agents
  <2>. QED
    BY <1>3, <1>4, <2>1 DEF AgentGivesUp, supervision
<1>5. CASE BotDies
  <2>1. ~agent'.alive
    BY <1>5 DEF BotDies, TypeOK, Agents
  <2>. QED
    BY <1>3, <1>5, <2>1 DEF BotDies, supervision
<1>. QED
  BY <1>1, <1>2, <1>4, <1>5 DEF Agent

\* The commit of a heartbeat that no enable or disable overlapped: what looks
\* applied is what the message told, hence what the gate has.
LEMMA CommitIsTrue ==
  ASSUME TypeOK, PolicyInv, AgeInv, GateInv, RaceInv, AcceptCommits, setting = Idle, ~raced,
         policy'.applied = policy'.enabled
  PROVE  /\ agent.alive => agent.gate = policy.enabled
         /\ reply' \in Switch => reply' = policy.enabled
         /\ phase = "configured" => launch = policy.enabled
<1>1. serving # Idle /\ serving \in Servings /\ serving.step = "policy"
  BY IdleStep DEF AcceptCommits, TypeOK
<1>2. /\ serving.enabled = policy.enabled /\ serving.applied = policy.applied
      /\ ~serving.msg.current => settled
  BY <1>1 DEF RaceInv, ServingTruth
<1>3. /\ policy'.enabled = policy.enabled
      /\ policy'.applied = Column(serving.applied, serving.msg.gate, policy.applied)
      /\ reply' = IF serving.msg.awaited THEN serving.enabled ELSE reply
  BY DEF AcceptCommits, TypeOK, Policies
<1>4. serving.msg.gate = policy.enabled
  BY <1>2, <1>3 DEF Column
<1>5. CASE serving.msg.current
  <2>1. agent.alive => agent.gate = serving.msg.gate /\ reply \notin Switch
    BY <1>1, <1>5 DEF GateInv, Telling
  <2>2. ~agent.alive => reply \notin Switch
    BY DEF PolicyInv, RequestInv, Switch
  <2>3. phase # "configured"
    BY <1>1, <1>5 DEF AgeInv, Unlaunched
  <2>. QED
    BY <1>2, <1>3, <1>4, <2>1, <2>2, <2>3
<1>6. CASE ~serving.msg.current
  <2>1. settled
    BY <1>2, <1>6
  <2>. QED
    BY <1>2, <1>3, <2>1 DEF PolicyInv, SettledInv
<1>. QED
  BY <1>5, <1>6

LEMMA AcceptRace ==
  ASSUME TypeOK, PolicyInv, AgeInv, GateInv, RaceInv, Accept PROVE RaceInv'
<1>1. CASE AcceptRejects
  <2>1. "rejected" \notin Switch
    BY DEF Switch
  <2>. QED
    BY <1>1, <2>1, RaceKept DEF AcceptRejects, supervision, history
<1>2. CASE AcceptReads
  <2>1. PICK m \in sent :
          /\ Acceptable(m)
          /\ serving' = [step |-> "row", msg |-> m, now |-> 0,
                         connected |-> row.connected, ready |-> row.ready,
                         enabled |-> "off", applied |-> "unset"]
    BY <1>2 DEF AcceptReads
  <2>2. serving'.msg.current /\ serving'.step = "row"
    BY <2>1 DEF Acceptable
  <2>3. serving' # Idle /\ UNCHANGED <<policy, setting>> /\ raced' = (raced /\ setting # Idle)
    BY <1>2, <2>2, IdleStep DEF AcceptReads
  <2>4. ServingTruth' /\ AppliedTruth'
    BY <2>2, <2>3 DEF ServingTruth, AppliedTruth
  <2>5. SettingTruth'
    BY <2>3 DEF RaceInv, SettingTruth
  <2>. QED
    BY <2>4, <2>5 DEF RaceInv
<1>3. CASE AcceptReadsPolicy
  <2>1. serving # Idle /\ serving \in Servings
    BY <1>3, IdleStep DEF AcceptReadsPolicy, TypeOK
  <2>2. /\ serving'.msg = serving.msg /\ serving'.step = "policy"
        /\ serving'.enabled = policy.enabled /\ serving'.applied = policy.applied
        /\ UNCHANGED <<policy, setting, raced, settled>>
    BY <1>3, <2>1 DEF AcceptReadsPolicy, Servings, history
  <2>3. ServingTruth' /\ AppliedTruth'
    BY <2>1, <2>2, IdleStep DEF RaceInv, ServingTruth, AppliedTruth
  <2>4. SettingTruth'
    BY <2>2 DEF RaceInv, SettingTruth
  <2>. QED
    BY <2>3, <2>4 DEF RaceInv
<1>4. CASE AcceptCommits
  <2>1. /\ serving' = Idle /\ raced' = (raced \/ setting # Idle)
        /\ UNCHANGED <<agent, setting, phase, launch>>
    BY <1>4 DEF AcceptCommits
  <2>2. policy'.enabled = policy.enabled
    BY <1>4 DEF AcceptCommits, TypeOK, Policies
  <2>3. ServingTruth' /\ SettingTruth'
    BY <2>1 DEF ServingTruth, SettingTruth
  <2>4. AppliedTruth'
    BY <1>4, <2>1, <2>2, CommitIsTrue DEF AppliedTruth
  <2>. QED
    BY <2>3, <2>4 DEF RaceInv
<1>. QED
  BY <1>1, <1>2, <1>3, <1>4 DEF Accept

LEMMA SetRace == ASSUME TypeOK, RaceInv, Set PROVE RaceInv'
<1>1. CASE SetReads
  <2>1. PICK new \in Wishes :
          setting' = [step |-> "read", new |-> new,
                      enabled |-> policy.enabled, applied |-> policy.applied]
    BY <1>1 DEF SetReads
  <2>2. setting'.applied = policy.applied /\ setting'.step = "read"
    BY <2>1
  <2>3. /\ setting' # Idle /\ raced' = (raced /\ serving # Idle)
        /\ UNCHANGED <<policy, serving, settled>>
    BY <1>1, <2>2, IdleStep DEF SetReads
  <2>4. ServingTruth' /\ SettingTruth' /\ AppliedTruth'
    BY <2>2, <2>3 DEF RaceInv, ServingTruth, SettingTruth, AppliedTruth
  <2>. QED
    BY <2>4 DEF RaceInv
<1>2. CASE SetCommits
  <2>1. /\ setting # Idle /\ setting' = Idle /\ serving' = serving
        /\ raced' = (raced \/ serving # Idle)
        /\ policy'.applied = Column(setting.applied, "unset", policy.applied)
    BY <1>2 DEF SetCommits
  <2>2. ServingTruth' /\ SettingTruth'
    BY <2>1 DEF ServingTruth, SettingTruth
  <2>3. ~raced => policy'.applied = "unset"
    BY <2>1 DEF RaceInv, SettingTruth, Column
  <2>4. policy'.enabled # "unset"
    BY SetTyped DEF TypeOK, Policies, Switch
  <2>5. AppliedTruth'
    BY <2>1, <2>3, <2>4 DEF AppliedTruth
  <2>. QED
    BY <2>2, <2>5 DEF RaceInv
<1>. QED
  BY <1>1, <1>2 DEF Set

LEMMA SuperviseRace == ASSUME TypeOK, PolicyInv, RaceInv, Supervise PROVE RaceInv'
<1>1. CASE StartInserts
  <2>1. /\ settled' /\ phase' # "configured" /\ serving' = InServing(Superseded)
        /\ UNCHANGED <<policy, setting, raced, agent, reply>>
    BY <1>1 DEF StartInserts
  <2>. QED
    BY <2>1, SupersededSays, RaceKept
<1>2. CASE StartReadsPolicy
  BY <1>2, RaceKept DEF StartReadsPolicy, history
<1>3. CASE StartLaunches
  <2>1. phase' # "configured" /\ phase = "configured"
    BY <1>3 DEF StartLaunches
  <2>2. agent'.alive => (agent.alive /\ agent'.gate = agent.gate) \/ agent'.gate = launch
    BY <1>3 DEF StartLaunches
  <2>. QED
    BY <1>3, <2>1, <2>2, RaceKept DEF StartLaunches
<1>4. CASE StartRecords \/ StopSignals \/ StopRecords
  BY <1>4, RaceKept DEF StartRecords, StopSignals, StopRecords, history
<1>. QED
  BY <1>1, <1>2, <1>3, <1>4 DEF Supervise

LEMMA NextRace ==
  ASSUME TypeOK, PolicyInv, AgeInv, GateInv, RaceInv, [Next]_vars PROVE RaceInv'
<1>1. CASE MessageLost \/ Status
  BY <1>1, RaceKept DEF MessageLost, Status, StatusReads, StatusCommits, supervision, history
<1>2. CASE Tick
  <2>1. agent'.alive = agent.alive /\ agent'.gate = agent.gate
        /\ UNCHANGED <<policy, setting, raced, settled, reply, phase, launch>>
    BY <1>2 DEF Tick, TypeOK, Agents
  <2>. QED
    BY <1>2, <2>1, TickedServing, RaceKept
<1>3. CASE UNCHANGED vars
  BY <1>3, RaceKept DEF vars
<1>. QED
  BY <1>1, <1>2, <1>3, AgentRace, AcceptRace, SetRace, SuperviseRace DEF Next

LEMMA NextTruth ==
  ASSUME TypeOK, PolicyInv, AgeInv, TruthInv, [Next]_vars PROVE TruthInv'
BY NextYoungest, NextGate, NextRace DEF TruthInv

-------------------------------------------------------------------------------
\* The theorems.

\* What the proofs go through: types, one outstanding request, the policies on
\* their way to the gate, the ages of what says "ready", and what the columns of
\* the overlapping sessions can make look applied.
THEOREM Invariance == Spec => []IInv
<1>1. Init => IInv
  BY InitTyped, InitPolicy, InitAge, InitTruth DEF IInv
<1>2. IInv /\ [Next]_vars => IInv'
  BY NextTyped, NextPolicy, NextAge, NextTruth DEF IInv
<1>. QED
  BY <1>1, <1>2, PTL DEF Spec

\* Every column, message and session keeps its type through every interleaving.
THEOREM TypeCorrect == Spec => []TypeOK
<1>1. IInv => TypeOK
  BY DEF IInv
<1>. QED
  BY <1>1, Invariance, PTL

\* No command-open window: a launched bot's gate is the policy from its first
\* instant, for as long as the policy stays as it was when the row was created.
THEOREM GateAtLaunch == Spec => []GateFromLaunch
<1>1. IInv => GateFromLaunch
  BY DEF IInv, PolicyInv, SettledInv, GateFromLaunch
<1>. QED
  BY <1>1, Invariance, PTL

\* The policy looks applied only when the live bot's gate has it: no late message,
\* of an earlier gate or of an earlier generation, makes it look so, but for an
\* enable or disable that overlaps the handling of a heartbeat.
THEOREM AppliedIsTrue == Spec => []TruthfulUnlessRaced
<1>1. IInv => TruthfulUnlessRaced
  BY DEF IInv, TruthInv, RaceInv, AppliedTruth, TruthfulUnlessRaced
<1>. QED
  BY <1>1, Invariance, PTL

\* The gate of a live bot moves only to a policy that was in force at some time
\* since the agent sent its request.
THEOREM GateFollows == Spec => GateFollowsPolicy
<1> DEFINE Follows ==
      agent.alive /\ agent'.alive /\ agent'.gate # agent.gate => agent'.gate \in offered
<1>1. ASSUME IInv, Next PROVE Follows
  <2>1. TypeOK /\ PolicyInv
    BY <1>1 DEF IInv
  <2>2. CASE AgentLearns
    BY <2>1, <2>2 DEF AgentLearns, TypeOK, Agents, PolicyInv, OfferedInv
  <2>3. CASE LinkChanges \/ AgentSends \/ AgentGivesUp \/ Tick
    BY <2>1, <2>3 DEF LinkChanges, AgentSends, AgentGivesUp, Tick, TypeOK, Agents
  <2>4. CASE BotDies
    BY <2>1, <2>4 DEF BotDies, TypeOK, Agents
  <2>5. CASE StartLaunches
    BY <2>1, <2>5 DEF StartLaunches, PolicyInv, SettledInv
  <2>6. ASSUME agent' = agent PROVE Follows
    BY <2>6
  <2>7. CASE Accept \/ Set \/ Status \/ MessageLost
    BY <2>6, <2>7 DEF Accept, AcceptRejects, AcceptReads, AcceptReadsPolicy, AcceptCommits,
       Set, SetReads, SetCommits, Status, StatusReads, StatusCommits, MessageLost
  <2>8. CASE StartInserts \/ StartReadsPolicy \/ StartRecords \/ StopSignals \/ StopRecords
    BY <2>6, <2>8 DEF StartInserts, StartReadsPolicy, StartRecords, StopSignals, StopRecords
  <2>. QED
    BY <1>1, <2>2, <2>3, <2>4, <2>5, <2>7, <2>8 DEF Next, Agent, Supervise
<1>2. IInv /\ [Next]_vars => [Follows]_vars
  BY <1>1
<1>. QED
  BY <1>2, Invariance, PTL DEF Spec, GateFollowsPolicy

\* What a status request shows as online was ready within the freshness limit
\* plus the clock skew, and its process is alive.
LEMMA ShownIsRecent ==
  ASSUME IInv, StatusCommits, Shown \in {"online", "maintenance"}
  PROVE  agent.alive /\ looking.current /\ readyAge <= Timeout + Skew
<1> DEFINE old == looking.row
           new == Reconciled(looking.row)
<1>1. looking # Idle /\ looking \in Lookings /\ old \in Rows
  BY DEF StatusCommits, IInv, TypeOK, Lookings
<1>2. /\ new.state \in {"running", "starting"}
      /\ new.lastHeard <= Timeout /\ new.ready
  <2>1. Resolve(new) \in {"online", "maintenance"}
    BY DEF Shown
  <2>2. new \in Rows /\ new.state \in States
    BY <1>1, ReconciledTyped DEF Rows
  <2> HIDE DEF new
  <2>. QED
    BY <2>1, <2>2 DEF Resolve, States
<1>3. agent.alive /\ looking.current
  BY <1>1, <1>2 DEF Reconciled, Rows
<1>4. old.ready /\ new.lastHeard = old.lastHeard
  BY <1>1, <1>2 DEF Reconciled, Rows
<1>5. readyAge <= old.lastHeard + Skew
  BY <1>1, <1>3, <1>4 DEF IInv, AgeInv, LookingAge
<1>6. readyAge \in Nat /\ old.lastHeard \in Nat
  BY <1>1, AgeTypes DEF IInv
<1>. QED
  BY <1>2, <1>3, <1>4, <1>5, <1>6

\* A bot is shown as online only on recent word, whatever is delayed, reordered,
\* lost, or left of older generations.
THEOREM OnlineRecent == Spec => OnlineIsRecent
<1>1. IInv /\ [Next]_vars =>
        [StatusCommits /\ Shown \in {"online", "maintenance"}
           => agent.alive /\ looking.current /\ readyAge <= Timeout + Skew]_vars
  BY ShownIsRecent
<1>. QED
  BY <1>1, Invariance, PTL DEF Spec, OnlineIsRecent

\* What has converged: the parts that a step of the handler's session disturbs.
LEMMA AcceptConverged ==
  ASSUME IInv, Converged, Accept
  PROVE  Converged'
<1>1. /\ agent' = agent /\ agent.alive /\ setting' = setting /\ setting = Idle
      /\ policy'.enabled = policy.enabled
  BY DEF Accept, AcceptRejects, AcceptReads, AcceptReadsPolicy, AcceptCommits, Converged,
         IInv, TypeOK, Policies, supervision, history
<1>2. CASE AcceptRejects
  BY <1>1, <1>2 DEF AcceptRejects, Converged, Switch
<1>3. CASE AcceptReads
  <2>1. serving' # Idle => serving'.msg.current /\ serving'.step = "row"
    BY <1>3 DEF AcceptReads, Acceptable
  <2>. QED
    BY <1>1, <1>3, <2>1 DEF AcceptReads, Converged
<1>4. CASE AcceptReadsPolicy
  <2>1. serving # Idle /\ serving \in Servings
    BY <1>4, IdleStep DEF AcceptReadsPolicy, IInv, TypeOK
  <2>2. serving'.msg = serving.msg /\ serving'.enabled = policy.enabled
    BY <1>4, <2>1 DEF AcceptReadsPolicy, Servings
  <2>. QED
    BY <1>1, <1>4, <2>1, <2>2 DEF AcceptReadsPolicy, Converged
<1>5. CASE AcceptCommits
  <2>1. serving # Idle /\ serving.msg.current /\ serving.enabled = policy.enabled
    BY <1>5, IdleStep DEF AcceptCommits, Converged
  <2>2. serving.msg.gate = policy.enabled
    BY <1>1, <2>1, <1>5 DEF IInv, TruthInv, GateInv, Telling, Converged
  <2>3. policy'.applied \in {serving.msg.gate, policy.applied} /\ serving' = Idle
    BY <1>5 DEF AcceptCommits, Column, IInv, TypeOK, Policies
  <2>4. reply' \in Switch => reply' = policy.enabled
    BY <1>5, <2>1 DEF AcceptCommits, Converged
  <2>. QED
    BY <1>1, <2>2, <2>3, <2>4 DEF Converged
<1>. QED
  BY <1>2, <1>3, <1>4, <1>5 DEF Accept

\* What has converged, under every step after which the bot lives and no enable or
\* disable is in progress.
LEMMA ConvergedKept ==
  ASSUME IInv, Next, Converged, agent'.alive, setting' = Idle
  PROVE  Converged'
<1>1. ASSUME agent'.gate = agent.gate, policy' = policy,
             reply' \in Switch => reply' = reply,
             serving' # Idle =>
               /\ serving # Idle /\ serving'.msg.current = serving.msg.current
               /\ serving'.step = serving.step /\ serving'.enabled = serving.enabled
      PROVE  Converged'
  BY <1>1 DEF Converged
<1>2. ASSUME UNCHANGED <<agent, policy, reply, serving>> PROVE Converged'
  BY <1>1, <1>2
<1>3. CASE LinkChanges \/ AgentSends
  BY <1>1, <1>3 DEF LinkChanges, AgentSends, IInv, TypeOK, Agents
<1>4. CASE AgentLearns
  BY <1>4 DEF AgentLearns, Converged, IInv, TypeOK, Agents, Switch
<1>5. CASE AgentGivesUp
  <2>1. /\ agent'.gate = agent.gate /\ policy' = policy /\ reply' = "none"
        /\ serving' = InServing(GivenUp)
    BY <1>5 DEF AgentGivesUp, IInv, TypeOK, Agents
  <2>2. TypeOK
    BY DEF IInv
  <2>. QED
    BY <1>1, <2>1, <2>2, GivenUpKeeps, GivenUpSays DEF Switch
<1>6. CASE BotDies
  BY <1>6 DEF BotDies, IInv, TypeOK, Agents
<1>7. CASE Accept
  BY <1>7, AcceptConverged
<1>8. CASE Set
  BY <1>8 DEF Set, SetReads, SetCommits, Converged, Idle
<1>9. CASE Status \/ MessageLost
  BY <1>2, <1>9 DEF Status, StatusReads, StatusCommits, MessageLost
<1>10. CASE StartInserts \/ StartLaunches
  <2>1. ~agent.alive
    BY <1>10 DEF StartInserts, StartLaunches, IInv, PolicyInv, SettledInv
  <2>. QED
    BY <2>1 DEF Converged
<1>11. CASE StartReadsPolicy \/ StartRecords \/ StopSignals \/ StopRecords
  BY <1>2, <1>11 DEF StartReadsPolicy, StartRecords, StopSignals, StopRecords
<1>12. CASE Tick
  <2>1. agent'.gate = agent.gate /\ policy' = policy /\ reply' = reply
    BY <1>12 DEF Tick, IInv, TypeOK, Agents
  <2>2. TypeOK
    BY DEF IInv
  <2>. QED
    BY <1>1, <1>12, <2>1, <2>2, TickedServing
<1>. QED
  BY <1>3, <1>4, <1>5, <1>6, <1>7, <1>8, <1>9, <1>10, <1>11, <1>12
     DEF Next, Agent, Supervise

\* Gate, policy and what is shown as applied, once together, stay together until the
\* bot ends or the policy is set again: the closure of what Converges brings about.
THEOREM StaysConverged == Spec => ConvergedStays
<1>1. IInv /\ [Next]_vars =>
        [Converged /\ agent'.alive /\ setting' = Idle => Converged']_vars
  BY ConvergedKept
<1>. QED
  BY <1>1, Invariance, PTL DEF Spec, ConvergedStays
===============================================================================
