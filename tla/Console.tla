------------------------------- MODULE Console -------------------------------
(***************************************************************************)
(* The console of one bot: the records that the supervisor captures and    *)
(* numbers, the sockets of the dashboard that poll for them and share what *)
(* they get, and the access of the one user behind the sockets, which the  *)
(* owner changes meanwhile.                                                *)
(*                                                                         *)
(* A socket is a coroutine: it runs from one await to the next, so a step  *)
(* is what it does between two.  Capture threads and the owner's requests  *)
(* run beside it; what they share is behind a lock.  Text, redaction and   *)
(* the log files are left out: a record is its run of the supervisor and   *)
(* its number.                                                             *)
(***************************************************************************)
EXTENDS Integers, Sequences, FiniteSets

CONSTANTS
  Sockets,     \* WebSocket connections
  Keys,        \* permissions that the console asks for
  Buffer,      \* records the broker keeps
  Limit,       \* records of one answer
  Queue,       \* records a socket may have waiting
  PerUser,     \* subscriptions of one user
  Sizes        \* bounds: one is chosen at the start

ASSUME SocketsAssumption == IsFiniteSet(Sockets)

ASSUME SizeAssumption ==
  /\ Buffer \in Nat \ {0} /\ Limit \in Nat \ {0} /\ Queue \in Nat \ {0}
  /\ PerUser \in Nat
  /\ Sizes \subseteq [sockets : SUBSET Sockets,  \* those that connect
                      runs    : Nat \ {0},      \* of the supervisor
                      records : Nat,            \* of each run
                      changes : Nat]            \* of the access

VARIABLES
  bounds,    \* the size of this behaviour
  run,       \* the run of the supervisor: its stream_id
  captured,  \* how many records each run has captured
  known,     \* the manager's stream and cursor: what was shared last
  items,     \* the manager's subscription of each socket
  leaked,    \* subscriptions whose socket is gone
  sock,      \* the locals of each socket
  access,    \* the rows that decide the access
  owner,     \* what a request of the owner has yet to do
  changes,   \* how many changes there were
  crossed    \* history: an earlier run's records came after a later's

broker  == <<run, captured>>
manager == <<known, items, leaked>>
rights  == <<access, owner, changes>>
vars    == <<bounds, broker, manager, sock, rights, crossed>>

Runs   == 0 .. bounds.runs         \* 0: none yet
Number == 0 .. bounds.records
Place  == [run : Runs, number : Number]
Answers == [run : Runs, first : Number, last : Number]

None   == [on |-> FALSE, queue |-> <<>>, revoked |-> FALSE]
Closed == [pc |-> "closed", run |-> 0, after |-> 0,
           answer |-> [run |-> 0, first |-> 0, last |-> 0],
           place |-> [run |-> 0, number |-> 0]]

Loop == {"first", "top", "asking", "answered", "again", "answered again", "waiting"}

Init ==
  /\ bounds \in Sizes
  /\ run = 1
  /\ captured = [r \in 1 .. bounds.runs |-> 0]
  /\ known = [run |-> 0, number |-> 0]
  /\ items = [s \in Sockets |-> None]
  /\ leaked = 0
  /\ sock = [s \in Sockets |-> Closed]
  /\ access = [session |-> TRUE, enabled |-> TRUE, assigned |-> "enabled",
               override |-> [k \in Keys |-> "inherit"]]
  /\ owner = "idle"
  /\ changes = 0
  /\ crossed = FALSE

-------------------------------------------------------------------------------
\* PermissionService.has, of a user who is not the platform owner.  Every role
\* has the permissions of the console.
Has(key) ==
  /\ access.enabled
  /\ access.override[key] # "deny"
  /\ access.override[key] = "allow" \/ access.assigned = "enabled"

\* _console_access: the session, the bot's visibility and the console's own.
Allowed == access.session /\ access.enabled /\ \A key \in Keys : Has(key)

\* What the broker still has of a run, and ConsoleBroker.records.
Evicted(r) == IF r = 0 \/ captured[r] <= Buffer THEN 0 ELSE captured[r] - Buffer

Later(a, b) == IF a < b THEN b ELSE a

\* A faulty answer: the newest of the records asked for.
FaultyRecords(after) ==
  [run   |-> run,
   first |-> Later(Later(after, Evicted(run)), captured[run] - Limit),
   last  |-> captured[run]]

\* An answer has the records after its first up to its last.
Records(after) ==
  LET first == Later(after, Evicted(run))
  IN [run   |-> run,
      first |-> first,
      last  |-> IF captured[run] - first < Limit THEN captured[run] ELSE first + Limit]

NoRecords(answer) == answer.last <= answer.first

\* The records of a run after a number up to another.
Span(r, from, to) ==
  [n \in 1 .. IF from < to THEN to - from ELSE 0 |-> [run |-> r, number |-> from + n]]

Fits(queue) == [n \in 1 .. IF Len(queue) < Queue THEN Len(queue) ELSE Queue |-> queue[n]]

\* A faulty fan-out that drops what does not fit.
FaultyOffered(item, new) ==
  IF ~item.on \/ item.revoked THEN item
  ELSE [item EXCEPT !.queue = Fits(@ \o new)]

\* The fan-out to one subscription: what fits is queued, and a subscription that
\* is full is revoked.
Offered(item, new) ==
  IF ~item.on \/ item.revoked THEN item
  ELSE [item EXCEPT !.queue   = Fits(@ \o new),
                    !.revoked = Len(item.queue) + Len(new) > Queue]

\* The manager's cursor, which an answer of another run resets, and the records of
\* the answer beyond it.
Cursor(answer) == IF known.run = answer.run THEN known.number ELSE 0
Beyond(answer) == Span(answer.run, Later(Cursor(answer), answer.first), answer.last)

\* ConsoleSubscriptionManager.publish.
Share(answer) ==
  IF NoRecords(answer)
  THEN UNCHANGED <<known, items, crossed>>
  ELSE /\ known' = [run |-> answer.run, number |-> Later(Cursor(answer), answer.last)]
       /\ items' = [s \in Sockets |-> Offered(items[s], Beyond(answer))]
       /\ crossed' = (crossed \/ answer.run < known.run)

-------------------------------------------------------------------------------
\* The supervisor.

\* ConsoleCapture.emit.
Capture ==
  /\ captured[run] < bounds.records
  /\ captured' = [captured EXCEPT ![run] = @ + 1]
  /\ UNCHANGED <<bounds, run, manager, sock, rights, crossed>>

SupervisorRestarts ==
  /\ run < bounds.runs
  /\ run' = run + 1
  /\ UNCHANGED <<bounds, captured, manager, sock, rights, crossed>>

-------------------------------------------------------------------------------
\* console_socket.
Goes(s, pc) == sock' = [sock EXCEPT ![s].pc = pc]

Connect(s) ==
  /\ sock[s].pc = "closed"
  /\ s \in bounds.sockets
  /\ Allowed
  /\ Goes(s, "allowed")
  /\ UNCHANGED <<bounds, broker, manager, rights, crossed>>

\* subscribe, which counts what the user has; the socket is closed at the limit.
Subscribe(s) ==
  /\ sock[s].pc = "allowed"
  /\ IF Cardinality({t \in Sockets : items[t].on}) + leaked < PerUser
     THEN /\ items' = [items EXCEPT ![s] = [None EXCEPT !.on = TRUE]]
          /\ sock' = [sock EXCEPT ![s].pc = "subscribed", ![s].place = known]
     ELSE /\ sock' = [sock EXCEPT ![s] = Closed]
          /\ UNCHANGED items
  /\ UNCHANGED <<bounds, broker, known, leaked, rights, crossed>>

Accept(s) ==
  /\ sock[s].pc = "subscribed"
  /\ Goes(s, "first")
  /\ UNCHANGED <<bounds, broker, manager, rights, crossed>>

\* accept or the first message raises, before there is a finally.
AcceptFails(s) ==
  /\ sock[s].pc = "subscribed"
  /\ leaked' = leaked + 1
  /\ items' = [items EXCEPT ![s] = None]
  /\ sock' = [sock EXCEPT ![s] = Closed]
  /\ UNCHANGED <<bounds, broker, known, rights, crossed>>

\* The finally of the loop.
Closes(s) ==
  /\ items' = [items EXCEPT ![s] = None]
  /\ sock' = [sock EXCEPT ![s] = Closed]

\* A faulty loop that relies on being revoked.
FaultyChecks(s) ==
  /\ sock[s].pc \in {"first", "top"}
  /\ IF items[s].revoked THEN Closes(s) ELSE Goes(s, "asking") /\ UNCHANGED items
  /\ UNCHANGED <<bounds, broker, known, leaked, rights, crossed>>

\* The top of the loop: the flag, and the access, which is checked the first time
\* and whenever five seconds have passed.
Checks(s) ==
  /\ sock[s].pc \in {"first", "top"}
  /\ IF items[s].revoked \/ ~Allowed THEN Closes(s) ELSE Goes(s, "asking") /\ UNCHANGED items
  /\ UNCHANGED <<bounds, broker, known, leaked, rights, crossed>>

\* The top of the loop less than five seconds after a check.
Looks(s) ==
  /\ sock[s].pc = "top"
  /\ IF items[s].revoked THEN Closes(s) ELSE Goes(s, "asking") /\ UNCHANGED items
  /\ UNCHANGED <<bounds, broker, known, leaked, rights, crossed>>

\* The supervisor reads its broker.
Answer(s) ==
  /\ sock[s].pc \in {"asking", "again"}
  /\ sock' = [sock EXCEPT
       ![s].pc = IF sock[s].pc = "asking" THEN "answered" ELSE "answered again",
       ![s].answer = Records(sock[s].after)]
  /\ UNCHANGED <<bounds, broker, manager, rights, crossed>>

\* The supervisor cannot be reached, or its answer is lost.
AnswerFails(s) ==
  /\ sock[s].pc \in {"asking", "again"}
  /\ Goes(s, "waiting")
  /\ UNCHANGED <<bounds, broker, manager, rights, crossed>>

\* A faulty loop that keeps its place when the supervisor has restarted.
FaultyAskAgain(s) ==
  /\ sock[s].pc = "answered"
  /\ sock[s].run \notin {0, sock[s].answer.run}
  /\ sock' = [sock EXCEPT ![s].pc = "again", ![s].answer = Closed.answer]
  /\ UNCHANGED <<bounds, broker, manager, rights, crossed>>

\* The answer of a run other than the last: all is asked for again.
AskAgain(s) ==
  /\ sock[s].pc = "answered"
  /\ sock[s].run \notin {0, sock[s].answer.run}
  /\ sock' = [sock EXCEPT ![s].pc = "again", ![s].after = 0, ![s].answer = Closed.answer]
  /\ UNCHANGED <<bounds, broker, manager, rights, crossed>>

Receive(s) ==
  LET answer == sock[s].answer IN
  /\ \/ sock[s].pc = "answered" /\ sock[s].run \in {0, answer.run}
     \/ sock[s].pc = "answered again"
  /\ sock' = [sock EXCEPT
       ![s].pc = "waiting", ![s].run = answer.run, ![s].answer = Closed.answer,
       ![s].after = IF NoRecords(answer) THEN @ ELSE answer.last]
  /\ Share(answer)
  /\ UNCHANGED <<bounds, broker, leaked, rights>>

\* One record is sent, if there is one within a quarter of a second.
Send(s) ==
  /\ sock[s].pc = "waiting"
  /\ IF items[s].queue = <<>>
     THEN Goes(s, "top") /\ UNCHANGED items
     ELSE /\ sock' = [sock EXCEPT ![s].pc = "top", ![s].place = Head(items[s].queue)]
          /\ items' = [items EXCEPT ![s].queue = Tail(@)]
  /\ UNCHANGED <<bounds, broker, known, leaked, rights, crossed>>

\* The client is gone, which a message shows.
Leave(s) ==
  /\ \/ sock[s].pc \in {"answered", "answered again"}
     \/ sock[s].pc = "waiting" /\ items[s].queue # <<>>
  /\ Closes(s)
  /\ UNCHANGED <<bounds, broker, known, leaked, rights, crossed>>

DashboardRestarts ==
  /\ known.run # 0
  /\ known' = [run |-> 0, number |-> 0]
  /\ items' = [s \in Sockets |-> None]
  /\ leaked' = 0
  /\ sock' = [s \in Sockets |-> Closed]
  /\ owner' = "idle"
  /\ crossed' = FALSE
  /\ UNCHANGED <<bounds, broker, access, changes>>

-------------------------------------------------------------------------------
\* The owner, and the user: AdminService and logout commit; then the request
\* revokes the subscriptions.
Changes(next, then) ==
  /\ owner = "idle"
  /\ changes < bounds.changes
  /\ access' = next
  /\ owner' = then
  /\ changes' = changes + 1
  /\ UNCHANGED <<bounds, broker, manager, sock, crossed>>

SetUserEnabled ==
  \E enabled \in BOOLEAN :
    Changes([access EXCEPT !.enabled = enabled], IF enabled THEN "idle" ELSE "revoke")

Assign ==
  \E enabled \in {"enabled", "disabled"} :
    Changes([access EXCEPT !.assigned = enabled], "revoke")

\* The overrides of the user stay.
RevokeAssignment ==
  /\ access.assigned # "none"
  /\ Changes([access EXCEPT !.assigned = "none"], "revoke")

Override ==
  /\ access.assigned # "none"
  /\ \E key \in Keys, state \in {"inherit", "allow", "deny"} :
       Changes([access EXCEPT !.override[key] = state], "revoke")

Logout ==
  /\ access.session
  /\ Changes([access EXCEPT !.session = FALSE], "revoke")

Expire ==
  /\ access.session
  /\ Changes([access EXCEPT !.session = FALSE], "idle")

RevokeSubscriptions ==
  /\ owner = "revoke"
  /\ items' = [s \in Sockets |->
       IF items[s].on THEN [items[s] EXCEPT !.revoked = TRUE] ELSE items[s]]
  /\ owner' = "idle"
  /\ UNCHANGED <<bounds, broker, known, leaked, sock, access, changes, crossed>>

-------------------------------------------------------------------------------
Socket(s) ==
  \/ Subscribe(s) \/ Accept(s) \/ AcceptFails(s) \/ Checks(s) \/ Looks(s)
  \/ Answer(s) \/ AnswerFails(s) \/ AskAgain(s) \/ Receive(s) \/ Send(s)

Access ==
  \/ SetUserEnabled \/ Assign \/ RevokeAssignment \/ Override
  \/ Logout \/ Expire \/ RevokeSubscriptions

Next ==
  \/ Capture \/ SupervisorRestarts \/ DashboardRestarts
  \/ \E s \in Sockets : Connect(s) \/ Socket(s) \/ Leave(s)
  \/ Access

\* A socket goes on, five seconds pass again and again, and the supervisor answers
\* now and then, a second request too.
Fairness ==
  \A s \in Sockets :
    /\ WF_vars(Socket(s))
    /\ SF_vars(Checks(s))
    /\ SF_vars(sock[s].pc = "asking" /\ Answer(s))
    /\ SF_vars(sock[s].pc = "again" /\ Answer(s))

Spec == Init /\ [][Next]_vars /\ Fairness

-------------------------------------------------------------------------------
\* Type invariant.
Item  == [on : BOOLEAN, queue : Seq(Place), revoked : BOOLEAN]
Local == [pc : Loop \cup {"closed", "allowed", "subscribed"}, run : Runs, after : Number,
          answer : Answers, place : Place]
Grants == [session : BOOLEAN, enabled : BOOLEAN,
           assigned : {"none", "disabled", "enabled"},
           override : [Keys -> {"inherit", "allow", "deny"}]]

TypeOK ==
  /\ bounds \in Sizes
  /\ run \in 1 .. bounds.runs
  /\ captured \in [1 .. bounds.runs -> Number]
  /\ known \in Place
  /\ items \in [Sockets -> Item]
  /\ leaked \in 0 .. PerUser
  /\ sock \in [Sockets -> Local]
  /\ access \in Grants
  /\ owner \in {"idle", "revoke"}
  /\ changes \in 0 .. bounds.changes
  /\ crossed \in BOOLEAN

\* The place of a socket and what waits for it, in the order of sending.
Chain(s) ==
  [n \in 0 .. Len(items[s].queue) |-> IF n = 0 THEN sock[s].place ELSE items[s].queue[n]]

\* A socket that is not revoked has, sent or waiting, all that any socket has
\* shared since it subscribed: a slow one is revoked and never skipped over, and
\* costs the others nothing (console.py 105-114).
NothingMissed ==
  \A s \in Sockets :
    items[s].on /\ ~items[s].revoked => Chain(s)[Len(items[s].queue)] = known

\* A record comes after another, and with nothing between them that the broker
\* still has.
Follows(p, q) ==
  IF p.run = q.run
  THEN p.number < q.number /\ (p.number + 1 = q.number \/ q.number - 1 <= Evicted(q.run))
  ELSE p.run < q.run /\ q.number - 1 <= Evicted(q.run)

\* However the answers to the sockets overtake each other, a socket is sent the
\* records in their order, none twice, and misses none that the broker had not
\* dropped -- unless an answer of an earlier run of the supervisor came after one
\* of a later, which repeats records (console.py 107-109).
InOrder ==
  ~crossed =>
    \A s \in Sockets : \A n \in 1 .. Len(items[s].queue) :
      Follows(Chain(s)[n - 1], Chain(s)[n])

\* The subscriptions are never more than the limit, and every socket that is
\* served has one: what is lost before the loop is only counted (routes.py 57-59).
Open(s) == sock[s].pc \in Loop \cup {"subscribed"}
SubscriptionsAreSockets ==
  /\ \A s \in Sockets : items[s].on <=> Open(s)
  /\ Cardinality({s \in Sockets : items[s].on}) + leaked <= PerUser

\* An answer has all after the place it was asked from, but what the broker had
\* dropped, and nothing that was not captured; and what is asked for again is asked
\* for from the start.
Answered(l) ==
  /\ l.pc \in {"answered", "answered again"} =>
       /\ l.answer.run # 0
       /\ l.answer.first <= Later(l.after, Evicted(l.answer.run))
       /\ l.answer.last <= captured[l.answer.run]
  /\ l.pc \in {"again", "answered again"} => l.after = 0

AnswerInv == \A s \in Sockets : Answered(sock[s])

\* A queue is bounded, and who is not subscribed has none.
QueueInv ==
  \A s \in Sockets :
    /\ Len(items[s].queue) <= Queue
    /\ ~items[s].on => items[s] = None

\* Unless runs have crossed, a socket that has had records of a run is not beyond
\* what was shared last.
Behind(l) ==
  l.after > 0 =>
    /\ l.run # 0
    /\ l.run <= known.run
    /\ l.run = known.run => l.after <= known.number

CursorInv == ~crossed => \A s \in Sockets : Behind(sock[s])

\* A number of a run is one that the run has got to.
Reached(r, number) == IF r = 0 THEN number = 0 ELSE number <= captured[r]

\* Neither the cursor of the manager nor that of a socket is ahead of the run it is
\* about: numbers of one run are never kept for another, which would wait for as
\* many records in vain.  And what is sent was captured (routes.py 69-73,
\* console.py 107).
NotAhead ==
  /\ Reached(known.run, known.number)
  /\ \A s \in Sockets :
       /\ Reached(sock[s].run, sock[s].after)
       /\ \A n \in 0 .. Len(items[s].queue) :
            Reached(Chain(s)[n].run, Chain(s)[n].number)

\* What a socket sends comes after what it sent before, and nothing that the broker
\* still has lies between them, unless runs have crossed.
SendsInOrder ==
  [][\A s \in Sockets :
       Send(s) /\ items[s].queue # <<>> /\ ~crossed
         => Follows(sock[s].place, sock'[s].place)]_vars

\* The inductive invariant.
IInv ==
  /\ TypeOK /\ QueueInv /\ AnswerInv /\ CursorInv /\ NotAhead
  /\ SubscriptionsAreSockets /\ NothingMissed /\ InOrder

\* A socket that is revoked, or whose user has lost the access, is closed, even if
\* it subscribed between its check and the loss, and even if nothing revoked it
\* (routes.py 63-67).
AccessEnforced ==
  \A s \in Sockets :
    []<>(sock[s].pc \in Loop => Allowed /\ ~items[s].revoked)

\* A socket gets to all that is captured, also when a restart of the supervisor has
\* started the numbers again (routes.py 69-73).
CatchesUp ==
  \A s \in Sockets :
    []<>(sock[s].pc \in Loop =>
           /\ sock[s].after = captured[run]
           /\ sock[s].after > 0 => sock[s].run = run)
===============================================================================
