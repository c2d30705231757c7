----------------------------- MODULE ConsoleProofs -----------------------------
(***************************************************************************)
(* Proofs about Console, for every number of sockets and every size of the *)
(* buffer, of an answer and of a queue: the subscriptions belong to        *)
(* sockets, none of them misses what is shared, and all get it in order.   *)
(***************************************************************************)
EXTENDS Console, FiniteSetTheorems, TLAPS

USE SocketsAssumption, SizeAssumption

-------------------------------------------------------------------------------
\* Types.

LEMMA BoundTypes ==
  ASSUME bounds \in Sizes
  PROVE  /\ bounds.runs \in Nat \ {0} /\ bounds.records \in Nat /\ bounds.changes \in Nat
         /\ bounds.sockets \subseteq Sockets
BY Zenon

\* The sets that the types are made of are the same, as the bounds are.
LEMMA SetsKept ==
  ASSUME bounds' = bounds
  PROVE  /\ Runs' = Runs /\ Number' = Number /\ Place' = Place /\ Answers' = Answers
         /\ Item' = Item /\ Local' = Local
<1>1. Runs' = Runs /\ Number' = Number
  BY DEF Runs, Number
<1>2. Place' = Place /\ Answers' = Answers
  BY <1>1 DEF Place, Answers
<1>. QED
  BY <1>1, <1>2 DEF Item, Local

\* None, and a closed socket, have their types.
LEMMA ConstantTypes ==
  ASSUME TypeOK
  PROVE  /\ 0 \in Runs /\ 0 \in Number
         /\ None \in Item /\ [None EXCEPT !.on = TRUE] \in Item /\ Closed \in Local
<1>1. 0 \in Runs /\ 0 \in Number
  BY BoundTypes DEF TypeOK, Runs, Number
<1>2. [run |-> 0, number |-> 0] \in Place /\ [run |-> 0, first |-> 0, last |-> 0] \in Answers
  BY <1>1 DEF Place, Answers
<1>3. Closed \in Local
  BY <1>1, <1>2 DEF Closed, Local
<1>4. None \in Item /\ [None EXCEPT !.on = TRUE] \in Item
  <2>1. <<>> \in Seq(Place)
    OBVIOUS
  <2>2. None \in Item
    BY <2>1 DEF None, Item
  <2>3. \A i \in Item : [i EXCEPT !.on = TRUE] \in Item
    BY DEF Item
  <2>. QED
    BY <2>2, <2>3
<1>. QED
  BY <1>1, <1>3, <1>4

LEMMA EvictedTypes ==
  ASSUME TypeOK, NEW r \in Runs
  PROVE  Evicted(r) \in Number /\ (r # 0 => captured[r] \in Number /\ Evicted(r) <= captured[r])
<1>1. bounds.records \in Nat /\ 0 \in Number /\ Buffer \in Nat
  BY BoundTypes, ConstantTypes DEF TypeOK
<1>2. r # 0 => captured[r] \in Number
  BY BoundTypes DEF TypeOK, Runs
<1>. QED
  BY <1>1, <1>2 DEF Evicted, Number

\* An answer has records of the current run, from no further on than the place it
\* was asked from, or what is dropped.
LEMMA RecordsTypes ==
  ASSUME TypeOK, NEW after \in Number
  PROVE  /\ Records(after) \in Answers
         /\ Records(after).run = run
         /\ Records(after).first = Later(after, Evicted(run))
         /\ Records(after).last <= captured[run]
<1>1. run \in Runs /\ run # 0 /\ bounds.records \in Nat /\ Limit \in Nat
  BY BoundTypes DEF TypeOK, Runs
<1>2. captured[run] \in Number /\ Evicted(run) \in Number
  BY <1>1, EvictedTypes
<1> DEFINE first == Later(after, Evicted(run))
           last  == IF captured[run] - first < Limit THEN captured[run] ELSE first + Limit
<1>3. first \in Number
  BY <1>2 DEF Later
<1>4. last \in Number /\ last <= captured[run]
  BY <1>1, <1>2, <1>3 DEF Number
<1> HIDE DEF first, last
<1>5. Records(after) = [run |-> run, first |-> first, last |-> last]
  BY DEF Records, first, last
<1>. QED
  BY <1>1, <1>3, <1>4, <1>5 DEF Answers, first

\* What a span has.
LEMMA SpanEffect ==
  ASSUME TypeOK, NEW r \in Runs, NEW from \in Number, NEW to \in Number
  PROVE  /\ Span(r, from, to) \in Seq(Place)
         /\ Len(Span(r, from, to)) = IF from < to THEN to - from ELSE 0
         /\ \A n \in 1 .. Len(Span(r, from, to)) :
              Span(r, from, to)[n] = [run |-> r, number |-> from + n]
<1> DEFINE size == IF from < to THEN to - from ELSE 0
           span == Span(r, from, to)
<1>1. size \in Nat /\ bounds.records \in Nat
  BY BoundTypes DEF TypeOK, Number
<1>2. \A n \in 1 .. size : from + n \in Number
  BY <1>1 DEF Number
<1>3. \A n \in 1 .. size : [run |-> r, number |-> from + n] \in Place
  BY <1>2 DEF Place
<1>4. span = [n \in 1 .. size |-> [run |-> r, number |-> from + n]]
  BY DEF Span
<1> HIDE DEF size, span
<1>5. span \in [1 .. size -> Place]
  BY <1>3, <1>4
<1>6. span \in Seq(Place) /\ Len(span) = size
  BY <1>1, <1>5
<1>7. \A n \in 1 .. Len(span) : span[n] = [run |-> r, number |-> from + n]
  BY <1>4, <1>6
<1>. QED
  BY <1>6, <1>7 DEF size, span

\* What the fan-out does to a subscription: what it has it keeps, in its order;
\* what it gets is new; and it gets all, or is revoked.
LEMMA OfferedEffect ==
  ASSUME NEW item \in Item, Len(item.queue) <= Queue, NEW new \in Seq(Place),
         NEW o, o = Offered(item, new)
  PROVE  /\ o \in Item /\ o.on = item.on
         /\ ~item.on => o = item
         /\ item.revoked => o.revoked
         /\ Len(o.queue) <= Queue
         /\ Len(item.queue) <= Len(o.queue)
         /\ \A n \in 1 .. Len(item.queue) : o.queue[n] = item.queue[n]
         /\ \A n \in 1 .. Len(o.queue) : n > Len(item.queue) =>
              /\ item.on /\ ~item.revoked
              /\ n - Len(item.queue) \in 1 .. Len(new)
              /\ o.queue[n] = new[n - Len(item.queue)]
         /\ item.on /\ ~o.revoked => Len(o.queue) = Len(item.queue) + Len(new)
<1> DEFINE queue == item.queue
<1>1. /\ queue \in Seq(Place) /\ Len(queue) \in Nat /\ Len(new) \in Nat /\ Queue \in Nat
      /\ item.on \in BOOLEAN /\ item.revoked \in BOOLEAN
  BY DEF Item
<1>2. CASE ~item.on \/ item.revoked
  <2>1. o = item
    BY <1>2 DEF Offered
  <2> HIDE DEF queue
  <2>. QED
    BY <1>1, <1>2, <2>1 DEF queue
<1>3. CASE item.on /\ ~item.revoked
  <2> DEFINE joined == queue \o new
             size   == IF Len(joined) < Queue THEN Len(joined) ELSE Queue
             fits   == Fits(queue \o new)
  <2>1. /\ joined \in Seq(Place) /\ Len(joined) = Len(queue) + Len(new)
        /\ \A n \in 1 .. Len(queue) : joined[n] = queue[n]
        /\ \A n \in 1 .. Len(joined) : n > Len(queue) =>
             n - Len(queue) \in 1 .. Len(new) /\ joined[n] = new[n - Len(queue)]
    <3> HIDE DEF queue
    <3>. QED
      BY <1>1
  <2>2. /\ fits = [n \in 1 .. size |-> joined[n]]
    BY DEF Fits
  <2> HIDE DEF queue, joined, fits
  <2>3. size \in Nat /\ size <= Queue /\ size <= Len(joined) /\ Len(queue) <= size
    BY <1>1, <2>1 DEF queue
  <2>4. \A n \in 1 .. size : n \in 1 .. Len(joined) /\ joined[n] \in Place
    BY <2>1, <2>3
  <2> HIDE DEF size
  <2>5. fits \in Seq(Place) /\ Len(fits) = size /\ \A n \in 1 .. size : fits[n] = joined[n]
    BY <2>2, <2>3, <2>4
  <2>6. o = [item EXCEPT !.queue = fits, !.revoked = Len(queue) + Len(new) > Queue]
    BY <1>3 DEF Offered, fits, queue
  <2>7. /\ o.on = item.on /\ o.queue = fits
        /\ o.revoked <=> Len(queue) + Len(new) > Queue
        /\ o \in Item
    <3> DEFINE full == Len(queue) + Len(new) > Queue
    <3>1. full \in BOOLEAN
      OBVIOUS
    <3> HIDE DEF full
    <3>2. o = [item EXCEPT !.queue = fits, !.revoked = full]
      BY <2>6 DEF full
    <3>3. o = [on |-> item.on, queue |-> fits, revoked |-> full]
      BY <3>2 DEF Item
    <3>4. o \in Item
      BY <1>1, <2>5, <3>1, <3>3 DEF Item
    <3>5. o.on = item.on /\ o.queue = fits /\ o.revoked = full
      BY <3>3
    <3>. QED
      BY <3>4, <3>5 DEF full
  <2>8. ~o.revoked => size = Len(joined)
    BY <1>1, <2>1, <2>7 DEF size
  <2>9. Len(o.queue) <= Queue /\ Len(queue) <= Len(o.queue)
    BY <2>3, <2>5, <2>7
  <2>10. \A n \in 1 .. Len(queue) : o.queue[n] = queue[n]
    BY <1>1, <2>1, <2>3, <2>5, <2>7 DEF queue
  <2>11. \A n \in 1 .. Len(o.queue) : n > Len(queue) =>
           n - Len(queue) \in 1 .. Len(new) /\ o.queue[n] = new[n - Len(queue)]
    BY <2>1, <2>4, <2>5, <2>7
  <2>12. ~o.revoked => Len(o.queue) = Len(queue) + Len(new)
    BY <2>1, <2>5, <2>7, <2>8
  <2>. QED
    BY <1>3, <2>7, <2>9, <2>10, <2>11, <2>12 DEF queue
<1>. QED
  BY <1>1, <1>2, <1>3

-------------------------------------------------------------------------------
\* The steps of a socket, by what they do to it.
Pcs == Loop \cup {"closed", "allowed", "subscribed"}

\* It goes on, and nothing else is different.
Plain(s) ==
  /\ UNCHANGED <<known, items, leaked, crossed>>
  /\ \E pc \in Pcs \ {"answered", "again", "answered again"} :
       /\ sock' = [sock EXCEPT ![s].pc = pc]
       /\ Open(s) <=> pc \in Loop \cup {"subscribed"}

\* It is closed, and has no subscription; its place may be lost.
Ends(s) ==
  /\ UNCHANGED <<known, crossed>>
  /\ items' = [items EXCEPT ![s] = None]
  /\ sock' = [sock EXCEPT ![s] = Closed]
  /\ leaked' = leaked \/ (Open(s) /\ leaked' = leaked + 1)

\* It gets a subscription.
Joins(s) ==
  /\ UNCHANGED <<known, leaked, crossed>>
  /\ sock[s].pc = "allowed"
  /\ Cardinality({t \in Sockets : items[t].on}) + leaked < PerUser
  /\ items' = [items EXCEPT ![s] = [None EXCEPT !.on = TRUE]]
  /\ sock' = [sock EXCEPT ![s].pc = "subscribed", ![s].place = known]

\* It sends the first record of its queue.
Takes(s) ==
  /\ UNCHANGED <<known, leaked, crossed>>
  /\ Open(s)
  /\ items[s].queue # <<>>
  /\ items' = [items EXCEPT ![s].queue = Tail(items[s].queue)]
  /\ sock' = [sock EXCEPT ![s].pc = "top", ![s].place = Head(items[s].queue)]

LEMMA SocketCases ==
  ASSUME TypeOK, QueueInv, SubscriptionsAreSockets,
         NEW s \in Sockets, Connect(s) \/ Socket(s) \/ Leave(s)
  PROVE  /\ UNCHANGED <<bounds, broker, rights>>
         /\ \/ Plain(s) \/ Ends(s) \/ Joins(s) \/ Takes(s)
            \/ Answer(s) \/ AskAgain(s) \/ Receive(s)
<1> DEFINE Case == /\ UNCHANGED <<bounds, broker, rights>>
                   /\ \/ Plain(s) \/ Ends(s) \/ Joins(s) \/ Takes(s)
                      \/ Answer(s) \/ AskAgain(s) \/ Receive(s)
<1>1. ASSUME NEW pc \in {"first", "top", "asking", "waiting"}, Open(s),
             Goes(s, pc), UNCHANGED <<known, items, leaked, crossed>>
      PROVE  Plain(s)
  BY <1>1 DEF Plain, Goes, Loop, Pcs
<1>2. ASSUME Closes(s), UNCHANGED <<known, leaked, crossed>> PROVE Ends(s)
  BY <1>2 DEF Ends, Closes
<1>3. CASE Connect(s)
  <2>1. /\ sock[s].pc = "closed" /\ sock' = [sock EXCEPT ![s].pc = "allowed"]
        /\ UNCHANGED <<known, items, leaked, crossed>>
    BY <1>3 DEF Connect, Goes, manager
  <2>2. ~Open(s) /\ "allowed" \notin Loop \cup {"subscribed"}
    BY <2>1 DEF Open, Loop
  <2>3. "allowed" \in Pcs \ {"answered", "again", "answered again"}
    BY DEF Pcs
  <2>4. Plain(s)
    BY <2>1, <2>2, <2>3 DEF Plain
  <2>. QED
    BY <1>3, <2>4 DEF Connect
<1>4. CASE Subscribe(s)
  <2>1. CASE Cardinality({t \in Sockets : items[t].on}) + leaked < PerUser
    BY <1>4, <2>1 DEF Subscribe, Joins
  <2>2. CASE ~(Cardinality({t \in Sockets : items[t].on}) + leaked < PerUser)
    <3>1. items[s] = None
      BY <1>4 DEF Subscribe, QueueInv, SubscriptionsAreSockets, Open, Loop
    <3>2. items = [items EXCEPT ![s] = None]
      BY <3>1 DEF TypeOK
    <3>. QED
      BY <1>4, <2>2, <3>2 DEF Subscribe, Ends
  <2>. QED
    BY <2>1, <2>2
<1>5. CASE Accept(s)
  BY <1>1, <1>5 DEF Accept, Open, manager
<1>6. CASE AcceptFails(s)
  BY <1>6 DEF AcceptFails, Ends, Open
<1>7. CASE Checks(s)
  BY <1>1, <1>2, <1>7 DEF Checks, Open, Loop
<1>8. CASE Looks(s)
  BY <1>1, <1>2, <1>8 DEF Looks, Open, Loop
<1>9. CASE AnswerFails(s)
  BY <1>1, <1>9 DEF AnswerFails, Open, Loop, manager
<1>10. CASE Send(s)
  <2>1. CASE items[s].queue = <<>>
    BY <1>1, <1>10, <2>1 DEF Send, Open, Loop
  <2>2. CASE items[s].queue # <<>>
    BY <1>10, <2>2 DEF Send, Takes, Open, Loop
  <2>. QED
    BY <1>10, <2>1, <2>2 DEF Send
<1>11. CASE Leave(s)
  BY <1>2, <1>11 DEF Leave
<1>12. CASE Answer(s) \/ AskAgain(s) \/ Receive(s)
  BY <1>12 DEF Answer, AskAgain, Receive
<1>. QED
  BY <1>3, <1>4, <1>5, <1>6, <1>7, <1>8, <1>9, <1>10, <1>11, <1>12
  DEF Socket, Subscribe, Accept, Connect, AcceptFails, Checks, Looks, AnswerFails, Send, Leave

\* Nothing that a socket is about is different.
Still == UNCHANGED <<known, items, leaked, sock, crossed>>

LEMMA OtherCases ==
  ASSUME TypeOK, [Next]_vars, ~\E s \in Sockets : Connect(s) \/ Socket(s) \/ Leave(s)
  PROVE  Still \/ DashboardRestarts \/ RevokeSubscriptions
<1>1. CASE Capture \/ SupervisorRestarts
  BY <1>1 DEF Capture, SupervisorRestarts, Still, manager
<1>2. CASE SetUserEnabled \/ Assign \/ RevokeAssignment \/ Override \/ Logout \/ Expire
  BY <1>2 DEF SetUserEnabled, Assign, RevokeAssignment, Override, Logout, Expire,
     Changes, Still, manager
<1>3. CASE UNCHANGED vars
  BY <1>3 DEF vars, Still, manager
<1>. QED
  BY <1>1, <1>2, <1>3 DEF Next, Access

\* The broker only grows.
LEMMA BrokerGrows ==
  ASSUME TypeOK, [Next]_vars
  PROVE  /\ bounds' = bounds
         /\ run <= run' /\ run' \in 1 .. bounds.runs
         /\ captured' \in [1 .. bounds.runs -> Number]
         /\ \A r \in 1 .. bounds.runs : captured[r] <= captured'[r]
<1>1. /\ bounds.runs \in Nat /\ bounds.records \in Nat /\ run \in 1 .. bounds.runs
      /\ captured \in [1 .. bounds.runs -> 0 .. bounds.records]
  BY BoundTypes DEF TypeOK, Number
<1>2. CASE Capture
  <2>1. /\ captured' = [captured EXCEPT ![run] = captured[run] + 1] /\ run' = run
        /\ captured[run] < bounds.records /\ bounds' = bounds
    BY <1>2 DEF Capture
  <2>. QED
    BY <1>1, <2>1 DEF Number
<1>3. CASE SupervisorRestarts
  BY <1>1, <1>3 DEF SupervisorRestarts, Number
<1>4. CASE bounds' = bounds /\ UNCHANGED broker
  BY <1>1, <1>4 DEF broker, Number
<1>5. ASSUME ~Capture, ~SupervisorRestarts PROVE bounds' = bounds /\ UNCHANGED broker
  <2>1. CASE DashboardRestarts \/ Access
    BY <2>1 DEF DashboardRestarts, Access, SetUserEnabled, Assign, RevokeAssignment,
       Override, Logout, Expire, Changes, RevokeSubscriptions
  <2>2. ASSUME NEW s \in Sockets, Connect(s) \/ Leave(s) \/ Socket(s)
        PROVE  bounds' = bounds /\ UNCHANGED broker
    BY <2>2 DEF Connect, Leave, Socket, Subscribe, Accept, AcceptFails, Checks, Looks,
       Answer, AnswerFails, AskAgain, Receive, Send
  <2>3. CASE UNCHANGED vars
    BY <2>3 DEF vars
  <2>. QED
    BY <1>5, <2>1, <2>2, <2>3 DEF Next
<1>. QED
  BY <1>2, <1>3, <1>4, <1>5

-------------------------------------------------------------------------------
\* The types of a socket after a step.
LEMMA LocalTypes ==
  ASSUME TypeOK
  PROVE  /\ \A l \in Local : \A pc \in Pcs : [l EXCEPT !.pc = pc] \in Local
         /\ \A l \in Local : \A pc \in Pcs : \A x \in Place :
              [l EXCEPT !.pc = pc, !.place = x] \in Local
         /\ \A l \in Local : \A pc \in Pcs : \A x \in Answers :
              [l EXCEPT !.pc = pc, !.answer = x] \in Local
         /\ \A l \in Local : \A pc \in Pcs : \A x \in Answers : \A a \in Number :
              [l EXCEPT !.pc = pc, !.after = a, !.answer = x] \in Local
         /\ \A l \in Local : \A pc \in Pcs : \A x \in Answers : \A a \in Number : \A r \in Runs :
              [l EXCEPT !.pc = pc, !.run = r, !.answer = x, !.after = a] \in Local
         /\ \A l \in Local : /\ l.pc \in Pcs /\ l.run \in Runs /\ l.after \in Number
                             /\ l.answer \in Answers /\ l.place \in Place
BY DEF Local, Pcs

\* What an answer that has records makes of the cursor and of the subscriptions.
LEMMA SharedTypes ==
  ASSUME TypeOK, QueueInv, NEW answer \in Answers
  PROVE  /\ answer.last \in Number /\ answer.first \in Number /\ answer.run \in Runs
         /\ Cursor(answer) \in Number
         /\ Beyond(answer) \in Seq(Place)
         /\ [run |-> answer.run, number |-> Later(Cursor(answer), answer.last)] \in Place
         /\ \A t \in Sockets : Offered(items[t], Beyond(answer)) \in Item
<1>1. answer.run \in Runs /\ answer.first \in Number /\ answer.last \in Number
  BY DEF Answers
<1>2. Cursor(answer) \in Number
  BY ConstantTypes DEF TypeOK, Place, Cursor
<1> DEFINE from == Later(Cursor(answer), answer.first)
<1>3. from \in Number /\ Later(Cursor(answer), answer.last) \in Number
  BY <1>1, <1>2 DEF Later
<1>4. Beyond(answer) \in Seq(Place)
  <2> HIDE DEF from
  <2>. QED
    BY <1>1, <1>3, SpanEffect DEF Beyond, from
<1>5. ASSUME NEW t \in Sockets
      PROVE  Offered(items[t], Beyond(answer)) \in Item
  <2>1. items[t] \in Item /\ Len(items[t].queue) <= Queue
    BY DEF TypeOK, QueueInv
  <2>. QED
    BY <1>4, <2>1, OfferedEffect
<1>. QED
  BY <1>1, <1>2, <1>3, <1>4, <1>5 DEF Place

\* The types of what the sockets are about.
Typed ==
  /\ known' \in Place
  /\ items' \in [Sockets -> Item]
  /\ leaked' \in 0 .. PerUser
  /\ sock' \in [Sockets -> Local]
  /\ crossed' \in BOOLEAN

LEMMA SocketTyped ==
  ASSUME TypeOK, QueueInv, SubscriptionsAreSockets,
         NEW s \in Sockets, Connect(s) \/ Socket(s) \/ Leave(s)
  PROVE  Typed
<1>1. /\ known \in Place /\ items \in [Sockets -> Item] /\ leaked \in 0 .. PerUser
      /\ sock \in [Sockets -> Local] /\ crossed \in BOOLEAN
      /\ items[s] \in Item /\ sock[s] \in Local
      /\ None \in Item /\ [None EXCEPT !.on = TRUE] \in Item /\ Closed \in Local
      /\ Closed.answer \in Answers /\ 0 \in Number
  BY ConstantTypes, LocalTypes DEF TypeOK
<1>2. CASE Plain(s)
  <2>1. PICK pc \in Pcs : sock' = [sock EXCEPT ![s].pc = pc]
    BY <1>2 DEF Plain
  <2>2. [sock[s] EXCEPT !.pc = pc] \in Local
    BY <1>1, LocalTypes
  <2>3. sock' \in [Sockets -> Local]
    BY <1>1, <2>1, <2>2
  <2>. QED
    BY <1>1, <1>2, <2>3 DEF Plain, Typed
<1>3. CASE Ends(s)
  <2>1. leaked' \in 0 .. PerUser
    <3>1. CASE ~Open(s)
      BY <1>1, <1>3, <3>1 DEF Ends
    <3>2. CASE Open(s)
      <4> DEFINE on == {t \in Sockets : items[t].on}
      <4>1. s \in on /\ Cardinality(on) + leaked <= PerUser
        BY <3>2 DEF SubscriptionsAreSockets
      <4>2. IsFiniteSet(on)
        BY FS_Subset
      <4> HIDE DEF on
      <4>3. Cardinality(on) \in Nat /\ Cardinality(on) # 0
        BY <4>1, <4>2, FS_CardinalityType, FS_EmptySet
      <4>. QED
        BY <1>1, <1>3, <4>1, <4>3 DEF Ends
    <3>. QED
      BY <3>1, <3>2
  <2>. QED
    BY <1>1, <1>3, <2>1 DEF Ends, Typed
<1>4. CASE Joins(s)
  <2>1. [sock[s] EXCEPT !.pc = "subscribed", !.place = known] \in Local
    <3>1. "subscribed" \in Pcs
      BY DEF Pcs
    <3>. QED
      BY <1>1, <3>1, LocalTypes
  <2>2. sock' \in [Sockets -> Local]
    BY <1>1, <1>4, <2>1 DEF Joins
  <2>3. items' \in [Sockets -> Item]
    BY <1>1, <1>4 DEF Joins
  <2>. QED
    BY <1>1, <1>4, <2>2, <2>3 DEF Joins, Typed
<1>5. CASE Takes(s)
  <2>1. /\ items[s].queue \in Seq(Place) /\ items[s].queue # <<>>
        /\ Head(items[s].queue) \in Place /\ Tail(items[s].queue) \in Seq(Place)
    BY <1>1, <1>5 DEF Item, Takes
  <2>2. [sock[s] EXCEPT !.pc = "top", !.place = Head(items[s].queue)] \in Local
    <3>1. "top" \in Pcs
      BY DEF Pcs, Loop
    <3>. QED
      BY <1>1, <2>1, <3>1, LocalTypes
  <2>3. [items[s] EXCEPT !.queue = Tail(items[s].queue)] \in Item
    BY <1>1, <2>1 DEF Item
  <2>4. sock' \in [Sockets -> Local]
    BY <1>1, <1>5, <2>2 DEF Takes
  <2>5. items' \in [Sockets -> Item]
    BY <1>1, <1>5, <2>3 DEF Takes
  <2>. QED
    BY <1>1, <1>5, <2>4, <2>5 DEF Takes, Typed
<1>6. CASE Answer(s)
  <2> DEFINE pc == IF sock[s].pc = "asking" THEN "answered" ELSE "answered again"
             answer == Records(sock[s].after)
  <2>1. pc \in Pcs
    BY DEF Pcs, Loop
  <2>2. answer \in Answers
    BY <1>1, LocalTypes, RecordsTypes
  <2> HIDE DEF pc, answer
  <2>3. [sock[s] EXCEPT !.pc = pc, !.answer = answer] \in Local
    BY <1>1, <2>1, <2>2, LocalTypes
  <2>4. sock' = [sock EXCEPT ![s].pc = pc, ![s].answer = answer]
    BY <1>6 DEF Answer, pc, answer
  <2>5. sock' \in [Sockets -> Local]
    BY <1>1, <2>3, <2>4
  <2>. QED
    BY <1>1, <1>6, <2>5 DEF Answer, manager, Typed
<1>7. CASE AskAgain(s)
  <2>1. [sock[s] EXCEPT !.pc = "again", !.after = 0, !.answer = Closed.answer] \in Local
    <3>1. "again" \in Pcs
      BY DEF Pcs, Loop
    <3>. QED
      BY <1>1, <3>1, LocalTypes
  <2>2. sock' \in [Sockets -> Local]
    BY <1>1, <1>7, <2>1 DEF AskAgain
  <2>. QED
    BY <1>1, <1>7, <2>2 DEF AskAgain, manager, Typed
<1>8. CASE Receive(s)
  <2>1. PICK answer : answer = sock[s].answer
    OBVIOUS
  <2>2. PICK after : after = IF NoRecords(answer) THEN sock[s].after ELSE answer.last
    OBVIOUS
  <2>3. /\ answer \in Answers /\ after \in Number /\ answer.run \in Runs
        /\ sock[s].after \in Number
    BY <1>1, <2>1, <2>2, LocalTypes DEF Answers
  <2>4. [sock[s] EXCEPT !.pc = "waiting", !.run = answer.run,
                        !.answer = Closed.answer, !.after = after] \in Local
    <3>1. "waiting" \in Pcs
      BY DEF Pcs, Loop
    <3>. QED
      BY <1>1, <2>3, <3>1, LocalTypes
  <2>5. sock' = [sock EXCEPT ![s] =
          [sock[s] EXCEPT !.pc = "waiting", !.run = answer.run,
                          !.answer = Closed.answer, !.after = after]]
    BY <1>8, <2>1, <2>2 DEF Receive
  <2>6. sock' \in [Sockets -> Local]
    BY <1>1, <2>4, <2>5
  <2>7. Share(answer) /\ leaked' = leaked
    BY <1>8, <2>1 DEF Receive
  <2>8. CASE NoRecords(answer)
    BY <1>1, <2>6, <2>7, <2>8 DEF Share, Typed
  <2>9. CASE ~NoRecords(answer)
    <3>1. /\ known' = [run |-> answer.run, number |-> Later(Cursor(answer), answer.last)]
          /\ items' = [t \in Sockets |-> Offered(items[t], Beyond(answer))]
      BY <2>7, <2>9 DEF Share
    <3>2. crossed' \in BOOLEAN
      BY <2>7, <2>9 DEF Share
    <3>3. known' \in Place /\ items' \in [Sockets -> Item]
      BY <2>3, <3>1, SharedTypes
    <3>. QED
      BY <1>1, <2>6, <2>7, <3>2, <3>3 DEF Typed
  <2>. QED
    BY <2>8, <2>9
<1>. QED
  BY <1>2, <1>3, <1>4, <1>5, <1>6, <1>7, <1>8, SocketCases

LEMMA InitTyped == Init => TypeOK /\ QueueInv /\ SubscriptionsAreSockets
<1> SUFFICES ASSUME Init PROVE TypeOK /\ QueueInv /\ SubscriptionsAreSockets
  OBVIOUS
<1>1. bounds \in Sizes /\ bounds.runs \in Nat \ {0} /\ bounds.records \in Nat
      /\ bounds.changes \in Nat
  BY BoundTypes DEF Init
<1>2. 0 \in Runs /\ 0 \in Number
  BY <1>1 DEF Runs, Number
<1>3. [run |-> 0, number |-> 0] \in Place /\ [run |-> 0, first |-> 0, last |-> 0] \in Answers
  BY <1>2 DEF Place, Answers
<1>4. Closed \in Local
  BY <1>2, <1>3 DEF Closed, Local
<1>5. None \in Item
  <2>1. <<>> \in Seq(Place)
    OBVIOUS
  <2>. QED
    BY <2>1 DEF None, Item
<1>6. /\ run \in 1 .. bounds.runs /\ captured \in [1 .. bounds.runs -> Number]
      /\ leaked \in 0 .. PerUser /\ owner \in {"idle", "revoke"}
      /\ changes \in 0 .. bounds.changes /\ crossed \in BOOLEAN
  <2>1. run \in 1 .. bounds.runs /\ changes \in 0 .. bounds.changes
    BY <1>1 DEF Init
  <2>2. captured \in [1 .. bounds.runs -> Number]
    BY <1>2 DEF Init
  <2>3. leaked \in 0 .. PerUser
    <3>1. PerUser \in Nat
      OBVIOUS
    <3>. QED
      BY <3>1 DEF Init
  <2>. QED
    BY <2>1, <2>2, <2>3 DEF Init
<1>7. access \in Grants
  BY DEF Init, Grants
<1>8. known \in Place /\ items \in [Sockets -> Item] /\ sock \in [Sockets -> Local]
  BY <1>3, <1>4, <1>5 DEF Init
<1>9. QueueInv
  BY DEF Init, QueueInv, None
<1>10. SubscriptionsAreSockets
  <2>1. {s \in Sockets : items[s].on} = {}
    BY DEF Init, None
  <2>2. \A s \in Sockets : ~items[s].on /\ ~Open(s)
    BY DEF Init, None, Closed, Open, Loop
  <2>3. leaked = 0 /\ PerUser \in Nat
    BY DEF Init
  <2>. QED
    <3>1. Cardinality({s \in Sockets : items[s].on}) = 0
      BY <2>1, FS_EmptySet, Zenon
    <3>. QED
      BY <2>2, <2>3, <3>1 DEF SubscriptionsAreSockets
<1>. QED
  BY <1>1, <1>6, <1>7, <1>8, <1>9, <1>10 DEF TypeOK

\* The access, and the request of the owner.
LEMMA RightsTyped ==
  ASSUME TypeOK, [Next]_vars
  PROVE  /\ access' \in Grants
         /\ owner' \in {"idle", "revoke"}
         /\ changes' \in 0 .. bounds.changes
<1>1. /\ access \in Grants /\ owner \in {"idle", "revoke"} /\ changes \in 0 .. bounds.changes
      /\ bounds.changes \in Nat
  BY BoundTypes DEF TypeOK
<1>2. ASSUME NEW next \in Grants, NEW then \in {"idle", "revoke"}, Changes(next, then)
      PROVE  /\ access' \in Grants /\ owner' \in {"idle", "revoke"}
             /\ changes' \in 0 .. bounds.changes
  BY <1>1, <1>2 DEF Changes
<1>3. /\ \A b \in BOOLEAN : [access EXCEPT !.enabled = b] \in Grants
      /\ \A b \in BOOLEAN : [access EXCEPT !.session = b] \in Grants
      /\ \A a \in {"none", "disabled", "enabled"} : [access EXCEPT !.assigned = a] \in Grants
  BY <1>1 DEF Grants
<1>4. \A key \in Keys : \A state \in {"inherit", "allow", "deny"} :
        [access EXCEPT !.override[key] = state] \in Grants
  BY <1>1 DEF Grants
<1>5. CASE SetUserEnabled
  BY <1>2, <1>3, <1>5 DEF SetUserEnabled
<1>6. CASE Assign \/ RevokeAssignment
  BY <1>2, <1>3, <1>6 DEF Assign, RevokeAssignment
<1>7. CASE Override
  BY <1>2, <1>4, <1>7 DEF Override
<1>8. CASE Logout \/ Expire
  BY <1>2, <1>3, <1>8 DEF Logout, Expire
<1>9. CASE DashboardRestarts \/ RevokeSubscriptions
  BY <1>1, <1>9 DEF DashboardRestarts, RevokeSubscriptions
<1>10. CASE Capture \/ SupervisorRestarts \/ UNCHANGED vars
  BY <1>1, <1>10 DEF Capture, SupervisorRestarts, vars, rights
<1>11. ASSUME NEW s \in Sockets, Connect(s) \/ Socket(s) \/ Leave(s) PROVE UNCHANGED rights
  BY <1>11 DEF Connect, Leave, Socket, Subscribe, Accept, AcceptFails, Checks, Looks,
     Answer, AnswerFails, AskAgain, Receive, Send
<1>12. CASE UNCHANGED rights
  BY <1>1, <1>12 DEF rights
<1>. QED
  BY <1>5, <1>6, <1>7, <1>8, <1>9, <1>10, <1>11, <1>12 DEF Next, Access

LEMMA NextTyped ==
  ASSUME TypeOK, QueueInv, SubscriptionsAreSockets, [Next]_vars PROVE TypeOK'
<1>1. /\ known \in Place /\ items \in [Sockets -> Item] /\ leaked \in 0 .. PerUser
      /\ sock \in [Sockets -> Local] /\ crossed \in BOOLEAN
      /\ None \in Item /\ Closed \in Local /\ 0 \in Runs /\ 0 \in Number /\ PerUser \in Nat
  BY ConstantTypes DEF TypeOK
<1>2. Typed
  <2>1. CASE \E s \in Sockets : Connect(s) \/ Socket(s) \/ Leave(s)
    BY <2>1, SocketTyped
  <2>2. CASE Still
    BY <1>1, <2>2 DEF Still, Typed
  <2>3. CASE DashboardRestarts
    <3>1. [run |-> 0, number |-> 0] \in Place
      BY <1>1 DEF Place
    <3>2. items' \in [Sockets -> Item] /\ sock' \in [Sockets -> Local]
      BY <1>1, <2>3 DEF DashboardRestarts
    <3>3. known' \in Place /\ crossed' \in BOOLEAN
      BY <2>3, <3>1 DEF DashboardRestarts
    <3>4. leaked' \in 0 .. PerUser
      <4>1. leaked' = 0
        BY <2>3 DEF DashboardRestarts
      <4>. QED
        BY <1>1, <4>1
    <3>. QED
      BY <3>2, <3>3, <3>4 DEF Typed
  <2>4. CASE RevokeSubscriptions
    <3>1. \A i \in Item : [i EXCEPT !.revoked = TRUE] \in Item
      BY DEF Item
    <3>2. items' \in [Sockets -> Item]
      BY <1>1, <2>4, <3>1 DEF RevokeSubscriptions
    <3>. QED
      BY <1>1, <2>4, <3>2 DEF RevokeSubscriptions, Typed
  <2>. QED
    BY <2>1, <2>2, <2>3, <2>4, OtherCases
<1>3. /\ bounds' = bounds /\ run' \in 1 .. bounds.runs
      /\ captured' \in [1 .. bounds.runs -> Number]
  BY BrokerGrows
<1>4. bounds' \in Sizes /\ Number' = Number /\ Place' = Place /\ Item' = Item /\ Local' = Local
  BY <1>3, SetsKept DEF TypeOK
<1>. QED
  BY <1>2, <1>3, <1>4, RightsTyped DEF TypeOK, Typed

LEMMA NextQueues ==
  ASSUME TypeOK, QueueInv, SubscriptionsAreSockets, [Next]_vars PROVE QueueInv'
<1>1. /\ items \in [Sockets -> Item] /\ Queue \in Nat
      /\ \A t \in Sockets : /\ items[t] \in Item /\ Len(items[t].queue) <= Queue
                            /\ ~items[t].on => items[t] = None
  BY DEF TypeOK, QueueInv
<1>2. Len(None.queue) <= Queue /\ Len([None EXCEPT !.on = TRUE].queue) <= Queue
      /\ [None EXCEPT !.on = TRUE].on
  BY <1>1 DEF None
<1>3. ASSUME items' = items PROVE QueueInv'
  BY <1>3 DEF QueueInv
<1>4. ASSUME NEW s \in Sockets, Connect(s) \/ Socket(s) \/ Leave(s) PROVE QueueInv'
  <2>1. CASE Plain(s) \/ Answer(s) \/ AskAgain(s)
    BY <1>3, <2>1 DEF Plain, Answer, AskAgain, manager
  <2>2. CASE Ends(s)
    BY <1>1, <1>2, <2>2 DEF Ends, QueueInv
  <2>3. CASE Joins(s)
    BY <1>1, <1>2, <2>3 DEF Joins, QueueInv
  <2>4. CASE Takes(s)
    <3>1. /\ items[s].on
          /\ items[s].queue \in Seq(Place) /\ items[s].queue # <<>>
      BY <1>1, <2>4 DEF Takes, SubscriptionsAreSockets, Item
    <3>2. Len(Tail(items[s].queue)) <= Queue
      BY <1>1, <3>1
    <3>3. items'[s].on /\ items'[s].queue = Tail(items[s].queue)
      BY <1>1, <2>4, <3>1 DEF Takes, Item
    <3>4. \A t \in Sockets : t # s => items'[t] = items[t]
      BY <1>1, <2>4 DEF Takes
    <3>. QED
      BY <1>1, <3>2, <3>3, <3>4 DEF QueueInv
  <2>5. CASE Receive(s)
    <3>1. PICK answer : answer = sock[s].answer
      OBVIOUS
    <3>2. answer \in Answers /\ Share(answer)
      BY <2>5, <3>1, LocalTypes DEF TypeOK, Receive
    <3>3. CASE NoRecords(answer)
      BY <1>3, <3>2, <3>3 DEF Share
    <3>4. CASE ~NoRecords(answer)
      <4>1. \A t \in Sockets : items'[t] = Offered(items[t], Beyond(answer))
        BY <3>2, <3>4 DEF Share
      <4>2. \A t \in Sockets : /\ Len(items'[t].queue) <= Queue
                               /\ items'[t].on = items[t].on
                               /\ ~items[t].on => items'[t] = items[t]
        <5>1. Beyond(answer) \in Seq(Place)
          BY <3>2, SharedTypes
        <5>. QED
          BY <1>1, <4>1, <5>1, OfferedEffect
      <4>. QED
        BY <1>1, <4>2 DEF QueueInv
    <3>. QED
      BY <3>3, <3>4
  <2>. QED
    BY <1>4, <2>1, <2>2, <2>3, <2>4, <2>5, SocketCases
<1>5. CASE Still
  BY <1>3, <1>5 DEF Still
<1>6. CASE DashboardRestarts
  BY <1>2, <1>6 DEF DashboardRestarts, QueueInv
<1>7. CASE RevokeSubscriptions
  <2>1. \A i \in Item : [i EXCEPT !.revoked = TRUE].queue = i.queue
                        /\ [i EXCEPT !.revoked = TRUE].on = i.on
    BY DEF Item
  <2>2. \A t \in Sockets :
          items'[t] = IF items[t].on THEN [items[t] EXCEPT !.revoked = TRUE] ELSE items[t]
    BY <1>7 DEF RevokeSubscriptions
  <2>. QED
    BY <1>1, <2>1, <2>2 DEF QueueInv
<1>. QED
  BY <1>4, <1>5, <1>6, <1>7, OtherCases

-------------------------------------------------------------------------------
\* The subscriptions are the sockets'.

LEMMA OnKept ==
  ASSUME SubscriptionsAreSockets, leaked' = leaked,
         \A t \in Sockets : (items'[t].on <=> items[t].on) /\ (Open(t)' <=> Open(t))
  PROVE  SubscriptionsAreSockets'
<1>1. {t \in Sockets : items'[t].on} = {t \in Sockets : items[t].on}
  OBVIOUS
<1>. QED
  BY <1>1 DEF SubscriptionsAreSockets

LEMMA NextSubscriptions ==
  ASSUME TypeOK, QueueInv, SubscriptionsAreSockets, [Next]_vars PROVE SubscriptionsAreSockets'
<1> DEFINE on == {t \in Sockets : items[t].on}
<1>1. /\ items \in [Sockets -> Item] /\ sock \in [Sockets -> Local]
      /\ leaked \in Nat /\ PerUser \in Nat
      /\ \A t \in Sockets : items[t] \in Item /\ sock[t] \in Local
      /\ \A t \in Sockets : items[t].on <=> Open(t)
      /\ Cardinality(on) + leaked <= PerUser
  BY DEF TypeOK, SubscriptionsAreSockets
<1>2. IsFiniteSet(on) /\ Cardinality(on) \in Nat
  BY FS_Subset, FS_CardinalityType
<1>3. ASSUME items' = items, sock' = sock, leaked' = leaked PROVE SubscriptionsAreSockets'
  BY <1>3, OnKept DEF Open
<1>4. ASSUME NEW s \in Sockets, Connect(s) \/ Socket(s) \/ Leave(s) PROVE SubscriptionsAreSockets'
  <2>1. CASE Plain(s)
    <3>1. \A t \in Sockets : Open(t)' <=> Open(t)
      <4>1. PICK pc : /\ sock' = [sock EXCEPT ![s].pc = pc]
                      /\ Open(s) <=> pc \in Loop \cup {"subscribed"}
        BY <2>1 DEF Plain
      <4>2. /\ sock'[s].pc = pc
            /\ \A t \in Sockets : t # s => sock'[t] = sock[t]
        BY <1>1, <4>1 DEF Local
      <4>. QED
        BY <4>1, <4>2 DEF Open
    <3>. QED
      BY <2>1, <3>1, OnKept DEF Plain
  <2>2. CASE Answer(s) \/ AskAgain(s)
    <3>1. \A t \in Sockets : Open(t)' <=> Open(t)
      <4>1. /\ sock[s].pc \in Loop /\ sock'[s].pc \in Loop
            /\ \A t \in Sockets : t # s => sock'[t] = sock[t]
        <5>1. CASE Answer(s)
          <6>1. sock[s].pc \in {"asking", "again"}
            BY <5>1 DEF Answer
          <6>2. sock'[s].pc \in {"answered", "answered again"}
            BY <1>1, <5>1 DEF Answer, Local
          <6>3. \A t \in Sockets : t # s => sock'[t] = sock[t]
            BY <1>1, <5>1 DEF Answer
          <6>. QED
            BY <6>1, <6>2, <6>3 DEF Loop
        <5>2. CASE AskAgain(s)
          BY <1>1, <5>2 DEF AskAgain, Local, Loop
        <5>. QED
          BY <2>2, <5>1, <5>2
      <4>. QED
        BY <4>1 DEF Open
    <3>. QED
      BY <2>2, <3>1, OnKept DEF Answer, AskAgain, manager
  <2>3. CASE Takes(s)
    <3>1. \A t \in Sockets : Open(t)' <=> Open(t)
      BY <1>1, <2>3 DEF Takes, Open, Local, Loop
    <3>2. \A t \in Sockets : items'[t].on <=> items[t].on
      BY <1>1, <2>3 DEF Takes, Item
    <3>. QED
      BY <2>3, <3>1, <3>2, OnKept DEF Takes
  <2>4. CASE Receive(s)
    <3>1. PICK answer : answer = sock[s].answer
      OBVIOUS
    <3>2. answer \in Answers /\ Share(answer) /\ leaked' = leaked
      BY <1>1, <2>4, <3>1, LocalTypes DEF Receive
    <3>3. \A t \in Sockets : Open(t)' <=> Open(t)
      BY <1>1, <2>4 DEF Receive, Open, Local, Loop
    <3>4. \A t \in Sockets : items'[t].on <=> items[t].on
      <4>1. CASE NoRecords(answer)
        BY <3>2, <4>1 DEF Share
      <4>2. CASE ~NoRecords(answer)
        <5>1. \A t \in Sockets : items'[t] = Offered(items[t], Beyond(answer))
          BY <3>2, <4>2 DEF Share
        <5>2. Beyond(answer) \in Seq(Place) /\ \A t \in Sockets : Len(items[t].queue) <= Queue
          BY <3>2, SharedTypes DEF QueueInv
        <5>. QED
          BY <1>1, <5>1, <5>2, OfferedEffect
      <4>. QED
        BY <4>1, <4>2
    <3>. QED
      BY <3>2, <3>3, <3>4, OnKept
  <2>5. CASE Joins(s)
    <3>1. s \notin on /\ Cardinality(on) + leaked < PerUser /\ leaked' = leaked
      BY <1>1, <2>5 DEF Joins, Open, Loop
    <3>2. {t \in Sockets : items'[t].on} = on \cup {s}
      BY <1>1, <2>5 DEF Joins, None
    <3>3. \A t \in Sockets : items'[t].on <=> Open(t)'
      BY <1>1, <2>5 DEF Joins, None, Open, Local
    <3>4. Cardinality({t \in Sockets : items'[t].on}) = Cardinality(on) + 1
      <4> HIDE DEF on
      <4>. QED
        BY <1>2, <3>1, <3>2, FS_AddElement
    <3>5. Cardinality({t \in Sockets : items'[t].on}) + leaked' <= PerUser
      BY <1>1, <1>2, <3>1, <3>4
    <3>. QED
      BY <3>3, <3>5 DEF SubscriptionsAreSockets
  <2>6. CASE Ends(s)
    <3>1. \A t \in Sockets : items'[t].on <=> Open(t)'
      BY <1>1, <2>6 DEF Ends, None, Closed, Open, Loop
    <3>2. {t \in Sockets : items'[t].on} = on \ {s}
      BY <1>1, <2>6 DEF Ends, None
    <3>3. Cardinality(on \ {s}) + leaked' <= PerUser
      <4> HIDE DEF on
      <4>1. CASE s \in on
        <5>1. Cardinality(on \ {s}) = Cardinality(on) - 1
          BY <1>2, <4>1, FS_RemoveElement
        <5>. QED
          BY <1>1, <1>2, <2>6, <5>1 DEF Ends
      <4>2. CASE s \notin on
        <5>1. on \ {s} = on /\ ~Open(s)
          BY <1>1, <4>2 DEF on
        <5>. QED
          BY <1>1, <2>6, <5>1 DEF Ends
      <4>. QED
        BY <4>1, <4>2
    <3>. QED
      BY <3>1, <3>2, <3>3 DEF SubscriptionsAreSockets
  <2>. QED
    BY <1>4, <2>1, <2>2, <2>3, <2>4, <2>5, <2>6, SocketCases
<1>5. CASE Still
  BY <1>3, <1>5 DEF Still
<1>6. CASE DashboardRestarts
  <2>1. {t \in Sockets : items'[t].on} = {} /\ leaked' = 0
    BY <1>6 DEF DashboardRestarts, None
  <2>2. \A t \in Sockets : items'[t].on <=> Open(t)'
    BY <1>6 DEF DashboardRestarts, None, Closed, Open, Loop
  <2>. QED
    <3>1. Cardinality({t \in Sockets : items'[t].on}) = 0
      BY <2>1, FS_EmptySet, Zenon
    <3>. QED
      BY <1>1, <2>1, <2>2, <3>1 DEF SubscriptionsAreSockets
<1>7. CASE RevokeSubscriptions
  <2>1. \A i \in Item : [i EXCEPT !.revoked = TRUE].on = i.on
    BY DEF Item
  <2>2. \A t \in Sockets : items'[t].on <=> items[t].on
    BY <1>1, <1>7, <2>1 DEF RevokeSubscriptions
  <2>3. sock' = sock /\ leaked' = leaked
    BY <1>7 DEF RevokeSubscriptions
  <2>. QED
    BY <2>2, <2>3, OnKept DEF Open
<1>. QED
  BY <1>4, <1>5, <1>6, <1>7, OtherCases

-------------------------------------------------------------------------------
\* What a step leaves of the queue of each socket.

LEMMA ChainIs ==
  ASSUME NEW s \in Sockets
  PROVE  /\ \A n \in 0 .. Len(items[s].queue) :
              Chain(s)[n] = IF n = 0 THEN sock[s].place ELSE items[s].queue[n]
         /\ \A n \in 0 .. Len(items'[s].queue) :
              Chain(s)'[n] = IF n = 0 THEN sock'[s].place ELSE items'[s].queue[n]
BY DEF Chain

Kept(s) ==
  /\ items'[s].queue = items[s].queue /\ sock'[s].place = sock[s].place
  /\ items'[s].on /\ ~items'[s].revoked => items[s].on /\ ~items[s].revoked

Gone(s) == items'[s] = None /\ sock'[s] = Closed

Fresh(s) == items'[s].queue = <<>> /\ sock'[s].place = known

Sent(s) ==
  /\ items[s].queue # <<>> /\ items'[s].queue = Tail(items[s].queue)
  /\ sock'[s].place = Head(items[s].queue)
  /\ items'[s].on /\ ~items'[s].revoked => items[s].on /\ ~items[s].revoked

LEMMA Shapes ==
  ASSUME TypeOK, QueueInv, SubscriptionsAreSockets, [Next]_vars,
         ~\E s \in Sockets : Receive(s)
  PROVE  /\ \A t \in Sockets : Kept(t) \/ Gone(t) \/ Fresh(t) \/ Sent(t)
         /\ \/ known' = known /\ crossed' = crossed
            \/ \A t \in Sockets : Gone(t)
<1>1. /\ items \in [Sockets -> Item] /\ sock \in [Sockets -> Local]
      /\ \A t \in Sockets : items[t] \in Item /\ sock[t] \in Local
  BY DEF TypeOK
<1> DEFINE Goal == /\ \A t \in Sockets : Kept(t) \/ Gone(t) \/ Fresh(t) \/ Sent(t)
                   /\ \/ known' = known /\ crossed' = crossed
                      \/ \A t \in Sockets : Gone(t)
<1>2. ASSUME NEW s \in Sockets, Connect(s) \/ Socket(s) \/ Leave(s) PROVE Goal
  <2>1. ASSUME NEW t \in Sockets, items'[t] = items[t], sock'[t] = sock[t] PROVE Kept(t)
    BY <2>1 DEF Kept
  <2>2. CASE Plain(s)
    <3>1. PICK pc : sock' = [sock EXCEPT ![s].pc = pc]
      BY <2>2 DEF Plain
    <3>2. /\ sock'[s].place = sock[s].place
          /\ \A t \in Sockets : t # s => sock'[t] = sock[t]
      BY <1>1, <3>1 DEF Local
    <3>. QED
      BY <2>1, <2>2, <3>2 DEF Plain, Kept
  <2>3. CASE Answer(s) \/ AskAgain(s)
    <3>1. /\ sock'[s].place = sock[s].place
          /\ \A t \in Sockets : t # s => sock'[t] = sock[t]
      <4>1. CASE Answer(s)
        BY <1>1, <4>1 DEF Answer, Local
      <4>2. CASE AskAgain(s)
        BY <1>1, <4>2 DEF AskAgain, Local
      <4>. QED
        BY <2>3, <4>1, <4>2
    <3>. QED
      BY <2>1, <2>3, <3>1 DEF Answer, AskAgain, manager, Kept
  <2>4. CASE Ends(s)
    <3>1. Gone(s) /\ \A t \in Sockets : t # s => items'[t] = items[t] /\ sock'[t] = sock[t]
      BY <1>1, <2>4 DEF Ends, Gone
    <3>. QED
      BY <2>1, <2>4, <3>1 DEF Ends
  <2>5. CASE Joins(s)
    <3>1. Fresh(s) /\ \A t \in Sockets : t # s => items'[t] = items[t] /\ sock'[t] = sock[t]
      BY <1>1, <2>5 DEF Joins, Fresh, None, Local
    <3>. QED
      BY <2>1, <2>5, <3>1 DEF Joins
  <2>6. CASE Takes(s)
    <3>1. \A t \in Sockets : t # s => items'[t] = items[t] /\ sock'[t] = sock[t]
      BY <1>1, <2>6 DEF Takes
    <3>2. /\ items'[s].queue = Tail(items[s].queue) /\ sock'[s].place = Head(items[s].queue)
          /\ items'[s].on = items[s].on /\ items'[s].revoked = items[s].revoked
      BY <1>1, <2>6 DEF Takes, Item, Local
    <3>3. Sent(s)
      BY <2>6, <3>2 DEF Takes, Sent
    <3>. QED
      BY <2>1, <2>6, <3>1, <3>3 DEF Takes
  <2>. QED
    BY <1>2, <2>2, <2>3, <2>4, <2>5, <2>6, SocketCases
<1>3. CASE Still
  BY <1>3 DEF Still, Kept
<1>4. CASE DashboardRestarts
  BY <1>4 DEF DashboardRestarts, Gone
<1>5. CASE RevokeSubscriptions
  <2>1. \A i \in Item : [i EXCEPT !.revoked = TRUE].queue = i.queue
                        /\ [i EXCEPT !.revoked = TRUE].on = i.on
                        /\ [i EXCEPT !.revoked = TRUE].revoked
    BY DEF Item
  <2>2. ASSUME NEW t \in Sockets PROVE Kept(t)
    <3>1. items'[t] = IF items[t].on THEN [items[t] EXCEPT !.revoked = TRUE] ELSE items[t]
      BY <1>5 DEF RevokeSubscriptions
    <3>2. sock' = sock
      BY <1>5 DEF RevokeSubscriptions
    <3>. QED
      BY <1>1, <2>1, <3>1, <3>2 DEF Kept
  <2>. QED
    BY <1>5, <2>2 DEF RevokeSubscriptions
<1>. QED
  BY <1>2, <1>3, <1>4, <1>5, OtherCases

\* What a socket that receives an answer leaves of the others, and of itself.
LEMMA ReceiveShape ==
  ASSUME TypeOK, QueueInv, NEW s \in Sockets, Receive(s),
         NEW answer, answer = sock[s].answer
  PROVE  /\ answer \in Answers
         /\ \A t \in Sockets : sock'[t].place = sock[t].place
         /\ NoRecords(answer) => UNCHANGED <<known, items, crossed>>
         /\ ~NoRecords(answer) =>
              /\ known' = [run |-> answer.run, number |-> Later(Cursor(answer), answer.last)]
              /\ crossed' = (crossed \/ answer.run < known.run)
              /\ \A t \in Sockets : items'[t] = Offered(items[t], Beyond(answer))
<1>1. sock \in [Sockets -> Local] /\ sock[s] \in Local /\ answer \in Answers
  BY LocalTypes DEF TypeOK
<1>2. PICK after : after = IF NoRecords(answer) THEN sock[s].after ELSE answer.last
  OBVIOUS
<1>3. sock' = [sock EXCEPT ![s] =
          [sock[s] EXCEPT !.pc = "waiting", !.run = answer.run,
                          !.answer = Closed.answer, !.after = after]]
  BY <1>2 DEF Receive
<1>4. \A t \in Sockets : sock'[t].place = sock[t].place
  BY <1>1, <1>3 DEF Local
<1>5. Share(answer)
  BY DEF Receive
<1>6. ~NoRecords(answer) => \A t \in Sockets : items'[t] = Offered(items[t], Beyond(answer))
  BY <1>5 DEF Share
<1>7. /\ NoRecords(answer) => UNCHANGED <<known, items, crossed>>
      /\ ~NoRecords(answer) =>
           /\ known' = [run |-> answer.run, number |-> Later(Cursor(answer), answer.last)]
           /\ crossed' = (crossed \/ answer.run < known.run)
  BY <1>5 DEF Share
<1>. QED
  BY <1>1, <1>4, <1>6, <1>7

\* What is beyond the cursor: the records from the next to the last of the answer,
\* at which the cursor is then.
LEMMA BeyondEffect ==
  ASSUME TypeOK, NEW answer \in Answers, ~NoRecords(answer),
         NEW from, from = Later(Cursor(answer), answer.first)
  PROVE  /\ from \in Number /\ answer.last \in Number /\ answer.run \in Runs
         /\ Cursor(answer) \in Number
         /\ Len(Beyond(answer)) = IF from < answer.last THEN answer.last - from ELSE 0
         /\ \A n \in 1 .. Len(Beyond(answer)) :
              Beyond(answer)[n] = [run |-> answer.run, number |-> from + n]
         /\ from < answer.last => Later(Cursor(answer), answer.last) = answer.last
         /\ ~(from < answer.last) =>
              /\ Later(Cursor(answer), answer.last) = Cursor(answer)
              /\ known.run = answer.run /\ Cursor(answer) = known.number
<1>1. answer.run \in Runs /\ answer.first \in Number /\ answer.last \in Number
  BY DEF Answers
<1>2. Cursor(answer) \in Number
  BY ConstantTypes DEF TypeOK, Place, Cursor
<1>3. from \in Number
  BY <1>1, <1>2 DEF Later
<1>4. Beyond(answer) = Span(answer.run, from, answer.last)
  BY DEF Beyond
<1>5. /\ Len(Beyond(answer)) = IF from < answer.last THEN answer.last - from ELSE 0
      /\ \A n \in 1 .. Len(Beyond(answer)) :
           Beyond(answer)[n] = [run |-> answer.run, number |-> from + n]
  BY <1>1, <1>3, <1>4, SpanEffect
<1>6. bounds.records \in Nat /\ answer.first < answer.last
  BY <1>1, BoundTypes DEF TypeOK, NoRecords, Number
<1>7. from < answer.last => Later(Cursor(answer), answer.last) = answer.last
  BY <1>1, <1>2, <1>6 DEF Later, Number
<1>8. ~(from < answer.last) => Later(Cursor(answer), answer.last) = Cursor(answer)
                               /\ Cursor(answer) # 0
  BY <1>1, <1>2, <1>6 DEF Later, Number
<1>9. Cursor(answer) # 0 => known.run = answer.run /\ Cursor(answer) = known.number
  BY DEF Cursor
<1>. QED
  BY <1>1, <1>2, <1>3, <1>5, <1>7, <1>8, <1>9

-------------------------------------------------------------------------------
\* Nothing is missed.

LEMMA InitMissed == Init => NothingMissed
BY DEF Init, NothingMissed, None

LEMMA NextMissed ==
  ASSUME TypeOK, TypeOK', QueueInv, SubscriptionsAreSockets, NothingMissed, [Next]_vars
  PROVE  NothingMissed'
<1>1. \A t \in Sockets : /\ items[t] \in Item /\ items[t].queue \in Seq(Place)
                         /\ Len(items[t].queue) \in Nat /\ Len(items[t].queue) <= Queue
  BY DEF TypeOK, Item, QueueInv
<1>2. SUFFICES ASSUME NEW t \in Sockets, items'[t].on, ~items'[t].revoked
               PROVE  Chain(t)'[Len(items'[t].queue)] = known'
  BY DEF NothingMissed
<1>3. items[t].on /\ ~items[t].revoked => Chain(t)[Len(items[t].queue)] = known
  BY DEF NothingMissed
<1> DEFINE queue == items[t].queue
           new   == items'[t].queue
<1>4. CASE ~\E s \in Sockets : Receive(s)
  <2>1. ~Gone(t)
    BY <1>2 DEF Gone, None
  <2>2. known' = known /\ (Kept(t) \/ Fresh(t) \/ Sent(t))
    BY <1>4, <2>1, Shapes
  <2>3. CASE Kept(t)
    <3>1. new = queue /\ sock'[t].place = sock[t].place /\ Len(queue) \in 0 .. Len(queue)
      BY <1>1, <2>3 DEF Kept
    <3>2. Chain(t)'[Len(queue)] = Chain(t)[Len(queue)]
      BY <3>1, ChainIs
    <3>. QED
      BY <1>2, <1>3, <2>2, <2>3, <3>1, <3>2 DEF Kept
  <2>4. CASE Fresh(t)
    <3>1. Len(new) = 0 /\ sock'[t].place = known
      BY <2>4 DEF Fresh
    <3>. QED
      BY <2>2, <3>1, ChainIs
  <2>5. CASE Sent(t)
    <3>1. /\ queue # <<>> /\ new = Tail(queue) /\ sock'[t].place = Head(queue)
          /\ Chain(t)[Len(queue)] = known
      BY <1>2, <1>3, <2>5 DEF Sent
    <3>2. /\ Len(queue) >= 1 /\ Len(new) = Len(queue) - 1
          /\ Head(queue) = queue[1] /\ \A n \in 1 .. Len(new) : new[n] = queue[n + 1]
      <4> HIDE DEF queue
      <4>. QED
        BY <1>1, <3>1 DEF queue
    <3>3. Chain(t)[Len(queue)] = queue[Len(queue)]
      BY <1>1, <3>2, ChainIs
    <3>4. Chain(t)'[Len(new)] = queue[Len(queue)]
      <4>1. Len(queue) \in Nat /\ Len(new) \in Nat /\ Len(new) \in 0 .. Len(new)
        <5> HIDE DEF queue, new
        <5>. QED
          BY <1>1, <3>2 DEF queue
      <4>2. Chain(t)'[Len(new)] = IF Len(new) = 0 THEN sock'[t].place ELSE new[Len(new)]
        BY <4>1, ChainIs
      <4> HIDE DEF queue, new
      <4>3. CASE Len(new) = 0
        <5>1. Len(queue) = 1
          BY <3>2, <4>1, <4>3
        <5>. QED
          BY <3>1, <3>2, <4>2, <4>3, <5>1
      <4>4. CASE Len(new) # 0
        <5>1. new[Len(new)] = queue[Len(new) + 1] /\ Len(new) + 1 = Len(queue)
          BY <3>2, <4>1, <4>4
        <5>. QED
          BY <4>2, <4>4, <5>1
      <4>. QED
        BY <4>3, <4>4
    <3>. QED
      BY <2>2, <3>1, <3>3, <3>4
  <2>. QED
    BY <2>2, <2>3, <2>4, <2>5
<1>5. ASSUME NEW s \in Sockets, Receive(s) PROVE Chain(t)'[Len(new)] = known'
  <2>1. PICK answer : answer = sock[s].answer
    OBVIOUS
  <2>2. PICK from : from = Later(Cursor(answer), answer.first)
    OBVIOUS
  <2>3. answer \in Answers /\ sock'[t].place = sock[t].place
    BY <1>5, <2>1, ReceiveShape
  <2>4. CASE NoRecords(answer)
    <3>1. known' = known /\ items' = items
      BY <1>5, <2>1, <2>4, ReceiveShape
    <3>2. new = queue /\ Len(queue) \in 0 .. Len(queue)
      BY <1>1, <3>1
    <3>3. Chain(t)'[Len(queue)] = Chain(t)[Len(queue)]
      BY <2>3, <3>1, <3>2, ChainIs
    <3>. QED
      BY <1>2, <1>3, <3>1, <3>3
  <2>5. CASE ~NoRecords(answer)
    <3>1. /\ known' = [run |-> answer.run, number |-> Later(Cursor(answer), answer.last)]
          /\ items'[t] = Offered(items[t], Beyond(answer))
      BY <1>5, <2>1, <2>5, ReceiveShape
    <3>2. Beyond(answer) \in Seq(Place)
      BY <2>3, SharedTypes
    <3> DEFINE beyond == Beyond(answer)
    <3> HIDE DEF beyond
    <3>3. /\ items[t].on /\ ~items[t].revoked
          /\ Len(new) = Len(queue) + Len(beyond)
          /\ \A n \in 1 .. Len(queue) : new[n] = queue[n]
          /\ \A n \in 1 .. Len(new) : n > Len(queue) => new[n] = beyond[n - Len(queue)]
      <4>1. PICK o : o = items'[t]
        OBVIOUS
      <4>2. o = Offered(items[t], beyond) /\ beyond \in Seq(Place)
        BY <3>1, <3>2, <4>1 DEF beyond
      <4>3. /\ o.on = items[t].on
            /\ items[t].revoked => o.revoked
        BY <1>1, <4>2, OfferedEffect
      <4>4. \A n \in 1 .. Len(items[t].queue) : o.queue[n] = items[t].queue[n]
        BY <1>1, <4>2, OfferedEffect
      <4>5. \A n \in 1 .. Len(o.queue) : n > Len(items[t].queue) =>
                 o.queue[n] = beyond[n - Len(items[t].queue)]
        BY <1>1, <4>2, OfferedEffect
      <4>6. items[t].on /\ ~o.revoked => Len(o.queue) = Len(items[t].queue) + Len(beyond)
        <5>1. PICK item : item = items[t]
          OBVIOUS
        <5>2. /\ item \in Item /\ Len(item.queue) <= Queue /\ o = Offered(item, beyond)
          BY <1>1, <4>2, <5>1
        <5>3. item.on /\ ~o.revoked => Len(o.queue) = Len(item.queue) + Len(beyond)
          BY <4>2, <5>2, OfferedEffect
        <5>. QED
          BY <5>1, <5>3
      <4>. QED
        BY <1>2, <4>1, <4>3, <4>4, <4>5, <4>6
    <3>4. /\ Len(beyond) = IF from < answer.last THEN answer.last - from ELSE 0
          /\ from \in Nat /\ answer.last \in Nat
          /\ \A n \in 1 .. Len(beyond) : beyond[n] = [run |-> answer.run, number |-> from + n]
          /\ from < answer.last => Later(Cursor(answer), answer.last) = answer.last
          /\ ~(from < answer.last) =>
               /\ Later(Cursor(answer), answer.last) = Cursor(answer)
               /\ known.run = answer.run /\ Cursor(answer) = known.number
      <4>1. bounds.records \in Nat
        BY BoundTypes DEF TypeOK
      <4>2. from \in Number /\ answer.last \in Number
        BY <2>2, <2>3, <2>5, BeyondEffect
      <4>3. from \in Nat /\ answer.last \in Nat
        BY <4>1, <4>2 DEF Number
      <4>. QED
        BY <2>2, <2>3, <2>5, <4>3, BeyondEffect DEF beyond
    <3>5. CASE from < answer.last
      <4>1. Len(beyond) \in Nat /\ Len(beyond) >= 1
        BY <3>4, <3>5
      <4>2. beyond[Len(beyond)] = [run |-> answer.run, number |-> answer.last]
        BY <3>4, <3>5, <4>1
      <4>3. Len(new) \in 0 .. Len(new) /\ Len(new) # 0 /\ new[Len(new)] = beyond[Len(beyond)]
        <5>1. Len(queue) \in Nat
          BY <1>1
        <5> HIDE DEF queue, new
        <5>2. Len(new) \in 1 .. Len(new) /\ Len(new) > Len(queue) /\ Len(new) - Len(queue) = Len(beyond)
          BY <3>3, <4>1, <5>1
        <5>. QED
          BY <3>3, <5>2
      <4>4. Chain(t)'[Len(new)] = new[Len(new)]
        BY <4>3, ChainIs
      <4>. QED
        BY <3>1, <3>4, <3>5, <4>2, <4>3, <4>4
    <3>6. CASE ~(from < answer.last)
      <4>1. known' = [run |-> known.run, number |-> known.number]
        BY <3>1, <3>4, <3>6
      <4>2. known' = known
        BY <4>1 DEF TypeOK, Place
      <4>3. Len(new) = Len(queue) /\ Len(queue) \in 0 .. Len(queue) /\ Len(queue) \in 0 .. Len(new)
        BY <1>1, <3>3, <3>4, <3>6
      <4>4. Chain(t)'[Len(queue)] = Chain(t)[Len(queue)]
        BY <2>3, <3>3, <4>3, ChainIs
      <4>. QED
        BY <1>3, <3>3, <4>2, <4>3, <4>4
    <3>. QED
      BY <3>5, <3>6
  <2>. QED
    BY <2>4, <2>5
<1>. QED
  BY <1>4, <1>5

-------------------------------------------------------------------------------
\* The places of the sockets.

\* What the broker has dropped, it has dropped.
LEMMA EvictedGrows ==
  ASSUME TypeOK, [Next]_vars, NEW r \in Runs
  PROVE  Evicted(r) \in Nat /\ Evicted(r)' \in Nat /\ Evicted(r) <= Evicted(r)'
<1>1. /\ bounds.runs \in Nat /\ bounds.records \in Nat /\ Buffer \in Nat
      /\ captured \in [1 .. bounds.runs -> Number] /\ captured' \in [1 .. bounds.runs -> Number]
      /\ \A k \in 1 .. bounds.runs : captured[k] <= captured'[k]
  BY BoundTypes, BrokerGrows DEF TypeOK
<1>2. CASE r = 0
  BY <1>2 DEF Evicted
<1>3. CASE r # 0
  <2>1. captured[r] \in Nat /\ captured'[r] \in Nat /\ captured[r] <= captured'[r]
    BY <1>1, <1>3 DEF Runs, Number
  <2>. QED
    BY <1>1, <1>3, <2>1 DEF Evicted
<1>. QED
  BY <1>2, <1>3

\* What is counted is counted in natural numbers.
LEMMA Naturals == ASSUME TypeOK PROVE Number \subseteq Nat /\ Runs \subseteq Nat
<1>1. bounds.records \in Nat /\ bounds.runs \in Nat
  BY BoundTypes DEF TypeOK
<1>. QED
  BY <1>1 DEF Number, Runs

\* What a run has got to, it has got to.
LEMMA CapturedGrows ==
  ASSUME TypeOK, [Next]_vars, NEW r \in Runs, r # 0, NEW number \in Nat, number <= captured[r]
  PROVE  number <= captured'[r]
<1>1. bounds.runs \in Nat
  BY BoundTypes DEF TypeOK
<1>2. r \in 1 .. bounds.runs
  BY <1>1 DEF Runs
<1>3. /\ captured[r] \in Number /\ captured'[r] \in Number
      /\ captured[r] <= captured'[r]
  BY <1>2, BrokerGrows DEF TypeOK
<1>4. captured[r] \in Nat /\ captured'[r] \in Nat
  BY <1>3, Naturals, Zenon
<1>. QED
  BY <1>3, <1>4

LEMMA ReachedKept ==
  ASSUME TypeOK, [Next]_vars, NEW r \in Runs, NEW number \in Number, Reached(r, number)
  PROVE  Reached(r, number)'
<1>1. number \in Nat
  BY Naturals, Zenon
<1>. QED
  BY <1>1, CapturedGrows DEF Reached

\* A step of a socket is a step of it alone.
LEMMA OneSocket ==
  ASSUME TypeOK, QueueInv, SubscriptionsAreSockets,
         NEW s \in Sockets, Connect(s) \/ Socket(s) \/ Leave(s), NEW t \in Sockets, t # s
  PROVE  sock'[t] = sock[t]
<1>1. sock \in [Sockets -> Local]
  BY DEF TypeOK
<1>2. CASE Plain(s)
  BY <1>1, <1>2 DEF Plain
<1>3. CASE Ends(s) \/ Joins(s) \/ Takes(s)
  BY <1>1, <1>3 DEF Ends, Joins, Takes
<1>4. CASE Answer(s)
  BY <1>1, <1>4 DEF Answer
<1>5. CASE AskAgain(s) \/ Receive(s)
  BY <1>1, <1>5 DEF AskAgain, Receive
<1>. QED
  BY <1>2, <1>3, <1>4, <1>5, SocketCases

\* A step of anything else leaves the sockets what they are, or closes them all.
LEMMA NoSocket ==
  ASSUME TypeOK, [Next]_vars, ~\E s \in Sockets : Connect(s) \/ Socket(s) \/ Leave(s)
  PROVE  \/ UNCHANGED <<sock, known, crossed>>
         \/ sock' = [s \in Sockets |-> Closed]
BY OtherCases DEF Still, DashboardRestarts, RevokeSubscriptions

\* Only an answer moves a socket on.
LEMMA AfterKept ==
  ASSUME TypeOK, QueueInv, SubscriptionsAreSockets, [Next]_vars,
         ~\E s \in Sockets : Receive(s), NEW t \in Sockets, NEW l, l = sock'[t]
  PROVE  \/ l.after = sock[t].after /\ l.run = sock[t].run
         \/ l.after = 0 /\ l.run \in {0, sock[t].run}
<1>1. sock \in [Sockets -> Local] /\ sock[t] \in Local
  BY DEF TypeOK
<1>2. Closed.after = 0 /\ Closed.run = 0
  BY DEF Closed
<1>3. ASSUME Connect(t) \/ Socket(t) \/ Leave(t)
      PROVE  \/ l.after = sock[t].after /\ l.run = sock[t].run
             \/ l.after = 0 /\ l.run \in {0, sock[t].run}
  <2>1. CASE Plain(t)
    <3>1. PICK pc : sock' = [sock EXCEPT ![t].pc = pc]
      BY <2>1 DEF Plain
    <3>. QED
      BY <1>1, <3>1 DEF Local
  <2>2. CASE Ends(t)
    BY <1>1, <1>2, <2>2 DEF Ends
  <2>3. CASE Joins(t)
    BY <1>1, <2>3 DEF Joins, Local
  <2>4. CASE Takes(t)
    BY <1>1, <2>4 DEF Takes, Local
  <2>5. CASE Answer(t)
    BY <1>1, <2>5 DEF Answer, Local
  <2>6. CASE AskAgain(t)
    BY <1>1, <2>6 DEF AskAgain, Local
  <2>. QED
    BY <1>3, <2>1, <2>2, <2>3, <2>4, <2>5, <2>6, SocketCases
<1>4. ASSUME NEW s \in Sockets, Connect(s) \/ Socket(s) \/ Leave(s), s # t
      PROVE  l = sock[t]
  BY <1>4, OneSocket
<1>5. CASE ~\E s \in Sockets : Connect(s) \/ Socket(s) \/ Leave(s)
  BY <1>2, <1>5, NoSocket
<1>. QED
  BY <1>3, <1>4, <1>5

LEMMA InitAnswers == Init => AnswerInv /\ CursorInv
<1> SUFFICES ASSUME Init, NEW s \in Sockets PROVE Answered(sock[s]) /\ Behind(sock[s])
  BY DEF AnswerInv, CursorInv
<1>1. sock[s] = Closed
  BY DEF Init
<1>. QED
  BY <1>1 DEF Closed, Answered, Behind

\* Where no answer is at hand, nor asked for again.
LEMMA AnsweredNot ==
  ASSUME NEW l, l.pc \notin {"answered", "again", "answered again"}
  PROVE  Answered(l)'
BY DEF Answered

LEMMA AnsweredKept ==
  ASSUME TypeOK, [Next]_vars, NEW l \in Local, Answered(l)
  PROVE  Answered(l)'
<1>1. PICK after, first, last, r :
        after = l.after /\ first = l.answer.first /\ last = l.answer.last /\ r = l.answer.run
  OBVIOUS
<1>2. after \in Nat /\ first \in Nat /\ last \in Nat /\ r \in Runs
  <2>1. l.after \in Number /\ l.answer \in Answers
    BY LocalTypes
  <2>2. after \in Number /\ first \in Number /\ last \in Number /\ r \in Runs
    BY <1>1, <2>1 DEF Answers
  <2>. QED
    BY <2>2, Naturals, Zenon
<1>3. Evicted(r) \in Nat /\ Evicted(r)' \in Nat /\ Evicted(r) <= Evicted(r)'
  BY <1>2, EvictedGrows
<1>4. PICK old, new : old = Evicted(r) /\ new = Evicted(r)'
  OBVIOUS
<1>5. first <= Later(after, old) => first <= Later(after, new)
  BY <1>2, <1>3, <1>4 DEF Later
<1>6. r # 0 /\ last <= captured[r] => last <= captured'[r]
  BY <1>2, CapturedGrows
<1>7. /\ l.pc \in {"answered", "answered again"} =>
           r # 0 /\ first <= Later(after, Evicted(r)) /\ last <= captured[r]
      /\ l.pc \in {"again", "answered again"} => after = 0
  BY <1>1 DEF Answered
<1>8. /\ l.pc \in {"answered", "answered again"} =>
           r # 0 /\ first <= Later(after, Evicted(r)') /\ last <= captured'[r]
      /\ l.pc \in {"again", "answered again"} => after = 0
  BY <1>4, <1>5, <1>6, <1>7
<1>. QED
  BY <1>1, <1>8 DEF Answered, Later

\* The answer that the supervisor gives.
LEMMA AnsweredNow ==
  ASSUME TypeOK, [Next]_vars, NEW l \in Local, l.pc \in {"asking", "again"}, Answered(l),
         NEW new, new = [l EXCEPT
           !.pc = IF l.pc = "asking" THEN "answered" ELSE "answered again",
           !.answer = Records(l.after)]
  PROVE  Answered(new)'
<1>1. l.after \in Number /\ bounds.records \in Nat /\ run \in Runs /\ run # 0
  <2>1. l.after \in Number
    BY LocalTypes
  <2>2. bounds.records \in Nat /\ bounds.runs \in Nat /\ run \in 1 .. bounds.runs
    BY BoundTypes DEF TypeOK
  <2>. QED
    BY <2>1, <2>2 DEF Runs
<1>2. PICK pc : pc = IF l.pc = "asking" THEN "answered" ELSE "answered again"
  OBVIOUS
<1>3. PICK answer : answer = Records(l.after)
  OBVIOUS
<1>4. /\ new = [l EXCEPT !.pc = pc, !.answer = answer]
      /\ answer \in Answers /\ answer.run = run
      /\ answer.first = Later(l.after, Evicted(run))
      /\ answer.last <= captured[run]
  BY <1>1, <1>2, <1>3, RecordsTypes
<1>5. new.pc = pc /\ new.answer = answer /\ new.after = l.after
  BY <1>4 DEF Local
<1>6. pc \in {"again", "answered again"} => l.after = 0
  BY <1>2 DEF Answered
<1>7. new \in Local
  <2>1. pc \in Pcs
    BY <1>2 DEF Pcs, Loop
  <2>2. [l EXCEPT !.pc = pc, !.answer = answer] \in Local
    BY <1>4, <2>1, LocalTypes
  <2>. QED
    BY <1>4, <2>2
<1>8. Answered(new)
  <2>1. answer.first \in Nat
    BY <1>1, <1>4 DEF Answers, Number
  <2>2. answer.first <= Later(new.after, Evicted(new.answer.run))
    <3>1. answer.first = Later(new.after, Evicted(new.answer.run))
      BY <1>4, <1>5
    <3>2. answer.first <= answer.first
      BY <2>1
    <3>. QED
      BY <3>1, <3>2
  <2>. QED
    BY <1>1, <1>4, <1>5, <1>6, <2>2 DEF Answered
<1>. QED
  BY <1>7, <1>8, AnsweredKept

LEMMA NextAnswers ==
  ASSUME TypeOK, QueueInv, SubscriptionsAreSockets, AnswerInv, [Next]_vars
  PROVE  AnswerInv'
<1>1. SUFFICES ASSUME NEW t \in Sockets, NEW l, l = sock'[t] PROVE Answered(l)'
  BY DEF AnswerInv, Answered, Evicted, Later
<1>2. PICK old : old = sock[t]
  OBVIOUS
<1>3. sock \in [Sockets -> Local] /\ old \in Local /\ Answered(old)
  BY <1>2 DEF TypeOK, AnswerInv
<1>4. CASE l = old
  BY <1>3, <1>4, AnsweredKept
<1>5. CASE l.pc \notin {"answered", "again", "answered again"}
  BY <1>5, AnsweredNot
<1>6. ASSUME Connect(t) \/ Socket(t) \/ Leave(t) PROVE Answered(l)'
  <2>1. CASE Plain(t)
    <3>1. PICK pc \in Pcs \ {"answered", "again", "answered again"} :
            sock' = [sock EXCEPT ![t].pc = pc]
      BY <2>1 DEF Plain
    <3>2. l.pc = pc
      BY <1>1, <1>2, <1>3, <3>1 DEF Local
    <3>. QED
      BY <1>5, <3>1, <3>2
  <2>2. CASE Ends(t)
    <3>1. l.pc = "closed"
      BY <1>1, <1>3, <2>2 DEF Ends, Closed
    <3>. QED
      BY <1>5, <3>1
  <2>3. CASE Joins(t)
    <3>1. l.pc = "subscribed"
      BY <1>1, <1>2, <1>3, <2>3 DEF Joins, Local
    <3>. QED
      BY <1>5, <3>1
  <2>4. CASE Takes(t)
    <3>1. l.pc = "top"
      BY <1>1, <1>2, <1>3, <2>4 DEF Takes, Local
    <3>. QED
      BY <1>5, <3>1
  <2>5. CASE Receive(t)
    <3>1. l.pc = "waiting"
      BY <1>1, <1>2, <1>3, <2>5 DEF Receive, Local
    <3>. QED
      BY <1>5, <3>1
  <2>6. CASE AskAgain(t)
    <3>1. l.pc = "again" /\ l.after = 0
      BY <1>1, <1>2, <1>3, <2>6 DEF AskAgain, Local
    <3>. QED
      BY <3>1 DEF Answered
  <2>7. CASE Answer(t)
    <3>1. /\ old.pc \in {"asking", "again"}
          /\ l = [old EXCEPT
                   !.pc = IF old.pc = "asking" THEN "answered" ELSE "answered again",
                   !.answer = Records(old.after)]
      BY <1>1, <1>2, <1>3, <2>7 DEF Answer
    <3>. QED
      BY <1>3, <3>1, AnsweredNow
  <2>. QED
    BY <1>6, <2>1, <2>2, <2>3, <2>4, <2>5, <2>6, <2>7, SocketCases
<1>7. ASSUME NEW s \in Sockets, Connect(s) \/ Socket(s) \/ Leave(s), s # t PROVE Answered(l)'
  BY <1>1, <1>2, <1>4, <1>7, OneSocket
<1>8. CASE ~\E s \in Sockets : Connect(s) \/ Socket(s) \/ Leave(s)
  <2>1. l = old \/ l = Closed
    BY <1>1, <1>2, <1>8, NoSocket
  <2>2. Closed.pc = "closed"
    BY DEF Closed
  <2>. QED
    BY <1>4, <1>5, <2>1, <2>2
<1>. QED
  BY <1>6, <1>7, <1>8

\* A socket that has no other place is behind the cursor as before, where the cursor
\* is not moved back.
LEMMA BehindKept ==
  ASSUME NEW old \in Local, Behind(old), NEW l, l.after = old.after, l.run = old.run,
         known' = known
  PROVE  Behind(l)'
BY DEF Behind

\* A socket and the cursor, after an answer that has records: the cursor is at the
\* last of them or beyond.
LEMMA BehindShared ==
  ASSUME TypeOK, NEW answer \in Answers, answer.run # 0, ~(answer.run < known.run),
         known' = [run |-> answer.run, number |-> Later(Cursor(answer), answer.last)]
  PROVE  /\ \A l : l.after = answer.last /\ l.run = answer.run => Behind(l)'
         /\ \A l \in Local : Behind(l) => Behind(l)'
<1>1. PICK r, last, kr, kn, c :
        r = answer.run /\ last = answer.last /\ kr = known.run /\ kn = known.number
        /\ c = Cursor(answer)
  OBVIOUS
<1>2. /\ r \in Nat /\ last \in Nat /\ kr \in Nat /\ kn \in Nat
      /\ \A l \in Local : l.after \in Nat /\ l.run \in Nat
  <2>1. /\ bounds.runs \in Nat /\ bounds.records \in Nat
        /\ \A l \in Local : l.after \in Number /\ l.run \in Runs
    BY BoundTypes, LocalTypes DEF TypeOK
  <2>2. known \in Place
    BY DEF TypeOK
  <2>3. \A n : (n \in Number => n \in Nat) /\ (n \in Runs => n \in Nat)
    BY <2>1 DEF Number, Runs
  <2>4. answer.run \in Runs /\ answer.last \in Number
    BY DEF Answers
  <2>5. known.run \in Runs /\ known.number \in Number
    BY <2>2 DEF Place
  <2>. QED
    BY <1>1, <2>1, <2>3, <2>4, <2>5
<1>3. c = IF kr = r THEN kn ELSE 0
  BY <1>1 DEF Cursor
<1>4. known'.run = r /\ known'.number = Later(c, last)
  BY <1>1
<1>5. PICK number : number = Later(c, last)
  OBVIOUS
<1>6. number \in Nat /\ last <= number /\ (kr = r => kn <= number) /\ r # 0 /\ kr <= r
  BY <1>1, <1>2, <1>3, <1>5 DEF Later
<1>7. ASSUME NEW l, l.after = answer.last, l.run = answer.run PROVE Behind(l)'
  <2>1. l.after = last /\ l.run = r
    BY <1>1, <1>7
  <2>. QED
    BY <1>2, <1>4, <1>5, <1>6, <2>1 DEF Behind
<1>8. ASSUME NEW l \in Local, Behind(l) PROVE Behind(l)'
  <2>1. PICK a, k : a = l.after /\ k = l.run
    OBVIOUS
  <2>2. a \in Nat /\ k \in Nat
    BY <1>2, <2>1
  <2>3. a > 0 => k # 0 /\ k <= kr /\ (k = kr => a <= kn)
    BY <1>1, <1>8, <2>1 DEF Behind
  <2>4. a > 0 => k # 0 /\ k <= r /\ (k = r => a <= number)
    BY <1>2, <1>6, <2>2, <2>3
  <2>. QED
    BY <1>4, <1>5, <2>1, <2>4 DEF Behind
<1>. QED
  BY <1>7, <1>8

LEMMA NextCursors ==
  ASSUME TypeOK, QueueInv, SubscriptionsAreSockets, AnswerInv, CursorInv, [Next]_vars
  PROVE  CursorInv'
<1>1. SUFFICES ASSUME ~crossed', NEW t \in Sockets, NEW l, l = sock'[t] PROVE Behind(l)'
  BY DEF CursorInv, Behind
<1>2. PICK old : old = sock[t]
  OBVIOUS
<1>3. /\ sock \in [Sockets -> Local] /\ \A s \in Sockets : sock[s] \in Local
      /\ old \in Local /\ (~crossed => Behind(old))
  BY <1>2 DEF TypeOK, CursorInv
<1>4. CASE l.after = old.after /\ l.run = old.run /\ known' = known /\ crossed' = crossed
  BY <1>1, <1>3, <1>4, BehindKept
<1>5. CASE l.after = 0
  BY <1>5 DEF Behind
<1>6. CASE ~\E s \in Sockets : Receive(s)
  <2>1. (l.after = old.after /\ l.run = old.run) \/ l.after = 0
    BY <1>1, <1>2, <1>6, AfterKept
  <2>2. (known' = known /\ crossed' = crossed) \/ l = Closed
    BY <1>1, <1>6, Shapes DEF Gone
  <2>3. Closed.after = 0
    BY DEF Closed
  <2>. QED
    BY <1>4, <1>5, <2>1, <2>2, <2>3
<1>7. ASSUME NEW s \in Sockets, Receive(s) PROVE Behind(l)'
  <2>1. PICK answer : answer = sock[s].answer
    OBVIOUS
  <2>2. PICK after : after = IF NoRecords(answer) THEN sock[s].after ELSE answer.last
    OBVIOUS
  <2>3. /\ answer \in Answers
        /\ NoRecords(answer) => UNCHANGED <<known, items, crossed>>
        /\ ~NoRecords(answer) =>
              /\ known' = [run |-> answer.run, number |-> Later(Cursor(answer), answer.last)]
              /\ crossed' = (crossed \/ answer.run < known.run)
    BY <1>7, <2>1, ReceiveShape
  <2>4. sock' = [sock EXCEPT ![s] =
          [sock[s] EXCEPT !.pc = "waiting", !.run = answer.run,
                          !.answer = Closed.answer, !.after = after]]
    BY <1>7, <2>1, <2>2 DEF Receive
  <2>5. /\ t = s => l.after = after /\ l.run = answer.run
        /\ t # s => l = old
    BY <1>1, <1>2, <1>3, <2>4 DEF Local
  <2>6. /\ answer.run # 0
        /\ \/ sock[s].pc = "answered" /\ sock[s].run \in {0, answer.run}
           \/ sock[s].pc = "answered again" /\ sock[s].after = 0
    <3>1. \/ sock[s].pc = "answered" /\ sock[s].run \in {0, answer.run}
          \/ sock[s].pc = "answered again"
      BY <1>7, <2>1 DEF Receive
    <3>2. Answered(sock[s])
      BY DEF AnswerInv
    <3>. QED
      BY <2>1, <3>1, <3>2 DEF Answered
  <2>7. CASE NoRecords(answer)
    <3>1. known' = known /\ crossed' = crossed
      BY <2>3, <2>7
    <3>2. CASE t # s
      BY <1>4, <2>5, <3>1, <3>2
    <3>3. CASE t = s
      <4>1. l.after = old.after /\ l.run = answer.run
        BY <1>2, <2>2, <2>5, <2>7, <3>3
      <4>2. old.after \in Nat
        <5>1. old.after \in Number /\ bounds.records \in Nat
          BY <1>3, LocalTypes, BoundTypes DEF TypeOK
        <5>. QED
          BY <5>1 DEF Number
      <4>3. CASE old.after > 0
        <5>1. old.run # 0
          BY <1>1, <1>3, <3>1, <4>3 DEF Behind
        <5>2. old.run = answer.run
          <6>1. CASE sock[s].after = 0
            BY <1>2, <3>3, <4>3, <6>1
          <6>2. CASE sock[s].run \in {0, answer.run}
            BY <1>2, <3>3, <5>1, <6>2
          <6>. QED
            BY <2>6, <6>1, <6>2
        <5>. QED
          BY <1>4, <3>1, <4>1, <5>2
      <4>4. CASE ~(old.after > 0)
        BY <1>5, <4>1, <4>2, <4>4
      <4>. QED
        BY <4>3, <4>4
    <3>. QED
      BY <3>2, <3>3
  <2>8. CASE ~NoRecords(answer)
    <3>1. /\ known' = [run |-> answer.run, number |-> Later(Cursor(answer), answer.last)]
          /\ crossed' = (crossed \/ answer.run < known.run)
      BY <2>3, <2>8
    <3>2. ~crossed /\ ~(answer.run < known.run)
      BY <1>1, <3>1
    <3>3. /\ \A k : k.after = answer.last /\ k.run = answer.run => Behind(k)'
          /\ \A k \in Local : Behind(k) => Behind(k)'
      BY <2>3, <2>6, <3>1, <3>2, BehindShared
    <3>4. CASE t = s
      BY <2>2, <2>5, <2>8, <3>3, <3>4
    <3>5. CASE t # s
      BY <1>3, <2>5, <3>2, <3>3, <3>5
    <3>. QED
      BY <3>4, <3>5
  <2>. QED
    BY <2>7, <2>8
<1>. QED
  BY <1>6, <1>7

-------------------------------------------------------------------------------
\* The order of what a socket is sent.

\* Records that follow each other do so whatever is dropped later.
LEMMA FollowsKept ==
  ASSUME TypeOK, [Next]_vars, NEW p \in Place, NEW q \in Place, Follows(p, q)
  PROVE  Follows(p, q)'
<1>1. bounds.records \in Nat /\ p.number \in Number /\ q.number \in Number /\ q.run \in Runs
  BY BoundTypes DEF TypeOK, Place
<1>2. PICK old, new : old = Evicted(q.run) /\ new = Evicted(q.run)'
  OBVIOUS
<1>3. old \in Nat /\ new \in Nat /\ old <= new
  BY <1>1, <1>2, EvictedGrows
<1>4. p.number \in Nat /\ q.number \in Nat
  BY <1>1 DEF Number
<1>5. IF p.run = q.run
      THEN p.number < q.number /\ (p.number + 1 = q.number \/ q.number - 1 <= old)
      ELSE p.run < q.run /\ q.number - 1 <= old
  BY <1>2 DEF Follows
<1>6. IF p.run = q.run
      THEN p.number < q.number /\ (p.number + 1 = q.number \/ q.number - 1 <= new)
      ELSE p.run < q.run /\ q.number - 1 <= new
  BY <1>3, <1>4, <1>5
<1>. QED
  BY <1>2, <1>6 DEF Follows

\* What waited in the queue of a socket keeps its order.
LEMMA PairKept ==
  ASSUME TypeOK, [Next]_vars, InOrder, ~crossed,
         NEW t \in Sockets, NEW k \in 1 .. Len(items[t].queue),
         NEW p, p = Chain(t)[k - 1], NEW q, q = Chain(t)[k]
  PROVE  Follows(p, q)'
<1>1. PICK queue : queue = items[t].queue
  OBVIOUS
<1>2. queue \in Seq(Place) /\ sock[t].place \in Place
  BY <1>1 DEF TypeOK, Item, Local
<1>3. Len(queue) \in Nat /\ k \in 1 .. Len(queue)
  BY <1>1, <1>2
<1>4. k - 1 \in 0 .. Len(queue) /\ k \in 0 .. Len(queue) /\ k # 0
  BY <1>3
<1>5. /\ p = IF k - 1 = 0 THEN sock[t].place ELSE queue[k - 1]
      /\ q = queue[k]
  BY <1>1, <1>4, ChainIs
<1>6. p \in Place /\ q \in Place
  BY <1>2, <1>3, <1>5
<1>7. Follows(p, q)
  BY DEF InOrder
<1>. QED
  BY <1>6, <1>7, FollowsKept

\* A socket that receives an answer, and not of an earlier run than the last shared.
Timely(l) ==
  /\ ~(l.answer.run < known.run)
  /\ \/ l.pc = "answered" /\ l.run \in {0, l.answer.run}
     \/ l.pc = "answered again"

\* The first record beyond the cursor follows the record at the cursor: if it is not
\* the next, what is between them is dropped.
LEMMA FirstBeyond ==
  ASSUME TypeOK, NEW l \in Local, Answered(l), Behind(l),
         Timely(l), NEW answer, answer = l.answer,
         NEW from, from = Later(Cursor(answer), answer.first)
  PROVE  Follows(known, [run |-> answer.run, number |-> from + 1])
<1>1. PICK r, first, kr, kn, after, gone, cursor, had :
        /\ r = answer.run /\ first = answer.first /\ kr = known.run /\ kn = known.number
        /\ after = l.after /\ gone = Evicted(r) /\ cursor = Cursor(answer)
        /\ had = l.run
  OBVIOUS
<1>2. r \in Nat /\ first \in Nat /\ kr \in Nat /\ kn \in Nat /\ after \in Nat /\ gone \in Nat
  <2>1. answer \in Answers /\ after \in Number /\ known \in Place
    BY <1>1, LocalTypes DEF TypeOK
  <2>2. r \in Runs /\ first \in Number /\ kr \in Runs /\ kn \in Number
    BY <1>1, <2>1 DEF Answers, Place
  <2>3. gone \in Number
    BY <1>1, <2>2, EvictedTypes
  <2>. QED
    BY <2>1, <2>2, <2>3, Naturals, Zenon
<1>3. cursor = IF kr = r THEN kn ELSE 0
  BY <1>1 DEF Cursor
<1>4. from = Later(cursor, first) /\ ~(r < kr)
  BY <1>1, Zenon DEF Timely
<1>5. first <= Later(after, gone)
  BY <1>1 DEF Answered, Timely
<1>6. after > 0 => had # 0 /\ had <= kr /\ (had = kr => after <= kn)
  BY <1>1 DEF Behind
<1>7. had = 0 \/ had = r \/ after = 0
  BY <1>1 DEF Answered, Timely
<1>8. cursor \in Nat /\ from \in Nat
  BY <1>2, <1>3, <1>4 DEF Later
<1>9. CASE kr = r
  <2>1. after <= kn
    BY <1>2, <1>6, <1>7, <1>9
  <2>2. first <= kn \/ first <= gone
    BY <1>2, <1>5, <2>1 DEF Later
  <2>3. kn < from + 1 /\ (kn + 1 = from + 1 \/ (from + 1) - 1 <= gone)
    BY <1>2, <1>3, <1>4, <1>8, <1>9, <2>2 DEF Later
  <2>. QED
    BY <1>1, <1>9, <2>3 DEF Follows
<1>10. CASE kr # r
  <2>1. kr < r
    BY <1>2, <1>4, <1>10
  <2>2. after = 0
    BY <1>2, <1>6, <1>7, <2>1
  <2>3. first <= gone /\ from = first
    BY <1>2, <1>3, <1>4, <1>5, <1>10, <2>2 DEF Later
  <2>4. (from + 1) - 1 <= gone
    BY <1>2, <1>8, <2>3
  <2>. QED
    BY <1>1, <1>10, <2>1, <2>4 DEF Follows
<1>. QED
  BY <1>9, <1>10

LEMMA InitInOrder == Init => InOrder
BY DEF Init, InOrder, None

LEMMA NextInOrder ==
  ASSUME TypeOK, TypeOK', QueueInv, AnswerInv, CursorInv, SubscriptionsAreSockets,
         NothingMissed, InOrder, [Next]_vars
  PROVE  InOrder'
<1>1. SUFFICES ASSUME ~crossed', NEW t \in Sockets, NEW n \in 1 .. Len(items'[t].queue),
                      NEW p, p = Chain(t)'[n - 1], NEW q, q = Chain(t)'[n]
               PROVE  Follows(p, q)'
  BY DEF InOrder, Follows, Evicted
<1>2. PICK queue, new : queue = items[t].queue /\ new = items'[t].queue
  OBVIOUS
<1>3. /\ items[t] \in Item /\ queue \in Seq(Place) /\ Len(queue) \in Nat /\ Len(queue) <= Queue
      /\ Len(new) \in Nat /\ n \in 1 .. Len(new)
  <2>1. queue \in Seq(Place) /\ items[t] \in Item /\ Len(queue) <= Queue
    BY <1>2 DEF TypeOK, Item, QueueInv
  <2>2. new \in Seq(Place')
    BY <1>2 DEF TypeOK, Item
  <2>. QED
    BY <1>2, <2>1, <2>2
<1>4. /\ p = IF n - 1 = 0 THEN sock'[t].place ELSE new[n - 1]
      /\ q = new[n]
  <2>1. n - 1 \in 0 .. Len(new) /\ n \in 0 .. Len(new) /\ n # 0
    BY <1>3
  <2>. QED
    BY <1>1, <1>2, <2>1, ChainIs
<1>5. \A k \in 0 .. Len(queue) : Chain(t)[k] = IF k = 0 THEN sock[t].place ELSE queue[k]
  BY <1>2, ChainIs
<1>6. ASSUME ~crossed, NEW k \in 1 .. Len(queue), p = Chain(t)[k - 1], q = Chain(t)[k]
      PROVE  Follows(p, q)'
  BY <1>2, <1>6, PairKept
<1>7. CASE ~\E s \in Sockets : Receive(s)
  <2>1. ~Gone(t) /\ ~Fresh(t)
    BY <1>2, <1>3 DEF Gone, Fresh, None
  <2>2. ~crossed /\ (Kept(t) \/ Sent(t))
    BY <1>1, <1>7, <2>1, Shapes
  <2>3. CASE Kept(t)
    <3>1. new = queue /\ sock'[t].place = sock[t].place
      BY <1>2, <2>3 DEF Kept
    <3>2. n \in 1 .. Len(queue) /\ n - 1 \in 0 .. Len(queue) /\ n \in 0 .. Len(queue) /\ n # 0
      BY <1>3, <3>1
    <3>3. p = Chain(t)[n - 1] /\ q = Chain(t)[n]
      BY <1>4, <1>5, <3>1, <3>2
    <3>. QED
      BY <1>6, <2>2, <3>2, <3>3
  <2>4. CASE Sent(t)
    <3>1. queue # <<>> /\ new = Tail(queue) /\ sock'[t].place = Head(queue)
      BY <1>2, <2>4 DEF Sent
    <3>2. /\ Len(new) = Len(queue) - 1 /\ Head(queue) = queue[1]
          /\ \A k \in 1 .. Len(new) : new[k] = queue[k + 1]
      BY <1>3, <3>1
    <3>3. /\ n + 1 \in 1 .. Len(queue) /\ n + 1 \in 0 .. Len(queue) /\ n + 1 # 0
          /\ n \in 0 .. Len(queue) /\ n # 0 /\ (n + 1) - 1 = n
      BY <1>3, <3>2
    <3>4. Chain(t)[n] = queue[n] /\ Chain(t)[n + 1] = queue[n + 1]
      BY <1>5, <3>3
    <3>5. p = queue[n] /\ q = queue[n + 1]
      <4>1. q = queue[n + 1]
        BY <1>3, <1>4, <3>2
      <4>2. CASE n = 1
        <5>1. n - 1 = 0
          BY <4>2
        <5>2. p = sock'[t].place
          BY <1>4, <5>1
        <5>. QED
          BY <3>1, <3>2, <4>1, <4>2, <5>2
      <4>3. CASE n # 1
        <5>1. n - 1 \in 1 .. Len(new) /\ (n - 1) + 1 = n /\ n - 1 # 0
          BY <1>3, <4>3
        <5>. QED
          BY <1>4, <3>2, <4>1, <5>1
      <4>. QED
        BY <4>2, <4>3
    <3>6. p = Chain(t)[(n + 1) - 1] /\ q = Chain(t)[n + 1]
      BY <3>3, <3>4, <3>5
    <3>. QED
      BY <1>6, <2>2, <3>3, <3>6
  <2>. QED
    BY <2>2, <2>3, <2>4
<1>8. ASSUME NEW s \in Sockets, Receive(s) PROVE Follows(p, q)'
  <2>1. PICK l, answer : l = sock[s] /\ answer = l.answer
    OBVIOUS
  <2>2. PICK from : from = Later(Cursor(answer), answer.first)
    OBVIOUS
  <2>3. /\ answer \in Answers /\ sock'[t].place = sock[t].place
        /\ NoRecords(answer) => UNCHANGED <<known, items, crossed>>
        /\ ~NoRecords(answer) =>
             /\ crossed' = (crossed \/ answer.run < known.run)
             /\ items'[t] = Offered(items[t], Beyond(answer))
    BY <1>8, <2>1, ReceiveShape
  <2>4. ~crossed
    BY <1>1, <2>3
  <2>5. ASSUME n <= Len(queue), \A k \in 1 .. Len(queue) : new[k] = queue[k]
        PROVE  Follows(p, q)'
    <3>1. /\ n \in 1 .. Len(queue) /\ n \in 0 .. Len(queue) /\ n # 0
          /\ n - 1 \in 0 .. Len(queue) /\ (n - 1 = 0 \/ n - 1 \in 1 .. Len(queue))
      BY <1>3, <2>5
    <3>2. p = Chain(t)[n - 1] /\ q = Chain(t)[n]
      BY <1>4, <1>5, <2>3, <2>5, <3>1
    <3>. QED
      BY <1>6, <2>4, <3>1, <3>2
  <2>6. CASE NoRecords(answer)
    <3>1. new = queue
      BY <1>2, <2>3, <2>6
    <3>. QED
      BY <1>3, <2>5, <3>1
  <2>7. CASE ~NoRecords(answer)
    <3>1. PICK o, beyond : o = items'[t] /\ beyond = Beyond(answer)
      OBVIOUS
    <3>2. o = Offered(items[t], beyond) /\ beyond \in Seq(Place) /\ ~(answer.run < known.run)
      BY <1>1, <2>3, <2>7, <3>1, SharedTypes
    <3>3. /\ \A k \in 1 .. Len(queue) : new[k] = queue[k]
          /\ \A k \in 1 .. Len(new) : k > Len(queue) =>
               /\ items[t].on /\ ~items[t].revoked
               /\ k - Len(queue) \in 1 .. Len(beyond)
               /\ new[k] = beyond[k - Len(queue)]
      <4>1. PICK item : item = items[t]
        OBVIOUS
      <4>2. /\ item \in Item /\ Len(item.queue) <= Queue /\ o = Offered(item, beyond)
            /\ queue = item.queue /\ new = o.queue
        BY <1>2, <1>3, <3>1, <3>2, <4>1
      <4>3. /\ \A k \in 1 .. Len(item.queue) : o.queue[k] = item.queue[k]
            /\ \A k \in 1 .. Len(o.queue) : k > Len(item.queue) =>
                 /\ item.on /\ ~item.revoked
                 /\ k - Len(item.queue) \in 1 .. Len(beyond)
                 /\ o.queue[k] = beyond[k - Len(item.queue)]
        BY <3>2, <4>2, OfferedEffect
      <4>. QED
        BY <4>1, <4>2, <4>3
    <3>4. /\ from \in Number /\ answer.run \in Runs
          /\ \A k \in 1 .. Len(beyond) : beyond[k] = [run |-> answer.run, number |-> from + k]
      BY <2>2, <2>3, <2>7, <3>1, BeyondEffect
    <3>5. from \in Nat
      <4>1. bounds.records \in Nat
        BY BoundTypes DEF TypeOK
      <4>. QED
        BY <3>4, <4>1 DEF Number
    <3>6. CASE n <= Len(queue)
      BY <2>5, <3>3, <3>6
    <3>7. CASE n = Len(queue) + 1
      <4>1. items[t].on /\ ~items[t].revoked /\ 1 \in 1 .. Len(beyond) /\ q = beyond[1]
        <5>1. n > Len(queue) /\ n - Len(queue) = 1
          BY <1>3, <3>7
        <5>. QED
          BY <1>3, <1>4, <3>3, <5>1
      <4>2. q = [run |-> answer.run, number |-> from + 1]
        BY <3>4, <4>1
      <4>3. p = Chain(t)[Len(queue)]
        <5>1. /\ n - 1 = Len(queue) /\ Len(queue) \in 0 .. Len(queue)
              /\ Len(queue) = 0 \/ Len(queue) \in 1 .. Len(queue)
          BY <1>3, <3>7
        <5>. QED
          BY <1>4, <1>5, <2>3, <3>3, <5>1
      <4>4. p = known
        BY <1>2, <4>1, <4>3 DEF NothingMissed
      <4>5. l \in Local /\ Answered(l) /\ Behind(l) /\ Timely(l)
        <5>1. l \in Local /\ Answered(l) /\ Behind(l)
          BY <2>1, <2>4 DEF TypeOK, AnswerInv, CursorInv
        <5>. QED
          BY <1>8, <2>1, <3>2, <5>1 DEF Receive, Timely
      <4>6. Follows(p, q)
        BY <2>1, <2>2, <4>2, <4>4, <4>5, FirstBeyond
      <4>7. p \in Place
        BY <4>4 DEF TypeOK
      <4>8. q \in Place
        <5>1. beyond[1] \in Place
          BY <3>2, <4>1
        <5>. QED
          BY <4>1, <5>1
      <4>. QED
        BY <4>6, <4>7, <4>8, FollowsKept
    <3>8. CASE n > Len(queue) + 1
      <4>1. PICK k : k = n - Len(queue)
        OBVIOUS
      <4>2. k \in 1 .. Len(beyond) /\ q = beyond[k]
        <5>1. n \in 1 .. Len(new) /\ n > Len(queue)
          BY <1>3, <3>8
        <5>. QED
          BY <1>4, <3>3, <4>1, <5>1
      <4>3. /\ n - 1 \in 1 .. Len(new) /\ n - 1 > Len(queue) /\ n - 1 # 0
            /\ (n - 1) - Len(queue) = k - 1
        BY <1>3, <3>8, <4>1
      <4>4. k - 1 \in 1 .. Len(beyond) /\ p = beyond[k - 1]
        BY <1>4, <3>3, <4>3
      <4>5. /\ q = [run |-> answer.run, number |-> from + k]
            /\ p = [run |-> answer.run, number |-> from + (k - 1)]
        BY <3>4, <4>2, <4>4
      <4>6. /\ p.run = q.run /\ p.number < q.number /\ p.number + 1 = q.number
        BY <3>5, <4>2, <4>5
      <4>. QED
        BY <4>6 DEF Follows
    <3>. QED
      BY <1>3, <3>6, <3>7, <3>8
  <2>. QED
    BY <2>6, <2>7
<1>. QED
  BY <1>7, <1>8

-------------------------------------------------------------------------------
\* No cursor is ahead of the records.

LEMMA InitReached == Init => NotAhead
<1> SUFFICES ASSUME Init PROVE NotAhead
  OBVIOUS
<1>1. /\ known = [run |-> 0, number |-> 0]
      /\ \A s \in Sockets : items[s].queue = <<>> /\ sock[s] = Closed
  BY DEF Init, None
<1>2. \A s \in Sockets : \A n \in 0 .. Len(items[s].queue) : Chain(s)[n] = Closed.place
  BY <1>1 DEF Chain
<1>. QED
  BY <1>1, <1>2 DEF NotAhead, Reached, Closed

\* What an answer brings is no further than its run has got.
LEMMA BroughtReached ==
  ASSUME TypeOK, Reached(known.run, known.number), NEW answer \in Answers,
         answer.run # 0, answer.last <= captured[answer.run], ~NoRecords(answer)
  PROVE  /\ Reached(answer.run, answer.last)
         /\ Reached(answer.run, Later(Cursor(answer), answer.last))
         /\ \A n \in 1 .. Len(Beyond(answer)) :
              Reached(Beyond(answer)[n].run, Beyond(answer)[n].number)
<1>1. PICK r, last, c, from :
        r = answer.run /\ last = answer.last /\ c = Cursor(answer)
        /\ from = Later(Cursor(answer), answer.first)
  OBVIOUS
<1>2. /\ r # 0 /\ last <= captured[r]
      /\ c = IF known.run = r THEN known.number ELSE 0
      /\ IF known.run = 0 THEN known.number = 0 ELSE known.number <= captured[known.run]
  BY <1>1 DEF Reached, Cursor
<1>3. last \in Nat /\ c \in Nat /\ from \in Nat /\ captured[r] \in Nat
  <2>1. /\ from \in Number /\ last \in Number /\ r \in Runs /\ c \in Number
    BY <1>1, BeyondEffect
  <2>2. captured[r] \in Number
    BY <1>2, <2>1, EvictedTypes
  <2>. QED
    BY <2>1, <2>2, Naturals, Zenon
<1>4. c <= captured[r]
  BY <1>2, <1>3
<1>5. Later(c, last) <= captured[r]
  BY <1>2, <1>3, <1>4 DEF Later
<1>6. ASSUME NEW n \in 1 .. Len(Beyond(answer))
      PROVE  Reached(Beyond(answer)[n].run, Beyond(answer)[n].number)
  <2>1. /\ Len(Beyond(answer)) = IF from < last THEN last - from ELSE 0
        /\ Beyond(answer)[n] = [run |-> r, number |-> from + n]
    BY <1>1, BeyondEffect
  <2>2. from + n <= captured[r]
    BY <1>2, <1>3, <2>1
  <2>. QED
    BY <1>2, <2>1, <2>2 DEF Reached
<1>. QED
  BY <1>1, <1>2, <1>5, <1>6 DEF Reached

\* The places of a queue have their types.
LEMMA ChainTypes ==
  ASSUME TypeOK, NEW t \in Sockets, NEW n \in 0 .. Len(items[t].queue)
  PROVE  Chain(t)[n] \in Place /\ Chain(t)[n].run \in Runs /\ Chain(t)[n].number \in Number
<1>1. items[t].queue \in Seq(Place) /\ sock[t].place \in Place
  BY DEF TypeOK, Item, Local
<1>2. n = 0 \/ n \in 1 .. Len(items[t].queue)
  BY <1>1
<1>3. Chain(t)[n] \in Place
  BY <1>1, <1>2, ChainIs
<1>. QED
  BY <1>3 DEF Place

LEMMA PlaceKept ==
  ASSUME TypeOK, [Next]_vars, NEW p \in Place, Reached(p.run, p.number)
  PROVE  Reached(p.run, p.number)'
<1>1. PICK r, number : r = p.run /\ number = p.number
  OBVIOUS
<1>2. r \in Runs /\ number \in Number /\ Reached(r, number)
  BY <1>1 DEF Place
<1>3. Reached(r, number)'
  BY <1>2, ReachedKept
<1>. QED
  BY <1>1, <1>3 DEF Reached

\* What is known of an answer that is received.
LEMMA Received ==
  ASSUME TypeOK, AnswerInv, NEW s \in Sockets, Receive(s),
         NEW l, l = sock[s], NEW answer, answer = l.answer
  PROVE  /\ l \in Local /\ answer \in Answers
         /\ answer.run # 0 /\ answer.last <= captured[answer.run]
         /\ l.run \in {0, answer.run} \/ l.after = 0
<1>1. l \in Local /\ answer \in Answers
  BY LocalTypes DEF TypeOK
<1>2. Answered(l)
  BY DEF AnswerInv
<1>3. \/ l.pc = "answered" /\ l.run \in {0, answer.run}
      \/ l.pc = "answered again"
  BY DEF Receive
<1>. QED
  BY <1>1, <1>2, <1>3 DEF Answered

LEMMA NextReached ==
  ASSUME TypeOK, TypeOK', QueueInv, SubscriptionsAreSockets, AnswerInv, NotAhead, [Next]_vars
  PROVE  NotAhead'
<1>1. known \in Place /\ Reached(known.run, known.number)
  BY DEF TypeOK, NotAhead
<1>2. Closed.place.run = 0 /\ Closed.place.number = 0
  BY DEF Closed
<1>3. ASSUME NEW k, k = known' PROVE Reached(k.run, k.number)'
  <2>1. CASE k = known
    BY <1>1, <2>1, PlaceKept
  <2>2. CASE k = [run |-> 0, number |-> 0]
    BY <2>2 DEF Reached
  <2>3. ASSUME NEW s \in Sockets, Receive(s) PROVE Reached(k.run, k.number)'
    <3>1. PICK l, answer : l = sock[s] /\ answer = l.answer
      OBVIOUS
    <3>2. answer \in Answers /\ answer.run # 0 /\ answer.last <= captured[answer.run]
      BY <2>3, <3>1, Received
    <3>3. CASE NoRecords(answer)
      BY <1>3, <2>1, <2>3, <3>1, <3>3, ReceiveShape
    <3>4. CASE ~NoRecords(answer)
      <4>1. k = [run |-> answer.run, number |-> Later(Cursor(answer), answer.last)]
        BY <1>3, <2>3, <3>1, <3>4, ReceiveShape
      <4>2. k \in Place
        BY <3>2, <4>1, SharedTypes
      <4>3. Reached(k.run, k.number)
        BY <1>1, <3>2, <3>4, <4>1, BroughtReached
      <4>. QED
        BY <4>2, <4>3, PlaceKept
    <3>. QED
      BY <3>3, <3>4
  <2>4. ASSUME NEW s \in Sockets, Connect(s) \/ Socket(s) \/ Leave(s), ~Receive(s)
        PROVE  k = known
    BY <1>3, <2>4, SocketCases DEF Plain, Ends, Joins, Takes, Answer, AskAgain, manager
  <2>5. CASE ~\E s \in Sockets : Connect(s) \/ Socket(s) \/ Leave(s)
    BY <1>3, <2>1, <2>2, <2>5, OtherCases DEF Still, DashboardRestarts, RevokeSubscriptions
  <2>. QED
    BY <2>1, <2>3, <2>4, <2>5
<1>4. ASSUME NEW t \in Sockets, NEW l, l = sock'[t] PROVE Reached(l.run, l.after)'
  <2>1. PICK old : old = sock[t]
    OBVIOUS
  <2>2. /\ old.run \in Runs /\ old.after \in Number /\ Reached(old.run, old.after)
        /\ l.run \in Runs
    <3>1. old \in Local /\ l \in Local'
      BY <1>4, <2>1 DEF TypeOK
    <3>2. Runs' = Runs
      BY BrokerGrows, SetsKept
    <3>. QED
      BY <2>1, <3>1, <3>2 DEF Local, NotAhead
  <2>3. CASE l.after = old.after /\ l.run = old.run
    <3>1. Reached(old.run, old.after)'
      <4>1. PICK r, number : r = old.run /\ number = old.after
        OBVIOUS
      <4>2. Reached(r, number)'
        BY <2>2, <4>1, ReachedKept
      <4>. QED
        BY <4>1, <4>2 DEF Reached
    <3>. QED
      BY <2>3, <3>1 DEF Reached
  <2>4. CASE l.after = 0
    <3>1. l.run # 0 => captured'[l.run] \in Nat
      <4>1. bounds.runs \in Nat /\ bounds.records \in Nat
        BY BoundTypes DEF TypeOK
      <4>2. captured' \in [1 .. bounds.runs -> 0 .. bounds.records]
        BY BrokerGrows DEF Number
      <4>3. l.run \in 0 .. bounds.runs
        BY <2>2 DEF Runs
      <4>. QED
        BY <4>1, <4>2, <4>3
    <3>2. l.run # 0 => l.after <= captured'[l.run]
      BY <2>4, <3>1
    <3>. QED
      BY <2>4, <3>2 DEF Reached
  <2>5. CASE ~\E s \in Sockets : Receive(s)
    BY <1>4, <2>1, <2>3, <2>4, <2>5, AfterKept
  <2>6. ASSUME NEW s \in Sockets, Receive(s) PROVE Reached(l.run, l.after)'
    <3>1. PICK has, answer : has = sock[s] /\ answer = has.answer
      OBVIOUS
    <3>2. /\ answer \in Answers /\ answer.run # 0 /\ answer.last <= captured[answer.run]
          /\ has.run \in {0, answer.run} \/ has.after = 0
      BY <2>6, <3>1, Received
    <3>3. PICK after : after = IF NoRecords(answer) THEN has.after ELSE answer.last
      OBVIOUS
    <3>4. sock' = [sock EXCEPT ![s] =
            [has EXCEPT !.pc = "waiting", !.run = answer.run,
                        !.answer = Closed.answer, !.after = after]]
      BY <2>6, <3>1, <3>3 DEF Receive
    <3>5. /\ t = s => l.after = after /\ l.run = answer.run
          /\ t # s => l = old
      BY <1>4, <2>1, <3>1, <3>4 DEF TypeOK, Local
    <3>6. CASE t # s
      BY <2>3, <3>5, <3>6
    <3>7. CASE t = s /\ NoRecords(answer)
      <4>1. l.after = old.after /\ l.run = answer.run /\ has = old
        BY <2>1, <3>1, <3>3, <3>5, <3>7
      <4>2. old.run = answer.run \/ old.after = 0
        BY <2>2, <3>2, <4>1 DEF Reached
      <4>. QED
        BY <2>3, <2>4, <4>1, <4>2
    <3>8. CASE t = s /\ ~NoRecords(answer)
      <4>1. l.after = answer.last /\ l.run = answer.run
        BY <3>3, <3>5, <3>8
      <4>2. PICK r, last : r = answer.run /\ last = answer.last
        OBVIOUS
      <4>3. r \in Runs /\ last \in Number /\ Reached(r, last)
        BY <3>2, <4>2 DEF Answers, Reached
      <4>4. Reached(r, last)'
        BY <4>3, ReachedKept
      <4>. QED
        BY <4>1, <4>2, <4>4 DEF Reached
    <3>. QED
      BY <3>6, <3>7, <3>8
  <2>. QED
    BY <2>5, <2>6
<1>5. ASSUME NEW t \in Sockets, NEW n \in 0 .. Len(items'[t].queue), NEW q, q = Chain(t)'[n]
      PROVE  Reached(q.run, q.number)'
  <2>1. PICK queue, new : queue = items[t].queue /\ new = items'[t].queue
    OBVIOUS
  <2>2. /\ items[t] \in Item /\ queue \in Seq(Place) /\ Len(queue) \in Nat
        /\ Len(queue) <= Queue /\ Len(new) \in Nat /\ n \in 0 .. Len(new)
    <3>1. queue \in Seq(Place) /\ items[t] \in Item /\ Len(queue) <= Queue
      BY <2>1 DEF TypeOK, Item, QueueInv
    <3>2. new \in Seq(Place')
      BY <2>1 DEF TypeOK, Item
    <3>. QED
      BY <1>5, <2>1, <3>1, <3>2
  <2>3. q = IF n = 0 THEN sock'[t].place ELSE new[n]
    BY <1>5, <2>1, <2>2, ChainIs
  <2>4. \A k \in 0 .. Len(queue) : Chain(t)[k] = IF k = 0 THEN sock[t].place ELSE queue[k]
    BY <2>1, ChainIs
  <2>5. ASSUME NEW k \in 0 .. Len(queue), q = Chain(t)[k] PROVE Reached(q.run, q.number)'
    <3>1. q \in Place
      BY <2>1, <2>5, ChainTypes
    <3>2. Reached(q.run, q.number)
      BY <2>1, <2>5 DEF NotAhead
    <3>. QED
      BY <3>1, <3>2, PlaceKept
  <2>6. CASE ~\E s \in Sockets : Receive(s)
    <3>1. CASE Gone(t)
      <4>1. n = 0 /\ q = Closed.place
        BY <2>1, <2>2, <2>3, <3>1 DEF Gone, None
      <4>. QED
        BY <1>2, <4>1 DEF Reached
    <3>2. CASE Fresh(t)
      <4>1. n = 0 /\ q = known
        BY <2>1, <2>2, <2>3, <3>2 DEF Fresh
      <4>. QED
        BY <1>1, <4>1, PlaceKept
    <3>3. CASE Kept(t)
      <4>1. new = queue /\ sock'[t].place = sock[t].place
        BY <2>1, <3>3 DEF Kept
      <4>2. n \in 0 .. Len(queue) /\ q = Chain(t)[n]
        BY <2>2, <2>3, <2>4, <4>1
      <4>. QED
        BY <2>5, <4>2
    <3>4. CASE Sent(t)
      <4>1. queue # <<>> /\ new = Tail(queue) /\ sock'[t].place = Head(queue)
        BY <2>1, <3>4 DEF Sent
      <4>2. /\ Len(new) = Len(queue) - 1 /\ Head(queue) = queue[1]
            /\ \A k \in 1 .. Len(new) : new[k] = queue[k + 1]
        BY <2>2, <4>1
      <4>3. n + 1 \in 0 .. Len(queue) /\ n + 1 # 0 /\ (n # 0 => n \in 1 .. Len(new))
        BY <2>2, <4>2
      <4>4. q = queue[n + 1]
        <5>1. CASE n = 0
          BY <2>3, <4>1, <4>2, <5>1
        <5>2. CASE n # 0
          BY <2>3, <4>2, <4>3, <5>2
        <5>. QED
          BY <5>1, <5>2
      <4>. QED
        BY <2>4, <2>5, <4>3, <4>4
    <3>. QED
      BY <2>6, <3>1, <3>2, <3>3, <3>4, Shapes
  <2>7. ASSUME NEW s \in Sockets, Receive(s) PROVE Reached(q.run, q.number)'
    <3>1. PICK l, answer : l = sock[s] /\ answer = l.answer
      OBVIOUS
    <3>2. answer \in Answers /\ answer.run # 0 /\ answer.last <= captured[answer.run]
      BY <2>7, <3>1, Received
    <3>3. /\ sock'[t].place = sock[t].place
          /\ NoRecords(answer) => items' = items
          /\ ~NoRecords(answer) => items'[t] = Offered(items[t], Beyond(answer))
      BY <2>7, <3>1, ReceiveShape
    <3>4. ASSUME n <= Len(queue), \A k \in 1 .. Len(queue) : new[k] = queue[k]
          PROVE  Reached(q.run, q.number)'
      <4>1. n \in 0 .. Len(queue) /\ (n = 0 \/ n \in 1 .. Len(queue))
        BY <2>2, <3>4
      <4>2. q = Chain(t)[n]
        BY <2>3, <2>4, <3>3, <3>4, <4>1
      <4>. QED
        BY <2>5, <4>1, <4>2
    <3>5. CASE NoRecords(answer)
      BY <2>1, <2>2, <3>3, <3>4, <3>5
    <3>6. CASE ~NoRecords(answer)
      <4>1. PICK item, o, beyond : item = items[t] /\ o = items'[t] /\ beyond = Beyond(answer)
        OBVIOUS
      <4>2. /\ item \in Item /\ Len(item.queue) <= Queue /\ o = Offered(item, beyond)
            /\ queue = item.queue /\ new = o.queue /\ beyond \in Seq(Place)
        BY <2>1, <2>2, <3>2, <3>3, <3>6, <4>1, SharedTypes
      <4>3. /\ \A k \in 1 .. Len(queue) : new[k] = queue[k]
            /\ \A k \in 1 .. Len(new) : k > Len(queue) =>
                 k - Len(queue) \in 1 .. Len(beyond) /\ new[k] = beyond[k - Len(queue)]
        BY <4>2, OfferedEffect
      <4>4. CASE n <= Len(queue)
        BY <3>4, <4>3, <4>4
      <4>5. CASE n > Len(queue)
        <5>1. n \in 1 .. Len(new) /\ n # 0
          BY <2>2, <4>5
        <5>2. PICK k \in 1 .. Len(beyond) : q = beyond[k]
          BY <2>3, <4>3, <4>5, <5>1
        <5>3. Reached(q.run, q.number)
          BY <1>1, <3>2, <3>6, <4>1, <5>2, BroughtReached
        <5>4. q \in Place
          BY <4>2, <5>2
        <5>. QED
          BY <5>3, <5>4, PlaceKept
      <4>. QED
        BY <2>2, <4>4, <4>5
    <3>. QED
      BY <3>5, <3>6
  <2>. QED
    BY <2>6, <2>7
<1>. QED
  BY <1>3, <1>4, <1>5 DEF NotAhead, Reached

-------------------------------------------------------------------------------
\* The inductive invariant, and what follows from it.

LEMMA InitInv == Init => IInv
BY InitTyped, InitAnswers, InitReached, InitMissed, InitInOrder DEF IInv

LEMMA NextInv == IInv /\ [Next]_vars => IInv'
<1> SUFFICES ASSUME IInv, [Next]_vars PROVE IInv'
  OBVIOUS
<1>1. /\ TypeOK /\ QueueInv /\ AnswerInv /\ CursorInv /\ NotAhead
      /\ SubscriptionsAreSockets /\ NothingMissed /\ InOrder
  BY DEF IInv
<1>2. TypeOK'
  BY <1>1, NextTyped
<1>3. QueueInv' /\ SubscriptionsAreSockets'
  BY <1>1, NextQueues, NextSubscriptions
<1>4. AnswerInv' /\ CursorInv' /\ NotAhead'
  BY <1>1, <1>2, NextAnswers, NextCursors, NextReached
<1>5. NothingMissed' /\ InOrder'
  BY <1>1, <1>2, NextMissed, NextInOrder
<1>. QED
  BY <1>2, <1>3, <1>4, <1>5 DEF IInv

\* The inductive invariant holds in every reachable state.
THEOREM Invariance == Spec => []IInv
BY InitInv, NextInv, PTL DEF Spec

\* The sockets, the manager, the broker and the access have their types, and no
\* more subscriptions are counted than a user may have.
THEOREM TypeCorrect == Spec => []TypeOK
<1>1. IInv => TypeOK
  BY DEF IInv
<1>. QED
  BY <1>1, Invariance, PTL

\* The limit of a user holds whatever is leaked, and a socket has a subscription
\* exactly while it is served: publish reaches no socket that is gone, and misses
\* none that is there.
THEOREM SubscriptionsKept == Spec => []SubscriptionsAreSockets
<1>1. IInv => SubscriptionsAreSockets
  BY DEF IInv
<1>. QED
  BY <1>1, Invariance, PTL

\* publish skips over no socket: whatever the sockets' requests and answers do, one
\* that is not revoked has all that any of them has shared since it subscribed.
THEOREM AllShared == Spec => []NothingMissed
<1>1. IInv => NothingMissed
  BY DEF IInv
<1>. QED
  BY <1>1, Invariance, PTL

\* However answers overtake each other, a socket is sent the records in the order of
\* their capture, none twice, and none is missing that the broker still had.
THEOREM SentInOrder == Spec => []InOrder
<1>1. IInv => InOrder
  BY DEF IInv
<1>. QED
  BY <1>1, Invariance, PTL

\* The numbers of one run of the supervisor are never kept for another: no cursor is
\* ahead of the run it is about, so that nobody waits for records that come after
\* numbers the run has yet to reach; and what is sent was captured.
THEOREM NoneAhead == Spec => []NotAhead
<1>1. IInv => NotAhead
  BY DEF IInv
<1>. QED
  BY <1>1, Invariance, PTL

\* What a browser is shown is in order from one record to the next, for as long as
\* its socket lives.
THEOREM SendsOrdered == Spec => SendsInOrder
<1> DEFINE Sends == \A s \in Sockets :
                      Send(s) /\ items[s].queue # <<>> /\ ~crossed
                        => Follows(sock[s].place, sock'[s].place)
<1>1. ASSUME IInv PROVE Sends
  <2>1. SUFFICES ASSUME NEW s \in Sockets, Send(s), items[s].queue # <<>>, ~crossed
                 PROVE  Follows(sock[s].place, sock'[s].place)
    OBVIOUS
  <2>2. PICK queue : queue = items[s].queue
    OBVIOUS
  <2>3. queue \in Seq(Place) /\ sock \in [Sockets -> Local]
    BY <1>1, <2>2 DEF IInv, TypeOK, Item
  <2>4. 1 \in 1 .. Len(queue) /\ 0 \in 0 .. Len(queue) /\ 1 \in 0 .. Len(queue) /\ 1 - 1 = 0
        /\ Head(queue) = queue[1]
    BY <2>1, <2>2, <2>3
  <2>5. Chain(s)[0] = sock[s].place /\ Chain(s)[1] = queue[1]
    BY <2>2, <2>4, ChainIs
  <2>6. sock'[s].place = queue[1]
    BY <2>1, <2>2, <2>3, <2>4 DEF Send, Local
  <2>7. Follows(Chain(s)[1 - 1], Chain(s)[1])
    BY <1>1, <2>1, <2>2, <2>4 DEF IInv, InOrder
  <2>. QED
    BY <2>4, <2>5, <2>6, <2>7
<1>2. IInv => [Sends]_vars
  BY <1>1
<1>. QED
  BY <1>2, Invariance, PTL DEF SendsInOrder
================================================================================
