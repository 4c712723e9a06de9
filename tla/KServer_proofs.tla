---------------------------- MODULE KServer_proofs ----------------------------
(***************************************************************************)
(* Theorems about the server, for every value of the constants: the types, *)
(* the one async_accept, and that the server drives the reload watch as    *)
(* WatchSpec allows, which makes the theorems of KSPRS_rld_proofs the      *)
(* server's too; and about the user records its clients hold: a connection *)
(* that replaces another inherits its user record, and no user record      *)
(* outlives its connection.                                                *)
(***************************************************************************)
EXTENDS KServer, KSPRS_rld_proofs, SequenceLemmas, FiniteSetTheorems

(* The lists *)

\* A list of the elements of S: every element is in it, perhaps not in its
\* place, for an element may be returned that is not in use.
Orders(S) == {o \in Seq(S) : \A e \in S : \E i \in DOMAIN o : o[i] = e}
Lists(S)  == [order : Orders(S), new : S \cup {NULL}, len : Int]

\* An element of a list is found in it.
LEMMA PlaceIs ==
    ASSUME NEW S, NEW L \in Lists(S), NEW e \in S
    PROVE  List!Place(L, e) \in DOMAIN L.order /\ L.order[List!Place(L, e)] = e
  BY DEF List!Place, Lists, Orders

\* Get_NewElmt has something to hand out once an element was returned.
LEMMA MoveToEndKeeps ==
    ASSUME NEW S, NEW L \in Lists(S), NEW e \in S
    PROVE  /\ List!MoveToEnd(L, e) \in Lists(S)
           /\ List!MoveToEnd(L, e).new = IF L.new = NULL THEN e ELSE L.new
<1> DEFINE k == List!Place(L, e)
           r == List!RemoveAt(L.order, k)
           M == List!MoveToEnd(L, e)
<1>1. k \in DOMAIN L.order /\ L.order[k] = e BY PlaceIs
<1>2. r = RemoveAt(L.order, k) BY DEF RemoveAt, List!RemoveAt
<1> HIDE DEF k
<1>3. L.order \in Seq(S) /\ Len(L.order) \in Nat /\ DOMAIN L.order = 1 .. Len(L.order)
  BY LenProperties DEF Lists, Orders
<1> HIDE DEF r
<1>4. /\ r \in Seq(S) /\ Len(r) = Len(L.order) - 1
      /\ \A i \in 1 .. Len(L.order) - 1 :
            r[i] = IF i < k THEN L.order[i] ELSE L.order[i + 1]
  BY <1>1, <1>2, <1>3, RemoveAtProperties
<1>5. /\ Append(r, e) \in Seq(S) /\ DOMAIN Append(r, e) = 1 .. Len(L.order)
      /\ \A i \in 1 .. Len(L.order) - 1 : Append(r, e)[i] = r[i]
      /\ Append(r, e)[Len(L.order)] = e
  BY <1>3, <1>4, AppendProperties, LenProperties
<1>6. M = [order |-> Append(r, e), new |-> IF L.new = NULL THEN e ELSE L.new,
           len |-> (L.len - 1) % 65536]
  BY DEF List!MoveToEnd, r, k
<1>7. ASSUME NEW x \in S PROVE \E i \in 1 .. Len(L.order) : Append(r, e)[i] = x
  <2>1. CASE x = e BY <2>1, <1>1, <1>3, <1>5
  <2>2. CASE x # e
    <3>1. PICK j \in 1 .. Len(L.order) : L.order[j] = x BY <1>3 DEF Lists, Orders
    <3>2. j # k BY <3>1, <2>2, <1>1
    <3>3. CASE j < k BY <3>1, <3>3, <1>1, <1>3, <1>4, <1>5
    <3>4. CASE j > k
      <4>1. j - 1 \in 1 .. Len(L.order) - 1 /\ ~(j - 1 < k) /\ (j - 1) + 1 = j
        BY <3>1, <3>4, <1>1, <1>3
      <4>2. Append(r, e)[j - 1] = x BY <4>1, <3>1, <1>4, <1>5
      <4>3. j - 1 \in 1 .. Len(L.order) BY <4>1, <1>3
      <4> QED BY <4>2, <4>3
    <3>5. j < k \/ j > k BY <3>1, <3>2, <1>1, <1>3
    <3> QED BY <3>3, <3>4, <3>5
  <2> QED BY <2>1, <2>2
<1>8. Append(r, e) \in Orders(S) BY <1>5, <1>7 DEF Orders
<1>9. (L.len - 1) % 65536 \in Int /\ L.new \in S \cup {NULL} BY DEF Lists
<1> HIDE DEF M
<1> QED BY <1>6, <1>8, <1>9 DEF M, Lists

\* Get_NewElmt leaves a list, and one that has nothing to hand out as it is.
LEMMA GetNewElmtKeeps ==
    ASSUME NEW S, NEW L \in Lists(S)
    PROVE  /\ List!GetNewElmt(L) \in Lists(S)
           /\ L.new = NULL => List!GetNewElmt(L) = L
<1>1. CASE L.new = NULL BY <1>1 DEF List!GetNewElmt
<1>2. CASE L.new # NULL
  <2> DEFINE k == List!Place(L, L.new)
             n == IF k = Len(L.order) THEN NULL ELSE L.order[k + 1]
             l == (L.len + 1) % 65536
             G == [L EXCEPT !.new = n, !.len = l]
  <2>1. k \in 1 .. Len(L.order) /\ L.order \in [1 .. Len(L.order) -> S]
        /\ Len(L.order) \in Nat
    BY <1>2, PlaceIs, LenProperties DEF Lists, Orders
  <2>2. n \in S \cup {NULL}
    <3> HIDE DEF k
    <3>1. CASE k # Len(L.order)
      <4>1. k + 1 \in 1 .. Len(L.order) BY <2>1, <3>1
      <4> QED BY <2>1, <4>1
    <3> QED BY <3>1
  <2>3. List!GetNewElmt(L) = G BY <1>2 DEF List!GetNewElmt, List!Following
  <2> HIDE DEF k, n
  <2>4. l \in Int BY DEF Lists
  <2> HIDE DEF l
  <2>5. G \in Lists(S) BY <2>2, <2>4 DEF Lists
  <2> QED BY <1>2, <2>3, <2>5
<1> QED BY <1>1, <1>2

\* A list as constructed, whose first element is free.
LEMMA NewListOver ==
    ASSUME NEW n \in Nat \ {0}
    PROVE  List!NewList(n) \in Lists(1 .. n) /\ List!NewList(n).new = 1
<1> DEFINE o == [i \in 1 .. n |-> i]
<1>1. o \in Seq(1 .. n) BY SeqDef
<1>2. \A e \in 1 .. n : \E i \in DOMAIN o : o[i] = e OBVIOUS
<1>3. o \in Orders(1 .. n) BY <1>1, <1>2 DEF Orders
<1>4. List!NewList(n) = [order |-> o, new |-> 1, len |-> 0] BY DEF List!NewList
<1> HIDE DEF o
<1> QED BY <1>3, <1>4 DEF Lists

-----------------------------------------------------------------------------
(* The queue *)

\* The handlers that are queued: the accept's belongs to no client, and no
\* other handler does.
Handlers == {h \in Handler : h.op = "accept" <=> h.client = NULL}

\* The handler of the accept is not queued, or is queued once.
NoAccept(q) == \A i \in DOMAIN q : q[i].op # "accept"
AcceptAt(q, k) == \A i \in DOMAIN q : q[i].op = "accept" <=> i = k
SingleAccept(q) == \E k \in DOMAIN q : AcceptAt(q, k)

\* A handler of a client is queued.
LEMMA AppendClient ==
    ASSUME NEW q \in Seq(Handlers), NEW h \in Handlers, h.op # "accept"
    PROVE  /\ Append(q, h) \in Seq(Handlers)
           /\ NoAccept(q) => NoAccept(Append(q, h))
           /\ SingleAccept(q) => SingleAccept(Append(q, h))
<1>1. /\ Append(q, h) \in Seq(Handlers) /\ Len(q) \in Nat
      /\ DOMAIN q = 1 .. Len(q) /\ DOMAIN Append(q, h) = 1 .. Len(q) + 1
      /\ \A i \in 1 .. Len(q) : Append(q, h)[i] = q[i]
      /\ Append(q, h)[Len(q) + 1] = h
  BY AppendProperties, LenProperties
<1>2. ASSUME NoAccept(q) PROVE NoAccept(Append(q, h))
  BY <1>1, <1>2 DEF NoAccept
<1>3. ASSUME SingleAccept(q) PROVE SingleAccept(Append(q, h))
  <2>1. PICK k \in DOMAIN q : AcceptAt(q, k) BY <1>3 DEF SingleAccept
  <2>2. AcceptAt(Append(q, h), k) BY <1>1, <2>1 DEF AcceptAt
  <2>3. k \in DOMAIN Append(q, h) BY <1>1
  <2> QED BY <2>2, <2>3 DEF SingleAccept
<1> QED BY <1>1, <1>2, <1>3

\* The handler of the accept is queued.
LEMMA AppendAccept ==
    ASSUME NEW q \in Seq(Handlers), NEW h \in Handlers, h.op = "accept",
           NoAccept(q)
    PROVE  Append(q, h) \in Seq(Handlers) /\ SingleAccept(Append(q, h))
<1>1. /\ Append(q, h) \in Seq(Handlers) /\ Len(q) \in Nat
      /\ DOMAIN q = 1 .. Len(q) /\ DOMAIN Append(q, h) = 1 .. Len(q) + 1
      /\ \A i \in 1 .. Len(q) : Append(q, h)[i] = q[i]
      /\ Append(q, h)[Len(q) + 1] = h
  BY AppendProperties, LenProperties
<1>2. AcceptAt(Append(q, h), Len(q) + 1) BY <1>1 DEF AcceptAt, NoAccept
<1> QED BY <1>1, <1>2 DEF SingleAccept

\* The first handler is taken off the queue.
LEMMA TailKeeps ==
    ASSUME NEW q \in Seq(Handlers), q # <<>>
    PROVE  /\ Tail(q) \in Seq(Handlers) /\ Head(q) \in Handlers
           /\ NoAccept(q) => Head(q).op # "accept" /\ NoAccept(Tail(q))
           /\ SingleAccept(q) =>
                 IF Head(q).op = "accept" THEN NoAccept(Tail(q))
                                          ELSE SingleAccept(Tail(q))
<1>1. /\ Tail(q) \in Seq(Handlers) /\ Head(q) \in Handlers
      /\ Len(q) \in Nat /\ Len(q) # 0
      /\ DOMAIN q = 1 .. Len(q) /\ DOMAIN Tail(q) = 1 .. Len(q) - 1
      /\ \A i \in 1 .. Len(q) - 1 : Tail(q)[i] = q[i + 1]
  BY HeadTailProperties, LenProperties, EmptySeq
<1>2. Head(q) = q[1] /\ 1 \in DOMAIN q BY <1>1
<1>3. ASSUME NoAccept(q) PROVE Head(q).op # "accept" /\ NoAccept(Tail(q))
  BY <1>1, <1>2, <1>3 DEF NoAccept
<1>4. ASSUME SingleAccept(q)
      PROVE  IF Head(q).op = "accept" THEN NoAccept(Tail(q))
                                      ELSE SingleAccept(Tail(q))
  <2>1. PICK k \in DOMAIN q : AcceptAt(q, k) BY <1>4 DEF SingleAccept
  <2>2. CASE Head(q).op = "accept"
    <3>1. k = 1 BY <2>1, <2>2, <1>2 DEF AcceptAt
    <3>2. NoAccept(Tail(q)) BY <1>1, <2>1, <3>1 DEF AcceptAt, NoAccept
    <3> QED BY <2>2, <3>2
  <2>3. CASE Head(q).op # "accept"
    <3>1. k # 1 BY <2>1, <2>3, <1>2 DEF AcceptAt
    <3>2. k - 1 \in DOMAIN Tail(q) BY <1>1, <3>1
    <3>3. AcceptAt(Tail(q), k - 1) BY <1>1, <2>1, <3>1 DEF AcceptAt
    <3> QED BY <2>3, <3>2, <3>3 DEF SingleAccept
  <2> QED BY <2>2, <2>3
<1> QED BY <1>1, <1>3, <1>4

\* A handler of a client is taken back.
LEMMA RemoveClient ==
    ASSUME NEW q \in Seq(Handlers), NEW r \in DOMAIN q, q[r].op # "accept"
    PROVE  /\ RemoveAt(q, r) \in Seq(Handlers)
           /\ NoAccept(q) => NoAccept(RemoveAt(q, r))
           /\ SingleAccept(q) => SingleAccept(RemoveAt(q, r))
<1> DEFINE p == RemoveAt(q, r)
<1>1. /\ p \in Seq(Handlers) /\ Len(q) \in Nat
      /\ DOMAIN q = 1 .. Len(q) /\ DOMAIN p = 1 .. Len(q) - 1
      /\ \A i \in 1 .. Len(q) - 1 : p[i] = IF i < r THEN q[i] ELSE q[i + 1]
  BY RemoveAtProperties, LenProperties
<1> HIDE DEF p
<1>2. ASSUME NoAccept(q) PROVE NoAccept(p) BY <1>1, <1>2 DEF NoAccept
<1>3. ASSUME SingleAccept(q) PROVE SingleAccept(p)
  <2>1. PICK k \in DOMAIN q : AcceptAt(q, k) BY <1>3 DEF SingleAccept
  <2>2. k # r BY <2>1 DEF AcceptAt
  <2>3. CASE k < r
    <3>1. k \in DOMAIN p BY <1>1, <2>3
    <3>2. ASSUME NEW i \in DOMAIN p PROVE p[i].op = "accept" <=> i = k
      <4>1. CASE i < r BY <4>1, <1>1, <2>1, <2>3 DEF AcceptAt
      <4>2. CASE i >= r
        <5>1. p[i] = q[i + 1] /\ i + 1 \in DOMAIN q /\ i + 1 # k /\ i # k
          BY <4>2, <1>1, <2>3
        <5> QED BY <5>1, <2>1 DEF AcceptAt
      <4> QED BY <4>1, <4>2, <1>1
    <3> QED BY <3>1, <3>2 DEF SingleAccept, AcceptAt
  <2>4. CASE k > r
    <3>1. k - 1 \in DOMAIN p BY <1>1, <2>4
    <3>2. ASSUME NEW i \in DOMAIN p PROVE p[i].op = "accept" <=> i = k - 1
      <4>1. CASE i < r
        <5>1. p[i] = q[i] /\ i \in DOMAIN q /\ i # k /\ i # k - 1
          BY <4>1, <1>1, <2>4
        <5> QED BY <5>1, <2>1 DEF AcceptAt
      <4>2. CASE i >= r
        <5>1. p[i] = q[i + 1] /\ i + 1 \in DOMAIN q /\ (i + 1 = k <=> i = k - 1)
          BY <4>2, <1>1
        <5> QED BY <5>1, <2>1 DEF AcceptAt
      <4> QED BY <4>1, <4>2, <1>1
    <3> QED BY <3>1, <3>2 DEF SingleAccept, AcceptAt
  <2> QED BY <2>2, <2>3, <2>4, <1>1
<1> QED BY <1>1, <1>2, <1>3 DEF p

\* Marking handlers changes neither their number nor what they are for.
LEMMA MarkKeeps ==
    ASSUME NEW q \in Seq(Handlers), NEW c \in Client,
           NEW m, m = [i \in DOMAIN q |->
                         [q[i] EXCEPT !.stale = @ \/ q[i].client = c]]
    PROVE  /\ m \in Seq(Handlers)
           /\ NoAccept(q) => NoAccept(m)
           /\ SingleAccept(q) => SingleAccept(m)
<1>1. Len(q) \in Nat /\ DOMAIN q = 1 .. Len(q) /\ DOMAIN m = DOMAIN q
  BY LenProperties
<1>2. ASSUME NEW i \in DOMAIN q
      PROVE  m[i] \in Handlers /\ m[i].op = q[i].op
  <2>1. q[i] \in Handlers BY <1>1, ElementOfSeq
  <2>2. (q[i].stale \/ q[i].client = c) \in BOOLEAN OBVIOUS
  <2>3. m[i] = [q[i] EXCEPT !.stale = (q[i].stale \/ q[i].client = c)]
    OBVIOUS
  <2> QED BY <2>1, <2>2, <2>3 DEF Handlers, Handler
<1>3. m \in [1 .. Len(q) -> Handlers] BY <1>1, <1>2
<1>4. m \in Seq(Handlers) BY <1>1, <1>3, SeqDef
<1>5. NoAccept(q) => NoAccept(m) BY <1>1, <1>2 DEF NoAccept
<1>6. ASSUME SingleAccept(q) PROVE SingleAccept(m)
  <2>1. PICK k \in DOMAIN q : AcceptAt(q, k) BY <1>6 DEF SingleAccept
  <2>2. AcceptAt(m, k) BY <1>1, <1>2, <2>1 DEF AcceptAt
  <2> QED BY <1>1, <2>2 DEF SingleAccept
<1> QED BY <1>4, <1>5, <1>6

-----------------------------------------------------------------------------
(* The operations on the pool *)

Pools == [clnts : Lists(Client), under : Client \cup {NULL},
          rq : Seq(Handlers), pend : [Client -> ClientOp \cup {NULL}],
          armed : BOOLEAN]

\* No async_accept is in progress or about to be handled, or exactly one is.
Waits(P)   == ~P.armed /\ NoAccept(P.rq)
Accepts(P) == IF P.armed THEN NoAccept(P.rq) ELSE SingleAccept(P.rq)

\* An accept is under way just when a client is set aside for it, and one is
\* set aside unless the pool is empty.
Sound(P) ==
    IF P.under = NULL THEN Waits(P) /\ P.clnts.new = NULL ELSE Accepts(P)

How == {"done", "ready", "failed"}

\* Q has the acceptor of P.
Same(P, Q) ==
    /\ Q.clnts = P.clnts /\ Q.under = P.under
    /\ Waits(P) => Waits(Q)
    /\ Accepts(P) => Accepts(Q)

\* What leaves the acceptor alone keeps it sound.
LEMMA SameSound ==
    ASSUME NEW P, NEW Q, Same(P, Q), Sound(P)
    PROVE  Sound(Q)
  BY DEF Same, Sound

\* Queueing a handler of a client.
LEMMA QueueClient ==
    ASSUME NEW P \in Pools, NEW op \in ClientOp, NEW c \in Client,
           NEW how \in How, NEW stale \in BOOLEAN
    PROVE  /\ Queue(P, op, c, how, stale) \in Pools
           /\ Same(P, Queue(P, op, c, how, stale))
<1> DEFINE h == [op |-> op, client |-> c, how |-> how, stale |-> stale]
           Q == Queue(P, op, c, how, stale)
<1>1. h \in Handlers /\ h.op # "accept"
  BY WatchAssumption DEF Handlers, Handler, How, ClientOp
<1>2. Q = [P EXCEPT !.rq = Append(P.rq, h)] BY DEF Queue
<1> HIDE DEF h, Q
<1>3. P.rq \in Seq(Handlers) BY DEF Pools
<1>4. /\ Append(P.rq, h) \in Seq(Handlers)
      /\ NoAccept(P.rq) => NoAccept(Append(P.rq, h))
      /\ SingleAccept(P.rq) => SingleAccept(Append(P.rq, h))
  BY <1>1, <1>3, AppendClient
<1>5. Q \in Pools /\ Q.rq = Append(P.rq, h) /\ Q.clnts = P.clnts
      /\ Q.under = P.under /\ Q.armed = P.armed
  BY <1>2, <1>4 DEF Pools
<1>6. Same(P, Q) BY <1>4, <1>5 DEF Same, Waits, Accepts
<1> QED BY <1>5, <1>6 DEF Q

\* Starting a read or a write of a client.
LEMMA StartKeeps ==
    ASSUME NEW P \in Pools, NEW op \in ClientOp, NEW c \in Client,
           NEW connected \in BOOLEAN, NEW stale \in BOOLEAN, NEW now \in BOOLEAN
    PROVE  /\ Start(P, op, c, connected, stale, now) \in Pools
           /\ Same(P, Start(P, op, c, connected, stale, now))
<1>1. CASE ~connected
  <2>1. Start(P, op, c, connected, stale, now) = Queue(P, op, c, "failed", stale)
    BY <1>1 DEF Start
  <2> QED BY <2>1, QueueClient DEF How
<1>2. CASE connected /\ now
  <2>1. Start(P, op, c, connected, stale, now) = Queue(P, op, c, "done", stale)
    BY <1>2 DEF Start
  <2> QED BY <2>1, QueueClient DEF How
<1>3. CASE connected /\ ~now
  <2>1. Start(P, op, c, connected, stale, now) = [P EXCEPT !.pend[c] = op]
    BY <1>3 DEF Start
  <2>2. /\ [P EXCEPT !.pend[c] = op] \in Pools
        /\ Same(P, [P EXCEPT !.pend[c] = op])
    BY DEF Pools, Same, Waits, Accepts
  <2> QED BY <2>1, <2>2
<1> QED BY <1>1, <1>2, <1>3

\* Starting an accept where there is none, with a client set aside.
LEMMA StartAcceptKeeps ==
    ASSUME NEW P \in Pools, Waits(P), P.under # NULL,
           NEW connected \in BOOLEAN, NEW now \in BOOLEAN
    PROVE  /\ StartAccept(P, connected, now) \in Pools
           /\ Sound(StartAccept(P, connected, now))
           /\ StartAccept(P, connected, now).under = P.under
<1> DEFINE Q(how) == Queue(P, "accept", NULL, how, FALSE)
<1>1. ASSUME NEW how \in How
      PROVE  Q(how) \in Pools /\ Sound(Q(how)) /\ Q(how).under = P.under
  <2> DEFINE h == [op |-> "accept", client |-> NULL, how |-> how, stale |-> FALSE]
  <2>1. h \in Handlers /\ h.op = "accept" BY DEF Handlers, Handler, How
  <2>2. Q(how) = [P EXCEPT !.rq = Append(P.rq, h)] BY DEF Queue
  <2>3. P.rq \in Seq(Handlers) /\ NoAccept(P.rq) /\ ~P.armed BY DEF Pools, Waits
  <2> HIDE DEF h, Q
  <2>4. Append(P.rq, h) \in Seq(Handlers) /\ SingleAccept(Append(P.rq, h))
    BY <2>1, <2>3, AppendAccept
  <2>5. Q(how) \in Pools /\ Q(how).rq = Append(P.rq, h)
        /\ Q(how).under = P.under /\ Q(how).armed = P.armed
    BY <2>2, <2>4 DEF Pools
  <2> QED BY <2>3, <2>4, <2>5 DEF Sound, Accepts
<1>2. CASE connected
  <2>1. StartAccept(P, connected, now) = Q("failed") BY <1>2 DEF StartAccept
  <2> HIDE DEF Q
  <2> QED BY <1>1, <2>1 DEF How
<1>3. CASE ~connected /\ now
  <2>1. StartAccept(P, connected, now) = Q("done") BY <1>3 DEF StartAccept
  <2> HIDE DEF Q
  <2> QED BY <1>1, <2>1 DEF How
<1>4. CASE ~connected /\ ~now
  <2>1. StartAccept(P, connected, now) = [P EXCEPT !.armed = TRUE]
    BY <1>4 DEF StartAccept
  <2>2. [P EXCEPT !.armed = TRUE] \in Pools BY DEF Pools
  <2>3. /\ [P EXCEPT !.armed = TRUE].armed
        /\ [P EXCEPT !.armed = TRUE].rq = P.rq
        /\ [P EXCEPT !.armed = TRUE].under = P.under
    BY DEF Pools
  <2> QED BY <2>1, <2>2, <2>3 DEF Waits, Sound, Accepts
<1> QED BY <1>2, <1>3, <1>4

\* Closing a socket takes back handlers of its client only.
LEMMA DetachedKeeps ==
    ASSUME NEW P \in Pools, NEW c \in Client
    PROVE  Detached(P, c) \in Pools /\ Same(P, Detached(P, c))
<1> DEFINE ready == {i \in DOMAIN P.rq : P.rq[i].client = c /\ P.rq[i].how = "ready"}
           r     == CHOOSE i \in ready : TRUE
           left  == IF ready = {} THEN P.rq ELSE RemoveAt(P.rq, r)
           m     == [i \in DOMAIN left |->
                       [left[i] EXCEPT !.stale = @ \/ left[i].client = c]]
           D     == Detached(P, c)
<1>1. P.rq \in Seq(Handlers) BY DEF Pools
<1>2. /\ left \in Seq(Handlers)
      /\ NoAccept(P.rq) => NoAccept(left)
      /\ SingleAccept(P.rq) => SingleAccept(left)
  <2>1. CASE ready = {} BY <2>1, <1>1
  <2>2. CASE ready # {}
    <3>1. r \in ready BY <2>2
    <3>2. r \in DOMAIN P.rq /\ P.rq[r].client = c BY <3>1
    <3>3. P.rq[r] \in Handlers BY <1>1, <3>2, ElementOfSeq, LenProperties, ZenonT(30)
    <3>4. P.rq[r].op # "accept" BY <3>2, <3>3, WatchAssumption DEF Handlers
    <3>5. left = RemoveAt(P.rq, r) BY <2>2
    <3> HIDE DEF left, r, ready
    <3> QED BY <1>1, <3>2, <3>4, <3>5, RemoveClient
  <2> QED BY <2>1, <2>2
<1>3. D = [P EXCEPT !.rq = m, !.pend[c] = NULL] BY DEF Detached
<1> HIDE DEF left
<1>4. /\ m \in Seq(Handlers)
      /\ NoAccept(left) => NoAccept(m)
      /\ SingleAccept(left) => SingleAccept(m)
  BY <1>2, MarkKeeps
<1> HIDE DEF m, D
<1>5. D \in Pools /\ D.rq = m /\ D.clnts = P.clnts /\ D.under = P.under
      /\ D.armed = P.armed
  BY <1>3, <1>4 DEF Pools
<1>6. Same(P, D) BY <1>2, <1>4, <1>5 DEF Same, Waits, Accepts
<1> QED BY <1>5, <1>6 DEF D

\* An operation that is aborted queues a handler of its client.
LEMMA CloseKeeps ==
    ASSUME NEW P \in Pools, NEW c \in Client
    PROVE  Close(P, c) \in Pools /\ Same(P, Close(P, c))
<1>1. Detached(P, c) \in Pools /\ Same(P, Detached(P, c)) BY DetachedKeeps
<1>2. CASE P.pend[c] = NULL BY <1>1, <1>2 DEF Close
<1>3. CASE P.pend[c] # NULL
  <2>1. P.pend[c] \in ClientOp BY <1>3 DEF Pools
  <2>2. Close(P, c) = Queue(Detached(P, c), P.pend[c], c, "failed", TRUE)
    BY <1>3 DEF Close
  <2>3. Close(P, c) \in Pools /\ Same(Detached(P, c), Close(P, c))
    BY <1>1, <2>1, <2>2, QueueClient DEF How
  <2> QED BY <1>1, <2>3 DEF Same
<1> QED BY <1>2, <1>3

\* Recycle_Clnt restarts the acceptor just when nothing was set aside for it.
LEMMA RecycleKeeps ==
    ASSUME NEW P \in Pools, Sound(P), NEW c \in Client, NEW now \in BOOLEAN
    PROVE  Recycle(P, c, now) \in Pools /\ Sound(Recycle(P, c, now))
<1> DEFINE shut   == Close(P, c)
           back   == List!MoveToEnd(shut.clnts, c)
           closed == [shut EXCEPT !.clnts = back]
           taken  == [closed EXCEPT !.under = closed.clnts.new,
                                    !.clnts = List!GetNewElmt(closed.clnts)]
<1>1. Recycle(P, c, now) = IF P.under # NULL THEN closed
                           ELSE StartAccept(taken, FALSE, now)
  BY DEF Recycle, List!NextFree
<1>2. shut \in Pools /\ Same(P, shut) BY CloseKeeps
<1> HIDE DEF shut
<1>3. shut.clnts \in Lists(Client) BY <1>2 DEF Pools
<1>4. /\ back \in Lists(Client)
      /\ back.new = IF shut.clnts.new = NULL THEN c ELSE shut.clnts.new
  BY <1>3, MoveToEndKeeps
<1> HIDE DEF back
<1>5. /\ closed \in Pools /\ closed.clnts = back /\ closed.under = P.under
      /\ closed.rq = shut.rq /\ closed.armed = shut.armed
  BY <1>2, <1>4 DEF Pools, Same
<1> HIDE DEF closed
<1>6. CASE P.under # NULL
  <2>1. Accepts(closed)
    BY <1>2, <1>5, <1>6 DEF Same, Accepts, Sound
  <2> QED BY <1>1, <1>5, <1>6, <2>1 DEF Sound
<1>7. CASE P.under = NULL
  <2>1. Waits(shut) BY <1>2, <1>7 DEF Same, Sound
  <2>2. back.new \in Client /\ back.new # NULL
    BY <1>4, WatchAssumption DEF Lists
  <2>3. List!GetNewElmt(back) \in Lists(Client) BY <1>4, GetNewElmtKeeps
  <2>4. /\ taken \in Pools /\ taken.under = back.new
        /\ taken.rq = shut.rq /\ taken.armed = shut.armed
    BY <1>5, <2>2, <2>3 DEF Pools
  <2> HIDE DEF taken
  <2>5. Waits(taken) BY <2>1, <2>4 DEF Waits
  <2> QED BY <1>1, <1>7, <2>2, <2>4, <2>5, StartAcceptKeeps
<1> QED BY <1>6, <1>7

\* The same when there may be no client to recycle.
LEMMA RecycleIfAnyKeeps ==
    ASSUME NEW P \in Pools, Sound(P), NEW c \in Client \cup {NULL},
           NEW now \in BOOLEAN
    PROVE  RecycleIfAny(P, c, now) \in Pools /\ Sound(RecycleIfAny(P, c, now))
  BY RecycleKeeps DEF RecycleIfAny
-----------------------------------------------------------------------------
(* The inductive invariant *)

\* The pool and the acceptor.
PoolOK == Pool \in Pools /\ Sound(Pool)

UserIds == 1 .. EN_NUM_KUInfo

\* The users, the buffers and the delays have their types.
ChatOK ==
    /\ users \in Lists(UserIds)
    /\ uinfo \in [Client -> UserIds \cup {NULL}]
    /\ super \subseteq Client
    /\ big \in [Client -> Buf \cup {NULL}] /\ bufs \subseteq Buf
    /\ rrq \in [Client -> Nat]

\* The inductive invariant.  That of the watch is part of it, for only then
\* is disconnecting a client that is not connected no step of the watch.
SInv == IInv /\ PoolOK /\ ChatOK

\* A handler begins: that of the accept finds a client set aside, and leaves
\* the server without an accept.
LEMMA BegunIs ==
    ASSUME PoolOK, NEW op, NEW c, Running(op, c)
    PROVE  /\ Begun \in Pools
           /\ Begun.under = under /\ Begun.clnts = clnts
           /\ Head(rq) \in Handlers
           /\ IF op = "accept" THEN under \in Client /\ Waits(Begun)
                               ELSE Sound(Begun)
<1> DEFINE p == IF Head(rq).how = "ready" /\ Head(rq).client # NULL
                THEN [pend EXCEPT ![Head(rq).client] = NULL] ELSE pend
<1>1. /\ rq \in Seq(Handlers) /\ under \in Client \cup {NULL}
      /\ pend \in [Client -> ClientOp \cup {NULL}]
      /\ Pool.rq = rq /\ Pool.under = under /\ Pool.clnts = clnts
      /\ Pool.armed = armed /\ Pool.pend = pend
  BY DEF PoolOK, Pools, Pool
<1>2. rq # <<>> /\ Head(rq).op = op BY DEF Running
<1>3. /\ Tail(rq) \in Seq(Handlers) /\ Head(rq) \in Handlers
      /\ NoAccept(rq) => Head(rq).op # "accept" /\ NoAccept(Tail(rq))
      /\ SingleAccept(rq) =>
            IF Head(rq).op = "accept" THEN NoAccept(Tail(rq))
                                      ELSE SingleAccept(Tail(rq))
  BY <1>1, <1>2, TailKeeps
<1>4. p \in [Client -> ClientOp \cup {NULL}] BY <1>1
<1>5. Begun = [Pool EXCEPT !.rq = Tail(rq), !.pend = p] BY <1>1 DEF Begun
<1> HIDE DEF p
<1>6. /\ Begun \in Pools /\ Begun.under = under /\ Begun.clnts = clnts
      /\ Begun.rq = Tail(rq) /\ Begun.armed = armed
  BY <1>1, <1>3, <1>4, <1>5 DEF PoolOK, Pools
<1>7. CASE op = "accept"
  <2>1. ~NoAccept(rq) BY <1>2, <1>3, <1>7
  <2>2. under # NULL BY <2>1, <1>1 DEF PoolOK, Sound, Waits
  <2>3. ~armed /\ SingleAccept(rq)
    BY <2>1, <2>2, <1>1 DEF PoolOK, Sound, Accepts
  <2>4. Waits(Begun) BY <1>2, <1>3, <1>6, <1>7, <2>3 DEF Waits
  <2> QED BY <1>1, <1>3, <1>6, <1>7, <2>2, <2>4
<1>8. CASE op # "accept"
  <2>1. /\ NoAccept(rq) => NoAccept(Tail(rq))
        /\ SingleAccept(rq) => SingleAccept(Tail(rq))
    BY <1>2, <1>3, <1>8
  <2>2. Sound(Begun)
    BY <1>1, <1>6, <2>1 DEF PoolOK, Sound, Waits, Accepts
  <2> QED BY <1>3, <1>6, <1>8, <2>2
<1> QED BY <1>7, <1>8

\* The next accept is started, or the pool is empty.
LEMMA AcceptNextKeeps ==
    ASSUME PoolOK, Running("accept", NULL), NEW connected, NEW now \in BOOLEAN
    PROVE  /\ AcceptNext(connected, now) \in Pools
           /\ Sound(AcceptNext(connected, now))
<1> DEFINE free == clnts.new
           G    == List!GetNewElmt(clnts)
           P    == [Begun EXCEPT !.under = free, !.clnts = G]
<1>1. /\ Begun \in Pools /\ Begun.clnts = clnts /\ Waits(Begun)
  BY BegunIs
<1>2. clnts \in Lists(Client) /\ free \in Client \cup {NULL}
  BY <1>1 DEF Pools, Lists
<1>3. G \in Lists(Client) /\ (free = NULL => G = clnts)
  BY <1>2, GetNewElmtKeeps
<1>4. AcceptNext(connected, now) =
        IF free = NULL THEN P ELSE StartAccept(P, free \in connected, now)
  BY <1>1 DEF AcceptNext, List!NextFree
<1> HIDE DEF G
<1>5. /\ P \in Pools /\ P.under = free /\ P.clnts = G
      /\ P.rq = Begun.rq /\ P.armed = Begun.armed
  BY <1>1, <1>2, <1>3 DEF Pools
<1> HIDE DEF P
<1>6. Waits(P) BY <1>1, <1>5 DEF Waits
<1>7. CASE free = NULL BY <1>3, <1>4, <1>5, <1>6, <1>7 DEF Sound
<1>8. CASE free # NULL
  <2>1. (free \in connected) \in BOOLEAN OBVIOUS
  <2>2. AcceptNext(connected, now) = StartAccept(P, free \in connected, now)
    BY <1>4, <1>8
  <2>3. P \in Pools /\ P.under \in Client /\ Waits(P) BY <1>2, <1>5, <1>6, <1>8
  <2> DEFINE b == free \in connected
  <2>4. b \in BOOLEAN /\ AcceptNext(connected, now) = StartAccept(P, b, now)
    BY <2>1, <2>2
  <2> HIDE DEF b
  <2>5. /\ StartAccept(P, b, now) \in Pools /\ Sound(StartAccept(P, b, now))
        /\ StartAccept(P, b, now).under = P.under
    BY <1>5, <1>8, <2>3, <2>4, StartAcceptKeeps
  <2> QED BY <1>5, <2>4, <2>5
<1> QED BY <1>7, <1>8

\* A handler that leaves a sound pool keeps the invariant.
LEMMA SetPoolOK ==
    ASSUME NEW P \in Pools, Sound(P), SetPool(P)
    PROVE  PoolOK'
<1>1. P = [clnts |-> P.clnts, under |-> P.under, rq |-> P.rq,
           pend |-> P.pend, armed |-> P.armed]
  BY DEF Pools
<1>2. Pool' = P BY <1>1 DEF SetPool, Pool
<1> QED BY <1>2 DEF PoolOK

\* The client of a record is one, or there is none.
LEMMA PreviousIs ==
    ASSUME IInv, NEW ip \in IP, Known(ip)
    PROVE  Previous(ip) \in Client \cup {NULL}
  BY FoundRecord, TrimLinks DEF Previous, Record
\* The invariant holds initially.
LEMMA InitSInv == Init => SInv
<1> SUFFICES ASSUME Init PROVE SInv OBVIOUS
<1>1. IInv BY InitIInv DEF Init
<1>2. PoolOK
  <2> DEFINE L == List!NewList(NUM_CLIENT)
  <2>1. L \in Lists(Client) /\ L.new = 1
    BY NewListOver, ServerAssumption
  <2>2. List!GetNewElmt(L) \in Lists(Client) BY <2>1, GetNewElmtKeeps
  <2> HIDE DEF L
  <2>3. Pool = [clnts |-> List!GetNewElmt(L), under |-> 1, rq |-> <<>>,
                pend |-> [c \in Client |-> NULL], armed |-> TRUE]
    BY DEF Init, Pool, L
  <2>4. <<>> \in Seq(Handlers) /\ NoAccept(<<>>) BY DEF NoAccept
  <2>5. 1 \in Client /\ 1 # NULL BY ServerAssumption, WatchAssumption
  <2>6. Pool \in Pools BY <2>2, <2>3, <2>4, <2>5 DEF Pools
  <2>7. Sound(Pool) BY <2>3, <2>4, <2>5 DEF Sound, Accepts
  <2> QED BY <2>6, <2>7 DEF PoolOK
<1>3. ChatOK
  <2>1. List!NewList(EN_NUM_KUInfo) \in Lists(UserIds)
    BY NewListOver, ServerAssumption DEF UserIds
  <2> QED BY <2>1 DEF Init, ChatOK
<1> QED BY <1>1, <1>2, <1>3 DEF SInv

\* A client that is not open is not watched: to disconnect it changes nothing.
LEMMA DisconnectIs ==
    ASSUME IInv, NEW c \in Client, Disconnect(c)
    PROVE  [WatchNext]_watchVars
<1>1. CASE c \in open BY <1>1 DEF WatchNext
<1>2. CASE c \notin open
  <2>1. /\ recd \in [Slot -> Record] /\ open \subseteq Client
        /\ link \in [Client -> Slot \cup {NULL}]
    BY DEF IInv, WatchTypeOK
  <2>2. link[c] = NULL
    BY <1>2, <2>1, WatchAssumption DEF IInv, LinksMutual
  <2>3. link' = link /\ open' = open BY <1>2, <2>1, <2>2 DEF Disconnect
  <2>4. recd' = recd
    <3>1. \A s \in Slot : s # link[c] BY <2>2, WatchAssumption DEF Slot
    <3> QED BY <2>1, <3>1 DEF Disconnect
  <2> QED BY <2>3, <2>4 DEF Disconnect, watchVars
<1> QED BY <1>1, <1>2

\* Every step of the server is one of the watch, or none.
LEMMA NextWatch ==
    ASSUME SInv, [Next]_vars
    PROVE  [WatchNext]_watchVars
<1>0. IInv /\ PoolOK BY DEF SInv
<1>1. CASE UNCHANGED vars BY <1>1 DEF vars, watchVars
<1>2. ASSUME Running("accept", NULL) PROVE under \in Client
  BY <1>0, <1>2, BegunIs
<1>3. ASSUME NEW now \in AtOnce, AcceptFails(now) PROVE [WatchNext]_watchVars
  BY <1>0, <1>2, <1>3, DisconnectIs DEF AcceptFails
<1>4. ASSUME NEW ip \in IP, Accepting(ip),
             \/ ChkHangs
             \/ ChkRefuses
             \/ ChkNew(ip, under)
             \/ ChkOverLimit(ip)
             \/ ChkAgain(ip, under)
      PROVE  [WatchNext]_watchVars
  <2>1. Connect(ip, under) BY <1>4 DEF Connect, Accepting, Running
  <2>2. under \in Client BY <1>2, <1>4 DEF Accepting
  <2> QED BY <2>1, <2>2 DEF WatchNext
<1>5. ASSUME NEW ip \in IP,
             \/ AcceptHangs(ip)
             \/ \E now \in AtOnce : AcceptRefused(ip, now)
             \/ \E now, done \in AtOnce : AcceptNew(ip, now, done)
             \/ \E now \in AtOnce : AcceptOverLimit(ip, now)
             \/ \E now, done \in AtOnce : AcceptAgain(ip, now, done)
      PROVE  [WatchNext]_watchVars
  BY <1>4, <1>5
  DEF AcceptHangs, AcceptRefused, AcceptNew, AcceptOverLimit, AcceptAgain
<1>6. ASSUME NEW c \in Client, NEW now \in AtOnce,
             \/ ClientFails(c, now)
             \/ InitRIDenied(c, now)
             \/ CrtUsrDenied(c, now)
             \/ CrtUsrMalformed(c, now)
      PROVE  [WatchNext]_watchVars
  <2>1. Disconnect(c)
    BY <1>6 DEF ClientFails, InitRIDenied, CrtUsrDenied, CrtUsrMalformed, Drop
  <2> QED BY <1>0, <2>1, DisconnectIs
<1>7. ASSUME NEW c \in Client, NEW now \in AtOnce,
             \/ HandshakeRead(c, now)
             \/ HandshakeWritten(c, now)
             \/ ReplyWritten(c, now)
             \/ InitRIBusy(c, now)
             \/ CrtUsrBusy(c, now)
             \/ CrtUsrReply(c, now)
      PROVE  [WatchNext]_watchVars
  BY <1>7 DEF HandshakeRead, HandshakeWritten, ReplyWritten, InitRIBusy,
              CrtUsrBusy, CrtUsrReply
<1>8. ASSUME NEW c \in Client, NEW now \in AtOnce, InitRIReply(c, now)
      PROVE  [WatchNext]_watchVars
  <2>1. GrantInitRI(c) BY <1>8 DEF InitRIReply
  <2>2. c \in open
    <3>1. link[c] # NULL BY <2>1 DEF GrantInitRI, Entitled
    <3>2. link[c] \in Slot /\ recd[link[c]].client = c
      BY <1>0, <3>1 DEF IInv, WatchTypeOK, LinksMutual
    <3> QED BY <1>0, <3>2, WatchAssumption DEF IInv, LinksMutual
  <2> QED BY <2>1, <2>2 DEF WatchNext
<1>9. ASSUME Arrives \/ \E c \in Client : Ready(c) PROVE [WatchNext]_watchVars
  BY <1>9 DEF Arrives, Ready
<1>10. CASE TimePasses BY <1>10 DEF TimePasses, WatchNext
<1>11. CASE Next
  BY <1>3, <1>5, <1>6, <1>7, <1>8, <1>9, <1>10, <1>11 DEF Next
<1> QED BY <1>1, <1>11

\* A handler that goes on with its connection keeps the acceptor sound.
LEMMA ProceedsOK ==
    ASSUME PoolOK, NEW from \in ClientOp, NEW to \in ClientOp,
           NEW c \in Client, NEW now \in BOOLEAN, Proceeds(from, c, to, now)
    PROVE  PoolOK'
<1>1. /\ Begun \in Pools /\ Sound(Begun) /\ Head(rq) \in Handlers
  BY BegunIs DEF Proceeds, ClientOp
<1>2. Head(rq).stale \in BOOLEAN /\ (c \in open) \in BOOLEAN
  BY <1>1 DEF Handlers, Handler
<1> DEFINE Q == Start(Begun, to, c, c \in open, Head(rq).stale, now)
<1>3. Q \in Pools /\ Same(Begun, Q) BY <1>1, <1>2, StartKeeps
<1>4. Sound(Q) BY <1>1, <1>3, SameSound
<1>5. SetPool(Q) BY DEF Proceeds
<1> HIDE DEF Q
<1> QED BY <1>3, <1>4, <1>5, SetPoolOK

\* A handler that recycles its client keeps the acceptor sound.
LEMMA DropOK ==
    ASSUME PoolOK, NEW op \in ClientOp, NEW c \in Client, NEW now \in BOOLEAN,
           Running(op, c), SetPool(Recycle(Begun, c, now))
    PROVE  PoolOK'
<1>1. Begun \in Pools /\ Sound(Begun) BY BegunIs DEF ClientOp
<1>2. /\ Recycle(Begun, c, now) \in Pools
      /\ Sound(Recycle(Begun, c, now))
  BY <1>1, RecycleKeeps
<1> QED BY <1>2, SetPoolOK

\* Every step keeps the acceptor sound.
LEMMA NextPool ==
    ASSUME SInv, [Next]_vars
    PROVE  PoolOK'
<1>0. IInv /\ PoolOK BY DEF SInv
<1>1. CASE UNCHANGED vars
  BY <1>0, <1>1 DEF vars, poolVars, PoolOK, Pool
<1>2. ASSUME NEW now \in AtOnce, NEW connected, Running("accept", NULL)
      PROVE  /\ under \in Client /\ now \in BOOLEAN
             /\ AcceptNext(connected, now) \in Pools
             /\ Sound(AcceptNext(connected, now))
  BY <1>0, <1>2, BegunIs, AcceptNextKeeps, ServerAssumption
<1>3. ASSUME NEW now \in AtOnce, AcceptFails(now) PROVE PoolOK'
  <2> DEFINE P == AcceptNext(open \cup (IF Succeeds THEN {under} ELSE {}), now)
  <2>1. Running("accept", NULL) /\ SetPool(Recycle(P, under, now))
    BY <1>3 DEF AcceptFails
  <2>2. under \in Client /\ now \in BOOLEAN /\ P \in Pools /\ Sound(P)
    BY <1>2, <2>1
  <2> HIDE DEF P
  <2>3. Recycle(P, under, now) \in Pools /\ Sound(Recycle(P, under, now))
    BY <2>2, RecycleKeeps
  <2> QED BY <2>1, <2>3, SetPoolOK
<1>4. ASSUME NEW ip \in IP, AcceptHangs(ip) PROVE PoolOK'
  BY <1>0, <1>4 DEF AcceptHangs, poolVars, PoolOK, Pool
<1>5. ASSUME NEW now \in AtOnce, NEW ip \in IP, Accepting(ip)
      PROVE  /\ under \in Client /\ now \in BOOLEAN
             /\ Accepted(now) \in Pools /\ Sound(Accepted(now))
  BY <1>2, <1>5 DEF Accepting, Accepted
<1>6. ASSUME NEW ip \in IP, NEW now \in AtOnce, AcceptRefused(ip, now)
      PROVE  PoolOK'
  <2>1. /\ under \in Client /\ now \in BOOLEAN
        /\ Accepted(now) \in Pools /\ Sound(Accepted(now))
        /\ SetPool(Recycle(Accepted(now), under, now))
    BY <1>5, <1>6 DEF AcceptRefused
  <2>2. /\ Recycle(Accepted(now), under, now) \in Pools
        /\ Sound(Recycle(Accepted(now), under, now))
    BY <2>1, RecycleKeeps
  <2> QED BY <2>1, <2>2, SetPoolOK
<1>7. ASSUME NEW P \in Pools, Sound(P), NEW done \in AtOnce, under \in Client,
             SetPool(Start(P, "hs_read", under, TRUE, FALSE, done))
      PROVE  PoolOK'
  <2> DEFINE Q == Start(P, "hs_read", under, TRUE, FALSE, done)
  <2>1. done \in BOOLEAN BY ServerAssumption
  <2>2. Q \in Pools /\ Same(P, Q) BY <1>7, <2>1, StartKeeps DEF ClientOp
  <2>3. Sound(Q) BY <1>7, <2>2, SameSound
  <2>4. SetPool(Q) BY <1>7
  <2> HIDE DEF Q
  <2> QED BY <2>2, <2>3, <2>4, SetPoolOK
<1>8. ASSUME NEW ip \in IP, NEW now \in AtOnce, NEW done \in AtOnce,
             AcceptNew(ip, now, done)
      PROVE  PoolOK'
  BY <1>5, <1>7, <1>8 DEF AcceptNew
<1>9. ASSUME NEW ip \in IP, NEW now \in AtOnce, Accepting(ip), Known(ip)
      PROVE  /\ RecycleIfAny(Accepted(now), Previous(ip), now) \in Pools
             /\ Sound(RecycleIfAny(Accepted(now), Previous(ip), now))
  BY <1>0, <1>5, <1>9, PreviousIs, RecycleIfAnyKeeps
<1>10. ASSUME NEW ip \in IP, NEW now \in AtOnce, AcceptOverLimit(ip, now)
       PROVE  PoolOK'
  <2> DEFINE P == RecycleIfAny(Accepted(now), Previous(ip), now)
  <2>1. /\ under \in Client /\ now \in BOOLEAN /\ P \in Pools /\ Sound(P)
        /\ SetPool(Recycle(P, under, now))
    BY <1>5, <1>9, <1>10 DEF AcceptOverLimit, ChkOverLimit
  <2> HIDE DEF P
  <2>2. Recycle(P, under, now) \in Pools /\ Sound(Recycle(P, under, now))
    BY <2>1, RecycleKeeps
  <2> QED BY <2>1, <2>2, SetPoolOK
<1>11. ASSUME NEW ip \in IP, NEW now \in AtOnce, NEW done \in AtOnce,
              AcceptAgain(ip, now, done)
       PROVE  PoolOK'
  BY <1>5, <1>7, <1>9, <1>11 DEF AcceptAgain, ChkAgain
<1>12. ASSUME NEW c \in Client, NEW now \in AtOnce,
              \/ ClientFails(c, now)
              \/ InitRIDenied(c, now)
              \/ CrtUsrDenied(c, now)
              \/ CrtUsrMalformed(c, now)
       PROVE  PoolOK'
  <2>1. \E op \in ClientOp : Running(op, c)
    BY <1>12 DEF ClientFails, InitRIDenied, CrtUsrDenied, CrtUsrMalformed,
                 Receives, ClientOp
  <2>2. SetPool(Recycle(Begun, c, now)) /\ now \in BOOLEAN
    BY <1>12, ServerAssumption
    DEF ClientFails, InitRIDenied, CrtUsrDenied, CrtUsrMalformed, Drop
  <2> QED BY <1>0, <2>1, <2>2, DropOK
<1>13. ASSUME NEW c \in Client, NEW now \in AtOnce,
              \/ HandshakeRead(c, now)
              \/ HandshakeWritten(c, now)
              \/ ReplyWritten(c, now)
              \/ InitRIBusy(c, now)
              \/ InitRIReply(c, now)
              \/ CrtUsrBusy(c, now)
              \/ CrtUsrReply(c, now)
       PROVE  PoolOK'
  <2>1. \E from, to \in ClientOp : Proceeds(from, c, to, now)
    BY <1>13 DEF HandshakeRead, HandshakeWritten, ReplyWritten, InitRIBusy,
                 InitRIReply, CrtUsrBusy, CrtUsrReply, ClientOp
  <2>2. now \in BOOLEAN BY ServerAssumption
  <2> QED BY <1>0, <2>1, <2>2, ProceedsOK
<1>14. CASE Arrives
  <2> DEFINE h == [op |-> "accept", client |-> NULL, how |-> "ready",
                   stale |-> FALSE]
             Q == [Queue(Pool, "accept", NULL, "ready", FALSE)
                     EXCEPT !.armed = FALSE]
  <2>1. /\ rq \in Seq(Handlers) /\ Pool.rq = rq /\ Pool.under = under
        /\ Pool.armed = armed /\ Pool \in Pools
    BY <1>0 DEF PoolOK, Pools, Pool
  <2>2. armed /\ under # NULL /\ NoAccept(rq)
    BY <1>0, <1>14, <2>1 DEF Arrives, PoolOK, Sound, Waits, Accepts
  <2>3. h \in Handlers /\ h.op = "accept" BY DEF Handlers, Handler
  <2> HIDE DEF h
  <2>4. Append(rq, h) \in Seq(Handlers) /\ SingleAccept(Append(rq, h))
    BY <2>1, <2>2, <2>3, AppendAccept
  <2>5. Q = [[Pool EXCEPT !.rq = Append(rq, h)] EXCEPT !.armed = FALSE]
    BY <2>1 DEF Queue, h
  <2>6. SetPool(Q) BY <1>14 DEF Arrives
  <2> HIDE DEF Q
  <2>7. /\ Q \in Pools /\ Q.rq = Append(rq, h) /\ ~Q.armed /\ Q.under = under
    BY <2>1, <2>4, <2>5 DEF Pools
  <2>8. Sound(Q) BY <2>2, <2>4, <2>7 DEF Sound, Accepts
  <2> QED BY <2>6, <2>7, <2>8, SetPoolOK
<1>15. ASSUME NEW c \in Client, Ready(c) PROVE PoolOK'
  <2> DEFINE Q == Queue(Pool, pend[c], c, "ready", FALSE)
  <2>1. pend[c] \in ClientOp /\ Pool \in Pools /\ Sound(Pool)
    BY <1>0, <1>15 DEF PoolOK, Pools, Pool, Ready
  <2>2. Q \in Pools /\ Same(Pool, Q) BY <2>1, QueueClient DEF How
  <2>3. SetPool(Q) BY <1>15 DEF Ready
  <2> HIDE DEF Q
  <2>4. Sound(Q) BY <2>1, <2>2, SameSound
  <2> QED BY <2>2, <2>3, <2>4, SetPoolOK
<1>16. CASE TimePasses
  BY <1>0, <1>16 DEF TimePasses, poolVars, PoolOK, Pool
<1>17. CASE Next
  BY <1>3, <1>4, <1>6, <1>8, <1>10, <1>11, <1>12, <1>13, <1>14, <1>15,
     <1>16, <1>17
  DEF Next
<1> QED BY <1>1, <1>17
\* Giving back a user record, or none.
LEMMA FreedKeeps ==
    ASSUME NEW L \in Lists(UserIds), NEW u \in UserIds \cup {NULL}
    PROVE  Freed(L, u) \in Lists(UserIds)
  BY MoveToEndKeeps DEF Freed

\* KClient::Clean keeps the types of what it returns.
LEMMA CleanOK ==
    ASSUME ChatOK, NEW c \in Client, Clean(c), rrq' \in [Client -> Nat]
    PROVE  ChatOK'
<1>1. Freed(users, uinfo[c]) \in Lists(UserIds) BY FreedKeeps DEF ChatOK
<1> QED BY <1>1 DEF ChatOK, Clean, CleanBuf

\* Every step keeps the types of users, buffers and delays.
LEMMA NextChat ==
    ASSUME SInv, [Next]_vars
    PROVE  ChatOK'
<1>0. IInv /\ PoolOK /\ ChatOK BY DEF SInv
<1>1. ASSUME UNCHANGED chatVars PROVE ChatOK'
  BY <1>0, <1>1 DEF chatVars, ChatOK
<1>2. ASSUME NEW now \in AtOnce, NEW c \in Client,
             \/ ClientFails(c, now)
             \/ InitRIDenied(c, now)
             \/ CrtUsrDenied(c, now)
             \/ CrtUsrMalformed(c, now)
      PROVE  ChatOK'
  <2>1. Clean(c) /\ (rrq' = rrq \/ rrq' = [rrq EXCEPT ![c] = 0])
    BY <1>2 DEF ClientFails, InitRIDenied, CrtUsrDenied, CrtUsrMalformed, Drop
  <2>2. rrq' \in [Client -> Nat] BY <1>0, <2>1 DEF ChatOK
  <2> QED BY <1>0, <2>1, <2>2, CleanOK
<1>3. ASSUME Running("accept", NULL) PROVE under \in Client
  BY <1>0, <1>3, BegunIs
<1>4. ASSUME NEW now \in AtOnce, NEW ip \in IP, AcceptRefused(ip, now)
      PROVE  ChatOK'
  <2>1. under \in Client /\ Clean(under) /\ rrq' = rrq
    BY <1>3, <1>4 DEF AcceptRefused, Accepting
  <2> QED BY <1>0, <2>1, CleanOK DEF ChatOK
<1>5. ASSUME NEW now \in AtOnce, NEW done \in AtOnce, NEW ip \in IP,
             AcceptNew(ip, now, done)
      PROVE  ChatOK'
  BY <1>0, <1>3, <1>5 DEF AcceptNew, Accepting, ChatOK
<1>6. ASSUME NEW now \in AtOnce, NEW ip \in IP, AcceptOverLimit(ip, now)
      PROVE  ChatOK'
  <2> DEFINE p    == Previous(ip)
             held == IF p = NULL THEN NULL ELSE uinfo[p]
             S    == {under, p} \ {NULL}
  <2>1. under \in Client /\ p \in Client \cup {NULL}
    BY <1>0, <1>3, <1>6, PreviousIs
    DEF AcceptOverLimit, Accepting, ChkOverLimit
  <2>2. /\ users' = Freed(Freed(users, held), uinfo[under])
        /\ uinfo' = [c \in Client |-> IF c \in S THEN NULL ELSE uinfo[c]]
        /\ super' = super \ S /\ CleanBuf(S) /\ rrq' = rrq
    BY <1>6 DEF AcceptOverLimit
  <2>3. users \in Lists(UserIds) /\ held \in UserIds \cup {NULL}
        /\ uinfo[under] \in UserIds \cup {NULL}
    BY <1>0, <2>1 DEF ChatOK
  <2> HIDE DEF p, held, S
  <2>4. Freed(Freed(users, held), uinfo[under]) \in Lists(UserIds)
    BY <2>3, FreedKeeps
  <2> QED BY <1>0, <2>2, <2>4 DEF ChatOK, CleanBuf
<1>7. ASSUME NEW now \in AtOnce, NEW done \in AtOnce, NEW ip \in IP,
             AcceptAgain(ip, now, done)
      PROVE  ChatOK'
  <2> DEFINE p == Previous(ip)
  <2>1. under \in Client /\ p \in Client \cup {NULL}
    BY <1>0, <1>3, <1>7, PreviousIs DEF AcceptAgain, Accepting, ChkAgain
  <2>2. /\ uinfo' = IF Inherits(p)
                    THEN [uinfo EXCEPT ![under] = uinfo[p], ![p] = NULL]
                    ELSE uinfo
        /\ super' = super \ {p} /\ CleanBuf({p} \ {NULL})
        /\ users' = users /\ rrq' = rrq
    BY <1>7 DEF AcceptAgain
  <2> HIDE DEF p
  <2>3. uinfo' \in [Client -> UserIds \cup {NULL}]
    BY <1>0, <2>1, <2>2 DEF ChatOK, Inherits
  <2> QED BY <1>0, <2>2, <2>3 DEF ChatOK, CleanBuf
<1>8. ASSUME NEW c \in Client, NEW now \in AtOnce,
             HandshakeRead(c, now) \/ HandshakeWritten(c, now)
      PROVE  ChatOK'
  BY <1>1, <1>8 DEF HandshakeRead, HandshakeWritten
<1>9. ASSUME NEW c \in Client, NEW now \in AtOnce, ReplyWritten(c, now)
      PROVE  ChatOK'
  BY <1>0, <1>9 DEF ReplyWritten, ChatOK, CleanBuf
<1>10. clock \in Nat /\ WaitInitRI \in Nat /\ WaitCrtUsr \in Nat
  BY <1>0, ServerAssumption DEF IInv, WatchTypeOK
<1>11. ASSUME NEW c \in Client, NEW now \in AtOnce, InitRIBusy(c, now)
       PROVE  ChatOK'
  BY <1>0, <1>10, <1>11 DEF InitRIBusy, ChatOK
<1>12. ASSUME NEW c \in Client, NEW now \in AtOnce, InitRIReply(c, now)
       PROVE  ChatOK'
  <2> DEFINE b == CHOOSE x \in Buf \ bufs : TRUE
  <2>1. bufs # Buf /\ bufs' = bufs \cup {b} /\ big' = [big EXCEPT ![c] = b]
        /\ rrq' = [rrq EXCEPT ![c] = 0] /\ UNCHANGED <<users, uinfo, super>>
    BY <1>12 DEF InitRIReply
  <2>2. b \in Buf
    <3>1. \E x : x \in Buf \ bufs BY <1>0, <2>1 DEF ChatOK
    <3> QED BY <3>1
  <2> HIDE DEF b
  <2> QED BY <1>0, <2>1, <2>2 DEF ChatOK
<1>13. ASSUME NEW c \in Client, NEW now \in AtOnce, CrtUsrBusy(c, now)
       PROVE  ChatOK'
  BY <1>0, <1>10, <1>13 DEF CrtUsrBusy, ChatOK, CleanBuf
<1>14. ASSUME NEW c \in Client, NEW now \in AtOnce, CrtUsrReply(c, now)
       PROVE  ChatOK'
  <2>1. /\ users.new # NULL /\ users' = List!GetNewElmt(users)
        /\ uinfo' = [uinfo EXCEPT ![c] = users.new]
        /\ rrq' = [rrq EXCEPT ![c] = 0] /\ UNCHANGED <<super, big, bufs>>
    BY <1>14 DEF CrtUsrReply, List!NextFree
  <2>2. users \in Lists(UserIds) /\ users.new \in UserIds
    BY <1>0, <2>1 DEF ChatOK, Lists
  <2>3. users' \in Lists(UserIds) BY <2>1, <2>2, GetNewElmtKeeps
  <2> QED BY <1>0, <2>1, <2>2, <2>3 DEF ChatOK
<1>15. ASSUME UNCHANGED vars \/ (\E ip \in IP : AcceptHangs(ip)) \/ Arrives
              \/ (\E c \in Client : Ready(c)) \/ TimePasses
       PROVE  ChatOK'
  BY <1>1, <1>15 DEF vars, AcceptHangs, Arrives, Ready, TimePasses
<1>16. ASSUME NEW now \in AtOnce, AcceptFails(now) PROVE ChatOK'
  <2>1. under \in Client /\ Clean(under) /\ rrq' = rrq
    BY <1>3, <1>16 DEF AcceptFails
  <2> QED BY <1>0, <2>1, CleanOK DEF ChatOK
<1>17. CASE Next
  BY <1>2, <1>4, <1>5, <1>6, <1>7, <1>8, <1>9, <1>11, <1>12, <1>13, <1>14,
     <1>15, <1>16, <1>17
  DEF Next
<1> QED BY <1>15, <1>17

\* The invariant holds throughout.
LEMMA AlwaysSInv == Spec => []SInv
<1>1. Init => SInv BY InitSInv
<1>2. SInv /\ [Next]_vars => SInv'
  <2> SUFFICES ASSUME SInv, [Next]_vars PROVE SInv' OBVIOUS
  <2>1. IInv' BY NextWatch, NextIInv DEF SInv
  <2> QED BY <2>1, NextPool, NextChat DEF SInv
<1> QED BY <1>1, <1>2, PTL DEF Spec

-----------------------------------------------------------------------------
(* The theorems *)

\* The server's variables keep their types: every queued handler is that of
\* the accept or of a client, every client holds a user record or none.
THEOREM ServerTyping == Spec => []TypeOK
<1>1. SInv => TypeOK
  <2> SUFFICES ASSUME SInv PROVE TypeOK OBVIOUS
  <2>1. WatchTypeOK BY DEF SInv, IInv
  <2>2. /\ under \in Client \cup {NULL} /\ rq \in Seq(Handlers)
        /\ pend \in [Client -> ClientOp \cup {NULL}] /\ armed \in BOOLEAN
    BY DEF SInv, PoolOK, Pools, Pool
  <2>3. \A i \in DOMAIN rq : rq[i] \in Handler
    BY <2>2, ElementOfSeq, LenProperties DEF Handlers
  <2> QED BY <2>1, <2>2, <2>3 DEF TypeOK, SInv, ChatOK, UserIds
<1> QED BY <1>1, AlwaysSInv, PTL

\* KServer::On_Accpt_Svr and Recycle_Clnt between them keep exactly one
\* async_accept going while a client is set aside for it.
THEOREM AcceptIsOne == Spec => []OneAccept
<1>1. SInv => OneAccept
  <2> SUFFICES ASSUME SInv PROVE OneAccept OBVIOUS
  <2> DEFINE A == {i \in DOMAIN rq : rq[i].op = "accept"}
  <2>1. /\ Pool.rq = rq /\ Pool.under = under /\ Pool.armed = armed
        /\ armed \in BOOLEAN /\ Sound(Pool)
    BY DEF SInv, PoolOK, Pools, Pool
  <2>2. ASSUME NoAccept(rq) PROVE Cardinality(A) = 0
    <3>1. A = {} BY <2>2 DEF NoAccept
    <3> QED BY <3>1, FS_EmptySet
  <2>3. ASSUME SingleAccept(rq) PROVE Cardinality(A) = 1
    <3>1. PICK k \in DOMAIN rq : AcceptAt(rq, k) BY <2>3 DEF SingleAccept
    <3>2. A = {k} BY <3>1 DEF AcceptAt
    <3> QED BY <3>2, FS_Singleton
  <2>4. Cardinality(A) + (IF armed THEN 1 ELSE 0)
          = IF under = NULL THEN 0 ELSE 1
    <3> HIDE DEF A
    <3> QED BY <2>1, <2>2, <2>3 DEF Sound, Waits, Accepts
  <2> QED BY <2>4 DEF OneAccept, Queued
<1> QED BY <1>1, AlwaysSInv, PTL

\* The server is without an accept only while its pool is empty: whichever
\* handler recycles a client, and however late, restarts it.
THEOREM AcceptRestarts == Spec => []AcceptsWhileRoom
<1>1. SInv => AcceptsWhileRoom
  BY DEF SInv, PoolOK, Sound, Pool, AcceptsWhileRoom, List!NextFree
<1> QED BY <1>1, AlwaysSInv, PTL

\* What the server does to the reload watch is a behaviour of the watch by
\* itself, so that what is proved of WatchSpec holds of the server.
THEOREM WatchIsDriven == Spec => DrivesWatch
<1>1. Init => WatchInit BY DEF Init
<1>2. SInv /\ [Next]_vars => [WatchNext]_watchVars BY NextWatch
<1> QED BY <1>1, <1>2, AlwaysSInv, PTL DEF Spec, DrivesWatch, WatchSpec

\* However the handlers of a client interleave with the recycling of its
\* object, no record keeps a pointer to a client that is not connected.
THEOREM ServerLinksMutual == Spec => []LinksMutual
<1>1. DrivesWatch <=> WatchSpec BY DEF DrivesWatch
<1> QED BY <1>1, WatchIsDriven, LinksStayMutual, PTL

-----------------------------------------------------------------------------
(* The client that a connection replaces *)

\* The previous client of an address is open, and linked with its record.
LEMMA PreviousLinked ==
    ASSUME IInv, NEW ip \in IP, Known(ip), Previous(ip) # NULL
    PROVE  /\ Previous(ip) \in Client /\ Previous(ip) \in open
           /\ link[Previous(ip)] = RecordOf(ip)
<1> DEFINE s == RecordOf(ip)
<1>1. s \in Slot BY FoundRecord
<1>2. /\ RecdTrimmed \in [Slot -> Record]
      /\ Previous(ip) = RecdTrimmed[s].client
  BY TrimLinks DEF Previous
<1> HIDE DEF s
<1>3. /\ Previous(ip) = recd[s].client
      /\ Previous(ip) \in open
  BY <1>1, <1>2, TrimLinks
<1>4. Previous(ip) \in Client BY <1>3 DEF IInv, WatchTypeOK
<1>5. link[recd[s].client] = s BY <1>1, <1>3 DEF IInv, LinksMutual
<1> QED BY <1>3, <1>4, <1>5 DEF s

\* KServer::On_Accpt_Svr for a watched address: the client that goes hands its
\* user record to the one its record is linked with from now on, if any.
THEOREM ReplacementsInherit == Spec => ReplacementInherits
<1> DEFINE Inherited ==
      \A c \in open \ open' : link[c] # NULL /\ uinfo[c] # NULL =>
          LET d == recd'[link[c]].client
          IN d # NULL => uinfo'[d] = uinfo[c]
<1>1. SInv /\ [Next]_vars => [Inherited]_vars
  <2> SUFFICES ASSUME SInv, Next, NEW c \in open, c \notin open',
                      link[c] # NULL, uinfo[c] # NULL,
                      recd'[link[c]].client # NULL
               PROVE  uinfo'[recd'[link[c]].client] = uinfo[c]
    OBVIOUS
  <2>1. /\ IInv /\ recd \in [Slot -> Record] /\ open \subseteq Client
        /\ link \in [Client -> Slot \cup {NULL}] /\ link[c] \in Slot
    BY DEF SInv, IInv, WatchTypeOK
  <2>2. uinfo \in [Client -> UserIds \cup {NULL}] BY DEF SInv, ChatOK
  <2>3. ASSUME NEW d \in Client, Disconnect(d) PROVE FALSE
    <3>1. c = d BY <2>3 DEF Disconnect
    <3>2. recd'[link[c]].client = NULL
      BY <2>1, <2>3, <3>1 DEF Disconnect, Record
    <3> QED BY <3>2
  <2>4. ASSUME UNCHANGED open PROVE FALSE BY <2>4
  <2>5. ASSUME NEW now \in AtOnce, AcceptFails(now) PROVE FALSE
    <3>1. under \in Client BY <2>5, BegunIs DEF AcceptFails, SInv
    <3> QED BY <3>1, <2>3, <2>5 DEF AcceptFails
  <2>6. ASSUME NEW ip \in IP,
               \/ AcceptHangs(ip)
               \/ \E now \in AtOnce : AcceptRefused(ip, now)
               \/ \E now, done \in AtOnce : AcceptNew(ip, now, done)
        PROVE  FALSE
    BY <2>6 DEF AcceptHangs, AcceptRefused, AcceptNew, ChkHangs, ChkRefuses,
                ChkNew
  <2>7. ASSUME NEW ip \in IP, NEW now \in AtOnce, AcceptOverLimit(ip, now)
        PROVE  FALSE
    <3>1. Known(ip) /\ c = Previous(ip)
      BY <2>7 DEF AcceptOverLimit, ChkOverLimit
    <3>2. c # NULL BY <2>1, WatchAssumption
    <3>3. link[c] = RecordOf(ip) BY <2>1, <3>1, <3>2, PreviousLinked
    <3>4. /\ RecdTrimmed \in [Slot -> Record]
          /\ recd' = [RecdTrimmed EXCEPT
                        ![RecordOf(ip)].times = TimesAfter(ip),
                        ![RecordOf(ip)].client = NULL]
      BY <2>1, <2>7, TrimLinks DEF AcceptOverLimit, ChkOverLimit
    <3>5. recd'[link[c]].client = NULL BY <2>1, <3>3, <3>4 DEF Record
    <3> QED BY <3>5
  <2>8. ASSUME NEW ip \in IP, NEW now \in AtOnce, NEW done \in AtOnce,
               AcceptAgain(ip, now, done)
        PROVE  uinfo'[recd'[link[c]].client] = uinfo[c]
    <3>1. Known(ip) /\ c = Previous(ip) /\ Accepting(ip)
      BY <2>8 DEF AcceptAgain, ChkAgain
    <3>2. c # NULL BY <2>1, WatchAssumption
    <3>3. link[c] = RecordOf(ip) BY <2>1, <3>1, <3>2, PreviousLinked
    <3>4. under \in Client /\ under \notin open
      BY <3>1, BegunIs DEF Accepting, SInv
    <3>5. uinfo' = [uinfo EXCEPT ![under] = uinfo[c], ![c] = NULL]
      BY <2>8, <3>1, <3>2 DEF AcceptAgain, Inherits
    <3>6. uinfo'[under] = uinfo[c] BY <2>1, <2>2, <3>4, <3>5
    <3>7. recd' = [RecdTrimmed EXCEPT ![RecordOf(ip)] =
                      [@ EXCEPT !.times = TimesAfter(ip), !.client = under,
                                !.initRI = TRUE, !.pass = TRUE]]
      BY <2>8 DEF AcceptAgain, ChkAgain
    <3>8. recd'[link[c]].client = under
      BY <2>1, <3>3, <3>7, TrimLinks DEF Record
    <3> QED BY <3>6, <3>8
  <2>9. ASSUME NEW d \in Client, NEW now \in AtOnce,
               \/ ClientFails(d, now)
               \/ InitRIDenied(d, now)
               \/ CrtUsrDenied(d, now)
               \/ CrtUsrMalformed(d, now)
        PROVE  FALSE
    BY <2>3, <2>9
    DEF ClientFails, InitRIDenied, CrtUsrDenied, CrtUsrMalformed, Drop
  <2>10. ASSUME NEW d \in Client, NEW now \in AtOnce,
                \/ HandshakeRead(d, now)
                \/ HandshakeWritten(d, now)
                \/ ReplyWritten(d, now)
                \/ InitRIBusy(d, now)
                \/ InitRIReply(d, now)
                \/ CrtUsrBusy(d, now)
                \/ CrtUsrReply(d, now)
         PROVE  FALSE
    BY <2>4, <2>10
    DEF HandshakeRead, HandshakeWritten, ReplyWritten, InitRIBusy, InitRIReply,
        GrantInitRI, CrtUsrBusy, CrtUsrReply, watchVars
  <2>11. ASSUME Arrives \/ (\E d \in Client : Ready(d)) \/ TimePasses
         PROVE  FALSE
    BY <2>4, <2>11 DEF Arrives, Ready, TimePasses, Tick, watchVars
  <2> QED
    BY <2>5, <2>6, <2>7, <2>8, <2>9, <2>10, <2>11 DEF Next
<1> QED BY <1>1, AlwaysSInv, PTL DEF Spec, ReplacementInherits

-----------------------------------------------------------------------------
(* The clients whose handlers are queued *)

QueuedFor(q, c) == \E i \in DOMAIN q : q[i].client = c

\* A handler is queued, behind those that are.
LEMMA AppendQueued ==
    ASSUME NEW q \in Seq(Handlers), NEW h \in Handlers
    PROVE  /\ Append(q, h) \in Seq(Handlers)
           /\ QueuedFor(Append(q, h), h.client)
           /\ \A c : QueuedFor(q, c) => QueuedFor(Append(q, h), c)
<1>1. /\ Append(q, h) \in Seq(Handlers) /\ Len(q) \in Nat
      /\ DOMAIN q = 1 .. Len(q) /\ DOMAIN Append(q, h) = 1 .. Len(q) + 1
      /\ \A i \in 1 .. Len(q) : Append(q, h)[i] = q[i]
      /\ Append(q, h)[Len(q) + 1] = h
  BY AppendProperties, LenProperties
<1> QED BY <1>1 DEF QueuedFor

\* The first handler is taken off the queue.
LEMMA TailQueued ==
    ASSUME NEW q \in Seq(Handlers), q # <<>>, NEW c, QueuedFor(q, c),
           c # Head(q).client
    PROVE  QueuedFor(Tail(q), c)
<1>1. /\ Len(q) \in Nat /\ Len(q) # 0 /\ Head(q) = q[1]
      /\ DOMAIN q = 1 .. Len(q) /\ DOMAIN Tail(q) = 1 .. Len(q) - 1
      /\ \A i \in 1 .. Len(q) - 1 : Tail(q)[i] = q[i + 1]
  BY HeadTailProperties, LenProperties, EmptySeq
<1>2. PICK i \in DOMAIN q : q[i].client = c BY DEF QueuedFor
<1>3. i - 1 \in DOMAIN Tail(q) /\ Tail(q)[i - 1].client = c BY <1>1, <1>2
<1> QED BY <1>3 DEF QueuedFor

\* A handler is taken back, of another client.
LEMMA RemoveQueued ==
    ASSUME NEW q \in Seq(Handlers), NEW r \in DOMAIN q, NEW c,
           QueuedFor(q, c), q[r].client # c
    PROVE  QueuedFor(RemoveAt(q, r), c)
<1> DEFINE p == RemoveAt(q, r)
<1>1. /\ Len(q) \in Nat /\ DOMAIN q = 1 .. Len(q) /\ DOMAIN p = 1 .. Len(q) - 1
      /\ \A i \in 1 .. Len(q) - 1 : p[i] = IF i < r THEN q[i] ELSE q[i + 1]
  BY RemoveAtProperties, LenProperties
<1> HIDE DEF p
<1>2. PICK i \in DOMAIN q : q[i].client = c BY DEF QueuedFor
<1>3. i # r BY <1>2
<1>4. CASE i < r
  <2>1. i \in DOMAIN p /\ p[i] = q[i] BY <1>1, <1>4
  <2> QED BY <1>2, <2>1 DEF QueuedFor, p
<1>5. CASE i > r
  <2>1. i - 1 \in DOMAIN p /\ p[i - 1] = q[i] BY <1>1, <1>5
  <2> QED BY <1>2, <2>1 DEF QueuedFor, p
<1> QED BY <1>1, <1>3, <1>4, <1>5

\* Q has the handlers that P has, but perhaps those of the clients in S.
Retains(P, Q, S) ==
    \A c : c \notin S /\ QueuedFor(P.rq, c) => QueuedFor(Q.rq, c)

\* Starting a read or a write takes no handler away.
LEMMA StartRetains ==
    ASSUME NEW P \in Pools, NEW op \in ClientOp, NEW c \in Client,
           NEW connected \in BOOLEAN, NEW stale \in BOOLEAN, NEW now \in BOOLEAN
    PROVE  /\ Retains(P, Start(P, op, c, connected, stale, now), {})
           /\ ~connected =>
                 QueuedFor(Start(P, op, c, connected, stale, now).rq, c)
<1>1. ASSUME NEW how \in How
      PROVE  /\ Retains(P, Queue(P, op, c, how, stale), {})
             /\ QueuedFor(Queue(P, op, c, how, stale).rq, c)
  <2> DEFINE h == [op |-> op, client |-> c, how |-> how, stale |-> stale]
  <2>1. h \in Handlers /\ h.client = c
    BY WatchAssumption DEF Handlers, Handler, How, ClientOp
  <2>2. Queue(P, op, c, how, stale).rq = Append(P.rq, h) BY DEF Queue, Pools
  <2> HIDE DEF h
  <2> QED BY <2>1, <2>2, AppendQueued DEF Pools, Retains
<1>2. CASE ~connected
  <2>1. Start(P, op, c, connected, stale, now) = Queue(P, op, c, "failed", stale)
    BY <1>2 DEF Start
  <2> QED BY <1>1, <2>1 DEF How
<1>3. CASE connected /\ now
  <2>1. Start(P, op, c, connected, stale, now) = Queue(P, op, c, "done", stale)
    BY <1>3 DEF Start
  <2> QED BY <1>1, <1>3, <2>1 DEF How
<1>4. CASE connected /\ ~now
  <2>1. Start(P, op, c, connected, stale, now) = [P EXCEPT !.pend[c] = op]
    BY <1>4 DEF Start
  <2>2. Start(P, op, c, connected, stale, now).rq = P.rq BY <2>1 DEF Pools
  <2> QED BY <1>4, <2>2 DEF Retains
<1> QED BY <1>2, <1>3, <1>4

\* Starting an accept takes no handler away.
LEMMA StartAcceptRetains ==
    ASSUME NEW P \in Pools, NEW connected \in BOOLEAN, NEW now \in BOOLEAN
    PROVE  Retains(P, StartAccept(P, connected, now), {})
<1>1. ASSUME NEW how \in How
      PROVE  Retains(P, Queue(P, "accept", NULL, how, FALSE), {})
  <2> DEFINE h == [op |-> "accept", client |-> NULL, how |-> how, stale |-> FALSE]
  <2>1. h \in Handlers BY DEF Handlers, Handler, How
  <2>2. Queue(P, "accept", NULL, how, FALSE).rq = Append(P.rq, h)
    BY DEF Queue, Pools
  <2> HIDE DEF h
  <2> QED BY <2>1, <2>2, AppendQueued DEF Pools, Retains
<1>2. CASE connected BY <1>1, <1>2 DEF StartAccept, How
<1>3. CASE ~connected /\ now BY <1>1, <1>3 DEF StartAccept, How
<1>4. CASE ~connected /\ ~now
  <2>1. StartAccept(P, connected, now).rq = P.rq
    BY <1>4 DEF StartAccept, Pools
  <2> QED BY <2>1 DEF Retains
<1> QED BY <1>2, <1>3, <1>4

\* Recycling a client takes none but its handlers away.
LEMMA CloseRetains ==
    ASSUME NEW P \in Pools, NEW c \in Client
    PROVE  Retains(P, Close(P, c), {c})
<1> DEFINE ready == {i \in DOMAIN P.rq : P.rq[i].client = c /\ P.rq[i].how = "ready"}
           r     == CHOOSE i \in ready : TRUE
           left  == IF ready = {} THEN P.rq ELSE RemoveAt(P.rq, r)
           D     == Detached(P, c)
<1>1. P.rq \in Seq(Handlers) BY DEF Pools
<1>2. ASSUME NEW d, d # c, QueuedFor(P.rq, d)
      PROVE  QueuedFor(left, d)
  <2>1. CASE ready = {} BY <1>2, <2>1
  <2>2. CASE ready # {}
    <3>1. r \in DOMAIN P.rq /\ P.rq[r].client # d
      <4>1. r \in ready BY <2>2
      <4> QED BY <4>1, <1>2
    <3>2. left = RemoveAt(P.rq, r) BY <2>2
    <3> HIDE DEF left, r, ready
    <3> QED BY <1>1, <1>2, <3>1, <3>2, RemoveQueued
  <2> QED BY <2>1, <2>2
<1>3. left \in Seq(Handlers)
  <2>1. CASE ready # {}
    <3>1. r \in ready BY <2>1
    <3>2. r \in DOMAIN P.rq /\ left = RemoveAt(P.rq, r) BY <2>1, <3>1
    <3> HIDE DEF left, r, ready
    <3> QED BY <1>1, <3>2, RemoveAtProperties
  <2> QED BY <2>1, <1>1
<1> HIDE DEF left
<1>4. D.rq = [i \in DOMAIN left |->
                [left[i] EXCEPT !.stale = @ \/ left[i].client = c]]
  BY DEF Detached, left, Pools
<1>5. \A i \in DOMAIN left : D.rq[i].client = left[i].client
  <2> SUFFICES ASSUME NEW i \in DOMAIN left PROVE D.rq[i].client = left[i].client
    OBVIOUS
  <2>1. left[i] \in Handlers BY <1>3, ElementOfSeq, LenProperties
  <2> QED BY <1>4, <2>1 DEF Handlers, Handler
<1>6. DOMAIN D.rq = DOMAIN left BY <1>4
<1> HIDE DEF D
<1>7. Retains(P, D, {c}) BY <1>2, <1>5, <1>6 DEF Retains, QueuedFor
<1>8. CASE P.pend[c] = NULL BY <1>7, <1>8 DEF Close, D
<1>9. CASE P.pend[c] # NULL
  <2> DEFINE h == [op |-> P.pend[c], client |-> c, how |-> "failed", stale |-> TRUE]
  <2>1. h \in Handlers
    BY <1>9, WatchAssumption DEF Handlers, Handler, ClientOp, Pools
  <2>2. D \in Pools BY DetachedKeeps DEF D
  <2>3. Close(P, c).rq = Append(D.rq, h) BY <1>9, <2>2 DEF Close, Queue, Pools, D
  <2> HIDE DEF h
  <2>4. D.rq \in Seq(Handlers) BY <2>2 DEF Pools
  <2> QED BY <1>7, <2>1, <2>3, <2>4, AppendQueued DEF Retains
<1> QED BY <1>8, <1>9

\* Recycle_Clnt takes none but the handlers of its client away.
LEMMA RecycleRetains ==
    ASSUME NEW P \in Pools, Sound(P), NEW c \in Client, NEW now \in BOOLEAN
    PROVE  Retains(P, Recycle(P, c, now), {c})
<1> DEFINE shut   == Close(P, c)
           back   == List!MoveToEnd(shut.clnts, c)
           closed == [shut EXCEPT !.clnts = back]
           taken  == [closed EXCEPT !.under = closed.clnts.new,
                                    !.clnts = List!GetNewElmt(closed.clnts)]
<1>1. Recycle(P, c, now) = IF P.under # NULL THEN closed
                           ELSE StartAccept(taken, FALSE, now)
  BY DEF Recycle, List!NextFree
<1>2. shut \in Pools /\ Retains(P, shut, {c}) BY CloseKeeps, CloseRetains
<1> HIDE DEF shut
<1>3. back \in Lists(Client) BY <1>2, MoveToEndKeeps DEF Pools
<1> HIDE DEF back
<1>4. closed \in Pools /\ closed.rq = shut.rq /\ closed.clnts = back
  BY <1>2, <1>3 DEF Pools
<1> HIDE DEF closed
<1>5. CASE P.under # NULL BY <1>1, <1>2, <1>4, <1>5 DEF Retains
<1>6. CASE P.under = NULL
  <2>1. List!GetNewElmt(back) \in Lists(Client) /\ back.new \in Client \cup {NULL}
    BY <1>3, GetNewElmtKeeps DEF Lists
  <2>2. taken \in Pools /\ taken.rq = shut.rq BY <1>4, <2>1 DEF Pools
  <2> HIDE DEF taken
  <2>3. Retains(taken, StartAccept(taken, FALSE, now), {})
    BY <2>2, StartAcceptRetains
  <2> QED BY <1>1, <1>2, <1>6, <2>2, <2>3 DEF Retains
<1> QED BY <1>5, <1>6

\* Going on with the next accept takes no handler away.
LEMMA AcceptNextRetains ==
    ASSUME PoolOK, Running("accept", NULL), NEW connected, NEW now \in BOOLEAN
    PROVE  Retains(Begun, AcceptNext(connected, now), {})
<1> DEFINE free == clnts.new
           G    == List!GetNewElmt(clnts)
           P    == [Begun EXCEPT !.under = free, !.clnts = G]
<1>1. Begun \in Pools /\ Begun.clnts = clnts BY BegunIs
<1>2. clnts \in Lists(Client) /\ free \in Client \cup {NULL}
  BY <1>1 DEF Pools, Lists
<1>3. G \in Lists(Client) BY <1>2, GetNewElmtKeeps
<1>4. AcceptNext(connected, now) =
        IF free = NULL THEN P ELSE StartAccept(P, free \in connected, now)
  BY <1>1 DEF AcceptNext, List!NextFree
<1> HIDE DEF G
<1>5. P \in Pools /\ P.rq = Begun.rq BY <1>1, <1>2, <1>3 DEF Pools
<1> HIDE DEF P
<1>6. (free \in connected) \in BOOLEAN OBVIOUS
<1>7. Retains(P, StartAccept(P, free \in connected, now), {})
  BY <1>5, <1>6, StartAcceptRetains
<1> QED BY <1>4, <1>5, <1>7 DEF Retains

\* A handler that begins takes none but itself away.
LEMMA BegunRetains ==
    ASSUME PoolOK, NEW op, NEW c, Running(op, c)
    PROVE  \A d : d # c /\ QueuedFor(rq, d) => QueuedFor(Begun.rq, d)
<1>1. rq \in Seq(Handlers) /\ rq # <<>> /\ Head(rq).client = c
  BY DEF PoolOK, Pools, Pool, Running
<1>2. Begun.rq = Tail(rq) BY DEF Begun, Pool
<1> QED BY <1>1, <1>2, TailQueued

-----------------------------------------------------------------------------
(* User records *)

\* What a handler leaves that takes the handlers of the clients in S away, but
\* leaves them without a user record.
LEMMA UsersKept ==
    ASSUME SInv, NoUserLeft, NEW S,
           uinfo' \in [Client -> UserIds \cup {NULL}],
           \A c \in Client : c \notin S /\ QueuedFor(rq, c) => QueuedFor(rq', c),
           \A c \in Client : c \in open /\ c \notin S => c \in open',
           \A c \in Client : c \in S => uinfo'[c] = NULL \/ c \in open',
           \A c \in Client : c \notin S /\ uinfo'[c] # NULL => uinfo[c] # NULL
    PROVE  NoUserLeft'
  BY DEF NoUserLeft, QueuedFor

\* The handlers that drop their client, and the failed accept.
LEMMA CleanedUsers ==
    ASSUME SInv, NoUserLeft, NEW c \in Client, Clean(c),
           \A d \in Client : d # c /\ QueuedFor(rq, d) => QueuedFor(rq', d),
           open \subseteq open' \cup {c}
    PROVE  NoUserLeft'
<1>1. uinfo \in [Client -> UserIds \cup {NULL}] /\ uinfo' = [uinfo EXCEPT ![c] = NULL]
  BY DEF SInv, ChatOK, Clean
<1> QED BY <1>1, UsersKept DEF NoUserLeft, QueuedFor

\* A user record belongs to an open connection, or to a client whose queued
\* handler will release it: none is lost with the connection it was given to.
THEOREM UsersReleased == Spec => []NoUserLeft
<1>1. Init => NoUserLeft BY DEF Init, NoUserLeft
<1>2. SInv /\ NoUserLeft /\ [Next]_vars => NoUserLeft'
  <2> SUFFICES ASSUME SInv, NoUserLeft, [Next]_vars PROVE NoUserLeft' OBVIOUS
  <2>0. /\ PoolOK /\ IInv /\ uinfo \in [Client -> UserIds \cup {NULL}]
        /\ open \subseteq Client
    BY DEF SInv, ChatOK, IInv, WatchTypeOK
  <2>1. CASE UNCHANGED vars
    BY <2>1 DEF vars, watchVars, poolVars, chatVars, NoUserLeft
  <2>2. ASSUME NEW now \in AtOnce, NEW connected, Running("accept", NULL)
        PROVE  /\ under \in Client /\ now \in BOOLEAN
               /\ AcceptNext(connected, now) \in Pools
               /\ Sound(AcceptNext(connected, now))
               /\ \A c \in Client : QueuedFor(rq, c)
                     => QueuedFor(AcceptNext(connected, now).rq, c)
    <3>1. now \in BOOLEAN /\ NULL \notin Client
      BY ServerAssumption, WatchAssumption
    <3>2. \A c \in Client : QueuedFor(rq, c) => QueuedFor(Begun.rq, c)
      BY <2>0, <2>2, <3>1, BegunRetains
    <3>3. Retains(Begun, AcceptNext(connected, now), {})
      BY <2>0, <2>2, <3>1, AcceptNextRetains
    <3> QED BY <2>0, <2>2, <3>1, <3>2, <3>3, BegunIs, AcceptNextKeeps
        DEF Retains
  <2>3. ASSUME NEW now \in AtOnce, AcceptFails(now) PROVE NoUserLeft'
    <3> DEFINE P == AcceptNext(open \cup (IF Succeeds THEN {under} ELSE {}), now)
    <3>1. /\ Running("accept", NULL) /\ SetPool(Recycle(P, under, now))
          /\ Clean(under) /\ open' = open \ {under}
      BY <2>3 DEF AcceptFails, Disconnect
    <3>2. /\ under \in Client /\ now \in BOOLEAN /\ P \in Pools /\ Sound(P)
          /\ \A c \in Client : QueuedFor(rq, c) => QueuedFor(P.rq, c)
      BY <2>2, <3>1
    <3> HIDE DEF P
    <3>3. \A c \in Client : c # under /\ QueuedFor(rq, c) => QueuedFor(rq', c)
      BY <3>1, <3>2, RecycleRetains DEF Retains, SetPool
    <3> QED BY <3>1, <3>2, <3>3, CleanedUsers
  <2>4. ASSUME NEW ip \in IP, AcceptHangs(ip) PROVE NoUserLeft'
    BY <2>4 DEF AcceptHangs, ChkHangs, poolVars, chatVars, NoUserLeft
  <2>5. ASSUME NEW now \in AtOnce, NEW ip \in IP, Accepting(ip)
        PROVE  /\ under \in Client /\ now \in BOOLEAN /\ under \notin open
               /\ Accepted(now) \in Pools /\ Sound(Accepted(now))
               /\ \A c \in Client :
                     QueuedFor(rq, c) => QueuedFor(Accepted(now).rq, c)
    BY <2>2, <2>5 DEF Accepting, Accepted
  <2>6. ASSUME NEW ip \in IP, NEW now \in AtOnce, AcceptRefused(ip, now)
        PROVE  NoUserLeft'
    <3>1. /\ Accepting(ip) /\ SetPool(Recycle(Accepted(now), under, now))
          /\ Clean(under) /\ open' = open
      BY <2>6 DEF AcceptRefused, ChkRefuses
    <3>2. \A c \in Client : c # under /\ QueuedFor(rq, c) => QueuedFor(rq', c)
      BY <2>5, <3>1, RecycleRetains DEF Retains, SetPool
    <3> QED BY <2>5, <3>1, <3>2, CleanedUsers
  <2>7. ASSUME NEW P \in Pools, NEW done \in AtOnce, under \in Client,
               SetPool(Start(P, "hs_read", under, TRUE, FALSE, done))
        PROVE  \A c \in Client : QueuedFor(P.rq, c) => QueuedFor(rq', c)
    <3>1. Retains(P, Start(P, "hs_read", under, TRUE, FALSE, done), {})
      BY <2>7, ServerAssumption, StartRetains DEF ClientOp
    <3> QED BY <2>7, <3>1 DEF Retains, SetPool
  <2>8. ASSUME NEW ip \in IP, NEW now \in AtOnce, NEW done \in AtOnce,
               AcceptNew(ip, now, done)
        PROVE  NoUserLeft'
    <3>1. /\ Accepting(ip) /\ uinfo' = uinfo /\ open \subseteq open'
          /\ SetPool(Start(Accepted(now), "hs_read", under, TRUE, FALSE, done))
      BY <2>8 DEF AcceptNew, ChkNew
    <3>2. \A c \in Client : QueuedFor(rq, c) => QueuedFor(rq', c)
      BY <2>5, <2>7, <3>1
    <3> QED BY <3>1, <3>2 DEF NoUserLeft, QueuedFor
  <2>9. ASSUME NEW ip \in IP, NEW now \in AtOnce, Accepting(ip), Known(ip)
        PROVE  LET p == Previous(ip)
                   Q == RecycleIfAny(Accepted(now), p, now)
               IN /\ p \in Client \cup {NULL} /\ Q \in Pools /\ Sound(Q)
                  /\ \A c \in Client :
                        c # p /\ QueuedFor(rq, c) => QueuedFor(Q.rq, c)
    <3> DEFINE p == Previous(ip)
    <3>1. p \in Client \cup {NULL} BY <2>0, <2>9, PreviousIs
    <3> HIDE DEF p
    <3>2. /\ RecycleIfAny(Accepted(now), p, now) \in Pools
          /\ Sound(RecycleIfAny(Accepted(now), p, now))
      BY <2>5, <2>9, <3>1, RecycleIfAnyKeeps
    <3>3. \A c \in Client : c # p /\ QueuedFor(rq, c)
             => QueuedFor(RecycleIfAny(Accepted(now), p, now).rq, c)
      <4>1. CASE p = NULL BY <2>5, <2>9, <4>1 DEF RecycleIfAny
      <4>2. CASE p # NULL
        <5>1. Retains(Accepted(now), Recycle(Accepted(now), p, now), {p})
          BY <2>5, <2>9, <3>1, <4>2, RecycleRetains
        <5> QED BY <2>5, <2>9, <4>2, <5>1 DEF RecycleIfAny, Retains
      <4> QED BY <4>1, <4>2
    <3> QED BY <3>1, <3>2, <3>3 DEF p
  <2>10. ASSUME NEW ip \in IP, NEW now \in AtOnce, AcceptOverLimit(ip, now)
         PROVE  NoUserLeft'
    <3> DEFINE p == Previous(ip)
               Q == RecycleIfAny(Accepted(now), p, now)
               S == {under, p} \ {NULL}
    <3>1. /\ Accepting(ip) /\ Known(ip) /\ open' = open \ {p}
          /\ SetPool(Recycle(Q, under, now))
          /\ uinfo' = [c \in Client |-> IF c \in S THEN NULL ELSE uinfo[c]]
      BY <2>10 DEF AcceptOverLimit, ChkOverLimit
    <3>2. /\ under \in Client /\ now \in BOOLEAN
          /\ p \in Client \cup {NULL} /\ Q \in Pools /\ Sound(Q)
          /\ \A c \in Client : c # p /\ QueuedFor(rq, c) => QueuedFor(Q.rq, c)
      BY <2>5, <2>9, <3>1
    <3> HIDE DEF p, Q
    <3>3. \A c \in Client : c \notin S /\ QueuedFor(rq, c) => QueuedFor(rq', c)
      <4>1. Retains(Q, Recycle(Q, under, now), {under}) BY <3>2, RecycleRetains
      <4>2. NULL \notin Client BY WatchAssumption
      <4> QED BY <3>1, <3>2, <4>1, <4>2 DEF Retains, SetPool
    <3>4. /\ \A c \in Client : c \in S => uinfo'[c] = NULL
          /\ \A c \in Client : c \notin S => uinfo'[c] = uinfo[c]
          /\ \A c \in Client : c \in open /\ c \notin S => c \in open'
      BY <3>1, WatchAssumption
    <3>5. uinfo' \in [Client -> UserIds \cup {NULL}] BY <2>0, <3>1
    <3> HIDE DEF S
    <3> QED BY <3>3, <3>4, <3>5, UsersKept
  <2>11. ASSUME NEW ip \in IP, NEW now \in AtOnce, NEW done \in AtOnce,
                AcceptAgain(ip, now, done)
         PROVE  NoUserLeft'
    <3> DEFINE p == Previous(ip)
               Q == RecycleIfAny(Accepted(now), p, now)
               S == {p, under}
    <3>1. /\ Accepting(ip) /\ Known(ip) /\ open' = (open \ {p}) \cup {under}
          /\ SetPool(Start(Q, "hs_read", under, TRUE, FALSE, done))
          /\ uinfo' = IF Inherits(p)
                      THEN [uinfo EXCEPT ![under] = uinfo[p], ![p] = NULL]
                      ELSE uinfo
      BY <2>11 DEF AcceptAgain, ChkAgain
    <3>2. /\ under \in Client /\ now \in BOOLEAN
          /\ p \in Client \cup {NULL} /\ Q \in Pools
          /\ \A c \in Client : c # p /\ QueuedFor(rq, c) => QueuedFor(Q.rq, c)
      BY <2>5, <2>9, <3>1
    <3> HIDE DEF p, Q
    <3>3. \A c \in Client : c \notin S /\ QueuedFor(rq, c) => QueuedFor(rq', c)
      BY <2>7, <3>1, <3>2
    <3>4. /\ \A c \in Client : c \in S => uinfo'[c] = NULL \/ c \in open'
          /\ \A c \in Client : c \notin S => uinfo'[c] = uinfo[c]
          /\ \A c \in Client : c \in open /\ c \notin S => c \in open'
      BY <2>0, <3>1, <3>2, WatchAssumption DEF Inherits
    <3>5. uinfo' \in [Client -> UserIds \cup {NULL}]
      BY <2>0, <3>1, <3>2 DEF Inherits
    <3> HIDE DEF S
    <3> QED BY <3>3, <3>4, <3>5, UsersKept
  <2>12. ASSUME NEW c \in Client, NEW now \in AtOnce,
                \/ ClientFails(c, now)
                \/ InitRIDenied(c, now)
                \/ CrtUsrDenied(c, now)
                \/ CrtUsrMalformed(c, now)
         PROVE  NoUserLeft'
    <3>1. PICK op \in ClientOp : Running(op, c)
      BY <2>12 DEF ClientFails, InitRIDenied, CrtUsrDenied, CrtUsrMalformed,
                   Receives, ClientOp
    <3>2. /\ SetPool(Recycle(Begun, c, now)) /\ now \in BOOLEAN /\ Clean(c)
          /\ open' = open \ {c}
      BY <2>12, ServerAssumption
      DEF ClientFails, InitRIDenied, CrtUsrDenied, CrtUsrMalformed, Drop,
          Disconnect
    <3>3. Begun \in Pools /\ Sound(Begun) BY <2>0, <3>1, BegunIs DEF ClientOp
    <3>4. \A d \in Client : d # c /\ QueuedFor(rq, d) => QueuedFor(Begun.rq, d)
      BY <2>0, <3>1, BegunRetains
    <3>5. \A d \in Client : d # c /\ QueuedFor(rq, d) => QueuedFor(rq', d)
      BY <3>2, <3>3, <3>4, RecycleRetains DEF Retains, SetPool
    <3> QED BY <3>2, <3>5, CleanedUsers
  <2>13. ASSUME NEW c \in Client, NEW now \in AtOnce, open' = open,
                \A d \in Client : d # c => uinfo'[d] = uinfo[d],
                NEW from \in ClientOp, NEW to \in ClientOp,
                Proceeds(from, c, to, now)
         PROVE  NoUserLeft'
    <3> DEFINE Q == Start(Begun, to, c, c \in open, Head(rq).stale, now)
    <3>1. SetPool(Q) /\ Running(from, c) BY <2>13 DEF Proceeds
    <3>2. /\ Begun \in Pools /\ Head(rq).stale \in BOOLEAN
          /\ now \in BOOLEAN /\ (c \in open) \in BOOLEAN
      BY <2>0, <3>1, BegunIs, ServerAssumption DEF Handlers, Handler
    <3>3. \A d \in Client : d # c /\ QueuedFor(rq, d) => QueuedFor(Begun.rq, d)
      BY <2>0, <3>1, BegunRetains
    <3>4. Retains(Begun, Q, {}) /\ (c \notin open => QueuedFor(Q.rq, c))
      BY <3>2, StartRetains
    <3> HIDE DEF Q
    <3>5. /\ \A d \in Client : d # c /\ QueuedFor(rq, d) => QueuedFor(rq', d)
          /\ c \notin open => QueuedFor(rq', c)
      BY <3>1, <3>3, <3>4 DEF Retains, SetPool
    <3> QED BY <2>13, <3>5 DEF NoUserLeft, QueuedFor
  <2>14. ASSUME NEW c \in Client, NEW now \in AtOnce,
                \/ HandshakeRead(c, now)
                \/ HandshakeWritten(c, now)
                \/ ReplyWritten(c, now)
                \/ InitRIBusy(c, now)
                \/ InitRIReply(c, now)
                \/ CrtUsrBusy(c, now)
                \/ CrtUsrReply(c, now)
         PROVE  NoUserLeft'
    <3>1. \E from, to \in ClientOp : Proceeds(from, c, to, now)
      BY <2>14 DEF HandshakeRead, HandshakeWritten, ReplyWritten, InitRIBusy,
                   InitRIReply, CrtUsrBusy, CrtUsrReply, ClientOp
    <3>2. open' = open
      BY <2>14 DEF HandshakeRead, HandshakeWritten, ReplyWritten, InitRIBusy,
                   InitRIReply, GrantInitRI, CrtUsrBusy, CrtUsrReply, watchVars
    <3>3. uinfo' = uinfo \/ uinfo' = [uinfo EXCEPT ![c] = List!NextFree(users)]
      BY <2>14 DEF HandshakeRead, HandshakeWritten, ReplyWritten, InitRIBusy,
                   InitRIReply, CrtUsrBusy, CrtUsrReply, chatVars
    <3>4. \A d \in Client : d # c => uinfo'[d] = uinfo[d] BY <2>0, <3>3
    <3> QED BY <2>13, <3>1, <3>2, <3>4
  <2>15. ASSUME NEW h \in Handlers, rq' = Append(rq, h), open' = open,
                uinfo' = uinfo
         PROVE  NoUserLeft'
    <3>1. rq \in Seq(Handlers) BY <2>0 DEF PoolOK, Pools, Pool
    <3>2. \A d \in Client : QueuedFor(rq, d) => QueuedFor(rq', d)
      BY <2>15, <3>1, AppendQueued
    <3> QED BY <2>15, <3>2 DEF NoUserLeft, QueuedFor
  <2>16. CASE Arrives
    <3> DEFINE h == [op |-> "accept", client |-> NULL, how |-> "ready",
                     stale |-> FALSE]
    <3>1. h \in Handlers BY DEF Handlers, Handler
    <3>2. rq' = Append(rq, h) BY <2>16 DEF Arrives, SetPool, Queue, Pool
    <3>3. open' = open /\ uinfo' = uinfo
      BY <2>16 DEF Arrives, watchVars, chatVars
    <3> HIDE DEF h
    <3> QED BY <2>15, <3>1, <3>2, <3>3
  <2>17. ASSUME NEW c \in Client, Ready(c) PROVE NoUserLeft'
    <3> DEFINE h == [op |-> pend[c], client |-> c, how |-> "ready",
                     stale |-> FALSE]
    <3>1. pend[c] \in ClientOp BY <2>0, <2>17 DEF PoolOK, Pools, Pool, Ready
    <3>2. h \in Handlers
      BY <3>1, WatchAssumption DEF Handlers, Handler, ClientOp
    <3>3. rq' = Append(rq, h) BY <2>17 DEF Ready, SetPool, Queue, Pool
    <3>4. open' = open /\ uinfo' = uinfo
      BY <2>17 DEF Ready, watchVars, chatVars
    <3> HIDE DEF h
    <3> QED BY <2>15, <3>2, <3>3, <3>4
  <2>18. CASE TimePasses
    BY <2>18 DEF TimePasses, Tick, poolVars, chatVars, NoUserLeft
  <2>19. CASE Next
    BY <2>3, <2>4, <2>6, <2>8, <2>10, <2>11, <2>12, <2>14, <2>16, <2>17,
       <2>18, <2>19
    DEF Next
  <2> QED BY <2>1, <2>19
<1> QED BY <1>1, <1>2, AlwaysSInv, PTL DEF Spec
=============================================================================
