------------------------------- MODULE KServer -------------------------------
(***************************************************************************)
(* KServer and the KClients it owns (KServer.cpp, KClient.cpp,             *)
(* KClient_Chat.cpp), on top of the reload watch of KSPRS_rld.             *)
(*                                                                         *)
(* One thread runs the event loop.  A handler runs to completion and is    *)
(* one step; between two handlers anything may have been queued.  A        *)
(* handler is bound to a KClient object, not to the connection it was      *)
(* started for: Recycle_Clnt closes the socket and puts the object back in *)
(* the pool, but the handlers queued for it still run, on the recycled     *)
(* object.  Such a queued handler is marked stale (a mark of the model,    *)
(* the code has none).                                                     *)
(***************************************************************************)
EXTENDS KSPRS_rld, SequencesExt

CONSTANTS
    NUM_CLIENT,      \* size of m_KClntList; Client is 1..NUM_CLIENT
    EN_NUM_KUInfo,   \* size of KUInfo::ms_List
    Buf,             \* the KLargeBuf buffers
    WaitInitRI,      \* EN_SEC_Wait_Init_RI - EN_SEC_Margin_Force_toCLOSE
    WaitCrtUsr,      \* EN_SEC_Wait_Crt_Usr - EN_SEC_Margin_Force_toCLOSE
    Command,         \* the commands the clients send: "InitRI", "CrtUsr"
    AtOnce,          \* bound: whether an operation may be performed at once
    MaxOpen          \* bound: no connection arrives while so many are open

\* The operations of a client's socket.
ClientOp == {"hs_read", "hs_write", "ws_read", "ws_write"}

ASSUME ServerAssumption ==
    /\ NUM_CLIENT \in Nat /\ NUM_CLIENT >= 2 /\ Client = 1..NUM_CLIENT
    /\ EN_NUM_KUInfo \in Nat /\ EN_NUM_KUInfo >= 2
    /\ NULL \notin Buf \cup ClientOp
    /\ WaitInitRI \in Nat \ {0} /\ WaitCrtUsr \in Nat \ {0}
    /\ Command \subseteq {"InitRI", "CrtUsr"}
    /\ AtOnce \subseteq BOOLEAN /\ MaxOpen \in Nat

List == INSTANCE KSmplList WITH LenWidth <- 65536

VARIABLES
    clnts,    \* m_KClntList
    under,    \* m_pKClnt_Elmt_UnderAccpting
    rq,       \* the handlers ready to run, in the order asio runs them
    pend,     \* the operation in progress on each client's socket, or NULL
    armed,    \* an async_accept is in progress
    users,    \* KUInfo::ms_List
    uinfo,    \* m_pKUInfo_Elmt of each client
    super,    \* the clients with mb_IsSuperUser
    big,      \* m_pInfo_LargeBuf of each client
    bufs,     \* the buffers whose m_stt is 1
    rrq       \* m_rrq_time_InitRI_CrtUsr of each client

poolVars == <<clnts, under, rq, pend, armed>>
chatVars == <<users, uinfo, super, big, bufs, rrq>>
vars     == <<watchVars, poolVars, chatVars>>

-----------------------------------------------------------------------------
(* Asynchronous operations.  The pool, the acceptor and the queue change   *)
(* several times within one handler: the operators take and give a record  *)
(* of those five variables.                                                *)

Handler == [op : ClientOp \cup {"accept"}, client : Client \cup {NULL},
            how : {"done", "ready", "failed"}, stale : BOOLEAN]

Queue(P, op, c, how, stale) ==
    [P EXCEPT !.rq = Append(@, [op |-> op, client |-> c, how |-> how,
                                stale |-> stale])]

\* An operation that can be performed at once has its handler queued with the
\* outcome known (now); one on a closed socket has it queued with an error.
Start(P, op, c, connected, stale, now) ==
    CASE ~connected        -> Queue(P, op, c, "failed", stale)
      [] connected /\ now  -> Queue(P, op, c, "done", stale)
      [] connected /\ ~now -> [P EXCEPT !.pend[c] = op]

\* async_accept into the socket of P.under.
StartAccept(P, connected, now) ==
    CASE connected         -> Queue(P, "accept", NULL, "failed", FALSE)
      [] ~connected /\ now -> Queue(P, "accept", NULL, "done", FALSE)
      [] ~connected /\ ~now -> [P EXCEPT !.armed = TRUE]

\* The handlers of c once its socket is closed: the one that was to perform
\* the operation in progress, of which there is at most one, is taken back.
Detached(P, c) ==
    LET ready == {i \in DOMAIN P.rq : P.rq[i].client = c /\ P.rq[i].how = "ready"}
        left  == IF ready = {} THEN P.rq
                 ELSE RemoveAt(P.rq, CHOOSE i \in ready : TRUE)
    IN [P EXCEPT !.rq = [i \in DOMAIN left |->
                           [left[i] EXCEPT !.stale = @ \/ left[i].client = c]],
                 !.pend[c] = NULL]

\* Mutant: an operation is aborted even when there is none.
CloseAborts(P, c) == Queue(Detached(P, c), P.pend[c], c, "failed", TRUE)

\* m_socket.close(): an operation in progress is aborted, its handler queued
\* with an error; one already performed keeps its place and its outcome.
Close(P, c) ==
    IF P.pend[c] = NULL THEN Detached(P, c)
    ELSE Queue(Detached(P, c), P.pend[c], c, "failed", TRUE)

\* Mutants: the acceptor is never restarted, or always.
RecycleOnly(P, c, now) ==
    [Close(P, c) EXCEPT !.clnts = List!MoveToEnd(@, c)]

RecycleAndAccept(P, c, now) ==
    LET closed == [Close(P, c) EXCEPT !.clnts = List!MoveToEnd(@, c)]
    IN StartAccept([closed EXCEPT !.under = List!NextFree(closed.clnts),
                                  !.clnts = List!GetNewElmt(@)], FALSE, now)

\* Recycle_Clnt(c), the part of the server: the socket, the pool, and the
\* acceptor when it was waiting for a client.
Recycle(P, c, now) ==
    LET closed == [Close(P, c) EXCEPT !.clnts = List!MoveToEnd(@, c)]
        taken  == [closed EXCEPT !.under = List!NextFree(closed.clnts),
                                 !.clnts = List!GetNewElmt(@)]
    IN IF P.under # NULL THEN closed ELSE StartAccept(taken, FALSE, now)

RecycleIfAny(P, c, now) == IF c = NULL THEN P ELSE Recycle(P, c, now)

-----------------------------------------------------------------------------

Pool == [clnts |-> clnts, under |-> under, rq |-> rq, pend |-> pend,
         armed |-> armed]

SetPool(P) == /\ clnts' = P.clnts /\ under' = P.under /\ rq' = P.rq
              /\ pend' = P.pend /\ armed' = P.armed

Init ==
    /\ WatchInit
    /\ clnts = List!GetNewElmt(List!NewList(NUM_CLIENT))
    /\ under = 1
    /\ rq = <<>> /\ armed = TRUE
    /\ pend = [c \in Client |-> NULL]
    /\ users = List!NewList(EN_NUM_KUInfo)
    /\ uinfo = [c \in Client |-> NULL]
    /\ super = {}
    /\ big = [c \in Client |-> NULL] /\ bufs = {}
    /\ rrq = [c \in Client |-> 0]

\* The handler that runs is the first of the queue.
Running(op, c) ==
    /\ ~hung /\ rq # <<>>
    /\ Head(rq).op = op /\ Head(rq).client = c

Succeeds == Head(rq).how # "failed"

\* The queue without it; its operation is over.
Begun ==
    [Pool EXCEPT !.rq = Tail(@),
                 !.pend = IF Head(rq).how = "ready" /\ Head(rq).client # NULL
                          THEN [@ EXCEPT ![Head(rq).client] = NULL] ELSE @]

\* Mutant: the user record is not given back.
FreedNever(L, u) == L

\* KClient::Clean, the part of the chat: the user records and the buffers of
\* the clients in S go back to their pools.  m_rrq_time is left as it is.
Freed(L, u) == IF u = NULL THEN L ELSE List!MoveToEnd(L, u)

\* Mutant: the buffer is not given back.
CleanBufHalf(S) ==
    /\ UNCHANGED bufs
    /\ big' = [c \in Client |-> IF c \in S THEN NULL ELSE big[c]]

CleanBuf(S) ==
    /\ bufs' = bufs \ {big[c] : c \in S}
    /\ big' = [c \in Client |-> IF c \in S THEN NULL ELSE big[c]]

\* Mutant: the client keeps its user record.
CleanHalf(c) ==
    /\ super' = super \ {c}
    /\ CleanBuf({c})
    /\ UNCHANGED <<users, uinfo>>

Clean(c) ==
    /\ users' = Freed(users, uinfo[c])
    /\ uinfo' = [uinfo EXCEPT ![c] = NULL]
    /\ super' = super \ {c}
    /\ CleanBuf({c})

-----------------------------------------------------------------------------
(* KServer::On_Accpt_Svr *)

\* Mutant: the next client is not taken from the pool.
AcceptNextUntaken(connected, now) ==
    LET free == List!NextFree(clnts)
        P    == [Begun EXCEPT !.under = free]
    IN IF free = NULL THEN P ELSE StartAccept(P, free \in connected, now)

\* The next client is taken from the pool and async_accept started for it.
\* connected: the clients whose socket is open.
AcceptNext(connected, now) ==
    LET free == List!NextFree(clnts)
        P    == [Begun EXCEPT !.under = free, !.clnts = List!GetNewElmt(@)]
    IN IF free = NULL THEN P ELSE StartAccept(P, free \in connected, now)

\* The accept, or the query of the peer's address, failed.
AcceptFails(now) ==
    /\ Running("accept", NULL)
    /\ SetPool(Recycle(AcceptNext(open \cup
                  (IF Succeeds THEN {under} ELSE {}), now), under, now))
    /\ Clean(under)
    /\ Disconnect(under)
    /\ UNCHANGED rrq

\* A connection from ip has been accepted on the client under.
Accepting(ip) ==
    /\ Running("accept", NULL) /\ Succeeds
    /\ under \notin open
    /\ Cardinality(open) < MaxOpen
    /\ Known(ip) => recd[RecordOf(ip)].times < MaxTimes

Accepted(now) == AcceptNext(open \cup {under}, now)

AcceptHangs(ip) ==
    /\ Accepting(ip)
    /\ ChkHangs
    /\ UNCHANGED <<poolVars, chatVars>>

AcceptRefused(ip, now) ==
    /\ Accepting(ip)
    /\ ChkRefuses
    /\ SetPool(Recycle(Accepted(now), under, now))
    /\ Clean(under)
    /\ UNCHANGED rrq

\* now: whether the next accept, done: whether the first read, is performed
\* at once.
AcceptNew(ip, now, done) ==
    /\ Accepting(ip)
    /\ ChkNew(ip, under)
    /\ SetPool(Start(Accepted(now), "hs_read", under, TRUE, FALSE, done))
    /\ super' = IF ip \in DevIP THEN super \cup {under} ELSE super
    /\ UNCHANGED <<users, uinfo, big, bufs, rrq>>

AcceptOverLimit(ip, now) ==
    /\ Accepting(ip)
    /\ ChkOverLimit(ip)
    /\ SetPool(Recycle(RecycleIfAny(Accepted(now), Previous(ip), now),
                       under, now))
    /\ LET S == {under, Previous(ip)} \ {NULL}
           held == IF Previous(ip) = NULL THEN NULL ELSE uinfo[Previous(ip)]
       IN /\ users' = Freed(Freed(users, held), uinfo[under])
          /\ uinfo' = [c \in Client |-> IF c \in S THEN NULL ELSE uinfo[c]]
          /\ super' = super \ S
          /\ CleanBuf(S)
    /\ UNCHANGED rrq

\* Mutant: the user record is not handed over.
InheritsNever(p) == FALSE

\* The previous client has a user record to hand over.
Inherits(p) == p # NULL /\ uinfo[p] # NULL

\* The previous client of the address hands its user record over and is
\* recycled.
AcceptAgain(ip, now, done) ==
    /\ Accepting(ip)
    /\ ChkAgain(ip, under)
    /\ SetPool(Start(RecycleIfAny(Accepted(now), Previous(ip), now),
                     "hs_read", under, TRUE, FALSE, done))
    /\ LET p == Previous(ip)
       IN /\ uinfo' = IF Inherits(p)
                      THEN [uinfo EXCEPT ![under] = uinfo[p], ![p] = NULL]
                      ELSE uinfo
          /\ super' = super \ {p}
          /\ CleanBuf({p} \ {NULL})
    /\ UNCHANGED <<users, rrq>>

-----------------------------------------------------------------------------
(* The handlers of a KClient *)

\* Mutant: the client is not detached from its record.
DropWatched(c, now) ==
    /\ SetPool(Recycle(Begun, c, now))
    /\ Clean(c)
    /\ open' = open \ {c}
    /\ UNCHANGED <<ring, link, clock, hung>>

\* Recycle_Clnt(c) from a handler of c: the connection is over.
Drop(c, now) ==
    /\ SetPool(Recycle(Begun, c, now))
    /\ Clean(c)
    /\ Disconnect(c)

\* Any handler told of an error, a short transfer, a malformed request or
\* frame header, a frame that is not a binary one, or an unknown command.
ClientFails(c, now) ==
    /\ \E op \in ClientOp : Running(op, c)
    /\ Drop(c, now)
    /\ UNCHANGED rrq

\* Mutant: the handler returns without starting the next operation.
ProceedsIdle(from, c, to, now) ==
    /\ Running(from, c) /\ Succeeds
    /\ SetPool(Begun)

\* A handler of c that has been given what it expects.  It goes on with to,
\* on the socket c has now.
Proceeds(from, c, to, now) ==
    /\ Running(from, c) /\ Succeeds
    /\ SetPool(Start(Begun, to, c, c \in open, Head(rq).stale, now))

\* Crt_WebScktConnection_Read_Hndlr: a well-formed upgrade request.
HandshakeRead(c, now) ==
    /\ Proceeds("hs_read", c, "hs_write", now)
    /\ UNCHANGED <<watchVars, chatVars>>

\* Crt_WebScktConnection_Write_Hndlr: the WebSocket is established.
HandshakeWritten(c, now) ==
    /\ Proceeds("hs_write", c, "ws_read", now)
    /\ UNCHANGED <<watchVars, chatVars>>

\* On_Async_Write_Hndlr_asWS: the reply is out, its buffer is returned.
ReplyWritten(c, now) ==
    /\ Proceeds("ws_write", c, "ws_read", now)
    /\ CleanBuf({c})
    /\ UNCHANGED <<watchVars, users, uinfo, super, rrq>>

\* On_Async_Read_Hndlr_asWS has a frame with command cmd.
Receives(cmd, c) ==
    /\ cmd \in Command
    /\ Running("ws_read", c) /\ Succeeds

TooEarly(c) == clock < rrq[c]

\* UP_InitRI, refused.
InitRIDenied(c, now) ==
    /\ Receives("InitRI", c)
    /\ ~Entitled(c) \/ TooEarly(c)
    /\ Drop(c, now)
    /\ UNCHANGED rrq

\* UP_InitRI, all buffers in use: the client is told to ask again later.
InitRIBusy(c, now) ==
    /\ Receives("InitRI", c)
    /\ Entitled(c) /\ ~TooEarly(c)
    /\ bufs = Buf
    /\ big' = [big EXCEPT ![c] = NULL]
    /\ rrq' = [rrq EXCEPT ![c] = clock + WaitInitRI]
    /\ Proceeds("ws_read", c, "ws_write", now)
    /\ UNCHANGED <<watchVars, users, uinfo, super, bufs>>

\* UP_InitRI, granted: the room list is written from a large buffer.
InitRIReply(c, now) ==
    /\ Receives("InitRI", c)
    /\ Entitled(c) /\ ~TooEarly(c)
    /\ bufs # Buf
    /\ LET b == CHOOSE x \in Buf \ bufs : TRUE
       IN bufs' = bufs \cup {b} /\ big' = [big EXCEPT ![c] = b]
    /\ rrq' = [rrq EXCEPT ![c] = 0]
    /\ GrantInitRI(c)
    /\ Proceeds("ws_read", c, "ws_write", now)
    /\ UNCHANGED <<users, uinfo, super>>

\* UP_Crt_Usr, refused.
CrtUsrDenied(c, now) ==
    /\ Receives("CrtUsr", c)
    /\ uinfo[c] # NULL \/ TooEarly(c)
    /\ Drop(c, now)
    /\ UNCHANGED rrq

\* UP_Crt_Usr, a payload of the wrong length: refused after the delay is over.
CrtUsrMalformed(c, now) ==
    /\ Receives("CrtUsr", c)
    /\ uinfo[c] = NULL /\ ~TooEarly(c)
    /\ rrq' = [rrq EXCEPT ![c] = 0]
    /\ Drop(c, now)

\* UP_Crt_Usr, no user record left: the client is told to ask again later.
CrtUsrBusy(c, now) ==
    /\ Receives("CrtUsr", c)
    /\ uinfo[c] = NULL /\ ~TooEarly(c)
    /\ List!NextFree(users) = NULL
    /\ rrq' = [rrq EXCEPT ![c] = clock + WaitCrtUsr]
    /\ CleanBuf({c})
    /\ Proceeds("ws_read", c, "ws_write", now)
    /\ UNCHANGED <<watchVars, users, uinfo, super>>

\* UP_Crt_Usr, granted: the client has a user record.
CrtUsrReply(c, now) ==
    /\ Receives("CrtUsr", c)
    /\ uinfo[c] = NULL /\ ~TooEarly(c)
    /\ List!NextFree(users) # NULL
    /\ uinfo' = [uinfo EXCEPT ![c] = List!NextFree(users)]
    /\ users' = List!GetNewElmt(users)
    /\ rrq' = [rrq EXCEPT ![c] = 0]
    /\ Proceeds("ws_read", c, "ws_write", now)
    /\ UNCHANGED <<watchVars, super, big, bufs>>

-----------------------------------------------------------------------------
(* What happens outside the handlers *)

\* A connection arrives for the async_accept in progress.
Arrives ==
    /\ armed
    /\ SetPool([Queue(Pool, "accept", NULL, "ready", FALSE) EXCEPT !.armed = FALSE])
    /\ UNCHANGED <<watchVars, chatVars>>

\* A socket becomes ready for the operation in progress on it.
Ready(c) ==
    /\ pend[c] # NULL
    /\ ~\E i \in DOMAIN rq : rq[i].client = c /\ rq[i].how = "ready"
    /\ SetPool(Queue(Pool, pend[c], c, "ready", FALSE))
    /\ UNCHANGED <<watchVars, chatVars>>

TimePasses == Tick /\ UNCHANGED <<poolVars, chatVars>>

Next ==
    \/ \E now \in AtOnce : AcceptFails(now)
    \/ \E ip \in IP : AcceptHangs(ip)
    \/ \E ip \in IP, now \in AtOnce : AcceptRefused(ip, now)
    \/ \E ip \in IP, now, done \in AtOnce : AcceptNew(ip, now, done)
    \/ \E ip \in IP, now \in AtOnce : AcceptOverLimit(ip, now)
    \/ \E ip \in IP, now, done \in AtOnce : AcceptAgain(ip, now, done)
    \/ \E c \in Client, now \in AtOnce :
          \/ ClientFails(c, now)
          \/ HandshakeRead(c, now)
          \/ HandshakeWritten(c, now)
          \/ ReplyWritten(c, now)
          \/ InitRIDenied(c, now)
          \/ InitRIBusy(c, now)
          \/ InitRIReply(c, now)
          \/ CrtUsrDenied(c, now)
          \/ CrtUsrMalformed(c, now)
          \/ CrtUsrBusy(c, now)
          \/ CrtUsrReply(c, now)
    \/ Arrives
    \/ \E c \in Client : Ready(c)
    \/ TimePasses

Spec == Init /\ [][Next]_vars

-----------------------------------------------------------------------------
(* What must hold *)

\* Every variable has its type.
TypeOK ==
    /\ WatchTypeOK
    /\ under \in Client \cup {NULL}
    /\ \A i \in DOMAIN rq : rq[i] \in Handler
    /\ pend \in [Client -> ClientOp \cup {NULL}] /\ armed \in BOOLEAN
    /\ uinfo \in [Client -> 1..EN_NUM_KUInfo \cup {NULL}]
    /\ super \subseteq Client
    /\ big \in [Client -> Buf \cup {NULL}] /\ bufs \subseteq Buf
    /\ rrq \in [Client -> Nat]

\* The queued handlers that satisfy Test.
Queued(Test(_)) == {i \in DOMAIN rq : Test(rq[i])}

\* One async_accept is in progress or about to be handled whenever a client
\* is set aside for it, and none otherwise: two would share one client, and
\* with none the server would accept no connection ever again.
OneAccept ==
    Cardinality(Queued(LAMBDA h : h.op = "accept")) + (IF armed THEN 1 ELSE 0)
        = IF under = NULL THEN 0 ELSE 1

\* The server waits without an async_accept only while its pool is empty
\* (KServer.h:8): any client recycled, by whatever handler, restarts it.
AcceptsWhileRoom == under = NULL => List!NextFree(clnts) = NULL

\* Every open connection has exactly one operation that is in progress or
\* about to be handled.  With none it would be open for ever; with two, one
\* buffer would serve a read and a write at once.
OneOperation ==
    \A c \in open :
        Cardinality(Queued(LAMBDA h : h.client = c /\ ~h.stale
                                      /\ h.how # "ready"))
            + (IF pend[c] = NULL THEN 0 ELSE 1) = 1

\* A handler left over from a closed connection finds its client free: never
\* serving a new connection, nor set aside for the next one.
LateHandlersHarmless ==
    \A i \in DOMAIN rq : rq[i].stale => rq[i].client \notin open \cup {under}

\* The pool hands out what is free and nothing else: each client is open, set
\* aside for the next connection, or free.
PoolPartition ==
    /\ List!Elements(clnts) = Client
    /\ under \notin open
    /\ List!FreeOf(clnts) = Client \ (open \cup {under})

\* The user records in use are those the clients hold, each held by one:
\* a reconnection that takes a record over, a second recycling of a client
\* and a late registration free none twice and forget none.
UserRecordsOwned ==
    /\ \A c, d \in Client : uinfo[c] # NULL /\ uinfo[c] = uinfo[d] => c = d
    /\ List!FreeOf(users) = 1..EN_NUM_KUInfo \ {uinfo[c] : c \in Client}

\* A user record belongs to an open connection, or to a client that a late
\* handler registered and whose next handler will release it.
NoUserLeft ==
    \A c \in Client : uinfo[c] # NULL =>
        c \in open \/ \E i \in DOMAIN rq : rq[i].client = c

\* The large buffers in use are those of the replies being written, one each:
\* whether a reply completes, fails, or its client is recycled meanwhile, its
\* buffer is returned once.
BuffersOwned ==
    /\ bufs = {big[c] : c \in Client} \ {NULL}
    /\ \A c, d \in Client : big[c] # NULL /\ big[c] = big[d] => c = d
    /\ \A c \in Client : big[c] # NULL =>
          /\ c \in open
          /\ \/ pend[c] = "ws_write"
             \/ \E i \in DOMAIN rq : /\ rq[i].client = c /\ ~rq[i].stale
                                     /\ rq[i].op = "ws_write"

\* When a connection of a watched address replaces a client, the client's
\* user record goes to the one that replaces it.
ReplacementInherits ==
    [][\A c \in open \ open' : link[c] # NULL /\ uinfo[c] # NULL =>
          LET d == recd'[link[c]].client
          IN d # NULL => uinfo'[d] = uinfo[c]]_vars

\* KServer.cpp:147: a user who reconnects while the address is watched takes
\* over the user record of the connection before.
UserFollowsReconnection ==
    [][\A c \in open : link[c] # NULL /\ uinfo[c] # NULL
                         /\ ~Expired(link[c]) =>
          LET d == recd'[link[c]].client
          IN d \notin {NULL, c} => uinfo'[d] = uinfo[c]]_vars

\* The server drives the reload watch as WatchSpec says.
DrivesWatch == WatchSpec

\* KSmplList.hpp:97: m_pNewElmt_inList is NULL when the list is full, that
\* is when every client is connected or set aside for the next connection.
FullMeansNull ==
    open \cup {under} = Client => List!NextFree(clnts) = NULL

\* KClient_Chat.h:146: m_rrq_time is 0 unless the client was told to ask
\* again later.  One that is still in the handshake has been told nothing.
DelayOnlyIfTold ==
    \A c \in open : pend[c] \in {"hs_read", "hs_write"} => rrq[c] = 0

=============================================================================
