---------------------------- MODULE Session_proofs ----------------------------
(***************************************************************************)
(* Theorems about the connection of a client and what it logs, for every   *)
(* set of frames, sizes of reads, peers and names, and every number of     *)
(* connections, frames and records.                                        *)
(***************************************************************************)
EXTENDS SessionRecords_proofs, TLAPS

Places == {"none", "hello", "accept", "read", "write", "dead"}

Sent == [frame : Frames, from : Nat]

NoPeer == [ip |-> <<>>, super |-> FALSE]

\* The connection and the ids, as far as the code computes with them.
WSTyped ==
    /\ client \in [at : Places, sckt : Nat, peer : Peers \cup {NoPeer},
                   usr : Nat, wrt : Nat, unmasked : Nat, acted : Nat,
                   sent : Seq(Sent), got : Nat]
    /\ ids \in [super : Nat \ {0}, usr : Nat \ {0}]

-----------------------------------------------------------------------------
(* Frames *)

\* Nothing is wrong with the frame, if the read is one.
Accepts(f, n) == Checked(f, n, 0).entry = <<>>

\* A frame that is accepted has the length that its header says, as the
\* server reads it, and its payload fits.
LEMMA Accepted ==
    ASSUME NEW f \in Frames, NEW n, Accepts(f, n)
    PROVE  /\ f.len < 65536
           /\ ~Mismatch(f, n)
           /\ ~(bytes_payload(f) > BYTES_MAX_Payload)
<1>. DEFINE c     == Checked(f, n, 0)
            short == n < 6
            p9    == f.op = 9
            p2    == f.op # 2
            long  == f.len >= 65536
            miss  == Mismatch(f, n)
            big   == bytes_payload(f) > BYTES_MAX_Payload
            e1 == InvalidLen(n, 0, 0)
            e2 == OnlyId("ERR_not_FIN_Recieved", 0)
            e3 == OnlyId("RCVD_CLOSE_opcode", 0)
            e4 == OnlyId("RCVD_PING_opcode", 0)
            e5 == UnhandledOpcode(f.op)
            e6 == TooBig(LongLength(f, n), f.len, FALSE)
            e7 == InvalidLen(n, bytes_payload(f), f.len)
            e8 == TooBig(W(bytes_payload(f)), f.len, bytes_payload(f) = f.len)
            e9 == [buf |-> errbuf, entry |-> <<>>]
<1>1. c = IF short THEN e1 ELSE IF ~f.fin THEN e2 ELSE IF f.op = 8 THEN e3
          ELSE IF p9 THEN e4 ELSE IF p2 THEN e5
          ELSE IF long THEN e6 ELSE IF miss THEN e7 ELSE IF big THEN e8 ELSE e9
  BY DEF Checked
<1>2. c.entry = <<>>
  BY DEF Accepts
<1>3. /\ e1.entry # <<>> /\ e2.entry # <<>> /\ e3.entry # <<>> /\ e4.entry # <<>>
      /\ e5.entry # <<>> /\ e6.entry # <<>> /\ e7.entry # <<>> /\ e8.entry # <<>>
  <2>1. e1.entry # <<>> /\ e7.entry # <<>>
    BY DEF InvalidLen
  <2>2. e2.entry # <<>> /\ e3.entry # <<>> /\ e4.entry # <<>>
    BY DEF OnlyId
  <2>3. e5.entry # <<>>
    BY DEF UnhandledOpcode
  <2>4. e6.entry # <<>> /\ e8.entry # <<>>
    BY DEF TooBig
  <2>. QED  BY <2>1, <2>2, <2>3, <2>4
<1>. HIDE DEF c, short, p9, p2, long, miss, big, e1, e2, e3, e4, e5, e6, e7, e8, e9
<1>4. ~long /\ ~miss /\ ~big
  <2>1. c \in {e1, e2, e3, e4, e5, e6, e7, e8} \/ (~long /\ ~miss /\ ~big)
    BY <1>1, Zenon
  <2>. QED  BY <1>2, <1>3, <2>1, Zenon
<1>5. ~(f.len >= 65536)
  BY <1>4 DEF long
<1>6. f.len \in Nat
  BY ClientAssumption
<1>. QED  BY <1>4, <1>5, <1>6, SMT DEF miss, big

\* A frame that is acted on fits into the buffer, and the read is as long as it.
LEMMA Sizes ==
    ASSUME NEW f \in Frames, NEW n, Accepts(f, n)
    PROVE  /\ HeaderSize(f) \in {6, 8}
           /\ bytes_payload(f) \in 0..1485
           /\ n = bytes_payload(f) + HeaderSize(f) /\ n \in Nat
<1>1. f.len \in Nat
  BY ClientAssumption
<1>2. bytes_payload(f) \in Nat
  BY <1>1, SMT DEF bytes_payload
<1>3. HeaderSize(f) \in {6, 8}
  BY Accepted, <1>1, SMT DEF HeaderSize
<1>4. n = bytes_payload(f) + HeaderSize(f)
  BY Accepted DEF Mismatch
<1>5. ~(bytes_payload(f) > 1485)
  BY Accepted, SMT DEF BYTES_MAX_Payload, BYTES_PRIVATE_BUF
<1>. QED  BY <1>2, <1>3, <1>4, <1>5, SMT

\* The last mask of a payload that is accepted ends in the buffer.
LEMMA MaskEnds ==
    ASSUME NEW f \in Frames, NEW n, Accepts(f, n)
    PROVE  UnmaskEnd(f) \in 0..BYTES_PRIVATE_BUF
<1>. DEFINE b == bytes_payload(f)
            h == HeaderSize(f)
            words == (b + 7) \div 8
<1>1. b \in 0..1485 /\ h \in {6, 8}
  BY Sizes
<1>2. UnmaskEnd(f) = h + 8 * (IF words = 0 THEN 1 ELSE words)
  BY DEF UnmaskEnd
<1>. HIDE DEF b, h
<1>3. words \in 0..186
  BY <1>1, SMT
<1>. HIDE DEF words
<1>. QED  BY <1>1, <1>2, <1>3, SMT DEF BYTES_PRIVATE_BUF

-----------------------------------------------------------------------------
(* What a step does to the connection *)

Clients == [at : Places, sckt : Nat, peer : Peers \cup {NoPeer}, usr : Nat,
            wrt : Nat, unmasked : Nat, acted : Nat, sent : Seq(Sent), got : Nat]

\* The connection is given up, or a new one is made.
Restarts ==
    /\ client' \in Clients
    /\ client'.sent = <<>> /\ client'.got = 0 /\ client'.unmasked = 0
    /\ client'.usr = 0

Moves == \E place \in Places : client' = [client EXCEPT !.at = place]

Sends ==
    \E f \in Frames :
        client' = [client EXCEPT !.sent = Append(@, [frame |-> f, from |-> End])]

Replies ==
    \E n \in Readable, f \in HeaderHere, bytes \in Nat, usr \in Nat :
        /\ Accepts(f, n)
        /\ client' = [client EXCEPT !.at = "write", !.got = @ + n, !.acted = @ + 1,
                                    !.wrt = bytes, !.usr = usr, !.unmasked = UnmaskEnd(f)]

\* The frame that is here is one that was sent.
LEMMA HereSent ==
    ASSUME WSTyped
    PROVE  /\ Here # 0 => /\ Here \in DOMAIN client.sent
                          /\ client.sent[Here].from = client.got
           /\ HeaderHere \subseteq Frames
<1>. DEFINE k == {i \in DOMAIN client.sent : client.sent[i].from = client.got}
<1>1. Here = IF k = {} THEN 0 ELSE CHOOSE i \in k : TRUE
  BY DEF Here
<1>2. Here # 0 => Here \in k
  BY <1>1, Zenon
<1>3. Here # 0 => client.sent[Here] \in Sent
  BY <1>2 DEF WSTyped
<1>. QED  BY <1>2, <1>3 DEF HeaderHere, Sent

\* The fields of a client without a connection.
LEMMA IdleClients ==
    ASSUME NEW k \in Nat
    PROVE  /\ Idle(k) \in Clients
           /\ Idle(k).sent = <<>> /\ Idle(k).got = 0
           /\ Idle(k).unmasked = 0 /\ Idle(k).usr = 0
<1>1. NoPeer \in Peers \cup {NoPeer} /\ <<>> \in Seq(Sent) /\ "none" \in Places
  BY DEF Places
<1>2. Idle(k) = [at |-> "none", sckt |-> k, peer |-> NoPeer, usr |-> 0, wrt |-> 0,
                 unmasked |-> 0, acted |-> 0, sent |-> <<>>, got |-> 0]
  BY DEF Idle, NoPeer
<1>. HIDE DEF NoPeer, Places, Sent
<1>. QED  BY <1>1, <1>2 DEF Clients

\* Closing leaves a client without a connection.
LEMMA Closes ==
    ASSUME WSTyped, NEW STATE entries, NEW STATE t, Close(entries, t)
    PROVE  Restarts
<1>1. client.sckt \in Nat /\ client' = Idle(client.sckt)
  BY DEF WSTyped, Close
<1>. QED  BY <1>1, IdleClients DEF Restarts

\* A reply has a length.
LEMMA FramedNat ==
    ASSUME NEW n \in Nat
    PROVE  Framed(n) \in Nat
  BY DEF Framed

\* A reply is an answer to what a read took for a frame.
LEMMA Replied ==
    ASSUME NEW n \in Readable, NEW f \in HeaderHere, Accepts(f, n),
           NEW STATE bytes, bytes \in Nat, NEW STATE entries,
           NEW STATE usr, usr \in Nat,
           Reply(f, n, bytes, entries, usr)
    PROVE  Replies
  BY DEF Reply, Replies

\* A handler of a read replies, ends the connection or the program.
LEMMA HandlerSteps ==
    ASSUME WSTyped, NEW n \in Readable, NEW f \in HeaderHere, ReadActed(f, n)
    PROVE  (Restarts \/ Replies \/ Moves) /\ ids' \in [super : Nat \ {0}, usr : Nat \ {0}]
<1>1. Accepts(f, n)
  BY DEF ReadActed, Accepts
<1>2. WS_Read_Hndlr(f, n)
  BY DEF ReadActed
<1>4. client.usr \in Nat /\ NewID \in Nat /\ 0 \in Nat
  BY DEF WSTyped, NewID
<1>5. CASE UP_InitRI(f, n)
  <2>1. RequestAgain \in Nat /\ \A warning \in {0, 8} : Framed(2 + warning + 4) \in Nat
    BY FramedNat DEF RequestAgain
  <2>2. UNCHANGED ids
    BY <1>5 DEF UP_InitRI
  <2>3. Restarts \/ Replies
    <3>1. CASE Close(<<NoPermission>>, now) \/ Close(<<>>, now)
      BY <3>1, Closes
    <3>2. CASE Reply(f, n, RequestAgain, <<Event("REQ_LargeBuf_Exausted")>>, client.usr)
      BY <1>1, <1>4, <2>1, Replied, <3>2
    <3>3. CASE \E warning \in {0, 8} :
                  Reply(f, n, Framed(2 + warning + 4), <<LargeBufUsed>>, client.usr)
      BY <1>1, <1>4, <2>1, Replied, <3>3
    <3>. QED  BY <1>5, <3>1, <3>2, <3>3, Zenon DEF UP_InitRI
  <2>. QED  BY <2>2, <2>3 DEF WSTyped
<1>6. CASE UP_CrtUsr(f, n)
  <2>1. RequestAgain \in Nat /\ Framed(6) \in Nat
    BY FramedNat DEF RequestAgain
  <2>2. IdsUsed \in [super : Nat \ {0}, usr : Nat \ {0}]
    <3>1. ids \in [super : Nat \ {0}, usr : Nat \ {0}]
      BY DEF WSTyped
    <3>2. /\ [ids EXCEPT !.super = @ + 1] \in [super : Nat \ {0}, usr : Nat \ {0}]
          /\ [ids EXCEPT !.usr = @ + 1] \in [super : Nat \ {0}, usr : Nat \ {0}]
      BY <3>1
    <3>. QED  BY <3>2 DEF IdsUsed
  <2>3. UNCHANGED ids \/ ids' = IdsUsed
    BY <1>6 DEF UP_CrtUsr, Dies
  <2>4. Restarts \/ Replies \/ Moves
    <3>1. CASE Close(<<>>, now)
      BY <3>1, Closes
    <3>2. CASE Reply(f, n, RequestAgain, <<Event("KUInfo_Exausted")>>, 0)
      BY <1>1, <1>4, <2>1, Replied, <3>2
    <3>3. CASE Reply(f, n, Framed(6), <<UserCreated(f)>>, NewID)
      BY <1>1, <1>4, <2>1, Replied, <3>3
    <3>4. CASE Dies(f)
      BY <3>4 DEF Dies, Moves, Places
    <3>. QED  BY <1>6, <3>1, <3>2, <3>3, <3>4, Zenon DEF UP_CrtUsr
  <2>. QED  BY <2>2, <2>3, <2>4 DEF WSTyped
<1>7. CASE Close(<<>>, now) /\ UNCHANGED ids
  BY <1>7, Closes DEF WSTyped
<1>. QED  BY <1>2, <1>5, <1>6, <1>7 DEF WS_Read_Hndlr

\* Every step of the connection has one of the shapes above.
LEMMA ClientSteps ==
    ASSUME WSTyped, [Next]_vars
    PROVE  /\ Restarts \/ Moves \/ Sends \/ Replies
           /\ ids' \in [super : Nat \ {0}, usr : Nat \ {0}]
<1>. DEFINE Goal == /\ Restarts \/ Moves \/ Sends \/ Replies
                    /\ ids' \in [super : Nat \ {0}, usr : Nat \ {0}]
<1>0. UNCHANGED <<client, ids>> => Goal
  BY DEF WSTyped, Moves, Places
<1>1. ASSUME WSNext PROVE Goal
  <2>1. ASSUME NEW peer \in Peers, Connect(peer) PROVE Goal
    <3>1. client.sckt + 1 \in Nat
      BY DEF WSTyped
    <3>2. client' = [Idle(client.sckt + 1) EXCEPT !.at = "hello", !.peer = peer]
      BY <2>1 DEF Connect
    <3>3. Restarts
      <4>. DEFINE c == Idle(client.sckt + 1)
      <4>1. /\ c \in Clients /\ c.sent = <<>> /\ c.got = 0 /\ c.unmasked = 0 /\ c.usr = 0
        BY <3>1, IdleClients
      <4>2. client' = [c EXCEPT !.at = "hello", !.peer = peer]
        BY <3>2
      <4>. HIDE DEF c
      <4>. QED  BY <4>1, <4>2 DEF Clients, Restarts, Places
    <3>. QED  BY <2>1, <3>3 DEF Connect, WSTyped
  <2>2. ASSUME NEW h \in Hellos, HelloRead(h) PROVE Goal
    BY <2>2, Closes DEF WSTyped, HelloRead, Moves, Places
  <2>3. ASSUME NEW ok \in BOOLEAN, HelloAnswered(ok) PROVE Goal
    BY <2>3, Closes DEF WSTyped, HelloAnswered, Moves, Places
  <2>4. ASSUME NEW f \in Frames, Send(f) PROVE Goal
    BY <2>4 DEF WSTyped, Send, Sends
  <2>5. ASSUME NEW pad \in Paddings, ReadFails(pad) PROVE Goal
    BY <2>5, Closes DEF WSTyped, ReadFails
  <2>6. ASSUME NEW n \in Readable, NEW f \in HeaderHere, NEW pad \in Paddings,
               ReadRefused(f, n, pad)
        PROVE  Goal
    BY <2>6, Closes DEF WSTyped, ReadRefused
  <2>7. ASSUME NEW n \in Readable, NEW f \in HeaderHere, ReadActed(f, n) PROVE Goal
    BY <2>7, HandlerSteps
  <2>8. ASSUME NEW pad \in Paddings, WriteFails(pad) PROVE Goal
    BY <2>8, Closes DEF WSTyped, WriteFails
  <2>9. ASSUME NEW n \in Parts, WriteShort(n) PROVE Goal
    BY <2>9, Closes DEF WSTyped, WriteShort
  <2>10. ASSUME WriteWhole PROVE Goal
    BY <2>10 DEF WSTyped, WriteWhole, Moves, Places
  <2>. HIDE DEF Goal
  <2>. QED
    BY <1>1, <2>1, <2>2, <2>3, <2>4, <2>5, <2>6, <2>7, <2>8, <2>9, <2>10 DEF WSNext
<1>2. ASSUME Serve PROVE Goal
  <2>1. \A e : LogOther(e) => Goal
    BY <1>0 DEF LogOther
  <2>. HIDE DEF Goal
  <2>. QED  BY <1>1, <1>2, <2>1 DEF Serve
<1>3. ASSUME NEW end \in Ends, StopServer(end) PROVE Goal
  <2>1. client' = Idle(0) /\ UNCHANGED ids
    BY <1>3, Zenon DEF StopServer
  <2>. QED  BY <2>1, IdleClients DEF WSTyped, Restarts
<1>4. Convert => Goal
  BY <1>0 DEF Convert, wsVars
<1>5. UNCHANGED vars => Goal
  BY <1>0 DEF vars, wsVars
<1>. HIDE DEF Goal
<1>6. Goal
  BY <1>2, <1>3, <1>4, <1>5 DEF Next
<1>. QED  BY <1>6 DEF Goal

\* The sizes of a frame are numbers.
LEMMA SizeNat ==
    ASSUME NEW f \in Frames
    PROVE  Size(f) \in Nat /\ HeaderSize(f) \in Nat /\ f.len \in Nat
<1>1. f.len \in Nat
  BY ClientAssumption
<1>2. HeaderSize(f) \in Nat
  BY <1>1, SMT DEF HeaderSize
<1>. QED  BY <1>1, <1>2 DEF Size

\* The frames sent end somewhere.
LEMMA EndNat ==
    ASSUME WSTyped
    PROVE  End \in Nat
<1>1. CASE client.sent = <<>>
  BY <1>1 DEF End
<1>2. CASE client.sent # <<>>
  <2>1. /\ client.sent \in Seq(Sent)
        /\ Len(client.sent) \in 1 .. Len(client.sent)
    BY <1>2 DEF WSTyped
  <2>2. client.sent[Len(client.sent)] \in Sent
    BY <2>1
  <2>. QED  BY <1>2, <2>2, SizeNat DEF End, Last, Sent
<1>. QED  BY <1>1, <1>2

\* Every step keeps the types.
LEMMA TypedSteps ==
    ASSUME WSTyped, [Next]_vars
    PROVE  WSTyped'
<1>1. CASE Restarts
  BY <1>1, ClientSteps DEF Restarts, WSTyped, Clients
<1>2. CASE Moves
  BY <1>2, ClientSteps DEF Moves, WSTyped
<1>3. CASE Sends
  <2>1. PICK f \in Frames :
            client' = [client EXCEPT !.sent = Append(@, [frame |-> f, from |-> End])]
    BY <1>3 DEF Sends
  <2>2. [frame |-> f, from |-> End] \in Sent
    BY EndNat DEF Sent
  <2>3. Append(client.sent, [frame |-> f, from |-> End]) \in Seq(Sent)
    BY <2>2 DEF WSTyped
  <2>. HIDE DEF Sent
  <2>. QED  BY <2>1, <2>3, ClientSteps DEF WSTyped
<1>4. CASE Replies
  <2>1. PICK n \in Readable, f \in HeaderHere, bytes \in Nat, usr \in Nat :
            /\ Accepts(f, n)
            /\ client' = [client EXCEPT !.at = "write", !.got = @ + n, !.acted = @ + 1,
                                !.wrt = bytes, !.usr = usr, !.unmasked = UnmaskEnd(f)]
    BY <1>4 DEF Replies
  <2>2. f \in Frames
    BY HereSent
  <2>3. n \in Nat
    BY <2>1, <2>2, Sizes
  <2>4. UnmaskEnd(f) \in Nat
    BY <2>1, <2>2, MaskEnds
  <2>5. client.got + n \in Nat /\ client.acted + 1 \in Nat /\ "write" \in Places
    BY <2>3 DEF WSTyped, Places
  <2>. HIDE DEF Sent
  <2>. QED  BY <2>1, <2>4, <2>5, ClientSteps DEF WSTyped
<1>. QED  BY <1>1, <1>2, <1>3, <1>4, ClientSteps

\* The types hold at the start.
LEMMA InitTyped ==
    ASSUME Init
    PROVE  WSTyped
<1>1. client = Idle(0) /\ ids = [super |-> 1, usr |-> FirstUsr]
  BY DEF Init, WSInit
<1>. QED  BY <1>1, IdleClients, ClientAssumption DEF WSTyped, Clients

\* The connection and the ids are what the code computes with.
THEOREM Typing == Spec => []WSTyped
<1>1. Init => WSTyped
  BY InitTyped
<1>2. WSTyped /\ [Next]_vars => WSTyped'
  BY TypedSteps
<1>. QED  BY <1>1, <1>2, PTL DEF Spec

\* Unmasking a payload stays in the buffer, whatever a frame says of its
\* length (KClient.cpp:344-372): what is larger is refused before.
THEOREM Unmasking == Spec => []UnmaskInBuffer
<1>1. Init => UnmaskInBuffer
  <2>1. ASSUME Init PROVE client.unmasked = 0
    <3>1. client = Idle(0)
      BY <2>1 DEF Init, WSInit
    <3>. QED  BY <3>1, IdleClients
  <2>. QED  BY <2>1, SMT DEF UnmaskInBuffer, BYTES_PRIVATE_BUF
<1>2. WSTyped /\ UnmaskInBuffer /\ [Next]_vars => UnmaskInBuffer'
  <2>. SUFFICES ASSUME WSTyped, UnmaskInBuffer, [Next]_vars PROVE UnmaskInBuffer'
    OBVIOUS
  <2>1. CASE Restarts
    BY <2>1, SMT DEF Restarts, UnmaskInBuffer, BYTES_PRIVATE_BUF
  <2>2. CASE Moves \/ Sends
    <3>1. client'.unmasked = client.unmasked
      BY <2>2 DEF Moves, Sends, WSTyped
    <3>. QED  BY <3>1 DEF UnmaskInBuffer
  <2>3. CASE Replies
    <3>1. PICK n \in Readable, f \in HeaderHere :
              Accepts(f, n) /\ client'.unmasked = UnmaskEnd(f)
      BY <2>3 DEF Replies, WSTyped
    <3>2. f \in Frames
      BY HereSent
    <3>3. UnmaskEnd(f) \in 0..BYTES_PRIVATE_BUF
      BY <3>1, <3>2, MaskEnds
    <3>. QED  BY <3>1, <3>3, SMT DEF UnmaskInBuffer, BYTES_PRIVATE_BUF
  <2>. QED  BY <2>1, <2>2, <2>3, ClientSteps
<1>. QED  BY <1>1, <1>2, Typing, PTL DEF Spec

-----------------------------------------------------------------------------
(* Whole frames *)

\* The frames follow each other without a gap.
Adjacent ==
    \A k \in 1 .. Len(client.sent) :
        client.sent[k].from =
            IF k = 1 THEN 0
            ELSE client.sent[k - 1].from + Size(client.sent[k - 1].frame)

AllPlain == \A k \in 1 .. Len(client.sent) : Plain(client.sent[k].frame)

\* As long as only plain frames are sent, the next read starts with a frame.
AtFrame ==
    AllPlain => \/ client.got = End
                \/ \E k \in 1 .. Len(client.sent) : client.got = client.sent[k].from

\* A plain frame that is acted on was read as a whole.
LEMMA WholeFrame ==
    ASSUME WSTyped, Adjacent, AtFrame, AllPlain,
           NEW n \in Readable, NEW f \in HeaderHere, Accepts(f, n)
    PROVE  /\ Here \in 1 .. Len(client.sent) /\ f = client.sent[Here].frame
           /\ Whole(n) /\ f.len >= 2
           /\ client.got + n = client.sent[Here].from + Size(client.sent[Here].frame)
<1>0. f \in Frames
  BY HereSent
<1>1. n \in Nat /\ n > 0 /\ client.got + n <= End
  <2>1. n \in Nat
    BY <1>0, Sizes
  <2>2. n > 0 /\ client.got + n <= End
    BY Zenon DEF Readable
  <2>. QED  BY <2>1, <2>2
<1>2. client.got # End
  BY <1>1, EndNat DEF WSTyped
<1>3. \E k \in 1 .. Len(client.sent) : client.got = client.sent[k].from
  BY <1>2 DEF AtFrame
<1>4. Here \in 1 .. Len(client.sent) /\ client.sent[Here].from = client.got
  <2>. DEFINE k == {i \in DOMAIN client.sent : client.sent[i].from = client.got}
  <2>1. DOMAIN client.sent = 1 .. Len(client.sent)
    BY DEF WSTyped
  <2>2. k # {}
    BY <1>3, <2>1
  <2>3. Here = CHOOSE i \in k : TRUE
    BY <2>2 DEF Here
  <2>4. Here \in k
    BY <2>2, <2>3, Zenon
  <2>. QED  BY <2>1, <2>4
<1>5. Here # 0
  BY <1>4 DEF WSTyped
<1>6. f = client.sent[Here].frame
  BY <1>5 DEF HeaderHere
<1>7. Plain(f)
  BY <1>4, <1>6 DEF AllPlain
<1>8. n = Size(f)
  BY <1>0, <1>7, Sizes, SizeNat DEF Plain, Size
<1>. QED  BY <1>4, <1>5, <1>6, <1>7, <1>8 DEF Whole, Plain

\* The end of a frame is the start of the next one, or the end of all.
LEMMA NextFrame ==
    ASSUME WSTyped, Adjacent, NEW k \in 1 .. Len(client.sent)
    PROVE  LET e == client.sent[k].from + Size(client.sent[k].frame)
           IN e = End \/ (k + 1 \in 1 .. Len(client.sent) /\ e = client.sent[k + 1].from)
<1>0. Len(client.sent) \in Nat /\ client.sent # <<>>
  BY DEF WSTyped
<1>1. CASE k = Len(client.sent)
  <2>1. End = client.sent[k].from + Size(client.sent[k].frame)
    BY <1>0, <1>1 DEF End, Last
  <2>. QED  BY <2>1
<1>2. CASE k # Len(client.sent)
  <2>1. k + 1 \in 1 .. Len(client.sent) /\ k + 1 # 1 /\ (k + 1) - 1 = k
    BY <1>0, <1>2
  <2>. QED  BY <2>1 DEF Adjacent
<1>. QED  BY <1>1, <1>2

\* Only a read that is acted on adds to strayed, and only if it is not one frame.
LEMMA StraySteps ==
    ASSUME [Next]_vars
    PROVE  \/ strayed' \in {strayed, {}}
           \/ \E n \in Readable, f \in HeaderHere :
                 /\ Accepts(f, n)
                 /\ strayed' = IF Whole(n) /\ f.len >= 2 THEN strayed
                               ELSE strayed \cup
                                      {{client.sent[k].frame : k \in DOMAIN client.sent}}
<1>. DEFINE Same == strayed' \in {strayed, {}}
<1>1. ASSUME WSNext PROVE Same \/ \E n \in Readable, f \in HeaderHere : ReadActed(f, n)
  <2>1. (\E peer \in Peers : Connect(peer)) => Same
    BY DEF Connect
  <2>2. (\E h \in Hellos : HelloRead(h)) => Same
    BY DEF HelloRead
  <2>3. (\E ok \in BOOLEAN : HelloAnswered(ok)) => Same
    BY DEF HelloAnswered
  <2>4. (\E f \in Frames : Send(f)) => Same
    BY DEF Send
  <2>5. (\E pad \in Paddings : ReadFails(pad)) => Same
    BY DEF ReadFails
  <2>6. (\E n \in Readable, f \in HeaderHere, pad \in Paddings :
            ReadRefused(f, n, pad)) => Same
    BY DEF ReadRefused
  <2>7. (\E pad \in Paddings : WriteFails(pad)) => Same
    BY DEF WriteFails
  <2>8. (\E n \in Parts : WriteShort(n)) => Same
    BY DEF WriteShort
  <2>9. WriteWhole => Same
    BY DEF WriteWhole
  <2>. HIDE DEF Same
  <2>. QED
    BY <1>1, <2>1, <2>2, <2>3, <2>4, <2>5, <2>6, <2>7, <2>8, <2>9, Zenon DEF WSNext
<1>2. ASSUME Serve PROVE Same \/ \E n \in Readable, f \in HeaderHere : ReadActed(f, n)
  <2>1. \A e : LogOther(e) => Same
    BY DEF LogOther
  <2>. HIDE DEF Same
  <2>. QED  BY <1>1, <1>2, <2>1 DEF Serve
<1>3. (\E end \in Ends : StopServer(end)) => Same
  BY DEF StopServer
<1>4. Convert \/ UNCHANGED vars => Same
  BY DEF Convert, vars, wsVars
<1>5. Same \/ \E n \in Readable, f \in HeaderHere : ReadActed(f, n)
  <2>. HIDE DEF Same
  <2>. QED  BY <1>2, <1>3, <1>4 DEF Next
<1>. QED  BY <1>5 DEF ReadActed, Accepts

\* Frames are sent behind each other.
LEMMA AdjacentSteps ==
    ASSUME WSTyped, Adjacent, [Next]_vars
    PROVE  Adjacent'
<1>1. CASE Restarts
  <2>1. Len(client'.sent) = 0
    BY <1>1 DEF Restarts
  <2>. QED  BY <2>1 DEF Adjacent
<1>2. CASE Moves \/ Replies
  <2>1. client'.sent = client.sent
    BY <1>2 DEF Moves, Replies, WSTyped
  <2>. QED  BY <2>1 DEF Adjacent
<1>3. CASE Sends
  <2>1. PICK f \in Frames :
            client'.sent = Append(client.sent, [frame |-> f, from |-> End])
    BY <1>3 DEF Sends, WSTyped
  <2>. DEFINE s == client.sent
              t == client'.sent
              L == Len(client.sent)
  <2>2. /\ L \in Nat /\ Len(t) = L + 1
        /\ \A k \in 1 .. L : t[k] = s[k]
        /\ t[L + 1] = [frame |-> f, from |-> End]
    BY <2>1 DEF WSTyped
  <2>3. ASSUME NEW k \in 1 .. L + 1
        PROVE  t[k].from = IF k = 1 THEN 0 ELSE t[k - 1].from + Size(t[k - 1].frame)
    <3>1. CASE k = L + 1 /\ L = 0
      <4>1. s = <<>>
        BY <3>1 DEF WSTyped
      <4>. QED  BY <2>2, <3>1, <4>1 DEF End
    <3>2. CASE k = L + 1 /\ L # 0
      <4>1. s # <<>> /\ k # 1 /\ k - 1 = L /\ L \in 1 .. L
        BY <2>2, <3>2 DEF WSTyped
      <4>2. t[k].from = s[L].from + Size(s[L].frame)
        BY <2>2, <3>2, <4>1 DEF End, Last
      <4>. QED  BY <2>2, <4>1, <4>2
    <3>3. CASE k # L + 1
      <4>1. k \in 1 .. L /\ (k # 1 => k - 1 \in 1 .. L)
        BY <2>2, <3>3
      <4>2. s[k].from = IF k = 1 THEN 0 ELSE s[k - 1].from + Size(s[k - 1].frame)
        BY <4>1 DEF Adjacent
      <4>. QED  BY <2>2, <4>1, <4>2
    <3>. QED  BY <3>1, <3>2, <3>3
  <2>4. Len(client'.sent) = L + 1
    BY <2>2
  <2>. HIDE DEF L
  <2>. QED  BY <2>3, <2>4 DEF Adjacent
<1>. QED  BY <1>1, <1>2, <1>3, ClientSteps

\* A read that is acted on takes plain frames as a whole.
LEMMA AtFrameSteps ==
    ASSUME WSTyped, Adjacent, AtFrame, [Next]_vars
    PROVE  AtFrame'
<1>. DEFINE s == client.sent
            L == Len(client.sent)
<1>0. L \in Nat
  BY DEF WSTyped
<1>1. CASE Restarts
  <2>1. client'.sent = <<>> /\ client'.got = 0
    BY <1>1 DEF Restarts
  <2>. QED  BY <2>1 DEF AtFrame, End
<1>2. CASE Moves
  <2>1. client'.sent = client.sent /\ client'.got = client.got
    BY <1>2 DEF Moves, WSTyped
  <2>. QED  BY <2>1 DEF AtFrame, AllPlain, End
<1>3. CASE Sends
  <2>1. PICK f \in Frames :
            /\ client'.sent = Append(client.sent, [frame |-> f, from |-> End])
            /\ client'.got = client.got
    BY <1>3 DEF Sends, WSTyped
  <2>. DEFINE t == client'.sent
  <2>2. /\ Len(t) = L + 1
        /\ \A k \in 1 .. L : t[k] = s[k]
        /\ t[L + 1] = [frame |-> f, from |-> End]
    BY <2>1 DEF WSTyped
  <2>3. AllPlain' => AllPlain
    BY <1>0, <2>2 DEF AllPlain
  <2>4. ASSUME AllPlain PROVE \E k \in 1 .. L + 1 : client.got = t[k].from
    <3>1. CASE client.got = End
      <4>1. L + 1 \in 1 .. L + 1 /\ t[L + 1].from = End
        BY <1>0, <2>2
      <4>. QED  BY <3>1, <4>1
    <3>2. CASE client.got # End
      <4>1. PICK k \in 1 .. L : client.got = s[k].from
        BY <2>4, <3>2 DEF AtFrame
      <4>2. k \in 1 .. L + 1 /\ t[k].from = s[k].from
        BY <1>0, <2>2, <4>1
      <4>. QED  BY <4>1, <4>2
    <3>. QED  BY <3>1, <3>2
  <2>. QED  BY <2>1, <2>2, <2>3, <2>4 DEF AtFrame
<1>4. CASE Replies
  <2>1. PICK n \in Readable, f \in HeaderHere :
            /\ Accepts(f, n)
            /\ client'.sent = client.sent /\ client'.got = client.got + n
    BY <1>4 DEF Replies, WSTyped
  <2>2. AllPlain' = AllPlain /\ End' = End
    BY <2>1 DEF AllPlain, End
  <2>3. ASSUME AllPlain
        PROVE  client'.got = End \/ \E k \in 1 .. L : client'.got = s[k].from
    <3>1. /\ Here \in 1 .. L
          /\ client'.got = s[Here].from + Size(s[Here].frame)
      BY <2>1, <2>3, WholeFrame
    <3>. QED  BY <3>1, NextFrame
  <2>. QED  BY <2>1, <2>2, <2>3 DEF AtFrame
<1>. QED  BY <1>1, <1>2, <1>3, <1>4, ClientSteps

\* While a browser sends only frames whose length the server reads as it was
\* sent, and that hold a command, the server acts on whole frames and nothing
\* else, however many are sent and however the reads cut them
\* (KClient.cpp:298-341): as the frames are adjacent and a read that is not one
\* frame ends the connection, the next read starts where a frame does.
THEOREM WholeFramesOnly == Spec => []ActsOnWhatWasSent
<1>. DEFINE Inv == Adjacent /\ AtFrame /\ ActsOnWhatWasSent
<1>1. ASSUME Init PROVE Inv
  <2>1. client = Idle(0) /\ strayed = {}
    BY <1>1 DEF Init, WSInit
  <2>2. client.sent = <<>> /\ client.got = 0
    BY <2>1, IdleClients
  <2>. QED  BY <2>1, <2>2 DEF Adjacent, AtFrame, End, ActsOnWhatWasSent
<1>2. ASSUME WSTyped, Inv, [Next]_vars PROVE Inv'
  <2>1. Adjacent' /\ AtFrame'
    BY <1>2, AdjacentSteps, AtFrameSteps
  <2>2. CASE strayed' \in {strayed, {}}
    BY <1>2, <2>1, <2>2 DEF ActsOnWhatWasSent
  <2>3. ASSUME NEW n \in Readable, NEW f \in HeaderHere, Accepts(f, n),
               strayed' = IF Whole(n) /\ f.len >= 2 THEN strayed
                          ELSE strayed \cup
                                 {{client.sent[k].frame : k \in DOMAIN client.sent}}
        PROVE  Inv'
    <3>. DEFINE S == {client.sent[k].frame : k \in DOMAIN client.sent}
    <3>1. CASE AllPlain
      <4>1. Whole(n) /\ f.len >= 2
        BY <1>2, <2>3, <3>1, WholeFrame
      <4>2. strayed' = strayed
        BY <2>3, <4>1
      <4>. QED  BY <1>2, <2>1, <4>2 DEF ActsOnWhatWasSent
    <3>2. CASE ~AllPlain
      <4>1. \E g \in S : ~Plain(g)
        BY <1>2, <3>2 DEF AllPlain, WSTyped
      <4>2. strayed' \subseteq strayed \cup {S}
        BY <2>3
      <4>. QED  BY <1>2, <2>1, <4>1, <4>2 DEF ActsOnWhatWasSent
    <3>. QED  BY <3>1, <3>2
  <2>. QED  BY <1>2, <2>2, <2>3, StraySteps
<1>3. Inv => ActsOnWhatWasSent
  OBVIOUS
<1>. QED  BY <1>1, <1>2, <1>3, Typing, PTL DEF Spec

-----------------------------------------------------------------------------
(* Users in a log: what UsersNest says of said, of any sequence of entries *)

IsLog(s) == \E S : s \in Seq(S)

Creates(e) == e.id \in {"Crt_Usr_v4", "Crt_Usr_v6"}
Leaves(e) == e.id = "Close_Usr"
UserOf(e) == e.args[1][2]

CreatedIn(s, i) == {j \in 1..i : Creates(s[j])}
LeftIn(s, i)    == {j \in 1..i : Leaves(s[j])}
Had(s, S, u)    == {j \in S : UserOf(s[j]) = u}

\* A user leaves after it was created, and once.
Nests(s) ==
    \A j \in LeftIn(s, Len(s)) :
        Cardinality(Had(s, LeftIn(s, j), UserOf(s[j])))
            <= Cardinality(Had(s, CreatedIn(s, j), UserOf(s[j])))

\* All users but usr have left as often as they were created.
Settled(s, usr) ==
    /\ \A u \in Nat :
          Cardinality(Had(s, CreatedIn(s, Len(s)), u))
              = Cardinality(Had(s, LeftIn(s, Len(s)), u))
                    + (IF u = usr /\ u # 0 THEN 1 ELSE 0)
    /\ Cardinality(CreatedIn(s, Len(s)))
          = Cardinality(LeftIn(s, Len(s))) + (IF usr = 0 THEN 0 ELSE 1)

\* The ids given to users are those that were counted, and each was given
\* once while the super users' are below the others.
Distinct(s, super, usr) ==
    /\ \A j \in CreatedIn(s, Len(s)) :
          \/ UserOf(s[j]) \in 1 .. super - 1
          \/ UserOf(s[j]) \in FirstUsr .. usr - 1
    /\ super <= FirstUsr =>
          \A j, k \in CreatedIn(s, Len(s)) : UserOf(s[j]) = UserOf(s[k]) => j = k

\* The sets of a log grow with it, at its end only.
LEMMA Grows ==
    ASSUME NEW s, IsLog(s), NEW e
    PROVE  /\ IsLog(Append(s, e)) /\ Len(s) \in Nat
           /\ Len(Append(s, e)) = Len(s) + 1 /\ Append(s, e)[Len(s) + 1] = e
           /\ \A i \in 1 .. Len(s) : Append(s, e)[i] = s[i]
           /\ \A i \in 0 .. Len(s) : /\ CreatedIn(Append(s, e), i) = CreatedIn(s, i)
                                     /\ LeftIn(Append(s, e), i) = LeftIn(s, i)
           /\ CreatedIn(Append(s, e), Len(s) + 1) =
                 CreatedIn(s, Len(s)) \cup (IF Creates(e) THEN {Len(s) + 1} ELSE {})
           /\ LeftIn(Append(s, e), Len(s) + 1) =
                 LeftIn(s, Len(s)) \cup (IF Leaves(e) THEN {Len(s) + 1} ELSE {})
<1>. DEFINE t == Append(s, e)
            L == Len(s)
<1>1. PICK S : s \in Seq(S)
  BY DEF IsLog
<1>2. s \in Seq(S \cup {e})
  BY <1>1, SeqMonotonic
<1>3. /\ t \in Seq(S \cup {e}) /\ L \in Nat /\ Len(t) = L + 1 /\ t[L + 1] = e
      /\ \A i \in 1 .. L : t[i] = s[i]
  BY <1>2
<1>4. IsLog(t)
  BY <1>3 DEF IsLog
<1>. HIDE DEF t, L
<1>5. ASSUME NEW i \in 0 .. L
      PROVE  CreatedIn(t, i) = CreatedIn(s, i) /\ LeftIn(t, i) = LeftIn(s, i)
  <2>1. \A j \in 1 .. i : t[j] = s[j]
    BY <1>3
  <2>. QED  BY <2>1, Zenon DEF CreatedIn, LeftIn
<1>6. 1 .. L + 1 = (1 .. L) \cup {L + 1}
  BY <1>3
<1>7. /\ CreatedIn(t, L + 1) = CreatedIn(s, L) \cup (IF Creates(e) THEN {L + 1} ELSE {})
      /\ LeftIn(t, L + 1) = LeftIn(s, L) \cup (IF Leaves(e) THEN {L + 1} ELSE {})
  BY <1>3, <1>6 DEF CreatedIn, LeftIn
<1>. QED  BY <1>3, <1>4, <1>5, <1>7 DEF t, L

\* The sets of a log are finite.
LEMMA LogFinite ==
    ASSUME NEW s, NEW i \in Nat, NEW u
    PROVE  /\ CreatedIn(s, i) \subseteq 1 .. i /\ LeftIn(s, i) \subseteq 1 .. i
           /\ IsFiniteSet(CreatedIn(s, i)) /\ IsFiniteSet(LeftIn(s, i))
           /\ Cardinality(CreatedIn(s, i)) \in Nat /\ Cardinality(LeftIn(s, i)) \in Nat
           /\ IsFiniteSet(Had(s, CreatedIn(s, i), u))
           /\ IsFiniteSet(Had(s, LeftIn(s, i), u))
           /\ Cardinality(Had(s, CreatedIn(s, i), u)) \in Nat
           /\ Cardinality(Had(s, LeftIn(s, i), u)) \in Nat
<1>1. IsFiniteSet(1 .. i)
  BY FS_Interval
<1>2. /\ CreatedIn(s, i) \subseteq 1 .. i /\ LeftIn(s, i) \subseteq 1 .. i
      /\ Had(s, CreatedIn(s, i), u) \subseteq 1 .. i
      /\ Had(s, LeftIn(s, i), u) \subseteq 1 .. i
  BY DEF CreatedIn, LeftIn, Had
<1>3. /\ IsFiniteSet(CreatedIn(s, i)) /\ IsFiniteSet(LeftIn(s, i))
      /\ IsFiniteSet(Had(s, CreatedIn(s, i), u))
      /\ IsFiniteSet(Had(s, LeftIn(s, i), u))
  BY <1>1, <1>2, FS_Subset
<1>. QED  BY <1>2, <1>3, FS_CardinalityType

\* A set grows by one element, or by none.
LEMMA Counts ==
    ASSUME NEW S, IsFiniteSet(S), NEW x, x \notin S
    PROVE  /\ Cardinality(S \cup {x}) = Cardinality(S) + 1
           /\ S \cup {} = S
  BY FS_AddElement

\* A record that is not about a user.
LEMMA Remarked ==
    ASSUME NEW s, IsLog(s), NEW e, ~Creates(e), ~Leaves(e)
    PROVE  LET t == Append(s, e)
           IN /\ Nests(s) => Nests(t)
              /\ \A usr : Settled(s, usr) => Settled(t, usr)
              /\ \A super, usr : Distinct(s, super, usr) => Distinct(t, super, usr)
<1>. DEFINE t == Append(s, e)
            L == Len(s)
            C == CreatedIn(s, L)
            D == LeftIn(s, L)
<1>1. /\ L \in Nat /\ Len(t) = L + 1
      /\ \A i \in 1 .. L : t[i] = s[i]
      /\ \A i \in 0 .. L : CreatedIn(t, i) = CreatedIn(s, i) /\ LeftIn(t, i) = LeftIn(s, i)
      /\ CreatedIn(t, L + 1) = C /\ LeftIn(t, L + 1) = D
  <2>1. /\ L \in Nat /\ Len(t) = L + 1
        /\ \A i \in 1 .. L : t[i] = s[i]
        /\ \A i \in 0 .. L : CreatedIn(t, i) = CreatedIn(s, i) /\ LeftIn(t, i) = LeftIn(s, i)
        /\ CreatedIn(t, L + 1) = C \cup (IF Creates(e) THEN {L + 1} ELSE {})
        /\ LeftIn(t, L + 1) = D \cup (IF Leaves(e) THEN {L + 1} ELSE {})
    BY Grows
  <2>. HIDE DEF t, L, C, D
  <2>. QED  BY <2>1
<1>2. /\ C \subseteq 1 .. L /\ D \subseteq 1 .. L
      /\ \A i \in 1 .. L : CreatedIn(s, i) \subseteq 1 .. L /\ LeftIn(s, i) \subseteq 1 .. L
  <2>1. L \in Nat
    BY <1>1
  <2>2. \A i \in Nat : CreatedIn(s, i) \subseteq 1 .. i /\ LeftIn(s, i) \subseteq 1 .. i
    BY LogFinite
  <2>. HIDE DEF L
  <2>. QED  BY <2>1, <2>2 DEF C, D
<1>. HIDE DEF t, L
<1>3. ASSUME NEW S \in SUBSET (1 .. L), NEW u PROVE Had(t, S, u) = Had(s, S, u)
  <2>1. \A i \in S : t[i] = s[i]
    BY <1>1
  <2>. QED  BY <2>1, Zenon DEF Had
<1>4. Nests(s) => Nests(t)
  <2>. SUFFICES ASSUME Nests(s), NEW j \in D
                PROVE  Cardinality(Had(t, LeftIn(t, j), UserOf(t[j])))
                          <= Cardinality(Had(t, CreatedIn(t, j), UserOf(t[j])))
    BY <1>1 DEF Nests
  <2>1. j \in 1 .. L /\ t[j] = s[j]
    BY <1>1, <1>2
  <2>2. j \in 0 .. L
    BY <1>1, <2>1
  <2>3. /\ Had(t, LeftIn(t, j), UserOf(t[j])) = Had(s, LeftIn(s, j), UserOf(s[j]))
        /\ Had(t, CreatedIn(t, j), UserOf(t[j])) = Had(s, CreatedIn(s, j), UserOf(s[j]))
    BY <1>1, <1>2, <1>3, <2>1, <2>2, Zenon
  <2>. QED  BY <2>3 DEF Nests, L
<1>5. ASSUME NEW usr, Settled(s, usr) PROVE Settled(t, usr)
  BY <1>1, <1>2, <1>3, <1>5 DEF Settled, L
<1>6. ASSUME NEW super, NEW usr, Distinct(s, super, usr) PROVE Distinct(t, super, usr)
  <2>1. \A j \in C : t[j] = s[j]
    BY <1>1, <1>2
  <2>. HIDE DEF C
  <2>. QED  BY <1>1, <1>6, <2>1 DEF Distinct, C, L
<1>. QED  BY <1>4, <1>5, <1>6 DEF t

\* A record of a new user, which gets an id that is not given yet.
LEMMA Entered ==
    ASSUME NEW s, IsLog(s), NEW e, Creates(e), UserOf(e) \in Nat \ {0}
    PROVE  /\ Nests(s) => Nests(Append(s, e))
           /\ Settled(s, 0) => Settled(Append(s, e), UserOf(e))
<1>. DEFINE t == Append(s, e)
            L == Len(s)
            C == CreatedIn(s, L)
            D == LeftIn(s, L)
            new == UserOf(e)
<1>0. ~Leaves(e)
  BY DEF Creates, Leaves
<1>1. /\ L \in Nat /\ Len(t) = L + 1 /\ t[L + 1] = e
      /\ \A i \in 1 .. L : t[i] = s[i]
      /\ \A i \in 0 .. L : CreatedIn(t, i) = CreatedIn(s, i) /\ LeftIn(t, i) = LeftIn(s, i)
      /\ CreatedIn(t, L + 1) = C \cup {L + 1} /\ LeftIn(t, L + 1) = D
  <2>1. /\ L \in Nat /\ Len(t) = L + 1 /\ t[L + 1] = e
        /\ \A i \in 1 .. L : t[i] = s[i]
        /\ \A i \in 0 .. L : CreatedIn(t, i) = CreatedIn(s, i) /\ LeftIn(t, i) = LeftIn(s, i)
        /\ CreatedIn(t, L + 1) = C \cup (IF Creates(e) THEN {L + 1} ELSE {})
        /\ LeftIn(t, L + 1) = D \cup (IF Leaves(e) THEN {L + 1} ELSE {})
    BY Grows
  <2>. HIDE DEF t, L, C, D
  <2>. QED  BY <1>0, <2>1
<1>2. /\ C \subseteq 1 .. L /\ D \subseteq 1 .. L
      /\ \A i \in 1 .. L : CreatedIn(s, i) \subseteq 1 .. L /\ LeftIn(s, i) \subseteq 1 .. L
  <2>1. L \in Nat
    BY <1>1
  <2>2. \A i \in Nat : CreatedIn(s, i) \subseteq 1 .. i /\ LeftIn(s, i) \subseteq 1 .. i
    BY LogFinite
  <2>. HIDE DEF L
  <2>. QED  BY <2>1, <2>2 DEF C, D
<1>3. ASSUME NEW S \in SUBSET (1 .. L), NEW u
      PROVE  /\ Had(t, S, u) = Had(s, S, u)
             /\ u = new => Had(t, S \cup {L + 1}, u) = Had(s, S, u) \cup {L + 1}
             /\ u # new => Had(t, S \cup {L + 1}, u) = Had(s, S, u)
  <2>. HIDE DEF t, L
  <2>1. \A i \in S : t[i] = s[i]
    BY <1>1
  <2>2. Had(t, S, u) = Had(s, S, u)
    BY <2>1, Zenon DEF Had
  <2>3. UserOf(t[L + 1]) = new
    BY <1>1
  <2>. HIDE DEF new
  <2>4. /\ UserOf(t[L + 1]) = u => Had(t, S \cup {L + 1}, u) = Had(t, S, u) \cup {L + 1}
        /\ UserOf(t[L + 1]) # u => Had(t, S \cup {L + 1}, u) = Had(t, S, u)
    BY SMT DEF Had
  <2>. QED  BY <2>2, <2>3, <2>4
<1>4. /\ L + 1 \notin C /\ Cardinality(C \cup {L + 1}) = Cardinality(C) + 1
      /\ Cardinality(C) \in Nat /\ Cardinality(D) \in Nat
  <2>1. IsFiniteSet(C) /\ Cardinality(C) \in Nat /\ Cardinality(D) \in Nat
    BY <1>1, LogFinite
  <2>2. L + 1 \notin C
    BY <1>1, <1>2
  <2>. HIDE DEF C, D, L
  <2>. QED  BY <2>1, <2>2, Counts
<1>5. \A u : /\ Cardinality(Had(s, C, u)) \in Nat /\ Cardinality(Had(s, D, u)) \in Nat
             /\ Cardinality(Had(s, C, u) \cup {L + 1}) = Cardinality(Had(s, C, u)) + 1
  <2>. SUFFICES ASSUME NEW u
                PROVE  /\ Cardinality(Had(s, C, u)) \in Nat /\ Cardinality(Had(s, D, u)) \in Nat
                       /\ Cardinality(Had(s, C, u) \cup {L + 1}) = Cardinality(Had(s, C, u)) + 1
    OBVIOUS
  <2>1. /\ IsFiniteSet(Had(s, C, u))
        /\ Cardinality(Had(s, C, u)) \in Nat /\ Cardinality(Had(s, D, u)) \in Nat
    BY <1>1, LogFinite
  <2>2. L + 1 \notin Had(s, C, u)
    BY <1>4 DEF Had
  <2>. HIDE DEF C, D, L
  <2>. QED  BY <2>1, <2>2, Counts
<1>. HIDE DEF t, L, new
<1>6. ASSUME Nests(s) PROVE Nests(t)
  <2>. SUFFICES ASSUME NEW j \in D
                PROVE  Cardinality(Had(t, LeftIn(t, j), UserOf(t[j])))
                          <= Cardinality(Had(t, CreatedIn(t, j), UserOf(t[j])))
    BY <1>1 DEF Nests
  <2>1. j \in 1 .. L /\ t[j] = s[j]
    BY <1>1, <1>2
  <2>2. j \in 0 .. L
    BY <1>1, <2>1
  <2>3. /\ LeftIn(t, j) = LeftIn(s, j) /\ CreatedIn(t, j) = CreatedIn(s, j)
        /\ UserOf(t[j]) = UserOf(s[j])
    BY <1>1, <2>1, <2>2
  <2>4. LeftIn(s, j) \in SUBSET (1 .. L) /\ CreatedIn(s, j) \in SUBSET (1 .. L)
    BY <1>2, <2>1
  <2>5. /\ Had(t, LeftIn(t, j), UserOf(t[j])) = Had(s, LeftIn(s, j), UserOf(s[j]))
        /\ Had(t, CreatedIn(t, j), UserOf(t[j])) = Had(s, CreatedIn(s, j), UserOf(s[j]))
    BY <1>3, <2>3, <2>4
  <2>. QED  BY <1>6, <2>5 DEF Nests, L
<1>7. ASSUME Settled(s, 0) PROVE Settled(t, new)
  <2>. HIDE DEF C, D
  <2>1. new \in Nat \ {0}
    BY DEF new
  <2>2. Cardinality(C \cup {L + 1}) = Cardinality(D) + 1
    BY <1>4, <1>7 DEF Settled, C, D, L
  <2>3. ASSUME NEW u \in Nat
        PROVE  Cardinality(Had(t, C \cup {L + 1}, u))
                  = Cardinality(Had(t, D, u)) + (IF u = new /\ u # 0 THEN 1 ELSE 0)
    <3>1. Cardinality(Had(s, C, u)) = Cardinality(Had(s, D, u)) + 0
      BY <1>7 DEF Settled, C, D, L
    <3>2. Had(t, D, u) = Had(s, D, u)
      BY <1>2, <1>3
    <3>3. CASE u = new
      <4>1. Had(t, C \cup {L + 1}, u) = Had(s, C, u) \cup {L + 1}
        BY <1>2, <1>3, <3>3
      <4>. QED  BY <1>5, <2>1, <3>1, <3>2, <3>3, <4>1
    <3>4. CASE u # new
      <4>1. Had(t, C \cup {L + 1}, u) = Had(s, C, u)
        BY <1>2, <1>3, <3>4
      <4>. QED  BY <1>5, <3>1, <3>2, <3>4, <4>1
    <3>. QED  BY <3>3, <3>4
  <2>. QED  BY <1>1, <2>1, <2>2, <2>3 DEF Settled
<1>. QED  BY <1>6, <1>7 DEF t, new

\* A record of a user that leaves.
LEMMA Departed ==
    ASSUME NEW s, IsLog(s), NEW e, Leaves(e), UserOf(e) \in Nat \ {0},
           Settled(s, UserOf(e)), Nests(s)
    PROVE  Nests(Append(s, e)) /\ Settled(Append(s, e), 0)
<1>. DEFINE t == Append(s, e)
            L == Len(s)
            C == CreatedIn(s, L)
            D == LeftIn(s, L)
            old == UserOf(e)
<1>0. ~Creates(e)
  BY DEF Creates, Leaves
<1>1. /\ L \in Nat /\ Len(t) = L + 1 /\ t[L + 1] = e
      /\ \A i \in 1 .. L : t[i] = s[i]
      /\ \A i \in 0 .. L : CreatedIn(t, i) = CreatedIn(s, i) /\ LeftIn(t, i) = LeftIn(s, i)
      /\ CreatedIn(t, L + 1) = C /\ LeftIn(t, L + 1) = D \cup {L + 1}
  <2>1. /\ L \in Nat /\ Len(t) = L + 1 /\ t[L + 1] = e
        /\ \A i \in 1 .. L : t[i] = s[i]
        /\ \A i \in 0 .. L : CreatedIn(t, i) = CreatedIn(s, i) /\ LeftIn(t, i) = LeftIn(s, i)
        /\ CreatedIn(t, L + 1) = C \cup (IF Creates(e) THEN {L + 1} ELSE {})
        /\ LeftIn(t, L + 1) = D \cup (IF Leaves(e) THEN {L + 1} ELSE {})
    BY Grows
  <2>. HIDE DEF t, L, C, D
  <2>. QED  BY <1>0, <2>1
<1>2. /\ C \subseteq 1 .. L /\ D \subseteq 1 .. L
      /\ \A i \in 1 .. L : CreatedIn(s, i) \subseteq 1 .. L /\ LeftIn(s, i) \subseteq 1 .. L
  <2>1. L \in Nat
    BY <1>1
  <2>2. \A i \in Nat : CreatedIn(s, i) \subseteq 1 .. i /\ LeftIn(s, i) \subseteq 1 .. i
    BY LogFinite
  <2>. HIDE DEF L
  <2>. QED  BY <2>1, <2>2 DEF C, D
<1>3. ASSUME NEW S \in SUBSET (1 .. L), NEW u
      PROVE  /\ Had(t, S, u) = Had(s, S, u)
             /\ u = old => Had(t, S \cup {L + 1}, u) = Had(s, S, u) \cup {L + 1}
             /\ u # old => Had(t, S \cup {L + 1}, u) = Had(s, S, u)
  <2>. HIDE DEF t, L
  <2>1. \A i \in S : t[i] = s[i]
    BY <1>1
  <2>2. Had(t, S, u) = Had(s, S, u)
    BY <2>1, Zenon DEF Had
  <2>3. UserOf(t[L + 1]) = old
    BY <1>1
  <2>. HIDE DEF old
  <2>4. /\ UserOf(t[L + 1]) = u => Had(t, S \cup {L + 1}, u) = Had(t, S, u) \cup {L + 1}
        /\ UserOf(t[L + 1]) # u => Had(t, S \cup {L + 1}, u) = Had(t, S, u)
    BY SMT DEF Had
  <2>. QED  BY <2>2, <2>3, <2>4
<1>4. /\ L + 1 \notin D /\ Cardinality(D \cup {L + 1}) = Cardinality(D) + 1
      /\ Cardinality(C) \in Nat /\ Cardinality(D) \in Nat
  <2>1. IsFiniteSet(D) /\ Cardinality(C) \in Nat /\ Cardinality(D) \in Nat
    BY <1>1, LogFinite
  <2>2. L + 1 \notin D
    BY <1>1, <1>2
  <2>. HIDE DEF C, D, L
  <2>. QED  BY <2>1, <2>2, Counts
<1>5. \A u : /\ Cardinality(Had(s, C, u)) \in Nat /\ Cardinality(Had(s, D, u)) \in Nat
             /\ Cardinality(Had(s, D, u) \cup {L + 1}) = Cardinality(Had(s, D, u)) + 1
  <2>. SUFFICES ASSUME NEW u
                PROVE  /\ Cardinality(Had(s, C, u)) \in Nat /\ Cardinality(Had(s, D, u)) \in Nat
                       /\ Cardinality(Had(s, D, u) \cup {L + 1}) = Cardinality(Had(s, D, u)) + 1
    OBVIOUS
  <2>1. /\ IsFiniteSet(Had(s, D, u))
        /\ Cardinality(Had(s, C, u)) \in Nat /\ Cardinality(Had(s, D, u)) \in Nat
    BY <1>1, LogFinite
  <2>2. L + 1 \notin Had(s, D, u)
    BY <1>4 DEF Had
  <2>. HIDE DEF C, D, L
  <2>. QED  BY <2>1, <2>2, Counts
<1>6. old \in Nat \ {0} /\ Settled(s, old)
  BY DEF old
<1>. HIDE DEF t, L, old
<1>7. ASSUME NEW u \in Nat
      PROVE  Cardinality(Had(s, C, u))
                = Cardinality(Had(s, D, u)) + (IF u = old /\ u # 0 THEN 1 ELSE 0)
  BY <1>6, <1>7 DEF Settled, C, D, L
<1>. HIDE DEF C, D
<1>8. ASSUME NEW u \in Nat
      PROVE  Cardinality(Had(t, C, u)) = Cardinality(Had(t, D \cup {L + 1}, u))
  <2>1. Had(t, C, u) = Had(s, C, u)
    BY <1>2, <1>3
  <2>2. CASE u = old
    <3>1. Had(t, D \cup {L + 1}, u) = Had(s, D, u) \cup {L + 1}
      BY <1>2, <1>3, <2>2
    <3>. QED  BY <1>5, <1>6, <1>7, <2>1, <2>2, <3>1
  <2>3. CASE u # old
    <3>1. Had(t, D \cup {L + 1}, u) = Had(s, D, u)
      BY <1>2, <1>3, <2>3
    <3>. QED  BY <1>5, <1>7, <2>1, <2>3, <3>1
  <2>. QED  BY <2>2, <2>3
<1>9. Nests(t)
  <2>. SUFFICES ASSUME NEW j \in D \cup {L + 1}
                PROVE  Cardinality(Had(t, LeftIn(t, j), UserOf(t[j])))
                          <= Cardinality(Had(t, CreatedIn(t, j), UserOf(t[j])))
    BY <1>1 DEF Nests
  <2>1. CASE j \in D
    <3>1. j \in 1 .. L /\ t[j] = s[j]
      BY <1>1, <1>2, <2>1
    <3>2. j \in 0 .. L
      BY <1>1, <3>1
    <3>3. /\ LeftIn(t, j) = LeftIn(s, j) /\ CreatedIn(t, j) = CreatedIn(s, j)
          /\ UserOf(t[j]) = UserOf(s[j])
      BY <1>1, <3>1, <3>2
    <3>4. LeftIn(s, j) \in SUBSET (1 .. L) /\ CreatedIn(s, j) \in SUBSET (1 .. L)
      BY <1>2, <3>1
    <3>5. /\ Had(t, LeftIn(t, j), UserOf(t[j])) = Had(s, LeftIn(s, j), UserOf(s[j]))
          /\ Had(t, CreatedIn(t, j), UserOf(t[j])) = Had(s, CreatedIn(s, j), UserOf(s[j]))
      BY <1>3, <3>3, <3>4
    <3>. QED  BY <2>1, <3>5 DEF Nests, L, D
  <2>2. CASE j = L + 1
    <3>1. UserOf(t[j]) = old /\ LeftIn(t, j) = D \cup {L + 1} /\ CreatedIn(t, j) = C
      BY <1>1, <2>2 DEF old
    <3>2. Cardinality(Had(t, C, old)) = Cardinality(Had(t, D \cup {L + 1}, old))
      BY <1>6, <1>8
    <3>3. Cardinality(Had(t, C, old)) \in Nat
      BY <1>2, <1>3, <1>5
    <3>. QED  BY <3>1, <3>2, <3>3
  <2>. QED  BY <2>1, <2>2
<1>10. Settled(t, 0)
  <2>1. Cardinality(C) = Cardinality(D) + 1
    BY <1>6 DEF Settled, C, D, L
  <2>2. Cardinality(C) = Cardinality(D \cup {L + 1})
    BY <1>4, <2>1
  <2>3. ASSUME NEW u \in Nat
        PROVE  Cardinality(Had(t, C, u))
                  = Cardinality(Had(t, D \cup {L + 1}, u)) + (IF u = 0 /\ u # 0 THEN 1 ELSE 0)
    <3>1. Cardinality(Had(t, C, u)) \in Nat
      BY <1>2, <1>3, <1>5
    <3>. QED  BY <1>8, <3>1
  <2>4. Cardinality(D \cup {L + 1}) \in Nat
    BY <1>4
  <2>5. Cardinality(C) = Cardinality(D \cup {L + 1}) + (IF 0 = 0 THEN 0 ELSE 1)
    BY <2>2, <2>4
  <2>. QED  BY <1>1, <2>3, <2>5 DEF Settled
<1>. QED  BY <1>9, <1>10 DEF t

\* A new user gets the next id of its kind.
LEMMA Numbered ==
    ASSUME NEW s, IsLog(s), NEW e, Creates(e),
           NEW super \in Nat \ {0}, NEW usr \in Nat \ {0}, FirstUsr <= usr,
           Distinct(s, super, usr)
    PROVE  /\ UserOf(e) = super => Distinct(Append(s, e), super + 1, usr)
           /\ UserOf(e) = usr => Distinct(Append(s, e), super, usr + 1)
<1>. DEFINE t == Append(s, e)
            L == Len(s)
            C == CreatedIn(s, L)
            new == UserOf(e)
<1>0. FirstUsr \in Nat \ {0}
  BY ClientAssumption
<1>1. /\ L \in Nat /\ Len(t) = L + 1 /\ t[L + 1] = e
      /\ \A i \in 1 .. L : t[i] = s[i]
      /\ CreatedIn(t, L + 1) = C \cup {L + 1}
  <2>1. /\ L \in Nat /\ Len(t) = L + 1 /\ t[L + 1] = e
        /\ \A i \in 1 .. L : t[i] = s[i]
        /\ CreatedIn(t, L + 1) = C \cup (IF Creates(e) THEN {L + 1} ELSE {})
    BY Grows
  <2>. HIDE DEF t, L, C
  <2>. QED  BY <2>1
<1>2. C \subseteq 1 .. L
  BY <1>1, LogFinite
<1>. HIDE DEF t, L
<1>3. /\ \A j \in C : t[j] = s[j]
      /\ UserOf(t[L + 1]) = new
  BY <1>1, <1>2
<1>4. /\ \A j \in C : \/ UserOf(s[j]) \in 1 .. super - 1
                      \/ UserOf(s[j]) \in FirstUsr .. usr - 1
      /\ super <= FirstUsr =>
            \A j, k \in C : UserOf(s[j]) = UserOf(s[k]) => j = k
  BY DEF Distinct, C, L
<1>. HIDE DEF C, new
<1>5. ASSUME new = super PROVE Distinct(t, super + 1, usr)
  <2>1. \A j \in C \cup {L + 1} : \/ UserOf(t[j]) \in 1 .. (super + 1) - 1
                                  \/ UserOf(t[j]) \in FirstUsr .. usr - 1
    BY <1>0, <1>3, <1>4, <1>5
  <2>2. ASSUME super + 1 <= FirstUsr
        PROVE  \A j, k \in C \cup {L + 1} : UserOf(t[j]) = UserOf(t[k]) => j = k
    <3>1. super <= FirstUsr /\ \A j \in C : UserOf(t[j]) # new
      BY <1>0, <1>3, <1>4, <1>5, <2>2
    <3>. QED  BY <1>3, <1>4, <3>1
  <2>. QED  BY <1>1, <2>1, <2>2 DEF Distinct
<1>6. ASSUME new = usr PROVE Distinct(t, super, usr + 1)
  <2>1. \A j \in C \cup {L + 1} : \/ UserOf(t[j]) \in 1 .. super - 1
                                  \/ UserOf(t[j]) \in FirstUsr .. (usr + 1) - 1
    BY <1>0, <1>3, <1>4, <1>6
  <2>2. ASSUME super <= FirstUsr
        PROVE  \A j, k \in C \cup {L + 1} : UserOf(t[j]) = UserOf(t[k]) => j = k
    <3>1. \A j \in C : UserOf(t[j]) # new
      BY <1>0, <1>3, <1>4, <1>6, <2>2
    <3>. QED  BY <1>3, <1>4, <2>2, <3>1
  <2>. QED  BY <1>1, <2>1, <2>2 DEF Distinct
<1>. QED  BY <1>5, <1>6 DEF t, new

-----------------------------------------------------------------------------
(* What a step logs *)

Plainly(e) == ~Creates(e) /\ ~Leaves(e)

\* No record, or one that is not about a user.
Unremarkable(es) == es = <<>> \/ \E e : Plainly(e) /\ es = <<e>>

\* The user does not change.
Keeps ==
    /\ \E es : Unremarkable(es) /\ said' = said \o es
    /\ client'.usr = client.usr /\ ids' = ids /\ stop' = stop
    /\ client'.at = "none" => client'.usr = 0

Enters ==
    /\ Serving /\ client.usr = 0 /\ client'.usr = NewID /\ client'.at # "none"
    /\ ids' = IdsUsed /\ stop' = stop
    /\ \E e : Creates(e) /\ UserOf(e) = NewID /\ said' = Append(said, e)

Goes ==
    /\ Serving /\ client.usr # 0 /\ client'.usr = 0
    /\ ids' = ids /\ stop' = stop
    /\ \E es, e : /\ Unremarkable(es) /\ Leaves(e) /\ UserOf(e) = client.usr
                  /\ said' = Append(said \o es, e)

\* The server stops, or has stopped.
Stops ==
    /\ \E es : Unremarkable(es) /\ said' = said \o es
    /\ ids' = ids /\ ~Serving'
    /\ client'.at = "none" => client'.usr = 0

\* One record more, or none, is appended to the log.
LEMMA Appended ==
    ASSUME IsLog(said), NEW es, NEW e
    PROVE  /\ said \o <<>> = said
           /\ said \o <<e>> = Append(said, e)
           /\ Unremarkable(es) => IsLog(said \o es)
<1>1. PICK S : said \in Seq(S)
  BY DEF IsLog
<1>2. said \o <<>> = said
  BY <1>1
<1>3. \A x : said \o <<x>> = Append(said, x)
  <2>. TAKE x
  <2>1. said \in Seq(S \cup {x})
    BY <1>1, SeqMonotonic
  <2>. QED  BY <2>1
<1>4. ASSUME Unremarkable(es) PROVE IsLog(said \o es)
  <2>1. CASE es = <<>>
    BY <1>2, <2>1
  <2>2. ASSUME NEW x, es = <<x>> PROVE IsLog(said \o es)
    <3>1. IsLog(Append(said, x))
      BY Grows
    <3>. QED  BY <1>3, <2>2, <3>1
  <2>. QED  BY <1>4, <2>1, <2>2 DEF Unremarkable
<1>. QED  BY <1>2, <1>3, <1>4

\* Clean logs that the user leaves, if there is one, and forgets it.
LEMMA CloseGoes ==
    ASSUME WSTyped, IsLog(said), Serving, UNCHANGED <<ids, stop>>,
           NEW STATE es, Unremarkable(es), NEW STATE t, Close(es, t)
    PROVE  Keeps \/ Goes
<1>1. client' = Idle(client.sckt) /\ client.sckt \in Nat /\ said' = said \o es \o Leaving(t)
  BY DEF Close, WSTyped
<1>2. client'.usr = 0
  BY <1>1, IdleClients
<1>3. CASE client.usr = 0
  <2>1. said' = (said \o es) \o <<>>
    BY <1>1, <1>3 DEF Leaving
  <2>2. IsLog(said \o es)
    BY Appended
  <2>3. said' = said \o es
    <3>1. PICK S : said \o es \in Seq(S)
      BY <2>2 DEF IsLog
    <3>. QED  BY <2>1, <3>1, ConcatEmptySeq
  <2>. QED  BY <1>2, <1>3, <2>3 DEF Keeps
<1>4. CASE client.usr # 0
  <2>. DEFINE e == Entry("Close_Usr", t, <<N(client.usr)>>,
                         Wrt_uID_wUT("Close_Usr", client.usr, t), TRUE)
  <2>1. said' = (said \o es) \o <<e>>
    BY <1>1, <1>4 DEF Leaving
  <2>2. Leaves(e) /\ UserOf(e) = client.usr
    BY DEF Leaves, UserOf, Entry, N
  <2>. HIDE DEF e
  <2>3. IsLog(said \o es)
    BY Appended
  <2>4. said' = Append(said \o es, e)
    <3>1. PICK S : said \o es \in Seq(S)
      BY <2>3 DEF IsLog
    <3>2. said \o es \in Seq(S \cup {e})
      BY <3>1, SeqMonotonic
    <3>. QED  BY <2>1, <3>2
  <2>. QED  BY <1>2, <1>4, <2>2, <2>4 DEF Goes
<1>. QED  BY <1>3, <1>4

\* What is wrong with a frame is logged with an id of its own.
LEMMA Refusals ==
    ASSUME NEW f, NEW n, NEW pad
    PROVE  Unremarkable(Checked(f, n, pad).entry)
<1>. DEFINE c     == Checked(f, n, pad)
            short == n < 6
            p9    == f.op = 9
            p2    == f.op # 2
            long  == f.len >= 65536
            miss  == Mismatch(f, n)
            big   == bytes_payload(f) > BYTES_MAX_Payload
            e1 == InvalidLen(n, 0, 0)
            e2 == OnlyId("ERR_not_FIN_Recieved", pad)
            e3 == OnlyId("RCVD_CLOSE_opcode", pad)
            e4 == OnlyId("RCVD_PING_opcode", pad)
            e5 == UnhandledOpcode(f.op)
            e6 == TooBig(LongLength(f, n), f.len, FALSE)
            e7 == InvalidLen(n, bytes_payload(f), f.len)
            e8 == TooBig(W(bytes_payload(f)), f.len, bytes_payload(f) = f.len)
            e9 == [buf |-> errbuf, entry |-> <<>>]
<1>1. c = IF short THEN e1 ELSE IF ~f.fin THEN e2 ELSE IF f.op = 8 THEN e3
          ELSE IF p9 THEN e4 ELSE IF p2 THEN e5
          ELSE IF long THEN e6 ELSE IF miss THEN e7 ELSE IF big THEN e8 ELSE e9
  BY DEF Checked
<1>2. Unremarkable(e1.entry) /\ Unremarkable(e7.entry)
  BY DEF InvalidLen, FromBuf, Entry, Unremarkable, Plainly, Creates, Leaves
<1>3. Unremarkable(e2.entry) /\ Unremarkable(e3.entry) /\ Unremarkable(e4.entry)
  BY DEF OnlyId, Sckt, Entry, Unremarkable, Plainly, Creates, Leaves
<1>4. Unremarkable(e5.entry)
  BY DEF UnhandledOpcode, FromBuf, Entry, Unremarkable, Plainly, Creates, Leaves
<1>5. Unremarkable(e6.entry) /\ Unremarkable(e8.entry)
  BY DEF TooBig, FromBuf, Entry, Unremarkable, Plainly, Creates, Leaves
<1>6. Unremarkable(e9.entry)
  BY DEF Unremarkable
<1>. HIDE DEF c, short, p9, p2, long, miss, big, e1, e2, e3, e4, e5, e6, e7, e8, e9
<1>7. \/ c = e1 \/ c = e2 \/ c = e3 \/ c = e4 \/ c = e5 \/ c = e6 \/ c = e7 \/ c = e8
      \/ c = e9
  BY <1>1, Zenon
<1>8. Unremarkable(c.entry)
  BY <1>2, <1>3, <1>4, <1>5, <1>6, <1>7
<1>. QED  BY <1>8 DEF c

\* The records that are about no user.
LEMMA OtherEntries ==
    /\ \A id : id \notin {"Crt_Usr_v4", "Crt_Usr_v6", "Close_Usr"} =>
          /\ Unremarkable(<<Event(id)>>)
          /\ \A written, t, pad : Unremarkable(<<Sckt(id, written, t, pad)>>)
    /\ Unremarkable(<<NoPermission>>) /\ Unremarkable(<<LargeBufUsed>>)
    /\ Unremarkable(<<>>)
    /\ \A n : Unremarkable(MissWrite(n).entry)
<1>1. ASSUME NEW id, id \notin {"Crt_Usr_v4", "Crt_Usr_v6", "Close_Usr"}
      PROVE  /\ Unremarkable(<<Event(id)>>)
             /\ \A written, t, pad : Unremarkable(<<Sckt(id, written, t, pad)>>)
  BY <1>1 DEF Event, Sckt, Entry, Unremarkable, Plainly, Creates, Leaves
<1>2. Unremarkable(<<NoPermission>>)
  BY DEF NoPermission, Entry, Unremarkable, Plainly, Creates, Leaves
<1>3. Unremarkable(<<LargeBufUsed>>)
  BY DEF LargeBufUsed, Entry, Unremarkable, Plainly, Creates, Leaves
<1>4. \A n : Unremarkable(MissWrite(n).entry)
  BY DEF MissWrite, FromBuf, Entry, Unremarkable, Plainly, Creates, Leaves
<1>. QED  BY <1>1, <1>2, <1>3, <1>4 DEF Unremarkable

\* A reply to a command that is about no user.
LEMMA ReplyKeeps ==
    ASSUME WSTyped, NEW f, NEW n, NEW STATE bytes, NEW STATE es, Unremarkable(es),
           NEW STATE usr, usr = client.usr, Reply(f, n, bytes, es, usr),
           UNCHANGED <<ids, stop>>
    PROVE  Keeps
<1>1. said' = said \o es
  BY DEF Reply
<1>2. client'.usr = client.usr /\ client'.at = "write"
  BY DEF Reply, WSTyped
<1>. QED  BY <1>1, <1>2 DEF Keeps

\* A handler of a read, as far as users are concerned.
LEMMA UserHandler ==
    ASSUME WSTyped, IsLog(said), Serving, UNCHANGED stop,
           NEW n, NEW f, WS_Read_Hndlr(f, n)
    PROVE  Keeps \/ Enters \/ Goes
<1>1. ASSUME UP_InitRI(f, n) PROVE Keeps \/ Goes
  <2>1. UNCHANGED <<ids, stop>>
    BY <1>1 DEF UP_InitRI
  <2>2. Unremarkable(<<Event("REQ_LargeBuf_Exausted")>>)
    BY OtherEntries
  <2>3. CASE Close(<<NoPermission>>, now)
    BY <2>1, <2>3, CloseGoes, OtherEntries
  <2>4. CASE Close(<<>>, now)
    BY <2>1, <2>4, CloseGoes, OtherEntries
  <2>5. CASE Reply(f, n, RequestAgain, <<Event("REQ_LargeBuf_Exausted")>>, client.usr)
    BY <2>1, <2>2, <2>5, ReplyKeeps
  <2>6. ASSUME NEW warning \in {0, 8},
               Reply(f, n, Framed(2 + warning + 4), <<LargeBufUsed>>, client.usr)
        PROVE  Keeps
    BY <2>1, <2>6, ReplyKeeps, OtherEntries
  <2>. QED  BY <1>1, <2>3, <2>4, <2>5, <2>6, Zenon DEF UP_InitRI
<1>2. ASSUME UP_CrtUsr(f, n) PROVE Keeps \/ Enters \/ Goes
  <2>1. CASE Close(<<>>, now) /\ UNCHANGED ids
    BY <2>1, CloseGoes, OtherEntries
  <2>2. CASE /\ client.usr = 0
             /\ Reply(f, n, RequestAgain, <<Event("KUInfo_Exausted")>>, 0)
             /\ UNCHANGED ids
    <3>1. Unremarkable(<<Event("KUInfo_Exausted")>>)
      BY OtherEntries
    <3>. QED  BY <2>2, <3>1, ReplyKeeps
  <2>3. CASE /\ client.usr = 0
             /\ Reply(f, n, Framed(6), <<UserCreated(f)>>, NewID)
             /\ ids' = IdsUsed
    <3>1. said' = said \o <<UserCreated(f)>>
      BY <2>3 DEF Reply
    <3>2. client'.usr = NewID /\ client'.at = "write"
      BY <2>3 DEF Reply, WSTyped
    <3>3. Creates(UserCreated(f)) /\ UserOf(UserCreated(f)) = NewID
      BY DEF UserCreated, Entry, N, Creates, UserOf
    <3>4. said' = Append(said, UserCreated(f))
      BY <3>1, Appended
    <3>. QED  BY <2>3, <3>2, <3>3, <3>4 DEF Enters
  <2>4. CASE client.usr = 0 /\ Dies(f)
    <3>1. client'.usr = client.usr /\ UNCHANGED <<ids, said>>
      BY <2>4 DEF Dies, WSTyped
    <3>2. said' = said \o <<>>
      BY <3>1, Appended
    <3>. QED  BY <2>4, <3>1, <3>2, OtherEntries DEF Keeps
  <2>. QED  BY <1>2, <2>1, <2>2, <2>3, <2>4, Zenon DEF UP_CrtUsr
<1>3. ASSUME Close(<<>>, now) /\ UNCHANGED ids PROVE Keeps \/ Goes
  BY <1>3, CloseGoes, OtherEntries
<1>. QED  BY <1>1, <1>2, <1>3 DEF WS_Read_Hndlr

\* The records of the rest of the server are about no user.
LEMMA OtherLogs ==
    ASSUME NEW e \in StringEntries \cup AddressEntries \cup TimesEntries \cup ServerEntries
    PROVE  Unremarkable(<<e>>)
<1>1. CASE e \in StringEntries
  BY <1>1 DEF StringEntries, Said, Entry, Unremarkable, Plainly, Creates, Leaves
<1>2. CASE e \in AddressEntries
  <2>1. PICK ip \in Addresses :
            \/ e = Said(V(ip, "Push_devIP_v4", "Push_devIP_v6"), 0, << <<"ip", ip>> >>,
                        Wrt_Push_devIP(ip))
            \/ e = Said(V(ip, "ChkIP_devIP_v4", "ChkIP_devIP_v6"), now, << <<"ip", ip>> >>,
                        Wrt_IP_with_UnixTime(V(ip, "ChkIP_devIP_v4", "ChkIP_devIP_v6"), ip, now))
            \/ e = Said(V(ip, "ChkIP_v4", "ChkIP_v6"), now, << <<"ip", ip>> >>,
                        Wrt_IP_with_UnixTime(V(ip, "ChkIP_v4", "ChkIP_v6"), ip, now))
    BY <1>2, Zenon DEF AddressEntries
  <2>2. e.id \in {"Push_devIP_v4", "Push_devIP_v6", "ChkIP_devIP_v4", "ChkIP_devIP_v6",
                  "ChkIP_v4", "ChkIP_v6"}
    BY <2>1 DEF Said, Entry, V
  <2>. QED  BY <2>2 DEF Unremarkable, Plainly, Creates, Leaves
<1>3. CASE e \in TimesEntries
  <2>1. e.id \in {"Chk_IP_many_times_cnct_v4", "Chk_IP_many_times_cnct_v6"}
    BY <1>3 DEF TimesEntries, Said, Entry, V
  <2>. QED  BY <2>1 DEF Unremarkable, Plainly, Creates, Leaves
<1>4. CASE e \in ServerEntries
  <2>1. e.id \in {"ERR_KClient_Exausted", "ERR_on_Async_Accept", "ERR_Get_remote_endpoint"}
    BY <1>4 DEF ServerEntries, Event, Entry
  <2>. QED  BY <2>1 DEF Unremarkable, Plainly, Creates, Leaves
<1>. QED  BY <1>1, <1>2, <1>3, <1>4

\* A connection that is not made has no user.
NoneHasNoUser == client.at = "none" => client.usr = 0

\* Every step of the connection, as far as users are concerned.
LEMMA WSUserSteps ==
    ASSUME WSTyped, IsLog(said), NoneHasNoUser, Serving, UNCHANGED stop, WSNext
    PROVE  Keeps \/ Enters \/ Goes
<1>. DEFINE Goal == Keeps \/ Enters \/ Goes
<1>0. said' = said => said' = said \o <<>>
  BY Appended
<1>1. ASSUME NEW peer \in Peers, Connect(peer) PROVE Goal
  <2>1. client' = [Idle(client.sckt + 1) EXCEPT !.at = "hello", !.peer = peer]
    BY <1>1 DEF Connect
  <2>2. client'.usr = 0 /\ client'.at = "hello"
    BY <2>1 DEF Idle
  <2>3. client.usr = 0 /\ UNCHANGED <<ids, said>>
    BY <1>1 DEF Connect, At, NoneHasNoUser
  <2>. QED  BY <1>0, <2>2, <2>3, OtherEntries DEF Keeps
<1>2. ASSUME NEW h \in Hellos, HelloRead(h) PROVE Goal
  <2>1. UNCHANGED <<ids, stop>>
    BY <1>2 DEF HelloRead
  <2>2. CASE Close(<<Event("ERR_on_Async_Read_Crt_WScktCnctn")>>, now)
    <3>1. Unremarkable(<<Event("ERR_on_Async_Read_Crt_WScktCnctn")>>)
      BY OtherEntries
    <3>. QED  BY <2>1, <2>2, <3>1, CloseGoes
  <2>3. CASE Close(<<Event("ERR_no_WebSocket_Key")>>, now)
    <3>1. Unremarkable(<<Event("ERR_no_WebSocket_Key")>>)
      BY OtherEntries
    <3>. QED  BY <2>1, <2>3, <3>1, CloseGoes
  <2>4. CASE client' = [client EXCEPT !.at = "accept"] /\ UNCHANGED said
    <3>1. client'.usr = client.usr /\ client'.at = "accept"
      BY <2>4 DEF WSTyped
    <3>. QED  BY <1>0, <2>1, <2>4, <3>1, OtherEntries DEF Keeps
  <2>. HIDE DEF Goal
  <2>. QED  BY <1>2, <2>2, <2>3, <2>4 DEF HelloRead
<1>3. ASSUME NEW ok \in BOOLEAN, HelloAnswered(ok) PROVE Goal
  <2>1. UNCHANGED <<ids, stop>>
    BY <1>3 DEF HelloAnswered
  <2>2. CASE Close(<<Event("ERR_on_Async_Write_Crt_WScktCnctn")>>, now)
    <3>1. Unremarkable(<<Event("ERR_on_Async_Write_Crt_WScktCnctn")>>)
      BY OtherEntries
    <3>. QED  BY <2>1, <2>2, <3>1, CloseGoes
  <2>3. CASE client' = [client EXCEPT !.at = "read"] /\ UNCHANGED said
    <3>1. client'.usr = client.usr /\ client'.at = "read"
      BY <2>3 DEF WSTyped
    <3>. QED  BY <1>0, <2>1, <2>3, <3>1, OtherEntries DEF Keeps
  <2>. HIDE DEF Goal
  <2>. QED  BY <1>3, <2>2, <2>3 DEF HelloAnswered
<1>4. ASSUME NEW f \in Frames, Send(f) PROVE Goal
  <2>1. client'.usr = client.usr /\ client'.at = client.at /\ client.at # "none"
    BY <1>4 DEF Send, WSTyped
  <2>. QED  BY <1>0, <1>4, <2>1, OtherEntries DEF Keeps, Send
<1>5. ASSUME NEW pad \in Paddings, ReadFails(pad) PROVE Goal
  <2>1. Unremarkable(<<Sckt("ERR_on_Async_Read_WebSckt", "ERR_on_Async_Read_WebSckt",
                            now, pad)>>)
    BY OtherEntries
  <2>2. UNCHANGED <<ids, stop>>
    BY <1>5 DEF ReadFails
  <2>. QED  BY <1>5, <2>1, <2>2, CloseGoes DEF ReadFails
<1>6. ASSUME NEW n, NEW f, NEW pad, ReadRefused(f, n, pad) PROVE Goal
  <2>1. UNCHANGED <<ids, stop>> /\ Close(Checked(f, n, pad).entry, now)
    BY <1>6 DEF ReadRefused
  <2>. QED  BY <2>1, Refusals, CloseGoes
<1>7. ASSUME NEW n, NEW f, ReadActed(f, n) PROVE Goal
  BY <1>7, UserHandler DEF ReadActed
<1>8. ASSUME NEW pad \in Paddings, WriteFails(pad) PROVE Goal
  <2>1. Unremarkable(<<Sckt("ERR_on_Async_Write_WebSckt", "ERR_on_Async_Read_WebSckt",
                            ms_time_atRead_asWS, pad)>>)
    BY OtherEntries
  <2>2. UNCHANGED <<ids, stop>>
    BY <1>8 DEF WriteFails
  <2>. QED  BY <1>8, <2>1, <2>2, CloseGoes DEF WriteFails
<1>9. ASSUME NEW n \in Parts, WriteShort(n) PROVE Goal
  <2>1. UNCHANGED <<ids, stop>> /\ Close(MissWrite(n).entry, ms_time_atRead_asWS)
    BY <1>9 DEF WriteShort
  <2>. QED  BY <2>1, OtherEntries, CloseGoes
<1>10. ASSUME WriteWhole PROVE Goal
  <2>1. client'.usr = client.usr /\ client'.at = "read"
    BY <1>10 DEF WriteWhole, WSTyped
  <2>. QED  BY <1>0, <1>10, <2>1, OtherEntries DEF Keeps, WriteWhole
<1>. HIDE DEF Goal
<1>11. Goal
  BY <1>1, <1>2, <1>3, <1>4, <1>5, <1>6, <1>7, <1>8, <1>9, <1>10, Zenon DEF WSNext
<1>. QED  BY <1>11 DEF Goal

\* Every step of the composition, as far as users are concerned.
LEMMA UserSteps ==
    ASSUME WSTyped, IsLog(said), NoneHasNoUser, [Next]_vars
    PROVE  Keeps \/ Enters \/ Goes \/ Stops
<1>0. said' = said => said' = said \o <<>>
  BY Appended
<1>1. ASSUME Serve PROVE Keeps \/ Enters \/ Goes
  <2>1. Serving /\ UNCHANGED stop
    BY <1>1 DEF Serve, convVars
  <2>2. ASSUME WSNext PROVE Keeps \/ Enters \/ Goes
    BY <2>1, <2>2, WSUserSteps
  <2>3. ASSUME NEW e \in StringEntries \cup AddressEntries
                              \cup TimesEntries \cup ServerEntries,
               LogOther(e)
        PROVE  Keeps
    <3>1. said' = Append(said, e) /\ UNCHANGED <<client, ids>>
      BY <2>3 DEF LogOther
    <3>2. said' = said \o <<e>>
      BY <3>1, Appended
    <3>3. Unremarkable(<<e>>)
      BY OtherLogs
    <3>. QED  BY <2>1, <3>1, <3>2, <3>3 DEF Keeps, NoneHasNoUser
  <2>. QED  BY <1>1, <2>2, <2>3 DEF Serve
<1>2. ASSUME NEW end \in Ends, StopServer(end) PROVE Stops
  <2>1. said' = said \o Ending(end.how) /\ UNCHANGED ids /\ client' = Idle(0) /\ stop' = ""
    BY <1>2, Zenon DEF StopServer
  <2>2. Unremarkable(Ending(end.how))
    BY EndAssumption DEF Ending, Said, Entry, Unremarkable, Plainly, Creates, Leaves
  <2>3. client'.usr = 0
    BY <2>1, IdleClients
  <2>. QED  BY <2>1, <2>2, <2>3 DEF Stops, Serving
<1>3. ASSUME Convert PROVE Stops
  <2>1. UNCHANGED <<client, ids, said>>
    BY <1>3 DEF Convert, wsVars
  <2>2. stop' # "not started"
    <3>1. CASE EndOfLoop
      BY <3>1 DEF EndOfLoop, Unreadable
    <3>2. CASE ConvertRecord
      BY <3>2 DEF ConvertRecord, Failure
    <3>. QED  BY <1>3, <3>1, <3>2 DEF Convert, ConvNext
  <2>. QED  BY <1>0, <2>1, <2>2, OtherEntries DEF Stops, Serving, NoneHasNoUser
<1>4. ASSUME UNCHANGED vars PROVE Keeps
  BY <1>0, <1>4, OtherEntries DEF Keeps, NoneHasNoUser, vars, wsVars, convVars
<1>. QED  BY <1>1, <1>2, <1>3, <1>4 DEF Next

-----------------------------------------------------------------------------
(* The users in the log *)

UsersInv ==
    /\ IsLog(said) /\ NoneHasNoUser
    /\ Nests(said)
    /\ Serving => Settled(said, client.usr)
    /\ Distinct(said, ids.super, ids.usr)
    /\ FirstUsr <= ids.usr

\* Records about no user leave everything said of users as it is.
LEMMA Unremarked ==
    ASSUME IsLog(said), NEW es, Unremarkable(es)
    PROVE  /\ IsLog(said \o es)
           /\ Nests(said) => Nests(said \o es)
           /\ \A usr : Settled(said, usr) => Settled(said \o es, usr)
           /\ \A super, usr : Distinct(said, super, usr) => Distinct(said \o es, super, usr)
<1>1. IsLog(said \o es)
  BY Appended
<1>2. CASE es = <<>>
  BY <1>1, <1>2, Appended
<1>3. ASSUME NEW e, Plainly(e), es = <<e>>
      PROVE  /\ Nests(said) => Nests(said \o es)
             /\ \A usr : Settled(said, usr) => Settled(said \o es, usr)
             /\ \A super, usr :
                   Distinct(said, super, usr) => Distinct(said \o es, super, usr)
  <2>1. said \o es = Append(said, e)
    BY <1>3, Appended
  <2>. QED  BY <1>3, <2>1, Remarked DEF Plainly
<1>. QED  BY <1>1, <1>2, <1>3 DEF Unremarkable

\* Every step keeps the invariant.
LEMMA UsersSteps ==
    ASSUME WSTyped, UsersInv, [Next]_vars
    PROVE  UsersInv'
<1>0. /\ IsLog(said) /\ NoneHasNoUser /\ Nests(said)
      /\ Distinct(said, ids.super, ids.usr) /\ FirstUsr <= ids.usr
  BY DEF UsersInv
<1>1. CASE Keeps
  <2>1. PICK es : Unremarkable(es) /\ said' = said \o es
    BY <1>1 DEF Keeps
  <2>2. /\ IsLog(said') /\ Nests(said')
        /\ \A usr : Settled(said, usr) => Settled(said', usr)
        /\ Distinct(said', ids.super, ids.usr)
    BY <1>0, <2>1, Unremarked
  <2>3. ids' = ids /\ client'.usr = client.usr /\ NoneHasNoUser' /\ Serving' = Serving
    BY <1>1 DEF Keeps, NoneHasNoUser, Serving
  <2>4. Serving' => Settled(said', client'.usr)
    BY <2>2, <2>3 DEF UsersInv
  <2>. QED  BY <1>0, <2>2, <2>3, <2>4 DEF UsersInv
<1>2. CASE Stops
  <2>1. PICK es : Unremarkable(es) /\ said' = said \o es
    BY <1>2 DEF Stops
  <2>2. /\ IsLog(said') /\ Nests(said')
        /\ Distinct(said', ids.super, ids.usr)
    BY <1>0, <2>1, Unremarked
  <2>3. ids' = ids /\ NoneHasNoUser' /\ ~Serving'
    BY <1>2 DEF Stops, NoneHasNoUser
  <2>. QED  BY <1>0, <2>2, <2>3 DEF UsersInv
<1>3. CASE Goes
  <2>1. PICK es, e : /\ Unremarkable(es) /\ Leaves(e) /\ UserOf(e) = client.usr
                     /\ said' = Append(said \o es, e)
    BY <1>3 DEF Goes
  <2>. DEFINE s == said \o es
  <2>2. /\ IsLog(s) /\ Nests(s) /\ Settled(s, client.usr)
        /\ Distinct(s, ids.super, ids.usr)
    BY <1>0, <1>3, <2>1, Unremarked DEF Goes, UsersInv
  <2>3. client.usr \in Nat \ {0}
    BY <1>3 DEF Goes, WSTyped
  <2>. HIDE DEF s
  <2>4. Nests(Append(s, e)) /\ Settled(Append(s, e), 0)
    BY <2>1, <2>2, <2>3, Departed
  <2>5. IsLog(Append(s, e))
    BY <2>2, Grows
  <2>6. Distinct(Append(s, e), ids.super, ids.usr)
    <3>1. ~Creates(e)
      BY <2>1 DEF Creates, Leaves
    <3>2. s = said \o es /\ Len(s) \in Nat
      BY <2>2, Grows DEF s
    <3>3. /\ Len(Append(s, e)) = Len(s) + 1
          /\ CreatedIn(Append(s, e), Len(s) + 1) = CreatedIn(s, Len(s))
      BY <2>2, <3>1, Grows
    <3>4. \A j \in CreatedIn(s, Len(s)) : Append(s, e)[j] = s[j]
      <4>1. CreatedIn(s, Len(s)) \subseteq 1 .. Len(s)
        BY <3>2, LogFinite
      <4>. QED  BY <2>2, <4>1, Grows
    <3>. QED  BY <2>2, <3>3, <3>4 DEF Distinct
  <2>7. said' = Append(s, e) /\ ids' = ids /\ client'.usr = 0
    BY <1>3, <2>1 DEF Goes, s
  <2>. QED  BY <1>0, <2>4, <2>5, <2>6, <2>7 DEF UsersInv, NoneHasNoUser
<1>4. CASE Enters
  <2>1. PICK e : Creates(e) /\ UserOf(e) = NewID /\ said' = Append(said, e)
    BY <1>4 DEF Enters
  <2>2. NewID \in Nat \ {0}
    BY DEF WSTyped, NewID
  <2>3. Settled(said, 0)
    BY <1>4 DEF Enters, UsersInv
  <2>4. Nests(said') /\ Settled(said', NewID)
    BY <1>0, <2>1, <2>2, <2>3, Entered
  <2>5. IsLog(said')
    BY <1>0, <2>1, Grows
  <2>6. Distinct(said', ids'.super, ids'.usr) /\ FirstUsr <= ids'.usr
    <3>. DEFINE super == ids.super
                usr == ids.usr
    <3>1. super \in Nat \ {0} /\ usr \in Nat \ {0} /\ FirstUsr \in Nat
      BY ClientAssumption DEF WSTyped
    <3>2. \/ /\ NewID = super /\ ids'.super = super + 1 /\ ids'.usr = usr
          \/ /\ NewID = usr /\ ids'.super = super /\ ids'.usr = usr + 1
      BY <1>4 DEF Enters, NewID, IdsUsed, WSTyped
    <3>3. Distinct(said, super, usr) /\ FirstUsr <= usr
      BY <1>0
    <3>. HIDE DEF super, usr
    <3>4. /\ UserOf(e) = super => Distinct(Append(said, e), super + 1, usr)
          /\ UserOf(e) = usr => Distinct(Append(said, e), super, usr + 1)
      BY <1>0, <2>1, <3>1, <3>3, Numbered
    <3>5. FirstUsr <= ids'.usr
      BY <3>1, <3>2, <3>3
    <3>6. Distinct(said', ids'.super, ids'.usr)
      BY <2>1, <3>2, <3>4
    <3>. QED  BY <3>5, <3>6
  <2>7. client'.usr = NewID /\ client'.at # "none"
    BY <1>4 DEF Enters
  <2>. QED  BY <2>4, <2>5, <2>6, <2>7 DEF UsersInv, NoneHasNoUser
<1>. QED  BY <1>0, <1>1, <1>2, <1>3, <1>4, UserSteps

\* The invariant holds before anything was logged.
LEMMA UsersInit ==
    ASSUME Init
    PROVE  UsersInv
<1>1. said = <<>> /\ client = Idle(0) /\ ids = [super |-> 1, usr |-> FirstUsr]
  BY DEF Init, WSInit
<1>2. client.usr = 0
  BY <1>1, IdleClients
<1>3. IsLog(said) /\ Len(said) = 0
  BY <1>1 DEF IsLog
<1>4. CreatedIn(said, Len(said)) = {} /\ LeftIn(said, Len(said)) = {}
  BY <1>3 DEF CreatedIn, LeftIn
<1>5. \A u : Had(said, {}, u) = {}
  BY DEF Had
<1>6. Cardinality({}) = 0
  BY FS_EmptySet
<1>7. Nests(said)
  BY <1>4 DEF Nests
<1>8. Settled(said, client.usr)
  <2>1. \A u : /\ Cardinality(Had(said, CreatedIn(said, Len(said)), u)) = 0
               /\ Cardinality(Had(said, LeftIn(said, Len(said)), u)) = 0
    BY <1>4, <1>5, <1>6
  <2>2. /\ Cardinality(CreatedIn(said, Len(said))) = 0
        /\ Cardinality(LeftIn(said, Len(said))) = 0
    BY <1>4, <1>6
  <2>3. \A u : (IF u = client.usr /\ u # 0 THEN 1 ELSE 0) = 0
    BY <1>2
  <2>. QED  BY <1>2, <2>1, <2>2, <2>3 DEF Settled
<1>9. Distinct(said, ids.super, ids.usr) /\ FirstUsr <= ids.usr
  BY <1>1, <1>4, ClientAssumption DEF Distinct
<1>. QED  BY <1>2, <1>3, <1>7, <1>8, <1>9 DEF UsersInv, NoneHasNoUser

\* The invariant implies the property.
LEMMA UsersInvNest ==
    ASSUME WSTyped, UsersInv
    PROVE  UsersNest
<1>. DEFINE L == Len(said)
            C == CreatedIn(said, L)
<1>1. L \in Nat /\ IsLog(said)
  BY Grows DEF UsersInv
<1>2. \A i : Created(i) = CreatedIn(said, i) /\ Left(i) = LeftIn(said, i)
  BY DEF Created, Left, SaidBy, CreatedIn, LeftIn, Creates, Leaves
<1>3. \A S, u : HadBy(S, u) = Cardinality(Had(said, S, u))
  BY DEF HadBy, Had, uID, UserOf
<1>4. \A j : uID(j) = UserOf(said[j])
  BY DEF uID, UserOf
<1>5. \A j \in Left(L) : HadBy(Left(j), uID(j)) <= HadBy(Created(j), uID(j))
  BY <1>2, <1>3, <1>4 DEF UsersInv, Nests
<1>6. ASSUME Serving
      PROVE  Cardinality(Created(L)) - Cardinality(Left(L))
                = (IF client.usr = 0 THEN 0 ELSE 1)
  <2>1. /\ Cardinality(CreatedIn(said, L)) \in Nat
        /\ Cardinality(LeftIn(said, L)) \in Nat
    BY <1>1, LogFinite
  <2>2. Cardinality(CreatedIn(said, L))
           = Cardinality(LeftIn(said, L)) + (IF client.usr = 0 THEN 0 ELSE 1)
    BY <1>6 DEF UsersInv, Settled
  <2>. HIDE DEF L
  <2>. QED  BY <1>2, <2>1, <2>2
<1>7. ASSUME ids.super <= FirstUsr, NEW i \in C
      PROVE  HadBy(C, uID(i)) = 1
  <2>1. \A j, k \in C : UserOf(said[j]) = UserOf(said[k]) => j = k
    BY <1>7 DEF UsersInv, Distinct
  <2>2. Had(said, C, UserOf(said[i])) = {i}
    <3>. HIDE DEF C
    <3>. QED  BY <1>7, <2>1 DEF Had
  <2>3. Cardinality({i}) = 1
    BY FS_Singleton
  <2>. QED  BY <1>3, <1>4, <2>2, <2>3
<1>. QED  BY <1>2, <1>5, <1>6, <1>7 DEF UsersNest

\* In the log each user is created once before it leaves and leaves when its
\* connection ends, for any number of connections and users, and its id is its
\* own as long as the super users' ids stay below the first ordinary one
\* (KClient.cpp:440-486, KClient_Chat.cpp:309-400).
THEOREM UsersInLog == Spec => []UsersNest
<1>1. Init => UsersInv
  BY UsersInit
<1>2. WSTyped /\ UsersInv /\ [Next]_vars => UsersInv'
  BY UsersSteps
<1>3. WSTyped /\ UsersInv => UsersNest
  BY UsersInvNest
<1>. QED  BY <1>1, <1>2, <1>3, Typing, PTL DEF Spec

-----------------------------------------------------------------------------
(* What is logged can be taken apart again *)

\* The fields of an entry.
LEMMA EntryFields ==
    ASSUME NEW i, NEW t, NEW a, NEW b, NEW f, NEW e, e = Entry(i, t, a, b, f)
    PROVE  /\ e.id = i /\ e.t = t /\ e.args = a /\ e.bytes = b
           /\ Legible(e) => f
<1>1. e = [id |-> i, t |-> t, args |-> a, bytes |-> b, faithful |-> f] BY DEF Entry
<1>2. /\ e.id = i /\ e.t = t /\ e.args = a /\ e.bytes = b /\ e.faithful = f BY <1>1
<1> QED BY <1>2 DEF Legible

\* A record that keeps what was meant can be read.
LEMMA EntryIs ==
    ASSUME NEW e, e.id \in IDs, NEW t, t \in Nat, e.t = t, NEW id, id \in IDs,
           NEW data, data \in Seq(Byte), NEW len, len \in Lengths,
           (len = Len(data) /\ Kept(e, id, data)) \/ CutShort(e, len, data),
           NEW b, b = Header(id, len) \o data, e.bytes = Time(t) \o b
    PROVE  EntryOK(e)
<1>1. Laid(e, b, id, len, data) BY Zenon DEF Laid
<1>2. IsWire(e, b) BY <1>1, Zenon DEF IsWire
<1>3. b \in Seq(Byte) BY <1>2, WireType
<1>4. Time(t) \in Seq(Byte)
  <2>1. UnixTime(t) \in Seq(Byte) BY WireOfTime
  <2> QED BY <2>1 DEF Time
<1>5. Time(t) \o b \in Seq(Byte) BY <1>3, <1>4
<1>6. Divides(e, b) BY <1>2, <1>3 DEF Divides
<1>7. e.bytes \in Seq(Byte) /\ e.t \in Nat BY <1>5
<1>8. \E c : Divides(e, c) BY <1>6, Zenon
<1> QED BY <1>7, <1>8 DEF EntryOK

\* The length of what is kept fits into two bytes.
LEMMA KeptLength ==
    ASSUME NEW e, NEW id, NEW data, data \in Seq(Byte), Kept(e, id, data)
    PROVE  Len(data) \in Lengths
<1>1. Len(data) \in Nat /\ Len(data) <= mc_bytes_pad BY DEF Kept
<1>2. mc_bytes_pad < EN_FLG_DataSz_PADover /\ EN_FLG_DataSz_PADover = 32768
      /\ mc_bytes_pad \in Nat
  BY SizeAssumption, PadAssumption DEF EN_FLG_DataSz_PADover
<1> HIDE DEF EN_FLG_DataSz_PADover
<1> QED BY <1>1, <1>2, SMT DEF Lengths

\* A record with its time.
LEMMA TimedIs ==
    ASSUME NEW e, e.id \in IDs, NEW t, t \in Nat \ {0}, e.t = t, NEW id, id \in IDs,
           NEW data, data \in Seq(Byte), NEW len, len = Len(data), Kept(e, id, data),
           e.bytes = (UnixTime(t) \o Header(id, len)) \o data
    PROVE  EntryOK(e)
<1>1. len \in Lengths BY KeptLength
<1>2. UnixTime(t) \in Seq(Byte) /\ Header(id, len) \in Seq(Byte) /\ data \in Seq(Byte)
  BY <1>1, HeaderBytes, WireOfTime
<1>3. e.bytes = UnixTime(t) \o (Header(id, len) \o data)
  <2>1. (UnixTime(t) \o Header(id, len)) \o data = UnixTime(t) \o (Header(id, len) \o data)
    BY ONLY <1>2, Regroup
  <2> QED BY <2>1
<1>4. Time(t) = UnixTime(t) /\ t \in Nat BY DEF Time
<1>5. e.bytes = Time(t) \o (Header(id, len) \o data) BY <1>3, <1>4
<1> QED BY <1>1, <1>4, <1>5, EntryIs

\* The same, written by WriteID_with_UnixTime.
LEMMA WrittenIs ==
    ASSUME NEW e, e.id \in IDs, NEW t, t \in Nat \ {0}, e.t = t, NEW id, id \in IDs,
           NEW data, data \in Seq(Byte), Len(data) <= mc_max_bytes_wrt, Kept(e, id, data),
           e.bytes = WriteID_wUT(id, data, t)
    PROVE  EntryOK(e)
<1> DEFINE len == Len(data)
<1>1. len \in Lengths BY KeptLength
<1>2. e.bytes = UnixTime(t) \o (Header(id, len) \o data) BY DEF WriteID_wUT, WriteID
<1>3. Time(t) = UnixTime(t) /\ t \in Nat BY DEF Time
<1> HIDE DEF len
<1>4. e.bytes = Time(t) \o (Header(id, len) \o data) BY <1>2, <1>3
<1>5. len = Len(data) BY DEF len
<1> QED BY <1>1, <1>3, <1>4, <1>5, EntryIs

-----------------------------------------------------------------------------
(* The ids that are logged *)

EventIds == {"CLOSE_Normal", "CLOSE_Abort", "ERR_KClient_Exausted", "ERR_on_Async_Accept",
             "ERR_Get_remote_endpoint", "ERR_on_Async_Read_Crt_WScktCnctn",
             "ERR_no_WebSocket_Key", "ERR_on_Async_Write_Crt_WScktCnctn",
             "REQ_LargeBuf_Exausted", "KUInfo_Exausted"}
SocketIds == {"ERR_on_Async_Read_WebSckt", "ERR_not_FIN_Recieved", "RCVD_CLOSE_opcode",
              "RCVD_PING_opcode", "ERR_on_Async_Write_WebSckt"}
BufIds == {"RCVD_Unhandle_opcode", "ERR_tooBig_Payload", "ERR_invalid_len_WS_pckt",
           "ERR_Miss_WriteBytes_onWS"}

\* Every place of the enumeration holds an id.
LEMMA PlaceOfId ==
    ASSUME NEW k \in 1..38
    PROVE  LogIDs[k] \in IDs
<1>1. k \in DOMAIN LogIDs BY DEF LogIDs
<1> QED BY <1>1 DEF IDs, ToSet

\* The ids without numbers.
LEMMA EventIdsAre == EventIds \subseteq IDs
<1>1. /\ LogIDs[3] = "CLOSE_Normal" /\ LogIDs[4] = "CLOSE_Abort"
      /\ LogIDs[16] = "ERR_KClient_Exausted" /\ LogIDs[17] = "ERR_on_Async_Accept"
      /\ LogIDs[18] = "ERR_Get_remote_endpoint"
      /\ LogIDs[19] = "ERR_on_Async_Read_Crt_WScktCnctn"
      /\ LogIDs[20] = "ERR_no_WebSocket_Key"
      /\ LogIDs[21] = "ERR_on_Async_Write_Crt_WScktCnctn"
      /\ LogIDs[32] = "REQ_LargeBuf_Exausted" /\ LogIDs[35] = "KUInfo_Exausted"
  BY DEF LogIDs
<1>2. /\ LogIDs[3] \in IDs /\ LogIDs[4] \in IDs /\ LogIDs[16] \in IDs
      /\ LogIDs[17] \in IDs /\ LogIDs[18] \in IDs /\ LogIDs[19] \in IDs
      /\ LogIDs[20] \in IDs /\ LogIDs[21] \in IDs /\ LogIDs[32] \in IDs
      /\ LogIDs[35] \in IDs
  BY PlaceOfId
<1> QED BY <1>1, <1>2 DEF EventIds

\* The ids with numbers.
LEMMA NumberIdsAre ==
    /\ SocketIds \subseteq IDs /\ BufIds \subseteq IDs
    /\ "REQ_LargeBuf" \in IDs /\ "Close_Usr" \in IDs
<1>1. /\ LogIDs[22] = "ERR_on_Async_Read_WebSckt" /\ LogIDs[23] = "ERR_not_FIN_Recieved"
      /\ LogIDs[24] = "RCVD_CLOSE_opcode" /\ LogIDs[25] = "RCVD_PING_opcode"
      /\ LogIDs[26] = "RCVD_Unhandle_opcode" /\ LogIDs[27] = "ERR_tooBig_Payload"
      /\ LogIDs[28] = "ERR_invalid_len_WS_pckt"
      /\ LogIDs[29] = "ERR_on_Async_Write_WebSckt"
      /\ LogIDs[30] = "ERR_Miss_WriteBytes_onWS" /\ LogIDs[31] = "REQ_LargeBuf"
      /\ LogIDs[38] = "Close_Usr"
  BY DEF LogIDs
<1>2. /\ LogIDs[22] \in IDs /\ LogIDs[23] \in IDs /\ LogIDs[24] \in IDs
      /\ LogIDs[25] \in IDs /\ LogIDs[26] \in IDs /\ LogIDs[27] \in IDs
      /\ LogIDs[28] \in IDs /\ LogIDs[29] \in IDs /\ LogIDs[30] \in IDs
      /\ LogIDs[31] \in IDs /\ LogIDs[38] \in IDs
  BY PlaceOfId
<1> QED BY <1>1, <1>2 DEF SocketIds, BufIds

\* The ids of strings, addresses and users.
LEMMA OtherIdsAre ==
    /\ {"STR", "ERR_STR"} \subseteq IDs
    /\ {"Push_devIP_v4", "Push_devIP_v6", "ChkIP_devIP_v4", "ChkIP_devIP_v6"} \subseteq IDs
    /\ {"ChkIP_v4", "ChkIP_v6", "NO_PMSN_InitRI_v4", "NO_PMSN_InitRI_v6"} \subseteq IDs
    /\ {"Chk_IP_many_times_cnct_v4", "Chk_IP_many_times_cnct_v6"} \subseteq IDs
    /\ {"Crt_Usr_v4", "Crt_Usr_v6"} \subseteq IDs
<1>1. /\ LogIDs[5] = "ERR_STR" /\ LogIDs[7] = "STR"
      /\ LogIDs[8] = "Push_devIP_v4" /\ LogIDs[9] = "Push_devIP_v6"
      /\ LogIDs[10] = "ChkIP_devIP_v4" /\ LogIDs[11] = "ChkIP_devIP_v6"
      /\ LogIDs[12] = "ChkIP_v4" /\ LogIDs[13] = "ChkIP_v6"
      /\ LogIDs[14] = "Chk_IP_many_times_cnct_v4"
      /\ LogIDs[15] = "Chk_IP_many_times_cnct_v6"
      /\ LogIDs[33] = "NO_PMSN_InitRI_v4" /\ LogIDs[34] = "NO_PMSN_InitRI_v6"
      /\ LogIDs[36] = "Crt_Usr_v4" /\ LogIDs[37] = "Crt_Usr_v6"
  BY DEF LogIDs
<1>2. /\ LogIDs[5] \in IDs /\ LogIDs[7] \in IDs /\ LogIDs[8] \in IDs
      /\ LogIDs[9] \in IDs /\ LogIDs[10] \in IDs /\ LogIDs[11] \in IDs
      /\ LogIDs[12] \in IDs /\ LogIDs[13] \in IDs /\ LogIDs[14] \in IDs
      /\ LogIDs[15] \in IDs /\ LogIDs[33] \in IDs /\ LogIDs[34] \in IDs
      /\ LogIDs[36] \in IDs /\ LogIDs[37] \in IDs
  BY PlaceOfId
<1> QED BY <1>1, <1>2

\* How many numbers a record has, by its id.
LEMMA NumbersAre ==
    /\ \A id \in EventIds : Numeric(id) /\ Numbers(id) = <<>>
    /\ \A id \in SocketIds : Numeric(id) /\ Numbers(id) = <<8>>
    /\ Numeric("RCVD_Unhandle_opcode") /\ Numbers("RCVD_Unhandle_opcode") = <<8, 1>>
    /\ Numeric("ERR_tooBig_Payload") /\ Numbers("ERR_tooBig_Payload") = <<8, 8>>
    /\ \A id \in {"ERR_invalid_len_WS_pckt", "ERR_Miss_WriteBytes_onWS"} :
          Numeric(id) /\ Numbers(id) = <<8, 8, 8>>
    /\ Numeric("REQ_LargeBuf") /\ Numbers("REQ_LargeBuf") = <<2>>
    /\ Numeric("Close_Usr") /\ Numbers("Close_Usr") = <<4>>
<1> USE DEF Strings, Users, IPv4s, IPv6s, Counted
<1>1. ASSUME NEW id \in EventIds PROVE Numeric(id) /\ Numbers(id) = <<>>
  <2>1. id \in IDs BY EventIdsAre
  <2>2. Numbers(id) = <<>> BY DEF EventIds, Numbers
  <2> QED BY <2>1, <2>2 DEF EventIds, Numeric
<1>2. ASSUME NEW id \in SocketIds PROVE Numeric(id) /\ Numbers(id) = <<8>>
  <2>1. id \in IDs BY NumberIdsAre
  <2>2. Numbers(id) = <<8>> BY DEF SocketIds, Numbers
  <2> QED BY <2>1, <2>2 DEF SocketIds, Numeric
<1>3. /\ Numbers("RCVD_Unhandle_opcode") = <<8, 1>>
      /\ Numbers("ERR_tooBig_Payload") = <<8, 8>>
      /\ Numbers("ERR_invalid_len_WS_pckt") = <<8, 8, 8>>
      /\ Numbers("ERR_Miss_WriteBytes_onWS") = <<8, 8, 8>>
      /\ Numbers("REQ_LargeBuf") = <<2>> /\ Numbers("Close_Usr") = <<4>>
  BY DEF Numbers
<1>4. /\ Numeric("RCVD_Unhandle_opcode") /\ Numeric("ERR_tooBig_Payload")
      /\ Numeric("ERR_invalid_len_WS_pckt") /\ Numeric("ERR_Miss_WriteBytes_onWS")
      /\ Numeric("REQ_LargeBuf") /\ Numeric("Close_Usr")
  BY NumberIdsAre DEF BufIds, Numeric
<1> HIDE DEF Strings, Users, IPv4s, IPv6s, Counted
<1> QED BY <1>1, <1>2, <1>3, <1>4

-----------------------------------------------------------------------------
(* Records of numbers *)

\* The clock is past zero.
LEMMA NowIs ==
    ASSUME IsLog(said)
    PROVE  now \in Nat \ {0}
<1>1. Len(said) \in Nat
  <2>1. PICK S : said \in Seq(S) BY DEF IsLog
  <2> QED BY <2>1, LenProperties
<1> QED BY <1>1 DEF now

\* A record without data.
LEMMA BareOK ==
    ASSUME NEW id, id \in EventIds, NEW t, t \in Nat \ {0}, NEW e,
           e = Entry(id, t, <<>>, WriteID_wUT(id, <<>>, t), TRUE)
    PROVE  EntryOK(e)
<1>1. e.id = id /\ e.t = t /\ e.args = <<>> /\ e.bytes = WriteID_wUT(id, <<>>, t)
  <2> DEFINE a == <<>>
             b == WriteID_wUT(id, <<>>, t)
             f == TRUE
  <2>1. e = Entry(id, t, a, b, f) OBVIOUS
  <2> HIDE DEF a, b, f
  <2>2. e.id = id /\ e.t = t /\ e.args = a /\ e.bytes = b BY ONLY <2>1, EntryFields
  <2> QED BY <2>2 DEF a, b
<1>2. id \in IDs /\ Numeric(id) /\ Numbers(id) = <<>> BY EventIdsAre, NumbersAre
<1>3. Kept(e, id, <<>>)
  <2>1. Legible(e) => e.id = id /\ e.args = <<>> BY <1>1
  <2> QED BY ONLY <1>2, <2>1, KeptNone
<1>4. <<>> \in Seq(Byte) /\ Len(<<>>) <= mc_max_bytes_wrt BY SizeAssumption, RecordAssumption
<1> QED BY <1>1, <1>2, <1>3, <1>4, WrittenIs

\* The id of a socket with what comes after it: eight bytes, the right ones if
\* nothing comes after it.
LEMMA PaddedIs ==
    ASSUME NEW s, s \in Nat, NEW pad, pad \in Nat
    PROVE  /\ LE(4, s) \o LE(4, pad) \in Seq(Byte) /\ Len(LE(4, s) \o LE(4, pad)) = 8
           /\ pad = 0 => Significant(LE(4, s) \o LE(4, pad)) = Significant(LE(8, s))
<1> DEFINE a == LE(4, s)
           b == LE(4, pad)
           c == LE(8, s)
<1>1. /\ a \in Seq(Byte) /\ Len(a) = 4 /\ b \in Seq(Byte) /\ Len(b) = 4
      /\ c \in Seq(Byte) /\ Len(c) = 8
  BY LEType
<1>2. \A i \in 1..4 :
         a[i] = IF i = 1 THEN s % 256 ELSE IF i = 2 THEN (s \div 256) % 256
                ELSE IF i = 3 THEN (s \div 65536) % 256 ELSE 0
  <2>1. 4 \in Nat OBVIOUS
  <2> QED BY <2>1, LEAt
<1>3. \A i \in 1..8 :
         c[i] = IF i = 1 THEN s % 256 ELSE IF i = 2 THEN (s \div 256) % 256
                ELSE IF i = 3 THEN (s \div 65536) % 256 ELSE 0
  <2>1. 8 \in Nat OBVIOUS
  <2> QED BY <2>1, LEAt
<1>4. \A i \in 1..4 : a[i] = c[i]
  <2>1. \A i \in 1..4 : i \in 1..8 OBVIOUS
  <2> HIDE DEF a, c
  <2> QED BY <1>2, <1>3, <2>1
<1>5. \A i \in 5..8 : c[i] = 0
  <2> HIDE DEF a, c
  <2> QED BY <1>3
<1>6. pad = 0 => \A i \in 1..4 : b[i] = 0
  <2>1. ASSUME pad = 0, NEW i \in 1..4 PROVE b[i] = 0
    <3>1. b[i] = IF i <= 3 THEN (0 \div 256^(i - 1)) % 256 ELSE 0 BY <2>1 DEF LE
    <3>2. 4 \in Nat /\ 0 \in Nat OBVIOUS
    <3>3. LE(4, 0)[i] = IF i = 1 THEN 0 % 256 ELSE IF i = 2 THEN (0 \div 256) % 256
                ELSE IF i = 3 THEN (0 \div 65536) % 256 ELSE 0
      BY <3>2, LEAt
    <3>4. b[i] = LE(4, 0)[i] BY <2>1
    <3> HIDE DEF b
    <3>5. LE(4, 0)[i] = 0 BY <3>3, SMT
    <3> QED BY <3>4, <3>5
  <2> QED BY <2>1
<1> HIDE DEF a, b, c
<1>7. /\ a \o b \in Seq(Byte) /\ Len(a \o b) = 8
      /\ \A i \in 1..8 : (i <= 4 => (a \o b)[i] = a[i]) /\ (i > 4 => (a \o b)[i] = b[i - 4])
  <2>1. a \in Seq(Byte) /\ Len(a) = 4 /\ b \in Seq(Byte) /\ Len(b) = 4 BY <1>1
  <2>2. a \o b \in Seq(Byte) /\ Len(a \o b) = Len(a) + Len(b) BY <2>1, ConcatProperties
  <2>3. ASSUME NEW i \in 1..8
        PROVE  (i <= 4 => (a \o b)[i] = a[i]) /\ (i > 4 => (a \o b)[i] = b[i - 4])
    BY <2>1, <2>2, ConcatProperties
  <2> QED BY <2>1, <2>2, <2>3
<1>8. ASSUME pad = 0 PROVE Significant(a \o b) = Significant(c)
  <2>1. ASSUME NEW i \in 1..8 PROVE (a \o b)[i] = c[i]
    <3>1. CASE i <= 4
      <4>1. i \in 1..4 BY <3>1
      <4>2. a[i] = c[i] BY <1>4, <4>1
      <4>3. (a \o b)[i] = a[i] BY <1>7, <3>1
      <4> QED BY <4>2, <4>3
    <3>2. CASE i > 4
      <4>1. i - 4 \in 1..4 /\ i \in 5..8 BY <3>2
      <4>2. c[i] = 0 BY <1>5, <4>1
      <4>3. (a \o b)[i] = b[i - 4] BY <1>7, <3>2
      <4>4. b[i - 4] = 0 BY <1>6, <1>8, <4>1
      <4> QED BY <4>2, <4>3, <4>4
    <3>3. i <= 4 \/ i > 4 OBVIOUS
    <3> QED BY <3>1, <3>2, <3>3, Zenon
  <2>2. a \o b = c
    <3>1. a \o b \in Seq(Byte) /\ c \in Seq(Byte) /\ Len(a \o b) = Len(c) BY <1>1, <1>7
    <3>2. \A i \in 1 .. Len(a \o b) : (a \o b)[i] = c[i] BY <1>7, <2>1
    <3> QED BY ONLY <3>1, <3>2, SameSeq
  <2> QED BY <2>2
<1> QED BY <1>7, <1>8 DEF a, b, c

\* A record with the id of a socket.
LEMMA ScktOK ==
    ASSUME NEW id, id \in SocketIds, NEW written, written \in SocketIds,
           NEW t, t \in Nat \ {0}, NEW pad, pad \in Nat, client.sckt \in Nat
    PROVE  EntryOK(Sckt(id, written, t, pad))
<1> DEFINE s == client.sckt
           d == LE(4, s) \o LE(4, pad)
           a == <<N(s)>>
           b == WriteID_wUT(written, d, t)
           g == id = written /\ pad = 0
           e == Sckt(id, written, t, pad)
<1>1. e = Entry(id, t, a, b, g) BY DEF Sckt
<1>2. s \in Nat OBVIOUS
<1> HIDE DEF s, e
<1>3. /\ d \in Seq(Byte) /\ Len(d) = 8
      /\ pad = 0 => Significant(d) = Significant(LE(8, s))
  BY <1>2, PaddedIs
<1> HIDE DEF d
<1>4. /\ e.id = id /\ e.t = t /\ e.args = a /\ e.bytes = b
      /\ Legible(e) => g
  <2> HIDE DEF a, b, g
  <2> QED BY ONLY <1>1, EntryFields
<1>5. id \in IDs /\ written \in IDs /\ Numeric(written) /\ Numbers(written) = <<8>>
  BY NumberIdsAre, NumbersAre
<1>6. Kept(e, written, d)
  <2>1. Legible(e) => /\ e.id = written /\ e.args = <<N(s)>>
                      /\ Significant(d) = Significant(LE(8, s))
    BY <1>3, <1>4
  <2>2. 8 \in 1..8 OBVIOUS
  <2> QED BY ONLY <1>3, <1>5, <2>1, <2>2, KeptOne
<1>7. Len(d) <= mc_max_bytes_wrt BY <1>3, SizeAssumption, RecordAssumption
<1>8. EntryOK(e) BY <1>3, <1>4, <1>5, <1>6, <1>7, WrittenIs
<1> QED BY <1>8 DEF e

-----------------------------------------------------------------------------
(* Records from the buffer of an error *)

Buffers == [1..24 -> Byte]

\* After the n bytes b comes what fills the buffer f.
Followed(f, n, b) ==
    \E c \in Seq(Byte) : Len(c) = 24 - n /\ SubSeq(f, 1, 24) = b \o c

\* The buffer, filled from its start, keeps its size; what was there before
\* follows.
LEMMA FilledIs ==
    ASSUME errbuf \in Buffers, NEW words, NEW b, b = FlattenSeq(words), b \in Seq(Byte),
           NEW n, n \in 0..24, n = Len(b)
    PROVE  /\ Filled(words) \in Buffers /\ Filled(words) \in Seq(Byte)
           /\ Len(Filled(words)) = 24 /\ SubSeq(Filled(words), 1, n) = b
           /\ Followed(Filled(words), n, b)
<1> DEFINE k == n + 1
           m == 24 - n
           c == SubSeq(errbuf, k, 24)
           f == b \o c
<1>1. k \in Int /\ 24 \in Int /\ k \in 1..25 /\ m \in Nat /\ n + m = 24
      /\ (IF k <= 24 THEN 24 - k + 1 ELSE 0) = m
  BY ONLY n \in 0..24
<1>2. \A i \in k..24 : errbuf[i] \in Byte
  <2>1. \A i \in 1..24 : errbuf[i] \in Byte BY DEF Buffers
  <2>2. \A i \in k..24 : i \in 1..24
    <3> HIDE DEF k
    <3> QED BY ONLY <1>1
  <2> QED BY <2>1, <2>2
<1>3. Filled(words) = f BY DEF Filled
<1> HIDE DEF k, m
<1>4. c \in Seq(Byte) /\ Len(c) = m
  <2>1. /\ SubSeq(errbuf, k, 24) \in Seq(Byte)
        /\ Len(SubSeq(errbuf, k, 24)) = IF k <= 24 THEN 24 - k + 1 ELSE 0
    BY ONLY <1>1, <1>2, SubSeqProperties
  <2>2. c = SubSeq(errbuf, k, 24) OBVIOUS
  <2> HIDE DEF c
  <2> QED BY <1>1, <2>1, <2>2
<1> HIDE DEF c
<1>5. f \in Seq(Byte) /\ Len(f) = Len(b) + Len(c) /\ SubSeq(f, 1, Len(b)) = b
  BY ONLY b \in Seq(Byte), <1>4, Joined
<1> HIDE DEF f
<1>6. Len(f) = 24 BY <1>1, <1>4, <1>5
<1>7. f \in Buffers
  <2>1. f \in [1 .. Len(f) -> Byte] BY <1>5, LenProperties
  <2> QED BY <1>6, <2>1 DEF Buffers
<1>8. SubSeq(f, 1, 24) = f
  <2>1. SubSeq(f, 1, Len(f)) = f BY ONLY <1>5, PrefixEnds
  <2> QED BY <1>6, <2>1
<1>9. SubSeq(f, 1, 24) = b \o c BY <1>8 DEF f
<1>10. SubSeq(f, 1, n) = b BY <1>5
<1>11. Len(c) = 24 - n BY <1>4 DEF m
<1>12. \E d \in Seq(Byte) : Len(d) = 24 - n /\ SubSeq(f, 1, 24) = b \o d
  BY <1>4, <1>9, <1>11, Zenon
<1>13. Followed(f, n, b) BY <1>12 DEF Followed
<1> QED BY <1>3, <1>5, <1>6, <1>7, <1>10, <1>13

\* No record, or one that can be read.
OKs(es) == es = <<>> \/ \E e : EntryOK(e) /\ es = <<e>>

\* The data d of two or three words.
OfTwo(d, a, b, ws) == d = a \o b /\ ws = <<a, b>>
OfThree(d, a, b, c, ws) == d = (a \o b) \o c /\ ws = <<a, b, c>>

\* A word of eight bytes, and another or a byte.
LEMMA TwoWords ==
    ASSUME NEW a, a \in Seq(Byte), Len(a) = 8, NEW b, b \in Seq(Byte),
           NEW d, NEW ws, OfTwo(d, a, b, ws)
    PROVE  /\ d \in Seq(Byte) /\ d = FlattenSeq(ws)
           /\ Len(b) = 8 => 16 = Len(d)
           /\ Len(b) = 1 => 9 = Len(d)
<1> USE DEF OfTwo
<1>1. FlattenSeq(ws) = d BY FlattenTwo
<1>2. a \o b \in Seq(Byte) /\ Len(a \o b) = Len(a) + Len(b) BY Joined
<1>3. d \in Seq(Byte) /\ Len(d) = Len(a) + Len(b) BY <1>2
<1>4. ASSUME Len(b) = 8 PROVE 16 = Len(d) BY <1>3, <1>4
<1>5. ASSUME Len(b) = 1 PROVE 9 = Len(d) BY <1>3, <1>5
<1> QED BY <1>1, <1>3, <1>4, <1>5

\* Three words.
LEMMA ThreeWords ==
    ASSUME NEW a, a \in Seq(Byte), Len(a) = 8, NEW b, b \in Seq(Byte), Len(b) = 8,
           NEW c, c \in Seq(Byte), Len(c) = 8, NEW d, NEW ws, OfThree(d, a, b, c, ws)
    PROVE  d \in Seq(Byte) /\ 24 = Len(d) /\ d = FlattenSeq(ws)
<1> USE DEF OfThree
<1> DEFINE ab == a \o b
<1>1. ab \in Seq(Byte) /\ Len(ab) = Len(a) + Len(b) BY Joined
<1>2. FlattenSeq(ws) = d
  <2>1. ThreeJoined(Byte, a, b, c) BY FlattenFew
  <2> QED BY <2>1 DEF ThreeJoined
<1> HIDE DEF ab
<1>3. ab \o c \in Seq(Byte) /\ Len(ab \o c) = Len(ab) + Len(c)
  BY ONLY <1>1, c \in Seq(Byte), Joined
<1>4. d = ab \o c BY DEF ab
<1>5. Len(ab) = 16 BY <1>1
<1>6. Len(ab \o c) = 24 BY <1>3, <1>5
<1> QED BY <1>2, <1>3, <1>4, <1>6

\* The data of a record of numbers are never cut.
LEMMA RoomForWords ==
    ASSUME NEW n, n \in 0..24, NEW d, n = Len(d)
    PROVE  Len(d) <= mc_max_bytes_wrt
<1>1. mc_max_bytes_wrt >= 24 BY SizeAssumption
<1>2. mc_max_bytes_wrt \in Int BY RecordAssumption, SMT
<1>3. n <= mc_max_bytes_wrt BY ONLY <1>1, <1>2, n \in 0..24
<1> QED BY <1>3

\* The words of a number.
LEMMA WordIs ==
    ASSUME NEW n, n \in Nat
    PROVE  W(n) = LE(8, n) /\ W(n) \in Seq(Byte) /\ Len(W(n)) = 8
<1>1. 8 \in Nat OBVIOUS
<1>2. LE(8, n) \in Seq(Byte) /\ Len(LE(8, n)) = 8 BY ONLY <1>1, n \in Nat, LEType
<1> QED BY <1>2 DEF W

\* A frame of the wrong length.
LEMMA InvalidLenOK ==
    ASSUME errbuf \in Buffers, client.sckt \in Nat, now \in Nat \ {0},
           NEW n, n \in Nat, NEW len, len \in Nat, NEW true
    PROVE  InvalidLen(n, len, true).buf \in Buffers /\ OKs(InvalidLen(n, len, true).entry)
<1> DEFINE s == client.sckt
           t == now
           id == "ERR_invalid_len_WS_pckt"
           A == W(s)
           B == W(n)
           C == W(len)
           d == (A \o B) \o C
           ws == <<A, B, C>>
           f == Filled(ws)
           args == <<N(s), N(n), N(true)>>
           g == len = true
           by == WriteID_wUT(id, SubSeq(f, 1, 24), t)
           e == Entry(id, t, args, by, g)
<1>1. InvalidLen(n, len, true) = [buf |-> f, entry |-> <<e>>]
  BY DEF InvalidLen, FromBuf
<1>2. s \in Nat /\ t \in Nat \ {0} OBVIOUS
<1> HIDE DEF s, t
<1>3. /\ A \in Seq(Byte) /\ Len(A) = 8 /\ B \in Seq(Byte) /\ Len(B) = 8
      /\ C \in Seq(Byte) /\ Len(C) = 8
  BY <1>2, WordIs
<1>13. A = LE(8, s) /\ B = LE(8, n) /\ C = LE(8, len)
  BY <1>2, WordIs
<1> HIDE DEF A, B, C
<1>4. d = FlattenSeq(ws) /\ d \in Seq(Byte) /\ 24 = Len(d)
  <2>1. OfThree(d, A, B, C, ws) BY DEF OfThree
  <2> HIDE DEF d, ws
  <2> QED BY ONLY <1>3, <2>1, ThreeWords
<1>5. f \in Buffers /\ SubSeq(f, 1, 24) = d
  <2>1. errbuf \in Buffers /\ 24 \in 0..24 /\ d = FlattenSeq(ws) /\ d \in Seq(Byte)
        /\ 24 = Len(d)
    BY <1>4
  <2> HIDE DEF ws, d
  <2> QED BY ONLY <2>1, FilledIs
<1> HIDE DEF f, ws
<1>6. /\ e.id = id /\ e.t = t /\ e.args = args /\ e.bytes = by
      /\ Legible(e) => g
  <2>1. e = Entry(id, t, args, by, g) OBVIOUS
  <2> HIDE DEF args, by, g, e
  <2> QED BY ONLY <2>1, EntryFields
<1>7. by = WriteID_wUT(id, d, t) BY <1>5
<1>8. id \in IDs /\ Numeric(id) /\ Numbers(id) = <<8, 8, 8>> BY NumberIdsAre, NumbersAre DEF BufIds
<1> HIDE DEF by, e, id
<1>9. Kept(e, id, d)
  <2>1. Legible(e) => /\ e.id = id /\ e.args = <<N(s), N(n), N(true)>>
                      /\ Significant(A) = Significant(LE(8, s))
                      /\ Significant(B) = Significant(LE(8, n))
                      /\ Significant(C) = Significant(LE(8, true))
    BY <1>13, <1>6
  <2> QED BY ONLY <1>3, <1>8, <2>1, KeptThree
<1>10. Len(d) <= mc_max_bytes_wrt
  <2>1. 24 \in 0..24 OBVIOUS
  <2> QED BY ONLY <1>4, <2>1, RoomForWords
<1> HIDE DEF d, args
<1>11. EntryOK(e) BY <1>2, <1>4, <1>6, <1>7, <1>8, <1>9, <1>10, WrittenIs
<1>12. InvalidLen(n, len, true).buf = f /\ InvalidLen(n, len, true).entry = <<e>>
  BY <1>1
<1> QED BY <1>5, <1>11, <1>12 DEF OKs

\* The entry e is made of the n bytes d at the start of the buffer b.
OfBuf(e, id, args, b, n, t, g, d) ==
    /\ e = FromBuf(id, args, b, n, t, g)
    /\ n = Len(d) /\ SubSeq(b, 1, n) = d

\* A record of the first bytes of a buffer.
LEMMA FromBufIs ==
    ASSUME NEW id, id \in IDs, NEW args, NEW b, NEW n, n \in 0..24, NEW t, t \in Nat \ {0},
           NEW g, NEW d, d \in Seq(Byte), NEW e, OfBuf(e, id, args, b, n, t, g, d)
    PROVE  /\ e.id = id /\ e.args = args /\ (Legible(e) => g)
           /\ Kept(e, id, d) => EntryOK(e)
<1> USE DEF OfBuf
<1> DEFINE by == WriteID_wUT(id, SubSeq(b, 1, n), t)
<1>1. e = Entry(id, t, args, by, g) BY DEF FromBuf
<1>2. by = WriteID_wUT(id, d, t) OBVIOUS
<1> HIDE DEF by
<1>3. /\ e.id = id /\ e.t = t /\ e.args = args /\ e.bytes = by /\ (Legible(e) => g)
  BY ONLY <1>1, EntryFields
<1>4. Len(d) <= mc_max_bytes_wrt
  <2>1. n \in 0..24 /\ n = Len(d) OBVIOUS
  <2> QED BY ONLY <2>1, RoomForWords
<1>5. ASSUME Kept(e, id, d) PROVE EntryOK(e) BY <1>2, <1>3, <1>4, <1>5, WrittenIs
<1> QED BY <1>3, <1>5

\* A payload that is too big.
LEMMA TooBigOK ==
    ASSUME errbuf \in Buffers, client.sckt \in Nat, now \in Nat \ {0},
           NEW word, word \in Seq(Byte), Len(word) = 8, NEW true, NEW g,
           g => word = LE(8, true)
    PROVE  TooBig(word, true, g).buf \in Buffers /\ OKs(TooBig(word, true, g).entry)
<1> DEFINE s == client.sckt
           t == now
           id == "ERR_tooBig_Payload"
           A == W(s)
           d == A \o word
           ws == <<A, word>>
           f == Filled(ws)
           args == <<N(s), N(true)>>
           e == FromBuf(id, args, f, 16, t, g)
<1>1. TooBig(word, true, g) = [buf |-> f, entry |-> <<e>>] BY DEF TooBig
<1>2. s \in Nat /\ t \in Nat \ {0} OBVIOUS
<1> HIDE DEF s, t
<1>3. A \in Seq(Byte) /\ Len(A) = 8 BY <1>2, WordIs
<1>4. A = LE(8, s) BY <1>2, WordIs
<1> HIDE DEF A
<1>5. d = FlattenSeq(ws) /\ d \in Seq(Byte) /\ 16 = Len(d)
  <2>1. OfTwo(d, A, word, ws) BY DEF OfTwo
  <2>2. word \in Seq(Byte) /\ Len(word) = 8 OBVIOUS
  <2> HIDE DEF d, ws
  <2> QED BY ONLY <1>3, <2>1, <2>2, TwoWords
<1>6. f \in Buffers /\ SubSeq(f, 1, 16) = d
  <2>1. errbuf \in Buffers /\ 16 \in 0..24 OBVIOUS
  <2> HIDE DEF ws, d
  <2> QED BY ONLY <1>5, <2>1, FilledIs
<1> HIDE DEF f, ws, e
<1>7. id \in IDs /\ Numeric(id) /\ Numbers(id) = <<8, 8>> BY NumberIdsAre, NumbersAre DEF BufIds
<1> HIDE DEF id
<1>8. /\ e.id = id /\ e.args = args /\ (Legible(e) => g)
      /\ Kept(e, id, d) => EntryOK(e)
  <2>1. OfBuf(e, id, args, f, 16, t, g, d)
    <3>1. e = FromBuf(id, args, f, 16, t, g) BY DEF e
    <3> HIDE DEF args
    <3> QED BY <1>5, <1>6, <3>1 DEF OfBuf
  <2>3. 16 \in 0..24 /\ d \in Seq(Byte) BY <1>5
  <2> HIDE DEF args, d
  <2> QED BY ONLY <1>2, <1>7, <2>1, <2>3, FromBufIs
<1>9. Kept(e, id, d)
  <2>1. Legible(e) => /\ e.id = id /\ e.args = <<N(s), N(true)>>
                      /\ Significant(A) = Significant(LE(8, s))
                      /\ Significant(word) = Significant(LE(8, true))
    BY <1>4, <1>8
  <2>2. 8 \in 1..8 /\ word \in Seq(Byte) /\ Len(word) = 8 OBVIOUS
  <2> QED BY ONLY <1>3, <1>7, <2>1, <2>2, KeptTwo
<1>10. TooBig(word, true, g).buf = f /\ TooBig(word, true, g).entry = <<e>> BY <1>1
<1> QED BY <1>6, <1>8, <1>9, <1>10 DEF OKs

\* An opcode that is not handled.
LEMMA OpcodeOK ==
    ASSUME errbuf \in Buffers, client.sckt \in Nat, now \in Nat \ {0},
           NEW op, op \in Byte
    PROVE  UnhandledOpcode(op).buf \in Buffers /\ OKs(UnhandledOpcode(op).entry)
<1> DEFINE s == client.sckt
           t == now
           id == "RCVD_Unhandle_opcode"
           A == W(s)
           B == <<op>>
           d == A \o B
           ws == <<A, B>>
           f == Filled(ws)
           args == <<N(s), N(op)>>
           g == TRUE
           e == FromBuf(id, args, f, 9, t, g)
<1>1. UnhandledOpcode(op) = [buf |-> f, entry |-> <<e>>] BY DEF UnhandledOpcode
<1>2. s \in Nat /\ t \in Nat \ {0} OBVIOUS
<1> HIDE DEF s, t
<1>3. A \in Seq(Byte) /\ Len(A) = 8 BY <1>2, WordIs
<1>4. A = LE(8, s) BY <1>2, WordIs
<1> HIDE DEF A
<1>11. B \in Seq(Byte) /\ Len(B) = 1 OBVIOUS
<1>12. Significant(B) = Significant(LE(8, op))
  <2>1. op \in Nat /\ op \in Byte BY SMT DEF Byte
  <2>2. SameNumber(<<op>>, LE(8, op)) BY ONLY <2>1, FewerBytes
  <2> QED BY <2>2 DEF SameNumber
<1> HIDE DEF B
<1>5. d = FlattenSeq(ws) /\ d \in Seq(Byte) /\ 9 = Len(d)
  <2>1. OfTwo(d, A, B, ws) BY DEF OfTwo
  <2> HIDE DEF d, ws
  <2> QED BY ONLY <1>3, <1>11, <2>1, TwoWords
<1>6. f \in Buffers /\ SubSeq(f, 1, 9) = d
  <2>1. errbuf \in Buffers /\ 9 \in 0..24 OBVIOUS
  <2> HIDE DEF ws, d
  <2> QED BY ONLY <1>5, <2>1, FilledIs
<1> HIDE DEF f, ws, e
<1>7. id \in IDs /\ Numeric(id) /\ Numbers(id) = <<8, 1>> BY NumberIdsAre, NumbersAre DEF BufIds
<1> HIDE DEF id
<1>8. /\ e.id = id /\ e.args = args
      /\ Kept(e, id, d) => EntryOK(e)
  <2>1. OfBuf(e, id, args, f, 9, t, g, d)
    <3>1. e = FromBuf(id, args, f, 9, t, g) BY DEF e
    <3> HIDE DEF args, g
    <3> QED BY <1>5, <1>6, <3>1 DEF OfBuf
  <2>3. 9 \in 0..24 /\ d \in Seq(Byte) BY <1>5
  <2> HIDE DEF args, d, g
  <2> QED BY ONLY <1>2, <1>7, <2>1, <2>3, FromBufIs
<1>9. Kept(e, id, d)
  <2>1. Legible(e) => /\ e.id = id /\ e.args = <<N(s), N(op)>>
                      /\ Significant(A) = Significant(LE(8, s))
                      /\ Significant(B) = Significant(LE(8, op))
    BY <1>4, <1>8, <1>12
  <2>2. 1 \in 1..8 OBVIOUS
  <2> QED BY ONLY <1>3, <1>7, <1>11, <2>1, <2>2, KeptTwo
<1>10. UnhandledOpcode(op).buf = f /\ UnhandledOpcode(op).entry = <<e>> BY <1>1
<1> QED BY <1>6, <1>8, <1>9, <1>10 DEF OKs

\* A reply of which not all was written: the buffer holds a word less.
LEMMA MissWriteOK ==
    ASSUME errbuf \in Buffers, client.sckt \in Nat, ms_time_atRead_asWS \in Nat \ {0},
           NEW n, n \in Nat
    PROVE  MissWrite(n).buf \in Buffers /\ OKs(MissWrite(n).entry)
<1> DEFINE s == client.sckt
           t == ms_time_atRead_asWS
           id == "ERR_Miss_WriteBytes_onWS"
           A == W(s)
           B == W(n)
           h == A \o B
           ws == <<A, B>>
           f == Filled(ws)
           args == <<N(s), N(client.wrt), N(n)>>
           g == FALSE
           e == FromBuf(id, args, f, 24, t, g)
<1>1. MissWrite(n) = [buf |-> f, entry |-> <<e>>] BY DEF MissWrite
<1>2. s \in Nat /\ t \in Nat \ {0} OBVIOUS
<1> HIDE DEF s, t
<1>3. A \in Seq(Byte) /\ Len(A) = 8 /\ B \in Seq(Byte) /\ Len(B) = 8 BY <1>2, WordIs
<1> HIDE DEF A, B
<1>5. h = FlattenSeq(ws) /\ h \in Seq(Byte) /\ 16 = Len(h)
  <2>1. OfTwo(h, A, B, ws) BY DEF OfTwo
  <2> HIDE DEF h, ws
  <2> QED BY ONLY <1>3, <2>1, TwoWords
<1>6. f \in Buffers /\ Followed(f, 16, h)
  <2>1. errbuf \in Buffers /\ 16 \in 0..24 OBVIOUS
  <2> HIDE DEF ws, h
  <2> QED BY ONLY <1>5, <2>1, FilledIs
<1> HIDE DEF f, ws, e
<1>11. PICK c : c \in Seq(Byte) /\ Len(c) = 24 - 16 /\ SubSeq(f, 1, 24) = h \o c
  BY <1>6 DEF Followed
<1> DEFINE d == h \o c
<1>12. c \in Seq(Byte) /\ Len(c) = 8 BY <1>11
<1>13. d \in Seq(Byte) /\ 24 = Len(d) /\ SubSeq(f, 1, 24) = d
  <2>1. OfThree(d, A, B, c, <<A, B, c>>) BY DEF OfThree
  <2>2. SubSeq(f, 1, 24) = d BY <1>11
  <2> HIDE DEF d
  <2>3. d \in Seq(Byte) /\ 24 = Len(d) BY ONLY <1>3, <1>12, <2>1, ThreeWords
  <2> QED BY <2>2, <2>3
<1>7. id \in IDs /\ Numeric(id) /\ Numbers(id) = <<8, 8, 8>>
  BY NumberIdsAre, NumbersAre DEF BufIds
<1> HIDE DEF id
<1>8. /\ ~Legible(e)
      /\ Kept(e, id, d) => EntryOK(e)
  <2>1. OfBuf(e, id, args, f, 24, t, g, d)
    <3>1. e = FromBuf(id, args, f, 24, t, g) BY DEF e
    <3> HIDE DEF args, g
    <3> QED BY <1>13, <3>1 DEF OfBuf
  <2>3. 24 \in 0..24 /\ d \in Seq(Byte) BY <1>13
  <2>2. (Legible(e) => g) /\ (Kept(e, id, d) => EntryOK(e))
    <3> HIDE DEF args, d, g
    <3> QED BY ONLY <1>2, <1>7, <2>1, <2>3, FromBufIs
  <2> QED BY <2>2
<1>9. Kept(e, id, (A \o B) \o c)
  <2>1. Legible(e) => /\ e.id = id /\ e.args = <<N(0), N(0), N(0)>>
                      /\ Significant(A) = Significant(LE(8, 0))
                      /\ Significant(B) = Significant(LE(8, 0))
                      /\ Significant(c) = Significant(LE(8, 0))
    BY <1>8
  <2> QED BY ONLY <1>3, <1>7, <1>12, <2>1, KeptThree
<1>10. MissWrite(n).buf = f /\ MissWrite(n).entry = <<e>> BY <1>1
<1> QED BY <1>6, <1>8, <1>9, <1>10 DEF OKs

\* The bytes of a long length are eight.
LEMMA LongLengthIs ==
    ASSUME NEW f \in Frames, NEW n \in Nat
    PROVE  LongLength(f, n) \in Seq(Byte) /\ Len(LongLength(f, n)) = 8
<1> DEFINE l == f.len
           Cell(i) == IF i <= 4 \/ n < i + 2 THEN 0
                      ELSE LET p == 8 - i IN IF p > 3 THEN 0 ELSE (l \div 256^p) % 256
<1>1. l \in Nat BY ClientAssumption
<1>2. LongLength(f, n) = [i \in 1..8 |-> Cell(i)] BY DEF LongLength
<1> HIDE DEF l
<1>3. ASSUME NEW i \in 1..8 PROVE Cell(i) \in Byte
  <2>1. CASE i <= 4 \/ n < i + 2
    <3>1. Cell(i) = 0 BY <2>1
    <3> HIDE DEF Cell
    <3> QED BY <3>1, SMT DEF Byte
  <2>2. ASSUME ~(i <= 4 \/ n < i + 2), NEW k, k \in Nat \ {0}, 256^(8 - i) = k
        PROVE  Cell(i) \in Byte
    <3>1. ~(8 - i > 3) BY <2>2
    <3>2. Cell(i) = (l \div k) % 256 BY <2>2, <3>1
    <3>3. (l \div k) % 256 \in 0..255 BY <1>1, <2>2, SMT
    <3> HIDE DEF Cell
    <3> QED BY <3>2, <3>3 DEF Byte
  <2>3. ASSUME ~(i <= 4 \/ n < i + 2) PROVE 256^(8 - i) \in Nat \ {0}
    <3>1. i = 5 \/ i = 6 \/ i = 7 \/ i = 8 BY <2>3, SMT
    <3>2. CASE i = 5 BY <3>2, SMT
    <3>3. CASE i = 6 BY <3>3, SMT
    <3>4. CASE i = 7 BY <3>4, SMT
    <3>5. CASE i = 8 BY <3>5, SMT
    <3> QED BY <3>1, <3>2, <3>3, <3>4, <3>5, Zenon
  <2> HIDE DEF Cell
  <2> QED BY <2>1, <2>2, <2>3
<1> HIDE DEF Cell
<1>4. [i \in 1..8 |-> Cell(i)] \in [1..8 -> Byte] BY <1>3
<1>5. 8 \in Nat OBVIOUS
<1> HIDE DEF Byte
<1>6. LongLength(f, n) \in [1..8 -> Byte] BY <1>2, <1>4
<1> QED BY ONLY <1>5, <1>6, FunctionIsSeq

\* A length in host order is a number.
LEMMA PayloadNat ==
    ASSUME NEW f \in Frames
    PROVE  bytes_payload(f) \in Nat /\ f.len \in Nat /\ f.op \in Byte
<1>1. f.len \in Nat BY ClientAssumption
<1>2. bytes_payload(f) \in Nat BY <1>1, SMT DEF bytes_payload
<1>3. f.op \in 0..15 BY WireAssumption
<1>4. f.op \in Byte BY <1>3, SMT DEF Byte
<1> QED BY <1>1, <1>2, <1>4

\* What is wrong with a frame is a record that can be read.
LEMMA CheckedOK ==
    ASSUME errbuf \in Buffers, client.sckt \in Nat, now \in Nat \ {0},
           NEW f \in Frames, NEW n \in Nat, NEW pad \in Nat
    PROVE  OKs(Checked(f, n, pad).entry) /\ Checked(f, n, pad).buf \in Buffers
<1>. DEFINE c     == Checked(f, n, pad)
            short == n < 6
            p9    == f.op = 9
            p2    == f.op # 2
            long  == f.len >= 65536
            miss  == Mismatch(f, n)
            big   == bytes_payload(f) > BYTES_MAX_Payload
            same  == bytes_payload(f) = f.len
            e1 == InvalidLen(n, 0, 0)
            e2 == OnlyId("ERR_not_FIN_Recieved", pad)
            e3 == OnlyId("RCVD_CLOSE_opcode", pad)
            e4 == OnlyId("RCVD_PING_opcode", pad)
            e5 == UnhandledOpcode(f.op)
            e6 == TooBig(LongLength(f, n), f.len, FALSE)
            e7 == InvalidLen(n, bytes_payload(f), f.len)
            e8 == TooBig(W(bytes_payload(f)), f.len, same)
            e9 == [buf |-> errbuf, entry |-> <<>>]
            OK(e) == OKs(e.entry) /\ e.buf \in Buffers
<1>1. c = IF short THEN e1 ELSE IF ~f.fin THEN e2 ELSE IF f.op = 8 THEN e3
          ELSE IF p9 THEN e4 ELSE IF p2 THEN e5
          ELSE IF long THEN e6 ELSE IF miss THEN e7 ELSE IF big THEN e8 ELSE e9
  BY DEF Checked
<1>0. bytes_payload(f) \in Nat /\ f.len \in Nat /\ f.op \in Byte BY PayloadNat
<1>2. OK(e1) /\ OK(e7)
  <2>1. 0 \in Nat OBVIOUS
  <2> QED BY <1>0, <2>1, InvalidLenOK
<1>3. ASSUME NEW id \in {"ERR_not_FIN_Recieved", "RCVD_CLOSE_opcode", "RCVD_PING_opcode"}
      PROVE  OK(OnlyId(id, pad))
  <2>1. id \in SocketIds BY DEF SocketIds
  <2>2. EntryOK(Sckt(id, id, now, pad)) BY <2>1, ScktOK
  <2>3. /\ OnlyId(id, pad).entry = <<Sckt(id, id, now, pad)>> /\ OnlyId(id, pad).buf = errbuf
    BY DEF OnlyId
  <2> QED BY <2>2, <2>3 DEF OKs
<1>4. OK(e5) BY <1>0, OpcodeOK
<1>5. OK(e6)
  <2>1. LongLength(f, n) \in Seq(Byte) /\ Len(LongLength(f, n)) = 8 BY LongLengthIs
  <2> DEFINE g == FALSE
  <2>2. g => LongLength(f, n) = LE(8, f.len) OBVIOUS
  <2>4. e6 = TooBig(LongLength(f, n), f.len, g) OBVIOUS
  <2> HIDE DEF g, e6
  <2>3. TooBig(LongLength(f, n), f.len, g).buf \in Buffers /\ OKs(TooBig(LongLength(f, n), f.len, g).entry)
    BY <2>1, <2>2, TooBigOK
  <2> QED BY <2>3, <2>4
<1>6. OK(e8)
  <2> DEFINE w == W(bytes_payload(f))
  <2>1. w \in Seq(Byte) /\ Len(w) = 8 /\ w = LE(8, bytes_payload(f)) BY <1>0, WordIs
  <2>2. same => w = LE(8, f.len) BY <2>1
  <2> HIDE DEF w, same
  <2>3. TooBig(w, f.len, same).buf \in Buffers /\ OKs(TooBig(w, f.len, same).entry)
    BY <2>1, <2>2, TooBigOK
  <2> QED BY <2>3 DEF w
<1>7. OK(e9) BY DEF OKs
<1>8. OK(e2) /\ OK(e3) /\ OK(e4)
  <2> HIDE DEF OK
  <2> QED BY <1>3
<1>. HIDE DEF c, short, p9, p2, long, miss, big, e1, e2, e3, e4, e5, e6, e7, e8, e9, OK
<1>9. \/ c = e1 \/ c = e2 \/ c = e3 \/ c = e4 \/ c = e5 \/ c = e6 \/ c = e7 \/ c = e8
      \/ c = e9
  BY <1>1, Zenon
<1>10. OK(c) BY <1>2, <1>4, <1>5, <1>6, <1>7, <1>8, <1>9, Zenon
<1>. QED  BY <1>10 DEF c, OK

-----------------------------------------------------------------------------
(* Records of users and addresses *)

\* A user leaves.
LEMMA LeavingOK ==
    ASSUME client.usr \in Nat, NEW t, t \in Nat \ {0}
    PROVE  OKs(Leaving(t))
<1> DEFINE u == client.usr
           id == "Close_Usr"
           d == LE(4, u)
           a == <<N(u)>>
           b == Wrt_uID_wUT(id, u, t)
           g == TRUE
           e == Entry(id, t, a, b, g)
<1>1. Leaving(t) = IF u = 0 THEN <<>> ELSE <<e>> BY DEF Leaving
<1>2. u \in Nat OBVIOUS
<1> HIDE DEF u
<1>3. d \in Seq(Byte) /\ Len(d) = 4
  <2>1. 4 \in Nat OBVIOUS
  <2> QED BY <1>2, <2>1, LEType
<1>4. Significant(d) = Significant(LE(8, u))
  <2>1. SameNumber(LE(4, u), LE(8, u)) BY <1>2, FewerBytes
  <2> QED BY <2>1 DEF SameNumber
<1>5. e.id = id /\ e.t = t /\ e.args = a /\ e.bytes = b
  <2>1. e = Entry(id, t, a, b, g) OBVIOUS
  <2> HIDE DEF a, b, g, e
  <2> QED BY ONLY <2>1, EntryFields
<1>6. id \in IDs /\ Numeric(id) /\ Numbers(id) = <<4>> BY NumberIdsAre, NumbersAre
<1>7. b = (UnixTime(t) \o Header(id, 4)) \o d BY DEF Wrt_uID_wUT
<1> HIDE DEF d, b, id, e
<1>8. Kept(e, id, d)
  <2>1. Legible(e) => /\ e.id = id /\ e.args = <<N(u)>>
                      /\ Significant(d) = Significant(LE(8, u))
    BY <1>4, <1>5
  <2>2. 4 \in 1..8 OBVIOUS
  <2> QED BY ONLY <1>3, <1>6, <2>1, <2>2, KeptOne
<1>9. EntryOK(e)
  <2>1. 4 = Len(d) /\ e.bytes = (UnixTime(t) \o Header(id, 4)) \o d /\ e.id \in IDs /\ e.t = t
        /\ t \in Nat \ {0}
    BY <1>3, <1>5, <1>6, <1>7
  <2>2. d \in Seq(Byte) BY <1>3
  <2> QED BY ONLY <1>6, <1>8, <2>1, <2>2, TimedIs
<1> QED BY <1>1, <1>9 DEF OKs

\* A large buffer is used.
LEMMA LargeBufOK ==
    ASSUME now \in Nat \ {0}
    PROVE  EntryOK(LargeBufUsed)
<1> DEFINE t == now
           id == "REQ_LargeBuf"
           d == LE(2, 1)
           a == <<N(1)>>
           b == WriteID_wUT(id, d, t)
           g == TRUE
           e == LargeBufUsed
<1>1. e = Entry(id, t, a, b, g) BY DEF LargeBufUsed
<1>2. t \in Nat \ {0} OBVIOUS
<1> HIDE DEF t, e
<1>3. d \in Seq(Byte) /\ Len(d) = 2 /\ Significant(d) = Significant(LE(8, 1))
  <2>1. 1 \in Lengths BY DEF Lengths
  <2> QED BY <2>1, TwoBytes
<1> HIDE DEF d
<1>5. e.id = id /\ e.t = t /\ e.args = a /\ e.bytes = b
  <2> HIDE DEF a, b, g
  <2> QED BY ONLY <1>1, EntryFields
<1>6. id \in IDs /\ Numeric(id) /\ Numbers(id) = <<2>> BY NumberIdsAre, NumbersAre
<1> HIDE DEF id
<1>8. Kept(e, id, d)
  <2>1. Legible(e) => /\ e.id = id /\ e.args = <<N(1)>>
                      /\ Significant(d) = Significant(LE(8, 1))
    BY <1>3, <1>5
  <2>2. 2 \in 1..8 OBVIOUS
  <2> QED BY ONLY <1>3, <1>6, <2>1, <2>2, KeptOne
<1>9. Len(d) <= mc_max_bytes_wrt
  <2>1. 2 \in 0..24 /\ 2 = Len(d) BY <1>3
  <2> QED BY ONLY <2>1, RoomForWords
<1>10. EntryOK(e) BY <1>2, <1>3, <1>5, <1>6, <1>8, <1>9, WrittenIs
<1> QED BY <1>10 DEF e

\* The addresses are bytes, four or sixteen.
IsIP(ip) == ip \in Seq(Byte) /\ (Len(ip) = 4 \/ Len(ip) = 16)

\* Those who connect have such addresses.
LEMMA PeersAre ==
    ASSUME NEW peer \in Peers
    PROVE  IsIP(peer.ip)
<1>1. peer.ip \in Seq(0..255) /\ Len(peer.ip) \in {4, 16} BY WireAssumption
<1> QED BY <1>1 DEF IsIP, Byte

\* An id for each kind of address.
KindOf(id, ip) == id \in IDs /\ id \in IPv4s \cup IPv6s /\ (id \in IPv4s <=> Len(ip) = 4)

\* What an address in a record says.
LEMMA AddressKept ==
    ASSUME NEW ip, IsIP(ip), NEW id, KindOf(id, ip), NEW r,
           Legible(r) => r.id = id /\ r.args = << <<"ip", ip>> >>
    PROVE  Kept(r, id, ip) /\ ip \in Seq(Byte) /\ Len(ip) <= mc_max_bytes_wrt
<1>1. ip \in Seq(Byte) /\ id \in IDs /\ id \in IPv4s \cup IPv6s
      /\ Len(ip) = IF id \in IPv4s THEN 4 ELSE 16
  BY DEF IsIP, KindOf
<1>2. Kept(r, id, ip) BY <1>1, KeptAddress
<1>3. Len(ip) <= mc_max_bytes_wrt
  <2>1. CASE Len(ip) = 4
    <3>1. 4 \in 0..24 /\ 4 = Len(ip) BY <2>1
    <3> QED BY ONLY <3>1, RoomForWords
  <2>2. CASE Len(ip) = 16
    <3>1. 16 \in 0..24 /\ 16 = Len(ip) BY <2>2
    <3> QED BY ONLY <3>1, RoomForWords
  <2> QED BY <2>1, <2>2 DEF IsIP
<1> QED BY <1>1, <1>2, <1>3

\* Which id is taken for an address.
LEMMA KindsAre ==
    ASSUME NEW ip, IsIP(ip)
    PROVE  /\ KindOf(V(ip, "Push_devIP_v4", "Push_devIP_v6"), ip)
           /\ KindOf(V(ip, "ChkIP_devIP_v4", "ChkIP_devIP_v6"), ip)
           /\ KindOf(V(ip, "ChkIP_v4", "ChkIP_v6"), ip)
           /\ KindOf(V(ip, "NO_PMSN_InitRI_v4", "NO_PMSN_InitRI_v6"), ip)
<1> DEFINE v == Len(ip) = 4
<1>1. \A a, b : V(ip, a, b) = IF v THEN a ELSE b BY DEF V, IsV4
<1> HIDE DEF v
<1>2. \A id : KindOf(id, ip) <=> (id \in IDs /\ id \in IPv4s \cup IPv6s /\ (id \in IPv4s <=> v))
  BY DEF KindOf, v
<1>3. CASE v BY <1>1, <1>2, <1>3, OtherIdsAre DEF IPv4s, IPv6s
<1>4. CASE ~v BY <1>1, <1>2, <1>4, OtherIdsAre DEF IPv4s, IPv6s
<1> QED BY <1>3, <1>4

\* A client that has no permission.
LEMMA NoPermissionOK ==
    ASSUME now \in Nat \ {0}, IsIP(client.peer.ip)
    PROVE  EntryOK(NoPermission)
<1> DEFINE t == now
           ip == client.peer.ip
           id == V(ip, "NO_PMSN_InitRI_v4", "NO_PMSN_InitRI_v6")
           a == << <<"ip", ip>> >>
           b == WriteID_wUT(id, ip, t)
           g == TRUE
           e == NoPermission
<1>1. e = Entry(id, t, a, b, g) BY DEF NoPermission, V
<1>2. t \in Nat \ {0} /\ IsIP(ip) OBVIOUS
<1> HIDE DEF t, e, ip
<1>3. KindOf(id, ip) BY <1>2, KindsAre
<1> HIDE DEF id
<1>5. e.id = id /\ e.t = t /\ e.args = a /\ e.bytes = b
  <2> HIDE DEF a, b, g
  <2> QED BY ONLY <1>1, EntryFields
<1>8. Kept(e, id, ip) /\ ip \in Seq(Byte) /\ Len(ip) <= mc_max_bytes_wrt
  <2>1. Legible(e) => e.id = id /\ e.args = << <<"ip", ip>> >> BY <1>5
  <2> QED BY ONLY <1>2, <1>3, <2>1, AddressKept
<1>9. id \in IDs BY <1>3 DEF KindOf
<1>10. EntryOK(e) BY <1>2, <1>5, <1>8, <1>9, WrittenIs
<1> QED BY <1>10 DEF e

\* A name is of sixteen-bit units, as many as a record has room for.
LEMMA NameIs ==
    ASSUME NEW f \in Frames
    PROVE  f.name \in Seq(Unit) /\ Len(f.name) <= EN_MAX_LEN_uname
<1>1. f.name \in Seq(Nat) /\ \A i \in DOMAIN f.name : f.name[i] < 65536
  BY WireAssumption, SMT
<1>2. f.name \in Seq(Nat) /\ \A i \in DOMAIN f.name : f.name[i] \in Unit
  BY <1>1, SMT DEF Unit, Lengths
<1>3. f.name \in Seq(Unit) BY <1>2
<1>4. Len(f.name) <= EN_MAX_LEN_uname BY WireAssumption
<1> QED BY <1>3, <1>4

\* The bytes of a user record.
LEMMA UserBytes ==
    ASSUME NEW u, NEW name, name \in Seq(Unit), Len(name) <= EN_MAX_LEN_uname,
           u.uname = name, u.uID \in Nat, u.uview \in Nat
    PROVE  \E l \in Seq(Byte) :
              /\ Len(l) = 2
              /\ KUInfo(u) = ((l \o LE(4, u.uID)) \o LE(4, u.uview)) \o FlattenSeq(Cells(name))
              /\ KUInfo(u) \in Seq(Byte) /\ Len(KUInfo(u)) = 10 + 2 * Len(name)
<1> DEFINE l == LE(2, 10 + 2 * Len(name))
           a == LE(4, u.uID)
           b == LE(4, u.uview)
           c == FlattenSeq(Cells(name))
           m == 10 + 2 * Len(name)
<1>1. m \in Nat /\ 2 \in Nat /\ 4 \in Nat BY LenProperties
<1>2. l \in Seq(Byte) /\ Len(l) = 2 BY ONLY <1>1, LEType
<1>3. a \in Seq(Byte) /\ Len(a) = 4 /\ b \in Seq(Byte) /\ Len(b) = 4 BY <1>1, LEType
<1>4. c \in Seq(Byte) /\ Len(c) = 2 * Len(name) BY CellsAre
<1>5. KUInfo(u) = ((l \o a) \o b) \o c
  <2>1. Cells(name) = [i \in DOMAIN u.uname |-> LE(2, u.uname[i])] BY DEF Cells
  <2> QED BY <2>1 DEF KUInfo
<1> HIDE DEF l, a, b, c, m
<1> DEFINE la == l \o a
           lab == la \o b
<1>6. la \in Seq(Byte) /\ Len(la) = Len(l) + Len(a) BY ONLY <1>2, <1>3, Joined
<1> HIDE DEF la
<1>7. lab \in Seq(Byte) /\ Len(lab) = Len(la) + Len(b) BY ONLY <1>6, <1>3, Joined
<1> HIDE DEF lab
<1>8. lab \o c \in Seq(Byte) /\ Len(lab \o c) = Len(lab) + Len(c) BY ONLY <1>7, <1>4, Joined
<1>9. KUInfo(u) = lab \o c BY <1>5 DEF la, lab
<1>10. Len(lab) = 10 BY <1>2, <1>3, <1>6, <1>7
<1>11. Len(lab \o c) = 10 + 2 * Len(name) BY <1>4, <1>8, <1>10
<1> QED BY <1>2, <1>5, <1>8, <1>9, <1>11 DEF a, b, c

\* What is meant when a user is created.
LEMMA UserPiecesAre ==
    ASSUME NEW r, NEW num, NEW view, NEW name, NEW ip,
           r.args = <<N(num), N(view), <<"name", name>>, <<"ip", ip>> >>
    PROVE  /\ Pieces(r) = UserPieces(num, view, name, ip)
           /\ Legible(r) => Convertible(name)
<1> DEFINE a == N(num)
           b == N(view)
           c == <<"name", name>>
           d == <<"ip", ip>>
<1>1. r.args = <<a, b, c, d>> OBVIOUS
<1>2. /\ Piece(a) = <<"num", Significant(LE(8, num))>>
      /\ Piece(b) = <<"num", Significant(LE(8, view))>>
      /\ Piece(c) = <<"name", Text(name)>> /\ Piece(d) = <<"ip", ip>>
  BY PieceOf
<1>3. c[1] = "name" /\ c[2] = name OBVIOUS
<1> HIDE DEF a, b, c, d
<1>4. Pieces(r) = <<Piece(a), Piece(b), Piece(c), Piece(d)>> BY <1>1, PiecesFew
<1>5. c \in ToSet(r.args)
  <2>1. r.args[3] = c /\ 3 \in DOMAIN r.args BY <1>1
  <2> QED BY <2>1 DEF ToSet
<1>6. name \in Names(r) BY <1>3, <1>5 DEF Names
<1> QED BY <1>2, <1>4, <1>6 DEF UserPieces, Legible

\* The lengths of a user's record.
LEMMA UserSizes ==
    ASSUME NEW n \in Nat, n <= EN_MAX_LEN_uname, NEW w, w \in {4, 16}
    PROVE  /\ w + (10 + 2 * n) <= mc_bytes_pad /\ 14 <= w + (10 + 2 * n)
           /\ 3 * ((w + (10 + 2 * n) - 14) \div 2) <= mc_bytes_pad
<1>1. 26 + 2 * EN_MAX_LEN_uname <= mc_bytes_pad /\ 3 * (EN_MAX_LEN_uname + 6) <= mc_bytes_pad
  BY SizeAssumption
<1>2. EN_MAX_LEN_uname \in Nat /\ mc_bytes_pad \in Nat BY ClientAssumption, PadAssumption
<1>3. (w + (10 + 2 * n) - 14) \div 2 <= n + 6
  <2>1. CASE w = 4 BY <2>1, SMT
  <2>2. CASE w = 16 BY <2>2, SMT
  <2> QED BY <2>1, <2>2
<1>4. w + (10 + 2 * n) <= 26 + 2 * EN_MAX_LEN_uname /\ 14 <= w + (10 + 2 * n)
  BY ONLY n \in Nat, n <= EN_MAX_LEN_uname, w \in {4, 16}, <1>2, SMT
<1> DEFINE h == (w + (10 + 2 * n) - 14) \div 2
<1>5. h \in Int BY SMT
<1>6. 3 * h <= 3 * (EN_MAX_LEN_uname + 6)
  <2> HIDE DEF h
  <2>1. h <= n + 6 BY <1>3 DEF h
  <2> QED BY <1>2, <1>5, <2>1, SMT
<1>7. 3 * h <= mc_bytes_pad
  <2> HIDE DEF h
  <2> QED BY <1>1, <1>2, <1>5, <1>6, SMT
<1>8. w + (10 + 2 * n) <= mc_bytes_pad BY <1>1, <1>2, <1>4, SMT
<1> QED BY <1>4, <1>7, <1>8

\* A user is created: with an address of sixteen bytes the record is not what
\* is meant, but it can be read.
LEMMA UserCreatedOK ==
    ASSUME now \in Nat \ {0}, IsIP(client.peer.ip), NewID \in Nat, NEW f \in Frames
    PROVE  EntryOK(UserCreated(f))
<1> DEFINE t == now
           ip == client.peer.ip
           num == NewID
           name == f.name
           u == [uID |-> num, uview |-> uview, uname |-> name]
           id == "Crt_Usr_v4"
           own == IF IsV4(ip) THEN "Crt_Usr_v4" ELSE "Crt_Usr_v6"
           args == <<N(num), N(uview), <<"name", name>>, <<"ip", ip>> >>
           K == KUInfo(u)
           d == ip \o K
           m == Len(ip) + Len(K)
           b == Wrt_Crt_Usr_wUT(u, t, ip)
           g == IsV4(ip)
           e == UserCreated(f)
<1>0. u.uID = num /\ u.uview = uview /\ u.uname = name OBVIOUS
<1>1. e = Entry(own, t, args, b, g)
  <2>1. args = <<N(u.uID), N(u.uview), <<"name", u.uname>>, <<"ip", ip>> >> BY <1>0
  <2> HIDE DEF args
  <2> QED BY <2>1 DEF UserCreated
<1>2. t \in Nat \ {0} /\ IsIP(ip) /\ num \in Nat /\ uview \in Nat
      /\ name \in Seq(Unit) /\ Len(name) <= EN_MAX_LEN_uname
  <2>1. uview \in Nat BY WireAssumption
  <2> QED BY <2>1, NameIs
<1> HIDE DEF t, ip, num, name, e, u
<1>3. b = ((UnixTime(t) \o Header(id, m)) \o ip) \o K BY DEF Wrt_Crt_Usr_wUT
<1>4. PICK l \in Seq(Byte) :
          /\ Len(l) = 2
          /\ K = ((l \o LE(4, num)) \o LE(4, uview)) \o FlattenSeq(Cells(name))
          /\ K \in Seq(Byte) /\ Len(K) = 10 + 2 * Len(name)
  <2>1. u.uID \in Nat /\ u.uview \in Nat /\ u.uname = name /\ name \in Seq(Unit)
        /\ Len(name) <= EN_MAX_LEN_uname
    BY <1>0, <1>2
  <2> QED BY <1>0, <2>1, UserBytes
<1> HIDE DEF K, b, own, args, g
<1>5. /\ e.id = own /\ e.t = t /\ e.args = args /\ e.bytes = b /\ (Legible(e) => g)
  BY ONLY <1>1, EntryFields
<1>6. ip \in Seq(Byte) /\ K \in Seq(Byte) BY <1>2, <1>4 DEF IsIP
<1>7. d \in Seq(Byte) /\ m = Len(d) BY <1>6, Joined
<1>8. own \in IDs /\ id \in IDs /\ (g => own = id) /\ (g <=> Len(ip) = 4)
  BY OtherIdsAre DEF own, g, IsV4
<1>9. Kept(e, id, d)
  <2>1. CASE Len(ip) = 4
    <3>1. Legible(e) => /\ e.id = id /\ Convertible(name)
                        /\ Pieces(e) = UserPieces(num, uview, name, ip)
      <4>1. e.args = <<N(num), N(uview), <<"name", name>>, <<"ip", ip>> >>
        BY <1>5 DEF args
      <4>2. /\ Pieces(e) = UserPieces(num, uview, name, ip)
            /\ Legible(e) => Convertible(name)
        BY ONLY <4>1, UserPiecesAre
      <4> QED BY <1>5, <1>8, <4>2
    <3>2. d = ip \o (((l \o LE(4, num)) \o LE(4, uview)) \o FlattenSeq(Cells(name)))
      BY <1>4
    <3>3. l \in Seq(Byte) /\ Len(l) = 2 BY <1>4
    <3> HIDE DEF d
    <3>4. Kept(e, "Crt_Usr_v4", d)
      <4>1. Legible(e) => /\ e.id = "Crt_Usr_v4" /\ Convertible(name)
                          /\ Pieces(e) = UserPieces(num, uview, name, ip)
        BY <3>1
      <4> QED BY ONLY <1>2, <1>6, <2>1, <4>1, <3>2, <3>3, KeptUser
    <3> QED BY <3>4
  <2>2. CASE Len(ip) = 16
    <3>1. ~Legible(e) BY <1>5, <1>8, <2>2
    <3> DEFINE n == Len(name)
               q == 16 + (10 + 2 * n)
    <3>2. n \in Nat /\ n <= EN_MAX_LEN_uname /\ 16 \in {4, 16} BY <1>2, LenProperties
    <3>3. Len(d) = q BY <1>4, <1>7, <2>2
    <3>4. q <= mc_bytes_pad /\ 14 <= q /\ 3 * ((q - 14) \div 2) <= mc_bytes_pad
      <4> HIDE DEF n
      <4> QED BY ONLY <3>2, UserSizes
    <3> HIDE DEF q, d
    <3>5. 14 <= Len(d) /\ Len(d) <= mc_bytes_pad
          /\ 3 * ((Len(d) - 14) \div 2) <= mc_bytes_pad
      BY <3>3, <3>4
    <3>6. Kept(e, "Crt_Usr_v4", d) BY ONLY <1>7, <3>1, <3>5, KeptOther
    <3> QED BY <3>6
  <2> QED BY <1>2, <2>1, <2>2 DEF IsIP
<1>10. b = (UnixTime(t) \o Header(id, m)) \o d
  <2>1. m \in Lengths BY <1>7, <1>9, KeptLength
  <2> DEFINE h == UnixTime(t) \o Header(id, m)
  <2>2. UnixTime(t) \in Seq(Byte) /\ Header(id, m) \in Seq(Byte)
    BY <1>2, <1>8, <2>1, HeaderBytes, WireOfTime
  <2>3. h \in Seq(Byte) BY <2>2
  <2>4. b = (h \o ip) \o K BY <1>3
  <2> HIDE DEF h
  <2>5. (h \o ip) \o K = h \o (ip \o K) BY ONLY <1>6, <2>3, Regroup
  <2>6. b = h \o d BY <2>4, <2>5
  <2> QED BY <2>6 DEF h
<1> HIDE DEF d, m, id
<1>11. EntryOK(e)
  <2>1. e.id \in IDs /\ e.t = t /\ t \in Nat \ {0}
        /\ e.bytes = (UnixTime(t) \o Header(id, m)) \o d
    BY <1>2, <1>5, <1>8, <1>10
  <2> QED BY ONLY <1>7, <1>8, <1>9, <2>1, TimedIs
<1> QED BY <1>11 DEF e

\* Without a time there is nothing before the record.
LEMMA Untimed ==
    ASSUME NEW b, b \in Seq(Byte), NEW t, t = 0
    PROVE  Time(t) \o b = b
<1>1. Time(t) = <<>> BY DEF Time
<1>2. <<>> \o b = b BY ConcatEmptySeq
<1> QED BY <1>1, <1>2

\* A string of the log, whole or cut.
OfText(e, id, t, m) ==
    /\ e.id = id /\ e.t = t /\ e.args = << <<"str", m>> >>
    /\ e.bytes = Time(t) \o WriteID(id, m)

\* A string that is logged, whole or cut, can be read.
LEMMA StringIs ==
    ASSUME NEW m, m \in Seq(Byte), NEW id, id \in {"STR", "ERR_STR"}, NEW t, t \in Nat,
           NEW e, OfText(e, id, t, m)
    PROVE  EntryOK(e)
<1> DEFINE args == << <<"str", m>> >>
           M == mc_max_bytes_wrt
<1>1. /\ e.id = id /\ e.t = t /\ e.args = args
      /\ e.bytes = Time(t) \o WriteID(id, m)
  BY DEF OfText
<1>2. id \in IDs /\ id \in Strings BY OtherIdsAre DEF Strings
<1>3. Len(m) \in Nat BY LenProperties
<1>4. M \in Nat /\ M >= 1 /\ M + EN_FLG_DataSz_PADover \in Lengths
  <2>1. M \in 1..32767 BY ONLY RecordAssumption
  <2>2. EN_FLG_DataSz_PADover = 32768 BY DEF EN_FLG_DataSz_PADover
  <2> HIDE DEF EN_FLG_DataSz_PADover, M
  <2> QED BY <2>1, <2>2, SMT DEF Lengths
<1> HIDE DEF M
<1>5. CASE Len(m) <= M
  <2> DEFINE len == Len(m)
  <2>1. Kept(e, id, m)
    <3>1. Legible(e) => e.id = id /\ e.args = << <<"str", m>> >> BY <1>1
    <3>2. Len(m) <= mc_max_bytes_wrt BY <1>5 DEF M
    <3> QED BY ONLY <1>2, <3>1, <3>2, m \in Seq(Byte), KeptString
  <2>2. len \in Lengths BY <2>1, KeptLength
  <2> DEFINE b == Header(id, len) \o m
  <2>3. e.bytes = Time(t) \o b BY <1>1, <1>5 DEF WriteID, M
  <2>4. len = Len(m) OBVIOUS
  <2> HIDE DEF len
  <2>5. e.id \in IDs /\ e.t = t /\ b = Header(id, len) \o m BY <1>1, <1>2
  <2> HIDE DEF b
  <2> QED BY ONLY <1>2, <2>1, <2>2, <2>3, <2>4, <2>5, m \in Seq(Byte), t \in Nat, EntryIs
<1>6. CASE Len(m) > M
  <2> DEFINE len == M + EN_FLG_DataSz_PADover
             d == SubSeq(m, 1, M)
             b == Header(id, len) \o d
  <2>1. d \in Seq(Byte) /\ Len(d) = M
    <3>1. 1 \in 1 .. Len(m) + 1 /\ M \in 1 - 1 .. Len(m) BY <1>3, <1>4, <1>6
    <3>2. d \in Seq(Byte) /\ Len(d) = M - 1 + 1 BY <3>1, Slice
    <3> QED BY <1>4, <3>2
  <2>2. CutShort(e, len, d)
    <3>1. <<"str", m>> \in ToSet(e.args)
      <4>1. args[1] = <<"str", m>> /\ 1 \in DOMAIN args OBVIOUS
      <4> HIDE DEF args
      <4> QED BY <1>1, <4>1 DEF ToSet
    <3>2. \E a \in ToSet(e.args) : a[1] = "str" /\ Len(a[2]) > M BY <1>6, <3>1
    <3> QED BY <2>1, <3>2 DEF CutShort, M
  <2>3. e.bytes = Time(t) \o b
    <3>1. ~(Len(m) <= M) BY <1>3, <1>4, <1>6
    <3> QED BY <1>1, <3>1 DEF WriteID, M
  <2>4. len \in Lengths BY <1>4
  <2>5. e.id \in IDs /\ e.t = t /\ b = Header(id, len) \o d BY <1>1, <1>2
  <2> HIDE DEF b, len, d
  <2> QED BY ONLY <1>2, <2>1, <2>2, <2>3, <2>4, <2>5, t \in Nat, EntryIs
<1>7. Len(m) <= M \/ Len(m) > M BY <1>3, <1>4
<1> QED BY <1>5, <1>6, <1>7, Zenon

\* What WriteID writes are bytes.
LEMMA WriteBytes ==
    ASSUME NEW m, m \in Seq(Byte), NEW id, id \in IDs
    PROVE  WriteID(id, m) \in Seq(Byte)
<1> DEFINE M == mc_max_bytes_wrt
<1>1. Len(m) \in Nat BY LenProperties
<1>2. /\ M \in Nat /\ M >= 1 /\ M + EN_FLG_DataSz_PADover \in Lengths
      /\ Len(m) <= M => Len(m) \in Lengths
  <2>1. M \in 1..32767 BY ONLY RecordAssumption
  <2>2. EN_FLG_DataSz_PADover = 32768 BY DEF EN_FLG_DataSz_PADover
  <2> HIDE DEF EN_FLG_DataSz_PADover, M
  <2> QED BY <1>1, <2>1, <2>2, SMT DEF Lengths
<1> HIDE DEF M
<1>3. ASSUME Len(m) <= M PROVE Header(id, Len(m)) \o m \in Seq(Byte)
  <2>1. Header(id, Len(m)) \in Seq(Byte) BY <1>2, <1>3, HeaderBytes
  <2> QED BY <2>1
<1>4. ASSUME ~(Len(m) <= M)
      PROVE  Header(id, M + EN_FLG_DataSz_PADover) \o SubSeq(m, 1, M) \in Seq(Byte)
  <2>1. Header(id, M + EN_FLG_DataSz_PADover) \in Seq(Byte) BY <1>2, HeaderBytes
  <2>2. 1 \in 1 .. Len(m) + 1 /\ M \in 1 - 1 .. Len(m) BY <1>1, <1>2, <1>4
  <2>3. SubSeq(m, 1, M) \in Seq(Byte) BY <2>2, Slice
  <2> QED BY <2>1, <2>3
<1> QED BY <1>3, <1>4 DEF WriteID, M

\* Every string that is logged.
LEMMA StringOK ==
    ASSUME now \in Nat \ {0}, NEW e, e \in StringEntries
    PROVE  EntryOK(e)
<1>1. ASSUME NEW m, m \in Messages PROVE m \in Seq(Byte)
  BY <1>1, LoggedAssumption DEF Byte
<1>2. ASSUME NEW m, m \in Messages,
             e = Said("STR", 0, << <<"str", m>> >>, WriteID("STR", m))
      PROVE  EntryOK(e)
  <2> DEFINE i == "STR"
             z == 0
             a == << <<"str", m>> >>
             b == WriteID("STR", m)
             f == TRUE
  <2>1. e = Entry(i, z, a, b, f) BY <1>2 DEF Said
  <2>2. i \in {"STR", "ERR_STR"} /\ z \in Nat OBVIOUS
  <2>3. b \in Seq(Byte)
    <3> SUFFICES WriteID("STR", m) \in Seq(Byte) OBVIOUS
    <3>1. m \in Seq(Byte) /\ "STR" \in IDs BY <1>1, <1>2, OtherIdsAre
    <3> QED BY <3>1, WriteBytes
  <2>4. b = WriteID(i, m) OBVIOUS
  <2> HIDE DEF i, z, b, f
  <2>5. e.id = i /\ e.t = z /\ e.args = a /\ e.bytes = b
    <3> HIDE DEF a
    <3> QED BY ONLY <2>1, EntryFields
  <2>6. Time(z) \o b = b BY <2>3, Untimed DEF z
  <2>7. OfText(e, i, z, m) BY <2>4, <2>5, <2>6 DEF OfText
  <2> QED BY <1>1, <1>2, <2>2, <2>7, StringIs
<1>3. ASSUME NEW m, m \in Messages, NEW id, id \in {"STR", "ERR_STR"},
             e = Said(id, now, << <<"str", m>> >>, WriteID_wUT(id, m, now))
      PROVE  EntryOK(e)
  <2> DEFINE z == now
             a == << <<"str", m>> >>
             b == WriteID_wUT(id, m, now)
             f == TRUE
  <2>1. e = Entry(id, z, a, b, f) BY <1>3 DEF Said
  <2>2. z \in Nat /\ z # 0 OBVIOUS
  <2>3. b = Time(z) \o WriteID(id, m) BY <2>2 DEF WriteID_wUT, Time
  <2> HIDE DEF z, b, f
  <2>5. e.id = id /\ e.t = z /\ e.args = a /\ e.bytes = b
    <3> HIDE DEF a
    <3> QED BY ONLY <2>1, EntryFields
  <2>7. OfText(e, id, z, m) BY <2>3, <2>5 DEF OfText
  <2> QED BY <1>1, <1>3, <2>2, <2>7, StringIs
<1> DEFINE F(m) == Said("STR", 0, << <<"str", m>> >>, WriteID("STR", m))
           H(id, m) == Said(id, now, << <<"str", m>> >>, WriteID_wUT(id, m, now))
<1>4. StringEntries = {F(m) : m \in Messages}
                         \cup {H(id, m) : id \in {"STR", "ERR_STR"}, m \in Messages}
  BY DEF StringEntries
<1>5. \A m \in Messages : e = F(m) => EntryOK(e) BY <1>2
<1>6. \A id \in {"STR", "ERR_STR"}, m \in Messages : e = H(id, m) => EntryOK(e) BY <1>3
<1> HIDE DEF F, H
<1> QED BY <1>4, <1>5, <1>6

-----------------------------------------------------------------------------
(* Addresses *)

\* An address that is logged with its time, or without.
OfIP(e, id, t, ip) ==
    /\ e.id = id /\ e.t = t /\ e.args = << <<"ip", ip>> >>
    /\ e.bytes = Time(t) \o (Header(id, Len(ip)) \o ip)

\* An address that is logged can be read.
LEMMA AddressIs ==
    ASSUME NEW ip, IsIP(ip), NEW id, KindOf(id, ip), NEW t, t \in Nat,
           NEW e, OfIP(e, id, t, ip)
    PROVE  EntryOK(e)
<1> DEFINE len == Len(ip)
           b == Header(id, len) \o ip
<1>1. /\ e.id = id /\ e.t = t /\ e.args = << <<"ip", ip>> >>
      /\ e.bytes = Time(t) \o b
  BY DEF OfIP
<1>2. id \in IDs BY DEF KindOf
<1>3. Kept(e, id, ip) /\ ip \in Seq(Byte)
  <2>1. Legible(e) => e.id = id /\ e.args = << <<"ip", ip>> >> BY <1>1
  <2> QED BY ONLY <2>1, IsIP(ip), KindOf(id, ip), AddressKept
<1>4. len \in Lengths BY <1>3, KeptLength
<1>5. len = Len(ip) OBVIOUS
<1> HIDE DEF len
<1>6. b = Header(id, len) \o ip OBVIOUS
<1> HIDE DEF b
<1>7. e.id \in IDs /\ e.t = t BY <1>1, <1>2
<1>8. e.bytes = Time(t) \o b BY <1>1
<1> QED BY ONLY <1>2, <1>3, <1>4, <1>5, <1>6, <1>7, <1>8, t \in Nat, EntryIs

\* Every address that is logged.
LEMMA AddressOK ==
    ASSUME now \in Nat \ {0}, NEW e, e \in AddressEntries
    PROVE  EntryOK(e)
<1>1. PICK ip \in Addresses :
        \/ e = Said(V(ip, "Push_devIP_v4", "Push_devIP_v6"), 0, << <<"ip", ip>> >>,
                    Wrt_Push_devIP(ip))
        \/ e = Said(V(ip, "ChkIP_devIP_v4", "ChkIP_devIP_v6"), now, << <<"ip", ip>> >>,
                    Wrt_IP_with_UnixTime(V(ip, "ChkIP_devIP_v4", "ChkIP_devIP_v6"), ip, now))
        \/ e = Said(V(ip, "ChkIP_v4", "ChkIP_v6"), now, << <<"ip", ip>> >>,
                    Wrt_IP_with_UnixTime(V(ip, "ChkIP_v4", "ChkIP_v6"), ip, now))
  BY Zenon DEF AddressEntries
<1>2. IsIP(ip) BY PeersAre DEF Addresses
<1>3. ip \in Seq(Byte) BY <1>2 DEF IsIP
<1>4. ASSUME NEW id, KindOf(id, ip) PROVE Header(id, Len(ip)) \o ip \in Seq(Byte)
                                          /\ Header(id, Len(ip)) \in Seq(Byte)
  <2>1. id \in IDs BY <1>4 DEF KindOf
  <2>2. Len(ip) \in Lengths
    <3>1. 4 \in Lengths /\ 16 \in Lengths BY DEF Lengths
    <3> QED BY <1>2, <3>1 DEF IsIP
  <2>3. Header(id, Len(ip)) \in Seq(Byte) BY <2>1, <2>2, HeaderBytes
  <2> QED BY <1>3, <2>3
<1>5. ASSUME e = Said(V(ip, "Push_devIP_v4", "Push_devIP_v6"), 0, << <<"ip", ip>> >>,
                      Wrt_Push_devIP(ip))
      PROVE  EntryOK(e)
  <2> DEFINE i == V(ip, "Push_devIP_v4", "Push_devIP_v6")
             z == 0
             a == << <<"ip", ip>> >>
             b == Wrt_Push_devIP(ip)
             f == TRUE
  <2>1. e = Entry(i, z, a, b, f) BY <1>5 DEF Said
  <2>2. KindOf(i, ip) BY <1>2, KindsAre
  <2>3. b = Header(i, Len(ip)) \o ip BY DEF Wrt_Push_devIP, V
  <2>4. z \in Nat OBVIOUS
  <2> HIDE DEF b, f, i
  <2>5. b \in Seq(Byte) BY <1>4, <2>2, <2>3
  <2>6. Time(z) \o b = b BY <2>5, Untimed
  <2> HIDE DEF z
  <2>7. e.id = i /\ e.t = z /\ e.args = a /\ e.bytes = b
    <3> HIDE DEF a
    <3> QED BY ONLY <2>1, EntryFields
  <2>8. OfIP(e, i, z, ip) BY <2>3, <2>6, <2>7 DEF OfIP
  <2> QED BY <1>2, <2>2, <2>4, <2>8, AddressIs
<1>6. ASSUME NEW i, KindOf(i, ip),
             e = Said(i, now, << <<"ip", ip>> >>, Wrt_IP_with_UnixTime(i, ip, now))
      PROVE  EntryOK(e)
  <2> DEFINE z == now
             a == << <<"ip", ip>> >>
             b == Wrt_IP_with_UnixTime(i, ip, now)
             f == TRUE
             h == Header(i, Len(ip))
  <2>1. e = Entry(i, z, a, b, f) BY <1>6 DEF Said
  <2>2. z \in Nat /\ z # 0 OBVIOUS
  <2>3. b = (UnixTime(z) \o h) \o ip BY DEF Wrt_IP_with_UnixTime
  <2>4. UnixTime(z) \in Seq(Byte) /\ h \in Seq(Byte) /\ ip \in Seq(Byte)
    BY <1>3, <1>4, <1>6, <2>2, WireOfTime
  <2> HIDE DEF z, b, f
  <2>5. e.id = i /\ e.t = z /\ e.args = a /\ e.bytes = b
    <3> HIDE DEF a, h
    <3> QED BY ONLY <2>1, EntryFields
  <2>6. b = Time(z) \o (h \o ip)
    <3> HIDE DEF h
    <3>1. (UnixTime(z) \o h) \o ip = UnixTime(z) \o (h \o ip) BY ONLY <2>4, Regroup
    <3>2. Time(z) = UnixTime(z) BY <2>2 DEF Time
    <3> QED BY <2>3, <3>1, <3>2
  <2>7. OfIP(e, i, z, ip) BY <2>5, <2>6 DEF OfIP
  <2> QED BY <1>2, <1>6, <2>2, <2>7, AddressIs
<1>7. /\ KindOf(V(ip, "ChkIP_devIP_v4", "ChkIP_devIP_v6"), ip)
      /\ KindOf(V(ip, "ChkIP_v4", "ChkIP_v6"), ip)
  BY <1>2, KindsAre
<1> QED BY <1>1, <1>5, <1>6, <1>7, Zenon

\* Every number of connections that is logged.
LEMMA TimesOK ==
    ASSUME now \in Nat \ {0}, NEW e, e \in TimesEntries
    PROVE  EntryOK(e)
<1>1. PICK times \in Times, ip \in Addresses :
        e = Said(V(ip, "Chk_IP_many_times_cnct_v4", "Chk_IP_many_times_cnct_v6"), now,
                 <<N(times), <<"ip", ip>> >>, Wrt_IP_many_times_cnct_wUT(times, ip, now))
  <2> DEFINE F(times, ip) ==
        Said(V(ip, "Chk_IP_many_times_cnct_v4", "Chk_IP_many_times_cnct_v6"), now,
             <<N(times), <<"ip", ip>> >>, Wrt_IP_many_times_cnct_wUT(times, ip, now))
  <2>1. TimesEntries = {F(times, ip) : times \in Times, ip \in Addresses}
    BY DEF TimesEntries
  <2> HIDE DEF F
  <2>2. \E times \in Times, ip \in Addresses : e = F(times, ip) BY <2>1
  <2> QED BY <2>2 DEF F
<1> DEFINE i == V(ip, "Chk_IP_many_times_cnct_v4", "Chk_IP_many_times_cnct_v6")
           z == now
           arg == <<"ip", ip>>
           a == <<N(times), arg>>
           b == Wrt_IP_many_times_cnct_wUT(times, ip, now)
           f == TRUE
           len == 2 + Len(ip)
           h == Header(i, len)
           n == LE(2, times)
           d == n \o ip
<1>2. e = Entry(i, z, a, b, f) BY <1>1 DEF Said
<1>3. IsIP(ip) BY PeersAre DEF Addresses
<1>4. times \in Lengths BY LoggedAssumption, SMT DEF Lengths
<1>5. ip \in Seq(Byte) /\ n \in Seq(Byte) /\ Len(n) = 2 BY <1>3, <1>4, TwoBytes DEF IsIP
<1>6. i \in IDs /\ i \in Counted
      /\ Len(ip) = IF i = "Chk_IP_many_times_cnct_v4" THEN 4 ELSE 16
  BY <1>3, OtherIdsAre DEF V, Counted, IsIP, IsV4
<1>7. b = ((UnixTime(z) \o h) \o n) \o ip BY DEF Wrt_IP_many_times_cnct_wUT, V
<1>8. z \in Nat \ {0} OBVIOUS
<1>9. arg = <<"ip", ip>> OBVIOUS
<1> HIDE DEF i, z, b, f, n, arg
<1>10. e.id = i /\ e.t = z /\ e.args = a /\ e.bytes = b
  <2> HIDE DEF a
  <2> QED BY ONLY <1>2, EntryFields
<1>11. Kept(e, i, d)
  <2>1. Says(e, i, <<N(times), arg>>) BY <1>10 DEF Says
  <2>2. ip \in Seq(Byte) BY <1>5
  <2>3. Kept(e, i, LE(2, times) \o ip) BY ONLY <1>4, <1>6, <1>9, <2>1, <2>2, KeptCounted
  <2> QED BY <2>3 DEF n
<1>12. d \in Seq(Byte) /\ len = Len(d)
  <2>1. n \in Seq(Byte) /\ ip \in Seq(Byte) BY <1>5
  <2>2. n \o ip \in Seq(Byte) /\ Len(n \o ip) = Len(n) + Len(ip) BY ONLY <2>1, Joined
  <2> QED BY <1>5, <2>2
<1>13. b = (UnixTime(z) \o h) \o d
  <2>1. len \in Lengths BY <1>11, <1>12, KeptLength
  <2>2. UnixTime(z) \in Seq(Byte) /\ h \in Seq(Byte)
    BY <1>6, <1>8, <2>1, HeaderBytes, WireOfTime
  <2> DEFINE g == UnixTime(z) \o h
  <2>3. g \in Seq(Byte) BY <2>2
  <2>4. b = (g \o n) \o ip BY <1>7
  <2>5. n \in Seq(Byte) /\ ip \in Seq(Byte) BY <1>5
  <2> HIDE DEF g, h, len
  <2>6. (g \o n) \o ip = g \o (n \o ip) BY ONLY <2>3, <2>5, Regroup
  <2>7. b = g \o d BY <2>4, <2>6
  <2> QED BY <2>7 DEF g
<1> HIDE DEF d, len
<1>14. e.id \in IDs /\ e.t = z /\ i \in IDs /\ e.bytes = (UnixTime(z) \o Header(i, len)) \o d
  BY <1>6, <1>10, <1>13
<1> QED BY ONLY <1>8, <1>11, <1>12, <1>14, TimedIs

\* Every entry of the server's and of the closing log.
LEMMA BareEntriesOK ==
    ASSUME now \in Nat \ {0}
    PROVE  /\ \A id \in EventIds : EntryOK(Event(id))
           /\ \A e \in ServerEntries : EntryOK(e)
           /\ \A how \in {"CLOSE_Normal", "CLOSE_Abort", "failed"} : OKs(Ending(how))
<1>1. ASSUME NEW id \in EventIds PROVE EntryOK(Event(id))
  <2> DEFINE t == now
             e == Event(id)
  <2>1. e = Entry(id, t, <<>>, WriteID_wUT(id, <<>>, t), TRUE) BY DEF Event
  <2>2. t \in Nat \ {0} OBVIOUS
  <2> HIDE DEF t, e
  <2>3. EntryOK(e) BY <2>1, <2>2, BareOK
  <2> QED BY <2>3 DEF e
<1>2. ASSUME NEW e \in ServerEntries PROVE EntryOK(e)
  <2>1. PICK id \in {"ERR_KClient_Exausted", "ERR_on_Async_Accept",
                         "ERR_Get_remote_endpoint"} : e = Event(id)
    BY DEF ServerEntries
  <2>2. id \in EventIds BY DEF EventIds
  <2> QED BY <1>1, <2>1, <2>2
<1>3. ASSUME NEW how \in {"CLOSE_Normal", "CLOSE_Abort", "failed"} PROVE OKs(Ending(how))
  <2>1. CASE how = "failed" BY <2>1 DEF Ending, OKs
  <2>2. CASE how # "failed"
    <3> DEFINE t == now
               e == Said(how, now, <<>>, UnixTime(now) \o WriteID(how, <<>>))
    <3>1. e = Entry(how, t, <<>>, WriteID_wUT(how, <<>>, t), TRUE) BY DEF Said, WriteID_wUT
    <3>2. t \in Nat \ {0} OBVIOUS
    <3>3. how \in EventIds BY <2>2 DEF EventIds
    <3>4. Ending(how) = <<e>> BY <2>2 DEF Ending
    <3> HIDE DEF t, e
    <3>5. EntryOK(e) BY <3>1, <3>2, <3>3, BareOK
    <3> QED BY <3>4, <3>5 DEF OKs
  <2> QED BY <2>1, <2>2
<1> QED BY <1>1, <1>2, <1>3

-----------------------------------------------------------------------------
(* Whatever is logged can be read *)

LogOK(s) == IsLog(s) /\ \A i \in 1 .. Len(s) : EntryOK(s[i])

\* A record more, or none.
LEMMA LogGrows ==
    ASSUME NEW s, LogOK(s), NEW es, OKs(es)
    PROVE  LogOK(s \o es)
<1>1. PICK S : s \in Seq(S) BY DEF LogOK, IsLog
<1>2. CASE es = <<>>
  <2>1. s \o <<>> = s BY <1>1, ConcatEmptySeq
  <2> QED BY <1>2, <2>1
<1>3. ASSUME NEW e, EntryOK(e), es = <<e>> PROVE LogOK(s \o es)
  <2>1. s \in Seq(S \cup {e}) BY <1>1, SeqMonotonic
  <2>2. s \o <<e>> = Append(s, e) BY <2>1
  <2>3. IsLog(s) BY DEF LogOK
  <2>4. /\ IsLog(Append(s, e)) /\ Len(s) \in Nat /\ Len(Append(s, e)) = Len(s) + 1
        /\ Append(s, e)[Len(s) + 1] = e /\ \A i \in 1 .. Len(s) : Append(s, e)[i] = s[i]
    BY <2>3, Grows
  <2> DEFINE a == Append(s, e)
             n == Len(s)
  <2>5. ASSUME NEW i \in 1 .. n + 1 PROVE EntryOK(a[i])
    <3>1. CASE i <= n
      <4>1. i \in 1 .. n BY <2>4, <3>1
      <4>2. a[i] = s[i] BY <2>4, <4>1
      <4> QED BY <4>1, <4>2 DEF LogOK
    <3>2. CASE i = n + 1 BY <1>3, <2>4, <3>2
    <3>3. i <= n \/ i = n + 1 BY <2>4
    <3> QED BY <3>1, <3>2, <3>3, Zenon
  <2>6. IsLog(a) /\ Len(a) = n + 1 BY <2>4
  <2> HIDE DEF a, n
  <2>7. LogOK(a) BY <2>5, <2>6 DEF LogOK
  <2> QED BY <1>3, <2>2, <2>7 DEF a
<1> QED BY <1>2, <1>3 DEF OKs

\* What the connection keeps for what it logs.
Held ==
    /\ errbuf \in Buffers /\ ms_time_atRead_asWS \in Nat
    /\ client.at = "write" => ms_time_atRead_asWS # 0
    /\ client.at # "none" => client.peer \in Peers

\* One record or none is as good as it is.
LEMMA OneIsOK ==
    OKs(<<>>) /\ \A e : EntryOK(e) => OKs(<<e>>)
BY DEF OKs

\* A connection that is given up.
LEMMA CloseOK ==
    ASSUME WSTyped, LogOK(said), NEW STATE es, OKs(es), NEW STATE t, t \in Nat \ {0},
           Close(es, t)
    PROVE  LogOK(said') /\ client'.at = "none"
<1>1. said' = (said \o es) \o Leaving(t) /\ client' = Idle(client.sckt) BY DEF Close
<1>2. client.usr \in Nat BY DEF WSTyped
<1>3. OKs(Leaving(t)) BY <1>2, LeavingOK
<1>4. LogOK(said \o es) BY LogGrows
<1>5. LogOK((said \o es) \o Leaving(t)) BY <1>3, <1>4, LogGrows
<1>6. client'.at = "none" BY <1>1 DEF Idle
<1> QED BY <1>1, <1>5, <1>6

\* A reply.
LEMMA ReplyOK ==
    ASSUME WSTyped, LogOK(said), NEW STATE es, OKs(es), NEW f, NEW n, NEW STATE bytes,
           NEW STATE usr, Reply(f, n, bytes, es, usr)
    PROVE  LogOK(said') /\ client'.at = "write" /\ client'.peer = client.peer
<1>1. said' = said \o es BY DEF Reply
<1>2. client'.at = "write" /\ client'.peer = client.peer BY DEF Reply, WSTyped
<1>3. LogOK(said \o es) BY LogGrows
<1> QED BY <1>1, <1>2, <1>3

\* The sizes of reads are numbers.
LEMMA ReadableNat ==
    ASSUME WSTyped
    PROVE  Readable \subseteq Nat
<1>1. ASSUME NEW n \in Readable PROVE n \in Nat
  <2>1. n > 0 BY Zenon DEF Readable
  <2>2. n \in Int
    <3> DEFINE ends == {client.sent[k].from - client.got : k \in DOMAIN client.sent}
                         \cup {End - client.got, BYTES_PRIVATE_BUF}
    <3>1. n \in Parts \cup ends BY DEF Readable
    <3>2. CASE n \in Parts BY <3>2, WireAssumption
    <3>3. CASE n = End - client.got BY <3>3, EndNat DEF WSTyped
    <3>4. CASE n = BYTES_PRIVATE_BUF BY <3>4 DEF BYTES_PRIVATE_BUF
    <3>5. ASSUME NEW k \in DOMAIN client.sent, n = client.sent[k].from - client.got
          PROVE  n \in Int
      <4>1. client.sent \in Seq(Sent) /\ client.got \in Nat BY DEF WSTyped
      <4>2. client.sent[k] \in Sent BY <4>1
      <4>3. client.sent[k].from \in Nat BY <4>2 DEF Sent
      <4> QED BY <3>5, <4>1, <4>3
    <3> QED BY <3>1, <3>2, <3>3, <3>4, <3>5
  <2> QED BY <2>1, <2>2
<1> QED BY <1>1

\* A handler of a read.
LEMMA HandlerOK ==
    ASSUME WSTyped, LogOK(said), Held, client.at # "none",
           NEW f, f \in Frames, NEW n, WS_Read_Hndlr(f, n)
    PROVE  /\ LogOK(said')
           /\ \/ client'.at = "none"
              \/ client'.at \in {"write", "dead"} /\ client'.peer = client.peer
<1> DEFINE Goal == /\ LogOK(said')
                   /\ \/ client'.at = "none"
                      \/ client'.at \in {"write", "dead"} /\ client'.peer = client.peer
<1>1. now \in Nat \ {0} BY NowIs DEF LogOK
<1>2. IsIP(client.peer.ip) BY PeersAre DEF Held
<1>3. OKs(<<NoPermission>>) BY <1>1, <1>2, NoPermissionOK, OneIsOK
<1>4. \A id \in EventIds : OKs(<<Event(id)>>) BY <1>1, BareEntriesOK, OneIsOK
<1>5. "REQ_LargeBuf_Exausted" \in EventIds /\ "KUInfo_Exausted" \in EventIds BY DEF EventIds
<1>6. OKs(<<LargeBufUsed>>) BY <1>1, LargeBufOK, OneIsOK
<1>7. OKs(<<UserCreated(f)>>)
  <2>1. NewID \in Nat BY DEF WSTyped, NewID
  <2> QED BY <1>1, <1>2, <2>1, UserCreatedOK, OneIsOK
<1>8. OKs(<<>>) BY OneIsOK
<1>9. ASSUME UP_InitRI(f, n) PROVE Goal
  <2>1. CASE Close(<<NoPermission>>, now) BY <1>1, <1>3, <2>1, CloseOK
  <2>2. CASE Close(<<>>, now) BY <1>1, <1>8, <2>2, CloseOK
  <2>3. CASE Reply(f, n, RequestAgain, <<Event("REQ_LargeBuf_Exausted")>>, client.usr)
    <3>1. OKs(<<Event("REQ_LargeBuf_Exausted")>>) BY <1>4, <1>5
    <3> QED BY <2>3, <3>1, ReplyOK
  <2>4. ASSUME NEW warning \in {0, 8},
               Reply(f, n, Framed(2 + warning + 4), <<LargeBufUsed>>, client.usr)
        PROVE  Goal
    BY <1>6, <2>4, ReplyOK
  <2> HIDE DEF Goal
  <2> QED BY <1>9, <2>1, <2>2, <2>3, <2>4, Zenon DEF UP_InitRI
<1>10. ASSUME UP_CrtUsr(f, n) PROVE Goal
  <2>1. CASE Close(<<>>, now) BY <1>1, <1>8, <2>1, CloseOK
  <2>2. CASE Reply(f, n, RequestAgain, <<Event("KUInfo_Exausted")>>, 0)
    <3>1. OKs(<<Event("KUInfo_Exausted")>>) BY <1>4, <1>5
    <3> QED BY <2>2, <3>1, ReplyOK
  <2>3. CASE Reply(f, n, Framed(6), <<UserCreated(f)>>, NewID)
    BY <1>7, <2>3, ReplyOK
  <2>4. CASE Dies(f) BY <2>4 DEF Dies, WSTyped
  <2> HIDE DEF Goal
  <2> QED BY <1>10, <2>1, <2>2, <2>3, <2>4, Zenon DEF UP_CrtUsr
<1>11. ASSUME Close(<<>>, now) PROVE Goal BY <1>1, <1>8, <1>11, CloseOK
<1> HIDE DEF Goal
<1>12. Goal BY <1>9, <1>10, <1>11, Zenon DEF WS_Read_Hndlr
<1> QED BY <1>12 DEF Goal

\* Every step of the connection.
LEMMA WSStepsOK ==
    ASSUME WSTyped, LogOK(said), Held, WSNext
    PROVE  LogOK(said') /\ Held'
<1> DEFINE Goal == LogOK(said') /\ Held'
<1>1. now \in Nat \ {0} BY NowIs DEF LogOK
<1>2. client.sckt \in Nat BY DEF WSTyped
<1>3. \A id \in EventIds : OKs(<<Event(id)>>) BY <1>1, BareEntriesOK, OneIsOK
<1>4. /\ errbuf \in Buffers /\ ms_time_atRead_asWS \in Nat
      /\ client.at = "write" => ms_time_atRead_asWS # 0
      /\ client.at # "none" => client.peer \in Peers
  BY DEF Held
<1>5. ASSUME client'.at = "none", errbuf' \in Buffers, ms_time_atRead_asWS' \in Nat
      PROVE  Held'
  BY <1>5 DEF Held
<1>6. \A s, w \in SocketIds, t \in Nat \ {0}, pad \in Nat : OKs(<<Sckt(s, w, t, pad)>>)
  BY <1>2, ScktOK, OneIsOK
<1>11. ASSUME NEW peer \in Peers, Connect(peer) PROVE Goal
  <2>1. client' = [Idle(client.sckt + 1) EXCEPT !.at = "hello", !.peer = peer]
        /\ UNCHANGED <<said, errbuf, ms_time_atRead_asWS>>
    BY <1>11 DEF Connect
  <2>2. client'.at = "hello" /\ client'.peer = peer BY <2>1 DEF Idle
  <2> QED BY <1>4, <2>1, <2>2 DEF Held
<1>12. ASSUME NEW h \in Hellos, HelloRead(h) PROVE Goal
  <2>1. UNCHANGED <<errbuf, ms_time_atRead_asWS>> BY <1>12 DEF HelloRead
  <2>2. CASE Close(<<Event("ERR_on_Async_Read_Crt_WScktCnctn")>>, now)
    <3>1. OKs(<<Event("ERR_on_Async_Read_Crt_WScktCnctn")>>) BY <1>3 DEF EventIds
    <3> QED BY <1>1, <1>4, <1>5, <2>1, <2>2, <3>1, CloseOK
  <2>3. CASE Close(<<Event("ERR_no_WebSocket_Key")>>, now)
    <3>1. OKs(<<Event("ERR_no_WebSocket_Key")>>) BY <1>3 DEF EventIds
    <3> QED BY <1>1, <1>4, <1>5, <2>1, <2>3, <3>1, CloseOK
  <2>4. CASE client' = [client EXCEPT !.at = "accept"] /\ UNCHANGED said
    <3>1. client'.at = "accept" /\ client'.peer = client.peer BY <2>4 DEF WSTyped
    <3>2. client.at # "none" BY <1>12 DEF HelloRead, At
    <3> QED BY <1>4, <2>1, <2>4, <3>1, <3>2 DEF Held
  <2> HIDE DEF Goal
  <2> QED BY <1>12, <2>2, <2>3, <2>4 DEF HelloRead
<1>13. ASSUME NEW ok \in BOOLEAN, HelloAnswered(ok) PROVE Goal
  <2>1. UNCHANGED <<errbuf, ms_time_atRead_asWS>> BY <1>13 DEF HelloAnswered
  <2>2. CASE Close(<<Event("ERR_on_Async_Write_Crt_WScktCnctn")>>, now)
    <3>1. OKs(<<Event("ERR_on_Async_Write_Crt_WScktCnctn")>>) BY <1>3 DEF EventIds
    <3> QED BY <1>1, <1>4, <1>5, <2>1, <2>2, <3>1, CloseOK
  <2>3. CASE client' = [client EXCEPT !.at = "read"] /\ UNCHANGED said
    <3>1. client'.at = "read" /\ client'.peer = client.peer BY <2>3 DEF WSTyped
    <3>2. client.at # "none" BY <1>13 DEF HelloAnswered, At
    <3> QED BY <1>4, <2>1, <2>3, <3>1, <3>2 DEF Held
  <2> HIDE DEF Goal
  <2> QED BY <1>13, <2>2, <2>3 DEF HelloAnswered
<1>14. ASSUME NEW f \in Frames, Send(f) PROVE Goal
  <2>1. UNCHANGED <<said, errbuf, ms_time_atRead_asWS>> BY <1>14 DEF Send
  <2>2. client'.peer = client.peer /\ client'.at = client.at BY <1>14 DEF Send, WSTyped
  <2> QED BY <1>4, <2>1, <2>2 DEF Held
<1>15. ASSUME NEW pad \in Paddings, ReadFails(pad) PROVE Goal
  <2>1. OKs(<<Sckt("ERR_on_Async_Read_WebSckt", "ERR_on_Async_Read_WebSckt", now, pad)>>)
    BY <1>1, <1>6, WireAssumption DEF SocketIds
  <2>2. UNCHANGED errbuf /\ ms_time_atRead_asWS' = now BY <1>15 DEF ReadFails
  <2>3. Close(<<Sckt("ERR_on_Async_Read_WebSckt", "ERR_on_Async_Read_WebSckt", now, pad)>>,
              now)
    BY <1>15 DEF ReadFails
  <2>4. LogOK(said') /\ client'.at = "none" BY <1>1, <2>1, <2>3, CloseOK
  <2> QED BY <1>1, <1>4, <1>5, <2>2, <2>4
<1>16. ASSUME NEW n \in Readable, NEW f \in HeaderHere, NEW pad \in Paddings,
              ReadRefused(f, n, pad)
       PROVE  Goal
  <2>1. /\ ms_time_atRead_asWS' = now /\ Close(Checked(f, n, pad).entry, now)
        /\ errbuf' = Checked(f, n, pad).buf
    BY <1>16 DEF ReadRefused
  <2>2. n \in Nat /\ f \in Frames /\ pad \in Nat
    BY ReadableNat, HereSent, WireAssumption
  <2>3. OKs(Checked(f, n, pad).entry) /\ Checked(f, n, pad).buf \in Buffers
    BY <1>1, <1>2, <1>4, <2>2, CheckedOK
  <2>4. LogOK(said') /\ client'.at = "none" BY <1>1, <2>1, <2>3, CloseOK
  <2> QED BY <1>1, <1>5, <2>1, <2>3, <2>4
<1>17. ASSUME NEW n \in Readable, NEW f \in HeaderHere, ReadActed(f, n) PROVE Goal
  <2>1. f \in Frames BY HereSent
  <2>2. /\ ms_time_atRead_asWS' = now /\ WS_Read_Hndlr(f, n) /\ UNCHANGED errbuf
        /\ client.at # "none"
    BY <1>17 DEF ReadActed, At
  <2>3. /\ LogOK(said')
        /\ \/ client'.at = "none"
           \/ client'.at \in {"write", "dead"} /\ client'.peer = client.peer
    BY <2>1, <2>2, HandlerOK
  <2> QED BY <1>1, <1>4, <2>2, <2>3 DEF Held
<1>18. ASSUME NEW pad \in Paddings, WriteFails(pad) PROVE Goal
  <2> DEFINE t == ms_time_atRead_asWS
  <2>1. t \in Nat \ {0} BY <1>4, <1>18 DEF WriteFails, At
  <2>2. OKs(<<Sckt("ERR_on_Async_Write_WebSckt", "ERR_on_Async_Read_WebSckt", t, pad)>>)
    BY <1>6, <2>1, WireAssumption DEF SocketIds
  <2>3. UNCHANGED <<errbuf, ms_time_atRead_asWS>> BY <1>18 DEF WriteFails
  <2>4. Close(<<Sckt("ERR_on_Async_Write_WebSckt", "ERR_on_Async_Read_WebSckt", t, pad)>>, t)
    BY <1>18 DEF WriteFails
  <2>5. LogOK(said') /\ client'.at = "none" BY <2>1, <2>2, <2>4, CloseOK
  <2> QED BY <1>4, <1>5, <2>3, <2>5
<1>19. ASSUME NEW n \in Parts, WriteShort(n) PROVE Goal
  <2>1. /\ UNCHANGED ms_time_atRead_asWS /\ errbuf' = MissWrite(n).buf
        /\ Close(MissWrite(n).entry, ms_time_atRead_asWS)
    BY <1>19 DEF WriteShort
  <2>2. ms_time_atRead_asWS \in Nat \ {0} BY <1>4, <1>19 DEF WriteShort, At
  <2>3. n \in Nat BY WireAssumption
  <2>4. MissWrite(n).buf \in Buffers /\ OKs(MissWrite(n).entry)
    BY <1>2, <1>4, <2>2, <2>3, MissWriteOK
  <2>5. LogOK(said') /\ client'.at = "none" BY <2>1, <2>2, <2>4, CloseOK
  <2> QED BY <1>4, <1>5, <2>1, <2>4, <2>5
<1>20. ASSUME WriteWhole PROVE Goal
  <2>1. UNCHANGED <<said, errbuf, ms_time_atRead_asWS>> /\ client.at = "write"
    BY <1>20 DEF WriteWhole, At
  <2>2. client'.at = "read" /\ client'.peer = client.peer BY <1>20 DEF WriteWhole, WSTyped
  <2> QED BY <1>4, <2>1, <2>2 DEF Held
<1> HIDE DEF Goal
<1>21. Goal
  BY <1>11, <1>12, <1>13, <1>14, <1>15, <1>16, <1>17, <1>18, <1>19, <1>20, Zenon DEF WSNext
<1> QED BY <1>21 DEF Goal

\* Every step of the composition: what it logs can be read.
LEMMA LogSteps ==
    ASSUME WSTyped, LogOK(said), Held, [Next]_vars
    PROVE  LogOK(said') /\ Held'
<1> DEFINE Goal == LogOK(said') /\ Held'
<1>1. now \in Nat \ {0} BY NowIs DEF LogOK
<1>2. UNCHANGED <<client, errbuf, ms_time_atRead_asWS>> => Held'
  BY DEF Held
<1>3. ASSUME Serve PROVE Goal
  <2>1. ASSUME NEW e \in StringEntries \cup AddressEntries
                              \cup TimesEntries \cup ServerEntries,
               LogOther(e)
        PROVE  Goal
    <3>1. EntryOK(e) BY <1>1, StringOK, AddressOK, TimesOK, BareEntriesOK
    <3>2. said' = Append(said, e) /\ UNCHANGED <<client, errbuf, ms_time_atRead_asWS>>
      BY <2>1 DEF LogOther
    <3>3. said' = said \o <<e>> BY <3>2, Appended DEF LogOK
    <3>4. LogOK(said \o <<e>>) BY <3>1, OneIsOK, LogGrows
    <3> QED BY <1>2, <3>2, <3>3, <3>4
  <2>2. ASSUME WSNext PROVE Goal BY <2>2, WSStepsOK
  <2> HIDE DEF Goal
  <2> QED BY <1>3, <2>1, <2>2 DEF Serve
<1>4. ASSUME NEW end \in Ends, StopServer(end) PROVE Goal
  <2>1. /\ said' = said \o Ending(end.how) /\ client' = Idle(0)
        /\ errbuf' = [i \in 1..24 |-> 0] /\ ms_time_atRead_asWS' = 0
    BY <1>4, Zenon DEF StopServer
  <2>2. end.how \in {"CLOSE_Normal", "CLOSE_Abort", "failed"} BY EndAssumption
  <2>3. OKs(Ending(end.how)) BY <1>1, <2>2, BareEntriesOK
  <2>4. LogOK(said \o Ending(end.how)) BY <2>3, LogGrows
  <2>5. client'.at = "none" BY <2>1 DEF Idle
  <2>6. errbuf' \in Buffers BY <2>1 DEF Buffers, Byte
  <2> QED BY <2>1, <2>4, <2>5, <2>6 DEF Held
<1>5. Convert => Goal BY <1>2 DEF Convert, wsVars
<1>6. UNCHANGED vars => Goal BY <1>2 DEF vars, wsVars
<1> HIDE DEF Goal
<1>7. Goal BY <1>3, <1>4, <1>5, <1>6 DEF Next
<1> QED BY <1>7 DEF Goal

\* At first nothing is logged.
LEMMA LogInit ==
    ASSUME Init
    PROVE  LogOK(said) /\ Held
<1>1. /\ said = <<>> /\ client = Idle(0) /\ errbuf = [i \in 1..24 |-> 0]
      /\ ms_time_atRead_asWS = 0
  BY DEF Init, WSInit
<1>2. client.at = "none" BY <1>1 DEF Idle
<1>3. IsLog(said) /\ Len(said) = 0 BY <1>1 DEF IsLog
<1>4. LogOK(said) BY <1>3 DEF LogOK
<1>5. errbuf \in Buffers BY <1>1 DEF Buffers, Byte
<1> QED BY <1>1, <1>2, <1>4, <1>5 DEF Held

-----------------------------------------------------------------------------
(* The converter reads what was written *)

\* What is read of a record, of which the first m bytes and those before it are left.
ReadsAs(s, p, m, h, d) ==
    /\ m - p >= 1 => s[p + 1] = h[1]
    /\ m - p >= 3 => s[p + 2] = h[2] /\ s[p + 3] = h[3]
    /\ m - p >= 3 + Len(d) => SubSeq(s, p + 4, p + 3 + Len(d)) = d

\* The elements of the middle of three sequences.
Between(a, b, c) == \A i \in 1 .. Len(b) : ((a \o b) \o c)[Len(a) + i] = b[i]

\* They are where the first sequence ends.
LEMMA InMiddle ==
    ASSUME NEW S, NEW a \in Seq(S), NEW b \in Seq(S), NEW c \in Seq(S)
    PROVE  Between(a, b, c)
<1> SUFFICES ASSUME NEW i \in 1 .. Len(b) PROVE ((a \o b) \o c)[Len(a) + i] = b[i]
  BY DEF Between
<1>1. /\ a \o b \in Seq(S) /\ Len(a \o b) = Len(a) + Len(b)
      /\ Len(a) \in Nat /\ Len(b) \in Nat /\ Len(c) \in Nat
  BY ConcatProperties, LenProperties
<1>3. (a \o b)[Len(a) + i] = b[i] BY <1>1, ConcatProperties
<1>4. Len(a) + i \in 1 .. Len(a \o b) BY <1>1
<1>5. ((a \o b) \o c)[Len(a) + i] = (a \o b)[Len(a) + i] BY <1>1, <1>4, ConcatProperties
<1> QED BY <1>3, <1>5

\* A record h \o d in the log B, after F: the first m bytes of B are s.
Follows(B, F, h, d, a, m, p, s) ==
    B = (F \o (h \o d)) \o a /\ p = Len(F) /\ s = SubSeq(B, 1, m)

\* What is read at p is the header h and the data d.
LEMMA ReadBack ==
    ASSUME NEW F, F \in Seq(Byte), NEW h, h \in Seq(Byte), Len(h) = 3,
           NEW d, d \in Seq(Byte), NEW a, a \in Seq(Byte), NEW B, NEW m, m \in 0 .. Len(B),
           NEW p, NEW s, Follows(B, F, h, d, a, m, p, s)
    PROVE  /\ ReadsAs(s, p, m, h, d) /\ p + 3 + Len(d) <= Len(B)
           /\ Len(F \o (h \o d)) = p + 3 + Len(d)
<1> DEFINE n == Len(d)
           b == h \o d
<1>0. F \in Seq(Byte) /\ h \in Seq(Byte) /\ d \in Seq(Byte) /\ a \in Seq(Byte) OBVIOUS
<1>t. Len(h) = 3 OBVIOUS
<1>p. p = Len(F) /\ s = SubSeq(B, 1, m) BY DEF Follows
<1>1. /\ b \in Seq(Byte) /\ Len(b) = 3 + n /\ n \in Nat /\ p \in Nat /\ Len(a) \in Nat
      /\ b[1] = h[1] /\ b[2] = h[2] /\ b[3] = h[3]
  <2>1. h \o d \in Seq(Byte) /\ Len(h \o d) = Len(h) + Len(d)
    BY ConcatProperties
  <2>2. ASSUME NEW i \in 1..3 PROVE (h \o d)[i] = h[i]
    <3>1. Len(d) \in Nat /\ Len(h) \in Nat BY LenProperties
    <3>2. h \in Seq(Byte) /\ d \in Seq(Byte) BY <1>0
    <3> QED BY ONLY <1>t, <2>1, <3>1, <3>2, ConcatProperties
  <2>3. Len(d) \in Nat /\ Len(F) \in Nat /\ Len(a) \in Nat BY LenProperties
  <2> QED BY <1>p, <2>1, <2>2, <2>3
<1>2. B = (F \o b) \o a BY DEF Follows
<1>3. B \in Seq(Byte) /\ Len(B) = p + (3 + n) + Len(a) /\ Len(F \o b) = p + (3 + n)
  <2>0. b \in Seq(Byte) /\ Len(b) = 3 + n BY <1>1
  <2> HIDE DEF b, n
  <2>3. F \o b \in Seq(Byte) /\ Len(F \o b) = Len(F) + Len(b)
    BY ONLY <1>0, <2>0, ConcatProperties
  <2>1. F \o b \in Seq(Byte) /\ Len(F \o b) = p + (3 + n) BY <1>p, <2>0, <2>3
  <2>2. (F \o b) \o a \in Seq(Byte) /\ Len((F \o b) \o a) = Len(F \o b) + Len(a)
    BY <2>1, ConcatProperties
  <2> QED BY <1>2, <2>1, <2>2
<1>4. \A i \in 1 .. Len(b) : B[p + i] = b[i]
  <2> HIDE DEF b
  <2>0. b \in Seq(Byte) BY <1>1
  <2>1. Between(F, b, a) BY ONLY <1>0, <2>0, InMiddle
  <2> QED BY <1>p, <1>2, <2>1 DEF Between
<1> HIDE DEF b
<1>5. \A i \in 1 .. m : s[i] = B[i]
  <2>1. 1 \in 1 .. Len(B) + 1 /\ m \in 1 - 1 .. Len(B) BY <1>1, <1>3
  <2>2. \A i \in 1 .. m - 1 + 1 : SubSeq(B, 1, m)[i] = B[1 + i - 1] BY <1>3, <2>1, Slice
  <2> QED BY <1>p, <2>2
<1>6. ASSUME m - p >= 1 PROVE s[p + 1] = h[1]
  <2>1. p + 1 \in 1 .. m /\ 1 \in 1 .. Len(b) BY <1>1, <1>6
  <2> QED BY <1>1, <1>4, <1>5, <2>1
<1>7. ASSUME m - p >= 3 PROVE s[p + 2] = h[2] /\ s[p + 3] = h[3]
  <2>1. p + 2 \in 1 .. m /\ p + 3 \in 1 .. m /\ 2 \in 1 .. Len(b) /\ 3 \in 1 .. Len(b)
    BY <1>1, <1>7
  <2> QED BY <1>1, <1>4, <1>5, <2>1
<1>8. ASSUME m - p >= 3 + n PROVE SubSeq(s, p + 4, p + 3 + n) = d
  <2> DEFINE g == F \o h
  <2>1. g \in Seq(Byte) /\ Len(g) = p + 3
    <3>1. g \in Seq(Byte) /\ Len(g) = Len(F) + Len(h) BY ONLY <1>0, ConcatProperties
    <3> QED BY <1>p, <3>1
  <2>2. B = (g \o d) \o a
    <3>0. F \in Seq(Byte) /\ h \in Seq(Byte) /\ d \in Seq(Byte) BY <1>0
    <3>1. (F \o h) \o d = F \o (h \o d) BY ONLY <3>0, Regroup
    <3> QED BY <1>2, <3>1 DEF b
  <2> HIDE DEF g
  <2>3. SubSeq((g \o d) \o a, Len(g) + 1, Len(g) + Len(d)) = d BY <2>1, Middle
  <2>4. SubSeq(B, p + 4, p + 3 + n) = d
    <3>1. Len(g) + 1 = p + 4 /\ Len(g) + Len(d) = p + 3 + n BY <1>1, <2>1
    <3> QED BY <2>2, <2>3, <3>1
  <2> DEFINE u == SubSeq(B, p + 4, p + 3 + n)
             v == SubSeq(s, p + 4, p + 3 + n)
  <2>5. s \in Seq(Byte) /\ Len(s) = m
    <3>1. 1 \in 1 .. Len(B) + 1 /\ m \in 1 - 1 .. Len(B) BY <1>1, <1>3
    <3>2. SubSeq(B, 1, m) \in Seq(Byte) /\ Len(SubSeq(B, 1, m)) = m - 1 + 1
      BY <1>3, <3>1, Slice
    <3> QED BY <1>p, <3>2
  <2>6. /\ u \in Seq(Byte) /\ Len(u) = n
        /\ \A i \in 1 .. n : u[i] = B[p + 3 + i]
    <3> DEFINE x == p + 4
               y == p + 3 + n
    <3>1. x \in 1 .. Len(B) + 1 /\ y \in x - 1 .. Len(B) /\ y - x + 1 = n
          /\ \A i \in 1..n : x + i - 1 = p + 3 + i
      BY <1>1, <1>3, <1>8
    <3> HIDE DEF x, y
    <3>2. /\ SubSeq(B, x, y) \in Seq(Byte) /\ Len(SubSeq(B, x, y)) = y - x + 1
          /\ \A i \in 1 .. y - x + 1 : SubSeq(B, x, y)[i] = B[x + i - 1]
      <4>1. B \in Seq(Byte) /\ x \in 1 .. Len(B) + 1 /\ y \in x - 1 .. Len(B)
        BY <1>3, <3>1
      <4> QED BY ONLY <4>1, Slice
    <3>3. u = SubSeq(B, x, y) BY DEF x, y
    <3> HIDE DEF u
    <3> QED BY <3>1, <3>2, <3>3
  <2>7. /\ v \in Seq(Byte) /\ Len(v) = n
        /\ \A i \in 1 .. n : v[i] = s[p + 3 + i]
    <3> DEFINE x == p + 4
               y == p + 3 + n
    <3>1. x \in 1 .. Len(s) + 1 /\ y \in x - 1 .. Len(s) /\ y - x + 1 = n
          /\ \A i \in 1..n : x + i - 1 = p + 3 + i
      BY <1>1, <1>8, <2>5
    <3> HIDE DEF x, y
    <3>2. /\ SubSeq(s, x, y) \in Seq(Byte) /\ Len(SubSeq(s, x, y)) = y - x + 1
          /\ \A i \in 1 .. y - x + 1 : SubSeq(s, x, y)[i] = s[x + i - 1]
      BY <2>5, <3>1, Slice
    <3>3. v = SubSeq(s, x, y) BY DEF x, y
    <3> HIDE DEF v
    <3> QED BY <3>1, <3>2, <3>3
  <2>8. \A i \in 1 .. n : s[p + 3 + i] = B[p + 3 + i]
    <3>1. \A i \in 1 .. n : p + 3 + i \in 1 .. m BY <1>1, <1>8
    <3> QED BY <1>5, <3>1
  <2> HIDE DEF u, v
  <2>9. \A i \in 1 .. Len(u) : v[i] = u[i]
    <3>1. Len(u) = n BY <2>6
    <3>2. \A i \in 1 .. n : v[i] = u[i] BY ONLY <2>6, <2>7, <2>8
    <3> QED BY ONLY <3>1, <3>2
  <2>10. v = u
    <3>1. u \in Seq(Byte) /\ v \in Seq(Byte) /\ Len(v) = Len(u) BY <2>6, <2>7
    <3>2. \A i \in 1 .. Len(v) : v[i] = u[i] BY <2>9, <3>1
    <3> QED BY ONLY <3>1, <3>2, SameSeq
  <2> QED BY <2>4, <2>10 DEF u, v
<1>9. p + 3 + n <= Len(B) /\ Len(F \o b) = p + 3 + n BY <1>1, <1>3
<1>10. ReadsAs(s, p, m, h, d) BY <1>6, <1>7, <1>8 DEF ReadsAs
<1> QED BY <1>9, <1>10 DEF b

\* The same, with what each of them is.
Placed(B, F, h, d, a, m, p, s) ==
    /\ F \in Seq(Byte) /\ h \in Seq(Byte) /\ Len(h) = 3 /\ d \in Seq(Byte) /\ a \in Seq(Byte)
    /\ m \in 0 .. Len(B) /\ Follows(B, F, h, d, a, m, p, s)

\* What is read at the place of a record is that record.
LEMMA ReadAt ==
    ASSUME NEW F, NEW h, NEW d, NEW a, NEW B, NEW m, NEW p, NEW s,
           Placed(B, F, h, d, a, m, p, s)
    PROVE  /\ ReadsAs(s, p, m, h, d) /\ p + 3 + Len(d) <= Len(B)
           /\ Len(F \o (h \o d)) = p + 3 + Len(d)
<1>1. /\ F \in Seq(Byte) /\ h \in Seq(Byte) /\ Len(h) = 3 /\ d \in Seq(Byte) /\ a \in Seq(Byte)
      /\ m \in 0 .. Len(B) /\ Follows(B, F, h, d, a, m, p, s)
  BY DEF Placed
<1> QED BY ONLY <1>1, ReadBack

-----------------------------------------------------------------------------
(* Where the converter is *)

\* The file holds what was logged, or the beginning of it.
Source ==
    /\ src \in Seq(Byte) /\ Len(src) \in 0 .. Len(BytesOf(said))
    /\ src = SubSeq(BytesOf(said), 1, Len(src))

\* The records converted so far are the first ones, and end where it reads on.
Place ==
    /\ out \in Seq(TextSeq) /\ Len(out) <= Len(Wires(said))
    /\ pos = Len(FlattenSeq(SubSeq(Wires(said), 1, Len(out)))) /\ pos <= Len(src)

\* The next record.
ReadNow(id, len, data) ==
    /\ Laid(RecordsOf(said)[Len(out) + 1], Wires(said)[Len(out) + 1], id, len, data)
    /\ ReadsAs(src, pos, Len(src), Header(id, len), data)
    /\ pos + 3 + Len(data) <= Len(BytesOf(said))
    /\ pos + 3 + Len(data) = Len(FlattenSeq(SubSeq(Wires(said), 1, Len(out) + 1)))

\* The log and its records.
LEMMA LogIs ==
    ASSUME LogOK(said)
    PROVE  /\ Wires(said) \in Seq(Seq(Byte)) /\ FlattenSeq(Wires(said)) = BytesOf(said)
           /\ \A i \in 1 .. Len(Wires(said)) : IsWire(RecordsOf(said)[i], Wires(said)[i])
           /\ DOMAIN RecordsOf(said) = 1 .. Len(Wires(said))
           /\ Len(RecordsOf(said)) = Len(Wires(said))
           /\ BytesOf(said) \in Seq(Byte) /\ Records = RecordsOf(said)
           /\ Len(Wires(said)) \in Nat /\ Len(BytesOf(said)) \in Nat
<1>1. PICK E : said \in Seq(E) BY DEF LogOK, IsLog
<1>2. \A i \in 1 .. Len(said) : EntryOK(said[i]) BY DEF LogOK
<1>3. /\ Wires(said) \in Seq(Seq(Byte)) /\ FlattenSeq(Wires(said)) = BytesOf(said)
      /\ Match(RecordsOf(said), Wires(said)) /\ DOMAIN RecordsOf(said) = 1 .. Len(Wires(said))
      /\ BytesOf(said) \in Seq(Byte)
  BY <1>1, <1>2, LogWires
<1>4. Records = RecordsOf(said) BY DEF Records, RecordsOf, PartsOf
<1>5. Len(Wires(said)) \in Nat /\ Len(BytesOf(said)) \in Nat BY <1>3, LenProperties
<1> QED BY <1>3, <1>4, <1>5 DEF Match

\* While records are left, the next one is read.
LEMMA RecordRead ==
    ASSUME LogOK(said), Source, Place, Len(out) < Len(Wires(said))
    PROVE  \E id, len, data : ReadNow(id, len, data)
<1> DEFINE w == Wires(said)
           B == BytesOf(said)
           k == Len(out) + 1
           m == Len(src)
           F == FlattenSeq(SubSeq(w, 1, k - 1))
           r == RecordsOf(said)[k]
<1>1. /\ w \in Seq(Seq(Byte)) /\ FlattenSeq(w) = B /\ B \in Seq(Byte)
      /\ \A i \in 1 .. Len(w) : IsWire(RecordsOf(said)[i], w[i]) /\ Len(w) \in Nat
  BY LogIs
<1>2. Len(out) \in Nat BY LenProperties DEF Place
<1>3. k \in 1 .. Len(w) /\ k - 1 = Len(out) BY <1>1, <1>2
<1>4. pos = Len(F) BY <1>3 DEF Place
<1>5. PICK id, len, data : Laid(r, w[k], id, len, data) BY <1>1, <1>3, Zenon DEF IsWire
<1> DEFINE h == Header(id, len)
<1>6. data \in Seq(Byte) /\ w[k] = h \o data /\ h \in Seq(Byte) /\ Len(h) = 3
  BY <1>5, HeaderBytes DEF Laid
<1>7. m \in 0 .. Len(B) /\ src = SubSeq(B, 1, m) BY DEF Source
<1> HIDE DEF w, B, h, m
<1>8. /\ F \in Seq(Byte) /\ FlattenSeq(SubSeq(w, 1, k)) = F \o w[k]
      /\ PlacedAt(Byte, w, k)
  <2> HIDE DEF k
  <2> QED BY <1>1, <1>3, FlattenAt
<1>9. PICK a \in Seq(Byte) : B = (F \o w[k]) \o a
  BY <1>1, <1>8 DEF PlacedAt
<1>10. Placed(B, F, h, data, a, m, pos, src) BY <1>4, <1>6, <1>7, <1>8, <1>9 DEF Placed, Follows
<1>11. FlattenSeq(SubSeq(w, 1, k)) = F \o (h \o data) BY <1>6, <1>8
<1> DEFINE G == FlattenSeq(SubSeq(w, 1, k))
<1> HIDE DEF F, k, r
<1>12. /\ ReadsAs(src, pos, m, h, data) /\ pos + 3 + Len(data) <= Len(B)
       /\ Len(F \o (h \o data)) = pos + 3 + Len(data)
  BY ONLY <1>10, ReadAt
<1>13. pos + 3 + Len(data) = Len(G) BY <1>11, <1>12
<1> HIDE DEF G
<1>14. ReadNow(id, len, data) BY <1>5, <1>12, <1>13 DEF ReadNow, G, w, B, k, m, h, r
<1> QED BY <1>14, Zenon

\* The numbers of the converter.
LEMMA PlaceIs ==
    ASSUME LogOK(said), Source, Place
    PROVE  /\ pos \in Nat /\ Len(src) \in Nat /\ Unread \in Nat /\ Len(src) = pos + Unread
           /\ Len(out) \in Nat /\ FlattenSeq(out) \in TextSeq
           /\ Len(out) = Len(Wires(said)) => pos = Len(BytesOf(said))
<1> DEFINE w == Wires(said)
           n == Len(out)
           s == SubSeq(w, 1, n)
<1>1. w \in Seq(Seq(Byte)) /\ FlattenSeq(w) = BytesOf(said) /\ Len(w) \in Nat BY LogIs
<1>2. n \in Nat /\ n <= Len(w) /\ out \in Seq(TextSeq) BY LenProperties DEF Place
<1>3. pos = Len(FlattenSeq(s)) /\ pos <= Len(src) BY DEF Place
<1>4. Len(src) \in Nat BY LenProperties DEF Source
<1>5. FlattenSeq(out) \in TextSeq BY <1>2, FlattenType DEF TextSeq
<1> HIDE DEF w, n
<1>6. s \in Seq(Seq(Byte))
  <2>1. 1 \in 1 .. Len(w) + 1 /\ n \in 1 - 1 .. Len(w) BY <1>1, <1>2
  <2> QED BY <1>1, <2>1, Slice
<1>7. FlattenSeq(s) \in Seq(Byte) BY <1>6, FlattenType
<1>8. pos \in Nat BY <1>3, <1>7, LenProperties
<1>9. n = Len(w) => s = w BY <1>1, PrefixEnds
<1>10. n = Len(w) => pos = Len(BytesOf(said)) BY <1>1, <1>3, <1>9
<1> QED BY <1>2, <1>3, <1>4, <1>5, <1>8, <1>10 DEF Unread, w, n

\* What the converter reads.
LEMMA ReadIs ==
    ASSUME LogOK(said), Source, Place, NEW id, NEW len, NEW data, ReadNow(id, len, data)
    PROVE  /\ id \in IDs /\ len \in Lengths /\ data \in Seq(Byte)
           /\ Unread >= 1 => src[pos + 1] = ValueOf(id) /\ logID = id
           /\ Unread >= 3 => clen = len
           /\ clen = len /\ len = Len(data) /\ Unread >= 3 + Len(data) => sa_read_buf = data
<1> DEFINE h == Header(id, len)
<1>1. id \in IDs /\ len \in Lengths /\ data \in Seq(Byte) BY DEF ReadNow, Laid
<1>2. ReadsAs(src, pos, Len(src), h, data) BY DEF ReadNow
<1>3. h[1] = ValueOf(id) /\ h[2] + 256 * h[3] = len BY <1>1, HeaderBytes
<1>4. LogIDs[ValueOf(id) + 1] = id BY <1>1, ValueOfId
<1>5. Len(src) - pos = Unread BY DEF Unread
<1> HIDE DEF h
<1>6. Unread >= 1 => src[pos + 1] = ValueOf(id) BY <1>2, <1>3, <1>5 DEF ReadsAs
<1>7. Unread >= 1 => logID = id BY <1>4, <1>6 DEF logID
<1>8. Unread >= 3 => clen = len
  <2>1. ASSUME Unread >= 3 PROVE src[pos + 2] = h[2] /\ src[pos + 3] = h[3]
    BY <1>2, <1>5, <2>1 DEF ReadsAs
  <2> QED BY <1>3, <2>1 DEF clen
<1>9. ASSUME clen = len, len = Len(data), Unread >= 3 + Len(data) PROVE sa_read_buf = data
  <2>1. SubSeq(src, pos + 4, pos + 3 + Len(data)) = data BY <1>2, <1>5, <1>9 DEF ReadsAs
  <2>2. clen = Len(data) BY <1>9
  <2> QED BY <2>1, <2>2 DEF sa_read_buf
<1> QED BY <1>1, <1>6, <1>7, <1>8, <1>9

-----------------------------------------------------------------------------
(* Why the converter ends *)

\* A string that was cut when it was logged.
LongString(e) == \E a \in ToSet(e.args) : a[1] = "str" /\ Len(a[2]) > mc_max_bytes_wrt

\* Why nothing more is read.
EndsFor(why) ==
    /\ why \in {"end", "cut", "too long"}
    /\ why = "cut" => Len(src) < Len(BytesOf(said))
    /\ why = "end" /\ Len(src) = Len(BytesOf(said)) => Len(out) = Len(Wires(said))
    /\ why = "too long" => LongString(RecordsOf(said)[Len(out) + 1])

\* The sizes of a record that can be read, and of one that cannot.
LEMMA CutSizes ==
    ASSUME NEW r, NEW b, NEW id, NEW len, NEW data, Laid(r, b, id, len, data)
    PROVE  /\ len > mc_bytes_pad => LongString(r)
           /\ ~(len > mc_bytes_pad) => len = Len(data) /\ Kept(r, id, data)
<1>1. (len = Len(data) /\ Kept(r, id, data)) \/ CutShort(r, len, data) BY DEF Laid
<1>2. CutShort(r, len, data) => len > mc_bytes_pad /\ LongString(r)
  <2>1. ASSUME CutShort(r, len, data) PROVE len > mc_bytes_pad
    <3>1. len = mc_max_bytes_wrt + EN_FLG_DataSz_PADover BY <2>1 DEF CutShort
    <3>2. mc_max_bytes_wrt \in Nat BY RecordAssumption
    <3>3. mc_bytes_pad \in Nat /\ mc_bytes_pad < EN_FLG_DataSz_PADover
      BY PadAssumption, SizeAssumption
    <3>4. EN_FLG_DataSz_PADover \in Nat BY DEF EN_FLG_DataSz_PADover
    <3> HIDE DEF EN_FLG_DataSz_PADover
    <3> QED BY <3>1, <3>2, <3>3, <3>4
  <2> QED BY <2>1 DEF CutShort, LongString
<1>3. len = Len(data) /\ Kept(r, id, data) => ~(len > mc_bytes_pad)
  <2>1. ASSUME len = Len(data), Kept(r, id, data) PROVE ~(len > mc_bytes_pad)
    <3>1. Len(data) <= mc_bytes_pad BY <2>1 DEF Kept
    <3>2. len \in Nat /\ mc_bytes_pad \in Nat BY PadAssumption DEF Laid, Lengths
    <3> QED BY <2>1, <3>1, <3>2
  <2> QED BY <2>1
<1> QED BY <1>1, <1>2, <1>3

\* What the loop does with a record, in numbers.
Choice(U, u, b, E, c, P) ==
    U = IF u = 0 THEN "end"
        ELSE IF b >= E THEN "unknown id"
        ELSE IF u < 3 THEN "cut"
        ELSE IF c > P THEN "too long"
        ELSE IF u < 3 + c THEN "cut"
        ELSE ""

\* The next record is read, cut or too long.
LEMMA ChoiceIs ==
    ASSUME NEW U, NEW u \in Nat, NEW b, NEW E \in Nat, NEW c, NEW P \in Nat,
           NEW v \in Nat, v < E, NEW len \in Nat, NEW d \in Nat,
           u >= 1 => b = v, u >= 3 => c = len, ~(len > P) => len = d,
           Choice(U, u, b, E, c, P)
    PROVE  /\ U \in {"end", "cut", "too long", ""}
           /\ U = "" => u >= 3 /\ ~(len > P) /\ ~(u < 3 + len)
           /\ U = "too long" => len > P
           /\ U \in {"end", "cut"} => u < 3 + d
<1>1. CASE u = 0
  <2>1. U = "end" BY <1>1 DEF Choice
  <2> QED BY <1>1, <2>1
<1>2. CASE u = 1 \/ u = 2
  <2>1. u # 0 /\ ~(b >= E) /\ u < 3 BY <1>2
  <2>2. U = "cut" BY <2>1 DEF Choice
  <2>3. u < 3 + d BY <1>2
  <2> QED BY <2>2, <2>3
<1>3. CASE u >= 3
  <2>1. u # 0 /\ ~(b >= E) /\ ~(u < 3) /\ c = len BY <1>3
  <2>2. U = IF len > P THEN "too long" ELSE IF u < 3 + len THEN "cut" ELSE ""
    BY <2>1 DEF Choice
  <2>3. CASE len > P
    <3>1. U = "too long" BY <2>2, <2>3
    <3> QED BY <2>3, <3>1
  <2>4. CASE ~(len > P) /\ u < 3 + len
    <3>1. U = "cut" BY <2>2, <2>4
    <3>2. u < 3 + d BY <2>4
    <3> QED BY <3>1, <3>2
  <2>5. CASE ~(len > P) /\ ~(u < 3 + len)
    <3>1. U = "" BY <2>2, <2>5
    <3> QED BY <1>3, <2>5, <3>1
  <2> QED BY <2>3, <2>4, <2>5
<1>4. u = 0 \/ (u = 1 \/ u = 2) \/ u >= 3 OBVIOUS
<1> QED BY <1>1, <1>2, <1>3, <1>4, Zenon

\* What the loop does with the next record.
NextIs(id, len, data) ==
    /\ Unreadable \in {"end", "cut", "too long", ""}
    /\ Unreadable = "" => Unread >= 3 /\ ~(len > mc_bytes_pad) /\ ~(Unread < 3 + len)
    /\ Unreadable = "too long" => len > mc_bytes_pad
    /\ Unreadable \in {"end", "cut"} => Unread < 3 + Len(data)

\* It is read, cut or too long.
LEMMA ReadCut ==
    ASSUME LogOK(said), Source, Place, NEW id, NEW len, NEW data, ReadNow(id, len, data)
    PROVE  NextIs(id, len, data)
<1> DEFINE U == Unreadable
           u == Unread
           b == src[pos + 1]
           c == clen
           P == mc_bytes_pad
           v == ValueOf(id)
           d == Len(data)
           E == EN_END_LOG_ID
<1>1. u \in Nat BY PlaceIs
<1>2. /\ id \in IDs /\ len \in Lengths /\ data \in Seq(Byte)
      /\ u >= 1 => b = v
      /\ u >= 3 => c = len
  BY ReadIs
<1>3. v < E /\ v \in Byte BY <1>2, ValueOfId
<1>4. v \in Nat BY <1>3 DEF Byte
<1>5. E \in Nat BY DEF EN_END_LOG_ID, LogIDs
<1>6. len \in Nat BY <1>2 DEF Lengths
<1>7. d \in Nat BY <1>2, LenProperties
<1>8. P \in Nat BY PadAssumption
<1>9. ~(len > P) => len = d BY CutSizes DEF ReadNow
<1>10. Choice(U, u, b, E, c, P) BY DEF Choice, Unreadable
<1> HIDE DEF U, u, b, c, P, v, d, E
<1>11. /\ U \in {"end", "cut", "too long", ""}
       /\ U = "" => u >= 3 /\ ~(len > P) /\ ~(u < 3 + len)
       /\ U = "too long" => len > P
       /\ U \in {"end", "cut"} => u < 3 + d
  BY ONLY <1>1, <1>2, <1>3, <1>4, <1>5, <1>6, <1>7, <1>8, <1>9, <1>10, ChoiceIs
<1> QED BY <1>11 DEF NextIs, U, u, P, d

\* The loop ends for one of three reasons, or reads a record.
LEMMA EndsWhy ==
    ASSUME LogOK(said), Source, Place, Unreadable # ""
    PROVE  EndsFor(Unreadable)
<1> DEFINE u == Unread
           m == Len(src)
           B == Len(BytesOf(said))
           n == Len(out)
           K == Len(Wires(said))
           p == pos
           U == Unreadable
<1>1. /\ p \in Nat /\ m \in Nat /\ u \in Nat /\ m = p + u /\ n \in Nat
      /\ n = K => p = B
  BY PlaceIs
<1>2. B \in Nat /\ K \in Nat BY LogIs
<1>3. m <= B
  <2>1. m \in 0 .. B BY DEF Source
  <2> HIDE DEF m, B
  <2> QED BY ONLY <1>2, <2>1
<1>4. n <= K BY DEF Place
<1>5. CASE n = K
  <2> HIDE DEF u, m, B, n, K, p
  <2>1. u = 0 BY ONLY <1>1, <1>2, <1>3, <1>5
  <2>2. Unreadable = "end" BY <2>1 DEF Unreadable, u
  <2> QED BY <1>5, <2>2 DEF EndsFor, n, K
<1>6. CASE n < K
  <2> DEFINE r == RecordsOf(said)[n + 1]
  <2>1. PICK id, len, data : ReadNow(id, len, data) BY <1>6, RecordRead
  <2>2. NextIs(id, len, data) BY <2>1, ReadCut
  <2> DEFINE d == Len(data)
             P == mc_bytes_pad
  <2>3. data \in Seq(Byte) BY <2>1, ReadIs
  <2>4. d \in Nat BY <2>3, LenProperties
  <2>5. p + 3 + d <= B BY <2>1 DEF ReadNow
  <2>6. len > P => LongString(r) BY <2>1, CutSizes DEF ReadNow
  <2>7. /\ U \in {"end", "cut", "too long"}
        /\ U = "too long" => len > P
        /\ U \in {"end", "cut"} => u < 3 + d
    BY <2>2 DEF NextIs
  <2> HIDE DEF u, m, B, n, K, p, d, P, r, U
  <2>8. u < 3 + d => m < B /\ m # B BY ONLY <1>1, <1>2, <1>3, <2>4, <2>5
  <2>9. U \in {"end", "cut"} => m < B /\ m # B BY <2>7, <2>8
  <2>10. U = "too long" => LongString(r) BY <2>6, <2>7
  <2>11. EndsFor(U) BY <2>7, <2>9, <2>10 DEF EndsFor, m, B, r, n
  <2> QED BY <2>11 DEF U
<1>7. n = K \/ n < K
  <2> HIDE DEF u, m, B, n, K, p
  <2> QED BY ONLY <1>1, <1>2, <1>4
<1> QED BY <1>5, <1>6, <1>7

-----------------------------------------------------------------------------
(* What the converter writes for a record *)

\* The headers of a record fit where they are written.
LEMMA HeadersFit ==
    ASSUME NEW id, id \in IDs, NEW ts, AllFit(ts)
    PROVE  /\ AllFit(HeaderTexts(id)) /\ FlattenSeq(HeaderTexts(id)) \in TextSeq
           /\ FlattenSeq(ts) \in TextSeq
           /\ FlattenSeq(HeaderTexts(id) \o ts) = FlattenSeq(HeaderTexts(id)) \o FlattenSeq(ts)
<1>1. ts \in Seq(TextSeq) BY DEF AllFit
<1>2. AllFit(HeaderTexts(id))
  <2>1. CASE id = "UNIX_TIME"
    <3>1. HeaderTexts(id) = <<>> BY <2>1 DEF HeaderTexts
    <3> QED BY <3>1 DEF AllFit
  <2>2. CASE id # "UNIX_TIME" BY <2>2, <1>1, HeaderAlone
  <2> QED BY <2>1, <2>2
<1> DEFINE H == HeaderTexts(id)
<1> HIDE DEF H
<1>3. AllFit(H) BY <1>2 DEF H
<1>4. H \in Seq(TextSeq) BY <1>3 DEF AllFit
<1>5. FlattenSeq(H) \in TextSeq /\ FlattenSeq(ts) \in TextSeq
  BY <1>1, <1>4, FlattenType DEF TextSeq
<1>6. FlattenSeq(H \o ts) = FlattenSeq(H) \o FlattenSeq(ts)
  BY <1>1, <1>4, FlattenConcat DEF TextSeq
<1> QED BY <1>3, <1>5, <1>6 DEF H

\* What a record adds to the text t, when the loop goes on or ends at it.
Wrote(r, p, d, t, why) ==
    /\ why \in {"", "write error", "function"}
    /\ t \in TextSeq /\ Good(d, p \o t)
    /\ Legible(r) => (IF why = "" THEN t = Meant(r) ELSE IsPrefix(t, Meant(r)))
    /\ why = "function" => ~Legible(r)
    /\ why = "write error" => d.err
    /\ why # "" /\ ~d.err => d.buf = <<>>

\* The header and the text of a record.
LEMMA RecordGood ==
    ASSUME NEW id, id \in IDs, NEW ts, AllFit(ts), NEW f, NEW p, Good(f, p),
           NEW g, g = WriteEach(WriteEach(f, HeaderTexts(id)), ts),
           NEW t, t = FlattenSeq(HeaderTexts(id) \o ts)
    PROVE  t \in TextSeq /\ Good(g, p \o t)
<1> DEFINE H == HeaderTexts(id)
           h == FlattenSeq(H)
           s == FlattenSeq(ts)
           e == WriteEach(f, H)
<1>1. AllFit(H) /\ h \in TextSeq /\ s \in TextSeq /\ t = h \o s BY HeadersFit
<1>2. Good(e, p \o h) BY <1>1, WriteEachGood
<1>3. Good(g, (p \o h) \o s)
  <2>1. g = WriteEach(e, ts) OBVIOUS
  <2> HIDE DEF H, h, e
  <2> QED BY <1>2, <2>1, WriteEachGood
<1>4. p \in Seq(TextPiece) BY DEF Good
<1> HIDE DEF H, h, s, e
<1>5. (p \o h) \o s = p \o (h \o s) BY <1>1, <1>4, Regroup DEF TextSeq
<1>6. h \o s \in TextSeq
  <2>1. h \in Seq(TextPiece) /\ s \in Seq(TextPiece) BY <1>1 DEF TextSeq
  <2>2. h \o s \in Seq(TextPiece) BY <2>1
  <2> QED BY <2>2 DEF TextSeq
<1> QED BY <1>1, <1>3, <1>5, <1>6

\* The loop goes on: the whole text is written.
LEMMA WroteAll ==
    ASSUME NEW r, NEW id, id \in IDs, NEW data, Kept(r, id, data), NEW f, NEW p, Good(f, p),
           NEW ts, ts = Texts(id, data),
           NEW g, g = WriteEach(WriteEach(f, HeaderTexts(id)), ts),
           NEW t, t = FlattenSeq(HeaderTexts(id) \o ts), NEW why, why = ""
    PROVE  Wrote(r, p, g, t, why)
<1>1. AllFit(ts) /\ (Legible(r) => t = Meant(r)) BY DEF Kept
<1>2. t \in TextSeq /\ Good(g, p \o t) BY <1>1, RecordGood
<1> QED BY <1>1, <1>2 DEF Wrote

\* The function fails: the record has no text.
LEMMA WroteSome ==
    ASSUME NEW r, NEW id, id \in IDs, NEW data, Kept(r, id, data), NEW f, NEW p, Good(f, p),
           NEW ts, ts = Texts(id, data), FunctionFails(id, data),
           NEW g, g = WriteEach(WriteEach(f, HeaderTexts(id)), ts),
           NEW t, t = FlattenSeq(HeaderTexts(id) \o ts), NEW why, why = "function"
    PROVE  Wrote(r, p, Closed(g), t, why)
<1>1. AllFit(ts) /\ ~Legible(r) BY DEF Kept
<1>2. t \in TextSeq /\ Good(g, p \o t) BY <1>1, RecordGood
<1>3. Good(Closed(g), p \o t) /\ (~Closed(g).err => Closed(g).buf = <<>>)
  BY <1>2, ClosedGood
<1> DEFINE d == Closed(g)
<1> HIDE DEF d
<1>4. Good(d, p \o t) /\ (~d.err => d.buf = <<>>) BY <1>3 DEF d
<1>5. Wrote(r, p, d, t, why) BY <1>1, <1>2, <1>4 DEF Wrote
<1> QED BY <1>5 DEF d

\* The disk is full: the text ends with the header.
LEMMA WroteHeader ==
    ASSUME NEW r, NEW id, id \in IDs, NEW data, Kept(r, id, data), NEW f, NEW p, Good(f, p),
           NEW ts, ts = <<>>, WriteEach(f, HeaderTexts(id)).err,
           NEW g, g = WriteEach(WriteEach(f, HeaderTexts(id)), ts),
           NEW t, t = FlattenSeq(HeaderTexts(id) \o ts), NEW why, why = "write error"
    PROVE  Wrote(r, p, Closed(g), t, why)
<1> DEFINE H == HeaderTexts(id)
           e == WriteEach(f, H)
           T == Texts(id, data)
<1>1. AllFit(ts) /\ AllFit(T) /\ (Legible(r) => FlattenSeq(H \o T) = Meant(r))
  <2>1. AllFit(<<>>) BY ONLY DEF AllFit
  <2> QED BY <2>1 DEF Kept
<1>2. t \in TextSeq /\ Good(g, p \o t) BY <1>1, RecordGood
<1>3. AllFit(H) /\ FlattenSeq(H) \in TextSeq /\ FlattenSeq(T) \in TextSeq
      /\ FlattenSeq(H \o T) = FlattenSeq(H) \o FlattenSeq(T)
  BY <1>1, HeadersFit
<1>4. H \in Seq(TextSeq) BY <1>3 DEF AllFit
<1>5. Good(e, p \o FlattenSeq(H)) BY <1>3, WriteEachGood
<1>6. g = e /\ g.err
  <2>1. e \in FileState BY <1>5 DEF Good
  <2>2. e.err /\ g = WriteEach(e, <<>>) OBVIOUS
  <2> HIDE DEF e
  <2>3. WriteEach(e, <<>>) = e BY <2>1, WriteEachAppend
  <2> QED BY <2>2, <2>3
<1>7. t = FlattenSeq(H)
  <2> HIDE DEF H
  <2>1. H \o <<>> = H BY ONLY <1>4
  <2> QED BY <2>1 DEF H
<1>8. Closed(g) = g BY <1>6 DEF Closed
<1>9. Legible(r) => IsPrefix(t, Meant(r))
  <2> DEFINE a == FlattenSeq(H)
             b == FlattenSeq(T)
             m == Meant(r)
  <2>1. a \in Seq(TextPiece) /\ b \in Seq(TextPiece) BY <1>3 DEF TextSeq
  <2>2. Legible(r) => m = a \o b BY <1>1, <1>3
  <2>3. t = a BY <1>7
  <2> HIDE DEF a, b, m
  <2>4. IsPrefix(a, a \o b) BY <2>1, PrefixJoined
  <2>5. Legible(r) => IsPrefix(t, m) BY <2>2, <2>3, <2>4
  <2> QED BY <2>5 DEF m
<1> HIDE DEF H, e, T
<1>10. Wrote(r, p, g, t, why) BY <1>2, <1>6, <1>9 DEF Wrote
<1> QED BY <1>8, <1>10

-----------------------------------------------------------------------------
(* A step of the converter *)

\* The record that follows those converted.
NextRecord == RecordsOf(said)[Len(out) + 1]

\* A record that is neither cut nor too long is read as it was written.
Read(id, data) ==
    /\ id \in IDs /\ data \in Seq(Byte) /\ Kept(NextRecord, id, data)
    /\ logID = id /\ clen = Len(data) /\ sa_read_buf = data

\* The bytes of a record that can be read are those that were logged.
LEMMA ReadWhole ==
    ASSUME LogOK(said), Source, Place, NEW id, NEW len, NEW data, ReadNow(id, len, data),
           Unreadable = ""
    PROVE  Read(id, data) /\ pos + 3 + Len(data) <= Len(src)
<1> DEFINE u == Unread
           m == Len(src)
           p == pos
           d == Len(data)
           P == mc_bytes_pad
           c == clen
           s == sa_read_buf
           l == logID
<1>1. u >= 3 /\ ~(len > P) /\ ~(u < 3 + len) BY ReadCut DEF NextIs
<1>2. /\ id \in IDs /\ len \in Lengths /\ data \in Seq(Byte)
      /\ u >= 1 => l = id
      /\ u >= 3 => c = len
      /\ c = len /\ len = d /\ u >= 3 + d => s = data
  BY ReadIs
<1>3. ~(len > P) => len = d /\ Kept(NextRecord, id, data)
  BY CutSizes DEF ReadNow, NextRecord
<1>4. u \in Nat /\ p \in Nat /\ m \in Nat /\ m = p + u BY PlaceIs
<1>5. d \in Nat BY <1>2, LenProperties
<1> HIDE DEF u, m, p, d, P, c, s, l
<1>6. len = d /\ Kept(NextRecord, id, data) BY <1>1, <1>3
<1>7. u >= 1 /\ u >= 3 + d
  <2>1. len \in Nat BY <1>5, <1>6
  <2> QED BY ONLY <1>1, <1>4, <1>5, <1>6, <2>1
<1>8. l = id /\ c = len /\ s = data BY <1>1, <1>2, <1>6, <1>7
<1>9. p + 3 + d <= m BY ONLY <1>4, <1>5, <1>7
<1>10. id \in IDs /\ data \in Seq(Byte) /\ Kept(NextRecord, id, data)
       /\ l = id /\ c = d /\ s = data
  BY <1>2, <1>6, <1>8
<1> QED BY <1>9, <1>10 DEF Read, l, c, d, s, p, m

\* What a step adds to the texts.
Converts(t) ==
    /\ Len(out) < Len(Wires(said)) /\ t \in TextSeq
    /\ out' = Append(out, t) /\ src' = src
    /\ Wrote(NextRecord, FlattenSeq(out), dst', t, stop')
    /\ pos' = Len(FlattenSeq(SubSeq(Wires(said), 1, Len(out) + 1))) /\ pos' <= Len(src)

\* What ConvertRecord does with a record that was read.
ConvertsAs(id, data, f, w, ts, g) ==
    /\ f = WriteEach(dst, HeaderTexts(id)) /\ w = Failure(f)
    /\ ts = IF w \in {"write error", "wrong length"} THEN <<>> ELSE Texts(id, data)
    /\ g = WriteEach(f, ts)
    /\ dst' = IF w = "" THEN g ELSE Closed(g)
    /\ out' = Append(out, FlattenSeq(HeaderTexts(id) \o ts))
    /\ pos' = pos + 3 + Len(data) /\ stop' = w /\ src' = src

\* The step in those terms.
LEMMA ConvertIs ==
    ASSUME ConvertRecord, NEW id, NEW data, Read(id, data)
    PROVE  \E f, w, ts, g : ConvertsAs(id, data, f, w, ts, g)
<1> DEFINE f == WriteEach(dst, HeaderTexts(logID))
           w == Failure(f)
           ts == IF w \in {"write error", "wrong length"} THEN <<>>
                 ELSE Texts(logID, sa_read_buf)
           g == WriteEach(f, ts)
<1>1. /\ dst' = IF w = "" THEN g ELSE Closed(g)
      /\ out' = Append(out, FlattenSeq(HeaderTexts(logID) \o ts))
      /\ pos' = pos + 3 + clen /\ stop' = w /\ src' = src
  BY DEF ConvertRecord
<1>2. logID = id /\ clen = Len(data) /\ sa_read_buf = data BY DEF Read
<1>3. /\ f = WriteEach(dst, HeaderTexts(id)) /\ w = Failure(f)
      /\ ts = IF w \in {"write error", "wrong length"} THEN <<>> ELSE Texts(id, data)
      /\ g = WriteEach(f, ts)
  BY <1>2
<1> HIDE DEF f, w, ts, g
<1>4. /\ out' = Append(out, FlattenSeq(HeaderTexts(id) \o ts))
      /\ pos' = pos + 3 + Len(data)
  BY <1>1, <1>2
<1>5. ConvertsAs(id, data, f, w, ts, g) BY <1>1, <1>3, <1>4 DEF ConvertsAs
<1> QED BY <1>5, Zenon

\* How the step may end.
LEMMA FailureIs ==
    ASSUME NEW id, NEW data, Read(id, data), NEW f, NEW w, w = Failure(f)
    PROVE  /\ w \in {"", "write error", "function"}
           /\ w = "write error" => f.err
           /\ w = "function" => FunctionFails(id, data)
<1>1. FixedLen(id) \in {-1, Len(data)} BY DEF Read, Kept
<1>2. logID = id /\ clen = Len(data) /\ sa_read_buf = data BY DEF Read
<1>3. FixedLen(logID) \in {-1, clen} BY <1>1, <1>2
<1>4. w = IF HeaderTexts(logID) # <<>> /\ f.err THEN "write error"
          ELSE IF FunctionFails(logID, sa_read_buf) THEN "function" ELSE ""
  BY <1>3 DEF Failure
<1>5. w = IF HeaderTexts(id) # <<>> /\ f.err THEN "write error"
          ELSE IF FunctionFails(id, data) THEN "function" ELSE ""
  BY <1>2, <1>4
<1> QED BY <1>5

\* A step writes what is meant by the next record.
LEMMA RecordConverted ==
    ASSUME LogOK(said), Source, Place, Good(dst, FlattenSeq(out)), ConvertRecord
    PROVE  \E t : Converts(t)
<1>1. Unreadable = "" BY DEF ConvertRecord
<1>2. Len(out) < Len(Wires(said))
  <2> DEFINE n == Len(out)
             K == Len(Wires(said))
             p == pos
             m == Len(src)
             B == Len(BytesOf(said))
             u == Unread
  <2>1. /\ n \in Nat /\ p \in Nat /\ m \in Nat /\ m = p + u /\ u \in Nat
        /\ n = K => p = B
    BY PlaceIs
  <2>2. K \in Nat /\ B \in Nat BY LogIs
  <2>3. n <= K BY DEF Place
  <2>4. m \in 0 .. B BY DEF Source
  <2>5. u # 0 BY <1>1 DEF Unreadable
  <2> HIDE DEF n, K, p, m, B, u
  <2>6. n < K BY ONLY <2>1, <2>2, <2>3, <2>4, <2>5
  <2> QED BY <2>6 DEF n, K
<1>3. PICK id, len, data : ReadNow(id, len, data) BY <1>2, RecordRead
<1>4. Read(id, data) /\ pos + 3 + Len(data) <= Len(src) BY <1>1, <1>3, ReadWhole
<1>5. PICK f, w, ts, g : ConvertsAs(id, data, f, w, ts, g) BY <1>4, ConvertIs
<1>6. w \in {"", "write error", "function"} /\ (w = "write error" => f.err)
      /\ (w = "function" => FunctionFails(id, data))
  BY <1>4, <1>5, FailureIs DEF ConvertsAs
<1> DEFINE t == FlattenSeq(HeaderTexts(id) \o ts)
           r == NextRecord
           p == FlattenSeq(out)
<1>7. id \in IDs /\ Kept(r, id, data) /\ Good(dst, p) BY <1>4 DEF Read
<1>8. /\ f = WriteEach(dst, HeaderTexts(id)) /\ g = WriteEach(WriteEach(dst, HeaderTexts(id)), ts)
      /\ stop' = w /\ out' = Append(out, t) /\ src' = src /\ pos' = pos + 3 + Len(data)
      /\ dst' = IF w = "" THEN g ELSE Closed(g)
      /\ w # "write error" => (w = "wrong length" \/ ts = Texts(id, data))
      /\ w = "write error" => ts = <<>>
  BY <1>5 DEF ConvertsAs
<1>9. Wrote(r, p, dst', t, w)
  <2> HIDE DEF r, p
  <2>1. CASE w = ""
    <3>1. dst' = g /\ ts = Texts(id, data) BY <1>8, <2>1
    <3>2. Wrote(r, p, g, t, w) BY <1>7, <1>8, <2>1, <3>1, WroteAll
    <3> QED BY <3>1, <3>2
  <2>2. CASE w = "function"
    <3>1. dst' = Closed(g) /\ ts = Texts(id, data) /\ FunctionFails(id, data)
      BY <1>6, <1>8, <2>2
    <3>2. Wrote(r, p, Closed(g), t, w) BY <1>7, <1>8, <2>2, <3>1, WroteSome
    <3> QED BY <3>1, <3>2
  <2>3. CASE w = "write error"
    <3>1. dst' = Closed(g) /\ ts = <<>> /\ f.err BY <1>6, <1>8, <2>3
    <3>2. WriteEach(dst, HeaderTexts(id)).err BY <1>8, <3>1
    <3>3. Wrote(r, p, Closed(g), t, w) BY <1>7, <1>8, <2>3, <3>1, <3>2, WroteHeader
    <3> QED BY <3>1, <3>3
  <2> QED BY <1>6, <2>1, <2>2, <2>3
<1>10. t \in TextSeq BY <1>9 DEF Wrote
<1>11. pos' = Len(FlattenSeq(SubSeq(Wires(said), 1, Len(out) + 1))) /\ pos' <= Len(src)
  <2>1. pos + 3 + Len(data) = Len(FlattenSeq(SubSeq(Wires(said), 1, Len(out) + 1)))
    BY <1>3 DEF ReadNow
  <2> QED BY <1>4, <1>8, <2>1
<1> HIDE DEF t, r, p
<1>12. Converts(t) BY <1>2, <1>8, <1>9, <1>10, <1>11 DEF Converts, r, p
<1> QED BY <1>12, Zenon

-----------------------------------------------------------------------------
(* The inductive invariant *)

\* What the text says of the i-th record.
Told(i) ==
    Legible(RecordsOf(said)[i]) =>
       IF i = Len(out) /\ stop \in {"write error", "function"}
       THEN IsPrefix(out[i], Meant(RecordsOf(said)[i]))
       ELSE out[i] = Meant(RecordsOf(said)[i])

\* Why the loop ended.
Stopped ==
    /\ stop \in {"", "end", "cut", "too long", "write error", "function"}
    /\ stop # "" /\ ~dst.err => dst.buf = <<>>
    /\ stop \in {"end", "cut", "too long"} => EndsFor(stop)
    /\ stop = "function" => ~Legible(RecordsOf(said)[Len(out)])
    /\ stop = "write error" => dst.err

\* The converter is where the records end, and the text is what they mean.
Converting ==
    /\ Source /\ Place
    /\ Good(dst, FlattenSeq(out))
    /\ \A i \in 1 .. Len(out) : Told(i)
    /\ Stopped

\* The converter has not been started.
Begun == src = <<>> /\ pos = 0 /\ out = <<>> /\ dst = Opened(0)

ConvInv == (Serving => Begun) /\ (~Serving => Converting)

\* A new text file.
LEMMA OpenedGood ==
    ASSUME NEW room \in Nat
    PROVE  Good(Opened(room), FlattenSeq(<<>>)) /\ <<>> \in Seq(TextSeq)
<1> DEFINE d == Opened(room)
           e == FlattenSeq(<<>>)
<1>1. <<>> \in Seq(TextSeq) /\ <<>> \in Seq(TextPiece) /\ <<>> \o <<>> = <<>> BY EmptySeq
<1>2. e = <<>> BY FlattenEmpty
<1>3. d.buf = <<>> /\ d.disk = <<>> /\ d.err = FALSE /\ d \in FileState
  BY <1>1 DEF Opened, FileState
<1> HIDE DEF d, e
<1>4. IsPrefix(<<>>, <<>> \o <<>>) BY ONLY <1>1, PrefixJoined
<1>5. Good(d, e) BY <1>1, <1>2, <1>3, <1>4 DEF Good
<1> QED BY <1>1, <1>5 DEF d, e

\* A file that is cut at its end.
LEMMA CutOff ==
    ASSUME NEW S, NEW b \in Seq(S), NEW c \in Nat, c <= Len(b), NEW n, n = Len(b) - c
    PROVE  /\ SubSeq(b, 1, n) \in Seq(S) /\ Len(SubSeq(b, 1, n)) = n
           /\ n \in 0 .. Len(b)
<1> DEFINE m == Len(b)
<1>1. m \in Nat BY LenProperties
<1>2. c <= m /\ n = m - c OBVIOUS
<1> HIDE DEF m
<1>3. 1 \in 1 .. m + 1 /\ n \in 1 - 1 .. m /\ n \in 0 .. m /\ n - 1 + 1 = n
  BY ONLY <1>1, <1>2, c \in Nat
<1>4. SubSeq(b, 1, n) \in Seq(S) /\ Len(SubSeq(b, 1, n)) = n - 1 + 1
  BY <1>3, Slice DEF m
<1> QED BY <1>3, <1>4 DEF m

\* The converter is started.
LEMMA StopStarts ==
    ASSUME LogOK(said'), Begun, NEW end \in Ends, StopServer(end)
    PROVE  Converting'
<1> DEFINE s == said'
           B == BytesOf(s)
           n == Len(B) - end.cut
<1>1. /\ src' = SubSeq(B, 1, n) /\ end.cut <= Len(B)
      /\ dst' = Opened(end.room) /\ stop' = "" /\ pos' = pos /\ out' = out
  BY Zenon DEF StopServer
<1>2. end.cut \in Nat /\ end.room \in Nat BY EndAssumption
<1>3. PICK E : s \in Seq(E) BY DEF LogOK, IsLog
<1>4. \A i \in 1 .. Len(s) : EntryOK(s[i]) BY DEF LogOK
<1> DEFINE w == Wires(s)
<1>5. B \in Seq(Byte) /\ w \in Seq(Seq(Byte))
  <2> HIDE DEF s
  <2> QED BY <1>3, <1>4, LogWires
<1>6. pos' = 0 /\ out' = <<>> BY <1>1 DEF Begun
<1>7. /\ src' \in Seq(Byte) /\ Len(src') \in 0 .. Len(B) /\ Len(src') = n
  <2> HIDE DEF B
  <2>1. /\ SubSeq(B, 1, n) \in Seq(Byte) /\ Len(SubSeq(B, 1, n)) = n
        /\ n \in 0 .. Len(B)
    BY <1>1, <1>2, <1>5, CutOff
  <2> QED BY <1>1, <2>1
<1>8. Source'
  <2> HIDE DEF n
  <2>1. src' = SubSeq(B, 1, Len(src')) BY <1>1, <1>7
  <2> QED BY <1>7, <2>1 DEF Source
<1>9. Place'
  <2> HIDE DEF n
  <2>1. SubSeq(w, 1, 0) = <<>> BY <1>5, PrefixEnds
  <2>3. <<>> \in Seq(TextSeq) /\ Len(<<>>) = 0 BY EmptySeq
  <2>3a. Len(FlattenSeq(SubSeq(w, 1, 0))) = 0
    <3> DEFINE v == SubSeq(w, 1, 0)
    <3>1. v = <<>> BY <2>1
    <3> HIDE DEF v
    <3>2. FlattenSeq(v) = <<>> BY <3>1, FlattenEmpty
    <3>3. Len(FlattenSeq(v)) = 0 BY <2>3, <3>2
    <3> QED BY <3>3 DEF v
  <2>4. 0 <= Len(w) /\ 0 <= Len(src')
    <3> HIDE DEF w
    <3>1. Len(w) \in Nat /\ Len(src') \in Nat BY <1>5, <1>7, LenProperties
    <3> QED BY <3>1
  <2> DEFINE o == out'
             p == pos'
  <2>5. o = <<>> /\ p = 0 BY <1>6
  <2> HIDE DEF o, p
  <2>6. /\ o \in Seq(TextSeq) /\ Len(o) <= Len(w)
        /\ p = Len(FlattenSeq(SubSeq(w, 1, Len(o)))) /\ p <= Len(src')
    <3> HIDE DEF w
    <3> QED BY <2>3a, <2>3, <2>4, <2>5
  <2> QED BY <2>6 DEF Place, o, p
<1>10. Good(dst', FlattenSeq(out'))
  BY <1>1, <1>2, <1>6, OpenedGood
<1>11. \A i \in 1 .. Len(out') : FALSE BY <1>6
<1>12. Stopped' BY <1>1 DEF Stopped
<1> QED BY <1>8, <1>9, <1>10, <1>11, <1>12 DEF Converting

\* The loop ends.
LEMMA EndOfLoopStops ==
    ASSUME LogOK(said), Converting, EndOfLoop, said' = said
    PROVE  Converting' /\ stop' # "not started"
<1>1. /\ stop = "" /\ stop' = Unreadable /\ dst' = Closed(dst) /\ Unreadable # ""
      /\ src' = src /\ pos' = pos /\ out' = out
  BY DEF EndOfLoop, Running
<1>2. EndsFor(Unreadable) BY <1>1, EndsWhy DEF Converting
<1>3. EndsFor(stop') /\ stop' \in {"end", "cut", "too long"}
  BY <1>1, <1>2 DEF EndsFor
<1>4. EndsFor(stop)' BY <1>1, <1>3 DEF EndsFor
<1>5. Good(dst', FlattenSeq(out')) /\ (~dst'.err => dst'.buf = <<>>)
  BY <1>1, ClosedGood DEF Converting
<1>6. Source' /\ Place' BY <1>1 DEF Converting, Source, Place
<1>7. \A i \in 1 .. Len(out') : Told(i)'
  <2>1. TAKE i \in 1 .. Len(out')
  <2>2. Told(i) BY <1>1 DEF Converting
  <2> QED BY <1>1, <1>3, <2>2 DEF Told
<1>8. Stopped' BY <1>3, <1>4, <1>5 DEF Stopped
<1> QED BY <1>3, <1>5, <1>6, <1>7, <1>8 DEF Converting

\* The next text is added to those before it.
LEMMA NextText ==
    ASSUME NEW o, o \in Seq(TextSeq), NEW t, t \in TextSeq, NEW n, n = Len(o)
    PROVE  /\ Append(o, t) \in Seq(TextSeq) /\ Len(Append(o, t)) = n + 1 /\ n \in Nat
           /\ Append(o, t)[n + 1] = t /\ \A i \in 1 .. n : Append(o, t)[i] = o[i]
           /\ FlattenSeq(Append(o, t)) = FlattenSeq(o) \o t
<1>1. FlattenSeq(Append(o, t)) = FlattenSeq(o) \o t BY FlattenAppend DEF TextSeq
<1>2. n \in Nat BY LenProperties
<1>3. /\ Append(o, t) \in Seq(TextSeq) /\ Len(Append(o, t)) = Len(o) + 1
      /\ \A i \in 1 .. Len(o) : Append(o, t)[i] = o[i]
      /\ Append(o, t)[Len(o) + 1] = t
  BY AppendProperties
<1> QED BY <1>1, <1>2, <1>3

\* A record is converted.
LEMMA RecordStops ==
    ASSUME LogOK(said), Converting, ConvertRecord, said' = said
    PROVE  Converting' /\ stop' # "not started"
<1>1. PICK t : Converts(t) BY RecordConverted DEF Converting
<1> DEFINE n == Len(out)
           o == out'
           w == Wires(said)
<1>2. out \in Seq(TextSeq) /\ t \in TextSeq /\ o = Append(out, t) /\ src' = src /\ n < Len(w)
  BY <1>1 DEF Converting, Place, Converts
<1>3. /\ o \in Seq(TextSeq) /\ Len(o) = n + 1 /\ n \in Nat
      /\ o[n + 1] = t /\ \A i \in 1 .. n : o[i] = out[i]
      /\ FlattenSeq(o) = FlattenSeq(out) \o t
  BY <1>2, NextText
<1>4. Wrote(RecordsOf(said)[n + 1], FlattenSeq(out), dst', t, stop')
  BY <1>1 DEF Converts, NextRecord
<1>5. Source' BY <1>2 DEF Converting, Source
<1>6. Len(w) \in Nat BY LogIs
<1>7. pos' = Len(FlattenSeq(SubSeq(w, 1, n + 1))) /\ pos' <= Len(src')
  BY <1>1, <1>2 DEF Converts
<1>8. Place'
  <2>1. w = Wires(said') OBVIOUS
  <2> HIDE DEF n, o, w
  <2>2. Len(o) <= Len(w) BY <1>2, <1>3, <1>6
  <2>3. pos' = Len(FlattenSeq(SubSeq(w, 1, Len(o)))) BY <1>3, <1>7
  <2> QED BY <1>3, <1>7, <2>1, <2>2, <2>3 DEF Place, o
<1>9. Good(dst', FlattenSeq(o)) BY <1>3, <1>4 DEF Wrote
<1>10. stop = "" BY DEF ConvertRecord, Running
<1>11. stop' \in {"", "write error", "function"} BY <1>4 DEF Wrote
<1>12. \A i \in 1 .. Len(o) : Told(i)'
  <2> SUFFICES ASSUME NEW i \in 1 .. Len(o) PROVE Told(i)'
    OBVIOUS
  <2> DEFINE r == RecordsOf(said)[i]
             S == stop'
  <2>1. CASE i \in 1 .. n
    <3>1. Legible(r) => out[i] = Meant(r) BY <1>10, <2>1 DEF Converting, Told
    <3>2. i # n + 1 /\ o[i] = out[i] BY <1>3, <2>1
    <3>3. i # Len(o)
      <4> HIDE DEF n, o
      <4> QED BY <1>3, <3>2
    <3>4. Legible(r) => o[i] = Meant(r) BY <3>1, <3>2
    <3> QED BY <3>3, <3>4 DEF Told
  <2>2. CASE i = n + 1
    <3>1. o[i] = t /\ i = Len(o)
      <4> HIDE DEF n, o
      <4> QED BY <1>3, <2>2
    <3>2. Legible(r) => (IF S = "" THEN t = Meant(r) ELSE IsPrefix(t, Meant(r)))
      BY <1>4, <2>2 DEF Wrote
    <3>3. Legible(r) => (IF S = "" THEN o[i] = Meant(r) ELSE IsPrefix(o[i], Meant(r)))
      BY <3>1, <3>2
    <3>4. S = "" \/ S \in {"write error", "function"} BY <1>11
    <3> QED BY <3>1, <3>3, <3>4 DEF Told
  <2>3. i \in 1 .. n \/ i = n + 1
    <3> HIDE DEF n, o
    <3> QED BY <1>3
  <2> QED BY <2>1, <2>2, <2>3
<1>13. Stopped'
  <2>1. /\ stop' = "function" => ~Legible(RecordsOf(said)[n + 1])
        /\ stop' = "write error" => dst'.err
        /\ stop' # "" /\ ~dst'.err => dst'.buf = <<>>
    BY <1>4 DEF Wrote
  <2>2. n + 1 = Len(o) BY <1>3
  <2>3. stop' = "function" => ~Legible(RecordsOf(said)[Len(o)]) BY <2>1, <2>2
  <2> QED BY <1>11, <2>1, <2>3 DEF Stopped
<1>14. stop' # "not started" BY <1>11
<1> QED BY <1>5, <1>8, <1>9, <1>12, <1>13, <1>14 DEF Converting

\* Every step keeps the invariant.
LEMMA ConvSteps ==
    ASSUME LogOK(said), LogOK(said'), ConvInv, [Next]_vars
    PROVE  ConvInv'
<1>1. ASSUME Serve PROVE ConvInv'
  <2>1. Serving /\ UNCHANGED convVars BY <1>1 DEF Serve
  <2>2. Serving' /\ Begun' BY <2>1 DEF ConvInv, Serving, Begun, convVars
  <2> QED BY <2>2 DEF ConvInv
<1>2. ASSUME NEW end \in Ends, StopServer(end) PROVE ConvInv'
  <2>1. Serving /\ stop' = "" BY <1>2, Zenon DEF StopServer
  <2>2. Begun BY <2>1 DEF ConvInv
  <2>3. Converting' BY <1>2, <2>2, StopStarts
  <2> QED BY <2>1, <2>3 DEF ConvInv, Serving
<1>3. ASSUME Convert PROVE ConvInv'
  <2>1. said' = said /\ ConvNext BY <1>3 DEF Convert, wsVars
  <2>2. stop = "" BY <2>1 DEF ConvNext, EndOfLoop, ConvertRecord, Running
  <2>3. Converting BY <2>2 DEF ConvInv, Serving
  <2>4. Converting' /\ stop' # "not started"
    BY <2>1, <2>3, EndOfLoopStops, RecordStops DEF ConvNext
  <2> QED BY <2>4 DEF ConvInv, Serving
<1>4. ASSUME UNCHANGED vars PROVE ConvInv'
  <2>1. said' = said /\ src' = src /\ pos' = pos /\ dst' = dst /\ out' = out /\ stop' = stop
    BY <1>4 DEF vars, wsVars, convVars
  <2> QED BY <2>1 DEF ConvInv, Serving, Begun, Converting, Source, Place, Told, Stopped,
                      EndsFor
<1> QED BY <1>1, <1>2, <1>3, <1>4 DEF Next

\* What the invariants are, together.
SessionInv == WSTyped /\ LogOK(said) /\ Held /\ ConvInv

\* They hold at first, and every step keeps them.
LEMMA SessionSteps ==
    /\ Init => SessionInv
    /\ SessionInv /\ [Next]_vars => SessionInv'
<1>1. ASSUME Init PROVE SessionInv
  <2>1. Begun /\ stop = "not started" BY <1>1 DEF Init, Begun
  <2>2. ConvInv BY <2>1 DEF ConvInv, Serving
  <2> QED BY <1>1, <2>2, InitTyped, LogInit DEF SessionInv
<1>2. ASSUME SessionInv, [Next]_vars PROVE SessionInv'
  <2>1. WSTyped /\ LogOK(said) /\ Held /\ ConvInv BY <1>2 DEF SessionInv
  <2>2. WSTyped' BY <1>2, <2>1, TypedSteps
  <2>3. LogOK(said') /\ Held' BY <1>2, <2>1, LogSteps
  <2>4. ConvInv' BY <1>2, <2>1, <2>3, ConvSteps
  <2> QED BY <2>2, <2>3, <2>4 DEF SessionInv
<1> QED BY <1>1, <1>2

\* The invariants hold in every state.
LEMMA SessionInvariant == Spec => []SessionInv
<1>1. Init => SessionInv BY SessionSteps
<1>2. SessionInv /\ [Next]_vars => SessionInv' BY SessionSteps
<1> QED BY <1>1, <1>2, PTL DEF Spec

\* A text file that holds a prefix of a text.
LEMMA GoodFile ==
    ASSUME NEW f, NEW p, Good(f, p)
    PROVE  /\ f.err \in BOOLEAN /\ f.room \in Nat /\ IsPrefix(f.disk, p)
           /\ ~f.err => f.disk \o f.buf = p
<1>1. f \in FileState /\ IsPrefix(f.disk, p) /\ (~f.err => f.disk \o f.buf = p) BY DEF Good
<1> QED BY <1>1 DEF FileState

\* The buffer of the log file, the file and the text file hold what they may,
\* and the ids in the log are ids (KClient.cpp:298-341, main.cpp:225-330).
THEOREM SessionTyping == Spec => []SessionTypeOK
<1>1. ASSUME SessionInv PROVE SessionTypeOK
  <2>1. WSTyped /\ LogOK(said) /\ Held /\ ConvInv BY <1>1 DEF SessionInv
  <2>2. /\ client.at \in {"none", "hello", "accept", "read", "write", "dead"}
        /\ client.usr \in Nat /\ client.wrt \in Nat
    BY <2>1 DEF WSTyped, Places
  <2>3. errbuf \in [1..24 -> Byte] BY <2>1 DEF Held, Buffers
  <2>4. \A i \in DOMAIN said : said[i].id \in ToSet(LogIDs)
    <3>1. PICK E : said \in Seq(E) BY <2>1 DEF LogOK, IsLog
    <3>2. DOMAIN said = 1 .. Len(said) BY <3>1, LenProperties
    <3>3. \A i \in 1 .. Len(said) : said[i].id \in IDs BY <2>1 DEF LogOK, EntryOK
    <3> QED BY <3>2, <3>3 DEF IDs
  <2>5. /\ \A b \in 1..Len(src) : src[b] \in Byte
        /\ pos \in 0..Len(src)
        /\ dst.err \in BOOLEAN /\ dst.room \in Nat
    <3>1. CASE Serving
      <4>1. src = <<>> /\ pos = 0 /\ dst = Opened(0) BY <2>1, <3>1 DEF ConvInv, Begun
      <4> QED BY <4>1 DEF Opened
    <3>2. CASE ~Serving
      <4>1. Source /\ Place /\ Good(dst, FlattenSeq(out)) BY <2>1, <3>2 DEF ConvInv, Converting
      <4>2. src \in Seq(Byte) BY <4>1 DEF Source
      <4>3. \A b \in 1..Len(src) : src[b] \in Byte BY <4>2, ElementOfSeq
      <4>4. pos \in Nat /\ Len(src) \in Nat BY <2>1, <4>1, PlaceIs
      <4>5. pos <= Len(src) BY <4>1 DEF Place
      <4>6. pos \in 0..Len(src) BY ONLY <4>4, <4>5
      <4> QED BY <4>1, <4>3, <4>6, GoodFile
    <3> QED BY <3>1, <3>2
  <2> QED BY <2>2, <2>3, <2>4, <2>5 DEF SessionTypeOK
<1> QED BY <1>1, SessionInvariant, PTL

\* No text is lost, written twice or out of order, for any room on the disk and
\* any log (_KFile_W.cpp:18-27, 218-248).
THEOREM TextIsWritten == Spec => []TextOnDisk
<1>1. ASSUME SessionInv PROVE TextOnDisk
  <2>1. ConvInv BY <1>1 DEF SessionInv
  <2>2. CASE Serving
    <3>1. dst = Opened(0) /\ out = <<>> BY <2>1, <2>2 DEF ConvInv, Begun
    <3>2. 0 \in Nat OBVIOUS
    <3>3. Good(dst, FlattenSeq(out)) BY <3>1, <3>2, OpenedGood
    <3> QED BY <2>2, <3>3, GoodFile DEF TextOnDisk
  <2>3. CASE ~Serving
    <3>1. Good(dst, FlattenSeq(out)) /\ Stopped BY <2>1, <2>3 DEF ConvInv, Converting
    <3>2. ~dst.err /\ ~Running => dst.buf = <<>> BY <3>1 DEF Stopped, Running
    <3> QED BY <3>1, <3>2, GoodFile DEF TextOnDisk
  <2> QED BY <2>2, <2>3
<1> QED BY <1>1, SessionInvariant, PTL

\* The converter never loses its place: whatever was logged, by any number of
\* clients, and wherever the file was cut, it ends at the end, at a cut, at a
\* string that was cut when logged, at a user that it cannot read, or when the
\* disk is full (main.cpp:225-330).
THEOREM LoopEndsForCause == Spec => []StopsForCause
<1>1. ASSUME SessionInv PROVE StopsForCause
  <2>1. ConvInv /\ LogOK(said) BY <1>1 DEF SessionInv
  <2>2. Records = RecordsOf(said) /\ Len(RecordsOf(said)) = Len(Wires(said))
    BY <2>1, LogIs
  <2>3. CASE Serving BY <2>3 DEF StopsForCause, Serving
  <2>4. CASE ~Serving
    <3>1. Stopped BY <2>1, <2>4 DEF ConvInv, Converting
    <3>2. stop \in {"", "end", "cut", "too long", "write error", "function"} BY <3>1 DEF Stopped
    <3>3. stop \in {"end", "cut", "too long"} => EndsFor(stop) BY <3>1 DEF Stopped
    <3>4. stop = "cut" => Len(src) < Len(BytesOf(said)) BY <3>3 DEF EndsFor
    <3>5. stop = "end" /\ Len(src) = Len(BytesOf(said)) => Len(out) = Len(Records)
      BY <2>2, <3>3 DEF EndsFor
    <3>6. stop = "too long" => LongString(Records[Len(out) + 1])
      BY <2>2, <3>3 DEF EndsFor
    <3>7. /\ stop = "function" => ~Legible(Records[Len(out)])
          /\ stop = "write error" => dst.err
      BY <2>2, <3>1 DEF Stopped
    <3> QED BY <3>2, <3>4, <3>5, <3>6, <3>7 DEF StopsForCause, LongString
  <2> QED BY <2>3, <2>4
<1> QED BY <1>1, SessionInvariant, PTL

\* In the end the text says of each record, in the order logged, what was
\* meant, for every log that the program can write and wherever it is cut
\* (main.cpp:225-330, _KUtf16_toUtf8.cpp:8-110).
THEOREM TextIsMeant == Spec => []TextTells
<1>1. ASSUME SessionInv PROVE TextTells
  <2>1. ConvInv /\ LogOK(said) BY <1>1 DEF SessionInv
  <2>2. /\ Records = RecordsOf(said) /\ DOMAIN RecordsOf(said) = 1 .. Len(Wires(said))
        /\ Len(Wires(said)) \in Nat
    BY <2>1, LogIs
  <2>3. SUFFICES ASSUME ~Serving PROVE TextTells BY DEF TextTells
  <2>4. Place /\ \A i \in 1 .. Len(out) : Told(i) BY <2>1, <2>3 DEF ConvInv, Converting
  <2>5. out \in Seq(TextSeq) /\ Len(out) <= Len(Wires(said)) BY <2>4 DEF Place
  <2>6. DOMAIN out = 1 .. Len(out) /\ Len(out) \in Nat BY <2>5, LenProperties
  <2>7. \A i \in DOMAIN out : i \in DOMAIN Records
    <3> DEFINE n == Len(out)
               K == Len(Wires(said))
    <3>1. n \in Nat /\ K \in Nat /\ n <= K BY <2>2, <2>5, <2>6
    <3> HIDE DEF n, K
    <3>2. \A i \in 1 .. n : i \in 1 .. K BY ONLY <3>1
    <3> QED BY <2>2, <2>6, <3>2 DEF n, K
  <2>8. \A i \in DOMAIN out :
          Legible(Records[i]) =>
             IF i = Len(out) /\ stop \in {"write error", "function"}
             THEN IsPrefix(out[i], Meant(Records[i])) ELSE out[i] = Meant(Records[i])
    BY <2>2, <2>4, <2>6 DEF Told
  <2> QED BY <2>7, <2>8 DEF TextTells
<1> QED BY <1>1, SessionInvariant, PTL
=============================================================================
