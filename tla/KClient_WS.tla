------------------------------ MODULE KClient_WS ------------------------------
(***************************************************************************)
(* A client as its connection sees it (KClient.cpp, KClient_Chat.cpp): the *)
(* bytes of WebSocket frames arrive in reads of any size, a handler takes  *)
(* each read for one whole frame, acts on it or closes the connection, and *)
(* logs what it did.  One KClient object serves one connection after       *)
(* another.                                                                *)
(*                                                                         *)
(* A frame has the fields of its header that the code looks at and the     *)
(* command in it.  The mask of a payload is applied twice, by the browser  *)
(* and by the server, and left out, but not the bytes it reaches.  The     *)
(* decisions that KServer models (permission, delays, free buffers and     *)
(* records) are open here.                                                 *)
(***************************************************************************)
EXTENDS LogRecord, FiniteSets

CONSTANTS
    Hellos,       \* requests for a connection, the received part of each
    Frames,       \* what a browser may send
    Parts,        \* bound: sizes of reads that do not end with a frame
    EN_MAX_LEN_uname,    \* the units of a name that a user record has room for
    Peers,        \* who connects: ip, the address as bytes, and super
    uview,        \* the look of a user
    FirstUsr,     \* the first id of an ordinary user, 1000 in the code
    Paddings,     \* what may lie in the four bytes after m_sckt_ID
    MaxConns,     \* bounds: the connections (another is made only after one
    MaxFrames,    \* that had a user), the frames sent in all of them, and
    MaxActed      \* the reads of one that are acted on

\* No user has the id 0, and a payload has a length.
ASSUME ClientAssumption ==
    /\ FirstUsr \in Nat \ {0} /\ EN_MAX_LEN_uname \in Nat
    /\ \A f \in Frames : f.len \in Nat

\* Opcodes have four bits, the units of a name sixteen.  A name that the record
\* has no room for would be written behind it, and is left out.
ASSUME WireAssumption ==
    /\ uview \in Nat
    /\ \A f \in Frames : /\ f.op \in 0..15
                         /\ f.name \in Seq(Nat)
                         /\ \A i \in DOMAIN f.name : f.name[i] < 65536
                         /\ Len(f.name) <= EN_MAX_LEN_uname
    /\ \A peer \in Peers : peer.ip \in Seq(0..255) /\ Len(peer.ip) \in {4, 16}
    /\ Parts \subseteq Nat /\ Paddings \subseteq Nat

BYTES_PRIVATE_BUF == 1500
\* Mutant: the mask is taken to reach no further than the payload.
PayloadOnly == BYTES_PRIVATE_BUF - 8
BYTES_MAX_Payload == BYTES_PRIVATE_BUF - 8 - 7

Commands == {"InitRI", "CrtUsr", "other"}

VARIABLES
    client,    \* at: where its operation is, or "dead" with the program; sckt: m_sckt_ID; peer; usr:
               \* m_uID of its record, 0 if none; wrt: m_bytes_to_wrt;
               \* unmasked: where the last mask ended; acted: the reads acted
               \* on; sent: the frames sent, each with where it starts; got:
               \* the bytes of them read
    ids,       \* s_super_usr_ID and s_usr_ID
    errbuf,    \* sa_buf_for_ErrLog
    strayed,   \* the sets of frames sent when a read was acted on that was not
               \* one frame with a command, for the properties
    ms_time_atRead_asWS,    \* when a WebSocket was last read from
    frames,    \* a counter for the bound
    said       \* the records logged: what each means and its bytes

wsVars == <<client, ids, errbuf, strayed, ms_time_atRead_asWS,
            frames, said>>

Idle(sckt) == [at |-> "none", sckt |-> sckt, peer |-> [ip |-> <<>>, super |-> FALSE],
               usr |-> 0, wrt |-> 0, unmasked |-> 0, acted |-> 0, sent |-> <<>>, got |-> 0]

WSInit ==
    /\ client = Idle(0)
    /\ ids = [super |-> 1, usr |-> FirstUsr]
    /\ errbuf = [i \in 1..24 |-> 0]
    /\ strayed = {}
    /\ ms_time_atRead_asWS = 0
    /\ frames = 0 /\ said = <<>>

-----------------------------------------------------------------------------
(* What is logged: an id, the time, 0 if the record has none, and what it *)
(* means, as pairs of a kind and a value; its bytes; and whether the code *)
(* gives KgLog what it means.                                             *)

Entry(id, t, args, bytes, faithful) ==
    [id |-> id, t |-> t, args |-> args, bytes |-> bytes, faithful |-> faithful]

\* The clock: it goes on with every record.
now == Len(said) + 1

N(n) == <<"num", n>>

\* WriteID_with_UnixTime without data.
Event(id) == Entry(id, now, <<>>, WriteID_wUT(id, <<>>, now), TRUE)

\* WriteID_wUT of m_sckt_ID, which is shorter than the eight bytes logged:
\* after it comes pad.
Sckt(id, written, t, pad) ==
    Entry(id, t, <<N(client.sckt)>>,
          WriteID_wUT(written, LE(4, client.sckt) \o LE(4, pad), t),
          id = written /\ pad = 0)

\* WriteID_wUT of the first n bytes of the buffer b.
FromBuf(id, args, b, n, t, faithful) ==
    Entry(id, t, args, WriteID_wUT(id, SubSeq(b, 1, n), t), faithful)

\* The buffer after words of eight bytes, or less, are written to its start.
Filled(words) ==
    LET b == FlattenSeq(words) IN b \o SubSeq(errbuf, Len(b) + 1, 24)

W(n) == LE(8, n)

\* Clean: that the user's record is given up is logged, with the time t.
Leaving(t) ==
    IF client.usr = 0 THEN <<>>
    ELSE <<Entry("Close_Usr", t, <<N(client.usr)>>,
                 Wrt_uID_wUT("Close_Usr", client.usr, t), TRUE)>>

\* Mutant: the former user's record is kept.
CloseKeeps(entries, t) ==
    /\ said' = said \o entries \o Leaving(t)
    /\ client' = [Idle(client.sckt) EXCEPT !.usr = client.usr]

\* Recycle_Clnt and Clean, after the records of the handler.  What is unread
\* is lost with the socket.
Close(entries, t) ==
    /\ said' = said \o entries \o Leaving(t)
    /\ client' = Idle(client.sckt)

-----------------------------------------------------------------------------
(* The handshake *)

At(where) == client.at = where

Connect(peer) ==
    /\ At("none") /\ client.sckt < MaxConns
    /\ client.sckt > 0 => ids # [super |-> 1, usr |-> FirstUsr]
    /\ client' = [Idle(client.sckt + 1) EXCEPT !.at = "hello", !.peer = peer]
    /\ UNCHANGED <<ids, errbuf, strayed, ms_time_atRead_asWS, frames, said>>

HelloSizeOK(h) == h.len \in 120 .. 1000

\* The name of the key is found early enough for a key after it, the spaces
\* after the name leave room for the key, and it ends as one does.
KeyFound(h) ==
    /\ h.key >= 0 /\ h.key <= h.len - 32
    /\ h.key + 8 + h.spaces <= h.len - 24
    /\ h.equals

HelloRead(h) ==
    /\ At("hello")
    /\ IF ~HelloSizeOK(h) THEN Close(<<Event("ERR_on_Async_Read_Crt_WScktCnctn")>>, now)
       ELSE IF ~KeyFound(h) THEN Close(<<Event("ERR_no_WebSocket_Key")>>, now)
       ELSE client' = [client EXCEPT !.at = "accept"] /\ UNCHANGED said
    /\ UNCHANGED <<ids, errbuf, strayed, ms_time_atRead_asWS, frames>>

HelloAnswered(ok) ==
    /\ At("accept")
    /\ IF ok THEN client' = [client EXCEPT !.at = "read"] /\ UNCHANGED said
       ELSE Close(<<Event("ERR_on_Async_Write_Crt_WScktCnctn")>>, now)
    /\ UNCHANGED <<ids, errbuf, strayed, ms_time_atRead_asWS, frames>>

-----------------------------------------------------------------------------
(* Frames on the wire *)

\* The bytes before the payload, the mask included.
HeaderSize(f) == IF f.len < 126 THEN 6 ELSE IF f.len < 65536 THEN 8 ELSE 14
Size(f) == HeaderSize(f) + f.len

\* Where the next frame starts.
End == IF client.sent = <<>> THEN 0
       ELSE Last(client.sent).from + Size(Last(client.sent).frame)

\* The browser sends a frame, whether the last one is answered or not.
Send(f) ==
    /\ client.at \in {"read", "write"} /\ frames < MaxFrames
    /\ frames' = frames + 1
    /\ client' = [client EXCEPT !.sent = Append(@, [frame |-> f, from |-> End])]
    /\ UNCHANGED <<ids, errbuf, strayed, ms_time_atRead_asWS, said>>

\* The frame that starts where the next read does, 0 if none does.
Here == LET k == {i \in DOMAIN client.sent : client.sent[i].from = client.got}
        IN IF k = {} THEN 0 ELSE CHOOSE i \in k : TRUE

\* What async_read_some may deliver.
Readable ==
    LET ends == {client.sent[k].from - client.got : k \in DOMAIN client.sent}
                    \cup {End - client.got, BYTES_PRIVATE_BUF}
    IN {n \in Parts \cup ends : n > 0 /\ n <= BYTES_PRIVATE_BUF /\ client.got + n <= End}

\* The first bytes of a read are a header, be it the wrong one.
HeaderHere == IF Here = 0 THEN Frames ELSE {client.sent[Here].frame}

\* The whole of one frame is read.
Whole(n) == Here # 0 /\ n = Size(client.sent[Here].frame)

-----------------------------------------------------------------------------
(* On_Async_Read_Hndlr_asWS *)

\* The payload length as the code reads it: two bytes in host order.
bytes_payload(f) ==
    IF f.len < 126 THEN f.len ELSE (f.len % 256) * 256 + (f.len \div 256)

\* The bytes of a 64-bit length, as sent, or what of them has arrived.
LongLength(f, n) ==
    [i \in 1..8 |-> IF i <= 4 \/ n < i + 2 THEN 0
                    ELSE LET p == 8 - i IN
                         IF p > 3 THEN 0 ELSE (f.len \div 256^p) % 256]

\* Mutant: the length of a short frame is not compared with the bytes read.
MismatchLongOnly(f, n) == f.len >= 126 /\ n # bytes_payload(f) + HeaderSize(f)

Mismatch(f, n) == n # bytes_payload(f) + HeaderSize(f)

\* The record of an error, and the buffer it leaves; none for a frame that
\* is accepted.
InvalidLen(n, len, true) ==
    LET b == Filled(<<W(client.sckt), W(n), W(len)>>)
    IN [buf |-> b, entry |->
          <<FromBuf("ERR_invalid_len_WS_pckt",
                    <<N(client.sckt), N(n), N(true)>>, b, 24, now, len = true)>>]

TooBig(word, true, faithful) ==
    LET b == Filled(<<W(client.sckt), word>>)
    IN [buf |-> b, entry |->
          <<FromBuf("ERR_tooBig_Payload",
                    <<N(client.sckt), N(true)>>, b, 16, now, faithful)>>]

UnhandledOpcode(op) ==
    LET b == Filled(<<W(client.sckt), <<op>> >>)
    IN [buf |-> b, entry |->
          <<FromBuf("RCVD_Unhandle_opcode",
                    <<N(client.sckt), N(op)>>, b, 9, now, TRUE)>>]

OnlyId(id, pad) == [buf |-> errbuf, entry |-> <<Sckt(id, id, now, pad)>>]

Checked(f, n, pad) ==
    IF n < 6 THEN InvalidLen(n, 0, 0)
    ELSE IF ~f.fin THEN OnlyId("ERR_not_FIN_Recieved", pad)
    ELSE IF f.op = 8 THEN OnlyId("RCVD_CLOSE_opcode", pad)
    ELSE IF f.op = 9 THEN OnlyId("RCVD_PING_opcode", pad)
    ELSE IF f.op # 2 THEN UnhandledOpcode(f.op)
    ELSE IF f.len >= 65536 THEN TooBig(LongLength(f, n), f.len, FALSE)
    ELSE IF Mismatch(f, n) THEN InvalidLen(n, bytes_payload(f), f.len)
    ELSE IF bytes_payload(f) > BYTES_MAX_Payload
         THEN TooBig(W(bytes_payload(f)), f.len, bytes_payload(f) = f.len)
    ELSE [buf |-> errbuf, entry |-> <<>>]

\* Every read sets the time, and its records have it.
ReadFails(pad) ==
    /\ At("read")
    /\ ms_time_atRead_asWS' = now
    /\ Close(<<Sckt("ERR_on_Async_Read_WebSckt", "ERR_on_Async_Read_WebSckt", now, pad)>>,
             now)
    /\ UNCHANGED <<ids, errbuf, strayed, frames>>

ReadRefused(f, n, pad) ==
    LET c == Checked(f, n, pad)
    IN /\ At("read") /\ c.entry # <<>>
       /\ ms_time_atRead_asWS' = now
       /\ Close(c.entry, now)
       /\ errbuf' = c.buf
       /\ UNCHANGED <<ids, strayed, frames>>

-----------------------------------------------------------------------------
(* WS_Read_Hndlr.  Each operator gives what may happen to the client, the *)
(* ids and the log.                                                       *)

\* The mask is applied eight bytes at a time, at least once.
UnmaskEnd(f) ==
    LET words == (bytes_payload(f) + 7) \div 8
    IN HeaderSize(f) + 8 * (IF words = 0 THEN 1 ELSE words)

\* After the read of n bytes a reply of bytes is written, header included.
Reply(f, n, bytes, entries, usr) ==
    /\ said' = said \o entries
    /\ client' = [client EXCEPT !.at = "write", !.got = @ + n, !.acted = @ + 1,
                               !.wrt = bytes, !.usr = usr, !.unmasked = UnmaskEnd(f)]

\* Make_AsioWrtBuf_with_PayloadHdr: the header put before n bytes.
Framed(n) == n + IF n <= 125 THEN 2 ELSE 4

\* Set_AsioWrtBuf_with_PLHdr_to_RRQ
RequestAgain == 6

NoPermission ==
    LET id == IF IsV4(client.peer.ip) THEN "NO_PMSN_InitRI_v4" ELSE "NO_PMSN_InitRI_v6"
    IN Entry(id, now, << <<"ip", client.peer.ip>> >>,
             WriteID_wUT(id, client.peer.ip, now), TRUE)

LargeBufUsed ==
    Entry("REQ_LargeBuf", now, <<N(1)>>, WriteID_wUT("REQ_LargeBuf", LE(2, 1), now), TRUE)

\* The list of rooms is empty.
UP_InitRI(f, n) ==
    /\ UNCHANGED ids
    /\ \/ Close(<<NoPermission>>, now)
       \/ Close(<<>>, now)
       \/ Reply(f, n, RequestAgain, <<Event("REQ_LargeBuf_Exausted")>>, client.usr)
       \/ \E warning \in {0, 8} :
             Reply(f, n, Framed(2 + warning + 4), <<LargeBufUsed>>, client.usr)

NewID == IF client.peer.super THEN ids.super ELSE ids.usr

\* Crt_New_SuperUsrID and Crt_New_UsrID
IdsUsed ==
    IF client.peer.super THEN [ids EXCEPT !.super = @ + 1] ELSE [ids EXCEPT !.usr = @ + 1]

\* A new user, with the name in the frame.
UserCreated(f) ==
    LET usr == [uID |-> NewID, uview |-> uview, uname |-> f.name]
        id  == IF IsV4(client.peer.ip) THEN "Crt_Usr_v4" ELSE "Crt_Usr_v6"
    IN Entry(id, now, <<N(usr.uID), N(usr.uview), <<"name", usr.uname>>,
                        <<"ip", client.peer.ip>> >>,
             Wrt_Crt_Usr_wUT(usr, now, client.peer.ip), IsV4(client.peer.ip))

\* The length of a name is what the payload leaves behind twelve bytes.  It is
\* not asked whether there are twelve: a negative length wraps around, memcpy
\* overwrites all that follows the record, and the program is gone with what
\* it had done for this user.
NameFits(f) == bytes_payload(f) = 12 + 2 * Len(f.name)
Dies(f) ==
    /\ bytes_payload(f) < 12
    /\ client' = [client EXCEPT !.at = "dead"]
    /\ UNCHANGED <<ids, said>>

\* A user that has a record, comes back too early or does not say the length of
\* the payload, which is twice a number, is disconnected.
UP_CrtUsr(f, n) ==
    \/ Close(<<>>, now) /\ UNCHANGED ids
    \/ /\ client.usr = 0 /\ bytes_payload(f) % 2 = 0
       /\ Reply(f, n, RequestAgain, <<Event("KUInfo_Exausted")>>, 0)
       /\ UNCHANGED ids
    \/ /\ client.usr = 0 /\ NameFits(f)
       /\ Reply(f, n, Framed(6), <<UserCreated(f)>>, NewID)
       /\ ids' = IdsUsed
    \/ client.usr = 0 /\ bytes_payload(f) % 2 = 0 /\ Dies(f)

\* What the first two bytes of the payload may say.  They are the frame's if
\* they were read, else whatever lies in the buffer, such as the command of an
\* earlier frame.
Command(f, n) == IF Here # 0 /\ n >= HeaderSize(f) + 2 THEN {f.cmd} ELSE Commands

WS_Read_Hndlr(f, n) ==
    \/ "InitRI" \in Command(f, n) /\ UP_InitRI(f, n)
    \/ "CrtUsr" \in Command(f, n) /\ UP_CrtUsr(f, n)
    \/ "other" \in Command(f, n) /\ Close(<<>>, now) /\ UNCHANGED ids

ReadActed(f, n) ==
    /\ At("read") /\ Checked(f, n, 0).entry = <<>>
    /\ client.acted < MaxActed
    /\ ms_time_atRead_asWS' = now
    /\ WS_Read_Hndlr(f, n)
    /\ strayed' = IF Whole(n) /\ f.len >= 2 THEN strayed
                  ELSE strayed \cup {{client.sent[k].frame : k \in DOMAIN client.sent}}
    /\ UNCHANGED <<errbuf, frames>>

-----------------------------------------------------------------------------
(* On_Async_Write_Hndlr_asWS, when n bytes are written.                      *)

\* The bytes to write and the bytes written go to the same place.
MissWrite(n) ==
    LET b == Filled(<<W(client.sckt), W(n)>>)
    IN [buf |-> b, entry |->
          <<FromBuf("ERR_Miss_WriteBytes_onWS",
                    <<N(client.sckt), N(client.wrt), N(n)>>,
                    b, 24, ms_time_atRead_asWS, FALSE)>>]

WriteFails(pad) ==
    /\ At("write")
    /\ Close(<<Sckt("ERR_on_Async_Write_WebSckt", "ERR_on_Async_Read_WebSckt",
                    ms_time_atRead_asWS, pad)>>, ms_time_atRead_asWS)
    /\ UNCHANGED <<ids, errbuf, strayed, ms_time_atRead_asWS, frames>>

WriteShort(n) ==
    /\ At("write") /\ n < client.wrt
    /\ Close(MissWrite(n).entry, ms_time_atRead_asWS)
    /\ errbuf' = MissWrite(n).buf
    /\ UNCHANGED <<ids, strayed, ms_time_atRead_asWS, frames>>

WriteWhole ==
    /\ At("write")
    /\ client' = [client EXCEPT !.at = "read"]
    /\ UNCHANGED <<ids, errbuf, strayed, ms_time_atRead_asWS, frames, said>>

WSNext ==
    \/ \E peer \in Peers : Connect(peer)
    \/ \E h \in Hellos : HelloRead(h)
    \/ \E ok \in BOOLEAN : HelloAnswered(ok)
    \/ \E f \in Frames : Send(f)
    \/ \E pad \in Paddings : ReadFails(pad)
    \/ \E n \in Readable, f \in HeaderHere, pad \in Paddings : ReadRefused(f, n, pad)
    \/ \E n \in Readable, f \in HeaderHere : ReadActed(f, n)
    \/ \E pad \in Paddings : WriteFails(pad)
    \/ \E n \in Parts : WriteShort(n)
    \/ WriteWhole

=============================================================================
