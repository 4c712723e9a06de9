------------------------------- MODULE Session -------------------------------
(***************************************************************************)
(* From the wire to the text: a client is served (KClient_WS), what it and *)
(* the rest of the program log is written to a file byte for byte          *)
(* (LogRecord), and when the server has stopped the converter turns the    *)
(* file into text (KgLog_toTxt).                                           *)
(*                                                                         *)
(* Between the two stands what LogStream says of KgLog: the file holds the *)
(* records in their order, cut short by an error at any byte.              *)
(***************************************************************************)
EXTENDS KClient_WS, KgLog_toTxt

CONSTANTS
    Messages,    \* strings logged, as bytes
    MaxSaid,     \* bound: the records logged before the log ends
    Times,       \* numbers of connections logged
    Ends         \* how the log ends: how, the bytes cut off at its end, and
                 \* the room for the text on the disk

ASSUME EndAssumption ==
    \A end \in Ends : /\ end.how \in {"CLOSE_Normal", "CLOSE_Abort", "failed"}
                      /\ end.cut \in Nat /\ end.room \in Nat

ASSUME LoggedAssumption ==
    /\ \A m \in Messages : m \in Seq(0..255)
    /\ \A times \in Times : times \in Nat /\ times < 65536

\* A record of the log fits where the converter reads it to, and its text where
\* it is written, unless it is a string that was cut: 501, 1000, 10 and 3000 in
\* the code.
ASSUME SizeAssumption ==
    /\ mc_max_bytes_wrt >= 24
    /\ mc_max_bytes_wrt < mc_bytes_pad /\ mc_bytes_pad < EN_FLG_DataSz_PADover
    /\ 26 + 2 * EN_MAX_LEN_uname <= mc_bytes_pad
    /\ 3 * (EN_MAX_LEN_uname + 6) <= mc_bytes_pad
    /\ 3 * EN_MAX_LEN_uname + 4 <= bytes_buf_utf8

vars == <<wsVars, convVars>>

Serving == stop = "not started"

Init ==
    /\ WSInit
    /\ src = <<>> /\ pos = 0 /\ dst = Opened(0) /\ out = <<>>
    /\ stop = "not started"

-----------------------------------------------------------------------------
(* The rest of the program *)

Said(id, t, args, bytes) == Entry(id, t, args, bytes, TRUE)

\* Strings, the longest cut: main, Chk_IP, the lists of addresses.
StringEntries ==
    {Said("STR", 0, << <<"str", m>> >>, WriteID("STR", m)) : m \in Messages}
    \cup {Said(id, now, << <<"str", m>> >>, WriteID_wUT(id, m, now)) :
            id \in {"STR", "ERR_STR"}, m \in Messages}

V(ip, v4, v6) == IF IsV4(ip) THEN v4 ELSE v6

Addresses == {peer.ip : peer \in Peers}

\* The addresses of developers as they are read, and of clients: records of the
\* log that IS_CREATE_SPRS_LOG (KSPRS_rld.cpp:13) compiles in.
AddressEntries ==
    UNION {
        { Said(V(ip, "Push_devIP_v4", "Push_devIP_v6"), 0, << <<"ip", ip>> >>,
               Wrt_Push_devIP(ip)),
          LET id == V(ip, "ChkIP_devIP_v4", "ChkIP_devIP_v6")
          IN Said(id, now, << <<"ip", ip>> >>, Wrt_IP_with_UnixTime(id, ip, now)),
          LET id == V(ip, "ChkIP_v4", "ChkIP_v6")
          IN Said(id, now, << <<"ip", ip>> >>, Wrt_IP_with_UnixTime(id, ip, now)) }
        : ip \in Addresses}

TimesEntries ==
    {Said(V(ip, "Chk_IP_many_times_cnct_v4", "Chk_IP_many_times_cnct_v6"), now,
          <<N(times), <<"ip", ip>> >>, Wrt_IP_many_times_cnct_wUT(times, ip, now)) :
        times \in Times, ip \in Addresses}

ServerEntries ==
    {Event(id) : id \in {"ERR_KClient_Exausted", "ERR_on_Async_Accept",
                         "ERR_Get_remote_endpoint"}}

LogOther(e) ==
    /\ frames = 0 /\ frames' = MaxFrames
    /\ said' = Append(said, e)
    /\ UNCHANGED <<client, ids, errbuf, strayed, ms_time_atRead_asWS>>

-----------------------------------------------------------------------------
(* The end of the server *)

\* What KgLog adds at the end: its closing record, or nothing after an error.
Ending(how) ==
    IF how = "failed" THEN <<>>
    ELSE <<Said(how, now, <<>>, UnixTime(now) \o WriteID(how, <<>>))>>

BytesOf(entries) == FlattenSeq([i \in DOMAIN entries |-> entries[i].bytes])

\* The converter is started on what the log holds.  The server's state is
\* gone, but for what it said; a program that died has not closed its log.
StopServer(end) ==
    LET all   == said \o Ending(end.how)
        bytes == BytesOf(all)
    IN /\ Serving
       /\ At("dead") => end.how = "failed"
       /\ end.cut <= Len(bytes)
       /\ said' = all
       /\ src' = SubSeq(bytes, 1, Len(bytes) - end.cut)
       /\ dst' = Opened(end.room) /\ stop' = ""
       /\ client' = Idle(0) /\ strayed' = {}
       /\ errbuf' = [i \in 1..24 |-> 0] /\ ms_time_atRead_asWS' = 0
       /\ frames' = 0
       /\ UNCHANGED <<ids, pos, out>>

Serve ==
    /\ Serving /\ ~At("dead")
    /\ \/ WSNext
       \/ \E e \in StringEntries : LogOther(e)
       \/ \E e \in AddressEntries : LogOther(e)
       \/ \E e \in TimesEntries : LogOther(e)
       \/ \E e \in ServerEntries : LogOther(e)
    /\ Len(said') <= MaxSaid
    /\ UNCHANGED convVars

Convert == ConvNext /\ UNCHANGED wsVars

Next ==
    \/ Serve
    \/ \E end \in Ends : StopServer(end)
    \/ Convert

Spec == Init /\ [][Next]_vars

-----------------------------------------------------------------------------
(* Properties *)

Byte == 0..255

\* The program's buffers, its log file and the text hold what they may.
SessionTypeOK ==
    /\ client.at \in {"none", "hello", "accept", "read", "write", "dead"}
    /\ client.usr \in Nat /\ client.wrt \in Nat
    /\ errbuf \in [1..24 -> Byte]
    /\ \A b \in 1..Len(src) : src[b] \in Byte
    /\ pos \in 0..Len(src)
    /\ \A i \in DOMAIN said : said[i].id \in ToSet(LogIDs)
    /\ dst.err \in BOOLEAN /\ dst.room \in Nat

\* A frame whose length the server reads as it was sent and that carries a
\* command at all.
Plain(f) == f.len >= 2 /\ bytes_payload(f) = f.len

\* While a browser sends such frames only, the server acts on nothing but one
\* whole frame, however the reads cut or join them: a read that is not one
\* frame ends the connection (KClient.cpp:298-341).
ActsOnWhatWasSent == \A fs \in strayed : \E f \in fs : ~Plain(f)

\* The mask, eight bytes at a time, is never applied past the buffer that a
\* frame is read to, whatever the length says (KClient.cpp:344-372).
UnmaskInBuffer == client.unmasked <= BYTES_PRIVATE_BUF

SaidBy(i, id) == {j \in 1..i : said[j].id = id}
Created(i) == SaidBy(i, "Crt_Usr_v4") \cup SaidBy(i, "Crt_Usr_v6")
Left(i)    == SaidBy(i, "Close_Usr")
uID(i)     == said[i].args[1][2]
HadBy(S, u) == Cardinality({i \in S : uID(i) = u})

\* In the log a user leaves after it was created, and once, and at the latest
\* when its connection ends; and no two users have one id before the super
\* users have used up the ids below the ordinary ones (KClient.cpp:440-486,
\* KClient_Chat.cpp:309-400).
UsersNest ==
    /\ \A j \in Left(Len(said)) : HadBy(Left(j), uID(j)) <= HadBy(Created(j), uID(j))
    /\ Serving => Cardinality(Created(Len(said))) - Cardinality(Left(Len(said)))
                    = (IF client.usr = 0 THEN 0 ELSE 1)
    /\ ids.super <= FirstUsr =>
          \A i \in Created(Len(said)) : HadBy(Created(Len(said)), uID(i)) = 1

\* The records in the file: an entry's time has one of its own.
Stamp(t) == Said("UNIX_TIME", 0, << <<"time", t>> >>, UnixTime(t))
Records ==
    FlattenSeq([i \in DOMAIN said |->
        IF said[i].t = 0 THEN <<said[i]>> ELSE <<Stamp(said[i].t), said[i]>>])

\* A name that has a text, in the planes that the converter knows.
Convertible(name) ==
    /\ name # <<>> /\ WellFormed(name)
    /\ \A i \in DOMAIN name : ~IsHigh(name[i]) => CodePoint(name, i) < 1048576
Names(e) == {a[2] : a \in {b \in ToSet(e.args) : b[1] = "name"}}
Legible(e) == e.faithful /\ \A name \in Names(e) : Convertible(name)

\* What the text should say of a record.
Piece(a) ==
    CASE a[1] \in {"num", "time"} -> <<a[1], Significant(LE(8, a[2]))>>
      [] a[1] = "name" -> <<"name", Text(a[2])>>
      [] OTHER -> a
Meant(e) ==
    LET pieces == [i \in DOMAIN e.args |-> Piece(e.args[i])]
    IN IF e.id = "UNIX_TIME" THEN pieces
       ELSE <<Hdr(e.id)>> \o pieces \o (IF pieces = <<>> THEN <<>> ELSE <<LF>>)

\* In the end the text says of each record, in the order logged, what was meant:
\* who, when, from where, which numbers.  Not of the records whose bytes are
\* not what was meant (Entry's last field), nor of names without a text.
TextTells ==
    ~Serving /\ ~Running =>
    LET r == Records
    IN \A i \in DOMAIN out :
        /\ i \in DOMAIN r
        /\ LET e == r[i]
           IN Legible(e) =>
                IF i = Len(out) /\ stop \in {"write error", "function"}
                THEN IsPrefix(out[i], Meant(e)) ELSE out[i] = Meant(e)

\* The converter never loses its place in the file, whatever was logged: it
\* ends at the end, at a cut, at a string that was cut short when logged, at a
\* user whose name or address it cannot read, or when the disk is full
\* (main.cpp:225-330).
StopsForCause ==
    LET r == Records
        last == r[Len(out)]
        next == r[Len(out) + 1]
    IN /\ stop \notin {"unknown id", "wrong length"}
       /\ stop = "cut" => Len(src) < Len(BytesOf(said))
       /\ stop = "end" /\ Len(src) = Len(BytesOf(said)) => Len(out) = Len(r)
       /\ stop = "too long" =>
             \E a \in ToSet(next.args) : a[1] = "str" /\ Len(a[2]) > mc_max_bytes_wrt
       /\ stop = "function" => ~Legible(last)
       /\ stop = "write error" => dst.err

\* No text is lost, written twice or out of order: the file holds the
\* beginning of it, the buffer the rest unless the disk is full, and nothing
\* is left in the buffer when the program ends (_KFile_W.cpp:18-27, 218-248).
TextOnDisk ==
    /\ IsPrefix(dst.disk, FlattenSeq(out))
    /\ ~dst.err => dst.disk \o dst.buf = FlattenSeq(out)
    /\ ~dst.err /\ ~Serving /\ ~Running => dst.buf = <<>>

=============================================================================
