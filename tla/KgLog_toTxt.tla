----------------------------- MODULE KgLog_toTxt -----------------------------
(***************************************************************************)
(* KgLog_toTxt (KgLog_toTxt/main.cpp): a program that reads a binary log   *)
(* file record by record and writes what each one says to a text file.    *)
(*                                                                         *)
(* One step converts one record; any failure ends the loop.  A text is a   *)
(* sequence of pieces: the header of an id, a number, an address, a name,  *)
(* a string or the end of a line.  Labels between numbers are left out:    *)
(* the order of the numbers stands for them.                               *)
(***************************************************************************)
EXTENDS LogRecord, KUtf16_toUtf8, KFile_W

VARIABLES
    src,      \* the bytes of the binary file
    pos,      \* the bytes read so far
    dst,      \* g_DstFile_W
    out,      \* the texts of the records converted so far, for the properties
    stop      \* why the loop has ended, "" while it runs

convVars == <<src, pos, dst, out, stop>>

Unread == Len(src) - pos
logID == LogIDs[src[pos + 1] + 1]
clen == src[pos + 2] + 256 * src[pos + 3]
sa_read_buf == SubSeq(src, pos + 4, pos + 3 + clen)

-----------------------------------------------------------------------------
(* What is written for a record: a sequence of texts, one for each Write. *)

LF == <<"LF", "">>
Hdr(id) == <<"hdr", id>>

\* A little-endian integer, without its leading zeros.
Significant(bytes) ==
    LET used == {i \in DOMAIN bytes : bytes[i] # 0}
    IN SubSeq(bytes, 1, IF used = {} THEN 0 ELSE Max(used))

\* The w bytes at offset o, as a number.
Num(d, o, w) == <<"num", Significant(SubSeq(d, o + 1, o + w))>>
IP(d, o, w)  == <<"ip", SubSeq(d, o + 1, o + w)>>

Strings  == {"ERR_STR", "WARN_STR", "STR"}
Counted  == {"Chk_IP_many_times_cnct_v4", "Chk_IP_many_times_cnct_v6"}
Users    == {"Crt_Usr_v4", "Crt_Usr_v6"}
IPv4s == {"Push_devIP_v4", "ChkIP_devIP_v4", "ChkIP_v4", "NO_PMSN_InitRI_v4"}
IPv6s == {"Push_devIP_v6", "ChkIP_devIP_v6", "ChkIP_v6", "NO_PMSN_InitRI_v6"}

\* The numbers of a record of numbers: their widths.
Numbers(id) ==
    CASE id = "REQ_LargeBuf" -> <<2>>
      [] id = "Close_Usr" -> <<4>>
      [] id \in {"ERR_on_Async_Read_WebSckt", "ERR_not_FIN_Recieved",
                 "RCVD_CLOSE_opcode", "RCVD_PING_opcode",
                 "ERR_on_Async_Write_WebSckt"} -> <<8>>
      [] id = "RCVD_Unhandle_opcode" -> <<8, 1>>
      [] id = "ERR_tooBig_Payload" -> <<8, 8>>
      [] id \in {"ERR_invalid_len_WS_pckt", "ERR_Miss_WriteBytes_onWS"} -> <<8, 8, 8>>
      [] OTHER -> <<>>

\* m_fixed_len, -1 when the length varies.
FixedLen(id) ==
    CASE id \in Strings \cup Users -> -1
      [] id = "UNIX_TIME" -> 8
      [] id \in IPv4s -> 4
      [] id \in IPv6s -> 16
      [] id = "Chk_IP_many_times_cnct_v4" -> 6
      [] id = "Chk_IP_many_times_cnct_v6" -> 18
      [] OTHER -> FoldLeft(LAMBDA a, b : a + b, 0, Numbers(id))

\* G_EN_Crt_Usr_v4 and v6: the address takes w bytes.
UserUnits(d, w) ==
    [k \in 1 .. (Len(d) - w - 10) \div 2 |->
        d[w + 9 + 2 * k] + 256 * d[w + 10 + 2 * k]]

UserTexts(d, w) ==
    LET name == Cvt_toUtf8(UserUnits(d, w))
        head == << <<Num(d, w + 2, 4)>>, <<Num(d, w + 6, 4)>> >>
    IN IF name.ok
       THEN head \o << << <<"name", name.out>> >>, <<IP(d, 0, w)>>, <<LF>> >>
       ELSE head

\* The functions of sca_jump_list.
Texts(id, d) ==
    CASE id = "UNIX_TIME" -> << << <<"time", Significant(d)>> >> >>
      [] id \in Strings -> << << <<"str", d>>, LF>> >>
      [] id \in IPv4s \cup IPv6s -> << <<IP(d, 0, Len(d))>>, <<LF>> >>
      [] id \in Counted -> << <<Num(d, 0, 2)>>, <<IP(d, 2, Len(d) - 2)>>, <<LF>> >>
      [] id = "Crt_Usr_v4" -> UserTexts(d, 4)
      [] id = "Crt_Usr_v6" -> UserTexts(d, 16)
      [] Numbers(id) # <<>> ->
            LET w == Numbers(id)
                at(k) == FoldLeft(LAMBDA a, b : a + b, 0, SubSeq(w, 1, k - 1))
            IN << [k \in DOMAIN w |-> Num(d, at(k), w[k])], <<LF>> >>
      [] OTHER -> <<>>

HeaderTexts(id) == IF id = "UNIX_TIME" THEN <<>> ELSE << <<Hdr(id)>> >>

\* The functions that return a message, after which the loop ends.
FunctionFails(id, d) ==
    \/ id = "ERR_BUF_Overflow"
    \/ id = "Crt_Usr_v4" /\ ~Cvt_toUtf8(UserUnits(d, 4)).ok
    \/ id = "Crt_Usr_v6" /\ ~Cvt_toUtf8(UserUnits(d, 16)).ok

-----------------------------------------------------------------------------
(* The loop of main *)

Running == stop = ""

\* What ends the loop before anything is written for the record.
Unreadable ==
    IF Unread = 0 THEN "end"
    ELSE IF src[pos + 1] >= EN_END_LOG_ID THEN "unknown id"
    ELSE IF Unread < 3 THEN "cut"
    ELSE IF clen > mc_bytes_pad THEN "too long"
    ELSE IF Unread < 3 + clen THEN "cut"
    ELSE ""

\* At the end of main the text file is closed, and that is all.
EndOfLoop ==
    /\ Running /\ Unreadable # ""
    /\ stop' = Unreadable
    /\ dst' = Closed(dst)
    /\ UNCHANGED <<src, pos, out>>

\* Why the loop ends at a record that can be read, "" if it goes on.  Errors
\* of the text file are noticed at the next header that is not empty.
Failure(f) ==
    IF HeaderTexts(logID) # <<>> /\ f.err THEN "write error"
    ELSE IF FixedLen(logID) \notin {-1, clen} THEN "wrong length"
    ELSE IF FunctionFails(logID, sa_read_buf) THEN "function"
    ELSE ""

\* The header and, if the length is right, the function of the id.
ConvertRecord ==
    LET f     == WriteEach(dst, HeaderTexts(logID))
        why   == Failure(f)
        texts == IF why \in {"write error", "wrong length"} THEN <<>>
                 ELSE Texts(logID, sa_read_buf)
        g     == WriteEach(f, texts)
    IN /\ Running /\ Unreadable = ""
       /\ dst' = IF why = "" THEN g ELSE Closed(g)
       /\ out' = Append(out, FlattenSeq(HeaderTexts(logID) \o texts))
       /\ pos' = pos + 3 + clen
       /\ stop' = why
       /\ UNCHANGED src

ConvNext == EndOfLoop \/ ConvertRecord

=============================================================================
