------------------------------ MODULE LogRecord ------------------------------
(***************************************************************************)
(* The records of a binary log file, byte for byte, as the writing methods *)
(* of KgLog lay them out (KgLog.cpp:392-729): an id, a length of two bytes *)
(* and as many bytes of data, all integers little-endian.  A record may be *)
(* preceded by one of its own that holds the time.                         *)
(*                                                                         *)
(* A byte is a number from 0 to 255.  Bound: the integers written by name  *)
(* are below 2^24, so that TLC can compute with them.                      *)
(***************************************************************************)
EXTENDS Integers, Sequences, SequencesExt

CONSTANT mc_max_bytes_wrt     \* the bytes of data that are kept of a record

ASSUME RecordAssumption == mc_max_bytes_wrt \in 1 .. 32767

\* N_LogID: the place of an id, counted from 0, is its value.
LogIDs == <<
    "ERR_BUF_Overflow", "UNIX_TIME", "CLOSE_Normal", "CLOSE_Abort",
    "ERR_STR", "WARN_STR", "STR", "Push_devIP_v4", "Push_devIP_v6",
    "ChkIP_devIP_v4", "ChkIP_devIP_v6", "ChkIP_v4", "ChkIP_v6",
    "Chk_IP_many_times_cnct_v4", "Chk_IP_many_times_cnct_v6",
    "ERR_KClient_Exausted", "ERR_on_Async_Accept", "ERR_Get_remote_endpoint",
    "ERR_on_Async_Read_Crt_WScktCnctn", "ERR_no_WebSocket_Key",
    "ERR_on_Async_Write_Crt_WScktCnctn", "ERR_on_Async_Read_WebSckt",
    "ERR_not_FIN_Recieved", "RCVD_CLOSE_opcode", "RCVD_PING_opcode",
    "RCVD_Unhandle_opcode", "ERR_tooBig_Payload", "ERR_invalid_len_WS_pckt",
    "ERR_on_Async_Write_WebSckt", "ERR_Miss_WriteBytes_onWS", "REQ_LargeBuf",
    "REQ_LargeBuf_Exausted", "NO_PMSN_InitRI_v4", "NO_PMSN_InitRI_v6",
    "KUInfo_Exausted", "Crt_Usr_v4", "Crt_Usr_v6", "Close_Usr" >>

EN_END_LOG_ID == Len(LogIDs)
EN_FLG_DataSz_PADover == 32768

ValueOf(id) == CHOOSE v \in 0 .. EN_END_LOG_ID - 1 : LogIDs[v + 1] = id

\* Mutant: the integer is not divided into bytes.
WholeFirst(w, n) == [i \in 1..w |-> IF i <= 3 THEN n \div 256^(i - 1) ELSE 0]

\* The integer n in w bytes.
LE(w, n) == [i \in 1..w |-> IF i <= 3 THEN (n \div 256^(i - 1)) % 256 ELSE 0]

\* The id and the length.
Header(id, len) == <<ValueOf(id)>> \o LE(2, len)

UnixTime(t) == Header("UNIX_TIME", 8) \o LE(8, t)

\* Mutant: the length is the one asked for.
WriteIDFullLength(id, data) ==
    IF Len(data) <= mc_max_bytes_wrt
    THEN Header(id, Len(data)) \o data
    ELSE Header(id, Len(data)) \o SubSeq(data, 1, mc_max_bytes_wrt)

\* Data that are too long are cut, and the length says so.
WriteID(id, data) ==
    IF Len(data) <= mc_max_bytes_wrt
    THEN Header(id, Len(data)) \o data
    ELSE Header(id, mc_max_bytes_wrt + EN_FLG_DataSz_PADover)
            \o SubSeq(data, 1, mc_max_bytes_wrt)

WriteID_wUT(id, data, t) == UnixTime(t) \o WriteID(id, data)

\* The two kinds of address differ by their length.
IsV4(ip) == Len(ip) = 4

Wrt_Push_devIP(ip) ==
    Header(IF IsV4(ip) THEN "Push_devIP_v4" ELSE "Push_devIP_v6", Len(ip)) \o ip

Wrt_IP_with_UnixTime(id, ip, t) == UnixTime(t) \o Header(id, Len(ip)) \o ip

Wrt_IP_many_times_cnct_wUT(times, ip, t) ==
    UnixTime(t)
        \o Header(IF IsV4(ip) THEN "Chk_IP_many_times_cnct_v4"
                  ELSE "Chk_IP_many_times_cnct_v6", 2 + Len(ip))
        \o LE(2, times) \o ip

\* A user record as it lies in memory: m_bytes_KUInfo, m_uID, m_uview and the
\* part of ma_uname in use.
KUInfo(usr) ==
    LE(2, 10 + 2 * Len(usr.uname)) \o LE(4, usr.uID) \o LE(4, usr.uview)
        \o FlattenSeq([i \in DOMAIN usr.uname |-> LE(2, usr.uname[i])])

\* Both variants write the id of the one for IPv4.
Wrt_Crt_Usr_wUT(usr, t, ip) ==
    UnixTime(t) \o Header("Crt_Usr_v4", Len(ip) + Len(KUInfo(usr)))
        \o ip \o KUInfo(usr)

Wrt_uID_wUT(id, uID, t) == UnixTime(t) \o Header(id, 4) \o LE(4, uID)

=============================================================================
