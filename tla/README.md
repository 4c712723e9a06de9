# Verification of chat3_svr_cpp

TLA+ models of the chat server, checked with TLC on small instances, and
theorems about all of them, for every size of the instances, proved with TLAPS. Paths are those of the
repository; `X.cpp:n` is line n of that file.

## The system

A server, and a program that makes text of the server's logs. The server is one
process with one event-loop thread (`io_context` with concurrency hint 1,
`main.cpp:68`) and one log thread; a second log, of the addresses seen, is
compiled out (`IS_CREATE_SPRS_LOG`, `KSPRS_rld.cpp:13`). The event loop runs the
handlers of the acceptor and of the sockets, one after another, each to
completion.

| Component | State | Operations | Hard behaviour |
|---|---|---|---|
| `KSmplList2` (`KSmplList.hpp`) | doubly linked array, first free element, count | `Get_NewElmt`, `MoveToEnd`, first and last element, count | three cases of relinking; an element may be given back that is not in use |
| `KSPRS_rld`, `KMng_DevIP` (`KSPRS_rld.*`) | ring of records, one per remote address seen in the last 15 minutes; registered addresses | `Chk_IP` (trim, search, count), `Push` | ring wrap-around, expiry, links both ways with clients, 16-bit counter |
| `KServer` (`KServer.*`) | pool of 3000 `KClient`, the one waiting for a connection | `Run`, `On_Accpt_Svr`, `Recycle_Clnt` | handlers that outlive the connection they were started for, pool running out, a connection that replaces another |
| `KClient` (`KClient.*`) | socket, private buffer, links to the record and to the user record | handshake and WebSocket handlers, `Clean` | one operation at a time per connection, every error path recycles |
| `KClient_Chat`, `KLargeBuf`, `KUInfo` (`KClient_Chat.*`) | large buffers, user records, earliest time of the next request | `UP_InitRI`, `UP_Crt_Usr`, `Reset_prvt_buf_write`, `Clean_KClntChat` | ownership across recycling and reconnection, exhaustion, delays |
| `KUInfo` (`KClient.h`) | user id, look, name; two counters | `Crt_New_UsrID`, `Crt_New_SuperUsrID` | ids of two ranges, records that follow a visitor |
| `KgLog` (`KgLog/src`) | ring buffer of bytes, flags, file | `Write*`, `Wrt_*`, `Adv_pos_next`, `Flush`, `Signal_ThrdStop`, destructor; the log thread | two threads, flags shared without a lock, wrap and overflow, disk errors, end of the program |
| `KgLog_toTxt` (`KgLog_toTxt/main.cpp`) | position in a binary log, the text file | one function for each `N_LogID` | logs cut short by an error, strings cut when logged, names that are no UTF-16 |
| `KFile_W`, `KUtf16_toUtf8` (`__common`) | text buffer, error flag | `Write*`, `Flush`, destructor; `Cvt_toUtf8` | buffer limits, disk errors, surrogate pairs |

How they interact. `On_Accpt_Svr` calls `Chk_IP`, reads and sets the record's
client, recycles clients, and starts the handshake of the accepted one. Every
handler of a client ends by starting the next operation on its socket or by
`Recycle_Clnt`, which closes the socket, calls `KClient::Clean` (user record,
large buffer, link with the record) and puts the client back in the pool. All of
them write to the log. The converter knows the server only by its log files:
the ids and the layout of the records are all that they share.

What must be right. Pool: no element in two hands, none lost. Watch: links
mutual, an address counted in one place, the limit enforced, `Chk_IP` returns.
Server: the acceptor is armed whenever there is a free client, every open
connection has exactly one operation, late handlers do no harm, user records and
buffers have one owner. Log: the files hold the records in order, the thread
ends when asked, nothing is written outside the buffer. Connection: the server
acts on frames as they were sent, however the reads cut them; a user has one id
and leaves once. Converter: the text says what the server meant, up to the first
record that cannot be read, and is on the disk in the end.

Components that are not modelled are listed, with the reason, in `PROJECT.json`:
superseded code, string constants, debug output, test programs, and rooms, which
no code creates in this commit.

## Modules

| Module | Models |
|---|---|
| `Pool` | what a `KSmplList2` promises (abstract) |
| `KSmplList` | `KSmplList2` as a value: the order of the elements, the first free one, the count |
| `KSmplListPtr` | the list's pointers and a caller; implements the operators of `KSmplList`, and `Pool` until it is misused |
| `KSmplListPtr_proofs` | the theorems about it |
| `KSPRS_rld` | the reload watch with its clients as tokens: accept, disconnect, grant, a second passing |
| `KSPRS_rld_proofs` | the theorems about it |
| `KServer` | server, clients and chat commands, on top of `KSPRS_rld` and two `KSmplList`s |
| `KServer_proofs` | the theorems about it that hold however few clients there are |
| `KServer_ample_proofs` | the theorems that need clients to spare, owners of user records and large buffers among them |
| `LogStream` | what `KgLog` promises (abstract) |
| `KgLog` | both threads of the log, byte by byte of the buffer |
| `KgLog_proofs` | the theorems about it |
| `SequenceLemmas` | what `FlattenSeq`, `FoldLeft` and `RemoveAt` return, for the proofs of the log, the texts and the lists |
| `LogRecord` | the ids and the bytes of every binary record, as `KgLog` writes them |
| `KClient_WS` | one client, frame by frame: handshake, reads, commands, replies, user ids, what it logs |
| `KUtf16_toUtf8`, `KFile_W` | the conversion of names; the buffered text file, as values |
| `KgLog_toTxt` | the converter, record by record |
| `Session` | `KClient_WS`, the other records of the server, the end of the log and `KgLog_toTxt`, composed |
| `SessionRecords_proofs` | what a record is on the disk and what the converter makes of it, for every record |
| `Session_proofs` | the theorems about the connection, its log and the text made of it |
| `MC*` | the constants, symmetry and views of the small instances |

Operators named `...Half`, `...Never`, `...Still` and the like, under a comment
"Mutant", are wrong variants of the operator that follows. Nothing uses them:
substituted one at a time they show that each property can fail.

### KSmplList

A list is `[order, new, len]`; element i of `order` is followed by element i+1,
the elements from `new` on are free. `MoveToEnd` keeps `order` and appends,
whatever the caller gives back. `KSmplListPtr` has `m_pPrev`, `m_pNext`,
`m_pBegin`, `m_pEnd` with the three cases of the method as three actions' parts,
and a caller that may give back any element. `ImplementsList` maps the chain
that the pointers make to a value of `KSmplList` and says that each step is one
of its operators, misuse included; `IsPool` says that the list implements `Pool`
as long as the caller gives back what it holds.

### KSPRS_rld

`recd` is `msa_recd_SPRS_v4`, `dtytop` and `next` are the two pointers as slot
numbers, `link` is `m_precd_SPRS` of each client. A step is one call of
`On_Accpt_Svr` up to the choice of the client (`ChkHangs`, `ChkRefuses`,
`ChkNew`, `ChkOverLimit`, `ChkAgain`), a `Clean` (`Disconnect`), a granted
`UP_InitRI` (`GrantInitRI`), or a second (`Tick`). `S_Trim` is an operator that
says what one call does: the new `dtytop`, the slots whose clients it unlinks,
the value returned, and whether it loops for ever, in which case `hung` stops
everything but the clock. Only the IPv4 ring is modelled (`main.cpp:71`); the
IPv6 functions are copies over other variables.

### KServer

`rq` is asio's queue of ready handlers and `pend` the operation in progress on
each socket. An operation that can be performed at once queues its handler with
the outcome known (`done`); otherwise it is pending until the socket becomes
ready (`ready`, the handler then may succeed or fail) or the socket is closed
(`failed`). A handler is bound to the client object: `Close` marks the handlers
of the closed connection `stale`, a mark of the model only, and `Recycle` puts
the object back in the pool at once, as the code does. The handlers that find an
error, a short transfer or an input they reject are one action, `ClientFails`:
all of them call `Recycle_Clnt` and nothing else. Well-formed input is split by
command. The clock of `ms_time_atRead_asWS` is `clock`, read when the handler
runs.

Left out: socket options, `m_stt_cur` (never read); `m_sckt_ID`, the contents of
requests and replies and user ids are in `KClient_WS`.

### KgLog

A record of n bytes is copied to `pos_next` (`Copy`), accounted for under the
lock (`Adv_TA_pos_next_onLocked`) and posted (`Post`). The log thread waits
(`Wake`), reads `dirty` and `pos_next` under the lock (`Look`), tests the flags
(`Nothing`, `Decide`, `ResetFlush`), writes (`WriteToDisk`, `WriteFails`), and takes the lock
again (`Written`). The accesses that the code makes without the lock are steps
of their own, so that they interleave. `ppc` and `lpc` are where the two threads
are. `written`, `asked` and `flushes` are for the properties and the bounds.
`WriteToDisk` reads the bytes at one instant; while they are dirty and the buffer
does not overrun, the other thread cannot change them. A failing
`fwrite` may write any part of them. `Get_pos_next` with `Adv_pos_next`, which
only a debug listing calls (`KSPRS_rld.cpp:577`), is left out.

`Copy` looks at the error only, as the code does. `Overruns = FALSE` adds to it what
the comments of the code take for granted, that the log thread keeps up
(`KeepsUp`): the buffer wraps when its first byte is on the disk, and a record
that follows a wrap does not reach the dirty bytes. `KeepsUp` translates nothing,
it is an assumption about the speed of the log thread; `KeepsStream`,
`WriteUndisturbed` and `BacklogWritten` are checked under it, for a record is
copied before the room left is looked at. `Overruns = TRUE` drops it.

The buffer may then overflow in two ways. Behind a wrap, `Overflow` finds after
the copy that less room is left than the longest record takes, and sets the
error. A wrap while `dirty.ptr` is still the top of the buffer is not found:
`dirty.ptr <= pos_next` is taken for a buffer that has not wrapped, the oldest
bytes are overwritten without an error, `dirty.bytes` grows beyond the buffer, the
log thread reads past its end, and once it has moved `dirty.ptr` there the records
are copied past the end too. The model goes through all of it: `lapped` marks such
a wrap, for the properties, and after a copy that leaves the buffer the writing
thread is `outside`, where nothing more is said of it. `InBuffer` says that before
such a wrap no copy leaves the buffer, whichever overflow is noticed. With the
values of `N_gLog` the wrap takes a log thread that has not run since 10,000 bytes
were waiting for it when the other 40,000 are written.

### LogRecord, KClient_WS, KgLog_toTxt, Session

These follow bytes where `KServer` and `KgLog` follow control. `LogRecord` has an
operator for each writing method of `KgLog` that returns the bytes of its record.

In `KClient_WS` a browser sends frames (`Send`) ahead of the answers, and a read
delivers any part of what is on the wire, up to the 1500 bytes of the buffer
(`Readable`): the rest of a frame, several at once, or a few bytes. A frame is
the fields of its header that the code looks at, a command and a name. When a
read starts inside a frame its first bytes may look like any header
(`HeaderHere`). `Checked` is `On_Async_Read_Hndlr_asWS` up to the mask,
`WS_Read_Hndlr` what follows, `WriteFails`, `WriteShort` and `WriteWhole` the
write handler. `errbuf` is `sa_buf_for_ErrLog`, which keeps what earlier errors
left in it. What `KServer` decides from its state (whether a visitor may ask for
the rooms, comes too early, finds a free buffer or record) is a choice here. One
client object serves one connection after another; the takeover of a user record
by a new connection is in `KServer` only.

An entry of `said` is one call of a log method: what it means (`args`), its bytes,
and whether the code passes on what it means (`faithful`): a record with other
bytes than its meaning is written where the code has one variable for two
(`MissWrite`), another id (`WriteFails`, `Wrt_Crt_Usr_wUT` of an IPv6 address) or
more bytes than the variable (`Sckt`).

`StopServer` makes a file of `said`: with the closing record of the log thread,
or, after an error, with any of the last bytes missing, which is what `LogStream`
leaves of a log. Then `KgLog_toTxt` runs. A text is a sequence of pieces (the
header of an id, a number without its leading zeros, an address, a name, a
string, the end of a line); the labels between numbers are left out, and the
place of a number stands for them. `KFile_W` counts a piece as one byte, strings
and names as their length.

`TextTells` compares the text with what the server meant, computed from `said`
and the definition of UTF-8, not from the bytes. `StopsForCause` names all the
reasons for which the converter stops early. `ActsOnWhatWasSent` says that a
server whose browsers send frames with a command and a length it understands
(`Plain`) never takes part of a frame, or two of them, for one. `UsersNest`
relates the log to the connection.

A frame of a new user has a name that fits the field for it. An old command that
lies in the buffer behind an empty frame is a choice among all commands. If it
makes a new user, the number behind it, an old one too under a new mask, may be the
length of the frame (`KClient_Chat.cpp:332`), and a payload shorter than twelve
bytes then makes the length of the name wrap around (`:379`): the program is
`dead` (`Dies`). Its log has no closing record, and is converted like one that
failed.

The records of the watch (`AddressEntries`, `TimesEntries`) go to the log that is
compiled out; they are checked because the converter is made for them.

## Runs

The bounds are in the cfg files. `CHECK_DEADLOCK FALSE` is used where the bounds
on connections and on the clock stop the environment, or the endless loop of
`S_Trim` stops the server.

| Run | Shows | Bounds, and why they are enough |
|---|---|---|
| `list` | the pointers implement the list operators; a careful caller sees a pool | 4 elements: first, last and two in between, so that every case of relinking meets every position of `new`; any of them given back at any time; the counter wraps at 16 |
| `watch` | eight properties of the watch | 4 slots (the last is never filled, so three records), 2 visitors and a registered address, 3 clients, 4 seconds with a watch of 2, up to two connections beyond the limit of 3 |
| `server_ample` | late handlers, one operation per connection, ownership of user records, with clients to spare | 2 connections open at once, 6 clients, 2 user records, 2 visitors who reconnect and exceed a limit of 2 |
| `server_scarce` | the acceptor when the pool runs out, ownership of large buffers; the server as a user of the watch, reconnection, expiry, refusal and the endless loop included | 3 clients and as many connections, 1 buffer, 2 user records, room for two records, a visitor who reconnects and a registered address; operations never complete at once (`AtOnce = {FALSE}`), `server_ample` has both |
| `log` | the files are a prefix of the records; what is being written is not overwritten; a backlog is written | a buffer of 7 bytes, records of 1 or 2: four records wrap it; one flush, one change of file, a disk that may fail |
| `session` | frames are acted on as sent, the mask stays in the buffer, users nest in the log, the text says what was meant, stops only for a cause and is on the disk | 16 frames: lengths of 7, 16 and 64 bits, with the 16-bit ones below, at and above what the buffer takes when their bytes are swapped, all opcodes, names of one to four bytes a character, unpaired surrogates and plane 16; two frames and two connections (the second after one with a user), two reads acted on in each, four records before the log ends; sizes of 5 and 9 bytes for reads inside a frame (below and above the shortest header) and for short writes; a record of every other kind alone; strings of 3 and 30 bytes where records are cut at 26; ends of the log with 0, 1 and 5 bytes missing, and a disk that is full after 30. The ids of super users reach the first ordinary one, 2 here and 1000 in the code |
| `log_overrun` | before the buffer wraps onto its own dirty bytes no copy leaves it, overflows that are noticed included; the thread ends whatever happened | a buffer of 10 bytes and four records of 2, 3 or 5 that come faster than the disk, which may fail. They reach every kind of overflow: one with a mark, a wrap onto dirty bytes (the first record may do it), `dirty.ptr` past the end, and a copy outside (the fourth) |

The constants of the log keep the order the constructor asserts
(`KgLog.cpp:37`, `:38`) on a smaller scale.

`PoolPartition`, `LateHandlersHarmless` and `UserRecordsOwned` hold because free
clients lie between a client that was recycled and the next one to be handed out.
With fewer to spare they fail: a late handler acts on a connection that is not its
own, or registers a client that is then opened and given another record. Two
connections open need six clients in the pool: TLC finds four and five not
enough. `KServer_ample_proofs` proves that four more than there are connections
are enough for any number of them; the server has 3000 (`KServer.h:10`), so that
2996 may be open. `server_pool_runs_out` shows how it begins with fewer.

As shipped the server hardly gets there. The watch has 100 records
(`KSPRS_rld.h:23`), of which one stays empty, and lets three connections of each
in (`KSPRS_rld.h:20`, up to the 65536th), so that a few hundred can be open before
it refuses, or before the endless loop stops it. `server_scarce` and
`server_pool_runs_out`, and `AcceptIsOne` and `AcceptRestarts` where the pool is
empty, are about a server with more records than clients: they matter when either
number is changed.

`DrivesWatch` shows that the watch alone, checked and proved about in
`KSPRS_rld`, describes what the server does to it.

### What the code does against its own comments

Each of these runs checks one statement of the repository, which TLC refutes:

| Run | Statement | What happens |
|---|---|---|
| `watch_never_returns` | `KSPRS_rld.cpp:42` | the second loop of `S_Trim` does not advance: 15 minutes after the first visitor, the next connection stops the event loop |
| `server_pool_runs_out` | `KSmplList.hpp:97` | a second `Recycle_Clnt` by a late handler puts clients in use behind `m_pNewElmt_inList` |
| `server_user_lost` | `KServer.cpp:147` | the trim of the reconnection unlinks the former client before its user record is looked for |
| `server_old_delay` | `KClient_Chat.h:146` | the delay of a former connection survives recycling |
| `log_flush_lost` | `KgLog.h:63` | a record is accounted for after the log thread has read what is dirty, and `Flush` is called for it: the write of the older bytes takes the flag (`KgLog.cpp:208`), and the record stays in the buffer. Two records and one call show it |

The models contain more that have no run of their own. Where a property of a
passing run would say otherwise, it names the exception:

- `KSPRS_rld.h:132` says `S_Trim` trims the records that have expired; the second
  loop unlinks the client of the oldest one before it tests its age
  (`KSPRS_rld.cpp:331`). `server_user_lost` is a consequence.
- `KSPRS_rld.h:20` allows three connections; the counter has 16 bits and refused
  connections increment it, so the 65536th is let in (`KSPRS_rld.cpp:106`).
- `LogID.h:21` says an abort is recorded when `Signal_ThrdStop` was not called;
  the log thread may end between its two assignments (`KgLog.cpp:819`).
- `KgLog.cpp:760` says that the branch it is in is the overflow of the buffer,
  `LogID.h:15` that all of it is dirty then; a buffer that wraps onto its oldest
  dirty byte goes on as if it were empty (`KgLog.cpp:739`), until records are
  copied outside of it. `log_overrun` goes through it, and `InBuffer` excepts what
  follows (`lapped`).
- `KgLog.cpp:761` says three bytes mark an overflow in the log; the log thread
  ends on the error before it writes them, so the converter never meets one.
- `KClient_Chat.h:176` sends a 16-bit length in network order, `KClient.cpp:304`
  reads one in host order (`Plain`).
- `LogID.h:69` and `:70` give users with IPv4 and IPv6 addresses ids of their
  own; both are written with the first (`KgLog.cpp:699`).
- `KClient.cpp:193` says a short write is logged with the bytes to write and the
  bytes written; the second overwrites the first (`KClient.cpp:424`).
- `LogID.h:56` has an id for failed writes; they are logged as failed reads
  (`KClient.cpp:409`).
- `LogID.h:47` says eight bytes of `m_sckt_ID` are logged; it is an `int`
  (`KClient.h:119`).
- `_KUtf16_toUtf8.hpp:21` says the conversion fails when half of a surrogate pair
  is missing; a high one before any other unit is taken for a character
  (`:49`). Characters from U+100000 are refused (`:77`), and an empty name is not
  noticed (`:29`).
- `KgLog.h:43` says what follows a record that cannot be decoded can still be
  read; the converter ends there (`KgLog_toTxt/main.cpp:281`, `:560`).

### Fairness

Only `KgLog` states fairness: weak fairness of the log thread and of the writing
thread inside a call. Both are threads that the system schedules, a lock section
never waits for anything but another lock section, and `sem_wait` returns when
the count is positive. Nothing obliges the program to write, flush or stop. The
disk may refuse, never hang.

## Proofs

`KSPRS_rld_proofs` proves, for every ring size of at least two, every set of
addresses, registered addresses and clients, every watch time and every positive
limit, the eight properties of the run `watch`. The assumption is
`WatchAssumption`.

The inductive invariant `IInv` is the type invariant with

- `RingNeverWraps`: `dtytop` is 0 and the slots in use are those in front of
  `next`. The second loop of `S_Trim` either stops at the record it starts from
  or never returns, so `dtytop` cannot move; `Chk_IP` refuses when fewer than
  two slots are free, so `next` stops at the last slot. Without it nothing says
  which slots a search visits.
- `OneRecordPerIP`, with `DevOfIP` (a record knows whether its address is
  registered): the record the search finds is the only one of its address.
- `WatchedInRing`: a new record overwrites no linked one.
- `LinksMutual`.

One lemma per action keeps `IInv` (`TrimKeeps`, `NewKeeps`, `OverLimitKeeps`,
`AgainKeeps`, `DisconnectKeeps`, `GrantKeeps`); `TrimShape` and `TrimLinks` say
what `S_Trim` does under it, `FoundRecord` what the search finds. `OverLimitUnlinked`
and `WarningHasPhrase` are then invariants by their own induction on top of
`IInv`, and `EntitledOnce` is a property of each step.

The proof follows the code as it is: it would have to be redone, with the
wrapped ring, once the second loop of `S_Trim` advances.

`KSmplListPtr_proofs` proves, for every number of elements of at least two and a
count wide enough for them (`ListAssumption`), that the pointers implement `Pool`
until an element is returned that is not held (`ListIsPool`), and that `m_len` counts
until then (`LenIsHeld`). The
invariant says that there is some order of the elements which `m_pNext`,
`m_pPrev`, `m_pBegin` and `m_pEnd` agree on (`Linked`) and a place in it from
which the elements are free (`Split`). `MoveToEndLinks` shows that each of the
three branches of `MoveToEnd` relinks that order with one element at its end,
misused or not.

What the pointers stand for in the model, `Chain`, follows `m_pNext` from
`m_pBegin` and is a recursive function. `ChainIs` shows that it is that order: were
there a place where they differ there would be a first one (`Least`, in
`SequenceLemmas`), and the one
before it leads to the same element. With it the list has no loop and loses no
element (`ChainWellLinked`), the free elements are those that are not held
(`FreeOnesAreBehind`), a walk over the elements in use meets just these
(`WalkIsHeld`), and each step of the pointers, misuse included, is one of the
list that `KServer` works on (`PointersImplementList`).

`KServer_proofs` proves, for every number of clients, user records and buffers
(at least two of the first two) and every bound, the properties of the server that
do not need clients to spare: its types (`ServerTyping`), exactly one
`async_accept` while a client is set aside for it (`AcceptIsOne`), none only while
the pool hands out no client (`AcceptRestarts`), and that the server drives the
watch as `WatchSpec` says (`WatchIsDriven`). The last makes every theorem of
`KSPRS_rld_proofs` one about the server; `ServerLinksMutual` is the one written
out. The assumptions are `ServerAssumption` and `WatchAssumption`.

The inductive invariant `SInv` is

- `IInv` of the watch: a client that is not open has no link, so that recycling
  it a second time is no step of the watch;
- `PoolOK`: the pool is a list in which every client occurs (`Lists`; not that the
  clients in use are in front, which late handlers can break), queued handlers
  belong to the accept or to a client (`Handlers`), and the acceptor is `Sound`: with
  no client set aside nothing accepts and the pool hands out none, with one there
  is one accept, in progress or queued;
- `ChatOK`: the types of users, buffers and delays.

Each operator that makes up a handler has a lemma (`Queue`, `Start`, `StartAccept`,
`Detached`, `Close`, `Recycle`, `AcceptNext`), on top of what taking from, adding to
and marking a queue does to its one accept; `NextWatch`, `NextPool` and `NextChat` go
through the actions.

Under the same assumptions a client that
replaces another of its address gets its user record (`ReplacementsInherit`), and
a user record belongs to an open connection or to a client with a queued
handler, which will release it (`UsersReleased`). The second is inductive given
`SInv`: a handler that runs recycles its client or starts another operation, and
closing a socket with an operation in progress queues its handler (`Retains`,
`CloseRetains`).

`KServer_ample_proofs` proves what needs clients to spare: the pool's clients in
use are those that are open and the one set aside (`ClientsPartitioned`), an open
connection has one operation (`OperationIsOne`), and a handler left over finds its
client free (`LateHandlersFindFree`). All three assume `EnoughClients`, four
clients more than connections open at once; without it the first and the last are
false, as the runs say. The inductive invariant `Orderly` adds to `SInv`

- `Shares`: each client is in the list once, and those in front of
  `m_pNewElmt_inList` are the open ones, the one set aside and, inside a handler,
  its own;
- `Serves`: each client has at most one handler in the queue. An open one has it,
  or an operation in progress whose socket may have queued it as ready; one of a
  client that is not open is left over, with its outcome known;
- `LateFew`: at most two handlers are left over. A handler left over will live
  through a number of accepts (`Rounds`), one if that of the accept is in front of
  it, and one more if it has been performed but not run, as it then goes to the
  end of the queue; each accept takes one client from the front of the free ones,
  and two such handlers have their clients as far behind as their rounds need.

`LateFew` is where four comes from: an accept may take one client, recycle one
behind all the free ones, and take the next. `RecycleOpen`, `RecycleLimbo` (the
client whose handler runs) and `RecycleStale` (a second time) say what recycling
does to the order, `AcceptNextOrderly` what taking a client does; `NextOrderly`
goes through the actions.

The last part of the module builds on it. `UsersOwned`: the records in use are those
the clients hold, each held by one; its invariant is `Owned`, with `UsersReleased`
to know that the client set aside holds none. `RepliesOwnBuffers`: the
large buffers in use are those of replies being written; the invariant is `Lent`
(each buffer in use belongs to one client) and `Replying` (that client is open,
and its `ws_write` is in progress or queued). That a reply is under way is what
frees the buffer once, and it is kept because no other handler of that client can
run meanwhile. `server_scarce` checks `BuffersOwned` with few clients as well,
where nothing is proved of it.

`KgLog_proofs` proves, for every size of the buffer, of records, of the header
and of files, that no counter goes below zero and the threads stay in their places,
whatever overflows (`LogTyping`), that no record is copied past the end of the
buffer and no byte there is dirty until it wraps onto its own dirty bytes, whether
or not the log thread keeps up (`CopiesStayInBuffer`), that there is a
closing record or an error when the log has been joined (`ClosedWhenJoined`), and,
when `Overruns` is false, that what the log thread writes without the lock is not
touched (`WritesUndisturbed`) and that the log implements `LogStream`
(`LogIsStream`): its files hold the records in order, whole, none lost in between
or twice. The assumption is `LogAssumption`: what the
constructor asserts, records no longer than `max_bytes_msg` allows, and a buffer
with room for one of them, which the constructor does not check. It follows from
the assertions when `max_bytes_msg` is at least 3; it is 500 for the server.

None of them is inductive. The invariant `IInv` of that module adds

- `Taken`: the log thread advances `dirty` by no more than there is. It needs
  nothing else, and so holds in a buffer that has overflowed as well.
- `Bounded`: the counters lie in the buffer, until `lapped`.
- `Geometry`: the dirty bytes end at `pos_next`, or in the padding and again at
  `pos_next`. It holds while the buffer is `Sound`, without any overflow; when one
  is noticed `Bounded` is what is left.
- `Seen`: what the log thread has looked at under the lock is still at the front
  of the dirty bytes, and the buffer has not wrapped twice since.
- `Fits`: the record being accounted for fits, though the log thread may have
  moved `dirty` since it was copied.

Steps that leave the counters alone keep it by `CountersKeep`; the copy, the three
branches of `Adv_TA_pos_next_onLocked`, `Look` and `Written` have a lemma each.

For `LogIsStream` the invariant `SInv` follows the bytes. `Handed` are those of all
records accounted for, and `Start` says how many of them are on disk and no longer
dirty. Then the dirty bytes of the buffer are the ones that come next (`InPlace`:
from `dirty.ptr` on, and behind them those at the top), together with those on disk
they are all (`Accounted`), a write ends with a record (`Cuts`, which is why a wrap
must not split one), and a record that is copied but not accounted for is at
`pos_next` (`Copied`). `Adv_TA_pos_next_onLocked` is then `Write` of `LogStream`,
`WriteToDisk` is `Persist`, `WriteFails` is `Fail`, and every other step changes
nothing there (`StreamStep`). The bytes of n records are a `FlattenSeq`, a recursive
function; `SequenceLemmas` shows that there is one such function, by the least
place at which there would be none or two, and from it that joining one more
sequence, or extending the last one, adds bytes at the end (`FlattenAppend`,
`FlattenExtend`).

`Session_proofs` proves, for every set of frames, names, peers, strings and sizes
of reads, and however many connections, frames and records there are, all seven
properties of the run `session`. The first three are about the connection. They
need `ClientAssumption` (no user has the id 0, a payload has a length) and
`EndAssumption` (what the end of a log is), and rest on `Typing`, the types of the
connection and the two counters of ids.

- `Unmasking`: a frame that is accepted has a payload that fits (`Accepted`,
  `Sizes`), whatever its header says.
- `WholeFramesOnly`: as long as frames are `Plain`, a read that is acted on takes
  one whole frame. The invariant is that the frames lie behind each other
  (`Adjacent`) and that the next read starts where a frame does or where nothing
  has been sent (`AtFrame`): a read that is longer or shorter than the frame it
  starts with is a mismatch and ends the connection.
- `UsersInLog`: the invariant `UsersInv` speaks of the log as a whole. Every user
  left no more often than it was created at any point (`Nests`), all but the
  present one as often (`Settled`), and the ids in it are those the counters have
  passed, each given once while the ranges are apart (`Distinct`). Steps are
  reduced to four kinds (`Keeps`, `Enters`, `Goes`, `Stops`), with a lemma for each on
  what the record appended does to the counts.

The other four follow each record from the handler that logs it, through the bytes
of the file, to the text. They need three more assumptions:

- `WireAssumption`: opcodes have four bits, units of names sixteen, addresses are
  4 or 16 bytes, and a name is no longer than the record has room for
  (`EN_MAX_LEN_uname`, 10 in the code).
- `LoggedAssumption`: strings are bytes, counts of connections have 16 bits.
- `SizeAssumption`: what the constants of the code (501, 1000, 10, 3000) satisfy.
  A string that is cut has a length that the converter refuses, and a user with
  the longest name fits in a record, its text in the buffers.

The argument has four parts.

1. Functions. `FoldLeft` and `FlattenSeq` are recursive functions over the sets of
   places of a sequence; `FoldAppend` (`SequenceLemmas`) says how a fold goes on with one
   more element, and with it what the converter computes by folds is known unit by
   unit: `WriteEachGood` (the text file after a sequence of writes), `Totals`
   (where a number starts), `StSteps` (the conversion of a name).
2. One record (`SessionRecords_proofs`). `Kept(r, id, data)` says that the converter, given the data,
   accepts their length, writes texts that each fit in its buffer, and, if the record
   is `Legible`, that these are what was `Meant`. There is a lemma
   for each kind: `KeptNone` to `KeptThree` (numbers), `KeptAddress`, `KeptCounted`,
   `KeptString`, `KeptStamp`, `KeptUser`. The last rests on `NameRead`, that the
   units are read as they were written, and `CvtText`, that the conversion of
   `Convertible` units is their UTF-8; its invariant is `Reached`. A record whose bytes are not what was meant is
   still `Kept`, by a converter that reads something else of the same length (`KeptOther`).
3. What is logged. `EntryOK` says that the bytes of an entry are its time, if it
   has one, and a header with data that are `Kept` or a string that was cut
   (`CutShort`). `LogSteps` goes through all handlers, among them those that log what
   earlier errors left in `errbuf`, and shows that they log only such entries. The log
   is then a sequence of records (`LogWires`).
4. The converter. Its invariant `Converting` says that the file is the log, or its
   first bytes (`Source`), that what was read are the first records, one for each
   text (`Place`), that these texts are what was meant (`Told`), that the text file has
   them (`Good`), and why the loop has stopped (`Stopped`). `RecordRead` reads the next
   record at `pos`; `EndsWhy` says why it may not be there, `RecordConverted` what is
   written for it.

From these:

- `SessionTyping`: the buffers, the log and the text hold what they may.
- `LoopEndsForCause`: the converter never loses its place, whatever was logged and
  wherever the log was cut.
- `TextIsMeant`: the text says, of each legible record, what the server meant.
- `TextIsWritten`: no text is lost, written twice or out of order, and nothing is left
  in the buffer.

Model-checked only are `BacklogWritten`, `StopEnds` and `ErrorEnds`: they are
liveness under fairness, out of the reach of TLAPS here. So is what the violated
runs show.

## Not modelled, and what is left

Rooms have no operation in this commit; `KRI::Srlz_to` is never called. Text logs
are not used by the server. The IPv6 ring repeats the IPv4 one. SIGINT stops the
event loop between two handlers, after which only `Signal_ThrdStop` runs, so that
`KServer` and `KgLog` meet nowhere but in `said` of `Session`.

Worth doing next: the wrapped ring, once the second loop of `S_Trim` advances,
to state what the watch would promise then; records of names that are longer than
the field for them, once the length of a name is checked.
