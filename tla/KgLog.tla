-------------------------------- MODULE KgLog --------------------------------
(***************************************************************************)
(* KgLog (KgLog.cpp): the event-loop thread writes log records into a ring *)
(* buffer, a log thread writes the buffer to the log file.                 *)
(*                                                                         *)
(* A record is copied to pos_next without the lock; Adv_TA_pos_next then   *)
(* accounts for it under the lock, and sem_post wakes the log thread.  The *)
(* log thread reads dirty and pos_next under the lock, calls fwrite        *)
(* without it, and takes the lock again to advance dirty.  mb_IsUnderErr,  *)
(* mb_thrd_stop, mb_called_Signal_ThrdStop and mb_flush are shared without *)
(* any lock.  A section under the lock never waits: it is one step.        *)
(*                                                                         *)
(* A byte of the buffer is <<r, i>>, the i-th byte of the r-th record.     *)
(*                                                                         *)
(* The code tells a full buffer from an empty one by dirty.ptr # pos_next  *)
(* only.  When it wraps while dirty.ptr is its top, both are the top and   *)
(* nothing tells that every byte is dirty: no error is set, and the next   *)
(* records overwrite it.  From then on the counters mean nothing, and in   *)
(* the end a copy leaves the buffer.  lapped marks that wrap.              *)
(***************************************************************************)
EXTENDS Integers, Sequences, SequencesExt

CONSTANTS
    bytes_buf, max_bytes_msg,    \* the constructor's arguments
    bytes_file, bytes_fflush,
    Header,       \* bytes added in front of a message, 11 + 3 in the code
    Mark,         \* bytes of the overflow mark, 3 in the code
    Size,         \* the sizes of the records written
    Overruns,     \* whether records may be written faster than the log
                  \* thread makes room for them
    MaxRecords,   \* bound: the records written
    MaxFlush,     \* bound: the calls of Flush
    MaxFiles,     \* bound: the files of the log
    DiskFails     \* whether fwrite and fopen may fail

ASSUME LogAssumption ==
    /\ {bytes_buf, max_bytes_msg, bytes_file, bytes_fflush, Header, Mark} \subseteq Nat
    /\ max_bytes_msg * 2 < bytes_fflush         \* KgLog.cpp:37
    /\ bytes_buf > bytes_fflush * 3             \* KgLog.cpp:38
    /\ Size \subseteq 1 .. Header + max_bytes_msg + 1
    /\ MaxRecords \in Nat /\ MaxFlush \in Nat /\ MaxFiles \in Nat \ {0}
    /\ Header + max_bytes_msg + 1 < bytes_buf   \* one record; not checked there
    /\ Overruns \in BOOLEAN /\ DiskFails \in BOOLEAN

mc_max_bytes_wrt == max_bytes_msg + 1
\* Mutant: no room for the header.
PaddingWithoutHeader == bytes_buf - max_bytes_msg

mc_pbuf_top_padng == bytes_buf - max_bytes_msg - 1 - Header

VARIABLES
    buf,          \* the buffer; 0 .. bytes_buf - 1 are its bytes
    pos_next,     \* m_TA_pos_next, an offset in the buffer
    dirty,        \* m_TA_dirty: ptr, bytes, onTop
    sem,          \* m_sem_TA
    err,          \* mb_IsUnderErr
    thrd_stop, called_stop, flush,   \* mb_thrd_stop and the other flags
    files,        \* the bytes in each file, the current one last
    closing,      \* the last record of the log: "none", "Normal", "Abort"
    ppc,          \* where the writing thread is
    lpc,          \* where the log thread is
    snap,         \* cLK_cptop_dirty, cLK_bytes_dirty, cLK_pos_next
    written,      \* the sizes of the records accounted for, for the properties
    asked,        \* the records accounted for at the last Flush, for them too
    flushes,      \* the calls of Flush
    lapped        \* the buffer has wrapped onto dirty bytes, for them as well

shared  == <<pos_next, dirty>>
flags   == <<err, thrd_stop, called_stop, flush>>
history == <<written, asked, flushes, lapped>>
vars == <<buf, shared, sem, flags, files, closing, ppc, lpc, snap, history>>

Init ==
    /\ buf = [o \in 0 .. bytes_buf - 1 |-> <<0, 0>>]
    /\ pos_next = 0 /\ dirty = [ptr |-> 0, bytes |-> 0, onTop |-> 0]
    /\ sem = 0
    /\ err = FALSE /\ thrd_stop = FALSE /\ called_stop = FALSE /\ flush = FALSE
    /\ files = << <<>> >> /\ closing = "none"
    /\ ppc = [at |-> "idle", size |-> 0]
    /\ lpc = "wait" /\ snap = [ptr |-> 0, bytes |-> 0, pos |-> 0]
    /\ written = <<>> /\ asked = 0 /\ flushes = 0 /\ lapped = FALSE

-----------------------------------------------------------------------------
(* The writing thread *)

At(pc) == ppc.at = pc
Go(pc) == ppc' = [at |-> pc, size |-> 0]

\* What a log thread that keeps up has done before a record of n bytes is
\* written: if the buffer wraps now its first byte is on disk; if it has
\* wrapped, the record reaches neither the dirty bytes nor the margin of the
\* overflow check.  The code does not test it: it is what the model assumes
\* unless Overruns.
KeepsUp(n) ==
    /\ pos_next + n >= mc_pbuf_top_padng => dirty.ptr \in 1 .. pos_next
    /\ pos_next < dirty.ptr => pos_next + n + mc_max_bytes_wrt <= dirty.ptr

\* The record after r, of n bytes, copied to pos_next.
Record(r, n) == [i \in 1..n |-> <<r, i>>]
Put(record) ==
    [o \in DOMAIN buf |->
        IF o \in pos_next .. pos_next + Len(record) - 1
        THEN record[o - pos_next + 1] ELSE buf[o]]

\* WriteID* and Wrt_*, before the lock: only the error is looked at.  A copy
\* that leaves the buffer overwrites what is not the log's; the writing thread
\* is not followed any further.
Copy(n) ==
    /\ At("idle") /\ ~err
    /\ Len(written) < MaxRecords
    /\ Overruns \/ KeepsUp(n)
    /\ buf' = Put(Record(Len(written) + 1, n))
    /\ ppc' = [at |-> IF pos_next + n <= bytes_buf THEN "copied" ELSE "outside",
               size |-> n]
    /\ UNCHANGED <<shared, sem, flags, files, closing, lpc, snap, history>>

\* Mutant: the buffer wraps as if its end were its size.
AdvanceModulo ==
    LET to == pos_next + ppc.size
    IN /\ dirty.ptr <= pos_next
       /\ pos_next' = IF mc_pbuf_top_padng <= to THEN to - bytes_buf ELSE to
       /\ dirty' = [dirty EXCEPT !.bytes = @ + ppc.size]
       /\ UNCHANGED <<buf, err, lapped>>

\* Adv_TA_pos_next_onLocked, the buffer not wrapped: the record is added to
\* the dirty bytes, and the next one goes to the top if this one ends in the
\* padding.
Advance ==
    LET to == pos_next + ppc.size
    IN /\ dirty.ptr <= pos_next
       /\ IF mc_pbuf_top_padng <= to
          THEN /\ pos_next' = 0
               /\ dirty' = [dirty EXCEPT !.bytes = @ + ppc.size, !.onTop = 0]
               /\ lapped' = (lapped \/ dirty.ptr = 0)
          ELSE /\ pos_next' = to
               /\ dirty' = [dirty EXCEPT !.bytes = @ + ppc.size]
               /\ UNCHANGED lapped
       /\ UNCHANGED <<buf, err>>

\* The buffer wrapped, with enough room left after this record.
AdvanceOnTop ==
    /\ pos_next < dirty.ptr
    /\ dirty.ptr - (pos_next + ppc.size) >= mc_max_bytes_wrt
    /\ pos_next' = pos_next + ppc.size
    /\ dirty' = [dirty EXCEPT !.onTop = @ + ppc.size]
    /\ UNCHANGED <<buf, err, lapped>>

\* The buffer overflows: a mark if there is room for one, and the error.
Overflow ==
    LET to     == pos_next + ppc.size
        marked == dirty.ptr - to >= Mark
        extra  == IF marked THEN Mark ELSE 0
    IN /\ pos_next < dirty.ptr
       /\ dirty.ptr - to < mc_max_bytes_wrt
       /\ pos_next' = to + extra
       /\ dirty' = [dirty EXCEPT !.onTop = @ + ppc.size + extra]
       /\ buf' = [o \in DOMAIN buf |->
                    IF marked /\ o \in to .. to + Mark - 1
                    THEN <<0, o - to + 1>> ELSE buf[o]]
       /\ err' = TRUE
       /\ UNCHANGED lapped

Adv_TA_pos_next_onLocked ==
    /\ At("copied")
    /\ Advance \/ AdvanceOnTop \/ Overflow
    /\ written' = Append(written, ppc.size)
    /\ Go("post")
    /\ UNCHANGED <<sem, thrd_stop, called_stop, flush, files, closing, lpc,
                   snap, asked, flushes>>

\* sem_post of whatever was called.
Post ==
    /\ At("post") \/ At("stop_post")
    /\ sem' = sem + 1
    /\ Go(IF At("post") THEN "idle" ELSE "join")
    /\ UNCHANGED <<buf, shared, flags, files, closing, lpc, snap, history>>

Flush ==
    /\ At("idle") /\ ~err
    /\ flushes < MaxFlush
    /\ flush' = TRUE
    /\ asked' = Len(written) /\ flushes' = flushes + 1
    /\ Go("post")
    /\ UNCHANGED <<buf, shared, sem, err, thrd_stop, called_stop, files,
                   closing, lpc, snap, written, lapped>>

\* Signal_ThrdStop, its first assignment, or the destructor's one when
\* Signal_ThrdStop has not been called.
Stop(to) ==
    /\ At("idle")
    /\ thrd_stop' = TRUE
    /\ Go(to)
    /\ UNCHANGED <<buf, shared, sem, err, called_stop, flush, files, closing,
                   lpc, snap, history>>

Signal_ThrdStop == Stop("signal")
Destroy == Stop("stop_post")

\* The second assignment of Signal_ThrdStop.
Called ==
    /\ At("signal")
    /\ called_stop' = TRUE
    /\ Go("stop_post")
    /\ UNCHANGED <<buf, shared, sem, err, thrd_stop, flush, files, closing,
                   lpc, snap, history>>

\* Mutant: the thread is not waited for.
JoinAtOnce ==
    /\ At("join")
    /\ Go("closed")
    /\ UNCHANGED <<buf, shared, sem, flags, files, closing, lpc, snap, history>>

\* pthread_join; the file is closed and the buffer deleted after it.
Join ==
    /\ At("join") /\ lpc = "ended"
    /\ Go("closed")
    /\ UNCHANGED <<buf, shared, sem, flags, files, closing, lpc, snap, history>>

-----------------------------------------------------------------------------
(* The log thread *)

Wake ==
    /\ lpc = "wait" /\ sem > 0
    /\ sem' = sem - 1
    /\ lpc' = IF err THEN "ended" ELSE "lock"
    /\ UNCHANGED <<buf, shared, flags, files, closing, ppc, snap, history>>

\* Under the lock.
Look ==
    /\ lpc = "lock"
    /\ snap' = [ptr |-> dirty.ptr, bytes |-> dirty.bytes, pos |-> pos_next]
    /\ lpc' = IF dirty.bytes = 0 THEN "nothing" ELSE "decide"
    /\ UNCHANGED <<buf, shared, sem, flags, files, closing, ppc, history>>

\* Mutant: the thread looks again instead, and never sees the stop.
NothingPolls ==
    /\ lpc = "nothing"
    /\ lpc' = "lock"
    /\ UNCHANGED <<buf, shared, sem, flags, files, closing, ppc, snap, history>>

\* Nothing to write: the thread ends, or forgets the flush.
Nothing ==
    /\ lpc = "nothing"
    /\ lpc' = IF thrd_stop THEN "close" ELSE "forget"
    /\ UNCHANGED <<buf, shared, sem, flags, files, closing, ppc, snap, history>>

\* Mutant: one byte more is held back.
NotYetAtLimit == snap.bytes <= bytes_fflush /\ ~thrd_stop /\ snap.ptr < snap.pos

\* Too few bytes are left for the next time.
NotYet == snap.bytes < bytes_fflush /\ ~thrd_stop /\ snap.ptr < snap.pos

Decide ==
    /\ lpc = "decide"
    /\ lpc' = IF flush THEN "reset" ELSE IF NotYet THEN "wait" ELSE "write"
    /\ UNCHANGED <<buf, shared, sem, flags, files, closing, ppc, snap, history>>

\* mb_flush is read in one step and reset in another.
ResetFlush ==
    /\ lpc \in {"forget", "reset"}
    /\ flush' = FALSE
    /\ lpc' = IF lpc = "forget" THEN "wait" ELSE "write"
    /\ UNCHANGED <<buf, shared, sem, err, thrd_stop, called_stop, files,
                   closing, ppc, snap, history>>

Out == [i \in 1 .. snap.bytes |->
          IF snap.ptr + i - 1 \in DOMAIN buf THEN buf[snap.ptr + i - 1]
          ELSE <<-1, 0>>]       \* past the end of the buffer

\* n of these bytes are added to the current file.
Extended(n) == [files EXCEPT ![Len(files)] = @ \o SubSeq(Out, 1, n)]

\* The current file is large enough to be replaced; the code also asks that
\* it be two minutes old.
Large == Len(files[Len(files)]) + snap.bytes > bytes_file

WriteToDisk ==
    /\ lpc = "write"
    /\ \/ files' = Extended(snap.bytes)
       \/ /\ Large /\ Len(files) < MaxFiles
          /\ files' = Append(Extended(snap.bytes), <<>>)
    /\ lpc' = "advance"
    /\ UNCHANGED <<buf, shared, sem, flags, closing, ppc, snap, history>>

\* Mutant: the thread goes on after an error.
WriteFailsUnnoticed ==
    /\ lpc = "write" /\ DiskFails
    /\ err' = TRUE
    /\ \/ \E n \in 0 .. snap.bytes - 1 : files' = Extended(n)
       \/ Large /\ files' = Extended(snap.bytes)
    /\ lpc' = "advance"
    /\ UNCHANGED <<buf, shared, sem, thrd_stop, called_stop, flush, closing,
                   ppc, snap, history>>

\* fwrite is short, or fopen of the next file fails.
WriteFails ==
    /\ lpc = "write" /\ DiskFails
    /\ err' = TRUE
    /\ \/ \E n \in 0 .. snap.bytes - 1 : files' = Extended(n)
       \/ Large /\ files' = Extended(snap.bytes)
    /\ lpc' = "ended"
    /\ UNCHANGED <<buf, shared, sem, thrd_stop, called_stop, flush, closing,
                   ppc, snap, history>>

\* Mutants: the bytes written stay dirty, or those on top are forgotten.
WrittenStillDirty ==
    /\ lpc = "advance"
    /\ dirty' = IF snap.ptr < snap.pos
                THEN [dirty EXCEPT !.ptr = @ + snap.bytes]
                ELSE [ptr |-> 0, bytes |-> dirty.onTop, onTop |-> 0]
    /\ lpc' = "after"
    /\ UNCHANGED <<buf, pos_next, sem, flags, files, closing, ppc, snap, history>>

WrittenOnTopLost ==
    /\ lpc = "advance"
    /\ dirty' = IF dirty.ptr < pos_next
                THEN [dirty EXCEPT !.ptr = @ + snap.bytes,
                                   !.bytes = @ - snap.bytes]
                ELSE [ptr |-> 0, bytes |-> dirty.onTop, onTop |-> 0]
    /\ lpc' = "after"
    /\ UNCHANGED <<buf, pos_next, sem, flags, files, closing, ppc, snap, history>>

\* Under the lock: the bytes written are no longer dirty.
Written ==
    /\ lpc = "advance"
    /\ dirty' = IF snap.ptr < snap.pos
                THEN [dirty EXCEPT !.ptr = @ + snap.bytes,
                                   !.bytes = @ - snap.bytes]
                ELSE [ptr |-> 0, bytes |-> dirty.onTop, onTop |-> 0]
    /\ lpc' = "after"
    /\ UNCHANGED <<buf, pos_next, sem, flags, files, closing, ppc, snap, history>>

After ==
    /\ lpc = "after"
    /\ lpc' = IF thrd_stop THEN "close" ELSE "wait"
    /\ UNCHANGED <<buf, shared, sem, flags, files, closing, ppc, snap, history>>

\* MS_ThreadStart, after LogThread: how the log was closed.
CloseLog ==
    /\ lpc = "close"
    /\ closing' = IF err THEN "none" ELSE IF called_stop THEN "Normal" ELSE "Abort"
    /\ lpc' = "ended"
    /\ UNCHANGED <<buf, shared, sem, flags, files, ppc, snap, history>>

LogThread == \/ Wake \/ Look \/ Nothing \/ Decide \/ ResetFlush \/ WriteToDisk
             \/ WriteFails \/ Written \/ After \/ CloseLog

\* What the writing thread does once it is inside a call.
Continues == Adv_TA_pos_next_onLocked \/ Post \/ Called \/ Join

Next ==
    \/ \E n \in Size : Copy(n)
    \/ Flush \/ Signal_ThrdStop \/ Destroy
    \/ Continues
    \/ LogThread
    \/ ppc.at \in {"closed", "outside"} /\ UNCHANGED vars

\* Both threads are scheduled: a call that was begun goes on, and the log
\* thread runs whenever it can.  Nothing obliges the program to make a call.
Spec == Init /\ [][Next]_vars /\ WF_vars(Continues) /\ WF_vars(LogThread)

-----------------------------------------------------------------------------
(* What must hold *)

\* Every variable has its type.
TypeOK ==
    /\ pos_next \in Nat
    /\ dirty \in [ptr : Nat, bytes : Nat, onTop : Nat]
    /\ sem \in Nat
    /\ {err, thrd_stop, called_stop, flush, lapped} \subseteq BOOLEAN
    /\ closing \in {"none", "Normal", "Abort"}
    /\ ppc.at \in {"idle", "copied", "outside", "post", "signal", "stop_post",
                  "join", "closed"}
    /\ lpc \in {"wait", "lock", "nothing", "forget", "decide", "reset", "write",
                "advance", "after", "close", "ended"}

Stream == INSTANCE LogStream WITH failed <- err

\* Whatever the threads' interleaving and however often the buffer wraps, the
\* files hold the records in order, whole, none lost in between or twice; a
\* disk that fails cuts the last one short.
KeepsStream == Stream!StreamSpec

\* Until the buffer wraps onto its own dirty bytes, an overflow that the code
\* notices included: whenever a record may be copied the longest one fits, so
\* that the copy, which checks nothing, stays inside the buffer, and what the
\* log thread may hand to fwrite lies inside it too, however the two threads
\* take turns.
InBuffer ==
    ~lapped =>
        /\ At("idle") /\ ~err => pos_next + Header + mc_max_bytes_wrt <= bytes_buf
        /\ ~At("outside")
        /\ dirty.ptr + dirty.bytes <= bytes_buf /\ dirty.onTop <= bytes_buf

\* The log thread is between its look and the end of the write.
Looked == lpc \in {"decide", "reset", "write", "advance"}

\* The bytes that the log thread has decided to write, and calls fwrite with
\* after it released the lock, are not touched by what is copied meanwhile,
\* nor do they become other bytes by a wrap.
WriteUndisturbed == [][Looked /\ Looked' => Out' = Out]_vars

OnDisk == FlattenSeq(files)
RecordsOnDisk == IF OnDisk = <<>> THEN 0 ELSE OnDisk[Len(OnDisk)][1]

\* The bytes accounted for that are not on disk.
Backlog == dirty.bytes + dirty.onTop

\* The log never holds bytes_fflush bytes back: they are written, unless an
\* error or the end of the log comes first.  No record is stuck behind a wrap
\* for want of a wake-up.
BacklogWritten ==
    Backlog >= bytes_fflush ~> Backlog < bytes_fflush \/ err \/ thrd_stop

\* Stopping the log ends its thread, whatever it was doing and whatever error
\* it met, and the caller of pthread_join returns.
StopEnds == thrd_stop ~> At("closed")

\* An error ends the log thread by itself: none stays asleep for ever.
ErrorEnds == err ~> lpc = "ended"

\* The log is closed as its end was asked for, at the latest when the caller
\* is released: unless an error forbids it, there is a closing record.
ClosedBeforeJoin == ppc.at = "closed" /\ ~err => closing # "none"

\* KgLog.h:63: Flush has the data in the buffer written.
FlushReachesDisk ==
    asked > RecordsOnDisk ~> asked <= RecordsOnDisk \/ err \/ thrd_stop

=============================================================================
