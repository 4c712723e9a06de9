---------------------------- MODULE KgLog_proofs ----------------------------
(***************************************************************************)
(* Theorems about the ring buffer and the two threads of KgLog, for every  *)
(* size of the buffer, the records and the files.                          *)
(***************************************************************************)
EXTENDS KgLog, SequenceLemmas

Places  == {"idle", "copied", "outside", "post", "signal", "stop_post", "join",
            "closed"}
LPlaces == {"wait", "lock", "nothing", "forget", "decide", "reset", "write",
            "advance", "after", "close", "ended"}

Typed ==
    /\ pos_next \in Nat
    /\ dirty \in [ptr : Nat, bytes : Nat, onTop : Nat]
    /\ snap \in [ptr : Nat, bytes : Nat, pos : Nat]
    /\ sem \in Nat
    /\ err \in BOOLEAN /\ thrd_stop \in BOOLEAN
    /\ called_stop \in BOOLEAN /\ flush \in BOOLEAN /\ lapped \in BOOLEAN
    /\ closing \in {"none", "Normal", "Abort"}
    /\ ppc \in [at : Places, size : Nat]
    /\ lpc \in LPlaces

\* The log thread advances dirty by no more than there is, whatever happens.
Taken == Looked => snap.ptr = dirty.ptr /\ snap.bytes <= dirty.bytes

\* The counters stay inside the buffer, and so does the record being copied,
\* an overflow that is noticed included.
Bounded ==
    /\ pos_next < bytes_buf
    /\ dirty.ptr + dirty.bytes < bytes_buf
    /\ dirty.onTop < bytes_buf
    /\ ~At("outside")

\* The buffer has not overflowed: neither by a wrap that goes unnoticed nor by
\* one that is an error, found right after the copy.
Sound == ~lapped /\ (~err \/ At("copied"))

\* Where the dirty bytes are, as long as the buffer has not overflowed: up to
\* pos_next, or up to the padding and again from the top to pos_next.
Geometry ==
    /\ pos_next < mc_pbuf_top_padng /\ dirty.ptr < mc_pbuf_top_padng
    /\ dirty.ptr <= pos_next =>
         dirty.ptr + dirty.bytes = pos_next /\ dirty.onTop = 0
    /\ pos_next < dirty.ptr =>
         dirty.onTop = pos_next /\ mc_pbuf_top_padng <= dirty.ptr + dirty.bytes

\* What the log thread has looked at is still there, whatever was added since.
Seen ==
    /\ snap.bytes > 0
    /\ snap.ptr < snap.pos =>
         /\ snap.ptr + snap.bytes = snap.pos
         /\ snap.pos < mc_pbuf_top_padng
         /\ dirty.ptr <= pos_next => snap.pos <= pos_next
    /\ snap.pos <= snap.ptr =>
         pos_next < dirty.ptr /\ dirty.bytes = snap.bytes

\* The record being accounted for still fits, after what the log thread did.
Fits ==
    /\ ppc.size \in 1 .. Header + mc_max_bytes_wrt
    /\ ~Overruns => KeepsUp(ppc.size)

\* How the two threads end.
Ending ==
    /\ lpc = "ended" /\ ~err => closing # "none"
    /\ At("closed") => lpc = "ended"

\* The inductive invariant.
IInv ==
    /\ Typed
    /\ Taken
    /\ ~lapped => Bounded
    /\ Sound => Geometry
    /\ Sound /\ Looked => Seen
    /\ At("copied") => Fits
    /\ ~Overruns => ~lapped
    /\ Ending

USE DEF shared, flags, history, At, Go

-----------------------------------------------------------------------------
(* The steps under the invariant *)

\* Where the padding starts.
LEMMA Sizes ==
    /\ bytes_buf \in Nat /\ Header \in Nat /\ Mark \in Nat
    /\ mc_max_bytes_wrt \in Nat \ {0}
    /\ mc_pbuf_top_padng \in Nat \ {0}
    /\ mc_pbuf_top_padng + Header + mc_max_bytes_wrt = bytes_buf
    /\ Size \subseteq 1 .. Header + mc_max_bytes_wrt
BY LogAssumption DEF mc_max_bytes_wrt, mc_pbuf_top_padng

\* The invariant holds at first.
LEMMA InitKeeps == Init => IInv
<1> SUFFICES ASSUME Init PROVE IInv OBVIOUS
<1>1. Typed BY DEF Init, Typed, Places, LPlaces
<1>2. pos_next = 0 /\ dirty.ptr = 0 /\ dirty.bytes = 0 /\ dirty.onTop = 0
  BY DEF Init
<1>3. ~Looked /\ ~At("copied") /\ ~At("outside") /\ ~lapped BY DEF Init, Looked
<1>4. Bounded /\ Taken BY <1>2, <1>3, Sizes DEF Bounded, Taken
<1>5. Geometry BY <1>2, Sizes DEF Geometry
<1>6. Ending BY DEF Init, Ending
<1> QED BY <1>1, <1>3, <1>4, <1>5, <1>6 DEF IInv

\* A step that leaves the counters alone keeps the invariant, if it starts no
\* copy and no write.
LEMMA CountersKeep ==
    ASSUME IInv, UNCHANGED <<pos_next, dirty, snap, lapped>>,
           Sound' => Sound, Looked' => Looked,
           At("copied")' => At("copied") /\ ppc' = ppc,
           At("outside")' => At("outside"),
           Typed', Ending'
    PROVE  IInv'
BY DEF IInv, Taken, Bounded, Geometry, Seen, Fits, KeepsUp

\* The writing thread outside of Adv_TA_pos_next_onLocked, but for the copy.
LEMMA WriterKeeps ==
    ASSUME IInv, Post \/ Flush \/ Signal_ThrdStop \/ Destroy \/ Called \/ Join
    PROVE  IInv'
<1> USE DEF IInv
<1>1. CASE Post
  <2>1. Typed' BY <1>1 DEF Post, Typed, Places
  <2> QED BY <1>1, <2>1, CountersKeep DEF Post, Sound, Looked, Ending, Typed
<1>2. CASE Flush
  <2>1. Typed' BY <1>2 DEF Flush, Typed, Places
  <2> QED BY <1>2, <2>1, CountersKeep DEF Flush, Sound, Looked, Ending, Typed
<1>3. CASE Signal_ThrdStop
  <2>1. Typed' BY <1>3 DEF Signal_ThrdStop, Stop, Typed, Places
  <2> QED BY <1>3, <2>1, CountersKeep DEF Signal_ThrdStop, Stop, Sound, Looked, Ending, Typed
<1>4. CASE Destroy
  <2>1. Typed' BY <1>4 DEF Destroy, Stop, Typed, Places
  <2> QED BY <1>4, <2>1, CountersKeep DEF Destroy, Stop, Sound, Looked, Ending, Typed
<1>5. CASE Called
  <2>1. Typed' BY <1>5 DEF Called, Typed, Places
  <2> QED BY <1>5, <2>1, CountersKeep DEF Called, Sound, Looked, Ending, Typed
<1>6. CASE Join
  <2>1. Typed' BY <1>6 DEF Join, Typed, Places
  <2> QED BY <1>6, <2>1, CountersKeep DEF Join, Sound, Looked, Ending, Typed
<1> QED BY <1>1, <1>2, <1>3, <1>4, <1>5, <1>6

\* The log thread, but for its two sections under the lock.
LEMMA LogThreadKeeps ==
    ASSUME IInv, Wake \/ Nothing \/ Decide \/ ResetFlush \/ WriteToDisk
                   \/ WriteFails \/ After \/ CloseLog
    PROVE  IInv'
<1> USE DEF IInv
<1>1. CASE Wake
  <2>1. Typed' BY <1>1 DEF Wake, Typed, LPlaces
  <2> QED BY <1>1, <2>1, CountersKeep DEF Wake, Sound, Looked, Ending, Typed
<1>2. CASE Nothing
  <2>1. Typed' BY <1>2 DEF Nothing, Typed, LPlaces
  <2> QED BY <1>2, <2>1, CountersKeep DEF Nothing, Sound, Looked, Ending, Typed
<1>3. CASE Decide
  <2>1. Typed' BY <1>3 DEF Decide, Typed, LPlaces
  <2> QED BY <1>3, <2>1, CountersKeep DEF Decide, Sound, Looked, Ending, Typed
<1>4. CASE ResetFlush
  <2>1. Typed' BY <1>4 DEF ResetFlush, Typed, LPlaces
  <2> QED BY <1>4, <2>1, CountersKeep DEF ResetFlush, Sound, Looked, Ending, Typed
<1>5. CASE WriteToDisk
  <2>1. Typed' BY <1>5 DEF WriteToDisk, Typed, LPlaces
  <2> QED BY <1>5, <2>1, CountersKeep DEF WriteToDisk, Sound, Looked, Ending, Typed
<1>6. CASE WriteFails
  <2>1. Typed' BY <1>6 DEF WriteFails, Typed, LPlaces
  <2> QED BY <1>6, <2>1, CountersKeep DEF WriteFails, Sound, Looked, Ending, Typed
<1>7. CASE After
  <2>1. Typed' BY <1>7 DEF After, Typed, LPlaces
  <2> QED BY <1>7, <2>1, CountersKeep DEF After, Sound, Looked, Ending, Typed
<1>8. CASE CloseLog
  <2>1. Typed' BY <1>8 DEF CloseLog, Typed, LPlaces
  <2> QED BY <1>8, <2>1, CountersKeep DEF CloseLog, Sound, Looked, Ending, Typed
<1> QED BY <1>1, <1>2, <1>3, <1>4, <1>5, <1>6, <1>7, <1>8

\* A record is copied only when it fits and the buffer has not overflowed.
LEMMA CopyKeeps ==
    ASSUME IInv, NEW n \in Size, Copy(n)
    PROVE  IInv'
<1>1. /\ Typed /\ Taken /\ Ending /\ ~err /\ At("idle")
      /\ ~lapped => Bounded /\ Geometry
      /\ Sound /\ Looked => Seen
      /\ ~Overruns => ~lapped /\ KeepsUp(n)
      /\ ppc' = [at |-> IF pos_next + n <= bytes_buf THEN "copied" ELSE "outside",
                 size |-> n]
      /\ UNCHANGED <<pos_next, dirty, snap, err, lpc, lapped, sem, thrd_stop, called_stop,
                     flush, closing>>
  BY DEF IInv, Copy, Sound
<1>2. n \in 1 .. Header + mc_max_bytes_wrt /\ n \in Nat BY Sizes
<1>3. ~lapped => pos_next + n <= bytes_buf
  <2>1. pos_next \in Nat BY <1>1 DEF Typed
  <2> QED BY <1>1, <1>2, <2>1, Sizes DEF Geometry
<1>4. Typed' BY <1>1, <1>2 DEF Typed, Places
<1>5. Taken' BY <1>1 DEF Taken, Looked
<1>6. (~lapped => Bounded)' BY <1>1, <1>3 DEF Bounded
<1>7. (Sound => Geometry)' BY <1>1 DEF Sound, Geometry
<1>8. (Sound /\ Looked => Seen)' BY <1>1 DEF Sound, Looked, Seen
<1>9. Fits' BY <1>1, <1>2 DEF Fits, KeepsUp
<1>10. (~Overruns => ~lapped)' BY <1>1
<1>11. Ending' BY <1>1 DEF Ending
<1> QED BY <1>4, <1>5, <1>6, <1>7, <1>8, <1>9, <1>10, <1>11 DEF IInv

\* What is known of the record that is being accounted for.
LEMMA BeforeAdv ==
    ASSUME IInv, Adv_TA_pos_next_onLocked
    PROVE  /\ Fits /\ (~lapped => Geometry /\ (Looked => Seen))
           /\ ppc' = [at |-> "post", size |-> 0]
           /\ UNCHANGED <<sem, thrd_stop, called_stop, flush, closing, lpc, snap>>
BY DEF IInv, Sound, Adv_TA_pos_next_onLocked

\* The buffer has not wrapped, or does so now: with its top free, or it laps.
LEMMA AdvanceKeeps ==
    ASSUME IInv, Adv_TA_pos_next_onLocked, Advance
    PROVE  IInv'
<1> DEFINE to == pos_next + ppc.size
<1>1. /\ Typed /\ Taken /\ Fits /\ Ending /\ (~Overruns => ~lapped)
      /\ ~lapped => Bounded /\ Geometry /\ (Looked => Seen)
      /\ ppc' = [at |-> "post", size |-> 0]
      /\ UNCHANGED <<sem, thrd_stop, called_stop, flush, closing, lpc, snap>>
  BY BeforeAdv DEF IInv
<1>2. /\ err' = err /\ dirty.ptr <= pos_next
      /\ \/ /\ mc_pbuf_top_padng <= to /\ pos_next' = 0
            /\ dirty' = [dirty EXCEPT !.bytes = @ + ppc.size, !.onTop = 0]
         \/ /\ ~(mc_pbuf_top_padng <= to) /\ pos_next' = to
            /\ dirty' = [dirty EXCEPT !.bytes = @ + ppc.size]
  BY Zenon DEF Advance
<1>3. to \in Nat /\ pos_next \in Nat /\ dirty \in [ptr : Nat, bytes : Nat, onTop : Nat]
      /\ ppc.size \in Nat
  BY <1>1 DEF Typed
<1>4. /\ pos_next' \in Nat /\ dirty' \in [ptr : Nat, bytes : Nat, onTop : Nat]
      /\ dirty'.ptr = dirty.ptr /\ dirty'.bytes = dirty.bytes + ppc.size
      /\ dirty'.onTop = dirty.onTop \/ dirty'.onTop = 0
  <2> HIDE DEF to
  <2>1. dirty = [ptr |-> dirty.ptr, bytes |-> dirty.bytes, onTop |-> dirty.onTop]
    BY <1>3
  <2>2. PICK t \in {0, dirty.onTop} :
            dirty' = [ptr |-> dirty.ptr, bytes |-> dirty.bytes + ppc.size, onTop |-> t]
    <3>1. CASE dirty' = [dirty EXCEPT !.bytes = @ + ppc.size, !.onTop = 0]
      <4>1. dirty' = [ptr |-> dirty.ptr, bytes |-> dirty.bytes + ppc.size, onTop |-> 0]
        BY ONLY <2>1, <3>1
      <4> QED BY <4>1
    <3>2. CASE dirty' = [dirty EXCEPT !.bytes = @ + ppc.size]
      <4>1. dirty' = [ptr |-> dirty.ptr, bytes |-> dirty.bytes + ppc.size,
                      onTop |-> dirty.onTop]
        BY ONLY <2>1, <3>2
      <4> QED BY <4>1
    <3> QED BY <1>2, <3>1, <3>2
  <2>3. t \in Nat /\ dirty.ptr \in Nat /\ dirty.bytes + ppc.size \in Nat BY <1>3
  <2> QED BY <1>2, <1>3, <2>2, <2>3
<1>5. /\ lapped' \in BOOLEAN /\ (~lapped' => ~lapped)
      /\ mc_pbuf_top_padng <= to /\ dirty.ptr # 0 => (lapped' => lapped)
      /\ mc_pbuf_top_padng <= to /\ ~lapped' => dirty.ptr # 0
      /\ ~(mc_pbuf_top_padng <= to) => (lapped' => lapped)
  <2>1. lapped \in BOOLEAN BY <1>1 DEF Typed
  <2> QED BY <2>1, Zenon DEF Advance
<1>6. Typed' BY <1>1, <1>2, <1>4, <1>5 DEF Typed, Places
<1>7. Taken' BY <1>1, <1>3, <1>4 DEF Taken, Looked, Typed
<1>8. Ending' BY <1>1, <1>2 DEF Ending
<1>9. (~Overruns => ~lapped)' BY <1>1, <1>3, <1>5 DEF Fits, KeepsUp
<1>10. ASSUME ~lapped'
       PROVE  Bounded' /\ Geometry' /\ (Looked => Seen)'
  <2>1. /\ Bounded /\ Geometry /\ (Looked => Seen)
        /\ dirty.ptr + dirty.bytes = pos_next /\ dirty.onTop = 0
    BY <1>1, <1>2, <1>5, <1>10 DEF Geometry
  <2>2. /\ mc_pbuf_top_padng <= to => pos_next' = 0 /\ dirty.ptr > 0
        /\ ~(mc_pbuf_top_padng <= to) => pos_next' = to
    BY <1>2, <1>3, <1>5, <1>10
  <2>3. /\ dirty'.ptr = dirty.ptr /\ dirty'.onTop = 0
        /\ dirty'.ptr + dirty'.bytes = to
        /\ to < bytes_buf /\ dirty.ptr < mc_pbuf_top_padng
    BY <1>1, <1>3, <1>4, <2>1, Sizes DEF Fits, Geometry
  <2> HIDE DEF to
  <2>4. Bounded' BY <1>1, <1>3, <2>2, <2>3, Sizes DEF Bounded
  <2>5. Geometry' BY <1>2, <1>3, <1>4, <2>2, <2>3, Sizes DEF Geometry
  <2>6. (Looked => Seen)'
    BY <1>1, <1>2, <1>3, <1>4, <2>1, <2>2, <2>3 DEF Looked, Seen, Typed, Fits, to
  <2> QED BY <2>4, <2>5, <2>6
<1> HIDE DEF to
<1> QED BY <1>1, <1>6, <1>7, <1>8, <1>9, <1>10 DEF IInv, Sound

\* The buffer has wrapped and stays clear of the dirty bytes.
LEMMA AdvanceOnTopKeeps ==
    ASSUME IInv, Adv_TA_pos_next_onLocked, AdvanceOnTop
    PROVE  IInv'
<1>1. /\ Typed /\ Taken /\ Fits /\ Ending /\ (~Overruns => ~lapped)
      /\ ~lapped => Bounded /\ Geometry /\ (Looked => Seen)
      /\ ppc' = [at |-> "post", size |-> 0]
      /\ UNCHANGED <<sem, thrd_stop, called_stop, flush, closing, lpc, snap>>
  BY BeforeAdv DEF IInv
<1>2. /\ err' = err /\ lapped' = lapped
      /\ pos_next' = pos_next + ppc.size
      /\ dirty'.ptr = dirty.ptr /\ dirty'.bytes = dirty.bytes
      /\ dirty'.onTop = dirty.onTop + ppc.size
      /\ dirty' \in [ptr : Nat, bytes : Nat, onTop : Nat]
  BY <1>1 DEF AdvanceOnTop, Typed
<1>3. pos_next \in Nat /\ dirty \in [ptr : Nat, bytes : Nat, onTop : Nat] /\ ppc.size \in Nat
  BY <1>1 DEF Typed
<1>4. pos_next < dirty.ptr /\ pos_next' < dirty.ptr
  BY <1>2, <1>3, Sizes DEF AdvanceOnTop
<1>5. Typed' BY <1>1, <1>2, <1>3 DEF Typed, Places
<1>6. Taken' BY <1>1, <1>2 DEF Taken, Looked
<1>7. Ending' BY <1>1, <1>2 DEF Ending
<1>8. ASSUME ~lapped'
      PROVE  Bounded' /\ Geometry' /\ (Looked => Seen)'
  <2>1. /\ Bounded /\ Geometry /\ (Looked => Seen)
        /\ dirty.onTop = pos_next /\ dirty.ptr < mc_pbuf_top_padng
        /\ mc_pbuf_top_padng <= dirty.ptr + dirty.bytes
    BY <1>1, <1>2, <1>4, <1>8 DEF Geometry
  <2>2. Bounded' BY <1>1, <1>2, <1>3, <1>4, <2>1, Sizes DEF Bounded
  <2>3. Geometry' BY <1>2, <1>3, <1>4, <2>1, Sizes DEF Geometry
  <2>4. (Looked => Seen)' BY <1>1, <1>2, <1>3, <1>4, <2>1 DEF Looked, Seen, Typed
  <2> QED BY <2>2, <2>3, <2>4
<1> QED BY <1>1, <1>2, <1>5, <1>6, <1>7, <1>8 DEF IInv, Sound

\* The buffer overflows and the code notices it: inside the bounds.
LEMMA OverflowKeeps ==
    ASSUME IInv, Adv_TA_pos_next_onLocked, Overflow
    PROVE  IInv'
<1>1. /\ Typed /\ Taken /\ Fits /\ Ending /\ (~Overruns => ~lapped)
      /\ ~lapped => Bounded /\ Geometry
      /\ ppc' = [at |-> "post", size |-> 0]
      /\ UNCHANGED <<sem, thrd_stop, called_stop, flush, closing, lpc, snap>>
  BY BeforeAdv DEF IInv
<1>2. /\ err' = TRUE /\ lapped' = lapped /\ pos_next < dirty.ptr
      /\ \E extra \in {0, Mark} :
           /\ extra = Mark /\ Mark # 0 => pos_next + ppc.size + extra <= dirty.ptr
           /\ pos_next' = pos_next + ppc.size + extra
           /\ dirty' = [dirty EXCEPT !.onTop = @ + ppc.size + extra]
  <2> DEFINE extra == IF dirty.ptr - (pos_next + ppc.size) >= Mark THEN Mark ELSE 0
  <2>1. extra \in {0, Mark} OBVIOUS
  <2>2. extra = Mark /\ Mark # 0 => pos_next + ppc.size + extra <= dirty.ptr
    BY <1>1, Sizes DEF Typed
  <2>3. /\ err' = TRUE /\ lapped' = lapped /\ pos_next < dirty.ptr
        /\ pos_next' = pos_next + ppc.size + extra
        /\ dirty' = [dirty EXCEPT !.onTop = @ + ppc.size + extra]
    BY DEF Overflow
  <2> QED BY <2>1, <2>2, <2>3
<1>3. PICK extra \in {0, Mark} :
           /\ extra = Mark /\ Mark # 0 => pos_next + ppc.size + extra <= dirty.ptr
           /\ pos_next' = pos_next + ppc.size + extra
           /\ dirty' = [dirty EXCEPT !.onTop = @ + ppc.size + extra]
  BY <1>2
<1>4. pos_next \in Nat /\ dirty \in [ptr : Nat, bytes : Nat, onTop : Nat]
      /\ ppc.size \in Nat /\ extra \in Nat
  BY <1>1, <1>3, Sizes DEF Typed
<1>5. /\ dirty'.ptr = dirty.ptr /\ dirty'.bytes = dirty.bytes
      /\ dirty'.onTop = dirty.onTop + ppc.size + extra
      /\ dirty' \in [ptr : Nat, bytes : Nat, onTop : Nat]
      /\ pos_next' \in Nat
  BY <1>3, <1>4
<1>6. Typed' BY <1>1, <1>2, <1>5 DEF Typed, Places
<1>7. Taken' BY <1>1, <1>5 DEF Taken, Looked
<1>8. ~Sound' BY <1>1, <1>2 DEF Sound
<1>9. Ending' BY <1>1, <1>2 DEF Ending
<1>10. ASSUME ~lapped' PROVE Bounded'
  <2>1. Bounded /\ Geometry /\ dirty.onTop = pos_next /\ dirty.ptr < mc_pbuf_top_padng
    BY <1>1, <1>2, <1>10 DEF Geometry
  <2>2. pos_next + ppc.size < bytes_buf
    BY <1>1, <1>4, <2>1, Sizes DEF Fits, Geometry
  <2>3. pos_next' < bytes_buf /\ dirty'.onTop = pos_next'
    BY <1>3, <1>4, <1>5, <2>1, <2>2, Sizes
  <2> QED BY <1>1, <1>5, <2>1, <2>3 DEF Bounded
<1> QED BY <1>1, <1>2, <1>6, <1>7, <1>8, <1>9, <1>10 DEF IInv

\* What the log thread sees is what there is.
LEMMA LookKeeps ==
    ASSUME IInv, Look
    PROVE  IInv'
<1> USE DEF IInv, Look
<1>1. Typed' BY DEF Typed, LPlaces
<1>2. Taken' BY DEF Typed, Taken, Looked
<1>3. (~lapped => Bounded)' BY DEF Bounded
<1>4. (Sound => Geometry)' BY DEF Sound, Geometry
<1>5. (Sound /\ Looked => Seen)' BY DEF Typed, Sound, Geometry, Looked, Seen
<1>6. (At("copied") => Fits)' BY DEF Fits, KeepsUp
<1>7. (~Overruns => ~lapped)' OBVIOUS
<1>8. Ending' BY DEF Ending
<1> QED BY <1>1, <1>2, <1>3, <1>4, <1>5, <1>6, <1>7, <1>8

\* dirty moves past what was written, or to the top of the buffer.
LEMMA WrittenKeeps ==
    ASSUME IInv, Written
    PROVE  IInv'
<1> USE DEF IInv, Written
<1>1. /\ Typed /\ (~lapped => Bounded) /\ Ending /\ Looked /\ (Sound => Geometry /\ Seen)
      /\ snap.ptr = dirty.ptr /\ snap.bytes <= dirty.bytes
      /\ UNCHANGED <<pos_next, sem, err, thrd_stop, called_stop, flush, closing, ppc, snap,
                     lapped>>
      /\ lpc' = "after"
  BY DEF Taken, Looked
<1>2. /\ pos_next \in Nat /\ dirty \in [ptr : Nat, bytes : Nat, onTop : Nat]
      /\ snap \in [ptr : Nat, bytes : Nat, pos : Nat]
  BY <1>1 DEF Typed
<1>3. dirty' = IF snap.ptr < snap.pos
               THEN [ptr |-> dirty.ptr + snap.bytes, bytes |-> dirty.bytes - snap.bytes,
                     onTop |-> dirty.onTop]
               ELSE [ptr |-> 0, bytes |-> dirty.onTop, onTop |-> 0]
  <2>1. CASE snap.ptr < snap.pos
    <3>1. dirty' = [dirty EXCEPT !.ptr = @ + snap.bytes, !.bytes = @ - snap.bytes]
      BY <2>1
    <3>2. dirty = [ptr |-> dirty.ptr, bytes |-> dirty.bytes, onTop |-> dirty.onTop]
      BY <1>2
    <3>3. dirty' = [ptr |-> dirty.ptr + snap.bytes, bytes |-> dirty.bytes - snap.bytes,
                    onTop |-> dirty.onTop]
      BY ONLY <3>1, <3>2
    <3> QED BY <2>1, <3>3
  <2>2. CASE ~(snap.ptr < snap.pos) BY <1>2, <2>2
  <2> QED BY <2>1, <2>2
<1>4. dirty' \in [ptr : Nat, bytes : Nat, onTop : Nat] BY <1>1, <1>2, <1>3
<1>5. Typed' BY <1>1, <1>4 DEF Typed, LPlaces
<1>6. (~lapped => Bounded)' BY <1>1, <1>2, <1>3, Sizes DEF Bounded
<1>7. (Sound => Geometry)'
  BY <1>1, <1>2, <1>3, Sizes DEF Sound, Geometry, Seen
<1>8. ~Looked' BY <1>1 DEF Looked
<1>9. (At("copied") => Fits)'
  BY <1>1, <1>2, <1>3, Sizes DEF Sound, Geometry, Seen, Fits, KeepsUp
<1>10. (~Overruns => ~lapped)' BY <1>1
<1>11. Ending' BY <1>1 DEF Ending
<1> QED BY <1>5, <1>6, <1>7, <1>8, <1>9, <1>10, <1>11 DEF Taken

\* Every step keeps the invariant.
LEMMA NextKeeps == IInv /\ [Next]_vars => IInv'
<1> SUFFICES ASSUME IInv, [Next]_vars PROVE IInv' OBVIOUS
<1>1. CASE \E n \in Size : Copy(n) BY <1>1, CopyKeeps
<1>2. CASE Post \/ Flush \/ Signal_ThrdStop \/ Destroy \/ Called \/ Join
  BY <1>2, WriterKeeps
<1>3. CASE Adv_TA_pos_next_onLocked
  BY <1>3, AdvanceKeeps, AdvanceOnTopKeeps, OverflowKeeps DEF Adv_TA_pos_next_onLocked
<1>4. CASE Look BY <1>4, LookKeeps
<1>5. CASE Written BY <1>5, WrittenKeeps
<1>6. CASE Wake \/ Nothing \/ Decide \/ ResetFlush \/ WriteToDisk
             \/ WriteFails \/ After \/ CloseLog
  BY <1>6, LogThreadKeeps
<1>7. CASE UNCHANGED vars
  BY <1>7 DEF vars, IInv, Typed, Taken, Bounded, Sound, Geometry, Looked, Seen, Fits,
          KeepsUp, Ending
<1> QED BY <1>1, <1>2, <1>3, <1>4, <1>5, <1>6, <1>7 DEF Next, Continues, LogThread

\* The invariant holds in every state.
LEMMA Invariant == Spec => []IInv
<1>1. Init => IInv BY InitKeeps
<1>2. IInv /\ [Next]_vars => IInv' BY NextKeeps
<1> QED BY <1>1, <1>2, PTL DEF Spec

-----------------------------------------------------------------------------
(* The properties *)

\* Every variable of the log keeps its type for every size of the buffer, the
\* records and the files: also in a buffer that has overflowed no counter of
\* bytes goes below zero, and the semaphore is not taken when it is 0.
THEOREM LogTyping == Spec => []TypeOK
<1>1. IInv => TypeOK
  BY DEF IInv, Typed, TypeOK, Places, LPlaces
<1> QED BY <1>1, Invariant, PTL

\* For every size of the buffer and the records, until the buffer wraps onto
\* its own dirty bytes: no record is copied past its end, and no byte past its
\* end is written to the file, whether or not the log thread keeps up.
THEOREM CopiesStayInBuffer == Spec => []InBuffer
<1>1. ASSUME IInv PROVE InBuffer
  <2> SUFFICES ASSUME ~lapped PROVE InBuffer!2 BY DEF InBuffer
  <2>1. Typed /\ Bounded /\ (Sound => Geometry) BY <1>1 DEF IInv
  <2>2. /\ pos_next \in Nat /\ dirty.ptr \in Nat /\ dirty.bytes \in Nat
        /\ dirty.onTop \in Nat
    BY <2>1 DEF Typed
  <2>3. At("idle") /\ ~err => pos_next < mc_pbuf_top_padng BY <2>1 DEF Sound, Geometry
  <2> QED BY <2>1, <2>2, <2>3, Sizes DEF Bounded
<1> QED BY <1>1, Invariant, PTL

\* When the caller of pthread_join is released a closing record has been
\* chosen, unless an error forbids it.
THEOREM ClosedWhenJoined == Spec => []ClosedBeforeJoin
<1>1. IInv => ClosedBeforeJoin BY DEF IInv, Ending, ClosedBeforeJoin
<1> QED BY <1>1, Invariant, PTL

\* The buffer does not overflow as long as the log thread keeps up.
LEMMA NoOverflow ==
    ASSUME IInv, ~Overruns, Adv_TA_pos_next_onLocked
    PROVE  ~Overflow
<1>1. Fits /\ Typed BY BeforeAdv DEF IInv
<1> QED BY <1>1, Sizes DEF Typed, Fits, KeepsUp, Overflow

\* The bytes i of the next write are those in the buffer from snap.ptr on.
LEMMA SameOut ==
    ASSUME snap' = snap, DOMAIN buf' = DOMAIN buf,
           snap.ptr \in Nat, snap.bytes \in Nat,
           \A o \in snap.ptr .. snap.ptr + snap.bytes - 1 :
               o \in DOMAIN buf => buf'[o] = buf[o]
    PROVE  Out' = Out
<1>1. \A i \in 1 .. snap.bytes :
          snap.ptr + i - 1 \in snap.ptr .. snap.ptr + snap.bytes - 1
  OBVIOUS
<1> QED BY <1>1 DEF Out

\* The record copied lies outside of what the log thread has looked at.
LEMMA CopyClear ==
    ASSUME IInv, ~Overruns, NEW n \in Size, Copy(n), Looked
    PROVE  Out' = Out
<1> DEFINE r == Record(Len(written) + 1, n)
<1>1. /\ Typed /\ Taken /\ Geometry /\ Seen
      /\ buf' = Put(r) /\ snap' = snap /\ KeepsUp(n) /\ n \in Nat
  BY Sizes DEF IInv, Sound, Copy
<1>2. Len(r) = n BY <1>1 DEF Record
<1>3. /\ pos_next \in Nat /\ dirty \in [ptr : Nat, bytes : Nat, onTop : Nat]
      /\ snap \in [ptr : Nat, bytes : Nat, pos : Nat]
  BY <1>1 DEF Typed
<1>4. snap.ptr = dirty.ptr BY <1>1 DEF Taken
<1>5. snap.ptr + snap.bytes <= pos_next \/ pos_next + n <= snap.ptr
  BY <1>1, <1>3, <1>4, Sizes DEF Geometry, Seen, KeepsUp
<1> HIDE DEF r
<1>6. /\ DOMAIN buf' = DOMAIN buf
      /\ \A o \in DOMAIN buf : o \notin pos_next .. pos_next + n - 1 => buf'[o] = buf[o]
  BY <1>1, <1>2 DEF Put
<1>7. \A o \in snap.ptr .. snap.ptr + snap.bytes - 1 :
          o \notin pos_next .. pos_next + n - 1
  BY <1>1, <1>3, <1>5
<1> QED BY <1>1, <1>3, <1>6, <1>7, SameOut

\* As long as the log thread keeps up, what it has decided to write, and writes
\* without the lock, is not touched by the other thread.
THEOREM WritesUndisturbed ==
    ASSUME ~Overruns
    PROVE  Spec => WriteUndisturbed
<1>1. ASSUME IInv, [Next]_vars, Looked, Looked' PROVE Out' = Out
  <2>1. CASE \E n \in Size : Copy(n) BY <1>1, <2>1, CopyClear
  <2>2. CASE buf' = buf /\ snap' = snap BY <2>2 DEF Out
  <2>3. CASE Adv_TA_pos_next_onLocked
    <3>1. ~Overflow BY <1>1, <2>3, NoOverflow
    <3> QED BY <2>2, <2>3, <3>1 DEF Adv_TA_pos_next_onLocked, Advance, AdvanceOnTop
  <2>4. CASE Look BY <1>1, <2>4 DEF Look, Looked
  <2>5. CASE \/ Post \/ Flush \/ Signal_ThrdStop \/ Destroy \/ Called \/ Join
             \/ Wake \/ Nothing \/ Decide \/ ResetFlush \/ WriteToDisk
             \/ WriteFails \/ Written \/ After \/ CloseLog \/ UNCHANGED vars
    BY <2>2, <2>5 DEF Post, Flush, Signal_ThrdStop, Destroy, Stop, Called, Join, Wake,
        Nothing, Decide, ResetFlush, WriteToDisk, WriteFails, Written, After,
        CloseLog, vars
  <2> QED BY <1>1, <2>1, <2>3, <2>4, <2>5 DEF Next, Continues, LogThread
<1>2. IInv /\ [Next]_vars => [Looked /\ Looked' => Out' = Out]_vars BY <1>1
<1> QED BY <1>2, Invariant, PTL DEF Spec, WriteUndisturbed

-----------------------------------------------------------------------------
(* The bytes on their way to the files *)

Byte == Int \X Int

\* The bytes of the first n of the records with the sizes w.
Records(w, n) == [r \in 1..n |-> Record(r, w[r])]
BytesOf(w, n) == FlattenSeq(Records(w, n))

\* All the bytes that were accounted for.
Handed == BytesOf(written, Len(written))

\* The bytes that are on disk already and still dirty, and how many are on disk
\* and no longer dirty.
NowDirty == IF lpc = "advance" THEN snap.bytes ELSE 0
Start == Len(OnDisk) - NowDirty

\* After n bytes a record is complete.
WholeAt(n) == \E m \in 0 .. Len(written) : n = Len(BytesOf(written, m))

\* The n values of b from the place o on are those of the sequence q after the
\* first k.
Placed(b, o, n, q, k) == \A i \in 1..n : b[o + i - 1] = q[k + i]

StreamTyped ==
    /\ written \in Seq(Size)
    /\ files \in Seq(Seq(Byte)) /\ Len(files) # 0
    /\ buf \in [0 .. bytes_buf - 1 -> Byte]
    /\ At("copied") => ppc.size \in Size

\* What is on disk and what is dirty is what was handed over.
Accounted == Start \in Nat /\ Start + dirty.bytes + dirty.onTop = Len(Handed)

\* The dirty bytes of the buffer are those that come next.
InPlace ==
    /\ Placed(buf, dirty.ptr, dirty.bytes, Handed, Start)
    /\ Placed(buf, 0, dirty.onTop, Handed, Start + dirty.bytes)

\* A write ends with a whole record: so do the dirty bytes in front of a wrap.
Cuts == WholeAt(Start + dirty.bytes) /\ (Looked => WholeAt(Start + snap.bytes))

\* The record that is not accounted for yet is at pos_next.
Copied ==
    At("copied") =>
        Placed(buf, pos_next, ppc.size, Record(Len(written) + 1, ppc.size), 0)

\* The inductive invariant of a log thread that keeps up: the buffer does not
\* overflow, so that an error is one of the disk, and ends the thread.
SInv ==
    /\ IInv
    /\ StreamTyped
    /\ err => lpc = "ended"
    /\ ~err => Accounted /\ InPlace /\ Cuts /\ Copied

\* A record is a sequence of bytes.
LEMMA RecordIs ==
    ASSUME NEW r \in Nat, NEW n \in Nat
    PROVE  /\ Record(r, n) \in Seq(Byte) /\ Len(Record(r, n)) = n
           /\ \A i \in 1..n : Record(r, n)[i] = <<r, i>>
<1> DEFINE e == [i \in 1..n |-> <<r, i>>]
<1>1. e \in [1..n -> Byte] BY DEF Byte
<1>2. e \in Seq(Byte) /\ Len(e) = n BY <1>1, SeqDef
<1> QED BY <1>2 DEF Record

\* The bytes of the records there are do not change with a new one, which comes
\* after them.
LEMMA BytesGrow ==
    ASSUME NEW w \in Seq(Size), NEW s \in Size
    PROVE  /\ \A m \in 0 .. Len(w) :
                BytesOf(w, m) \in Seq(Byte) /\ BytesOf(Append(w, s), m) = BytesOf(w, m)
           /\ BytesOf(Append(w, s), Len(w) + 1) =
                BytesOf(w, Len(w)) \o Record(Len(w) + 1, s)
<1> DEFINE n == Len(w)
           v == Append(w, s)
<1>1. /\ n \in Nat /\ s \in Nat /\ \A i \in 1..n : w[i] \in Nat
      /\ v[n + 1] = s /\ \A i \in 1..n : v[i] = w[i]
  <2>1. \A i \in 1..n : w[i] \in Size BY ElementOfSeq
  <2>2. Size \subseteq Nat BY Sizes
  <2>3. n \in Nat BY LenProperties
  <2>4. v[n + 1] = s /\ \A i \in 1..n : v[i] = w[i] BY AppendProperties
  <2> HIDE DEF v, n
  <2> QED BY <2>1, <2>2, <2>3, <2>4
<1> HIDE DEF v
<1>2. ASSUME NEW m \in 0..n
      PROVE  Records(w, m) \in Seq(Seq(Byte)) /\ Len(Records(w, m)) = m
             /\ Records(v, m) = Records(w, m)
  <2>1. m \in Nat /\ \A r \in 1..m : r \in 1..n /\ r \in Nat BY <1>1
  <2>2. \A r \in 1..m : Record(r, w[r]) \in Seq(Byte) BY <2>1, <1>1, RecordIs
  <2>3. Records(w, m) \in [1..m -> Seq(Byte)] BY <2>2 DEF Records
  <2>4. Records(v, m) = Records(w, m) BY <2>1, <1>1 DEF Records
  <2> DEFINE e == Records(w, m)
  <2>5. e \in [1..m -> Seq(Byte)] /\ m \in Nat BY <2>1, <2>3
  <2> HIDE DEF e
  <2>6. e \in Seq(Seq(Byte)) /\ Len(e) = m BY ONLY <2>5, FunctionIsSeq
  <2> QED BY <2>4, <2>6 DEF e
<1>3. Record(n + 1, s) \in Seq(Byte) BY <1>1, RecordIs
<1>4. Records(v, n + 1) = Append(Records(w, n), Record(n + 1, s))
  <2> DEFINE a == Records(w, n)
             e == Record(n + 1, s)
             b == Records(v, n + 1)
  <2>1. a \in Seq(Seq(Byte)) /\ Len(a) = n
    <3>1. n \in 0..n BY <1>1
    <3> QED BY <3>1, <1>2
  <2>2. \A i \in 1..n : a[i] = Record(i, w[i]) BY DEF Records
  <2>3. /\ Append(a, e) \in Seq(Seq(Byte)) /\ Len(Append(a, e)) = n + 1
        /\ Append(a, e)[n + 1] = e
        /\ \A i \in 1..n : Append(a, e)[i] = a[i]
    BY <2>1, <1>3, AppendProperties
  <2>4. \A i \in 1..n + 1 : i # n + 1 => i \in 1..n BY <1>1
  <2>5. ASSUME NEW i \in 1..n + 1
        PROVE  b[i] \in Seq(Byte) /\ b[i] = Append(a, e)[i]
    <3>1. b[i] = Record(i, v[i]) BY DEF Records
    <3>2. CASE i = n + 1 BY <3>1, <3>2, <1>1, <1>3, <2>3
    <3>3. CASE i # n + 1
      <4>1. i \in 1..n BY <3>3, <2>4
      <4>2. b[i] = a[i] BY <4>1, <3>1, <1>1, <2>2
      <4>3. a[i] \in Seq(Byte) BY <4>1, <2>1, ElementOfSeq
      <4> QED BY <4>1, <4>2, <4>3, <2>3
    <3> QED BY <3>2, <3>3
  <2>6. b \in [1..n + 1 -> Seq(Byte)]
    <3>1. b = [i \in 1..n + 1 |-> b[i]] BY DEF Records
    <3> HIDE DEF b
    <3> QED BY <3>1, <2>5
  <2>7. b \in Seq(Seq(Byte)) /\ Len(b) = n + 1
    <3>1. n + 1 \in Nat BY <1>1
    <3> HIDE DEF b
    <3> QED BY ONLY <3>1, <2>6, FunctionIsSeq
  <2> DEFINE c == Append(a, e)
  <2>8. c \in Seq(Seq(Byte)) /\ Len(b) = Len(c) /\ \A i \in 1 .. Len(b) : b[i] = c[i]
    BY <2>3, <2>5, <2>7
  <2> HIDE DEF a, b, c, e
  <2>9. b = c BY ONLY <2>7, <2>8, SameSeq
  <2> QED BY <2>9 DEF a, b, c, e
<1>5. BytesOf(v, n + 1) = BytesOf(w, n) \o Record(n + 1, s)
  <2>1. Records(w, n) \in Seq(Seq(Byte))
    <3>1. n \in 0..n BY <1>1
    <3> QED BY <3>1, <1>2
  <2>2. FlattenSeq(Append(Records(w, n), Record(n + 1, s)))
          = FlattenSeq(Records(w, n)) \o Record(n + 1, s)
    BY <2>1, <1>3, FlattenAppend
  <2> QED BY <2>2, <1>4 DEF BytesOf
<1>6. \A m \in 0..n : BytesOf(w, m) \in Seq(Byte) /\ BytesOf(v, m) = BytesOf(w, m)
  BY <1>2, FlattenType DEF BytesOf
<1> QED BY <1>5, <1>6 DEF v

\* Values stay in their place while neither they nor the sequence change.
LEMMA PlacedStays ==
    ASSUME NEW b, NEW c, NEW o \in Nat, NEW n \in Nat, NEW q, NEW r, NEW k \in Nat,
           Placed(b, o, n, q, k),
           \A j \in o .. o + n - 1 : c[j] = b[j],
           \A j \in 1 .. k + n : r[j] = q[j]
    PROVE  Placed(c, o, n, r, k)
<1> SUFFICES ASSUME NEW i \in 1..n PROVE c[o + i - 1] = r[k + i] BY DEF Placed
<1>1. o + i - 1 \in o .. o + n - 1 /\ k + i \in 1 .. k + n OBVIOUS
<1> QED BY <1>1 DEF Placed

\* A sequence behind what is in place.
LEMMA PlacedMore ==
    ASSUME NEW b, NEW o \in Nat, NEW n \in Nat, NEW q, NEW k \in Nat,
           Placed(b, o, n, q, k),
           NEW m \in Nat, NEW r, Placed(b, o + n, m, r, 0),
           NEW p, \A j \in 1 .. k + n : p[j] = q[j],
           \A j \in 1..m : p[k + n + j] = r[j]
    PROVE  Placed(b, o, n + m, p, k)
<1> SUFFICES ASSUME NEW i \in 1..n + m PROVE b[o + i - 1] = p[k + i] BY DEF Placed
<1>1. CASE i <= n
  <2>1. i \in 1..n /\ k + i \in 1 .. k + n BY <1>1
  <2> QED BY <2>1 DEF Placed
<1>2. CASE i > n
  <2> DEFINE j == i - n
  <2>1. j \in 1..m /\ (o + n) + j - 1 = o + i - 1 /\ k + n + j = k + i BY <1>2
  <2>2. b[(o + n) + j - 1] = r[j]
    <3>1. 0 + j = j BY <2>1
    <3> HIDE DEF j
    <3> QED BY <2>1, <3>1 DEF Placed
  <2> HIDE DEF j
  <2> QED BY <2>1, <2>2
<1> QED BY <1>1, <1>2

\* The first ones are left out.
LEMMA PlacedRest ==
    ASSUME NEW b, NEW o \in Nat, NEW n \in Nat, NEW q, NEW k \in Nat,
           Placed(b, o, n, q, k), NEW m \in 0..n
    PROVE  Placed(b, o + m, n - m, q, k + m)
<1> SUFFICES ASSUME NEW i \in 1..n - m PROVE b[o + m + i - 1] = q[k + m + i]
  BY DEF Placed
<1> DEFINE j == m + i
<1>1. j \in 1..n /\ o + j - 1 = o + m + i - 1 /\ k + j = k + m + i OBVIOUS
<1> HIDE DEF j
<1> QED BY <1>1 DEF Placed

\* What a new record changes: nothing of the bytes handed over before.
LEMMA HandedGrows ==
    ASSUME StreamTyped, ppc.size \in Size, written' = Append(written, ppc.size)
    PROVE  /\ Handed \in Seq(Byte) /\ Handed' \in Seq(Byte) /\ written' \in Seq(Size)
           /\ Len(Handed') = Len(Handed) + ppc.size
           /\ \A j \in 1 .. Len(Handed) : Handed'[j] = Handed[j]
           /\ \A j \in 1 .. ppc.size :
                Handed'[Len(Handed) + j] = Record(Len(written) + 1, ppc.size)[j]
           /\ \A n : WholeAt(n) => WholeAt(n)'
           /\ WholeAt(Len(Handed))'
<1> DEFINE r == Record(Len(written) + 1, ppc.size)
<1>1. /\ written \in Seq(Size) /\ Len(written) \in Nat /\ ppc.size \in Nat
      /\ written' \in Seq(Size) /\ Len(written') = Len(written) + 1
  <2>1. written \in Seq(Size) /\ ppc.size \in Size BY DEF StreamTyped
  <2>2. Append(written, ppc.size) \in Seq(Size)
        /\ Len(Append(written, ppc.size)) = Len(written) + 1
    BY <2>1, AppendProperties
  <2>3. Len(written) \in Nat BY <2>1, LenProperties
  <2>4. ppc.size \in Nat
    <3>1. Size \subseteq Nat BY Sizes
    <3> QED BY <2>1, <3>1
  <2> QED BY <2>1, <2>2, <2>3, <2>4
<1>2. r \in Seq(Byte) /\ Len(r) = ppc.size
  <2>1. Len(written) + 1 \in Nat /\ ppc.size \in Nat BY <1>1
  <2> QED BY <2>1, RecordIs, Zenon
<1>3. /\ \A m \in 0 .. Len(written) :
           BytesOf(written, m) \in Seq(Byte) /\ BytesOf(written', m) = BytesOf(written, m)
      /\ BytesOf(written', Len(written) + 1) = BytesOf(written, Len(written)) \o r
  BY <1>1, BytesGrow
<1>4. Handed \in Seq(Byte)
  <2>1. Len(written) \in 0 .. Len(written) BY <1>1
  <2> QED BY <2>1, <1>3 DEF Handed
<1>5. Handed' = Handed \o r BY <1>1, <1>3 DEF Handed
<1> HIDE DEF r
<1>6. /\ Handed \o r \in Seq(Byte) /\ Len(Handed \o r) = Len(Handed) + Len(r)
      /\ \A j \in 1 .. Len(Handed) + Len(r) :
           (Handed \o r)[j] = IF j <= Len(Handed) THEN Handed[j] ELSE r[j - Len(Handed)]
  BY <1>2, <1>4, ConcatProperties
<1>7. Len(Handed) \in Nat BY <1>4, LenProperties
<1>8. \A j \in 1 .. Len(Handed) : Handed'[j] = Handed[j]
  <2>1. \A j \in 1 .. Len(Handed) : j \in 1 .. Len(Handed) + Len(r) /\ j <= Len(Handed)
    BY <1>1, <1>2, <1>7
  <2> QED BY <2>1, <1>5, <1>6
<1>9. ASSUME NEW j \in 1 .. ppc.size PROVE Handed'[Len(Handed) + j] = r[j]
  <2>1. /\ Len(Handed) + j \in 1 .. Len(Handed) + Len(r)
        /\ ~(Len(Handed) + j <= Len(Handed)) /\ (Len(Handed) + j) - Len(Handed) = j
    BY <1>1, <1>2, <1>7
  <2> QED BY <2>1, <1>5, <1>6
<1>10. ASSUME NEW n, WholeAt(n) PROVE WholeAt(n)'
  <2>1. PICK m \in 0 .. Len(written) : n = Len(BytesOf(written, m)) BY <1>10 DEF WholeAt
  <2>2. m \in 0 .. Len(written') /\ n = Len(BytesOf(written', m)) BY <2>1, <1>1, <1>3
  <2> QED BY <2>2 DEF WholeAt
<1>11. WholeAt(Len(Handed))'
  <2>1. Len(written') \in 0 .. Len(written') BY <1>1
  <2> QED BY <2>1 DEF WholeAt, Handed
<1> QED BY <1>1, <1>2, <1>4, <1>5, <1>6, <1>8, <1>9, <1>10, <1>11 DEF r

\* The dirty bytes grow by the record, at the place it was copied to.
LEMMA AdvCounts ==
    ASSUME IInv, ~Overruns, Adv_TA_pos_next_onLocked
    PROVE  /\ UNCHANGED <<buf, err>> /\ dirty'.ptr = dirty.ptr
           /\ \/ /\ dirty.ptr + dirty.bytes = pos_next /\ dirty.onTop = 0
                 /\ dirty'.bytes = dirty.bytes + ppc.size /\ dirty'.onTop = 0
              \/ /\ dirty.onTop = pos_next
                 /\ dirty'.bytes = dirty.bytes
                 /\ dirty'.onTop = dirty.onTop + ppc.size
<1>1. /\ Typed /\ Geometry /\ ~Overflow
  BY BeforeAdv, NoOverflow DEF IInv
<1>2. pos_next \in Nat /\ dirty \in [ptr : Nat, bytes : Nat, onTop : Nat] /\ ppc.size \in Nat
  BY <1>1 DEF Typed
<1>3. CASE Advance
  <2>1. UNCHANGED <<buf, err>> /\ dirty.ptr <= pos_next BY <1>3 DEF Advance
  <2>2. dirty.ptr + dirty.bytes = pos_next /\ dirty.onTop = 0 BY <1>1, <2>1 DEF Geometry
  <2>3. \/ dirty' = [dirty EXCEPT !.bytes = @ + ppc.size, !.onTop = 0]
        \/ dirty' = [dirty EXCEPT !.bytes = @ + ppc.size]
    BY <1>3, Zenon DEF Advance
  <2>4. /\ dirty'.ptr = dirty.ptr /\ dirty'.bytes = dirty.bytes + ppc.size
        /\ dirty'.onTop = 0
    BY <1>2, <2>2, <2>3
  <2> QED BY <2>1, <2>2, <2>4
<1>4. CASE AdvanceOnTop
  <2>1. UNCHANGED <<buf, err>> /\ pos_next < dirty.ptr BY <1>4 DEF AdvanceOnTop
  <2>2. dirty.onTop = pos_next BY <1>1, <2>1 DEF Geometry
  <2>3. dirty' = [dirty EXCEPT !.onTop = @ + ppc.size] BY <1>4 DEF AdvanceOnTop
  <2>4. /\ dirty'.ptr = dirty.ptr /\ dirty'.bytes = dirty.bytes
        /\ dirty'.onTop = dirty.onTop + ppc.size
    BY <1>2, <2>3
  <2> QED BY <2>1, <2>2, <2>4
<1> QED BY <1>1, <1>3, <1>4 DEF Adv_TA_pos_next_onLocked

\* The record that was copied is handed over, and in its place.
LEMMA AdvStreams ==
    ASSUME SInv, ~Overruns, Adv_TA_pos_next_onLocked
    PROVE  SInv' /\ Stream!Write
<1>1. /\ IInv /\ IInv' /\ StreamTyped /\ At("copied") /\ ppc.size \in Size
      /\ written' = Append(written, ppc.size) /\ ppc' = [at |-> "post", size |-> 0]
      /\ UNCHANGED <<files, lpc, snap>>
  BY AdvanceKeeps, AdvanceOnTopKeeps, OverflowKeeps
     DEF SInv, StreamTyped, Adv_TA_pos_next_onLocked
<1>2. /\ UNCHANGED <<buf, err>> /\ dirty'.ptr = dirty.ptr
      /\ \/ /\ dirty.ptr + dirty.bytes = pos_next /\ dirty.onTop = 0
            /\ dirty'.bytes = dirty.bytes + ppc.size /\ dirty'.onTop = 0
         \/ /\ dirty.onTop = pos_next
            /\ dirty'.bytes = dirty.bytes
            /\ dirty'.onTop = dirty.onTop + ppc.size
  BY <1>1, AdvCounts
<1>3. Stream!Write BY <1>1, <1>2 DEF Stream!Write
<1>4. /\ Handed \in Seq(Byte) /\ Handed' \in Seq(Byte) /\ written' \in Seq(Size)
      /\ Len(Handed') = Len(Handed) + ppc.size
      /\ \A j \in 1 .. Len(Handed) : Handed'[j] = Handed[j]
      /\ \A j \in 1 .. ppc.size :
           Handed'[Len(Handed) + j] = Record(Len(written) + 1, ppc.size)[j]
      /\ \A n : WholeAt(n) => WholeAt(n)'
      /\ WholeAt(Len(Handed))'
  BY <1>1, HandedGrows
<1>5. StreamTyped' BY <1>1, <1>2, <1>4 DEF StreamTyped
<1>6. (err => lpc = "ended")' BY <1>1, <1>2 DEF SInv
<1>7. ASSUME ~err' PROVE (Accounted /\ InPlace /\ Cuts /\ Copied)'
  <2>1. /\ Accounted /\ InPlace /\ Cuts
        /\ Placed(buf, pos_next, ppc.size, Record(Len(written) + 1, ppc.size), 0)
    BY <1>1, <1>2, <1>7 DEF SInv, Copied
  <2>2. /\ pos_next \in Nat /\ ppc.size \in Nat /\ snap.bytes \in Nat
        /\ dirty.ptr \in Nat /\ dirty.bytes \in Nat /\ dirty.onTop \in Nat
        /\ Len(Handed) \in Nat /\ Start \in Nat
        /\ Start + dirty.bytes + dirty.onTop = Len(Handed)
    BY <1>1, <1>4, <2>1, LenProperties DEF IInv, Typed, Accounted
  <2>3. Start' = Start BY <1>1 DEF Start, NowDirty, OnDisk
  <2>4. Accounted'
    <3>1. Len(Handed') = Len(Handed) + ppc.size BY <1>4
    <3>2. Start' + dirty'.bytes + dirty'.onTop = Len(Handed) + ppc.size
      <4>1. CASE dirty.onTop = 0 /\ dirty'.bytes = dirty.bytes + ppc.size /\ dirty'.onTop = 0
        BY <4>1, <2>2, <2>3
      <4>2. CASE dirty'.bytes = dirty.bytes /\ dirty'.onTop = dirty.onTop + ppc.size
        BY <4>2, <2>2, <2>3
      <4> QED BY <4>1, <4>2, <1>2
    <3> QED BY <3>1, <3>2, <2>2, <2>3 DEF Accounted
  <2>5. Cuts'
    <3>1. WholeAt(Start + dirty.bytes)'
      <4>1. CASE dirty'.bytes = dirty.bytes BY <4>1, <1>4, <2>1, <2>3 DEF Cuts
      <4>2. CASE dirty.onTop = 0 /\ dirty'.bytes = dirty.bytes + ppc.size
        <5>1. Start' + dirty'.bytes = Len(Handed') BY <4>2, <1>4, <2>2, <2>3
        <5> QED BY <5>1, <1>4
      <4> QED BY <4>1, <4>2, <1>2
    <3>2. (Looked => WholeAt(Start + snap.bytes))'
      BY <1>1, <1>4, <2>1, <2>3 DEF Cuts, Looked
    <3> QED BY <3>1, <3>2 DEF Cuts
  <2>6. InPlace'
    <3>1. Placed(buf, dirty.ptr, dirty.bytes, Handed', Start)
      <4>1. \A j \in 1 .. Start + dirty.bytes : Handed'[j] = Handed[j] BY <1>4, <2>2
      <4> QED BY <4>1, <2>1, <2>2, PlacedStays DEF InPlace
    <3>2. Placed(buf, 0, dirty.onTop, Handed', Start + dirty.bytes)
      <4>1. \A j \in 1 .. (Start + dirty.bytes) + dirty.onTop : Handed'[j] = Handed[j]
        BY <1>4, <2>2
      <4>2. Start + dirty.bytes \in Nat /\ 0 \in Nat BY <2>2
      <4> QED BY <4>1, <4>2, <2>1, <2>2, PlacedStays DEF InPlace
    <3>3. CASE dirty.ptr + dirty.bytes = pos_next /\ dirty.onTop = 0
               /\ dirty'.bytes = dirty.bytes + ppc.size /\ dirty'.onTop = 0
      <4>1. \A j \in 1 .. ppc.size :
              Handed'[Start + dirty.bytes + j] = Record(Len(written) + 1, ppc.size)[j]
        <5>1. Start + dirty.bytes = Len(Handed) BY <3>3, <2>2
        <5> QED BY <5>1, <1>4
      <4>2. Placed(buf, dirty.ptr, dirty.bytes + ppc.size, Handed', Start)
        BY <3>1, <3>3, <4>1, <2>1, <2>2, PlacedMore
      <4>3. Placed(buf', 0, dirty'.onTop, Handed', Start' + dirty'.bytes)
        BY <3>3 DEF Placed
      <4> QED BY <4>2, <4>3, <3>3, <1>2, <2>3 DEF InPlace
    <3>4. CASE dirty.onTop = pos_next /\ dirty'.bytes = dirty.bytes
               /\ dirty'.onTop = dirty.onTop + ppc.size
      <4>1. \A j \in 1 .. ppc.size :
              Handed'[(Start + dirty.bytes) + dirty.onTop + j]
                = Record(Len(written) + 1, ppc.size)[j]
        BY <1>4, <2>2
      <4>2. Start + dirty.bytes \in Nat /\ 0 \in Nat /\ 0 + dirty.onTop = pos_next
        BY <3>4, <2>2
      <4>3. Placed(buf, 0, dirty.onTop + ppc.size, Handed', Start + dirty.bytes)
        BY <3>2, <4>1, <4>2, <2>1, <2>2, PlacedMore
      <4> QED BY <3>1, <3>4, <4>3, <1>2, <2>3 DEF InPlace
    <3> QED BY <3>3, <3>4, <1>2
  <2>7. Copied' BY <1>1 DEF Copied
  <2> QED BY <2>4, <2>5, <2>6, <2>7
<1> QED BY <1>1, <1>3, <1>5, <1>6, <1>7 DEF SInv

\* A record is copied to where no dirty byte is.
LEMMA CopyStreams ==
    ASSUME SInv, ~Overruns, NEW n \in Size, Copy(n)
    PROVE  SInv' /\ UNCHANGED <<written, files, err>>
<1> DEFINE r == Record(Len(written) + 1, n)
<1>1. /\ IInv' /\ IInv /\ StreamTyped /\ ~err /\ Accounted /\ InPlace /\ Cuts
      /\ Typed /\ Bounded /\ Geometry /\ KeepsUp(n) /\ buf' = Put(r)
      /\ UNCHANGED <<written, files, err, lpc, snap, dirty, pos_next>>
      /\ ppc'.size = n
  BY CopyKeeps DEF SInv, IInv, Sound, Copy
<1>2. Len(written) \in Nat /\ n \in Nat /\ n <= Header + mc_max_bytes_wrt
  BY <1>1, LenProperties, Sizes DEF StreamTyped
<1>3. r \in Seq(Byte) /\ Len(r) = n
  <2>1. Len(written) + 1 \in Nat BY <1>2
  <2> QED BY <1>2, <2>1, RecordIs, Zenon
<1>4. \A i \in 1..n : r[i] \in Byte BY <1>3, ElementOfSeq
<1> HIDE DEF r
<1>5. /\ pos_next \in Nat /\ pos_next < mc_pbuf_top_padng
      /\ dirty.ptr \in Nat /\ dirty.bytes \in Nat /\ dirty.onTop \in Nat
      /\ dirty.ptr + dirty.bytes < bytes_buf /\ dirty.onTop < bytes_buf
      /\ dirty.ptr <= pos_next =>
           dirty.ptr + dirty.bytes = pos_next /\ dirty.onTop = 0
      /\ pos_next < dirty.ptr => dirty.onTop = pos_next
      /\ Start \in Nat
  BY <1>1 DEF Typed, Bounded, Geometry, Accounted
<1>6. /\ buf' = [o \in 0 .. bytes_buf - 1 |->
                   IF o \in pos_next .. pos_next + n - 1
                   THEN r[o - pos_next + 1] ELSE buf[o]]
      /\ \A o \in 0 .. bytes_buf - 1 : buf[o] \in Byte
  BY <1>1, <1>3 DEF Put, StreamTyped
<1>7. buf' \in [0 .. bytes_buf - 1 -> Byte]
  <2>1. ASSUME NEW o \in pos_next .. pos_next + n - 1 PROVE r[o - pos_next + 1] \in Byte
    <3>1. o - pos_next + 1 \in 1..n BY <1>2, <1>5
    <3> QED BY <3>1, <1>4
  <2> QED BY <2>1, <1>6
<1>8. StreamTyped' BY <1>1, <1>7 DEF StreamTyped
<1>9. Handed' = Handed /\ Start' = Start BY <1>1 DEF Handed, Start, NowDirty, OnDisk
<1>10. Accounted' BY <1>1, <1>9 DEF Accounted
<1>11. Cuts' BY <1>1, <1>9 DEF Cuts, WholeAt, Looked
<1>12. ASSUME NEW o \in 0 .. bytes_buf - 1, o \notin pos_next .. pos_next + n - 1
       PROVE  buf'[o] = buf[o]
  BY <1>6, <1>12
<1>13. InPlace'
  <2>1. \A o \in dirty.ptr .. dirty.ptr + dirty.bytes - 1 : buf'[o] = buf[o]
    <3> SUFFICES ASSUME NEW o \in dirty.ptr .. dirty.ptr + dirty.bytes - 1
                 PROVE  buf'[o] = buf[o]
      OBVIOUS
    <3>1. o \in 0 .. bytes_buf - 1 BY <1>5, Sizes
    <3>2. o \notin pos_next .. pos_next + n - 1 BY <1>1, <1>2, <1>5, Sizes DEF KeepsUp
    <3> QED BY <3>1, <3>2, <1>12
  <2>2. \A o \in 0 .. 0 + dirty.onTop - 1 : buf'[o] = buf[o]
    <3> SUFFICES ASSUME NEW o \in 0 .. 0 + dirty.onTop - 1 PROVE buf'[o] = buf[o]
      OBVIOUS
    <3>1. o \in 0 .. bytes_buf - 1 BY <1>5, Sizes
    <3>2. o \notin pos_next .. pos_next + n - 1 BY <1>2, <1>5
    <3> QED BY <3>1, <3>2, <1>12
  <2>3. Placed(buf', dirty.ptr, dirty.bytes, Handed, Start)
    BY <1>1, <1>5, <2>1, PlacedStays DEF InPlace
  <2>4. Start + dirty.bytes \in Nat /\ 0 \in Nat BY <1>5
  <2>5. Placed(buf', 0, dirty.onTop, Handed, Start + dirty.bytes)
    BY <1>1, <1>5, <2>2, <2>4, PlacedStays DEF InPlace
  <2> QED BY <1>1, <1>9, <2>3, <2>5 DEF InPlace
<1>14. Copied'
  <2>1. ASSUME NEW i \in 1..n PROVE buf'[pos_next + i - 1] = r[0 + i]
    <3> DEFINE o == pos_next + i - 1
    <3>1. /\ o \in 0 .. bytes_buf - 1 /\ o \in pos_next .. pos_next + n - 1
          /\ o - pos_next + 1 = 0 + i
      BY <1>2, <1>5, Sizes
    <3> HIDE DEF o
    <3>2. buf'[o] = r[0 + i] BY <3>1, <1>6
    <3> QED BY <3>2 DEF o
  <2>2. Placed(buf', pos_next, n, r, 0) BY <2>1 DEF Placed
  <2>3. ppc'.size = n BY <1>1
  <2> QED BY <2>2, <2>3, <1>1 DEF Copied, r
<1> QED BY <1>1, <1>8, <1>10, <1>11, <1>13, <1>14 DEF SInv

\* A step that moves no byte, and starts no copy and no write.
LEMMA StreamKeeps ==
    ASSUME SInv, IInv', UNCHANGED <<buf, pos_next, dirty, snap, files, written, err>>,
           err => lpc' = "ended", lpc' = "advance" <=> lpc = "advance",
           Looked' => Looked, At("copied")' => At("copied") /\ ppc' = ppc
    PROVE  SInv'
<1>1. StreamTyped' BY DEF SInv, StreamTyped
<1>2. Handed' = Handed /\ Start' = Start BY DEF Handed, Start, NowDirty, OnDisk
<1>3. ASSUME ~err' PROVE (Accounted /\ InPlace /\ Cuts /\ Copied)'
  <2>1. Accounted /\ InPlace /\ Cuts /\ Copied BY <1>3 DEF SInv
  <2>2. Accounted' BY <2>1, <1>2 DEF Accounted
  <2>3. InPlace' BY <2>1, <1>2 DEF InPlace
  <2>4. Cuts' BY <2>1, <1>2 DEF Cuts, WholeAt
  <2>5. Copied' BY <2>1 DEF Copied
  <2> QED BY <2>2, <2>3, <2>4, <2>5
<1> QED BY <1>1, <1>3 DEF SInv

\* What is dirty when the log thread looks ends with a whole record.
LEMMA LookStreams ==
    ASSUME SInv, Look
    PROVE  SInv' /\ UNCHANGED <<written, files, err>>
<1>1. /\ IInv' /\ ~err /\ StreamTyped /\ Accounted /\ InPlace /\ Cuts /\ Copied
      /\ UNCHANGED <<buf, pos_next, dirty, files, written, err, ppc>>
      /\ lpc = "lock" /\ lpc' # "advance" /\ snap'.bytes = dirty.bytes
  BY LookKeeps DEF SInv, Look
<1>2. StreamTyped' BY <1>1 DEF StreamTyped
<1>3. Handed' = Handed /\ Start' = Start BY <1>1 DEF Handed, Start, NowDirty, OnDisk
<1>4. Accounted' BY <1>1, <1>3 DEF Accounted
<1>5. InPlace' BY <1>1, <1>3 DEF InPlace
<1>6. Cuts' BY <1>1, <1>3 DEF Cuts, WholeAt
<1>7. Copied' BY <1>1 DEF Copied
<1> QED BY <1>1, <1>2, <1>4, <1>5, <1>6, <1>7 DEF SInv

\* The bytes written are no longer dirty.
LEMMA WrittenStreams ==
    ASSUME SInv, ~Overruns, Written
    PROVE  SInv' /\ UNCHANGED <<written, files, err>>
<1>1. /\ IInv /\ IInv' /\ ~err /\ StreamTyped /\ Accounted /\ InPlace /\ Cuts /\ Copied
      /\ UNCHANGED <<buf, pos_next, snap, files, written, err, ppc>>
      /\ lpc = "advance" /\ lpc' = "after" /\ Looked /\ ~Looked'
      /\ dirty' = IF snap.ptr < snap.pos
                  THEN [dirty EXCEPT !.ptr = @ + snap.bytes, !.bytes = @ - snap.bytes]
                  ELSE [ptr |-> 0, bytes |-> dirty.onTop, onTop |-> 0]
  BY WrittenKeeps DEF SInv, Written, Looked
<1>2. /\ dirty \in [ptr : Nat, bytes : Nat, onTop : Nat] /\ snap.bytes \in Nat
      /\ snap.bytes <= dirty.bytes /\ Seen
      /\ snap.ptr \in Nat /\ snap.pos \in Nat
  BY <1>1 DEF IInv, Typed, Taken, Sound
<1>3. /\ Start \in Nat /\ Start + dirty.bytes + dirty.onTop = Len(Handed)
      /\ Handed' = Handed /\ Start' = Start + snap.bytes
  <2>1. Len(OnDisk) \in Nat
    <3>1. OnDisk \in Seq(Byte) BY <1>1, FlattenType DEF OnDisk, StreamTyped
    <3> QED BY <3>1, LenProperties
  <2>2. OnDisk' = OnDisk /\ Handed' = Handed BY <1>1 DEF OnDisk, Handed
  <2>3. Start = Len(OnDisk) - snap.bytes BY <1>1 DEF Start, NowDirty
  <2>4. Start' = Len(OnDisk) - 0 BY <1>1, <2>2 DEF Start, NowDirty
  <2>5. Start' = Start + snap.bytes BY <1>2, <2>1, <2>3, <2>4
  <2> QED BY <1>1, <2>2, <2>5 DEF Accounted
<1>4. StreamTyped' BY <1>1 DEF StreamTyped
<1>5. Copied' BY <1>1 DEF Copied
<1>6. CASE snap.ptr < snap.pos
  <2>1. dirty' = [dirty EXCEPT !.ptr = @ + snap.bytes, !.bytes = @ - snap.bytes]
    BY <1>1, <1>6
  <2>2. /\ dirty'.ptr = dirty.ptr + snap.bytes /\ dirty'.bytes = dirty.bytes - snap.bytes
        /\ dirty'.onTop = dirty.onTop
        /\ dirty.ptr \in Nat /\ dirty.bytes \in Nat /\ dirty.onTop \in Nat
    BY <1>2, <2>1
  <2>3. Start' + dirty'.bytes = Start + dirty.bytes BY <1>2, <1>3, <2>2
  <2>4. Accounted' BY <1>2, <1>3, <2>2, <2>3 DEF Accounted
  <2>5. Cuts' BY <1>1, <2>3 DEF Cuts, WholeAt
  <2>6. InPlace'
    <3>1. Placed(buf, dirty.ptr + snap.bytes, dirty.bytes - snap.bytes, Handed,
                 Start + snap.bytes)
      <4>1. snap.bytes \in 0 .. dirty.bytes BY <1>2, <2>2
      <4> QED BY <1>1, <1>3, <2>2, <4>1, PlacedRest DEF InPlace
    <3> QED BY <3>1, <1>1, <1>3, <2>2, <2>3 DEF InPlace
  <2> QED BY <1>1, <1>4, <1>5, <2>4, <2>5, <2>6 DEF SInv
<1>7. CASE ~(snap.ptr < snap.pos)
  <2>1. dirty' = [ptr |-> 0, bytes |-> dirty.onTop, onTop |-> 0]
    BY <1>1, <1>7
  <2>2. /\ dirty'.ptr = 0 /\ dirty'.bytes = dirty.onTop /\ dirty'.onTop = 0
        /\ dirty.bytes \in Nat /\ dirty.onTop \in Nat
    BY <1>2, <2>1
  <2>3. dirty.bytes = snap.bytes BY <1>2, <1>7 DEF Seen
  <2>4. Start' + dirty'.bytes = Len(Handed) /\ Start' = Start + dirty.bytes
    BY <1>3, <2>2, <2>3
  <2>5. Accounted' BY <1>3, <2>2, <2>3, <2>4 DEF Accounted
  <2>6. Cuts'
    <3>1. Len(written) \in 0 .. Len(written)
      BY <1>1, LenProperties DEF StreamTyped
    <3>2. WholeAt(Len(Handed)) BY <3>1 DEF WholeAt, Handed
    <3> QED BY <3>2, <1>1, <2>4 DEF Cuts, WholeAt
  <2>7. InPlace'
    <3>1. Placed(buf, 0, 0, Handed, Len(Handed)) BY DEF Placed
    <3>2. Placed(buf, 0, dirty.onTop, Handed, Start + dirty.bytes) BY <1>1 DEF InPlace
    <3> QED BY <3>1, <3>2, <1>1, <1>3, <2>2, <2>4 DEF InPlace
  <2> QED BY <1>1, <1>4, <1>5, <2>5, <2>6, <2>7 DEF SInv
<1> QED BY <1>1, <1>6, <1>7

\* The abstract specification joins the same bytes.
LEMMA SameBytes ==
    /\ \A m : Stream!Bytes(m) = BytesOf(written, m)
    /\ Stream!FlattenSeq(files) = OnDisk
<1>1. \A s : Stream!FlattenSeq(s) = FlattenSeq(s) BY DEF Stream!FlattenSeq, FlattenSeq
<1>2. ASSUME NEW m PROVE Stream!Bytes(m) = FlattenSeq(Records(written, m))
  <2>1. Stream!Bytes(m) = Stream!FlattenSeq(Records(written, m))
    BY DEF Stream!Bytes, Records, Record
  <2> QED BY <2>1, <1>1
<1> QED BY <1>1, <1>2 DEF BytesOf, OnDisk

\* The first n bytes of a write are the next n of those handed over.
LEMMA WriteIs ==
    ASSUME SInv, ~Overruns, lpc = "write", NEW n \in 0 .. snap.bytes
    PROVE  /\ ~err /\ Extended(n) = Stream!Filled(Len(OnDisk) + n)
           /\ Extended(n) \in Seq(Seq(Byte)) /\ Len(Extended(n)) = Len(files)
           /\ FlattenSeq(Extended(n)) \in Seq(Byte)
           /\ Len(FlattenSeq(Extended(n))) = Len(OnDisk) + n
           /\ Len(OnDisk) + n \in Stream!Reachable
<1> DEFINE t == SubSeq(Out, 1, n)
           k == Len(OnDisk)
<1>1. /\ IInv /\ StreamTyped /\ ~err /\ Accounted /\ InPlace /\ Looked
  BY DEF SInv, Looked
<1>2. /\ snap.bytes \in Nat /\ snap.bytes <= dirty.bytes /\ snap.ptr = dirty.ptr
      /\ dirty.ptr \in Nat /\ dirty.bytes \in Nat /\ dirty.onTop \in Nat
      /\ dirty.ptr + dirty.bytes < bytes_buf /\ bytes_buf \in Nat
  BY <1>1, Sizes DEF IInv, Typed, Taken, Bounded
<1>3. OnDisk \in Seq(Byte) /\ k \in Nat
  <2>1. OnDisk \in Seq(Byte) BY <1>1, FlattenType DEF OnDisk, StreamTyped
  <2> QED BY <2>1, LenProperties
<1>4. Start = k BY <1>3 DEF Start, NowDirty
<1>5. k + dirty.bytes + dirty.onTop = Len(Handed) BY <1>1, <1>4 DEF Accounted
<1>6. ASSUME NEW i \in 1 .. n
      PROVE  Out[i] = Handed[k + i] /\ Handed[k + i] \in Byte
  <2>1. i \in 1 .. snap.bytes /\ i \in 1 .. dirty.bytes BY <1>2
  <2>2. snap.ptr + i - 1 \in 0 .. bytes_buf - 1 BY <1>2, <2>1
  <2>3. buf \in [0 .. bytes_buf - 1 -> Byte] BY <1>1 DEF StreamTyped
  <2>4. Out[i] = buf[snap.ptr + i - 1] BY <2>1, <2>2, <2>3 DEF Out
  <2>5. buf[dirty.ptr + i - 1] = Handed[k + i] BY <1>1, <1>4, <2>1 DEF InPlace, Placed
  <2>6. buf[snap.ptr + i - 1] \in Byte BY <2>2, <2>3
  <2> QED BY <1>2, <2>4, <2>5, <2>6
<1>7. n \in Nat BY <1>2
<1>8. /\ t \in Seq(Byte) /\ Len(t) = n
      /\ \A i \in 1..n : t[i] = Out[i]
  <2>1. \A i \in 1..n : Out[i] \in Byte BY <1>6
  <2>2. 1 \in Int /\ n \in Int BY <1>7
  <2>3. /\ t \in Seq(Byte) /\ Len(t) = IF 1 <= n THEN n - 1 + 1 ELSE 0
        /\ \A i \in 1 .. n - 1 + 1 : t[i] = Out[1 + i - 1]
    BY <2>1, <2>2, SubSeqProperties
  <2> HIDE DEF t
  <2>4. Len(t) = n BY <2>3, <1>7
  <2>5. ASSUME NEW i \in 1..n PROVE t[i] = Out[i]
    <3>1. i \in 1 .. n - 1 + 1 /\ 1 + i - 1 = i BY <1>7
    <3> QED BY <2>3, <3>1
  <2> QED BY <2>3, <2>4, <2>5
<1> DEFINE u == SubSeq(Handed, k + 1, k + n)
<1>9. /\ u \in Seq(Byte) /\ Len(u) = n
      /\ \A i \in 1..n : u[i] = Handed[k + i]
  <2>1. \A j \in k + 1 .. k + n : Handed[j] \in Byte
    <3> SUFFICES ASSUME NEW j \in k + 1 .. k + n PROVE Handed[j] \in Byte OBVIOUS
    <3>1. j - k \in 1..n /\ k + (j - k) = j BY <1>3, <1>7
    <3> QED BY <3>1, <1>6
  <2>2. k + 1 \in Int /\ k + n \in Int BY <1>3, <1>7
  <2>3. /\ u \in Seq(Byte)
        /\ Len(u) = IF k + 1 <= k + n THEN k + n - (k + 1) + 1 ELSE 0
        /\ \A i \in 1 .. k + n - (k + 1) + 1 : u[i] = Handed[k + 1 + i - 1]
    BY <2>1, <2>2, SubSeqProperties
  <2> HIDE DEF u, k
  <2>4. Len(u) = n BY <2>3, <1>3, <1>7
  <2>5. ASSUME NEW i \in 1..n PROVE u[i] = Handed[k + i]
    <3>1. i \in 1 .. k + n - (k + 1) + 1 /\ k + 1 + i - 1 = k + i BY <1>3, <1>7
    <3> QED BY <2>3, <3>1
  <2> QED BY <2>3, <2>4, <2>5
<1> HIDE DEF t, u
<1>10. t = u
  <2>1. Len(t) = Len(u) /\ \A i \in 1 .. Len(t) : t[i] = u[i] BY <1>6, <1>8, <1>9
  <2>2. t \in Seq(Byte) /\ u \in Seq(Byte) BY <1>8, <1>9
  <2> QED BY ONLY <2>1, <2>2, SameSeq
<1>11. Extended(n) = [files EXCEPT ![Len(files)] = @ \o t] BY DEF Extended, t
<1>12. files \in Seq(Seq(Byte)) /\ Len(files) # 0 BY <1>1 DEF StreamTyped
<1>13. /\ Extended(n) \in Seq(Seq(Byte)) /\ Len(Extended(n)) = Len(files)
       /\ FlattenSeq(Extended(n)) = OnDisk \o t
  <2>1. /\ [files EXCEPT ![Len(files)] = @ \o t] \in Seq(Seq(Byte))
        /\ Len([files EXCEPT ![Len(files)] = @ \o t]) = Len(files)
        /\ FlattenSeq([files EXCEPT ![Len(files)] = @ \o t]) = FlattenSeq(files) \o t
    BY <1>8, <1>12, FlattenExtend, Zenon
  <2> QED BY <2>1, <1>11, Zenon DEF OnDisk
<1>14. /\ OnDisk \o t \in Seq(Byte) /\ Len(OnDisk \o t) = k + n
  BY <1>3, <1>8, ConcatProperties
<1>15. Extended(n) = Stream!Filled(k + n)
  <2>1. Stream!Bytes(Len(written)) = Handed /\ Len(Stream!FlattenSeq(files)) = k
    BY SameBytes DEF Handed
  <2>2. Stream!Filled(k + n) = [files EXCEPT ![Len(files)] = @ \o u]
    BY <2>1 DEF Stream!Filled, u
  <2> QED BY <2>2, <1>10, <1>11
<1>16. k + n \in Stream!Reachable
  <2>1. Stream!Bytes(Len(written)) = Handed /\ Len(Stream!FlattenSeq(files)) = k
    BY SameBytes DEF Handed
  <2>2. Stream!Reachable = k .. Len(Handed) BY <2>1 DEF Stream!Reachable
  <2> HIDE DEF k
  <2>3. k + n \in k .. Len(Handed) BY <1>2, <1>3, <1>5
  <2> QED BY <2>2, <2>3
<1> QED BY <1>1, <1>13, <1>14, <1>15, <1>16

\* The write reaches the disk: whole records, as many as were seen.
LEMMA WriteStreams ==
    ASSUME SInv, ~Overruns, WriteToDisk
    PROVE  SInv' /\ Stream!Persist
<1> DEFINE n == snap.bytes
           k == Len(OnDisk)
<1>1. /\ IInv /\ IInv' /\ StreamTyped /\ Looked /\ lpc = "write" /\ lpc' = "advance"
      /\ UNCHANGED <<buf, pos_next, dirty, snap, written, err, ppc>>
      /\ files' = Extended(n) \/ files' = Append(Extended(n), <<>>)
  BY LogThreadKeeps DEF SInv, WriteToDisk, Looked
<1>2. n \in Nat /\ n \in 0 .. n BY <1>1 DEF IInv, Typed
<1>3. /\ ~err /\ Extended(n) = Stream!Filled(k + n)
      /\ Extended(n) \in Seq(Seq(Byte)) /\ Len(Extended(n)) = Len(files)
      /\ FlattenSeq(Extended(n)) \in Seq(Byte)
      /\ Len(FlattenSeq(Extended(n))) = k + n
      /\ k + n \in Stream!Reachable
  BY <1>1, <1>2, WriteIs
<1>4. /\ Accounted /\ InPlace /\ Cuts /\ Copied BY <1>3 DEF SInv
<1>5. Start = k /\ k \in Nat
  <2>1. Start \in Nat BY <1>4 DEF Accounted
  <2>2. Start = k - 0 BY <1>1 DEF Start, NowDirty
  <2>3. OnDisk \in Seq(Byte) BY <1>1, FlattenType DEF OnDisk, StreamTyped
  <2>4. k \in Nat BY <2>3, LenProperties
  <2> HIDE DEF k
  <2> QED BY <2>2, <2>4
<1> HIDE DEF n
<1>6. /\ Append(Extended(n), <<>>) \in Seq(Seq(Byte))
      /\ Len(Append(Extended(n), <<>>)) # 0
      /\ FlattenSeq(Append(Extended(n), <<>>)) = FlattenSeq(Extended(n))
  <2> DEFINE e == Extended(n)
             z == <<>>
  <2>1. e \in Seq(Seq(Byte)) /\ Len(e) \in Nat /\ FlattenSeq(e) \in Seq(Byte)
    BY <1>3, LenProperties
  <2>2. z \in Seq(Byte) BY EmptySeq
  <2>3. FlattenSeq(e) \o z = FlattenSeq(e) BY <2>1, ConcatEmptySeq
  <2> HIDE DEF e, z
  <2>4. Append(e, z) \in Seq(Seq(Byte)) /\ Len(Append(e, z)) = Len(e) + 1
    BY <2>1, <2>2, AppendProperties
  <2>5. FlattenSeq(Append(e, z)) = FlattenSeq(e) \o z BY <2>1, <2>2, FlattenAppend
  <2>6. Len(Append(e, z)) # 0 BY <2>1, <2>4
  <2> QED BY <2>3, <2>4, <2>5, <2>6 DEF e, z
<1>7. /\ files' \in Seq(Seq(Byte)) /\ Len(files') # 0 /\ OnDisk' = FlattenSeq(Extended(n))
  <2>1. CASE files' = Extended(n) BY <2>1, <1>1, <1>3 DEF OnDisk, StreamTyped
  <2>2. CASE files' = Append(Extended(n), <<>>) BY <2>2, <1>6, Zenon DEF OnDisk
  <2> QED BY <1>1, <2>1, <2>2
<1>8. StreamTyped' BY <1>1, <1>7 DEF StreamTyped
<1>9. Handed' = Handed /\ Start' = Start
  <2>1. Start' = Len(OnDisk') - n BY <1>1 DEF Start, NowDirty, n
  <2>2. Len(OnDisk') = k + n BY <1>3, <1>7
  <2>3. Start' = (k + n) - n BY <2>1, <2>2
  <2> HIDE DEF k
  <2>4. Start' = Start BY <2>3, <1>2, <1>5
  <2> QED BY <1>1, <2>4 DEF Handed
<1>10. Accounted' BY <1>1, <1>4, <1>9 DEF Accounted
<1>11. InPlace' BY <1>1, <1>4, <1>9 DEF InPlace
<1>12. Cuts' BY <1>1, <1>4, <1>9 DEF Cuts, WholeAt
<1>13. Copied' BY <1>1, <1>4 DEF Copied
<1>14. k + n \in Stream!Whole
  <2>1. WholeAt(k + n) BY <1>1, <1>4, <1>5 DEF Cuts, n
  <2>2. PICK m \in 0 .. Len(written) : k + n = Len(BytesOf(written, m))
    BY <2>1 DEF WholeAt
  <2>3. k + n = Len(Stream!Bytes(m)) BY <2>2, SameBytes
  <2> QED BY <2>2, <2>3, <1>3 DEF Stream!Whole
<1>15. Stream!Persist
  <2>1. files' \in {Stream!Filled(k + n), Append(Stream!Filled(k + n), <<>>)}
    BY <1>1, <1>3 DEF n
  <2>2. ~err /\ UNCHANGED <<written, err>> BY <1>1, <1>3
  <2> QED BY <1>14, <2>1, <2>2 DEF Stream!Persist
<1> QED BY <1>1, <1>3, <1>8, <1>10, <1>11, <1>12, <1>13, <1>15 DEF SInv

\* The write fails, after some of its bytes or, with the next file, after all.
LEMMA WriteFailsStreams ==
    ASSUME SInv, ~Overruns, WriteFails
    PROVE  SInv' /\ Stream!Fail
<1>1. /\ IInv /\ IInv' /\ StreamTyped /\ lpc = "write" /\ lpc' = "ended" /\ err' = TRUE
      /\ UNCHANGED <<buf, written, ppc>>
      /\ \/ \E n \in 0 .. snap.bytes - 1 : files' = Extended(n)
         \/ files' = Extended(snap.bytes)
  BY LogThreadKeeps DEF SInv, WriteFails
<1>2. snap.bytes \in Nat BY <1>1 DEF IInv, Typed
<1>3. PICK n \in 0 .. snap.bytes : files' = Extended(n)
  <2>1. CASE files' = Extended(snap.bytes) BY <2>1, <1>2
  <2>2. CASE \E n \in 0 .. snap.bytes - 1 : files' = Extended(n)
    <3>1. PICK n \in 0 .. snap.bytes - 1 : files' = Extended(n) BY <2>2
    <3>2. n \in 0 .. snap.bytes BY <1>2
    <3> QED BY <3>1, <3>2
  <2> QED BY <1>1, <2>1, <2>2
<1>4. /\ ~err /\ Extended(n) = Stream!Filled(Len(OnDisk) + n)
      /\ Extended(n) \in Seq(Seq(Byte)) /\ Len(Extended(n)) = Len(files)
      /\ Len(OnDisk) + n \in Stream!Reachable
  BY <1>1, WriteIs
<1>5. StreamTyped' BY <1>1, <1>3, <1>4 DEF StreamTyped
<1>6. Stream!Fail BY <1>1, <1>3, <1>4 DEF Stream!Fail
<1> QED BY <1>1, <1>5, <1>6 DEF SInv

\* The other steps move no byte.
LEMMA OtherStreams ==
    ASSUME SInv,
           \/ Post \/ Flush \/ Signal_ThrdStop \/ Destroy \/ Called \/ Join
           \/ Wake \/ Nothing \/ Decide \/ ResetFlush \/ After \/ CloseLog
    PROVE  SInv' /\ UNCHANGED <<written, files, err>>
<1>1. IInv' BY WriterKeeps, LogThreadKeeps DEF SInv
<1>2. UNCHANGED <<buf, pos_next, dirty, snap, files, written, err>>
  BY DEF Post, Flush, Signal_ThrdStop, Destroy, Stop, Called, Join, Wake, Nothing,
         Decide, ResetFlush, After, CloseLog
<1>3. /\ err => lpc' = "ended"
      /\ lpc' = "advance" <=> lpc = "advance"
      /\ Looked' => Looked
  BY DEF SInv, Looked, Post, Flush, Signal_ThrdStop, Destroy, Stop, Called, Join, Wake,
         Nothing, Decide, ResetFlush, After, CloseLog
<1>4. At("copied")' => At("copied") /\ ppc' = ppc
  BY DEF Post, Flush, Signal_ThrdStop, Destroy, Stop, Called, Join, Wake, Nothing,
         Decide, ResetFlush, After, CloseLog
<1> QED BY <1>1, <1>2, <1>3, <1>4, StreamKeeps

\* Every step is one of the abstract specification, or none.
LEMMA StreamStep ==
    ASSUME SInv, ~Overruns, [Next]_vars
    PROVE  SInv' /\ [Stream!StreamNext]_<<written, files, err>>
<1>1. CASE \E n \in Size : Copy(n) BY <1>1, CopyStreams
<1>2. CASE Adv_TA_pos_next_onLocked BY <1>2, AdvStreams DEF Stream!StreamNext
<1>3. CASE Look BY <1>3, LookStreams
<1>4. CASE Written BY <1>4, WrittenStreams
<1>5. CASE WriteToDisk BY <1>5, WriteStreams DEF Stream!StreamNext
<1>6. CASE WriteFails BY <1>6, WriteFailsStreams DEF Stream!StreamNext
<1>7. CASE \/ Post \/ Flush \/ Signal_ThrdStop \/ Destroy \/ Called \/ Join
           \/ Wake \/ Nothing \/ Decide \/ ResetFlush \/ After \/ CloseLog
  BY <1>7, OtherStreams
<1>8. CASE UNCHANGED vars
  <2>1. UNCHANGED <<buf, pos_next, dirty, snap, files, written, err, lpc, ppc>>
    BY <1>8 DEF vars
  <2>2. IInv' BY NextKeeps DEF SInv
  <2>3. SInv' BY <2>1, <2>2, StreamKeeps DEF SInv, Looked
  <2> QED BY <2>1, <2>3
<1> QED BY <1>1, <1>2, <1>3, <1>4, <1>5, <1>6, <1>7, <1>8
        DEF Next, Continues, LogThread

\* Nothing is dirty and nothing on disk at first.
LEMMA StreamInit == Init => SInv /\ Stream!StreamInit
<1> SUFFICES ASSUME Init PROVE SInv /\ Stream!StreamInit OBVIOUS
<1> DEFINE z == <<>>
<1>1. /\ IInv /\ ~err /\ written = z /\ files = <<z>> /\ lpc = "wait"
      /\ dirty.bytes = 0 /\ dirty.onTop = 0 /\ ~At("copied") /\ ~Looked
      /\ buf = [o \in 0 .. bytes_buf - 1 |-> <<0, 0>>]
  BY InitKeeps DEF Init, Looked
<1>2. \A S : z \in Seq(S) /\ Len(z) = 0 BY EmptySeq
<1>3. Stream!StreamInit BY <1>1 DEF Stream!StreamInit, Init
<1>4. BytesOf(z, 0) = z /\ OnDisk = z
  <2>1. Records(z, 0) = z BY DEF Records
  <2>2. BytesOf(z, 0) = z BY <2>1, FlattenEmpty DEF BytesOf
  <2>3. <<z>> = Append(z, z) OBVIOUS
  <2>4. z \in Seq(Seq(Byte)) /\ z \in Seq(Byte) BY <1>2
  <2> HIDE DEF z
  <2>5. FlattenSeq(Append(z, z)) = FlattenSeq(z) \o z BY <2>4, FlattenAppend
  <2>6. FlattenSeq(z) = z BY FlattenEmpty DEF z
  <2>7. z \o z = z BY <2>4, ConcatEmptySeq DEF z
  <2> QED BY <1>1, <2>2, <2>3, <2>5, <2>6, <2>7 DEF OnDisk
<1>5. StreamTyped
  <2>1. written \in Seq(Size) BY <1>1, <1>2
  <2>2. files \in Seq(Seq(Byte)) /\ Len(files) # 0
    <3>1. z \in Seq(Byte) BY <1>2
    <3> HIDE DEF z
    <3>2. <<z>> \in Seq(Seq(Byte)) /\ Len(<<z>>) = 1 BY <3>1
    <3> QED BY <3>2, <1>1
  <2>3. buf \in [0 .. bytes_buf - 1 -> Byte] BY <1>1 DEF Byte
  <2> QED BY <1>1, <2>1, <2>2, <2>3 DEF StreamTyped
<1> HIDE DEF z
<1>6. Handed = z /\ Start = 0 BY <1>1, <1>2, <1>4 DEF Handed, Start, NowDirty
<1>7. Accounted BY <1>1, <1>2, <1>6 DEF Accounted
<1>8. InPlace BY <1>1, <1>6 DEF InPlace, Placed
<1>9. Cuts
  <2>1. WholeAt(0)
    <3>1. 0 \in 0 .. Len(written) /\ 0 = Len(BytesOf(written, 0)) BY <1>1, <1>2, <1>4
    <3> QED BY <3>1 DEF WholeAt
  <2> QED BY <2>1, <1>1, <1>6 DEF Cuts
<1>10. Copied BY <1>1 DEF Copied
<1> QED BY <1>1, <1>3, <1>5, <1>7, <1>8, <1>9, <1>10 DEF SInv

\* As long as the log thread keeps up, the log implements LogStream: whatever
\* the interleaving of the two threads and however often the buffer wraps, the
\* files hold the records in order, whole, none lost in between or twice; a
\* disk that fails cuts the last one short.
THEOREM LogIsStream ==
    ASSUME ~Overruns
    PROVE  Spec => KeepsStream
<1>1. Init => SInv /\ Stream!StreamInit BY StreamInit
<1>2. SInv /\ [Next]_vars => SInv' /\ [Stream!StreamNext]_<<written, files, err>>
  BY StreamStep
<1> QED BY <1>1, <1>2, PTL DEF Spec, KeepsStream, Stream!StreamSpec
=============================================================================
