-------------------------- MODULE KSPRS_rld_proofs --------------------------
(***************************************************************************)
(* Theorems about the reload watch, for every value of the constants.      *)
(***************************************************************************)
EXTENDS KSPRS_rld, TLAPS

\* The records in the ring know whether their address is a registered one.
DevOfIP ==
    \A s \in Slot : s < next => (recd[s].dev <=> recd[s].ip \in DevIP)

\* The inductive invariant.  RingNeverWraps keeps S_Trim in its second loop,
\* where it moves nothing; OneRecordPerIP, for which DevOfIP is needed, makes
\* the record that Srch_inDty finds the only one; WatchedInRing keeps the slot
\* of the next record free of links.
IInv ==
    /\ WatchTypeOK
    /\ RingNeverWraps
    /\ DevOfIP
    /\ OneRecordPerIP
    /\ WatchedInRing
    /\ LinksMutual

USE DEF Slot

-----------------------------------------------------------------------------
(* S_Trim and Srch_inDty under the invariant *)

\* S_Trim leaves dtytop where it is and counts the slots from next on.
LEMMA TrimShape ==
    ASSUME IInv
    PROVE  /\ S_Trim.top = 0
           /\ S_Trim.cut \in SUBSET Slot
           /\ S_Trim.free = EN_MAX_RECD_SPRS - next
<1>1. dtytop = 0 /\ next \in Slot /\ dtytop \in Slot
  BY DEF IInv, WatchTypeOK, RingNeverWraps
<1>2. ~Wrapped
  BY <1>1, WatchAssumption DEF Wrapped
<1>3. TailSlots = {} /\ KeptInTail = {}
  BY <1>2 DEF TailSlots, KeptInTail
<1>4. CASE dtytop = next
  BY <1>1, <1>4, WatchAssumption DEF S_Trim
<1>5. CASE dtytop # next
  <2>1. S_Trim = [top |-> IF Expired(0) THEN dtytop ELSE 0,
                  cut |-> {} \cup {0},
                  free |-> EN_MAX_RECD_SPRS - (next - 0),
                  loops |-> Expired(0)]
    BY <1>1, <1>2, <1>3, <1>5 DEF S_Trim
  <2> QED BY <2>1, <1>1, WatchAssumption
<1> QED BY <1>4, <1>5

\* The trimmed ring and links have their types; only clients are unlinked, in
\* both directions.
LEMMA TrimLinks ==
    ASSUME IInv
    PROVE  /\ RecdTrimmed \in [Slot -> Record]
           /\ LinkTrimmed \in [Client -> Slot \cup {NULL}]
           /\ \A s \in Slot :
                 /\ RecdTrimmed[s].ip = recd[s].ip
                 /\ RecdTrimmed[s].dev = recd[s].dev
                 /\ RecdTrimmed[s].times = recd[s].times
                 /\ RecdTrimmed[s].initRI = recd[s].initRI
                 /\ RecdTrimmed[s].time_1st = recd[s].time_1st
                 /\ RecdTrimmed[s].pass = recd[s].pass
           /\ \A s \in Slot : RecdTrimmed[s].client # NULL =>
                 /\ RecdTrimmed[s].client = recd[s].client
                 /\ LinkTrimmed[RecdTrimmed[s].client] = s
                 /\ RecdTrimmed[s].client \in open
           /\ \A c \in Client : LinkTrimmed[c] # NULL =>
                 /\ LinkTrimmed[c] = link[c]
                 /\ RecdTrimmed[LinkTrimmed[c]].client = c
<1> DEFINE cut == S_Trim.cut
<1>1. cut \in SUBSET Slot BY TrimShape
<1>2. recd \in [Slot -> Record] /\ link \in [Client -> Slot \cup {NULL}]
  BY DEF IInv, WatchTypeOK
<1>3. RecdTrimmed = [s \in Slot |-> IF s \in cut THEN [recd[s] EXCEPT !.client = NULL]
                                    ELSE recd[s]]
  BY DEF RecdTrimmed
<1>4. LinkTrimmed = [c \in Client |-> IF link[c] \in cut THEN NULL ELSE link[c]]
  BY DEF LinkTrimmed
<1>5. NULL \notin Slot /\ NULL \notin Client BY WatchAssumption
<1> HIDE DEF cut
<1>6. RecdTrimmed \in [Slot -> Record] BY <1>2, <1>3 DEF Record
<1>7. LinkTrimmed \in [Client -> Slot \cup {NULL}] BY <1>2, <1>4
<1>8. \A s \in Slot :
         /\ RecdTrimmed[s].ip = recd[s].ip
         /\ RecdTrimmed[s].dev = recd[s].dev
         /\ RecdTrimmed[s].times = recd[s].times
         /\ RecdTrimmed[s].initRI = recd[s].initRI
         /\ RecdTrimmed[s].time_1st = recd[s].time_1st
         /\ RecdTrimmed[s].pass = recd[s].pass
  BY <1>2, <1>3 DEF Record
<1>9. \A s \in Slot : IF s \in cut THEN RecdTrimmed[s].client = NULL
                                   ELSE RecdTrimmed[s].client = recd[s].client
  BY <1>2, <1>3 DEF Record
<1>10. ASSUME NEW s \in Slot, RecdTrimmed[s].client # NULL
       PROVE  /\ RecdTrimmed[s].client = recd[s].client
              /\ LinkTrimmed[RecdTrimmed[s].client] = s
              /\ RecdTrimmed[s].client \in open
  <2>1. s \notin cut /\ RecdTrimmed[s].client = recd[s].client
    BY <1>9, <1>10
  <2>2. recd[s].client \in Client BY <1>2, <1>10, <2>1 DEF Record
  <2>3. link[recd[s].client] = s /\ recd[s].client \in open
    BY <2>1, <1>10 DEF IInv, LinksMutual
  <2> QED BY <2>1, <2>2, <2>3, <1>4
<1>11. ASSUME NEW c \in Client, LinkTrimmed[c] # NULL
       PROVE  LinkTrimmed[c] = link[c] /\ RecdTrimmed[LinkTrimmed[c]].client = c
  <2>1. link[c] \notin cut /\ LinkTrimmed[c] = link[c] /\ link[c] \in Slot
    BY <1>2, <1>4, <1>11
  <2>2. recd[link[c]].client = c
    BY <2>1, <1>5, <1>11 DEF IInv, LinksMutual
  <2> QED BY <2>1, <2>2, <1>9
<1> QED BY <1>6, <1>7, <1>8, <1>10, <1>11

\* The record of a known address is in the ring, and no other record is its.
LEMMA FoundRecord ==
    ASSUME IInv, NEW ip \in IP, Known(ip)
    PROVE  /\ RecordOf(ip) \in Slot
           /\ RecordOf(ip) < next
           /\ recd[RecordOf(ip)].ip = ip
<1>1. dtytop = 0 /\ next \in Slot
  BY DEF IInv, WatchTypeOK, RingNeverWraps
<1>2. S_Trim.top = 0 BY TrimShape
<1>3. Dirty(0) = 0 .. next - 1 /\ Dirty(dtytop) = 0 .. next - 1
  BY <1>1, WatchAssumption DEF Dirty
<1>4. PICK s \in Matches(0, ip) : TRUE BY <1>2 DEF Known
<1>5. s \in Slot /\ s < next /\ recd[s].ip = ip
  BY <1>1, <1>3, <1>4, WatchAssumption DEF Matches
<1>6. ASSUME NEW t \in Matches(0, ip) PROVE t = s
  <2>1. t \in Dirty(dtytop) /\ s \in Dirty(dtytop) /\ recd[t].ip = recd[s].ip
    BY <1>1, <1>4, <1>5, <1>6 DEF Matches
  <2>2. ~recd[s].dev
    BY <1>5 DEF Known, IInv, DevOfIP
  <2> QED BY <2>1, <2>2 DEF IInv, OneRecordPerIP
<1>7. Srch_inDty(0, ip) \in Matches(0, ip)
  <2>1. \E m \in Matches(0, ip) : \A t \in Matches(0, ip) :
           (m - 0) % EN_MAX_RECD_SPRS <= (t - 0) % EN_MAX_RECD_SPRS
    <3>1. (s - 0) % EN_MAX_RECD_SPRS <= (s - 0) % EN_MAX_RECD_SPRS
      BY <1>5, WatchAssumption
    <3> QED BY <1>4, <1>6, <3>1
  <2> QED BY <2>1 DEF Srch_inDty
<1> QED BY <1>2, <1>5, <1>6, <1>7 DEF RecordOf
-----------------------------------------------------------------------------
(* The invariant is inductive *)

\* The records in the ring are those in front of next.
LEMMA DirtyIs ==
    ASSUME WatchTypeOK, RingNeverWraps
    PROVE  /\ Dirty(dtytop) = 0 .. next - 1
           /\ \A s \in Slot : s \in Dirty(dtytop) <=> s < next
  BY WatchAssumption DEF Dirty, WatchTypeOK, RingNeverWraps

\* The same of the ring after a step.
LEMMA DirtyIsNext ==
    ASSUME WatchTypeOK', RingNeverWraps'
    PROVE  \A s \in Slot : s \in Dirty(dtytop)' <=> s < next'
<1>1. dtytop' = 0 /\ next' \in Slot BY DEF WatchTypeOK, RingNeverWraps
<1>2. Dirty(dtytop)' = 0 .. next' - 1 BY <1>1, WatchAssumption DEF Dirty
<1> QED BY <1>1, <1>2, WatchAssumption

\* The invariant holds of the ring as constructed.
LEMMA InitIInv == WatchInit => IInv
<1> SUFFICES ASSUME WatchInit PROVE IInv OBVIOUS
<1> USE DEF WatchInit
<1>1. 0 \in Slot /\ NULL \notin Slot BY WatchAssumption
<1>2. BlankRecord \in Record BY WatchAssumption DEF BlankRecord, Record
<1>3. WatchTypeOK BY <1>1, <1>2 DEF WatchTypeOK
<1>4. RingNeverWraps BY <1>1 DEF RingNeverWraps, BlankRecord
<1>5. DevOfIP BY <1>1 DEF DevOfIP
<1>6. OneRecordPerIP BY WatchAssumption DEF OneRecordPerIP, Dirty
<1>7. WatchedInRing BY DEF WatchedInRing, BlankRecord
<1>8. LinksMutual BY DEF LinksMutual, BlankRecord
<1> QED BY <1>3, <1>4, <1>5, <1>6, <1>7, <1>8 DEF IInv

\* A step that leaves the ring's places and addresses alone keeps their
\* invariants.
LEMMA RingKept ==
    ASSUME IInv,
           dtytop' = dtytop, next' = next,
           \A s \in Slot : recd'[s].ip = recd[s].ip /\ recd'[s].dev = recd[s].dev
    PROVE  RingNeverWraps' /\ DevOfIP' /\ OneRecordPerIP'
<1>1. RingNeverWraps' BY DEF IInv, RingNeverWraps
<1>2. DevOfIP' BY DEF IInv, DevOfIP
<1>3. OneRecordPerIP'
  <2>1. Dirty(dtytop)' = Dirty(dtytop) BY DEF Dirty
  <2>2. Dirty(dtytop) \subseteq Slot
    BY WatchAssumption DEF Dirty, IInv, WatchTypeOK, RingNeverWraps
  <2> QED BY <2>1, <2>2 DEF IInv, OneRecordPerIP
<1> QED BY <1>1, <1>2, <1>3

\* S_Trim alone: the connection is refused, or the loop never ends.
LEMMA TrimKeeps ==
    ASSUME IInv, recd' = RecdTrimmed, link' = LinkTrimmed,
           dtytop' = dtytop, next' = next, open' = open, clock' = clock,
           hung' \in BOOLEAN
    PROVE  IInv'
<1>1. WatchTypeOK' BY TrimLinks DEF IInv, WatchTypeOK
<1>2. RingNeverWraps' /\ DevOfIP' /\ OneRecordPerIP' BY TrimLinks, RingKept
<1>3. WatchedInRing'
  <2>1. Dirty(dtytop)' = Dirty(dtytop) BY DEF Dirty
  <2> QED BY <2>1, TrimLinks DEF IInv, WatchedInRing
<1>4. LinksMutual' BY TrimLinks DEF LinksMutual
<1> QED BY <1>1, <1>2, <1>3, <1>4 DEF IInv

\* A new record goes to the slot next, which no client is linked with.
LEMMA NewKeeps ==
    ASSUME IInv, NEW ip \in IP, NEW c \in Client, c \notin open, ChkNew(ip, c)
    PROVE  IInv'
<1>1. /\ dtytop = 0 /\ dtytop' = 0
      /\ next \in Slot /\ next + 1 \in Slot /\ next' = next + 1
  BY TrimShape, WatchAssumption
  DEF IInv, WatchTypeOK, RingNeverWraps, AfterNext, ChkNew
<1>2. NewRecord(ip, c) \in Record
  BY WatchAssumption DEF NewRecord, Record, IInv, WatchTypeOK
<1>3. /\ recd' = [RecdTrimmed EXCEPT ![next] = NewRecord(ip, c)]
      /\ link' = [LinkTrimmed EXCEPT ![c] = next]
      /\ open' = open \cup {c} /\ clock' = clock /\ hung' = hung
      /\ ~Known(ip)
  BY DEF ChkNew
<1>4. /\ recd'[next] = NewRecord(ip, c)
      /\ \A s \in Slot : s # next => recd'[s] = RecdTrimmed[s]
  BY <1>1, <1>3, TrimLinks
<1>4a. /\ recd'[next].ip = ip /\ recd'[next].client = c
       /\ recd'[next].dev <=> ip \in DevIP
  <2>1. /\ NewRecord(ip, c).ip = ip /\ NewRecord(ip, c).client = c
        /\ NewRecord(ip, c).dev = (ip \in DevIP)
    BY DEF NewRecord
  <2> QED BY <1>4, <2>1
<1>5. WatchTypeOK'
  BY <1>1, <1>2, <1>3, TrimLinks DEF IInv, WatchTypeOK
<1>6. RingNeverWraps'
  <2>1. ip # NULL BY WatchAssumption
  <2> QED
    BY <1>1, <1>4, <1>4a, <2>1, TrimLinks, WatchAssumption
    DEF IInv, RingNeverWraps
<1>7. DevOfIP'
  <2> SUFFICES ASSUME NEW s \in Slot, s < next'
               PROVE  recd'[s].dev <=> recd'[s].ip \in DevIP
    BY DEF DevOfIP
  <2>1. CASE s = next BY <1>4a, <2>1
  <2>2. CASE s # next
    <3>1. s < next BY <1>1, <2>2, WatchAssumption
    <3>2. recd[s].dev <=> recd[s].ip \in DevIP BY <3>1 DEF IInv, DevOfIP
    <3>3. recd'[s].dev = recd[s].dev /\ recd'[s].ip = recd[s].ip
      BY <1>4, <2>2, TrimLinks
    <3> QED BY <3>2, <3>3
  <2> QED BY <2>1, <2>2
<1>8. OneRecordPerIP'
  <2>1. Dirty(dtytop) = 0 .. next - 1 /\ Dirty(dtytop)' = 0 .. next
    BY <1>1, WatchAssumption DEF Dirty
  <2> SUFFICES ASSUME NEW s \in 0 .. next, NEW t \in 0 .. next,
                      s # t, recd'[s].ip = recd'[t].ip
               PROVE  recd'[s].dev /\ recd'[t].dev
    BY <2>1 DEF OneRecordPerIP
  <2>2. s \in Slot /\ t \in Slot BY <1>1, WatchAssumption
  <2>3. CASE s # next /\ t # next
    <3>1. s \in Dirty(dtytop) /\ t \in Dirty(dtytop)
      BY <1>1, <2>1, <2>3, WatchAssumption
    <3>2. recd[s].ip = recd[t].ip BY <1>4, <2>2, <2>3, TrimLinks
    <3>3. recd[s].dev /\ recd[t].dev BY <3>1, <3>2 DEF IInv, OneRecordPerIP
    <3> QED BY <1>4, <2>2, <2>3, <3>3, TrimLinks
  <2>4. ASSUME NEW u \in 0 .. next - 1, recd'[u].ip = ip
        PROVE  recd'[u].dev /\ ip \in DevIP
    <3>1. u \in Slot /\ u < next /\ u # next BY <1>1, WatchAssumption
    <3>2. recd[u].ip = ip BY <1>4, <2>4, <3>1, TrimLinks
    <3>3. u \in Matches(S_Trim.top, ip)
      BY <1>1, <2>1, <3>2, TrimShape DEF Matches
    <3>4. ip \in DevIP BY <1>3, <3>3 DEF Known
    <3>5. recd[u].dev BY <3>1, <3>2, <3>4 DEF IInv, DevOfIP
    <3> QED BY <1>4, <3>1, <3>4, <3>5, TrimLinks
  <2>5. CASE s = next
    <3>1. t \in 0 .. next - 1 /\ recd'[t].ip = ip
      BY <1>1, <1>4a, <2>5, WatchAssumption
    <3> QED BY <1>4a, <2>4, <2>5, <3>1
  <2>6. CASE t = next
    <3>1. s \in 0 .. next - 1 /\ recd'[s].ip = ip
      BY <1>1, <1>4a, <2>6, WatchAssumption
    <3> QED BY <1>4a, <2>4, <2>6, <3>1
  <2> QED BY <2>3, <2>5, <2>6
<1>9. WatchedInRing'
  <2> SUFFICES ASSUME NEW s \in Slot, recd'[s].client # NULL
               PROVE  s < next'
    BY <1>5, <1>6, DirtyIsNext DEF WatchedInRing
  <2>1. CASE s = next BY <1>1, <2>1, WatchAssumption
  <2>2. CASE s # next
    <3>1. recd[s].client # NULL BY <1>4, <2>2, TrimLinks
    <3>2. s < next BY <3>1, DirtyIs DEF IInv, WatchedInRing
    <3> QED BY <1>1, <3>2, WatchAssumption
  <2> QED BY <2>1, <2>2
<1>10. recd[next].client = NULL
  BY <1>1, DirtyIs, WatchAssumption DEF IInv, WatchedInRing
<1>11. LinkTrimmed[c] = NULL
  <2>1. ASSUME LinkTrimmed[c] # NULL PROVE FALSE
    BY <2>1, TrimLinks, WatchAssumption
  <2> QED BY <2>1
<1>12. LinksMutual'
  <2>1. ASSUME NEW d \in Client, link'[d] # NULL
        PROVE  recd'[link'[d]].client = d
    <3>1. CASE d = c
      BY <1>1, <1>3, <1>4a, <3>1, TrimLinks
    <3>2. CASE d # c
      <4>1. link'[d] = LinkTrimmed[d] BY <1>3, <3>2, TrimLinks
      <4>2. link'[d] \in Slot /\ RecdTrimmed[link'[d]].client = d
        BY <2>1, <4>1, TrimLinks
      <4>3. link'[d] # next BY <1>10, <4>2, TrimLinks, WatchAssumption
      <4> QED BY <1>4, <4>2, <4>3
    <3> QED BY <3>1, <3>2
  <2>2. ASSUME NEW s \in Slot, recd'[s].client # NULL
        PROVE  link'[recd'[s].client] = s /\ recd'[s].client \in open'
    <3>1. CASE s = next
      BY <1>3, <1>4a, <3>1, TrimLinks
    <3>2. CASE s # next
      <4>1. recd'[s] = RecdTrimmed[s] BY <1>4, <3>2
      <4>2. /\ LinkTrimmed[recd'[s].client] = s /\ recd'[s].client \in open
        BY <2>2, <4>1, TrimLinks
      <4>3. recd'[s].client \in Client /\ recd'[s].client # c
        BY <4>2 DEF IInv, WatchTypeOK
      <4> QED BY <1>3, <4>2, <4>3, TrimLinks
    <3> QED BY <3>1, <3>2
  <2> QED BY <2>1, <2>2 DEF LinksMutual
<1> QED BY <1>5, <1>6, <1>7, <1>8, <1>9, <1>12 DEF IInv

\* m_times_cnct keeps its width.
LEMMA TimesAfterWidth ==
    ASSUME IInv, NEW ip \in IP, Known(ip)
    PROVE  TimesAfter(ip) \in 0 .. TimesWidth - 1
<1>1. RecordOf(ip) \in Slot BY FoundRecord
<1>2. recd[RecordOf(ip)].times \in Nat
  BY <1>1, WatchAssumption DEF IInv, WatchTypeOK, Record
<1>3. \A n \in Nat : (n + 1) % TimesWidth \in 0 .. TimesWidth - 1
  BY WatchAssumption
<1> QED BY <1>2, <1>3 DEF TimesAfter

\* A connection over the limit.
LEMMA OverLimitKeeps ==
    ASSUME IInv, NEW ip \in IP, ChkOverLimit(ip)
    PROVE  IInv'
<1> DEFINE r == RecordOf(ip)
           p == Previous(ip)
<1>1. r \in Slot /\ r < next BY FoundRecord DEF ChkOverLimit
<1>2. p = RecdTrimmed[r].client BY DEF Previous
<1>3. TimesAfter(ip) \in 0 .. TimesWidth - 1
  BY TimesAfterWidth DEF ChkOverLimit
<1>4. /\ recd' = [RecdTrimmed EXCEPT ![r].times = TimesAfter(ip), ![r].client = NULL]
      /\ link' = [c \in Client |-> IF c = p THEN NULL ELSE LinkTrimmed[c]]
      /\ open' = open \ {p}
      /\ next' = next /\ clock' = clock /\ hung' = hung
      /\ dtytop' = S_Trim.top
  BY DEF ChkOverLimit
<1>5. dtytop' = dtytop
  BY <1>4, TrimShape DEF IInv, RingNeverWraps
<1> HIDE DEF r, p
<1>6. /\ recd'[r].client = NULL
      /\ recd'[r].ip = RecdTrimmed[r].ip /\ recd'[r].dev = RecdTrimmed[r].dev
      /\ \A s \in Slot : s # r => recd'[s] = RecdTrimmed[s]
  BY <1>1, <1>4, TrimLinks DEF Record
<1>7. recd' \in [Slot -> Record]
  <2>1. [RecdTrimmed EXCEPT ![r].times = TimesAfter(ip)] \in [Slot -> Record]
    BY <1>1, <1>3, TrimLinks DEF Record
  <2>2. recd' = [[RecdTrimmed EXCEPT ![r].times = TimesAfter(ip)]
                   EXCEPT ![r].client = NULL]
    BY <1>4
  <2> QED BY <1>1, <2>1, <2>2, ZenonT(30) DEF Record
<1>8. WatchTypeOK'
  BY <1>4, <1>5, <1>7, TrimLinks DEF IInv, WatchTypeOK
<1>9. RingNeverWraps' /\ DevOfIP' /\ OneRecordPerIP'
  <2>1. \A s \in Slot : recd'[s].ip = recd[s].ip /\ recd'[s].dev = recd[s].dev
    BY <1>6, TrimLinks
  <2> QED BY <1>4, <1>5, <2>1, RingKept
<1>10. WatchedInRing'
  <2>1. Dirty(dtytop)' = Dirty(dtytop) BY <1>4, <1>5 DEF Dirty
  <2> QED BY <1>6, <2>1, TrimLinks DEF IInv, WatchedInRing
<1>11. LinksMutual'
  <2>1. ASSUME NEW d \in Client, link'[d] # NULL
        PROVE  recd'[link'[d]].client = d
    <3>1. d # p /\ link'[d] = LinkTrimmed[d] BY <1>4, <2>1
    <3>2. link'[d] \in Slot /\ RecdTrimmed[link'[d]].client = d
      BY <2>1, <3>1, TrimLinks
    <3>3. link'[d] # r BY <1>2, <3>1, <3>2
    <3> QED BY <1>6, <3>2, <3>3
  <2>2. ASSUME NEW s \in Slot, recd'[s].client # NULL
        PROVE  link'[recd'[s].client] = s /\ recd'[s].client \in open'
    <3>1. s # r /\ recd'[s] = RecdTrimmed[s] BY <1>6, <2>2
    <3>2. /\ LinkTrimmed[recd'[s].client] = s /\ recd'[s].client \in open
      BY <2>2, <3>1, TrimLinks
    <3>3. recd'[s].client \in Client BY <3>2 DEF IInv, WatchTypeOK
    <3>4. recd'[s].client # p
      <4> SUFFICES ASSUME recd'[s].client = p PROVE FALSE OBVIOUS
      <4>1. LinkTrimmed[p] = r BY <1>1, <1>2, <2>2, TrimLinks
      <4> QED BY <3>1, <3>2, <4>1
    <3> QED BY <1>4, <3>2, <3>3, <3>4
  <2> QED BY <2>1, <2>2 DEF LinksMutual
<1> QED BY <1>8, <1>9, <1>10, <1>11 DEF IInv

\* A connection within the limit.
LEMMA AgainKeeps ==
    ASSUME IInv, NEW ip \in IP, NEW c \in Client, c \notin open, ChkAgain(ip, c)
    PROVE  IInv'
<1> DEFINE r == RecordOf(ip)
           p == Previous(ip)
<1>1. r \in Slot /\ r < next BY FoundRecord DEF ChkAgain
<1>2. p = RecdTrimmed[r].client BY DEF Previous
<1>3. TimesAfter(ip) \in 0 .. TimesWidth - 1
  BY TimesAfterWidth DEF ChkAgain
<1>4. /\ recd' = [RecdTrimmed EXCEPT ![r] =
                     [@ EXCEPT !.times = TimesAfter(ip), !.client = c,
                               !.initRI = TRUE, !.pass = TRUE]]
      /\ link' = [d \in Client |->
                     IF d = c THEN r ELSE IF d = p THEN NULL ELSE LinkTrimmed[d]]
      /\ open' = (open \ {p}) \cup {c}
      /\ next' = next /\ clock' = clock /\ hung' = hung
      /\ dtytop' = S_Trim.top
  BY DEF ChkAgain
<1>5. dtytop' = dtytop
  BY <1>4, TrimShape DEF IInv, RingNeverWraps
<1> HIDE DEF r, p
<1>6. /\ recd'[r].client = c
      /\ recd'[r].ip = RecdTrimmed[r].ip /\ recd'[r].dev = RecdTrimmed[r].dev
      /\ \A s \in Slot : s # r => recd'[s] = RecdTrimmed[s]
  BY <1>1, <1>4, TrimLinks DEF Record
<1>7. recd' \in [Slot -> Record]
  <2> DEFINE x == [RecdTrimmed[r] EXCEPT !.times = TimesAfter(ip), !.client = c,
                                         !.initRI = TRUE, !.pass = TRUE]
  <2>1. x \in Record
    <3>1. \A y \in Record, n \in 0 .. TimesWidth - 1 :
             [y EXCEPT !.times = n, !.client = c, !.initRI = TRUE, !.pass = TRUE]
                \in Record
      BY DEF Record
    <3> QED BY <1>1, <1>3, <3>1, TrimLinks
  <2>2. recd' = [RecdTrimmed EXCEPT ![r] = x] BY <1>4
  <2> QED BY <1>1, <2>1, <2>2, TrimLinks
<1>8. WatchTypeOK'
  <2>1. link' \in [Client -> Slot \cup {NULL}] BY <1>1, <1>4, TrimLinks
  <2>2. open' \subseteq Client BY <1>4 DEF IInv, WatchTypeOK
  <2> QED BY <1>4, <1>5, <1>7, <2>1, <2>2 DEF IInv, WatchTypeOK
<1>9. RingNeverWraps' /\ DevOfIP' /\ OneRecordPerIP'
  <2>1. \A s \in Slot : recd'[s].ip = recd[s].ip /\ recd'[s].dev = recd[s].dev
    BY <1>6, TrimLinks
  <2> QED BY <1>4, <1>5, <2>1, RingKept
<1>10. WatchedInRing'
  <2>1. Dirty(dtytop)' = Dirty(dtytop) BY <1>4, <1>5 DEF Dirty
  <2>2. r \in Dirty(dtytop) BY <1>1, DirtyIs DEF IInv
  <2> QED BY <1>6, <2>1, <2>2, TrimLinks DEF IInv, WatchedInRing
<1>11. LinksMutual'
  <2>1. ASSUME NEW d \in Client, link'[d] # NULL
        PROVE  recd'[link'[d]].client = d
    <3>1. CASE d = c BY <1>4, <1>6, <3>1
    <3>2. CASE d # c
      <4>1. d # p /\ link'[d] = LinkTrimmed[d] BY <1>4, <2>1, <3>2
      <4>2. link'[d] \in Slot /\ RecdTrimmed[link'[d]].client = d
        BY <2>1, <4>1, TrimLinks
      <4>3. link'[d] # r BY <1>2, <4>1, <4>2
      <4> QED BY <1>6, <4>2, <4>3
    <3> QED BY <3>1, <3>2
  <2>2. ASSUME NEW s \in Slot, recd'[s].client # NULL
        PROVE  link'[recd'[s].client] = s /\ recd'[s].client \in open'
    <3>1. CASE s = r BY <1>4, <1>6, <3>1
    <3>2. CASE s # r
      <4>1. recd'[s] = RecdTrimmed[s] BY <1>6, <3>2
      <4>2. /\ LinkTrimmed[recd'[s].client] = s /\ recd'[s].client \in open
        BY <2>2, <4>1, TrimLinks
      <4>3. recd'[s].client \in Client /\ recd'[s].client # c
        BY <4>2 DEF IInv, WatchTypeOK
      <4>4. recd'[s].client # p
        <5> SUFFICES ASSUME recd'[s].client = p PROVE FALSE OBVIOUS
        <5>1. LinkTrimmed[p] = r BY <1>1, <1>2, <2>2, TrimLinks
        <5> QED BY <3>2, <4>2, <5>1
      <4> QED BY <1>4, <4>2, <4>3, <4>4
    <3> QED BY <3>1, <3>2
  <2> QED BY <2>1, <2>2 DEF LinksMutual
<1> QED BY <1>8, <1>9, <1>10, <1>11 DEF IInv

\* A client leaves.
LEMMA DisconnectKeeps ==
    ASSUME IInv, NEW c \in Client, Disconnect(c)
    PROVE  IInv'
<1>1. /\ link' = [link EXCEPT ![c] = NULL]
      /\ recd' = [s \in Slot |-> IF s = link[c] THEN [recd[s] EXCEPT !.client = NULL]
                                                ELSE recd[s]]
      /\ open' = open \ {c}
      /\ dtytop' = dtytop /\ next' = next /\ clock' = clock /\ hung' = hung
  BY DEF Disconnect
<1>2. recd \in [Slot -> Record] /\ link \in [Client -> Slot \cup {NULL}]
  BY DEF IInv, WatchTypeOK
<1>3. recd' \in [Slot -> Record] BY <1>1, <1>2 DEF Record
<1>4. \A s \in Slot :
         /\ recd'[s].ip = recd[s].ip /\ recd'[s].dev = recd[s].dev
         /\ recd'[s].client = IF s = link[c] THEN NULL ELSE recd[s].client
  BY <1>1, <1>2 DEF Record
<1>5. WatchTypeOK'
  BY <1>1, <1>2, <1>3 DEF IInv, WatchTypeOK
<1>6. RingNeverWraps' /\ DevOfIP' /\ OneRecordPerIP'
  BY <1>1, <1>4, RingKept
<1>7. WatchedInRing'
  <2>1. Dirty(dtytop)' = Dirty(dtytop) BY <1>1 DEF Dirty
  <2> QED BY <1>4, <2>1 DEF IInv, WatchedInRing
<1>8. LinksMutual'
  <2>1. ASSUME NEW d \in Client, link'[d] # NULL
        PROVE  recd'[link'[d]].client = d
    <3>1. d # c /\ link'[d] = link[d] /\ link[d] \in Slot
      BY <1>1, <1>2, <2>1
    <3>2. recd[link[d]].client = d BY <2>1, <3>1 DEF IInv, LinksMutual
    <3>3. link[d] # link[c]
      <4> SUFFICES ASSUME link[d] = link[c] PROVE FALSE OBVIOUS
      <4>1. recd[link[c]].client = c
        BY <2>1, <3>1 DEF IInv, LinksMutual
      <4> QED BY <3>1, <3>2, <4>1
    <3> QED BY <1>4, <3>1, <3>2, <3>3
  <2>2. ASSUME NEW s \in Slot, recd'[s].client # NULL
        PROVE  link'[recd'[s].client] = s /\ recd'[s].client \in open'
    <3>1. s # link[c] /\ recd'[s].client = recd[s].client BY <1>4, <2>2
    <3>2. link[recd[s].client] = s /\ recd[s].client \in open
      BY <2>2, <3>1 DEF IInv, LinksMutual
    <3>3. recd[s].client # c /\ recd[s].client \in Client
      BY <3>1, <3>2 DEF IInv, WatchTypeOK
    <3> QED BY <1>1, <1>2, <3>1, <3>2, <3>3
  <2> QED BY <2>1, <2>2 DEF LinksMutual
<1> QED BY <1>5, <1>6, <1>7, <1>8 DEF IInv

\* The room list is granted.
LEMMA GrantKeeps ==
    ASSUME IInv, NEW c \in Client, GrantInitRI(c)
    PROVE  IInv'
<1>1. recd \in [Slot -> Record] /\ link[c] \in Slot
  BY DEF IInv, WatchTypeOK, GrantInitRI, Entitled
<1>2. /\ recd' = [recd EXCEPT ![link[c]].initRI = FALSE]
      /\ link' = link /\ open' = open /\ dtytop' = dtytop /\ next' = next
      /\ clock' = clock /\ hung' = hung
  BY DEF GrantInitRI
<1>3. recd' \in [Slot -> Record] BY <1>1, <1>2, ZenonT(30) DEF Record
<1>4. \A s \in Slot : /\ recd'[s].ip = recd[s].ip /\ recd'[s].dev = recd[s].dev
                      /\ recd'[s].client = recd[s].client
  BY <1>1, <1>2 DEF Record
<1>5. WatchTypeOK' BY <1>2, <1>3 DEF IInv, WatchTypeOK
<1>6. RingNeverWraps' /\ DevOfIP' /\ OneRecordPerIP'
  BY <1>2, <1>4, RingKept
<1>7. WatchedInRing'
  <2>1. Dirty(dtytop)' = Dirty(dtytop) BY <1>2 DEF Dirty
  <2> QED BY <1>4, <2>1 DEF IInv, WatchedInRing
<1>8. LinksMutual'
  <2>1. \A d \in Client : link[d] \in Slot \cup {NULL} BY DEF IInv, WatchTypeOK
  <2> QED BY <1>2, <1>4, <2>1 DEF IInv, LinksMutual
<1> QED BY <1>5, <1>6, <1>7, <1>8 DEF IInv

\* Every step of the watch keeps the invariant.
LEMMA NextIInv == IInv /\ [WatchNext]_watchVars => IInv'
<1> SUFFICES ASSUME IInv, [WatchNext]_watchVars PROVE IInv' OBVIOUS
<1>1. CASE UNCHANGED watchVars
  BY <1>1 DEF watchVars, IInv, WatchTypeOK, RingNeverWraps, DevOfIP,
              OneRecordPerIP, WatchedInRing, LinksMutual, Dirty
<1>2. ASSUME NEW ip \in IP, NEW c \in Client, Connect(ip, c) PROVE IInv'
  <2>1. c \notin open BY <1>2 DEF Connect
  <2>2. CASE ChkHangs BY <2>2, TrimKeeps DEF ChkHangs
  <2>3. CASE ChkRefuses
    <3>1. dtytop' = dtytop
      BY <2>3, TrimShape DEF ChkRefuses, IInv, RingNeverWraps
    <3>2. hung' \in BOOLEAN BY <2>3 DEF ChkRefuses, IInv, WatchTypeOK
    <3> QED BY <2>3, <3>1, <3>2, TrimKeeps DEF ChkRefuses
  <2>4. CASE ChkNew(ip, c) BY <2>1, <2>4, NewKeeps
  <2>5. CASE ChkOverLimit(ip) BY <2>5, OverLimitKeeps
  <2>6. CASE ChkAgain(ip, c) BY <2>1, <2>6, AgainKeeps
  <2> QED BY <1>2, <2>2, <2>3, <2>4, <2>5, <2>6 DEF Connect
<1>3. ASSUME NEW c \in open, Disconnect(c) \/ GrantInitRI(c) PROVE IInv'
  <2>1. c \in Client BY DEF IInv, WatchTypeOK
  <2> QED BY <1>3, <2>1, DisconnectKeeps, GrantKeeps
<1>4. CASE Tick
  BY <1>4 DEF Tick, IInv, WatchTypeOK, RingNeverWraps, DevOfIP,
              OneRecordPerIP, WatchedInRing, LinksMutual, Dirty
<1> QED BY <1>1, <1>2, <1>3, <1>4 DEF WatchNext

\* So it holds in every state of every behaviour.
LEMMA AlwaysIInv == WatchSpec => []IInv
<1>1. WatchInit => IInv BY InitIInv
<1>2. IInv /\ [WatchNext]_watchVars => IInv' BY NextIInv
<1> QED BY <1>1, <1>2, PTL DEF WatchSpec

-----------------------------------------------------------------------------
(* The theorems *)

\* The ring's records and both kinds of links keep their types: dtytop and
\* next stay inside msa_recd_SPRS_v4 whatever Chk_IP does to them.
THEOREM WatchTyping == WatchSpec => []WatchTypeOK
<1>1. IInv => WatchTypeOK BY DEF IInv
<1> QED BY <1>1, AlwaysIInv, PTL

\* S_Trim never advances dtytop: the ring fills once and does not wrap.
THEOREM RingFillsOnce == WatchSpec => []RingNeverWraps
<1>1. IInv => RingNeverWraps BY DEF IInv
<1> QED BY <1>1, AlwaysIInv, PTL

\* A client's m_precd_SPRS and a record's m_pKClient stay each other's
\* inverse through trimming, reconnection and disconnection in any order.
THEOREM LinksStayMutual == WatchSpec => []LinksMutual
<1>1. IInv => LinksMutual BY DEF IInv
<1> QED BY <1>1, AlwaysIInv, PTL

\* No record that Chk_IP will search for, or overwrite next, is out of place.
THEOREM WatchedStayInRing == WatchSpec => []WatchedInRing
<1>1. IInv => WatchedInRing BY DEF IInv
<1> QED BY <1>1, AlwaysIInv, PTL

\* The connections of a visitor are counted in one record.
THEOREM CountedOnce == WatchSpec => []OneRecordPerIP
<1>1. IInv => OneRecordPerIP BY DEF IInv
<1> QED BY <1>1, AlwaysIInv, PTL

\* A visitor over the limit has no client left in the watch.
THEOREM OverLimitLeaves == WatchSpec => []OverLimitUnlinked
<1>1. WatchInit => OverLimitUnlinked
  BY DEF WatchInit, OverLimitUnlinked, BlankRecord
<1>2. IInv /\ OverLimitUnlinked /\ [WatchNext]_watchVars => OverLimitUnlinked'
  <2> SUFFICES ASSUME IInv, OverLimitUnlinked, [WatchNext]_watchVars,
                      NEW s \in Slot, recd'[s].times > EN_Limit_Cnct
               PROVE  recd'[s].client = NULL
    BY DEF OverLimitUnlinked
  <2>0. recd \in [Slot -> Record] BY DEF IInv, WatchTypeOK
  <2>1. RecdTrimmed[s].times > EN_Limit_Cnct => RecdTrimmed[s].client = NULL
    BY TrimLinks DEF OverLimitUnlinked
  <2>2. CASE UNCHANGED watchVars BY <2>2 DEF watchVars, OverLimitUnlinked
  <2>3. ASSUME NEW ip \in IP, NEW c \in Client, Connect(ip, c)
        PROVE  recd'[s].client = NULL
    <3>1. CASE ChkHangs \/ ChkRefuses BY <2>1, <3>1 DEF ChkHangs, ChkRefuses
    <3>2. CASE ChkNew(ip, c)
      <4>1. recd' = [RecdTrimmed EXCEPT ![next] = NewRecord(ip, c)]
        BY <3>2 DEF ChkNew
      <4>2. NewRecord(ip, c).times = 1
        BY WatchAssumption DEF NewRecord
      <4>3. s # next BY <4>1, <4>2, TrimLinks, WatchAssumption
      <4> QED BY <2>1, <4>1, <4>3, TrimLinks
    <3>3. CASE ChkOverLimit(ip)
      <4>1. RecordOf(ip) \in Slot BY <3>3, FoundRecord DEF ChkOverLimit
      <4>2. recd' = [RecdTrimmed EXCEPT ![RecordOf(ip)].times = TimesAfter(ip),
                                        ![RecordOf(ip)].client = NULL]
        BY <3>3 DEF ChkOverLimit
      <4>3. CASE s = RecordOf(ip) BY <4>1, <4>2, <4>3, TrimLinks DEF Record
      <4>4. CASE s # RecordOf(ip) BY <2>1, <4>2, <4>4, TrimLinks
      <4> QED BY <4>3, <4>4
    <3>4. CASE ChkAgain(ip, c)
      <4>1. RecordOf(ip) \in Slot BY <3>4, FoundRecord DEF ChkAgain
      <4>2. recd' = [RecdTrimmed EXCEPT ![RecordOf(ip)] =
                       [@ EXCEPT !.times = TimesAfter(ip), !.client = c,
                                 !.initRI = TRUE, !.pass = TRUE]]
        BY <3>4 DEF ChkAgain
      <4>3. ~(TimesAfter(ip) > EN_Limit_Cnct) BY <3>4 DEF ChkAgain, OverLimit
      <4>4. s # RecordOf(ip)
        BY <4>1, <4>2, <4>3, TrimLinks DEF Record
      <4> QED BY <2>1, <4>2, <4>4, TrimLinks
    <3> QED BY <2>3, <3>1, <3>2, <3>3, <3>4 DEF Connect
  <2>4. ASSUME NEW c \in open, Disconnect(c) PROVE recd'[s].client = NULL
    BY <2>0, <2>4 DEF Disconnect, OverLimitUnlinked, Record
  <2>5. ASSUME NEW c \in open, GrantInitRI(c) PROVE recd'[s].client = NULL
    BY <2>0, <2>5 DEF GrantInitRI, OverLimitUnlinked, Record
  <2>6. CASE Tick BY <2>6 DEF Tick, OverLimitUnlinked
  <2> QED BY <2>2, <2>3, <2>4, <2>5, <2>6 DEF WatchNext
<1> QED BY <1>1, <1>2, AlwaysIInv, PTL DEF WatchSpec

\* A connection is entitled to the room list once: nothing that happens while
\* it is open, a reconnection of the same address included, entitles it again.
THEOREM EntitledAtMostOnce == WatchSpec => EntitledOnce
<1> DEFINE Once == \A c \in open \cap open' : Entitled(c)' => Entitled(c)
<1>1. IInv /\ [WatchNext]_watchVars => [Once]_watchVars
  <2> SUFFICES ASSUME IInv, WatchNext, NEW c \in open \cap open',
                      link'[c] # NULL, recd'[link'[c]].initRI
               PROVE  link[c] # NULL /\ recd[link[c]].initRI
    BY DEF Entitled
  <2>1. /\ c \in Client /\ recd \in [Slot -> Record]
        /\ link \in [Client -> Slot \cup {NULL}]
    BY DEF IInv, WatchTypeOK
  <2>2. ASSUME link'[c] = LinkTrimmed[c],
               recd'[LinkTrimmed[c]].initRI = RecdTrimmed[LinkTrimmed[c]].initRI
        PROVE  link[c] # NULL /\ recd[link[c]].initRI
    <3>1. LinkTrimmed[c] = link[c] /\ link[c] \in Slot
      BY <2>1, <2>2, TrimLinks
    <3> QED BY <2>2, <3>1, TrimLinks, WatchAssumption
  <2>3. ASSUME NEW ip \in IP, NEW d \in Client, Connect(ip, d)
        PROVE  link[c] # NULL /\ recd[link[c]].initRI
    <3>1. d # c BY <2>3 DEF Connect
    <3>2. CASE ChkHangs \/ ChkRefuses BY <2>2, <3>2 DEF ChkHangs, ChkRefuses
    <3>3. CASE ChkNew(ip, d)
      <4>1. /\ recd' = [RecdTrimmed EXCEPT ![next] = NewRecord(ip, d)]
            /\ link' = [LinkTrimmed EXCEPT ![d] = next]
        BY <3>3 DEF ChkNew
      <4>2. link'[c] = LinkTrimmed[c] BY <2>1, <3>1, <4>1, TrimLinks
      <4>3. LinkTrimmed[c] \in Slot /\ RecdTrimmed[LinkTrimmed[c]].client = c
        BY <2>1, <4>2, TrimLinks
      <4>4. recd[LinkTrimmed[c]].client # NULL
        BY <2>1, <4>3, TrimLinks, WatchAssumption
      <4>5. LinkTrimmed[c] # next
        BY <4>3, <4>4, DirtyIs, WatchAssumption
        DEF IInv, WatchedInRing, WatchTypeOK
      <4> QED BY <2>2, <4>1, <4>2, <4>3, <4>5, TrimLinks
    <3>4. CASE ChkOverLimit(ip)
      <4>1. /\ recd' = [RecdTrimmed EXCEPT ![RecordOf(ip)].times = TimesAfter(ip),
                                           ![RecordOf(ip)].client = NULL]
            /\ link' = [e \in Client |-> IF e = Previous(ip) THEN NULL
                                         ELSE LinkTrimmed[e]]
        BY <3>4 DEF ChkOverLimit
      <4>2. RecordOf(ip) \in Slot BY <3>4, FoundRecord DEF ChkOverLimit
      <4>3. link'[c] = LinkTrimmed[c] BY <2>1, <4>1
      <4>4. LinkTrimmed[c] \in Slot BY <2>1, <4>3, TrimLinks
      <4>5. \A s \in Slot : recd'[s].initRI = RecdTrimmed[s].initRI
        BY <4>1, <4>2, TrimLinks DEF Record
      <4> QED BY <2>2, <4>3, <4>4, <4>5
    <3>5. CASE ChkAgain(ip, d)
      <4>1. /\ link' = [e \in Client |-> IF e = d THEN RecordOf(ip)
                           ELSE IF e = Previous(ip) THEN NULL ELSE LinkTrimmed[e]]
            /\ \A s \in Slot : s # RecordOf(ip) => recd'[s] = RecdTrimmed[s]
        BY <3>5, TrimLinks DEF ChkAgain
      <4>2. c # Previous(ip) /\ link'[c] = LinkTrimmed[c]
        BY <2>1, <3>1, <4>1
      <4>3. LinkTrimmed[c] \in Slot /\ RecdTrimmed[LinkTrimmed[c]].client = c
        BY <2>1, <4>2, TrimLinks
      <4>4. LinkTrimmed[c] # RecordOf(ip) BY <4>2, <4>3 DEF Previous
      <4> QED BY <2>2, <4>1, <4>2, <4>3, <4>4
    <3> QED BY <2>3, <3>2, <3>3, <3>4, <3>5 DEF Connect
  <2>4. ASSUME NEW d \in open, Disconnect(d)
        PROVE  link[c] # NULL /\ recd[link[c]].initRI
    <3>1. /\ d # c /\ link' = [link EXCEPT ![d] = NULL]
          /\ recd' = [s \in Slot |-> IF s = link[d] THEN [recd[s] EXCEPT !.client = NULL]
                                                    ELSE recd[s]]
      BY <2>4 DEF Disconnect
    <3>2. link'[c] = link[c] /\ link[c] \in Slot BY <2>1, <3>1
    <3>3. recd'[link[c]].initRI = recd[link[c]].initRI
      BY <2>1, <3>1, <3>2 DEF Record
    <3> QED BY <3>2, <3>3
  <2>5. ASSUME NEW d \in open, GrantInitRI(d)
        PROVE  link[c] # NULL /\ recd[link[c]].initRI
    <3>1. link' = link /\ recd' = [recd EXCEPT ![link[d]].initRI = FALSE]
      BY <2>5 DEF GrantInitRI
    <3>2. link[c] \in Slot BY <2>1, <3>1
    <3>3. link[c] # link[d] BY <2>1, <3>1, <3>2 DEF Record
    <3> QED BY <3>1, <3>2, <3>3, WatchAssumption
  <2>6. CASE Tick BY <2>6 DEF Tick
  <2> QED BY <2>3, <2>4, <2>5, <2>6 DEF WatchNext
<1> QED BY <1>1, AlwaysIInv, PTL DEF WatchSpec, EntitledOnce

\* The pass phrase of a record that warns its client is a valid one.
PhraseSet == \A s \in Slot :
    recd[s].client # NULL /\ recd[s].times # 1 => recd[s].pass

\* UP_InitRI warns a client only with a pass phrase that has been set.
THEOREM WarningsHavePhrase == WatchSpec => []WarningHasPhrase
<1>1. WatchInit => PhraseSet BY DEF WatchInit, PhraseSet, BlankRecord
<1>2. IInv /\ PhraseSet /\ [WatchNext]_watchVars => PhraseSet'
  <2> SUFFICES ASSUME IInv, PhraseSet, [WatchNext]_watchVars, NEW s \in Slot,
                      recd'[s].client # NULL, recd'[s].times # 1
               PROVE  recd'[s].pass
    BY DEF PhraseSet
  <2>0. recd \in [Slot -> Record] BY DEF IInv, WatchTypeOK
  <2>1. RecdTrimmed[s].client # NULL /\ RecdTrimmed[s].times # 1
           => RecdTrimmed[s].pass
    BY TrimLinks DEF PhraseSet
  <2>2. CASE UNCHANGED watchVars BY <2>2 DEF watchVars, PhraseSet
  <2>3. ASSUME NEW ip \in IP, NEW c \in Client, Connect(ip, c)
        PROVE  recd'[s].pass
    <3>1. CASE ChkHangs \/ ChkRefuses BY <2>1, <3>1 DEF ChkHangs, ChkRefuses
    <3>2. CASE ChkNew(ip, c)
      <4>1. recd' = [RecdTrimmed EXCEPT ![next] = NewRecord(ip, c)]
        BY <3>2 DEF ChkNew
      <4>2. NewRecord(ip, c).times = 1
        BY WatchAssumption DEF NewRecord
      <4>3. s # next BY <4>1, <4>2, TrimLinks
      <4> QED BY <2>1, <4>1, <4>3, TrimLinks
    <3>3. CASE ChkOverLimit(ip)
      <4>1. RecordOf(ip) \in Slot BY <3>3, FoundRecord DEF ChkOverLimit
      <4>2. recd' = [RecdTrimmed EXCEPT ![RecordOf(ip)].times = TimesAfter(ip),
                                        ![RecordOf(ip)].client = NULL]
        BY <3>3 DEF ChkOverLimit
      <4>3. s # RecordOf(ip) BY <4>1, <4>2, TrimLinks DEF Record
      <4> QED BY <2>1, <4>2, <4>3, TrimLinks
    <3>4. CASE ChkAgain(ip, c)
      <4>1. RecordOf(ip) \in Slot BY <3>4, FoundRecord DEF ChkAgain
      <4>2. recd' = [RecdTrimmed EXCEPT ![RecordOf(ip)] =
                       [@ EXCEPT !.times = TimesAfter(ip), !.client = c,
                                 !.initRI = TRUE, !.pass = TRUE]]
        BY <3>4 DEF ChkAgain
      <4>3. CASE s = RecordOf(ip) BY <4>1, <4>2, <4>3, TrimLinks DEF Record
      <4>4. CASE s # RecordOf(ip) BY <2>1, <4>2, <4>4, TrimLinks
      <4> QED BY <4>3, <4>4
    <3> QED BY <2>3, <3>1, <3>2, <3>3, <3>4 DEF Connect
  <2>4. ASSUME NEW c \in open, Disconnect(c) PROVE recd'[s].pass
    BY <2>0, <2>4 DEF Disconnect, PhraseSet, Record
  <2>5. ASSUME NEW c \in open, GrantInitRI(c) PROVE recd'[s].pass
    BY <2>0, <2>5 DEF GrantInitRI, PhraseSet, Record
  <2>6. CASE Tick BY <2>6 DEF Tick, PhraseSet
  <2> QED BY <2>2, <2>3, <2>4, <2>5, <2>6 DEF WatchNext
<1>3. IInv /\ PhraseSet => WarningHasPhrase
  <2> SUFFICES ASSUME IInv, PhraseSet, NEW c \in Client, link[c] # NULL,
                      recd[link[c]].times # 1
               PROVE  recd[link[c]].pass
    BY DEF WarningHasPhrase, Entitled
  <2>1. link[c] \in Slot /\ recd[link[c]].client = c
    BY DEF IInv, WatchTypeOK, LinksMutual
  <2> QED BY <2>1, WatchAssumption DEF PhraseSet
<1> QED BY <1>1, <1>2, <1>3, AlwaysIInv, PTL DEF WatchSpec
=============================================================================
