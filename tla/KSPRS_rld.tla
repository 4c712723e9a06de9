------------------------------ MODULE KSPRS_rld ------------------------------
(***************************************************************************)
(* The reload watch (KSPRS_rld.cpp) and its use by KServer::On_Accpt_Svr:  *)
(* a ring of records, one per remote IP seen lately, that counts the       *)
(* connections of that IP and is linked both ways with the client that     *)
(* last connected from it.                                                 *)
(*                                                                         *)
(* An accepted connection goes through Chk_IP, which first trims the ring  *)
(* (S_Trim), then finds or creates the record.  On_Accpt_Svr refuses the   *)
(* connection, or replaces the client the record is linked with.  These    *)
(* run to completion on the one event-loop thread, so each is one step.    *)
(*                                                                         *)
(* The acceptor is bound to tcp::v4 (main.cpp:71): the IPv4 ring is the    *)
(* one modelled; the IPv6 one is the same code over other variables.       *)
(***************************************************************************)
EXTENDS Integers, FiniteSets

CONSTANTS
    IP,                \* the remote addresses
    DevIP,             \* those main() registers with KMng_DevIP::Push
    Client,            \* the KClient elements
    NULL,
    EN_MAX_RECD_SPRS,  \* slots of the ring
    EN_SEC_Trim,       \* seconds a record is watched
    EN_Limit_Cnct,     \* connections allowed per IP
    TimesWidth,        \* m_times_cnct is a uint16_t: arithmetic modulo 2^16
    Horizon,           \* bound: the last second at which the clock ticks
    MaxTimes           \* bound: no more connections of an IP once its record
                       \* counts this many

ASSUME WatchAssumption ==
    /\ DevIP \subseteq IP
    /\ NULL \notin Client \cup IP /\ NULL \notin Int
    /\ EN_MAX_RECD_SPRS \in Nat /\ EN_MAX_RECD_SPRS >= 2
    /\ EN_SEC_Trim \in Nat
    /\ EN_Limit_Cnct \in Nat \ {0}
    /\ TimesWidth \in Nat /\ TimesWidth >= 2
    /\ Horizon \in Nat /\ MaxTimes \in Nat

Slot == 0 .. EN_MAX_RECD_SPRS - 1

VARIABLES
    recd,     \* msa_recd_SPRS_v4
    dtytop,   \* ms_precd_SPRS_dtytop_v4: the oldest record
    next,     \* ms_precd_SPRS_next_v4: where the next record goes
    link,     \* m_precd_SPRS of each KClient: its record, or NULL
    open,     \* the clients with an accepted connection
    clock,    \* time(NULL)
    hung      \* the event loop is inside a loop that never ends

ring      == <<recd, dtytop, next>>
watchVars == <<recd, dtytop, next, link, open, clock, hung>>

Record == [ip : IP \cup {NULL}, client : Client \cup {NULL}, time_1st : Nat,
           times : 0 .. TimesWidth - 1, dev : BOOLEAN, initRI : BOOLEAN,
           pass : BOOLEAN]    \* pass: m_pass_phrs is not 0

BlankRecord == [ip |-> NULL, client |-> NULL, time_1st |-> 0, times |-> 0,
                dev |-> FALSE, initRI |-> FALSE, pass |-> FALSE]

WatchInit ==
    /\ recd = [s \in Slot |-> BlankRecord]
    /\ dtytop = 0 /\ next = 0
    /\ link = [c \in Client |-> NULL]
    /\ open = {}
    /\ clock = 1
    /\ hung = FALSE

-----------------------------------------------------------------------------
(* S_Trim *)

Expired(s) == recd[s].time_1st <= clock - EN_SEC_Trim

Wrapped == next < dtytop

\* The slots in front of next when the ring is wrapped, or not.
TailSlots == IF Wrapped THEN dtytop .. EN_MAX_RECD_SPRS - 1 ELSE {}
KeptInTail == {s \in TailSlots : ~Expired(s)}
FirstOf(S) == CHOOSE s \in S : \A t \in S : s <= t

\* What a call of S_Trim does: top, the new dtytop; cut, the slots whose
\* client it unlinks; free, the value it returns; loops, whether it never
\* returns.  The second loop of S_Trim unlinks the record it looks at before
\* it tests the record's age, and never moves on to the next one.
S_Trim ==
    LET start == IF Wrapped THEN 0 ELSE dtytop
    IN CASE dtytop = next ->
              [top |-> dtytop, cut |-> {}, free |-> EN_MAX_RECD_SPRS,
               loops |-> FALSE]
         [] dtytop # next /\ KeptInTail # {} ->
              [top |-> FirstOf(KeptInTail),
               cut |-> {s \in TailSlots : s < FirstOf(KeptInTail)},
               free |-> FirstOf(KeptInTail) - next, loops |-> FALSE]
         [] dtytop # next /\ KeptInTail = {} /\ start = next ->
              [top |-> next, cut |-> TailSlots, free |-> EN_MAX_RECD_SPRS,
               loops |-> FALSE]
         [] dtytop # next /\ KeptInTail = {} /\ start # next ->
              [top |-> IF Expired(start) THEN dtytop ELSE start,
               cut |-> TailSlots \cup {start},
               free |-> EN_MAX_RECD_SPRS - (next - start),
               loops |-> Expired(start)]

\* The ring and the clients once S_Trim has unlinked the slots of cut.
RecdTrimmed ==
    LET cut == S_Trim.cut
    IN [s \in Slot |-> IF s \in cut THEN [recd[s] EXCEPT !.client = NULL]
                                    ELSE recd[s]]
LinkTrimmed ==
    LET cut == S_Trim.cut
    IN [c \in Client |-> IF link[c] \in cut THEN NULL ELSE link[c]]

-----------------------------------------------------------------------------
(* Chk_IP *)

\* The slots Srch_inDty looks at, from the trimmed dtytop up to next.
Dirty(top) == IF next < top THEN Slot \ (next .. top - 1) ELSE top .. next - 1

\* Mutant: the search starts after the oldest record.
MatchesAfterTop(top, ip) == {s \in Dirty(top) \ {top} : recd[s].ip = ip}

\* Srch_inDty: the first slot that holds ip, from top round the ring.
Matches(top, ip) == {s \in Dirty(top) : recd[s].ip = ip}
Srch_inDty(top, ip) ==
    CHOOSE s \in Matches(top, ip) : \A t \in Matches(top, ip) :
        (s - top) % EN_MAX_RECD_SPRS <= (t - top) % EN_MAX_RECD_SPRS

\* Mutants: next moves two slots, or none.
AfterNextTwo == IF next + 1 = EN_MAX_RECD_SPRS THEN 0 ELSE next + 2
AfterNextSame == next

\* GetNext_precd_SPRS: next, moved on round the ring.
AfterNext == IF next + 1 = EN_MAX_RECD_SPRS THEN 0 ELSE next + 1

\* Mutant: the first connection is not counted.
NewRecordZero(ip, c) ==
    [ip |-> ip, client |-> c, time_1st |-> clock, times |-> 0,
     dev |-> ip \in DevIP, initRI |-> TRUE, pass |-> FALSE]

NewRecord(ip, c) ==
    [ip |-> ip, client |-> c, time_1st |-> clock, times |-> 1 % TimesWidth,
     dev |-> ip \in DevIP, initRI |-> TRUE, pass |-> FALSE]

Known(ip) == ip \notin DevIP /\ Matches(S_Trim.top, ip) # {}
RecordOf(ip) == Srch_inDty(S_Trim.top, ip)
TimesAfter(ip) == (recd[RecordOf(ip)].times + 1) % TimesWidth

\* Mutant: one connection more is let in.
OverLimitByOne(ip) == TimesAfter(ip) > EN_Limit_Cnct + 1

OverLimit(ip) == TimesAfter(ip) > EN_Limit_Cnct

\* Mutant: the client of the connection before is not looked for.
PreviousForgotten(ip) == NULL

\* The client the record of ip is linked with when On_Accpt_Svr looks.
Previous(ip) == RecdTrimmed[RecordOf(ip)].client

\* S_Trim never returns: neither does the event loop's handler.
ChkHangs ==
    /\ S_Trim.loops
    /\ hung' = TRUE
    /\ recd' = RecdTrimmed /\ link' = LinkTrimmed
    /\ UNCHANGED <<dtytop, next, open, clock>>

\* Fewer than two free slots: Chk_IP returns NULL, the connection is dropped.
ChkRefuses ==
    /\ ~S_Trim.loops /\ S_Trim.free < 2
    /\ dtytop' = S_Trim.top /\ recd' = RecdTrimmed /\ link' = LinkTrimmed
    /\ UNCHANGED <<next, open, clock, hung>>

\* A registered address, or one without a record: a new record, linked with
\* the accepted client c.
ChkNew(ip, c) ==
    /\ ~S_Trim.loops /\ S_Trim.free >= 2
    /\ ~Known(ip)
    /\ dtytop' = S_Trim.top
    /\ next' = AfterNext
    /\ recd' = [RecdTrimmed EXCEPT ![next] = NewRecord(ip, c)]
    /\ link' = [LinkTrimmed EXCEPT ![c] = next]
    /\ open' = open \cup {c}
    /\ UNCHANGED <<clock, hung>>

\* Too many connections: the record's client is dropped, and the new one.
ChkOverLimit(ip) ==
    /\ ~S_Trim.loops /\ S_Trim.free >= 2
    /\ Known(ip) /\ OverLimit(ip)
    /\ dtytop' = S_Trim.top
    /\ recd' = [RecdTrimmed EXCEPT ![RecordOf(ip)].times = TimesAfter(ip),
                                   ![RecordOf(ip)].client = NULL]
    /\ LET p == Previous(ip)
           l == LinkTrimmed
       IN link' = [c \in Client |-> IF c = p THEN NULL ELSE l[c]]
    /\ open' = open \ {Previous(ip)}
    /\ UNCHANGED <<next, clock, hung>>

\* A connection within the limit: the accepted client c takes the place of
\* the record's client, which is dropped.
ChkAgain(ip, c) ==
    /\ ~S_Trim.loops /\ S_Trim.free >= 2
    /\ Known(ip) /\ ~OverLimit(ip)
    /\ dtytop' = S_Trim.top
    /\ recd' = [RecdTrimmed EXCEPT ![RecordOf(ip)] =
                   [@ EXCEPT !.times = TimesAfter(ip), !.client = c,
                             !.initRI = TRUE, !.pass = TRUE]]
    /\ LET p == Previous(ip)
           l == LinkTrimmed
           s == RecordOf(ip)
       IN link' = [d \in Client |->
                     IF d = c THEN s ELSE IF d = p THEN NULL ELSE l[d]]
    /\ open' = (open \ {Previous(ip)}) \cup {c}
    /\ UNCHANGED <<next, clock, hung>>

-----------------------------------------------------------------------------
(* The steps of the watch *)

\* On_Accpt_Svr for a connection from ip, accepted on the free client c.
Connect(ip, c) ==
    /\ ~hung
    /\ c \notin open
    /\ Known(ip) => recd[RecordOf(ip)].times < MaxTimes
    /\ \/ ChkHangs
       \/ ChkRefuses
       \/ ChkNew(ip, c)
       \/ ChkOverLimit(ip)
       \/ ChkAgain(ip, c)

\* Mutant: the record keeps its client.
DisconnectHalf(c) ==
    /\ ~hung
    /\ link' = [link EXCEPT ![c] = NULL]
    /\ open' = open \ {c}
    /\ UNCHANGED <<recd, dtytop, next, clock, hung>>

\* KClient::Clean on the way of Recycle_Clnt: c and its record part.
Disconnect(c) ==
    /\ ~hung
    /\ link' = [link EXCEPT ![c] = NULL]
    /\ recd' = [s \in Slot |-> IF s = link[c] THEN [recd[s] EXCEPT !.client = NULL]
                                              ELSE recd[s]]
    /\ open' = open \ {c}
    /\ UNCHANGED <<dtytop, next, clock, hung>>

\* UP_InitRI grants the one room list a connection is allowed.
Entitled(c) == link[c] # NULL /\ recd[link[c]].initRI
GrantInitRI(c) ==
    /\ ~hung /\ Entitled(c)
    /\ recd' = [recd EXCEPT ![link[c]].initRI = FALSE]
    /\ UNCHANGED <<dtytop, next, link, open, clock, hung>>

\* A second passes.
Tick ==
    /\ clock < Horizon
    /\ clock' = clock + 1
    /\ UNCHANGED <<recd, dtytop, next, link, open, hung>>

WatchNext ==
    \/ \E ip \in IP, c \in Client : Connect(ip, c)
    \/ \E c \in open : Disconnect(c) \/ GrantInitRI(c)
    \/ Tick

WatchSpec == WatchInit /\ [][WatchNext]_watchVars

-----------------------------------------------------------------------------
(* What must hold *)

\* Every variable has its type.
WatchTypeOK ==
    /\ recd \in [Slot -> Record]
    /\ dtytop \in Slot /\ next \in Slot
    /\ link \in [Client -> Slot \cup {NULL}]
    /\ open \subseteq Client
    /\ clock \in Nat /\ hung \in BOOLEAN

\* A client and a record point at each other or not at all (KClient.h:131),
\* and only a connected client is watched: whichever of S_Trim, a later
\* connection and a disconnection comes first, no record keeps a pointer to
\* a client that has been recycled.
LinksMutual ==
    /\ \A c \in Client : link[c] # NULL => recd[link[c]].client = c
    /\ \A s \in Slot : recd[s].client # NULL =>
           /\ link[recd[s].client] = s
           /\ recd[s].client \in open

\* A record linked with a client is among those Srch_inDty searches, and is
\* not the slot the next record goes to: whatever is trimmed and however the
\* ring is filled, no client is left with a record that is lost or overwritten.
WatchedInRing ==
    \A s \in Slot : recd[s].client # NULL => s \in Dirty(dtytop)

\* S_Trim never lets go of the oldest record (its second loop cannot move
\* on), so dtytop stays where it started and the ring fills once, up to its
\* last slot but one: next never wraps round onto dtytop, which would drop
\* every record while clients are still linked with them.
RingNeverWraps ==
    dtytop = 0 /\ \A s \in Slot : recd[s].ip # NULL <=> s < next

\* An address has at most one watched record unless it is a registered one,
\* so its connections are counted in one place.
OneRecordPerIP ==
    \A s, t \in Dirty(dtytop) :
        s # t /\ recd[s].ip = recd[t].ip => recd[s].dev /\ recd[t].dev

\* An address over its limit has no client left: neither the connection that
\* exceeded it nor the one before.
OverLimitUnlinked ==
    \A s \in Slot : recd[s].times > EN_Limit_Cnct => recd[s].client = NULL

\* When UP_InitRI warns a client of its earlier connections (times is not 1)
\* the pass phrase it sends is a valid one.
WarningHasPhrase ==
    \A c \in Client :
        Entitled(c) /\ recd[link[c]].times # 1 => recd[link[c]].pass

\* A connection gets the room list once: while it stays open nothing,
\* another connection of the same address included, entitles it again.
EntitledOnce ==
    [][\A c \in open \cap open' : Entitled(c)' => Entitled(c)]_watchVars

\* KSPRS_rld.cpp:42: Chk_IP returns, a record unless the ring is exhausted.
ChkIPReturns == ~hung

=============================================================================
