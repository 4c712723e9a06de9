------------------------------ MODULE MCKServer ------------------------------
(* Small instances of KServer. *)
EXTENDS KServer

CONSTANTS visitor1, visitor2, developer, buf1

Visitors == {visitor1, visitor2}
Mixed    == {visitor1, developer}
Dev      == {developer}
None     == {}
Clients == 1..NUM_CLIENT

\* The clients of the pool are interchangeable but for their place in it:
\* states that differ only by which client is where are one (VIEW Named).
Named ==
    LET at == clnts.order
        place(c) == CHOOSE n \in Client : at[n] = c
        pl(c) == IF c = NULL THEN NULL ELSE place(c)
        by(f) == [n \in Client |-> f[at[n]]]
    IN << [s \in Slot |-> [recd[s] EXCEPT !.client = pl(@)]], dtytop, next,
          by(link), {place(c) : c \in open}, clock, hung,
          pl(clnts.new), pl(under),
          [i \in DOMAIN rq |-> [rq[i] EXCEPT !.client = pl(@)]],
          by(pend), armed, users, by(uinfo), {place(c) : c \in super},
          by(big), bufs, by(rrq) >>

=============================================================================
