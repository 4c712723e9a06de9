-------------------------------- MODULE Pool --------------------------------
(***************************************************************************)
(* What KSmplList2 promises its callers: a pool of resources, each held by *)
(* one caller at a time.  Taking one yields a resource nobody holds, or a  *)
(* refusal when all are held; giving one back makes it available again.    *)
(***************************************************************************)
EXTENDS Naturals, FiniteSets

CONSTANT Resource

VARIABLES held,      \* the resources in a caller's hands
          refused    \* the last request found none

PoolInit == held = {} /\ refused = FALSE

Take == \E r \in Resource \ held : held' = held \cup {r} /\ refused' = FALSE

Refuse == held = Resource /\ refused' = TRUE /\ UNCHANGED held

GiveBack == \E r \in held : held' = held \ {r} /\ UNCHANGED refused

PoolNext == Take \/ Refuse \/ GiveBack

PoolSpec == PoolInit /\ [][PoolNext]_<<held, refused>>

=============================================================================
