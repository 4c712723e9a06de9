---------------------------- MODULE MCKSPRS_rld ----------------------------
(* Small instances of KSPRS_rld. *)
EXTENDS KSPRS_rld, TLC

CONSTANTS a, b, d, c1, c2, c3

AllIP == {a, b, d}     \* two visitors and a registered address
Dev   == {d}
Three == {c1, c2, c3}

\* The clients are interchangeable, and so are the two visitors.
Symmetry == Permutations(Three) \cup Permutations({a, b})

=============================================================================
