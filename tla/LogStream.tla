------------------------------ MODULE LogStream ------------------------------
(***************************************************************************)
(* What KgLog promises: the records handed to it reach its files in the    *)
(* order they were written, none twice and none left out, and each file    *)
(* starts and ends with a whole record, except that the last one may be    *)
(* cut short by an error, after which the files do not change.             *)
(***************************************************************************)
EXTENDS Naturals, Sequences, SequencesExt

CONSTANT Size         \* the sizes a record may have, in bytes

VARIABLES written,    \* the sizes of the records handed over so far
          files,      \* the bytes of each file, the current one last
          failed      \* an error has happened

\* The bytes of the first n records: byte i of record r is <<r, i>>.
Bytes(n) == FlattenSeq([r \in 1..n |-> [i \in 1..written[r] |-> <<r, i>>]])

\* The files when their bytes are the first n of all.
Filled(n) ==
    [files EXCEPT ![Len(files)] =
        @ \o SubSeq(Bytes(Len(written)), Len(FlattenSeq(files)) + 1, n)]

\* The numbers of bytes, from those on disk on, and those of whole records.
Reachable == Len(FlattenSeq(files)) .. Len(Bytes(Len(written)))
Whole == {n \in Reachable : \E m \in 0 .. Len(written) : n = Len(Bytes(m))}

StreamInit == written = <<>> /\ files = << <<>> >> /\ failed = FALSE

Write == \E s \in Size : written' = Append(written, s) /\ UNCHANGED <<files, failed>>

\* Records that are not on disk yet are added to the current file, after
\* which a new file may be started.
Persist ==
    /\ ~failed /\ UNCHANGED <<written, failed>>
    /\ \E n \in Whole : files' \in {Filled(n), Append(Filled(n), <<>>)}

Fail ==
    /\ ~failed /\ failed' = TRUE /\ UNCHANGED written
    /\ \E n \in Reachable : files' = Filled(n)

StreamNext == Write \/ Persist \/ Fail

StreamSpec == StreamInit /\ [][StreamNext]_<<written, files, failed>>

=============================================================================
