------------------------------- MODULE KFile_W -------------------------------
(***************************************************************************)
(* KFile_W (_KFile_W.cpp): a text file written through a buffer.  The      *)
(* state of one is a record f:                                             *)
(*   buf   the pieces of text in the buffer                                *)
(*   disk  the pieces in the file                                          *)
(*   room  the bytes that fwrite can still put on the disk                 *)
(*   err   m_ErrStt                                                        *)
(* A piece of text is a pair, what it is and its content; a string counts  *)
(* its bytes, any other piece one.  A piece that the disk takes only in    *)
(* part is not kept.                                                       *)
(***************************************************************************)
EXTENDS Integers, Sequences, FiniteSets, SequencesExt

CONSTANT mc_bytes_pad         \* the largest write, and where the buffer is full

ASSUME PadAssumption == mc_bytes_pad \in Nat \ {0}

Width(piece) == IF piece[1] \in {"str", "name"} THEN Len(piece[2]) ELSE 1

Bytes(pieces) == FoldLeft(LAMBDA n, p : n + Width(p), 0, pieces)

Opened(room) == [buf |-> <<>>, disk |-> <<>>, room |-> room, err |-> FALSE]

\* fwrite of the whole buffer.
Fwrite(f) ==
    IF Bytes(f.buf) <= f.room
    THEN [f EXCEPT !.disk = @ \o f.buf, !.buf = <<>>, !.room = @ - Bytes(f.buf)]
    ELSE LET fits == {n \in DOMAIN f.buf : Bytes(SubSeq(f.buf, 1, n)) <= f.room}
         IN [f EXCEPT !.disk = @ \o SubSeq(f.buf, 1, Cardinality(fits)),
                      !.room = 0, !.err = TRUE]

\* The buffer is written out when mc_bytes_pad bytes are in it.
Adv_ptr_next(f, pieces) ==
    LET g == [f EXCEPT !.buf = @ \o pieces]
    IN IF f.err THEN f
       ELSE IF Bytes(g.buf) < mc_bytes_pad THEN g ELSE Fwrite(g)

\* Write and Write_LF: what is too long is replaced by a message.
Write(f, pieces) ==
    IF Bytes(pieces) <= mc_bytes_pad THEN Adv_ptr_next(f, pieces)
    ELSE [Adv_ptr_next(f, << <<"too long", "">>, <<"LF", "">> >>) EXCEPT !.err = TRUE]

\* The writes of a sequence of texts, one after the other.
WriteEach(f, texts) == FoldLeft(Write, f, texts)

\* Mutant: the file is closed without a flush.
ClosedUnflushed(f) == f

\* The destructor: Flush does nothing after an error.
Closed(f) == IF f.err \/ f.buf = <<>> THEN f ELSE Fwrite(f)

=============================================================================
