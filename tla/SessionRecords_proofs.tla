------------------------ MODULE SessionRecords_proofs ------------------------
(***************************************************************************)
(* What a record of the log is on the disk and what the converter makes of *)
(* it, for every id, number, address, name and string: its bytes are a     *)
(* header and its data, and the texts that are written for them are what   *)
(* is meant by the record (Kept), or a string was cut (CutShort).  The log *)
(* is such records, one after the other (LogWires).                        *)
(***************************************************************************)
EXTENDS Session, SequenceLemmas, FiniteSetTheorems

-----------------------------------------------------------------------------
(* The text file *)

\* What is written is made of pieces, of which two kinds are counted by bytes.
Piece1 == {"str", "name"} \X Seq(Nat)
Piece2 == {"num", "ip", "time"} \X Seq(Nat)
Piece3 == ({"LF", "too long"} \X {""}) \cup ({"hdr"} \X ToSet(LogIDs))
TextPiece == Piece1 \cup Piece2 \cup Piece3

WidthStep == [x \in Nat \X TextPiece |-> x[1] + Width(x[2])]

\* A piece has a width.
LEMMA WidthNat ==
    ASSUME NEW p \in TextPiece
    PROVE  Width(p) \in Nat
<1>1. CASE p \in Piece1
  <2>1. p[2] \in Seq(Nat) BY <1>1 DEF Piece1
  <2>2. Len(p[2]) \in Nat BY <2>1, LenProperties
  <2> QED BY <2>2 DEF Width
<1>2. CASE p \in Piece2
  <2>1. p[1] \in {"num", "ip", "time"} BY <1>2 DEF Piece2
  <2> QED BY <2>1 DEF Width
<1>3. CASE p \in Piece3
  <2>1. p[1] \in {"LF", "too long", "hdr"} BY <1>3 DEF Piece3
  <2> QED BY <2>1 DEF Width
<1> QED BY <1>1, <1>2, <1>3 DEF TextPiece

\* Bytes is a fold of the widths.
LEMMA BytesIs ==
    ASSUME NEW ps \in Seq(TextPiece)
    PROVE  Bytes(ps) = Fold(WidthStep, 0, ps) /\ Bytes(ps) \in Nat
<1> DEFINE n == Len(ps)
           C == CHOOSE it : it = [T \in SUBSET DOMAIN ps |->
                  IF T = {} THEN 0 ELSE it[T \ {Max(T)}] + Width(ps[Max(T)])]
<1>1. IsStep(WidthStep, Nat, TextPiece) BY WidthNat DEF IsStep, WidthStep
<1>2. n \in Nat /\ DOMAIN ps = 1..n /\ \A i \in 1..n : ps[i] \in TextPiece
  BY LenProperties, ElementOfSeq
<1>3. PICK it \in [SUBSET (1..n) -> Nat] : Folds(it, WidthStep, 0, ps, n)
  <2>1. 0 \in Nat /\ n \in 0 .. Len(ps) BY <1>2
  <2> QED BY <1>1, <2>1, FoldExists
<1>4. ASSUME NEW T \in SUBSET (1..n), T # {}
      PROVE  Max(T) \in 1..n /\ T \ {Max(T)} \in SUBSET (1..n)
  BY <1>2, <1>4, MaxIs
<1>5. \A x \in Nat, p \in TextPiece : WidthStep[<<x, p>>] = x + Width(p) BY DEF WidthStep
<1>6. it = [T \in SUBSET DOMAIN ps |->
              IF T = {} THEN 0 ELSE it[T \ {Max(T)}] + Width(ps[Max(T)])]
  <2>1. ASSUME NEW T \in SUBSET (1..n)
        PROVE  it[T] = IF T = {} THEN 0 ELSE it[T \ {Max(T)}] + Width(ps[Max(T)])
    <3>1. it[T] = IF T = {} THEN 0 ELSE WidthStep[<<it[T \ {Max(T)}], ps[Max(T)]>>]
      BY <1>3 DEF Folds
    <3> QED BY <3>1, <1>2, <1>4, <1>5
  <2> QED BY <2>1, <1>2
<1>7. C = [T \in SUBSET DOMAIN ps |->
             IF T = {} THEN 0 ELSE C[T \ {Max(T)}] + Width(ps[Max(T)])]
  BY <1>6
<1>8. Bytes(ps) = C[DOMAIN ps]
  BY DEF Bytes, FoldLeft, MapThenFoldSet
<1> HIDE DEF C
<1>9. Iterates(C, WidthStep, Nat, 0, ps)
  <2>1. \A T \in SUBSET (1..n) :
           C[T] = IF T = {} THEN 0 ELSE C[T \ {Max(T)}] + Width(ps[Max(T)])
    BY <1>2, <1>7
  <2>2. C[{}] = 0
    <3>1. {} \in SUBSET (1..n) OBVIOUS
    <3> HIDE DEF n
    <3> QED BY <2>1, <3>1
  <2>3. ASSUME NEW T \in SUBSET (1..n), T # {}, C[T \ {Max(T)}] \in Nat
        PROVE  C[T] = WidthStep[<<C[T \ {Max(T)}], ps[Max(T)]>>]
    <3>1. ps[Max(T)] \in TextPiece BY <2>3, <1>2, <1>4
    <3>2. C[T] = C[T \ {Max(T)}] + Width(ps[Max(T)]) BY <2>1, <2>3
    <3> QED BY <2>3, <3>1, <3>2, <1>5
  <2> QED BY <2>2, <2>3 DEF Iterates
<1>10. C[1..n] = Fold(WidthStep, 0, ps) /\ Fold(WidthStep, 0, ps) \in Nat
  <2>1. 0 \in Nat OBVIOUS
  <2> QED BY <1>1, <1>9, <2>1, IteratesFold, Zenon
<1> QED BY <1>2, <1>8, <1>10

\* How many bytes a text of a few pieces has.
LEMMA BytesAppend ==
    /\ Bytes(<<>>) = 0
    /\ \A ps \in Seq(TextPiece), p \in TextPiece : Bytes(Append(ps, p)) = Bytes(ps) + Width(p)
<1>1. IsStep(WidthStep, Nat, TextPiece) BY WidthNat DEF IsStep, WidthStep
<1>2. 0 \in Nat OBVIOUS
<1>3. /\ Fold(WidthStep, 0, <<>>) = 0
      /\ \A s \in Seq(TextPiece), e \in TextPiece :
            Fold(WidthStep, 0, Append(s, e)) = WidthStep[<<Fold(WidthStep, 0, s), e>>]
  <2>1. GoesOn(WidthStep, 0, TextPiece) BY <1>1, <1>2, FoldAppend
  <2> QED BY <2>1 DEF GoesOn
<1>4. Bytes(<<>>) = 0
  <2>1. <<>> \in Seq(TextPiece) BY EmptySeq
  <2> QED BY <1>3, <2>1, BytesIs
<1>5. ASSUME NEW ps \in Seq(TextPiece), NEW p \in TextPiece
      PROVE  Bytes(Append(ps, p)) = Bytes(ps) + Width(p)
  <2>1. Append(ps, p) \in Seq(TextPiece) BY AppendProperties
  <2>2. Bytes(Append(ps, p)) = Fold(WidthStep, 0, Append(ps, p)) BY <2>1, BytesIs
  <2>3. Bytes(ps) = Fold(WidthStep, 0, ps) /\ Bytes(ps) \in Nat BY BytesIs
  <2>4. Fold(WidthStep, 0, Append(ps, p)) = WidthStep[<<Fold(WidthStep, 0, ps), p>>]
    BY <1>3
  <2>5. WidthStep[<<Bytes(ps), p>>] = Bytes(ps) + Width(p) BY <2>3 DEF WidthStep
  <2> QED BY <2>2, <2>3, <2>4, <2>5
<1> QED BY <1>4, <1>5

\* A text that can be written.
Fits(ps) == ps \in Seq(TextPiece) /\ Bytes(ps) <= mc_bytes_pad

\* The pieces that fit are at most those in the buffer.
LEMMA FitsCount ==
    ASSUME NEW S, NEW b \in Seq(S), NEW T, T \subseteq DOMAIN b
    PROVE  Cardinality(T) \in 0 .. Len(b)
<1>1. Len(b) \in Nat /\ DOMAIN b = 1 .. Len(b) BY LenProperties
<1>2. IsFiniteSet(1 .. Len(b)) /\ Cardinality(1 .. Len(b)) = Len(b)
  <2>1. 1 \in Int /\ Len(b) \in Int BY <1>1
  <2>2. /\ IsFiniteSet(1 .. Len(b))
        /\ Cardinality(1 .. Len(b)) = IF 1 > Len(b) THEN 0 ELSE Len(b) - 1 + 1
    BY <2>1, FS_Interval
  <2> QED BY <1>1, <2>2
<1>3. IsFiniteSet(T) /\ Cardinality(T) <= Cardinality(1 .. Len(b))
  BY <1>1, <1>2, FS_Subset
<1>4. Cardinality(T) \in Nat BY <1>3, FS_CardinalityType
<1> QED BY <1>1, <1>2, <1>3, <1>4

\* A text file.
FileState == [buf : Seq(TextPiece), disk : Seq(TextPiece), room : Nat, err : BOOLEAN]

\* The file f holds the beginning of the text p, its buffer the rest unless the
\* disk is full.
Good(f, p) ==
    /\ f \in FileState /\ p \in Seq(TextPiece) /\ IsPrefix(f.disk, p)
    /\ ~f.err => f.disk \o f.buf = p

\* Writing the buffer out keeps the file good.
LEMMA FwriteGood ==
    ASSUME NEW f, NEW p, Good(f, p), ~f.err
    PROVE  Good(Fwrite(f), p) /\ (~Fwrite(f).err => Fwrite(f).buf = <<>>)
<1>1. /\ f \in FileState /\ f.disk \o f.buf = p /\ p \in Seq(TextPiece)
      /\ f.buf \in Seq(TextPiece) /\ f.disk \in Seq(TextPiece) /\ f.room \in Nat
  BY DEF Good, FileState
<1>2. Bytes(f.buf) \in Nat BY <1>1, BytesIs
<1>3. CASE Bytes(f.buf) <= f.room
  <2> DEFINE g == [f EXCEPT !.disk = f.disk \o f.buf, !.buf = <<>>, !.room = f.room - Bytes(f.buf)]
  <2>1. Fwrite(f) = g BY <1>3 DEF Fwrite
  <2>2. f.room - Bytes(f.buf) \in Nat BY <1>1, <1>2, <1>3
  <2>3. <<>> \in Seq(TextPiece) /\ p \o <<>> = p BY <1>1, EmptySeq, ConcatEmptySeq
  <2>4. g.disk = p /\ g.buf = <<>> /\ g.room = f.room - Bytes(f.buf) /\ g.err = f.err
    BY <1>1 DEF FileState
  <2>5. g \in FileState BY <1>1, <2>2, <2>3 DEF FileState
  <2>6. IsPrefix(p, p \o <<>>) BY <1>1, <2>3, PrefixJoined
  <2> HIDE DEF g
  <2> QED BY <1>1, <2>1, <2>3, <2>4, <2>5, <2>6 DEF Good
<1>4. CASE ~(Bytes(f.buf) <= f.room)
  <2> DEFINE T == {n \in DOMAIN f.buf : Bytes(SubSeq(f.buf, 1, n)) <= f.room}
             k == Cardinality(T)
             g == [f EXCEPT !.disk = f.disk \o SubSeq(f.buf, 1, k), !.room = 0, !.err = TRUE]
  <2>1. Fwrite(f) = g BY <1>4 DEF Fwrite
  <2>2. k \in 0 .. Len(f.buf)
    <3>1. T \subseteq DOMAIN f.buf OBVIOUS
    <3> HIDE DEF T
    <3> QED BY <1>1, <3>1, FitsCount
  <2> HIDE DEF k
  <2>3. IsPrefix(f.disk \o SubSeq(f.buf, 1, k), p) /\ SubSeq(f.buf, 1, k) \in Seq(TextPiece)
    <3> DEFINE a == f.disk
               b == f.buf
    <3>1. a \in Seq(TextPiece) /\ b \in Seq(TextPiece) /\ k \in 0 .. Len(b) /\ a \o b = p
      BY <1>1, <2>2
    <3> HIDE DEF a, b
    <3>2. IsPrefix(a \o SubSeq(b, 1, k), a \o b) BY <3>1, PrefixInside
    <3>3. DividedAt(TextPiece, b, k) BY <3>1, Divided
    <3> QED BY <3>1, <3>2, <3>3 DEF DividedAt, a, b
  <2>4. f.disk \o SubSeq(f.buf, 1, k) \in Seq(TextPiece) BY <1>1, <2>3, ConcatProperties
  <2>5. g \in FileState BY <1>1, <2>4 DEF FileState
  <2>6. g.disk = f.disk \o SubSeq(f.buf, 1, k) /\ g.err = TRUE BY <1>1 DEF FileState
  <2> HIDE DEF g
  <2> QED BY <1>1, <2>1, <2>3, <2>5, <2>6 DEF Good
<1> QED BY <1>3, <1>4

\* Sequences of up to three pieces.
LEMMA SmallSeqs ==
    ASSUME NEW S, NEW a, a \in S, NEW b, b \in S, NEW c, c \in S
    PROVE  /\ <<a>> \in Seq(S) /\ <<a, b>> \in Seq(S) /\ <<a, b, c>> \in Seq(S)
           /\ <<a>> = Append(<<>>, a) /\ <<a, b>> = Append(<<a>>, b)
           /\ <<a, b, c>> = Append(<<a, b>>, c)
OBVIOUS

\* A file without an error is good for some text.
LEMMA GoodForSome ==
    ASSUME NEW f \in FileState, ~f.err
    PROVE  Good(f, f.disk \o f.buf)
<1>1. f.disk \in Seq(TextPiece) /\ f.buf \in Seq(TextPiece) BY DEF FileState
<1>2. f.disk \o f.buf \in Seq(TextPiece) BY <1>1, ConcatProperties
<1>3. IsPrefix(f.disk, f.disk \o f.buf) BY <1>1, PrefixJoined
<1> QED BY <1>2, <1>3 DEF Good

\* The next text, of which a part may be written out.
LEMMA AdvanceGood ==
    ASSUME NEW f, NEW p, Good(f, p), NEW ps \in Seq(TextPiece)
    PROVE  Good(Adv_ptr_next(f, ps), p \o ps)
<1>1. /\ f \in FileState /\ p \in Seq(TextPiece) /\ IsPrefix(f.disk, p)
      /\ f.buf \in Seq(TextPiece) /\ f.disk \in Seq(TextPiece) /\ f.room \in Nat
  BY DEF Good, FileState
<1>2. p \o ps \in Seq(TextPiece) BY <1>1, ConcatProperties
<1>3. CASE f.err
  <2>1. Adv_ptr_next(f, ps) = f BY <1>3 DEF Adv_ptr_next
  <2>2. IsPrefix(f.disk, p \o ps) BY <1>1, PrefixJoined
  <2> QED BY <1>1, <1>2, <1>3, <2>1, <2>2 DEF Good
<1>4. CASE ~f.err
  <2> DEFINE g == [f EXCEPT !.buf = f.buf \o ps]
  <2>1. Adv_ptr_next(f, ps) = IF Bytes(g.buf) < mc_bytes_pad THEN g ELSE Fwrite(g)
    BY <1>4 DEF Adv_ptr_next
  <2>2. f.buf \o ps \in Seq(TextPiece) BY <1>1, ConcatProperties
  <2>3. /\ g \in FileState /\ g.buf = f.buf \o ps /\ g.disk = f.disk /\ g.err = f.err
    BY <1>1, <2>2 DEF FileState
  <2>4. f.disk \o (f.buf \o ps) = p \o ps
    <3>1. f.disk \o f.buf = p BY <1>4 DEF Good
    <3> DEFINE a == f.disk
               b == f.buf
    <3>2. a \in Seq(TextPiece) /\ b \in Seq(TextPiece) BY <1>1
    <3>3. a \o b = p BY <3>1
    <3> HIDE DEF a, b
    <3>4. (a \o b) \o ps = a \o (b \o ps) BY <3>2, Associate
    <3>5. p \o ps = a \o (b \o ps) BY <3>3, <3>4, Zenon
    <3> QED BY <3>5 DEF a, b
  <2> HIDE DEF g
  <2>5. Good(g, p \o ps)
    <3>1. Good(g, g.disk \o g.buf) BY <1>4, <2>3, GoodForSome
    <3> QED BY <2>3, <2>4, <3>1
  <2>6. Good(Fwrite(g), p \o ps) BY <1>4, <2>3, <2>5, FwriteGood
  <2> QED BY <2>1, <2>5, <2>6
<1> QED BY <1>3, <1>4

\* A text that fits is added to what the file should hold.
LEMMA WriteGood ==
    ASSUME NEW f, NEW p, Good(f, p), NEW ps, Fits(ps)
    PROVE  Good(Write(f, ps), p \o ps)
<1>1. Write(f, ps) = Adv_ptr_next(f, ps) BY DEF Write, Fits
<1>2. ps \in Seq(TextPiece) BY DEF Fits
<1> QED BY <1>1, <1>2, AdvanceGood

\* Whatever is written, the file remains one.
LEMMA WriteType ==
    ASSUME NEW f \in FileState, NEW ps \in Seq(TextPiece)
    PROVE  Write(f, ps) \in FileState
<1>1. ASSUME NEW t \in Seq(TextPiece) PROVE Adv_ptr_next(f, t) \in FileState
  <2>1. CASE f.err BY <2>1 DEF Adv_ptr_next
  <2>2. CASE ~f.err
    <3>1. Good(f, f.disk \o f.buf) BY <2>2, GoodForSome
    <3>2. Good(Adv_ptr_next(f, t), (f.disk \o f.buf) \o t) BY <3>1, AdvanceGood
    <3> QED BY <3>2 DEF Good
  <2> QED BY <2>1, <2>2
<1>2. << <<"too long", "">>, <<"LF", "">> >> \in Seq(TextPiece)
  <2>1. <<"too long", "">> \in TextPiece /\ <<"LF", "">> \in TextPiece
    BY DEF TextPiece, Piece3
  <2> QED BY <2>1, SmallSeqs, Zenon
<1>3. \A g \in FileState : [g EXCEPT !.err = TRUE] \in FileState BY DEF FileState
<1>4. CASE Bytes(ps) <= mc_bytes_pad BY <1>1, <1>4 DEF Write
<1>5. CASE ~(Bytes(ps) <= mc_bytes_pad)
  <2> DEFINE g == Adv_ptr_next(f, << <<"too long", "">>, <<"LF", "">> >>)
  <2>1. g \in FileState BY <1>1, <1>2
  <2>2. Write(f, ps) = [g EXCEPT !.err = TRUE] BY <1>5 DEF Write
  <2> HIDE DEF g
  <2> QED BY <1>3, <2>1, <2>2
<1> QED BY <1>4, <1>5

\* Closing writes the rest.
LEMMA ClosedGood ==
    ASSUME NEW f, NEW p, Good(f, p)
    PROVE  Good(Closed(f), p) /\ (~Closed(f).err => Closed(f).buf = <<>>)
<1>1. CASE f.err \/ f.buf = <<>> BY <1>1 DEF Closed
<1>2. CASE ~(f.err \/ f.buf = <<>>)
  <2>1. Closed(f) = Fwrite(f) BY <1>2 DEF Closed
  <2> QED BY <1>2, <2>1, FwriteGood
<1> QED BY <1>1, <1>2

TextSeq == Seq(TextPiece)

WriteStep == [x \in FileState \X TextSeq |-> Write(x[1], x[2])]

\* WriteEach is a fold of the writes.
LEMMA WriteEachIs ==
    ASSUME NEW f \in FileState, NEW ts \in Seq(TextSeq)
    PROVE  WriteEach(f, ts) = Fold(WriteStep, f, ts)
<1> DEFINE n == Len(ts)
           C == CHOOSE it : it = [T \in SUBSET DOMAIN ts |->
                  IF T = {} THEN f ELSE Write(it[T \ {Max(T)}], ts[Max(T)])]
<1>1. IsStep(WriteStep, FileState, TextSeq) BY WriteType DEF IsStep, WriteStep, TextSeq
<1>2. n \in Nat /\ DOMAIN ts = 1..n /\ \A i \in 1..n : ts[i] \in TextSeq
  BY LenProperties, ElementOfSeq
<1>3. PICK it \in [SUBSET (1..n) -> FileState] : Folds(it, WriteStep, f, ts, n)
  <2>1. n \in 0 .. Len(ts) BY <1>2
  <2> QED BY <1>1, <2>1, FoldExists
<1>4. ASSUME NEW T \in SUBSET (1..n), T # {}
      PROVE  Max(T) \in 1..n /\ T \ {Max(T)} \in SUBSET (1..n)
  BY <1>2, <1>4, MaxIs
<1>5. \A x \in FileState, p \in TextSeq : WriteStep[<<x, p>>] = Write(x, p) BY DEF WriteStep
<1>6. it = [T \in SUBSET DOMAIN ts |->
              IF T = {} THEN f ELSE Write(it[T \ {Max(T)}], ts[Max(T)])]
  <2>1. ASSUME NEW T \in SUBSET (1..n)
        PROVE  it[T] = IF T = {} THEN f ELSE Write(it[T \ {Max(T)}], ts[Max(T)])
    <3>1. it[T] = IF T = {} THEN f ELSE WriteStep[<<it[T \ {Max(T)}], ts[Max(T)]>>]
      BY <1>3 DEF Folds
    <3> QED BY <3>1, <1>2, <1>4, <1>5
  <2> QED BY <2>1, <1>2
<1>7. C = [T \in SUBSET DOMAIN ts |->
             IF T = {} THEN f ELSE Write(C[T \ {Max(T)}], ts[Max(T)])]
  BY <1>6
<1>8. WriteEach(f, ts) = C[DOMAIN ts]
  BY DEF WriteEach, FoldLeft, MapThenFoldSet
<1> HIDE DEF C
<1>9. Iterates(C, WriteStep, FileState, f, ts)
  <2>1. \A T \in SUBSET (1..n) :
           C[T] = IF T = {} THEN f ELSE Write(C[T \ {Max(T)}], ts[Max(T)])
    BY <1>2, <1>7
  <2>2. C[{}] = f
    <3>1. {} \in SUBSET (1..n) OBVIOUS
    <3> HIDE DEF n
    <3> QED BY <2>1, <3>1
  <2>3. ASSUME NEW T \in SUBSET (1..n), T # {}, C[T \ {Max(T)}] \in FileState
        PROVE  C[T] = WriteStep[<<C[T \ {Max(T)}], ts[Max(T)]>>]
    <3>1. ts[Max(T)] \in TextSeq BY <2>3, <1>2, <1>4
    <3>2. C[T] = Write(C[T \ {Max(T)}], ts[Max(T)]) BY <2>1, <2>3
    <3> QED BY <2>3, <3>1, <3>2, <1>5
  <2> QED BY <2>2, <2>3 DEF Iterates
<1>10. C[1..n] = Fold(WriteStep, f, ts)
  <2>1. f \in FileState /\ ts \in Seq(TextSeq) OBVIOUS
  <2> QED BY <1>1, <1>9, <2>1, IteratesFold
<1> QED BY <1>2, <1>8, <1>10

\* How several texts are written.
LEMMA WriteEachAppend ==
    ASSUME NEW f, f \in FileState
    PROVE  /\ WriteEach(f, <<>>) = f
           /\ \A ts \in Seq(TextSeq), t \in TextSeq :
                 WriteEach(f, Append(ts, t)) = Write(WriteEach(f, ts), t)
<1>1. IsStep(WriteStep, FileState, TextSeq) BY WriteType DEF IsStep, WriteStep, TextSeq
<1>2. GoesOn(WriteStep, f, TextSeq) BY <1>1, FoldAppend
<1>3. WriteEach(f, <<>>) = f
  <2>1. <<>> \in Seq(TextSeq) BY EmptySeq
  <2> QED BY <1>2, <2>1, WriteEachIs DEF GoesOn
<1>4. ASSUME NEW ts \in Seq(TextSeq), NEW t \in TextSeq
      PROVE  WriteEach(f, Append(ts, t)) = Write(WriteEach(f, ts), t)
  <2>1. Append(ts, t) \in Seq(TextSeq) BY AppendProperties
  <2>2. WriteEach(f, Append(ts, t)) = Fold(WriteStep, f, Append(ts, t)) BY <2>1, WriteEachIs
  <2>3. WriteEach(f, ts) = Fold(WriteStep, f, ts) BY WriteEachIs
  <2>4. Fold(WriteStep, f, Append(ts, t)) = WriteStep[<<Fold(WriteStep, f, ts), t>>]
    BY <1>2 DEF GoesOn
  <2>5. Fold(WriteStep, f, ts) \in FileState BY <1>1, FoldKnown, Zenon
  <2>6. WriteStep[<<WriteEach(f, ts), t>>] = Write(WriteEach(f, ts), t)
    BY <2>3, <2>5 DEF WriteStep
  <2> QED BY <2>2, <2>3, <2>4, <2>6
<1> QED BY <1>3, <1>4

\* All of the texts fit.
AllFit(ts) == ts \in Seq(TextSeq) /\ \A i \in 1 .. Len(ts) : Fits(ts[i])

\* Texts that fit are added one after the other.
LEMMA WriteEachGood ==
    ASSUME NEW f, NEW p, Good(f, p), NEW ts, AllFit(ts)
    PROVE  Good(WriteEach(f, ts), p \o FlattenSeq(ts))
<1> DEFINE n == Len(ts)
           P(i) == SubSeq(ts, 1, i)
           G == {i \in 0..n : Good(WriteEach(f, P(i)), p \o FlattenSeq(P(i)))}
<1>1. n \in Nat /\ ts \in Seq(TextSeq) BY LenProperties DEF AllFit
<1>2. f \in FileState /\ p \in Seq(TextPiece) BY DEF Good
<1>3. 0 \in G
  <2>1. P(0) = <<>> BY <1>1, PrefixEnds
  <2>2. WriteEach(f, <<>>) = f BY <1>2, WriteEachAppend
  <2>3. p \o FlattenSeq(<<>>) = p BY <1>2, FlattenEmpty, ConcatEmptySeq
  <2>4. Good(WriteEach(f, P(0)), p \o FlattenSeq(P(0))) BY <2>1, <2>2, <2>3
  <2> HIDE DEF P
  <2> QED BY <1>1, <2>4
<1>4. ASSUME NEW i \in 1..n, i - 1 \in G PROVE i \in G
  <2>1. i \in 0..n /\ Fits(ts[i]) BY <1>1 DEF AllFit
  <2> DEFINE u == P(i - 1)
             e == ts[i]
  <2>2. P(i) = Append(u, e) /\ u \in Seq(TextSeq) /\ e \in TextSeq
    BY <1>1, PrefixStep
  <2>3. Good(WriteEach(f, u), p \o FlattenSeq(u)) BY <1>4
  <2> HIDE DEF P, u, e, n
  <2>4. WriteEach(f, Append(u, e)) = Write(WriteEach(f, u), e) BY <1>2, <2>2, WriteEachAppend
  <2>5. FlattenSeq(Append(u, e)) = FlattenSeq(u) \o e /\ FlattenSeq(u) \in Seq(TextPiece)
    BY <2>2, FlattenAppend, FlattenType DEF TextSeq
  <2>6. Good(Write(WriteEach(f, u), e), (p \o FlattenSeq(u)) \o e)
    BY <2>1, <2>3, WriteGood DEF e
  <2>7. (p \o FlattenSeq(u)) \o e = p \o (FlattenSeq(u) \o e)
    BY <1>2, <2>2, <2>5, Associate DEF TextSeq
  <2>8. Good(WriteEach(f, P(i)), p \o FlattenSeq(P(i)))
    BY <2>2, <2>4, <2>5, <2>6, <2>7, Zenon
  <2> QED BY <2>1, <2>8
<1>5. \A i \in 0..n : i \in G
  <2> HIDE DEF G, n
  <2> QED BY <1>1, <1>3, <1>4, UpTo
<1>6. n \in 0..n /\ P(n) = ts BY <1>1, PrefixEnds
<1> HIDE DEF P
<1>7. Good(WriteEach(f, P(n)), p \o FlattenSeq(P(n)))
  <2> HIDE DEF n
  <2> QED BY <1>5, <1>6
<1> QED BY <1>6, <1>7

-----------------------------------------------------------------------------
(* Integers as bytes *)

\* The bytes of an integer, one by one.
LEMMA LEAt ==
    ASSUME NEW w \in Nat, NEW n \in Nat
    PROVE  \A i \in 1..w :
              LE(w, n)[i] = IF i = 1 THEN n % 256 ELSE IF i = 2 THEN (n \div 256) % 256
                            ELSE IF i = 3 THEN (n \div 65536) % 256 ELSE 0
<1> SUFFICES ASSUME NEW i \in 1..w
             PROVE  LE(w, n)[i] = IF i = 1 THEN n % 256 ELSE IF i = 2 THEN (n \div 256) % 256
                                  ELSE IF i = 3 THEN (n \div 65536) % 256 ELSE 0
  OBVIOUS
<1>1. LE(w, n)[i] = IF i <= 3 THEN (n \div 256^(i - 1)) % 256 ELSE 0 BY DEF LE
<1>2. CASE i = 1
  <2>1. 256^(1 - 1) = 1 OBVIOUS
  <2>2. LE(w, n)[i] = (n \div 1) % 256 BY <1>1, <1>2, <2>1
  <2> QED BY <1>2, <2>2
<1>3. CASE i = 2
  <2>1. 256^(2 - 1) = 256 OBVIOUS
  <2>2. LE(w, n)[i] = (n \div 256) % 256 BY <1>1, <1>3, <2>1
  <2> QED BY <1>3, <2>2
<1>4. CASE i = 3
  <2>1. 256^(3 - 1) = 65536 OBVIOUS
  <2>2. LE(w, n)[i] = (n \div 65536) % 256 BY <1>1, <1>4, <2>1
  <2> QED BY <1>4, <2>2
<1>5. CASE i > 3 BY <1>1, <1>5
<1> QED BY <1>2, <1>3, <1>4, <1>5

\* The i-th byte of an integer.
ByteOf(n, i) == IF i = 1 THEN n % 256 ELSE IF i = 2 THEN (n \div 256) % 256
                ELSE IF i = 3 THEN (n \div 65536) % 256 ELSE 0

\* The bytes, named.
LEMMA LEBytes == \A w \in Nat, n \in Nat : \A i \in 1..w : LE(w, n)[i] = ByteOf(n, i)
BY LEAt DEF ByteOf

\* They are bytes, as many as asked for.
LEMMA LEType ==
    ASSUME NEW w \in Nat, NEW n \in Nat
    PROVE  LE(w, n) \in Seq(Byte) /\ Len(LE(w, n)) = w
<1>1. ASSUME NEW i \in 1..w PROVE LE(w, n)[i] \in Byte
  <2>1. n % 256 \in 0..255 /\ (n \div 256) % 256 \in 0..255 /\ (n \div 65536) % 256 \in 0..255
    OBVIOUS
  <2>2. LE(w, n)[i] = IF i = 1 THEN n % 256 ELSE IF i = 2 THEN (n \div 256) % 256
                      ELSE IF i = 3 THEN (n \div 65536) % 256 ELSE 0
    BY LEAt
  <2> QED BY <2>1, <2>2 DEF Byte
<1>2. LE(w, n) \in [1..w -> Byte]
  <2>1. LE(w, n) = [i \in 1..w |-> LE(w, n)[i]] BY DEF LE
  <2> HIDE DEF LE
  <2> QED BY <1>1, <2>1
<1> DEFINE f == LE(w, n)
<1> HIDE DEF f
<1>3. f \in [1..w -> Byte] BY <1>2 DEF f
<1>4. f \in Seq(Byte) /\ Len(f) = w BY <1>3, FunctionIsSeq
<1> QED BY <1>4 DEF f

-----------------------------------------------------------------------------
(* Integers without their leading zeros *)

\* Two sequences of bytes that differ by zeros at their end only.
SameBytes(a, b) ==
    \A i \in Nat \ {0} :
       (IF i \in DOMAIN a THEN a[i] ELSE 0) = (IF i \in DOMAIN b THEN b[i] ELSE 0)

\* They are one integer.
LEMMA SameSignificant ==
    ASSUME NEW S, S \subseteq Nat, NEW a \in Seq(S), NEW b \in Seq(S), SameBytes(a, b)
    PROVE  Significant(a) = Significant(b)
<1> DEFINE U(s) == {i \in DOMAIN s : s[i] # 0}
           top(s) == IF U(s) = {} THEN 0 ELSE Max(U(s))
<1>1. /\ Len(a) \in Nat /\ DOMAIN a = 1 .. Len(a) /\ Len(b) \in Nat /\ DOMAIN b = 1 .. Len(b)
  BY LenProperties
<1>2. U(a) = U(b)
  <2>1. ASSUME NEW i \in U(a) PROVE i \in U(b)
    <3>1. i \in DOMAIN a /\ a[i] # 0 /\ i \in Nat \ {0} BY <1>1
    <3> QED BY <3>1 DEF SameBytes
  <2>2. ASSUME NEW i \in U(b) PROVE i \in U(a)
    <3>1. i \in DOMAIN b /\ b[i] # 0 /\ i \in Nat \ {0} BY <1>1
    <3> QED BY <3>1 DEF SameBytes
  <2> QED BY <2>1, <2>2
<1>3. Significant(a) = SubSeq(a, 1, top(a)) /\ Significant(b) = SubSeq(b, 1, top(b))
  BY DEF Significant
<1>4. top(a) = top(b) BY <1>2
<1>5. top(a) \in 0 .. Len(a) /\ top(a) \in 0 .. Len(b)
  <2>1. CASE U(a) = {} BY <2>1, <1>1
  <2>2. CASE U(a) # {}
    <3>1. U(a) \in SUBSET (1 .. Len(a)) /\ U(b) \in SUBSET (1 .. Len(b)) BY <1>1
    <3> HIDE DEF U
    <3>2. Max(U(a)) \in U(a) BY <1>1, <2>2, <3>1, MaxIs
    <3> QED BY <1>2, <2>2, <3>1, <3>2
  <2> QED BY <2>1, <2>2
<1> DEFINE n == top(a)
<1>6. n \in 0 .. Len(a) /\ n \in 0 .. Len(b) BY <1>5
<1>7. Significant(a) = SubSeq(a, 1, n) /\ Significant(b) = SubSeq(b, 1, n) BY <1>3, <1>4
<1> HIDE DEF n
<1>8. /\ SubSeq(a, 1, n) \in Seq(S) /\ Len(SubSeq(a, 1, n)) = n
      /\ \A i \in 1..n : SubSeq(a, 1, n)[i] = a[i]
  <2>1. 1 \in 1 .. Len(a) + 1 /\ n \in 1 - 1 .. Len(a) /\ n - 1 + 1 = n BY <1>1, <1>6
  <2>2. \A i \in 1..n : 1 + i - 1 = i OBVIOUS
  <2> QED BY <2>1, <2>2, Slice
<1>9. /\ SubSeq(b, 1, n) \in Seq(S) /\ Len(SubSeq(b, 1, n)) = n
      /\ \A i \in 1..n : SubSeq(b, 1, n)[i] = b[i]
  <2>1. 1 \in 1 .. Len(b) + 1 /\ n \in 1 - 1 .. Len(b) /\ n - 1 + 1 = n BY <1>1, <1>6
  <2>2. \A i \in 1..n : 1 + i - 1 = i OBVIOUS
  <2> QED BY <2>1, <2>2, Slice
<1>10. \A i \in 1..n : a[i] = b[i]
  <2>1. \A i \in 1..n : i \in Nat \ {0} /\ i \in DOMAIN a /\ i \in DOMAIN b BY <1>1, <1>6
  <2> QED BY <2>1 DEF SameBytes
<1> DEFINE p == SubSeq(a, 1, n)
           q == SubSeq(b, 1, n)
<1>11. /\ p \in Seq(S) /\ q \in Seq(S) /\ Len(p) = Len(q) /\ \A i \in 1 .. Len(p) : p[i] = q[i]
  BY <1>8, <1>9, <1>10
<1> HIDE DEF p, q
<1>12. p = q BY <1>11, SameSeq
<1> QED BY <1>7, <1>12 DEF p, q

\* An integer in fewer bytes, if it fits in them.
Lengths == {n \in Nat : n < 65536}
SameNumber(a, b) == Significant(a) = Significant(b)

\* The number is the same, read with its leading zeros or without.
LEMMA FewerBytes ==
    ASSUME NEW n \in Nat
    PROVE  /\ SameNumber(LE(4, n), LE(8, n))
           /\ n \in Lengths => SameNumber(LE(2, n), LE(8, n))
           /\ n \in Byte => SameNumber(<<n>>, LE(8, n))
<1>1. Byte \subseteq Nat BY DEF Byte
<1>2. /\ LE(8, n) \in Seq(Byte) /\ DOMAIN LE(8, n) = 1..8
      /\ LE(4, n) \in Seq(Byte) /\ DOMAIN LE(4, n) = 1..4
      /\ LE(2, n) \in Seq(Byte) /\ DOMAIN LE(2, n) = 1..2
  BY LEType, LenProperties
<1> DEFINE at(i) == IF i = 1 THEN n % 256 ELSE IF i = 2 THEN (n \div 256) % 256
                    ELSE IF i = 3 THEN (n \div 65536) % 256 ELSE 0
<1>3. /\ \A i \in 1..8 : LE(8, n)[i] = at(i)
      /\ \A i \in 1..4 : LE(4, n)[i] = at(i)
      /\ \A i \in 1..2 : LE(2, n)[i] = at(i)
  <2>1. \A i : at(i) = ByteOf(n, i) BY DEF ByteOf
  <2> HIDE DEF at
  <2>2. n \in Nat /\ 8 \in Nat /\ 4 \in Nat /\ 2 \in Nat OBVIOUS
  <2>3. \A i \in 1..8 : LE(8, n)[i] = ByteOf(n, i) BY ONLY <2>2, LEBytes
  <2>4. \A i \in 1..4 : LE(4, n)[i] = ByteOf(n, i) BY ONLY <2>2, LEBytes
  <2>5. \A i \in 1..2 : LE(2, n)[i] = ByteOf(n, i) BY ONLY <2>2, LEBytes
  <2> QED BY ONLY <2>1, <2>3, <2>4, <2>5
<1>4. \A i \in Nat : i > 4 => at(i) = 0 OBVIOUS
<1>5. SameBytes(LE(4, n), LE(8, n))
  <2> HIDE DEF at
  <2>1. ASSUME NEW i \in Nat \ {0}
        PROVE  (IF i \in 1..4 THEN LE(4, n)[i] ELSE 0) = (IF i \in 1..8 THEN LE(8, n)[i] ELSE 0)
    BY <1>3, <1>4
  <2> QED BY <1>2, <2>1 DEF SameBytes
<1>6. ASSUME n < 65536 PROVE SameBytes(LE(2, n), LE(8, n))
  <2>1. (n \div 65536) % 256 = 0 BY <1>6
  <2>2. \A i \in Nat : i > 2 => at(i) = 0 BY <2>1
  <2> HIDE DEF at
  <2>3. ASSUME NEW i \in Nat \ {0}
        PROVE  (IF i \in 1..2 THEN LE(2, n)[i] ELSE 0) = (IF i \in 1..8 THEN LE(8, n)[i] ELSE 0)
    BY <1>3, <2>2
  <2> QED BY <1>2, <2>3 DEF SameBytes
<1>7. ASSUME n < 256 PROVE SameBytes(<<n>>, LE(8, n))
  <2>1. (n \div 65536) % 256 = 0 /\ (n \div 256) % 256 = 0 /\ n % 256 = n BY <1>7
  <2>2. at(1) = n /\ \A i \in Nat : i > 1 => at(i) = 0 BY <2>1
  <2> HIDE DEF at
  <2>3. DOMAIN <<n>> = 1..1 /\ <<n>>[1] = n OBVIOUS
  <2>4. ASSUME NEW i \in Nat \ {0}
        PROVE  (IF i \in 1..1 THEN <<n>>[i] ELSE 0) = (IF i \in 1..8 THEN LE(8, n)[i] ELSE 0)
    <3>1. CASE i = 1 BY <3>1, <1>3, <2>2, <2>3
    <3>2. CASE i # 1
      <4>1. i \notin 1..1 /\ i > 1 BY <3>2
      <4> QED BY <4>1, <1>3, <2>2
    <3> QED BY <3>1, <3>2
  <2> QED BY <1>2, <2>3, <2>4 DEF SameBytes
<1>8. n < 256 => <<n>> \in Seq(Byte) BY SmallSeqs DEF Byte
<1> HIDE DEF at
<1>9. \A a, b \in Seq(Byte) : SameBytes(a, b) => Significant(a) = Significant(b)
  BY <1>1, SameSignificant
<1>10. Significant(LE(4, n)) = Significant(LE(8, n)) BY <1>2, <1>5, <1>9
<1>11. n < 65536 => Significant(LE(2, n)) = Significant(LE(8, n)) BY <1>2, <1>6, <1>9
<1>12. ASSUME n < 256 PROVE Significant(<<n>>) = Significant(LE(8, n))
  <2> DEFINE b == <<n>>
  <2>1. b \in Seq(Byte) /\ SameBytes(b, LE(8, n)) BY <1>7, <1>8, <1>12
  <2> HIDE DEF b
  <2>2. Significant(b) = Significant(LE(8, n)) BY <1>2, <1>9, <2>1
  <2> QED BY <2>2 DEF b
<1>13. (\A m \in Lengths : m < 65536) /\ (\A m \in Byte : m < 256) BY DEF Lengths, Byte
<1> QED BY <1>10, <1>11, <1>12, <1>13 DEF SameNumber

-----------------------------------------------------------------------------
(* Sums *)

PlusStep == [x \in Nat \X Nat |-> x[1] + x[2]]

\* The sum of some numbers, as a fold.
Total(s) ==
    (CHOOSE it : it = [T \in SUBSET DOMAIN s |->
        IF T = {} THEN 0 ELSE it[T \ {Max(T)}] + s[Max(T)]])[DOMAIN s]

\* What is a fold of sums is computed term by term.
LEMMA TotalIs ==
    ASSUME NEW s \in Seq(Nat)
    PROVE  Total(s) = Fold(PlusStep, 0, s)
<1> DEFINE n == Len(s)
           C == CHOOSE it : it = [T \in SUBSET DOMAIN s |->
                  IF T = {} THEN 0 ELSE it[T \ {Max(T)}] + s[Max(T)]]
<1>1. IsStep(PlusStep, Nat, Nat) BY DEF IsStep, PlusStep
<1>2. n \in Nat /\ DOMAIN s = 1..n /\ \A i \in 1..n : s[i] \in Nat
  BY LenProperties, ElementOfSeq
<1>3. PICK it \in [SUBSET (1..n) -> Nat] : Folds(it, PlusStep, 0, s, n)
  <2>1. 0 \in Nat /\ n \in 0 .. Len(s) BY <1>2
  <2> QED BY <1>1, <2>1, FoldExists
<1>4. ASSUME NEW T \in SUBSET (1..n), T # {}
      PROVE  Max(T) \in 1..n /\ T \ {Max(T)} \in SUBSET (1..n)
  BY <1>2, <1>4, MaxIs
<1>5. \A x \in Nat, p \in Nat : PlusStep[<<x, p>>] = x + p BY DEF PlusStep
<1>6. it = [T \in SUBSET DOMAIN s |->
              IF T = {} THEN 0 ELSE it[T \ {Max(T)}] + s[Max(T)]]
  <2>1. ASSUME NEW T \in SUBSET (1..n)
        PROVE  it[T] = IF T = {} THEN 0 ELSE it[T \ {Max(T)}] + s[Max(T)]
    <3>1. it[T] = IF T = {} THEN 0 ELSE PlusStep[<<it[T \ {Max(T)}], s[Max(T)]>>]
      BY <1>3 DEF Folds
    <3> QED BY <3>1, <1>2, <1>4, <1>5
  <2> QED BY <2>1, <1>2
<1>7. C = [T \in SUBSET DOMAIN s |-> IF T = {} THEN 0 ELSE C[T \ {Max(T)}] + s[Max(T)]]
  BY <1>6
<1>8. Total(s) = C[DOMAIN s] BY DEF Total
<1> HIDE DEF C
<1>9. Iterates(C, PlusStep, Nat, 0, s)
  <2>1. \A T \in SUBSET (1..n) :
           C[T] = IF T = {} THEN 0 ELSE C[T \ {Max(T)}] + s[Max(T)]
    BY <1>2, <1>7
  <2>2. C[{}] = 0
    <3>1. {} \in SUBSET (1..n) OBVIOUS
    <3> HIDE DEF n
    <3> QED BY <2>1, <3>1
  <2>3. ASSUME NEW T \in SUBSET (1..n), T # {}, C[T \ {Max(T)}] \in Nat
        PROVE  C[T] = PlusStep[<<C[T \ {Max(T)}], s[Max(T)]>>]
    <3>1. s[Max(T)] \in Nat BY <2>3, <1>2, <1>4
    <3>2. C[T] = C[T \ {Max(T)}] + s[Max(T)] BY <2>1, <2>3
    <3> QED BY <2>3, <3>1, <3>2, <1>5
  <2> QED BY <2>2, <2>3 DEF Iterates
<1>10. C[1..n] = Fold(PlusStep, 0, s)
  <2> DEFINE Y == Nat
  <2>1. 0 \in Nat /\ s \in Seq(Y) /\ IsStep(PlusStep, Nat, Y) BY <1>1
  <2> HIDE DEF Y, n
  <2>2. C[1..Len(s)] = Fold(PlusStep, 0, s) /\ Fold(PlusStep, 0, s) \in Nat
    BY <1>9, <2>1, IteratesFold, Zenon
  <2> QED BY <2>2 DEF n
<1> QED BY <1>2, <1>8, <1>10

\* The sums of up to three numbers.
LEMMA Totals ==
    /\ Total(<<>>) = 0
    /\ \A a \in Nat : Total(<<a>>) = a
    /\ \A a, b \in Nat : Total(<<a, b>>) = a + b
    /\ \A a, b, c \in Nat : Total(<<a, b, c>>) = a + b + c
<1>1. IsStep(PlusStep, Nat, Nat) /\ 0 \in Nat BY DEF IsStep, PlusStep
<1>2. GoesOn(PlusStep, 0, Nat) BY <1>1, FoldAppend
<1>3. \A x \in Nat, p \in Nat : PlusStep[<<x, p>>] = x + p BY DEF PlusStep
<1>4. Total(<<>>) = 0
  <2>1. <<>> \in Seq(Nat) BY EmptySeq
  <2> QED BY <1>2, <2>1, TotalIs DEF GoesOn
<1>5. ASSUME NEW s \in Seq(Nat), NEW e \in Nat, Total(s) \in Nat
      PROVE  Total(Append(s, e)) = Total(s) + e /\ Total(Append(s, e)) \in Nat
  <2>1. Append(s, e) \in Seq(Nat) BY AppendProperties
  <2>2. Total(s) = Fold(PlusStep, 0, s) /\ Total(Append(s, e)) = Fold(PlusStep, 0, Append(s, e))
    BY <2>1, TotalIs
  <2>3. Total(Append(s, e)) = PlusStep[<<Total(s), e>>] BY <1>2, <2>2 DEF GoesOn
  <2>4. Total(Append(s, e)) = Total(s) + e BY <1>3, <1>5, <2>3
  <2> QED BY <1>5, <2>4
<1>6. ASSUME NEW a \in Nat, NEW b \in Nat, NEW c \in Nat
      PROVE  Total(<<a>>) = a /\ Total(<<a, b>>) = a + b /\ Total(<<a, b, c>>) = a + b + c
  <2>1. /\ <<a>> \in Seq(Nat) /\ <<a, b>> \in Seq(Nat) /\ <<>> \in Seq(Nat)
        /\ <<a>> = Append(<<>>, a) /\ <<a, b>> = Append(<<a>>, b)
        /\ <<a, b, c>> = Append(<<a, b>>, c)
    BY SmallSeqs, EmptySeq
  <2>2. Total(<<a>>) = 0 + a /\ Total(<<a>>) \in Nat
    <3>1. Total(<<>>) \in Nat BY <1>4
    <3>2. Total(Append(<<>>, a)) = Total(<<>>) + a /\ Total(Append(<<>>, a)) \in Nat
      BY <1>5, <2>1, <3>1
    <3> QED BY <1>4, <2>1, <3>2
  <2>3. Total(<<a, b>>) = Total(<<a>>) + b /\ Total(<<a, b>>) \in Nat BY <1>5, <2>1, <2>2
  <2>4. Total(<<a, b, c>>) = Total(<<a, b>>) + c BY <1>5, <2>1, <2>3
  <2> QED BY <2>2, <2>3, <2>4
<1> QED BY <1>4, <1>6

\* The data of a record of numbers have the length that they add up to.
LEMMA FixedTotal ==
    ASSUME NEW id, id \notin Strings \cup Users \cup IPv4s \cup IPv6s \cup Counted \cup {"UNIX_TIME"}
    PROVE  FixedLen(id) = Total(Numbers(id))
<1>1. /\ id \notin Strings \cup Users /\ id \notin IPv4s /\ id \notin IPv6s /\ id # "UNIX_TIME"
      /\ id # "Chk_IP_many_times_cnct_v4" /\ id # "Chk_IP_many_times_cnct_v6"
  BY DEF Counted
<1> QED BY <1>1 DEF FixedLen, FoldLeft, MapThenFoldSet, Total

-----------------------------------------------------------------------------
(* Ids and headers *)

IDs == ToSet(LogIDs)

\* An id is found by its value.
LEMMA ValueOfId ==
    ASSUME NEW id \in IDs
    PROVE  /\ ValueOf(id) \in Byte /\ ValueOf(id) < EN_END_LOG_ID
           /\ LogIDs[ValueOf(id) + 1] = id
<1>1. Len(LogIDs) = 38 /\ DOMAIN LogIDs = 1..38 BY DEF LogIDs
<1>2. EN_END_LOG_ID = 38 BY <1>1 DEF EN_END_LOG_ID
<1>3. \E v \in 0 .. EN_END_LOG_ID - 1 : LogIDs[v + 1] = id
  <2>1. PICK i \in DOMAIN LogIDs : LogIDs[i] = id BY DEF IDs, ToSet
  <2>2. i - 1 \in 0 .. EN_END_LOG_ID - 1 /\ (i - 1) + 1 = i BY <1>1, <1>2, <2>1
  <2> QED BY <2>1, <2>2
<1>4. ValueOf(id) \in 0 .. EN_END_LOG_ID - 1 /\ LogIDs[ValueOf(id) + 1] = id
  BY <1>3 DEF ValueOf
<1> QED BY <1>2, <1>4 DEF Byte

\* The three bytes before the data.
LEMMA HeaderBytes ==
    ASSUME NEW id \in IDs, NEW len \in Lengths
    PROVE  /\ Header(id, len) \in Seq(Byte) /\ Len(Header(id, len)) = 3
           /\ Header(id, len)[1] = ValueOf(id)
           /\ Header(id, len)[2] + 256 * Header(id, len)[3] = len
<1>1. len \in Nat /\ len < 65536 BY DEF Lengths
<1> DEFINE a == <<ValueOf(id)>>
           b == LE(2, len)
<1>2. b \in Seq(Byte) /\ Len(b) = 2
  <2>1. \A n \in Nat : LE(2, n) \in Seq(Byte) /\ Len(LE(2, n)) = 2 BY LEType
  <2> QED BY <1>1, <2>1
<1>3. b[1] = len % 256 /\ b[2] = (len \div 256) % 256 BY <1>1, LEAt
<1>4. a \in Seq(Byte) /\ Len(a) = 1 /\ a[1] = ValueOf(id)
  <2>1. ValueOf(id) \in Byte BY ValueOfId
  <2>2. a \in Seq(Byte) BY <2>1, SmallSeqs
  <2> QED BY <2>2
<1> HIDE DEF a, b
<1>5. /\ a \o b \in Seq(Byte) /\ Len(a \o b) = 1 + 2
      /\ \A i \in 1 .. 1 + 2 : (a \o b)[i] = IF i <= 1 THEN a[i] ELSE b[i - 1]
  BY <1>2, <1>4, ConcatProperties
<1>6. (a \o b)[1] = a[1] /\ (a \o b)[2] = b[1] /\ (a \o b)[3] = b[2] BY <1>5
<1>7. b[1] + 256 * b[2] = len
  <2>1. (len % 256) + 256 * ((len \div 256) % 256) = len BY <1>1
  <2> QED BY <1>3, <2>1
<1>8. Header(id, len) = a \o b BY DEF Header, a, b
<1> QED BY <1>4, <1>5, <1>6, <1>7, <1>8

-----------------------------------------------------------------------------
(* Pieces of text *)

\* A piece that counts as one byte.
Short(p) == p \in TextPiece /\ Width(p) = 1

\* The header of an id and the end of a line are.
LEMMA ShortHdr == Short(LF) /\ \A id \in IDs : Short(Hdr(id))
<1>1. Short(LF) BY DEF Short, LF, TextPiece, Piece3, Width
<1>2. ASSUME NEW id \in IDs PROVE Short(Hdr(id))
  <2>1. Hdr(id) \in TextPiece BY DEF Hdr, TextPiece, Piece3, IDs
  <2> QED BY <2>1 DEF Short, Width, Hdr
<1> QED BY <1>1, <1>2

\* The bytes of a number are bytes.
LEMMA SignificantType ==
    ASSUME NEW a \in Seq(Byte)
    PROVE  Significant(a) \in Seq(Byte)
<1> DEFINE U == {i \in DOMAIN a : a[i] # 0}
           n == IF U = {} THEN 0 ELSE Max(U)
<1>1. Len(a) \in Nat /\ DOMAIN a = 1 .. Len(a) BY LenProperties
<1>2. n \in 0 .. Len(a)
  <2>1. CASE U = {} BY <2>1, <1>1
  <2>2. CASE U # {}
    <3>1. U \in SUBSET (1 .. Len(a)) BY <1>1
    <3> HIDE DEF U
    <3>2. Max(U) \in U BY <1>1, <2>2, <3>1, MaxIs
    <3>3. n = Max(U) BY <2>2
    <3>4. n \in 1 .. Len(a) BY <3>1, <3>2, <3>3
    <3> QED BY <1>1, <3>4
  <2> QED BY <2>1, <2>2
<1>3. Significant(a) = SubSeq(a, 1, n) BY DEF Significant
<1> HIDE DEF n
<1>4. 1 \in 1 .. Len(a) + 1 /\ n \in 1 - 1 .. Len(a) BY <1>1, <1>2
<1> QED BY <1>3, <1>4, Slice

\* Bytes are numbers.
LEMMA BytesNat == Seq(Byte) \subseteq Seq(Nat)
<1>1. Byte \subseteq Nat BY DEF Byte
<1> QED BY <1>1, SeqMonotonic

\* A number and an address read from the data of a record.
LEMMA ShortNum ==
    ASSUME NEW d \in Seq(Byte), NEW o \in Nat, NEW w \in Nat, o + w <= Len(d)
    PROVE  Short(Num(d, o, w)) /\ Short(IP(d, o, w))
<1>1. SubSeq(d, o + 1, o + w) \in Seq(Byte)
  <2>1. o + 1 \in 1 .. Len(d) + 1 /\ o + w \in o + 1 - 1 .. Len(d)
    <3>1. Len(d) \in Nat BY LenProperties
    <3> QED BY <3>1
  <2> QED BY <2>1, Slice
<1> DEFINE s == SubSeq(d, o + 1, o + w)
<1>2. s \in Seq(Nat) /\ Significant(s) \in Seq(Nat) BY <1>1, SignificantType, BytesNat
<1>3. Num(d, o, w) = <<"num", Significant(s)>> /\ IP(d, o, w) = <<"ip", s>>
  BY DEF Num, IP
<1> HIDE DEF s
<1>4. <<"num", Significant(s)>> \in TextPiece /\ <<"ip", s>> \in TextPiece
  BY <1>2 DEF TextPiece, Piece2
<1> QED BY <1>3, <1>4 DEF Short, Width

\* A few short pieces fit.
LEMMA ShortFits ==
    ASSUME NEW a, Short(a), NEW b, Short(b), NEW c, Short(c)
    PROVE  Fits(<<a>>) /\ Fits(<<a, b>>) /\ Fits(<<a, b, c>>)
<1>1. /\ a \in TextPiece /\ b \in TextPiece /\ c \in TextPiece
      /\ Width(a) = 1 /\ Width(b) = 1 /\ Width(c) = 1
  BY DEF Short
<1>2. /\ <<a>> \in Seq(TextPiece) /\ <<a, b>> \in Seq(TextPiece) /\ <<a, b, c>> \in Seq(TextPiece)
      /\ <<a>> = Append(<<>>, a) /\ <<a, b>> = Append(<<a>>, b)
      /\ <<a, b, c>> = Append(<<a, b>>, c) /\ <<>> \in Seq(TextPiece)
  BY <1>1, SmallSeqs, EmptySeq
<1>3. \A ps \in Seq(TextPiece), p \in TextPiece :
         Bytes(Append(ps, p)) = Bytes(ps) + Width(p)
  BY BytesAppend
<1>4. Bytes(<<a>>) = 1
  <2>1. Bytes(<<a>>) = Bytes(<<>>) + Width(a) BY <1>1, <1>2, <1>3, Zenon
  <2> QED BY <1>1, <2>1, BytesAppend
<1>5. Bytes(<<a, b>>) = 2
  <2>1. Bytes(<<a, b>>) = Bytes(<<a>>) + Width(b) BY <1>1, <1>2, <1>3, Zenon
  <2> QED BY <1>1, <1>4, <2>1
<1>6. Bytes(<<a, b, c>>) = 3
  <2>1. Bytes(<<a, b, c>>) = Bytes(<<a, b>>) + Width(c) BY <1>1, <1>2, <1>3, Zenon
  <2> QED BY <1>1, <1>5, <2>1
<1>7. mc_bytes_pad >= 3 BY RecordAssumption, SizeAssumption, PadAssumption
<1>8. /\ Bytes(<<a>>) <= mc_bytes_pad /\ Bytes(<<a, b>>) <= mc_bytes_pad
      /\ Bytes(<<a, b, c>>) <= mc_bytes_pad
  BY <1>4, <1>5, <1>6, <1>7, PadAssumption
<1> QED BY <1>2, <1>8, Zenon DEF Fits

\* Three sequences join to one after the other.
ThreeJoined(S, a, b, c) ==
    <<a, b, c>> \in Seq(Seq(S)) /\ FlattenSeq(<<a, b, c>>) = (a \o b) \o c

\* What short lists of sequences join to.
LEMMA FlattenFew ==
    ASSUME NEW S, NEW a, a \in Seq(S), NEW b, b \in Seq(S), NEW c, c \in Seq(S)
    PROVE  /\ <<a>> \in Seq(Seq(S)) /\ <<a, b>> \in Seq(Seq(S))
           /\ FlattenSeq(<<a>>) = a /\ FlattenSeq(<<a, b>>) = a \o b
           /\ ThreeJoined(S, a, b, c)
<1> DEFINE T == Seq(S)
<1>1. a \in T /\ b \in T /\ c \in T OBVIOUS
<1> HIDE DEF T
<1>2. /\ <<a>> \in Seq(T) /\ <<a, b>> \in Seq(T) /\ <<a, b, c>> \in Seq(T)
      /\ <<a>> = Append(<<>>, a) /\ <<a, b>> = Append(<<a>>, b)
      /\ <<a, b, c>> = Append(<<a, b>>, c) /\ <<>> \in Seq(T)
  BY <1>1, SmallSeqs, EmptySeq
<1>3. \A ss \in Seq(T), s \in T : FlattenSeq(Append(ss, s)) = FlattenSeq(ss) \o s
  BY FlattenAppend DEF T
<1>4. FlattenSeq(<<a>>) = a
  <2>1. FlattenSeq(<<a>>) = <<>> \o a BY <1>1, <1>2, <1>3, FlattenEmpty, Zenon
  <2>2. <<>> \o a = a BY ConcatEmptySeq
  <2> QED BY <2>1, <2>2
<1>5. FlattenSeq(<<a, b>>) = a \o b BY <1>1, <1>2, <1>3, <1>4, Zenon
<1>6. FlattenSeq(<<a, b, c>>) = (a \o b) \o c BY <1>1, <1>2, <1>3, <1>5, Zenon
<1> QED BY <1>2, <1>4, <1>5, <1>6 DEF T, ThreeJoined

\* What two sequences join to.
LEMMA FlattenTwo ==
    ASSUME NEW S, NEW a, a \in Seq(S), NEW b, b \in Seq(S)
    PROVE  <<a, b>> \in Seq(Seq(S)) /\ FlattenSeq(<<a, b>>) = a \o b
BY FlattenFew

-----------------------------------------------------------------------------
(* What the converter makes of a record *)

\* What an entry means, piece by piece.
Pieces(r) == [i \in DOMAIN r.args |-> Piece(r.args[i])]

\* Data whose length the id has, and whose texts can be written; they say what
\* is meant by r if it is legible.
Kept(r, id, data) ==
    /\ Len(data) <= mc_bytes_pad
    /\ FixedLen(id) \in {-1, Len(data)}
    /\ AllFit(Texts(id, data))
    /\ FunctionFails(id, data) => ~Legible(r)
    /\ Legible(r) => FlattenSeq(HeaderTexts(id) \o Texts(id, data)) = Meant(r)

\* A header alone, and one before texts.
LEMMA HeaderAlone ==
    ASSUME NEW id \in IDs, id # "UNIX_TIME", NEW ts \in Seq(TextSeq)
    PROVE  /\ AllFit(HeaderTexts(id)) /\ FlattenSeq(HeaderTexts(id)) = <<Hdr(id)>>
           /\ HeaderTexts(id) \in Seq(TextSeq)
           /\ FlattenSeq(HeaderTexts(id) \o ts) = <<Hdr(id)>> \o FlattenSeq(ts)
<1> DEFINE h == <<Hdr(id)>>
<1>1. HeaderTexts(id) = <<h>> BY DEF HeaderTexts
<1>2. Short(Hdr(id)) BY ShortHdr
<1>3. Fits(h) /\ h \in TextSeq BY <1>2, ShortFits DEF Fits, TextSeq
<1> HIDE DEF h
<1>4. <<h>> \in Seq(TextSeq) /\ FlattenSeq(<<h>>) = h
  <2>1. h \in Seq(TextPiece) BY <1>3 DEF TextSeq
  <2> QED BY <2>1, FlattenFew DEF TextSeq
<1>5. AllFit(<<h>>)
  <2>1. Len(<<h>>) = 1 /\ <<h>>[1] = h OBVIOUS
  <2>2. \A i \in 1 .. Len(<<h>>) : Fits(<<h>>[i])
    <3>1. \A i \in 1 .. Len(<<h>>) : i = 1 BY <2>1
    <3> QED BY <1>3, <2>1, <3>1, Zenon
  <2> QED BY <1>4, <2>2, Zenon DEF AllFit
<1>6. FlattenSeq(<<h>> \o ts) = h \o FlattenSeq(ts)
  <2>1. ASSUME NEW a \in Seq(TextSeq), NEW b \in Seq(TextSeq)
        PROVE  FlattenSeq(a \o b) = FlattenSeq(a) \o FlattenSeq(b)
    BY FlattenConcat DEF TextSeq
  <2>2. FlattenSeq(<<h>> \o ts) = FlattenSeq(<<h>>) \o FlattenSeq(ts) BY <1>4, <2>1, Zenon
  <2> QED BY <1>4, <2>2
<1> QED BY <1>1, <1>4, <1>5, <1>6 DEF h

\* A record with the right pieces and the end of a line says what is meant.
LEMMA MeantIs ==
    ASSUME NEW r, NEW id \in IDs, id # "UNIX_TIME", r.id = id,
           NEW A, A \in Seq(TextPiece), Pieces(r) = A, Len(A) # 0,
           NEW ts, ts \in Seq(TextSeq), FlattenSeq(ts) = A \o <<LF>>
    PROVE  FlattenSeq(HeaderTexts(id) \o ts) = Meant(r)
<1> DEFINE h == <<Hdr(id)>>
           z == <<LF>>
<1>1. FlattenSeq(HeaderTexts(id) \o ts) = h \o (A \o z) BY HeaderAlone
<1>2. Meant(r) = (h \o A) \o z
  <2>1. A # <<>> BY EmptySeq
  <2>2. Meant(r) = IF r.id = "UNIX_TIME" THEN Pieces(r)
                   ELSE (<<Hdr(r.id)>> \o Pieces(r)) \o (IF Pieces(r) = <<>> THEN <<>> ELSE <<LF>>)
    BY Zenon DEF Meant, Pieces
  <2> QED BY <2>1, <2>2, Zenon
<1>3. h \in Seq(TextPiece) /\ z \in Seq(TextPiece)
  <2>1. Hdr(id) \in TextPiece /\ LF \in TextPiece BY ShortHdr DEF Short
  <2> QED BY <2>1, SmallSeqs
<1> HIDE DEF h, z
<1>4. (h \o A) \o z = h \o (A \o z) BY <1>3, Associate
<1> QED BY <1>1, <1>2, <1>4, Zenon

\* So does a header alone, if nothing else is meant.
LEMMA MeantAlone ==
    ASSUME NEW r, NEW id \in IDs, id # "UNIX_TIME", r.id = id, Pieces(r) = <<>>
    PROVE  FlattenSeq(HeaderTexts(id) \o <<>>) = Meant(r)
<1> DEFINE h == <<Hdr(id)>>
<1>1. <<>> \in Seq(TextSeq) BY EmptySeq
<1>2. FlattenSeq(HeaderTexts(id) \o <<>>) = h \o <<>> BY <1>1, HeaderAlone, FlattenEmpty
<1>3. Meant(r) = (h \o <<>>) \o <<>>
  <2>1. Meant(r) = IF r.id = "UNIX_TIME" THEN Pieces(r)
                   ELSE (<<Hdr(r.id)>> \o Pieces(r)) \o (IF Pieces(r) = <<>> THEN <<>> ELSE <<LF>>)
    BY Zenon DEF Meant, Pieces
  <2> QED BY <2>1, Zenon
<1>4. h \in Seq(TextPiece)
  <2>1. Hdr(id) \in TextPiece BY ShortHdr DEF Short
  <2> QED BY <2>1, SmallSeqs
<1> HIDE DEF h
<1>5. h \o <<>> = h BY <1>4, ConcatEmptySeq
<1> QED BY <1>2, <1>3, <1>5

\* The pieces of a few arguments.
LEMMA PiecesFew ==
    ASSUME NEW r, NEW a, NEW b, NEW c, NEW d
    PROVE  /\ r.args = <<>> => Pieces(r) = <<>>
           /\ r.args = <<a>> => Pieces(r) = <<Piece(a)>>
           /\ r.args = <<a, b>> => Pieces(r) = <<Piece(a), Piece(b)>>
           /\ r.args = <<a, b, c>> => Pieces(r) = <<Piece(a), Piece(b), Piece(c)>>
           /\ r.args = <<a, b, c, d>> => Pieces(r) = <<Piece(a), Piece(b), Piece(c), Piece(d)>>
<1>1. r.args = <<>> => Pieces(r) = <<>> BY DEF Pieces
<1>2. r.args = <<a>> => Pieces(r) = <<Piece(a)>> BY DEF Pieces
<1>3. r.args = <<a, b>> => Pieces(r) = <<Piece(a), Piece(b)>> BY DEF Pieces
<1>4. r.args = <<a, b, c>> => Pieces(r) = <<Piece(a), Piece(b), Piece(c)>> BY DEF Pieces
<1>5. r.args = <<a, b, c, d>> => Pieces(r) = <<Piece(a), Piece(b), Piece(c), Piece(d)>>
  BY DEF Pieces
<1> QED BY <1>1, <1>2, <1>3, <1>4, <1>5

\* What each kind of argument is in the text.
LEMMA PieceOf ==
    ASSUME NEW x
    PROVE  /\ Piece(N(x)) = <<"num", Significant(LE(8, x))>>
           /\ Piece(<<"time", x>>) = <<"time", Significant(LE(8, x))>>
           /\ Piece(<<"name", x>>) = <<"name", Text(x)>>
           /\ Piece(<<"ip", x>>) = <<"ip", x>> /\ Piece(<<"str", x>>) = <<"str", x>>
BY DEF Piece, N

\* Two sequences of bytes, one after the other.
LEMMA Joined ==
    ASSUME NEW a, a \in Seq(Byte), NEW b, b \in Seq(Byte)
    PROVE  /\ a \o b \in Seq(Byte) /\ Len(a \o b) = Len(a) + Len(b)
           /\ SubSeq(a \o b, 1, Len(a)) = a
           /\ SubSeq(a \o b, Len(a) + 1, Len(a) + Len(b)) = b
BY ConcatProperties, TwoParts

-----------------------------------------------------------------------------
(* Records of numbers *)

\* An id whose record holds numbers, or nothing.
Numeric(id) ==
    /\ id \in IDs /\ id \notin Strings \cup Users \cup IPv4s \cup IPv6s \cup Counted
    /\ id \notin {"UNIX_TIME", "ERR_BUF_Overflow"}

\* The texts of such a record.
LEMMA NumericTexts ==
    ASSUME NEW id, Numeric(id), NEW d
    PROVE  /\ FixedLen(id) = Total(Numbers(id)) /\ ~FunctionFails(id, d)
           /\ Numbers(id) = <<>> => Texts(id, d) = <<>>
           /\ Numbers(id) # <<>> =>
                 Texts(id, d) = << [k \in DOMAIN Numbers(id) |->
                     Num(d, Total(SubSeq(Numbers(id), 1, k - 1)), Numbers(id)[k])], <<LF>> >>
<1>1. /\ id \notin Strings \cup Users \cup IPv4s \cup IPv6s \cup Counted \cup {"UNIX_TIME"}
      /\ id \notin Strings /\ id \notin IPv4s \cup IPv6s /\ id \notin Counted
      /\ id # "UNIX_TIME" /\ id # "Crt_Usr_v4" /\ id # "Crt_Usr_v6" /\ id # "ERR_BUF_Overflow"
  BY DEF Numeric, Users
<1>2. FixedLen(id) = Total(Numbers(id)) BY <1>1, FixedTotal
<1>3. ~FunctionFails(id, d) BY <1>1 DEF FunctionFails
<1>4. Numbers(id) = <<>> => Texts(id, d) = <<>> BY <1>1 DEF Texts
<1>5. Numbers(id) # <<>> =>
         Texts(id, d) = << [k \in DOMAIN Numbers(id) |->
             Num(d, Total(SubSeq(Numbers(id), 1, k - 1)), Numbers(id)[k])], <<LF>> >>
  BY <1>1 DEF Texts, FoldLeft, MapThenFoldSet, Total
<1> QED BY <1>2, <1>3, <1>4, <1>5

\* A record of nothing.
LEMMA KeptNone ==
    ASSUME NEW r, NEW id, Numeric(id), Numbers(id) = <<>>,
           Legible(r) => r.id = id /\ r.args = <<>>
    PROVE  Kept(r, id, <<>>)
<1>1. FixedLen(id) = 0 /\ ~FunctionFails(id, <<>>) /\ Texts(id, <<>>) = <<>>
  BY NumericTexts, Totals
<1>2. <<>> \in Seq(TextSeq) /\ Len(<<>>) = 0 /\ Len(<<>>) <= mc_bytes_pad
  BY EmptySeq, PadAssumption
<1>3. AllFit(<<>>) BY <1>2 DEF AllFit
<1>4. ASSUME Legible(r) PROVE FlattenSeq(HeaderTexts(id) \o <<>>) = Meant(r)
  <2>1. id \in IDs /\ id # "UNIX_TIME" BY DEF Numeric
  <2>2. Pieces(r) = <<>> BY <1>4, PiecesFew
  <2> QED BY <1>4, <2>1, <2>2, MeantAlone
<1>5. FixedLen(id) \in {-1, Len(<<>>)} BY <1>1, <1>2
<1> QED BY <1>1, <1>2, <1>3, <1>4, <1>5, Zenon DEF Kept

\* Texts of some short pieces and the end of a line fit.
LEMMA FitsLine ==
    ASSUME NEW A, Fits(A)
    PROVE  /\ AllFit(<<A, <<LF>> >>) /\ <<A, <<LF>> >> \in Seq(TextSeq)
           /\ FlattenSeq(<<A, <<LF>> >>) = A \o <<LF>>
<1> DEFINE z == <<LF>>
<1>1. Fits(z) BY ShortHdr, ShortFits
<1>2. A \in Seq(TextPiece) /\ z \in Seq(TextPiece) BY <1>1 DEF Fits
<1> HIDE DEF z
<1>3. <<A, z>> \in Seq(TextSeq) /\ FlattenSeq(<<A, z>>) = A \o z
  BY <1>2, FlattenTwo DEF TextSeq
<1>4. \A i \in 1 .. Len(<<A, z>>) : Fits(<<A, z>>[i])
  <2>1. Len(<<A, z>>) = 2 /\ <<A, z>>[1] = A /\ <<A, z>>[2] = z OBVIOUS
  <2>2. \A i \in 1 .. Len(<<A, z>>) : i = 1 \/ i = 2 BY <2>1
  <2> QED BY <1>1, <2>1, <2>2, Zenon
<1>5. AllFit(<<A, z>>) BY <1>3, <1>4, Zenon DEF AllFit
<1> QED BY <1>3, <1>5 DEF z

\* Such a record is kept, if its pieces are those of the numbers.
LEMMA KeptLine ==
    ASSUME NEW r, NEW id, Numeric(id), NEW d, Len(d) <= mc_bytes_pad,
           FixedLen(id) = Len(d), NEW A, Fits(A), Len(A) # 0,
           Texts(id, d) = <<A, <<LF>> >>, Legible(r) => r.id = id /\ Pieces(r) = A
    PROVE  Kept(r, id, d)
<1>1. /\ AllFit(<<A, <<LF>> >>) /\ <<A, <<LF>> >> \in Seq(TextSeq)
      /\ FlattenSeq(<<A, <<LF>> >>) = A \o <<LF>>
  BY FitsLine
<1>2. ~FunctionFails(id, d) BY NumericTexts
<1>3. ASSUME Legible(r) PROVE FlattenSeq(HeaderTexts(id) \o <<A, <<LF>> >>) = Meant(r)
  <2>1. id \in IDs /\ id # "UNIX_TIME" BY DEF Numeric
  <2>2. A \in Seq(TextPiece) BY DEF Fits
  <2> DEFINE ts == <<A, <<LF>> >>
  <2>3. ts \in Seq(TextSeq) /\ FlattenSeq(ts) = A \o <<LF>> BY <1>1
  <2> HIDE DEF ts
  <2>4. FlattenSeq(HeaderTexts(id) \o ts) = Meant(r) BY <1>3, <2>1, <2>2, <2>3, MeantIs
  <2> QED BY <2>4 DEF ts
<1>4. FixedLen(id) \in {-1, Len(d)} OBVIOUS
<1> QED BY <1>1, <1>2, <1>3, <1>4, Zenon DEF Kept

\* The numbers of a list of widths, each behind those before it.
NumberAt(w, d, k) == Num(d, Total(SubSeq(w, 1, k - 1)), w[k])
NumbersOf(w, d) == [k \in DOMAIN w |-> NumberAt(w, d, k)]

\* The number behind the others starts where they end.
NumberLast(d, w, e) == NumberAt(Append(w, e), d, Len(w) + 1) = Num(d, Total(w), e)

\* The numbers of a list, one by one.
LEMMA NumberIs ==
    ASSUME NEW d, NEW w, w \in Seq(Nat), NEW e, e \in Nat
    PROVE  NumberLast(d, w, e)
<1> DEFINE n == Len(w)
           s == Append(w, e)
<1>1. /\ n \in Nat /\ s \in Seq(Nat) /\ Len(s) = n + 1 /\ s[n + 1] = e
      /\ \A i \in 1..n : s[i] = w[i]
  BY AppendProperties, LenProperties
<1> HIDE DEF s, n
<1>2. n + 1 \in 1 .. Len(s) /\ (n + 1) - 1 = n BY <1>1
<1>3. SubSeq(s, 1, n) \in Seq(Nat) /\ Len(SubSeq(s, 1, n)) = n
      /\ \A j \in 1..n : SubSeq(s, 1, n)[j] = s[j]
  BY <1>1, <1>2, PrefixStep
<1>4. SubSeq(s, 1, n) = w
  <2>1. Len(w) = n BY DEF n
  <2>2. \A j \in 1 .. n : SubSeq(s, 1, n)[j] = w[j] BY <1>1, <1>3
  <2> QED BY <1>3, <2>1, <2>2, SameSeq
<1>5. NumberAt(s, d, n + 1) = Num(d, Total(w), e) BY <1>1, <1>2, <1>4 DEF NumberAt
<1> QED BY <1>5 DEF s, n, NumberLast

\* Up to three of them.
ThreeNumbers(d, a, b, c, e) ==
    NumbersOf(<<a, b, c>>, d) = <<Num(d, 0, a), Num(d, a, b), Num(d, e, c)>>

\* Each is behind those before it.
LEMMA NumbersFew ==
    ASSUME NEW d, NEW a, a \in Nat, NEW b, b \in Nat, NEW c, c \in Nat,
           NEW e, e = a + b
    PROVE  /\ NumbersOf(<<a>>, d) = <<Num(d, 0, a)>>
           /\ NumbersOf(<<a, b>>, d) = <<Num(d, 0, a), Num(d, a, b)>>
           /\ ThreeNumbers(d, a, b, c, e)
<1>1. Total(<<>>) = 0 /\ Total(<<a>>) = a /\ Total(<<a, b>>) = e BY Totals
<1>2. /\ <<>> \in Seq(Nat) /\ <<a>> \in Seq(Nat) /\ <<a, b>> \in Seq(Nat)
      /\ <<a>> = Append(<<>>, a) /\ <<a, b>> = Append(<<a>>, b)
      /\ <<a, b, c>> = Append(<<a, b>>, c)
  BY SmallSeqs, EmptySeq
<1>3. Len(<<>>) + 1 = 1 /\ Len(<<a>>) + 1 = 2 /\ Len(<<a, b>>) + 1 = 3 OBVIOUS
<1> DEFINE one == <<a>>
           two == <<a, b>>
<1>0. <<>> \in Seq(Nat) /\ one \in Seq(Nat) /\ two \in Seq(Nat) BY <1>2, Zenon
<1> HIDE DEF one, two
<1>4. ASSUME NEW x, x \in Nat PROVE NumberAt(Append(<<>>, x), d, 1) = Num(d, 0, x)
  <2>1. NumberLast(d, <<>>, x) BY ONLY <1>0, <1>4, NumberIs
  <2>2. NumberAt(Append(<<>>, x), d, Len(<<>>) + 1) = Num(d, Total(<<>>), x)
    BY <2>1, Zenon DEF NumberLast
  <2> QED BY <1>1, <1>3, <2>2, Zenon
<1>5. NumberAt(<<a>>, d, 1) = Num(d, 0, a) BY <1>2, <1>4, Zenon
<1>6. NumberAt(<<a, b>>, d, 2) = Num(d, a, b)
  <2>1. NumberLast(d, one, b) BY ONLY <1>0, b \in Nat, NumberIs
  <2>2. NumberAt(Append(<<a>>, b), d, Len(<<a>>) + 1) = Num(d, Total(<<a>>), b)
    BY <2>1, Zenon DEF NumberLast, one
  <2> QED BY <1>1, <1>2, <1>3, <2>2, Zenon
<1>7. NumberAt(<<a, b, c>>, d, 3) = Num(d, e, c)
  <2>1. NumberLast(d, two, c) BY ONLY <1>0, c \in Nat, NumberIs
  <2>2. NumberAt(Append(<<a, b>>, c), d, Len(<<a, b>>) + 1) = Num(d, Total(<<a, b>>), c)
    BY <2>1, Zenon DEF NumberLast, two
  <2> QED BY <1>1, <1>2, <1>3, <2>2, Zenon
<1>8. ASSUME NEW w, w \in Seq(Nat), NEW i \in 1 .. Len(w)
      PROVE  NumberAt(w, d, i) = Num(d, Total(SubSeq(w, 1, i - 1)), w[i])
  BY DEF NumberAt
<1>9. /\ SubSeq(<<a, b>>, 1, 0) = <<>> /\ SubSeq(<<a, b, c>>, 1, 0) = <<>>
      /\ SubSeq(<<a, b, c>>, 1, 1) = <<a>>
  <2>1. <<a, b>> \in Seq(Nat) /\ <<a, b, c>> \in Seq(Nat) BY SmallSeqs
  <2>2. SubSeq(<<a, b>>, 1, 0) = <<>> /\ SubSeq(<<a, b, c>>, 1, 0) = <<>>
    BY <2>1, PrefixEnds
  <2> DEFINE s == <<a, b, c>>
  <2>3. s \in Seq(Nat) /\ Len(s) = 3 /\ s[1] = a BY <2>1
  <2> HIDE DEF s
  <2>4. 1 \in 1 .. Len(s) /\ 1 - 1 = 0 BY <2>3
  <2>5. SubSeq(s, 1, 1) = Append(SubSeq(s, 1, 0), s[1]) BY <2>3, <2>4, PrefixStep
  <2>6. SubSeq(s, 1, 0) = <<>> BY <2>2 DEF s
  <2>7. SubSeq(s, 1, 1) = <<a>> BY <1>2, <2>3, <2>5, <2>6
  <2> QED BY <2>2, <2>7 DEF s
<1>10. NumberAt(<<a, b>>, d, 1) = Num(d, 0, a)
  <2>1. 1 - 1 = 0 /\ <<a, b>>[1] = a OBVIOUS
  <2> QED BY <1>1, <1>9, <2>1 DEF NumberAt
<1>11. NumberAt(<<a, b, c>>, d, 1) = Num(d, 0, a)
  <2>1. 1 - 1 = 0 /\ <<a, b, c>>[1] = a OBVIOUS
  <2> QED BY <1>1, <1>9, <2>1 DEF NumberAt
<1>12. NumberAt(<<a, b, c>>, d, 2) = Num(d, a, b)
  <2>1. 2 - 1 = 1 /\ <<a, b, c>>[2] = b OBVIOUS
  <2> QED BY <1>1, <1>9, <2>1 DEF NumberAt
<1>13. /\ NumbersOf(<<a>>, d) = <<NumberAt(<<a>>, d, 1)>>
       /\ NumbersOf(<<a, b>>, d) = <<NumberAt(<<a, b>>, d, 1), NumberAt(<<a, b>>, d, 2)>>
       /\ NumbersOf(<<a, b, c>>, d) =
             <<NumberAt(<<a, b, c>>, d, 1), NumberAt(<<a, b, c>>, d, 2),
               NumberAt(<<a, b, c>>, d, 3)>>
  BY DEF NumbersOf
<1> QED BY <1>5, <1>6, <1>7, <1>10, <1>11, <1>12, <1>13, Zenon DEF ThreeNumbers

\* A record of one number.
LEMMA KeptOne ==
    ASSUME NEW r, NEW id, Numeric(id), NEW w \in 1..8, Numbers(id) = <<w>>,
           NEW d \in Seq(Byte), Len(d) = w, NEW n,
           Legible(r) => /\ r.id = id /\ r.args = <<N(n)>>
                         /\ Significant(d) = Significant(LE(8, n))
    PROVE  Kept(r, id, d)
<1> DEFINE A == <<Num(d, 0, w)>>
<1>1. w \in Nat /\ w <= mc_bytes_pad /\ 0 + w <= Len(d) /\ 0 \in Nat
  BY SizeAssumption, RecordAssumption, PadAssumption
<1>2. FixedLen(id) = w BY <1>1, NumericTexts, Totals
<1>3. Texts(id, d) = <<A, <<LF>> >>
  <2>1. Numbers(id) # <<>> OBVIOUS
  <2>2. Texts(id, d) = <<NumbersOf(Numbers(id), d), <<LF>> >>
    BY <2>1, NumericTexts DEF NumbersOf, NumberAt
  <2>3. NumbersOf(<<w>>, d) = A BY <1>1, NumbersFew
  <2> QED BY <2>2, <2>3
<1>4. Fits(A)
  <2>1. Short(Num(d, 0, w)) BY <1>1, ShortNum
  <2> QED BY <2>1, ShortFits
<1>5. Legible(r) => Pieces(r) = A
  <2>1. SubSeq(d, 1, Len(d)) = d BY PrefixEnds
  <2>2. Num(d, 0, w) = <<"num", Significant(d)>>
    <3>1. 0 + 1 = 1 /\ 0 + w = Len(d) BY <1>1
    <3> QED BY <2>1, <3>1 DEF Num
  <2>3. Piece(N(n)) = <<"num", Significant(LE(8, n))>> BY PieceOf
  <2>4. r.args = <<N(n)>> => Pieces(r) = <<Piece(N(n))>> BY PiecesFew
  <2> QED BY <2>2, <2>3, <2>4
<1>6. Len(A) # 0 OBVIOUS
<1> HIDE DEF A
<1> QED BY <1>1, <1>2, <1>3, <1>4, <1>5, <1>6, KeptLine

\* A record of two numbers, the first of eight bytes.
LEMMA KeptTwo ==
    ASSUME NEW r, NEW id, Numeric(id), NEW w \in 1..8, Numbers(id) = <<8, w>>,
           NEW a \in Seq(Byte), Len(a) = 8, NEW b \in Seq(Byte), Len(b) = w, NEW m, NEW n,
           Legible(r) => /\ r.id = id /\ r.args = <<N(m), N(n)>>
                         /\ Significant(a) = Significant(LE(8, m))
                         /\ Significant(b) = Significant(LE(8, n))
    PROVE  Kept(r, id, a \o b)
<1> DEFINE d == a \o b
           A == <<Num(d, 0, 8), Num(d, 8, w)>>
<1>1. w \in Nat /\ 8 + w <= mc_bytes_pad /\ 0 \in Nat /\ 8 \in Nat
  BY SizeAssumption, RecordAssumption, PadAssumption
<1>2. d \in Seq(Byte) /\ Len(d) = 8 + w
  <2>1. d \in Seq(Byte) /\ Len(d) = Len(a) + Len(b) BY Joined
  <2> QED BY <2>1
<1>3. SubSeq(d, 1, 8) = a /\ SubSeq(d, 9, 8 + w) = b
  <2>1. SubSeq(a \o b, 1, Len(a)) = a /\ SubSeq(a \o b, Len(a) + 1, Len(a) + Len(b)) = b
    BY TwoParts
  <2>2. Len(a) + 1 = 9 /\ Len(a) + Len(b) = 8 + w OBVIOUS
  <2> QED BY <2>1, <2>2
<1> HIDE DEF d
<1>4. FixedLen(id) = 8 + w
  <2>1. Total(<<8, w>>) = 8 + w BY <1>1, Totals
  <2>2. FixedLen(id) = Total(Numbers(id)) BY NumericTexts, Zenon
  <2> QED BY <2>1, <2>2
<1>5. Texts(id, d) = <<A, <<LF>> >>
  <2>1. Numbers(id) # <<>> OBVIOUS
  <2>2. Texts(id, d) = <<NumbersOf(Numbers(id), d), <<LF>> >>
    BY <2>1, NumericTexts DEF NumbersOf, NumberAt
  <2>3. NumbersOf(<<8, w>>, d) = A BY <1>1, NumbersFew
  <2> QED BY <2>2, <2>3
<1>6. Fits(A)
  <2>1. 0 + 8 <= Len(d) /\ 8 + w <= Len(d) BY <1>1, <1>2
  <2>2. Short(Num(d, 0, 8)) BY <1>1, <1>2, <2>1, ShortNum
  <2>3. Short(Num(d, 8, w)) BY <1>1, <1>2, <2>1, ShortNum
  <2> QED BY <2>2, <2>3, ShortFits
<1>7. Legible(r) => Pieces(r) = A
  <2>1. Num(d, 0, 8) = <<"num", Significant(a)>>
    <3>1. 0 + 1 = 1 /\ 0 + 8 = 8 OBVIOUS
    <3> QED BY <1>3, <3>1 DEF Num
  <2>2. Num(d, 8, w) = <<"num", Significant(b)>>
    <3>1. 8 + 1 = 9 OBVIOUS
    <3> QED BY <1>3, <3>1 DEF Num
  <2>3. /\ Piece(N(m)) = <<"num", Significant(LE(8, m))>>
        /\ Piece(N(n)) = <<"num", Significant(LE(8, n))>>
    BY PieceOf
  <2>4. r.args = <<N(m), N(n)>> => Pieces(r) = <<Piece(N(m)), Piece(N(n))>> BY PiecesFew
  <2> QED BY <2>1, <2>2, <2>3, <2>4
<1>8. Len(A) # 0 OBVIOUS
<1> HIDE DEF A
<1>9. Kept(r, id, d)
  <2>1. Len(d) <= mc_bytes_pad /\ FixedLen(id) = Len(d) BY <1>1, <1>2, <1>4
  <2> QED BY <2>1, <1>5, <1>6, <1>7, <1>8, KeptLine
<1> QED BY <1>9 DEF d

\* A record of three numbers of eight bytes.
LEMMA KeptThree ==
    ASSUME NEW r, NEW id, Numeric(id), Numbers(id) = <<8, 8, 8>>,
           NEW a \in Seq(Byte), Len(a) = 8, NEW b \in Seq(Byte), Len(b) = 8,
           NEW c \in Seq(Byte), Len(c) = 8, NEW l, NEW m, NEW n,
           Legible(r) => /\ r.id = id /\ r.args = <<N(l), N(m), N(n)>>
                         /\ Significant(a) = Significant(LE(8, l))
                         /\ Significant(b) = Significant(LE(8, m))
                         /\ Significant(c) = Significant(LE(8, n))
    PROVE  Kept(r, id, (a \o b) \o c)
<1> DEFINE ab == a \o b
           d == ab \o c
           A == <<Num(d, 0, 8), Num(d, 8, 8), Num(d, 16, 8)>>
<1>1. 24 <= mc_bytes_pad /\ 0 \in Nat /\ 8 \in Nat /\ 16 \in Nat
  BY SizeAssumption, RecordAssumption, PadAssumption
<1>2. ab \in Seq(Byte) /\ Len(ab) = 16 /\ SubSeq(ab, 1, 8) = a
  <2>1. ab \in Seq(Byte) /\ Len(ab) = Len(a) + Len(b) /\ SubSeq(ab, 1, Len(a)) = a
    BY Joined
  <2> QED BY <2>1
<1>3. SubSeq(d, 9, 16) = b
  <2>1. SubSeq((a \o b) \o c, Len(a) + 1, Len(a) + Len(b)) = b BY Middle
  <2>2. Len(a) + 1 = 9 /\ Len(a) + Len(b) = 16 OBVIOUS
  <2> QED BY <2>1, <2>2
<1> HIDE DEF ab
<1>4. d \in Seq(Byte) /\ Len(d) = 24
  <2>1. d \in Seq(Byte) /\ Len(d) = Len(ab) + Len(c) BY <1>2, Joined
  <2> QED BY <1>2, <2>1
<1>5. SubSeq(d, 17, 24) = c /\ SubSeq(d, 1, 8) = a
  <2>1. SubSeq(ab \o c, Len(ab) + 1, Len(ab) + Len(c)) = c BY <1>2, TwoParts
  <2>2. Len(ab) + 1 = 17 /\ Len(ab) + Len(c) = 24 BY <1>2
  <2>3. 1 \in 1 .. Len(ab) /\ 8 \in 1 .. Len(ab) BY <1>2
  <2>4. SubSeq(ab \o c, 1, 8) = SubSeq(ab, 1, 8) BY <1>2, <2>3, SubSeqOfConcat1
  <2> QED BY <1>2, <2>1, <2>2, <2>4
<1> HIDE DEF d
<1>6. FixedLen(id) = 24
  <2>1. \A x \in Nat : Total(<<x, x, x>>) = x + x + x BY Totals
  <2>2. Total(<<8, 8, 8>>) = 24 BY <1>1, <2>1
  <2>3. FixedLen(id) = Total(Numbers(id)) BY NumericTexts, Zenon
  <2> QED BY <2>2, <2>3
<1>7. Texts(id, d) = <<A, <<LF>> >>
  <2>1. Numbers(id) # <<>> OBVIOUS
  <2>2. Texts(id, d) = <<NumbersOf(Numbers(id), d), <<LF>> >>
    BY <2>1, NumericTexts DEF NumbersOf, NumberAt
  <2>4. 8 + 8 = 16 OBVIOUS
  <2>3. NumbersOf(<<8, 8, 8>>, d) = <<Num(d, 0, 8), Num(d, 8, 8), Num(d, 16, 8)>>
    <3>1. ThreeNumbers(d, 8, 8, 8, 16) BY <1>1, <2>4, NumbersFew
    <3> QED BY <3>1, Zenon DEF ThreeNumbers
  <2> QED BY <2>2, <2>3, <2>4
<1>8. Fits(A)
  <2>1. 0 + 8 <= Len(d) /\ 8 + 8 <= Len(d) /\ 16 + 8 <= Len(d) BY <1>4
  <2>2. Short(Num(d, 0, 8)) BY <1>1, <1>4, <2>1, ShortNum
  <2>3. Short(Num(d, 8, 8)) BY <1>1, <1>4, <2>1, ShortNum
  <2>4. Short(Num(d, 16, 8)) BY <1>1, <1>4, <2>1, ShortNum
  <2> QED BY <2>2, <2>3, <2>4, ShortFits
<1>9. Legible(r) => Pieces(r) = A
  <2>1. 0 + 1 = 1 /\ 0 + 8 = 8 /\ 8 + 1 = 9 /\ 8 + 8 = 16 /\ 16 + 1 = 17 /\ 16 + 8 = 24
    OBVIOUS
  <2>2. /\ Num(d, 0, 8) = <<"num", Significant(a)>> /\ Num(d, 8, 8) = <<"num", Significant(b)>>
        /\ Num(d, 16, 8) = <<"num", Significant(c)>>
    BY <1>3, <1>5, <2>1 DEF Num, d
  <2>3. /\ Piece(N(l)) = <<"num", Significant(LE(8, l))>>
        /\ Piece(N(m)) = <<"num", Significant(LE(8, m))>>
        /\ Piece(N(n)) = <<"num", Significant(LE(8, n))>>
    BY PieceOf
  <2>4. r.args = <<N(l), N(m), N(n)>> => Pieces(r) = <<Piece(N(l)), Piece(N(m)), Piece(N(n))>>
    BY PiecesFew
  <2> QED BY <2>2, <2>3, <2>4
<1>10. Len(A) # 0 OBVIOUS
<1> HIDE DEF A
<1>11. Kept(r, id, d)
  <2>1. Len(d) <= mc_bytes_pad /\ FixedLen(id) = Len(d) BY <1>1, <1>4, <1>6
  <2> QED BY <2>1, <1>7, <1>8, <1>9, <1>10, KeptLine
<1> QED BY <1>11 DEF d, ab

-----------------------------------------------------------------------------
(* Records of one address, or of a string *)

\* A record is kept if its texts fit and are its pieces and the end of a line.
LEMMA KeptTexts ==
    ASSUME NEW r, NEW id, id \in IDs, id # "UNIX_TIME", NEW d, Len(d) <= mc_bytes_pad,
           FixedLen(id) \in {-1, Len(d)}, ~FunctionFails(id, d),
           NEW A, A \in Seq(TextPiece), Len(A) # 0,
           NEW ts, Texts(id, d) = ts, AllFit(ts), FlattenSeq(ts) = A \o <<LF>>,
           Legible(r) => r.id = id /\ Pieces(r) = A
    PROVE  Kept(r, id, d)
<1>1. ts \in Seq(TextSeq) BY DEF AllFit
<1>2. ASSUME Legible(r) PROVE FlattenSeq(HeaderTexts(id) \o ts) = Meant(r)
  BY <1>1, <1>2, MeantIs
<1> QED BY <1>2, Zenon DEF Kept

\* The whole of the data as an address.
LEMMA WholeIP ==
    ASSUME NEW d, d \in Seq(Byte)
    PROVE  IP(d, 0, Len(d)) = <<"ip", d>> /\ Short(<<"ip", d>>)
<1>1. Len(d) \in Nat /\ 0 + Len(d) <= Len(d) /\ 0 + 1 = 1 /\ 0 + Len(d) = Len(d) /\ 0 \in Nat
  BY LenProperties
<1>2. SubSeq(d, 1, Len(d)) = d BY PrefixEnds
<1>3. IP(d, 0, Len(d)) = <<"ip", d>> BY <1>1, <1>2 DEF IP
<1>4. Short(IP(d, 0, Len(d))) BY <1>1, ShortNum
<1> QED BY <1>3, <1>4

\* The tables of the converter, with the sums named.
LEMMA FixedLenIs ==
    ASSUME NEW id
    PROVE  FixedLen(id) =
              CASE id \in Strings \cup Users -> -1
                [] id = "UNIX_TIME" -> 8
                [] id \in IPv4s -> 4
                [] id \in IPv6s -> 16
                [] id = "Chk_IP_many_times_cnct_v4" -> 6
                [] id = "Chk_IP_many_times_cnct_v6" -> 18
                [] OTHER -> Total(Numbers(id))
BY DEF FixedLen, FoldLeft, MapThenFoldSet, Total

\* The texts of a record, with the numbers named.
LEMMA TextsAre ==
    ASSUME NEW id, NEW d
    PROVE  Texts(id, d) =
              CASE id = "UNIX_TIME" -> << << <<"time", Significant(d)>> >> >>
                [] id \in Strings -> << << <<"str", d>>, LF>> >>
                [] id \in IPv4s \cup IPv6s -> << <<IP(d, 0, Len(d))>>, <<LF>> >>
                [] id \in Counted -> << <<Num(d, 0, 2)>>, <<IP(d, 2, Len(d) - 2)>>, <<LF>> >>
                [] id = "Crt_Usr_v4" -> UserTexts(d, 4)
                [] id = "Crt_Usr_v6" -> UserTexts(d, 16)
                [] Numbers(id) # <<>> -> <<NumbersOf(Numbers(id), d), <<LF>> >>
                [] OTHER -> <<>>
BY DEF Texts, NumbersOf, NumberAt, FoldLeft, MapThenFoldSet, Total

\* What they say of an address, a string and a time.
LEMMA OfAddress ==
    ASSUME NEW id, id \in IPv4s \cup IPv6s, NEW d
    PROVE  /\ FixedLen(id) = (IF id \in IPv4s THEN 4 ELSE 16) /\ ~FunctionFails(id, d)
           /\ Texts(id, d) = << <<IP(d, 0, Len(d))>>, <<LF>> >>
<1>1. /\ id # "UNIX_TIME" /\ id \notin Strings /\ id \notin Strings \cup Users
      /\ id # "ERR_BUF_Overflow" /\ id # "Crt_Usr_v4" /\ id # "Crt_Usr_v6"
      /\ id # "Chk_IP_many_times_cnct_v4" /\ id # "Chk_IP_many_times_cnct_v6"
      /\ id \notin Counted /\ (id \in IPv4s => id \notin IPv6s) /\ Numbers(id) = <<>>
  BY DEF IPv4s, IPv6s, Strings, Users, Counted, Numbers
<1>2. FixedLen(id) = (IF id \in IPv4s THEN 4 ELSE 16) BY <1>1, FixedLenIs
<1>3. ~FunctionFails(id, d) BY <1>1 DEF FunctionFails
<1>4. Texts(id, d) = << <<IP(d, 0, Len(d))>>, <<LF>> >> BY <1>1, TextsAre
<1> QED BY <1>2, <1>3, <1>4

\* The record of a string: any length, no failure, one line.
LEMMA OfString ==
    ASSUME NEW id, id \in Strings, NEW d
    PROVE  /\ FixedLen(id) = -1 /\ ~FunctionFails(id, d)
           /\ Texts(id, d) = << << <<"str", d>>, LF>> >>
<1>1. /\ id # "UNIX_TIME" /\ id \in Strings \cup Users
      /\ id # "ERR_BUF_Overflow" /\ id # "Crt_Usr_v4" /\ id # "Crt_Usr_v6"
      /\ id # "Chk_IP_many_times_cnct_v4" /\ id # "Chk_IP_many_times_cnct_v6"
      /\ id \notin Counted /\ id \notin IPv4s /\ id \notin IPv6s /\ id \notin IPv4s \cup IPv6s
      /\ Numbers(id) = <<>>
  BY DEF IPv4s, IPv6s, Strings, Counted, Numbers
<1>2. FixedLen(id) = -1 BY <1>1, FixedLenIs
<1>3. ~FunctionFails(id, d) BY <1>1 DEF FunctionFails
<1>4. Texts(id, d) = << << <<"str", d>>, LF>> >> BY <1>1, TextsAre
<1> QED BY <1>2, <1>3, <1>4

\* The record of a time: eight bytes, no failure, no header.
LEMMA OfTime ==
    ASSUME NEW d
    PROVE  /\ FixedLen("UNIX_TIME") = 8 /\ ~FunctionFails("UNIX_TIME", d)
           /\ Texts("UNIX_TIME", d) = << << <<"time", Significant(d)>> >> >>
<1> DEFINE id == "UNIX_TIME"
<1>1. /\ id \notin Strings \cup Users /\ id \notin Strings
      /\ id \notin Counted /\ id \notin IPv4s /\ id \notin IPv6s /\ id \notin IPv4s \cup IPv6s
      /\ Numbers(id) = <<>>
  BY DEF IPv4s, IPv6s, Strings, Users, Counted, Numbers
<1>2. FixedLen("UNIX_TIME") = 8 BY <1>1, FixedLenIs
<1>3. ~FunctionFails("UNIX_TIME", d) BY <1>1 DEF FunctionFails
<1>4. Texts("UNIX_TIME", d) = << << <<"time", Significant(d)>> >> >> BY <1>1, TextsAre
<1> QED BY <1>2, <1>3, <1>4

\* A record of an address.
LEMMA KeptAddress ==
    ASSUME NEW r, NEW id, id \in IPv4s \cup IPv6s, id \in IDs, NEW d, d \in Seq(Byte),
           Len(d) = IF id \in IPv4s THEN 4 ELSE 16,
           Legible(r) => r.id = id /\ r.args = << <<"ip", d>> >>
    PROVE  Kept(r, id, d)
<1> DEFINE A == << <<"ip", d>> >>
<1>1. id # "UNIX_TIME" BY DEF IPv4s, IPv6s
<1>2. Len(d) <= mc_bytes_pad BY SizeAssumption, RecordAssumption, PadAssumption
<1>3. FixedLen(id) = Len(d) BY OfAddress
<1>4. ~FunctionFails(id, d) BY OfAddress
<1>5. Fits(A)
  <2>1. Short(<<"ip", d>>) BY WholeIP
  <2> QED BY <2>1, ShortFits
<1>6. Texts(id, d) = <<A, <<LF>> >>
  <2>1. Texts(id, d) = << <<IP(d, 0, Len(d))>>, <<LF>> >> BY OfAddress
  <2>2. IP(d, 0, Len(d)) = <<"ip", d>> BY WholeIP
  <2> QED BY <2>1, <2>2, Zenon
<1>7. Legible(r) => Pieces(r) = A
  <2>1. r.args = << <<"ip", d>> >> => Pieces(r) = <<Piece(<<"ip", d>>)>> BY PiecesFew
  <2>2. Piece(<<"ip", d>>) = <<"ip", d>> BY PieceOf
  <2> QED BY <2>1, <2>2
<1>8. Len(A) # 0 OBVIOUS
<1> HIDE DEF A
<1>9. /\ AllFit(<<A, <<LF>> >>) /\ FlattenSeq(<<A, <<LF>> >>) = A \o <<LF>>
      /\ A \in Seq(TextPiece)
  BY <1>5, FitsLine DEF Fits
<1>10. FixedLen(id) \in {-1, Len(d)} BY <1>3
<1>11. Legible(r) => r.id = id /\ Pieces(r) = A BY <1>7
<1> QED BY <1>1, <1>2, <1>4, <1>6, <1>8, <1>9, <1>10, <1>11, KeptTexts

\* A record of a string that is not cut.
LEMMA KeptString ==
    ASSUME NEW r, NEW id, id \in Strings, id \in IDs, NEW d, d \in Seq(Byte),
           Len(d) <= mc_max_bytes_wrt,
           Legible(r) => r.id = id /\ r.args = << <<"str", d>> >>
    PROVE  Kept(r, id, d)
<1> DEFINE p == <<"str", d>>
           A == <<p>>
           line == <<p, LF>>
<1>1. id # "UNIX_TIME" BY DEF Strings
<1>2. Len(d) \in Nat /\ Len(d) + 1 <= mc_bytes_pad /\ Len(d) <= mc_bytes_pad
  BY LenProperties, SizeAssumption, RecordAssumption, PadAssumption
<1>3. FixedLen(id) \in {-1, Len(d)} BY OfString
<1>4. ~FunctionFails(id, d) BY OfString
<1>5. p \in TextPiece /\ Width(p) = Len(d) /\ LF \in TextPiece /\ Width(LF) = 1
  <2>1. d \in Seq(Nat) BY BytesNat
  <2>2. p \in TextPiece BY <2>1 DEF TextPiece, Piece1
  <2>3. Width(p) = Len(d) BY DEF Width
  <2> QED BY <2>2, <2>3, ShortHdr DEF Short
<1>6. Texts(id, d) = <<line>> BY OfString
<1>7. Legible(r) => r.id = id /\ Pieces(r) = A
  <2>1. r.args = <<p>> => Pieces(r) = <<Piece(p)>> BY PiecesFew
  <2>2. Piece(p) = p BY PieceOf
  <2> QED BY <2>1, <2>2
<1>8. Len(A) # 0 OBVIOUS
<1> HIDE DEF p
<1>9. /\ A \in Seq(TextPiece) /\ line \in Seq(TextPiece) /\ line = Append(A, LF)
      /\ A = Append(<<>>, p) /\ <<>> \in Seq(TextPiece)
  BY <1>5, SmallSeqs, EmptySeq
<1>10. Bytes(line) = Len(d) + 1
  <2>1. Bytes(A) = Bytes(<<>>) + Width(p) BY <1>5, <1>9, BytesAppend, Zenon
  <2>2. Bytes(line) = Bytes(A) + Width(LF) BY <1>5, <1>9, BytesAppend, Zenon
  <2> QED BY <1>2, <1>5, <2>1, <2>2, BytesAppend
<1>11. line = A \o <<LF>> BY <1>5
<1> HIDE DEF A, line
<1>12. Fits(line) BY <1>2, <1>9, <1>10 DEF Fits
<1>13. <<line>> \in Seq(TextSeq) /\ FlattenSeq(<<line>>) = line
  BY <1>9, FlattenFew DEF TextSeq
<1>14. AllFit(<<line>>)
  <2>1. Len(<<line>>) = 1 /\ <<line>>[1] = line OBVIOUS
  <2>2. \A i \in 1 .. Len(<<line>>) : Fits(<<line>>[i])
    <3>1. \A i \in 1 .. Len(<<line>>) : i = 1 BY <2>1
    <3> QED BY <1>12, <2>1, <3>1, Zenon
  <2> QED BY <1>13, <2>2, Zenon DEF AllFit
<1>15. FlattenSeq(<<line>>) = A \o <<LF>> BY <1>11, <1>13
<1> QED BY <1>1, <1>2, <1>3, <1>4, <1>6, <1>7, <1>8, <1>9, <1>14, <1>15, KeptTexts

\* The record of a time.
LEMMA KeptStamp ==
    ASSUME NEW t, t \in Nat
    PROVE  Kept(Stamp(t), "UNIX_TIME", LE(8, t))
<1> DEFINE d == LE(8, t)
           p == <<"time", Significant(d)>>
           id == "UNIX_TIME"
<1>1. d \in Seq(Byte) /\ Len(d) = 8
  <2>1. 8 \in Nat OBVIOUS
  <2> QED BY <2>1, LEType
<1>2. Len(d) <= mc_bytes_pad
  <2>1. 8 <= mc_bytes_pad BY SizeAssumption, RecordAssumption, PadAssumption
  <2> QED BY <1>1, <2>1
<1>3. FixedLen(id) \in {-1, Len(d)} BY <1>1, OfTime
<1>4. ~FunctionFails(id, d) BY OfTime
<1>5. Texts(id, d) = << <<p>> >> BY OfTime
<1>6. Short(p)
  <2>1. Significant(d) \in Seq(Nat) BY <1>1, SignificantType, BytesNat
  <2>2. p \in TextPiece BY <2>1 DEF TextPiece, Piece2
  <2> QED BY <2>2 DEF Short, Width
<1>7. Meant(Stamp(t)) = <<p>>
  <2>1. Stamp(t).id = id /\ Stamp(t).args = << <<"time", t>> >> BY DEF Stamp, Said, Entry
  <2>2. Pieces(Stamp(t)) = <<Piece(<<"time", t>>)>> BY <2>1, PiecesFew
  <2>3. Piece(<<"time", t>>) = p BY PieceOf
  <2>4. Meant(Stamp(t)) = Pieces(Stamp(t)) BY <2>1 DEF Meant, Pieces
  <2> QED BY <2>2, <2>3, <2>4
<1> HIDE DEF p, d
<1> DEFINE line == <<p>>
<1>8. Fits(line) BY <1>6, ShortFits
<1> HIDE DEF line
<1>9. <<line>> \in Seq(TextSeq) /\ FlattenSeq(<<line>>) = line
  BY <1>8, FlattenFew DEF TextSeq, Fits
<1>10. AllFit(<<line>>)
  <2>1. Len(<<line>>) = 1 /\ <<line>>[1] = line OBVIOUS
  <2>2. \A i \in 1 .. Len(<<line>>) : Fits(<<line>>[i])
    <3>1. \A i \in 1 .. Len(<<line>>) : i = 1 BY <2>1
    <3> QED BY <1>8, <2>1, <3>1, Zenon
  <2> QED BY <1>9, <2>2, Zenon DEF AllFit
<1>11. FlattenSeq(HeaderTexts(id) \o <<line>>) = line
  <2>1. HeaderTexts(id) = <<>> BY DEF HeaderTexts
  <2>2. <<>> \o <<line>> = <<line>> BY <1>9, ConcatEmptySeq
  <2> QED BY <1>9, <2>1, <2>2
<1>12. Kept(Stamp(t), id, d)
  BY <1>2, <1>3, <1>4, <1>5, <1>7, <1>10, <1>11 DEF Kept, line
<1> QED BY <1>12 DEF d

\* What the tables say of a number and an address.
LEMMA OfCounted ==
    ASSUME NEW id, id \in Counted, NEW d
    PROVE  /\ FixedLen(id) = (IF id = "Chk_IP_many_times_cnct_v4" THEN 6 ELSE 18)
           /\ ~FunctionFails(id, d) /\ id # "UNIX_TIME"
           /\ Texts(id, d) = << <<Num(d, 0, 2)>>, <<IP(d, 2, Len(d) - 2)>>, <<LF>> >>
<1>1. /\ id # "UNIX_TIME" /\ id \notin Strings /\ id \notin Strings \cup Users
      /\ id # "ERR_BUF_Overflow" /\ id # "Crt_Usr_v4" /\ id # "Crt_Usr_v6"
      /\ (id = "Chk_IP_many_times_cnct_v4" \/ id = "Chk_IP_many_times_cnct_v6")
      /\ id \notin IPv4s /\ id \notin IPv6s /\ id \notin IPv4s \cup IPv6s /\ Numbers(id) = <<>>
  BY DEF IPv4s, IPv6s, Strings, Users, Counted, Numbers
<1>2. FixedLen(id) = (IF id = "Chk_IP_many_times_cnct_v4" THEN 6 ELSE 18)
  BY <1>1, FixedLenIs
<1>3. ~FunctionFails(id, d) BY <1>1 DEF FunctionFails
<1>4. Texts(id, d) = << <<Num(d, 0, 2)>>, <<IP(d, 2, Len(d) - 2)>>, <<LF>> >>
  BY <1>1, TextsAre
<1> QED BY <1>1, <1>2, <1>3, <1>4

\* The bytes of a small number.
LEMMA TwoBytes ==
    ASSUME NEW n, n \in Lengths
    PROVE  /\ LE(2, n) \in Seq(Byte) /\ Len(LE(2, n)) = 2
           /\ Significant(LE(2, n)) = Significant(LE(8, n))
<1>1. n \in Nat BY DEF Lengths
<1>2. LE(2, n) \in Seq(Byte) /\ Len(LE(2, n)) = 2
  <2>1. \A m \in Nat : LE(2, m) \in Seq(Byte) /\ Len(LE(2, m)) = 2 BY LEType
  <2> QED BY <1>1, <2>1
<1>3. Significant(LE(2, n)) = Significant(LE(8, n)) BY <1>1, FewerBytes DEF SameNumber
<1> QED BY <1>2, <1>3

\* Three short texts fit, and join to their pieces.
LEMMA FitsThree ==
    ASSUME NEW a, Short(a), NEW b, Short(b), NEW c, Short(c)
    PROVE  /\ AllFit(<< <<a>>, <<b>>, <<c>> >>)
           /\ FlattenSeq(<< <<a>>, <<b>>, <<c>> >>) = <<a, b>> \o <<c>>
           /\ <<a, b>> \in Seq(TextPiece)
<1> DEFINE p == <<a>>
           q == <<b>>
           r == <<c>>
           ts == <<p, q, r>>
<1>1. Fits(p) /\ Fits(q) /\ Fits(r) /\ Fits(<<a, b>>) BY ShortFits
<1>2. p \o q = <<a, b>>
  <2>1. a \in TextPiece /\ b \in TextPiece BY DEF Short
  <2>2. p \in Seq(TextPiece) /\ <<a, b>> = Append(p, b) BY <2>1, SmallSeqs
  <2>3. Append(p, b) = p \o <<b>> BY <2>1, <2>2, AppendIsConcat
  <2> QED BY <2>2, <2>3
<1> HIDE DEF p, q, r
<1>3. p \in Seq(TextPiece) /\ q \in Seq(TextPiece) /\ r \in Seq(TextPiece) BY <1>1 DEF Fits
<1>4. ts \in Seq(Seq(TextPiece)) /\ FlattenSeq(ts) = (p \o q) \o r
  <2>1. ThreeJoined(TextPiece, p, q, r) BY <1>3, FlattenFew
  <2> QED BY <2>1, Zenon DEF ThreeJoined
<1>5. AllFit(ts)
  <2>1. Len(ts) = 3 /\ ts[1] = p /\ ts[2] = q /\ ts[3] = r OBVIOUS
  <2>2. \A i \in 1 .. Len(ts) : i = 1 \/ i = 2 \/ i = 3 BY <2>1
  <2>3. \A i \in 1 .. Len(ts) : Fits(ts[i]) BY <1>1, <2>1, <2>2, Zenon
  <2> QED BY <1>4, <2>3, Zenon DEF AllFit, TextSeq
<1>6. FlattenSeq(ts) = <<a, b>> \o r BY <1>2, <1>4
<1>7. <<a, b>> \in Seq(TextPiece) BY <1>1 DEF Fits
<1> QED BY <1>5, <1>6, <1>7 DEF p, q, r

\* What a record that is legible has.
Says(r, id, args) == Legible(r) => r.id = id /\ r.args = args

\* A record of a number and an address.
LEMMA KeptCounted ==
    ASSUME NEW r, NEW id, id \in Counted, id \in IDs, NEW n, n \in Lengths,
           NEW ip, ip \in Seq(Byte),
           Len(ip) = IF id = "Chk_IP_many_times_cnct_v4" THEN 4 ELSE 16,
           NEW arg, arg = <<"ip", ip>>, Says(r, id, <<N(n), arg>>)
    PROVE  Kept(r, id, LE(2, n) \o ip)
<1> DEFINE a == LE(2, n)
           d == a \o ip
           p == Num(d, 0, 2)
           q == IP(d, 2, Len(d) - 2)
           A == <<p, q>>
           ts == << <<p>>, <<q>>, <<LF>> >>
<1>1. a \in Seq(Byte) /\ Len(a) = 2 BY TwoBytes, Zenon
<1>2. Significant(a) = Significant(LE(8, n)) BY TwoBytes, Zenon
<1>3. Len(ip) \in {4, 16} OBVIOUS
<1> HIDE DEF a
<1>4. /\ d \in Seq(Byte) /\ Len(d) = Len(a) + Len(ip)
      /\ SubSeq(d, 1, Len(a)) = a /\ SubSeq(d, Len(a) + 1, Len(a) + Len(ip)) = ip
  BY <1>1, Joined
<1>5. /\ Len(d) = 2 + Len(ip) /\ SubSeq(d, 1, 2) = a /\ SubSeq(d, 3, 2 + Len(ip)) = ip
  BY <1>1, <1>3, <1>4
<1> HIDE DEF d
<1>6. Len(d) <= mc_bytes_pad
  <2>1. 18 <= mc_bytes_pad BY SizeAssumption, RecordAssumption, PadAssumption
  <2>2. mc_bytes_pad \in Nat BY PadAssumption
  <2> QED BY <1>3, <1>5, <2>1, <2>2
<1>7. FixedLen(id) \in {-1, Len(d)}
  <2>1. FixedLen(id) = (IF id = "Chk_IP_many_times_cnct_v4" THEN 6 ELSE 18) BY OfCounted
  <2> QED BY <1>5, <2>1
<1>8. ~FunctionFails(id, d) /\ Texts(id, d) = ts /\ id # "UNIX_TIME" BY OfCounted
<1>9. p = <<"num", Significant(a)>> /\ q = <<"ip", ip>>
  <2>1. 0 + 1 = 1 /\ 0 + 2 = 2 /\ 2 + 1 = 3 /\ 2 + (Len(d) - 2) = 2 + Len(ip) BY <1>3, <1>5
  <2> QED BY <1>5, <2>1 DEF Num, IP
<1>10. Short(p) /\ Short(q)
  <2>1. 0 \in Nat /\ 2 \in Nat /\ Len(d) - 2 \in Nat /\ 0 + 2 <= Len(d)
        /\ 2 + (Len(d) - 2) <= Len(d)
    BY <1>3, <1>5
  <2>2. Short(Num(d, 0, 2)) BY <1>4, <2>1, ShortNum
  <2>3. Short(IP(d, 2, Len(d) - 2)) BY <1>4, <2>1, ShortNum
  <2> QED BY <2>2, <2>3
<1>11. Legible(r) => r.id = id /\ Pieces(r) = A
  <2>1. r.args = <<N(n), arg>> => Pieces(r) = <<Piece(N(n)), Piece(arg)>>
    BY PiecesFew
  <2>2. Piece(N(n)) = p /\ Piece(arg) = q BY <1>2, <1>9, PieceOf
  <2> QED BY <2>1, <2>2, Zenon DEF Says
<1>12. Len(A) # 0 OBVIOUS
<1>13. AllFit(ts) /\ FlattenSeq(ts) = A \o <<LF>> /\ A \in Seq(TextPiece)
  <2>1. Short(LF) BY ShortHdr
  <2> HIDE DEF p, q
  <2> QED BY <1>10, <2>1, FitsThree
<1> HIDE DEF A, ts
<1>14. Kept(r, id, d) BY <1>6, <1>7, <1>8, <1>11, <1>12, <1>13, KeptTexts
<1> QED BY <1>14 DEF d, a

-----------------------------------------------------------------------------
(* The conversion of a name *)

\* The groups of six bits of a character.
LEMMA SixAt ==
    ASSUME NEW c \in Nat
    PROVE  /\ Six(c, 0) = 128 + (c % 64) /\ Six(c, 1) = 128 + ((c \div 64) % 64)
           /\ Six(c, 2) = 128 + ((c \div 4096) % 64)
<1>1. 64^0 = 1 /\ 64^1 = 64 /\ 64^2 = 4096 OBVIOUS
<1>2. c \div 1 = c OBVIOUS
<1> QED BY <1>1, <1>2 DEF Six

\* One to four numbers.
LEMMA UpToFour ==
    ASSUME NEW a \in Nat, NEW b \in Nat, NEW c \in Nat, NEW d \in Nat
    PROVE  /\ <<a>> \in Seq(Nat) /\ Len(<<a>>) = 1
           /\ <<a, b>> \in Seq(Nat) /\ Len(<<a, b>>) = 2
           /\ <<a, b, c>> \in Seq(Nat) /\ Len(<<a, b, c>>) = 3
           /\ <<a, b, c, d>> \in Seq(Nat) /\ Len(<<a, b, c, d>>) = 4
OBVIOUS

\* The bytes of a character are at most four, and three of one unit.
LEMMA EncodedType ==
    ASSUME NEW c \in Nat
    PROVE  /\ Encoded(c) \in Seq(Nat) /\ Len(Encoded(c)) <= 4
           /\ c < 65536 => Len(Encoded(c)) <= 3
<1>1. /\ Six(c, 0) \in Nat /\ Six(c, 1) \in Nat /\ Six(c, 2) \in Nat
      /\ 192 + (c \div 64) \in Nat /\ 224 + (c \div 4096) \in Nat
      /\ 240 + (c \div 262144) \in Nat
  BY SixAt
<1>2. CASE c < 128
  <2>1. Encoded(c) = <<c>> BY <1>2 DEF Encoded
  <2> QED BY <2>1, UpToFour
<1>3. CASE 128 <= c /\ c < 2048
  <2>1. Encoded(c) = <<192 + (c \div 64), Six(c, 0)>> BY <1>3 DEF Encoded
  <2> QED BY <1>1, <2>1, UpToFour
<1>4. CASE 2048 <= c /\ c < 65536
  <2>1. Encoded(c) = <<224 + (c \div 4096), Six(c, 1), Six(c, 0)>> BY <1>4 DEF Encoded
  <2> QED BY <1>1, <2>1, UpToFour
<1>5. CASE 65536 <= c /\ c < 1048576
  <2>1. Encoded(c) = <<240 + (c \div 262144), Six(c, 2), Six(c, 1), Six(c, 0)>>
    BY <1>5 DEF Encoded
  <2> QED BY <1>1, <1>5, <2>1, UpToFour
<1>6. CASE c >= 1048576
  <2>1. Encoded(c) = <<>> BY <1>6 DEF Encoded
  <2> QED BY <1>6, <2>1, EmptySeq
<1> QED BY <1>2, <1>3, <1>4, <1>5, <1>6

\* They are those of UTF-8, for the characters that the converter knows.
LEMMA EncodedUtf8 ==
    ASSUME NEW c \in Nat, c < 1048576
    PROVE  Encoded(c) = Utf8(c) /\ Encoded(c) # <<>>
<1>1. 64^0 = 1 /\ 64^1 = 64 /\ 64^2 = 4096 /\ 64^3 = 262144 BY SMT
<1>2. c \div 1 = c BY SMT
<1> DEFINE x == 128 + (c % 64)
           y == 128 + ((c \div 64) % 64)
           z == 128 + ((c \div 4096) % 64)
<1>7. Six(c, 0) = x /\ Six(c, 1) = y /\ Six(c, 2) = z BY SMT, <1>1, <1>2 DEF Six
<1>3. CASE c < 128
  <2>1. Encoded(c) = <<c>> BY SMT, <1>3 DEF Encoded
  <2>2. Utf8(c) = [i \in 1..1 |-> IF i = 1 THEN 0 + (c \div 64^0)
                                  ELSE 128 + ((c \div 64^(1 - i)) % 64)]
    BY SMT, <1>3 DEF Utf8
  <2>3. Utf8(c) = <<c>> BY SMT, <1>1, <1>2, <2>2
  <2> QED BY SMT, <2>1, <2>3
<1>4. CASE 128 <= c /\ c < 2048
  <2>1. Encoded(c) = <<192 + (c \div 64), Six(c, 0)>> BY SMT, <1>4 DEF Encoded
  <2>2. Utf8(c) = [i \in 1..2 |-> IF i = 1 THEN 192 + (c \div 64^1)
                                  ELSE 128 + ((c \div 64^(2 - i)) % 64)]
    BY SMT, <1>4 DEF Utf8
  <2>3. 64^(2 - 2) = 1 BY SMT, <1>1
  <2>4. Utf8(c)[1] = 192 + (c \div 64) /\ Utf8(c)[2] = 128 + (c % 64)
    BY SMT, <1>1, <1>2, <2>2, <2>3
  <2>5. Utf8(c) = <<192 + (c \div 64), 128 + (c % 64)>> BY SMT, <2>2, <2>4
  <2>6. Encoded(c) = Utf8(c) BY SMT, <2>1, <2>5, SixAt
  <2>7. Len(Encoded(c)) # 0 BY SMT, <2>1
  <2> QED BY SMT, <2>6, <2>7
<1>5. CASE 2048 <= c /\ c < 65536
  <2>1. Encoded(c) = <<224 + (c \div 4096), Six(c, 1), Six(c, 0)>> BY SMT, <1>5 DEF Encoded
  <2>2. Utf8(c) = [i \in 1..3 |-> IF i = 1 THEN 224 + (c \div 64^2)
                                  ELSE 128 + ((c \div 64^(3 - i)) % 64)]
    BY SMT, <1>5 DEF Utf8
  <2>3. 64^(3 - 3) = 1 /\ 64^(3 - 2) = 64 BY SMT, <1>1
  <2>4. /\ Utf8(c)[1] = 224 + (c \div 4096) /\ Utf8(c)[2] = y
        /\ Utf8(c)[3] = x
    BY SMT, <1>1, <1>2, <2>2, <2>3
  <2>5. Utf8(c)[2] = Six(c, 1) /\ Utf8(c)[3] = Six(c, 0) 
    <3> HIDE DEF x, y, z
    <3> QED BY SMT, <2>4, <1>7
  <2>6. Encoded(c) = Utf8(c)
    <3>1. Utf8(c) = <<224 + (c \div 4096), Six(c, 1), Six(c, 0)>> BY SMT, <2>2, <2>4, <2>5
    <3> QED BY SMT, <2>1, <3>1
  <2>7. Len(Encoded(c)) # 0 BY SMT, <2>1
  <2> QED BY SMT, <2>6, <2>7
<1>6. CASE 65536 <= c
  <2>1. Encoded(c) = <<240 + (c \div 262144), Six(c, 2), Six(c, 1), Six(c, 0)>>
    BY SMT, <1>6 DEF Encoded
  <2>2. Utf8(c) = [i \in 1..4 |-> IF i = 1 THEN 240 + (c \div 64^3)
                                  ELSE 128 + ((c \div 64^(4 - i)) % 64)]
    BY SMT, <1>6 DEF Utf8
  <2>3. 64^(4 - 4) = 1 /\ 64^(4 - 3) = 64 /\ 64^(4 - 2) = 4096 BY SMT, <1>1
  <2>4. /\ Utf8(c)[1] = 240 + (c \div 262144) /\ Utf8(c)[2] = z
        /\ Utf8(c)[3] = y /\ Utf8(c)[4] = x
    BY SMT, <1>1, <1>2, <2>2, <2>3
  <2>5. Utf8(c)[2] = Six(c, 2) /\ Utf8(c)[3] = Six(c, 1) /\ Utf8(c)[4] = Six(c, 0) 
    <3> HIDE DEF x, y, z
    <3> QED BY SMT, <2>4, <1>7
  <2>6. Encoded(c) = Utf8(c)
    <3>1. Utf8(c) = <<240 + (c \div 262144), Six(c, 2), Six(c, 1), Six(c, 0)>> BY SMT, <2>2, <2>4, <2>5
    <3> QED BY SMT, <2>1, <3>1
  <2>7. Len(Encoded(c)) # 0 BY SMT, <2>1
  <2> QED BY SMT, <2>6, <2>7
<1> QED BY SMT, <1>3, <1>4, <1>5, <1>6

-----------------------------------------------------------------------------
(* The conversion, unit by unit *)

Unit == Lengths
High == {0} \cup 55296..56319
CvtState == [ok : BOOLEAN, high : High, out : Seq(Nat)]
CvtBase == [ok |-> TRUE, high |-> 0, out |-> <<>>]
CvtStep == [x \in CvtState \X Unit |-> Converted(x[1], x[2])]

\* The bytes written, and three for a high surrogate that waits for its other half.
Weight(s) == Len(s.out) + (IF s.high = 0 THEN 0 ELSE 3)

\* The character of a unit, or of two.
LEMMA CharacterType ==
    ASSUME NEW h, h \in High, NEW u, u \in Unit
    PROVE  Character(h, u) \in Nat /\ (h = 0 => Character(h, u) < 65536)
<1>1. CASE h = 0 BY <1>1 DEF Character, Unit, Lengths
<1>2. CASE h # 0
  <2>1. h \in 55296..56319 BY SMT, <1>2 DEF High
  <2>3. u \in Nat BY SMT DEF Unit, Lengths
  <2>2. Character(h, u) = 65536 + ((h - 55296) * 1024) + (u - 56320)
    BY SMT, <1>2 DEF Character
  <2> QED BY SMT, <1>2, <2>1, <2>2, <2>3
<1> QED BY <1>1, <1>2

\* Each unit adds three bytes at most.
LEMMA ConvertedType ==
    ASSUME NEW s, s \in CvtState, NEW u, u \in Unit
    PROVE  Converted(s, u) \in CvtState /\ Weight(Converted(s, u)) <= Weight(s) + 3
<1>1. /\ s.ok \in BOOLEAN /\ s.high \in High /\ s.out \in Seq(Nat) /\ Len(s.out) \in Nat
  BY LenProperties DEF CvtState
<1>2. Weight(s) \in Nat
  <2> DEFINE n == Len(s.out)
  <2> HIDE DEF n
  <2>1. n + 0 \in Nat /\ n + 3 \in Nat BY <1>1 DEF n
  <2> QED BY <2>1 DEF Weight, n
<1>8. Weight(s) = Len(s.out) + (IF s.high = 0 THEN 0 ELSE 3) BY DEF Weight
<1> DEFINE w == Weight(s)
<1>9. w \in Nat /\ w <= w + 3 /\ 0 <= w + 3 BY <1>2
<1> HIDE DEF w
<1>3. Failed \in CvtState /\ Weight(Failed) <= w + 3
  <2>1. Failed \in CvtState BY EmptySeq DEF Failed, CvtState, High
  <2>2. Weight(Failed) = 0 BY DEF Failed, Weight
  <2> QED BY <1>9, <2>1, <2>2
<1>4. CASE ~s.ok
  <2>1. Converted(s, u) = s BY <1>4 DEF Converted
  <2> QED BY <1>9, <2>1 DEF w
<1>5. CASE s.ok /\ s.high = 0 /\ (Len(s.out) > bytes_buf_utf8 - 4 \/ IsLow(u))
  <2>1. Converted(s, u) = Failed BY <1>5 DEF Converted
  <2> QED BY <1>3, <2>1 DEF w
<1>6. CASE s.ok /\ s.high = 0 /\ ~(Len(s.out) > bytes_buf_utf8 - 4 \/ IsLow(u)) /\ IsHigh(u)
  <2> DEFINE t == [s EXCEPT !.high = u]
  <2>1. Converted(s, u) = t BY <1>6 DEF Converted
  <2>2. u \in High BY <1>6 DEF IsHigh, High, Unit, Lengths
  <2>3. t \in CvtState /\ t.out = s.out BY <1>1, <2>2 DEF CvtState
  <2> HIDE DEF t
  <2>4. Weight(t) = Len(s.out) + (IF t.high = 0 THEN 0 ELSE 3) BY <2>3 DEF Weight
  <2>5. Weight(s) = Len(s.out) + 0 BY <1>8, <1>6
  <2>6. Weight(t) <= Weight(s) + 3
    <3> DEFINE n == Len(s.out)
    <3> HIDE DEF n
    <3>1. n \in Nat /\ Weight(t) = n + (IF t.high = 0 THEN 0 ELSE 3) /\ Weight(s) = n + 0
      BY <1>1, <2>4, <2>5 DEF n
    <3> QED BY <3>1
  <2> QED BY <2>1, <2>3, <2>6 DEF t
<1>7. CASE /\ s.ok /\ ~(s.high = 0 /\ (Len(s.out) > bytes_buf_utf8 - 4 \/ IsLow(u)))
           /\ ~(s.high = 0 /\ IsHigh(u))
  <2> DEFINE bytes == Encoded(Character(s.high, u))
             t == [s EXCEPT !.high = 0, !.out = @ \o bytes]
  <2>1. Converted(s, u) = IF bytes = <<>> THEN Failed ELSE t BY <1>7 DEF Converted
  <2>2. /\ bytes \in Seq(Nat) /\ Len(bytes) <= 4 /\ (s.high = 0 => Len(bytes) <= 3)
        /\ Len(bytes) \in Nat
    <3> DEFINE c == Character(s.high, u)
    <3>1. c \in Nat /\ (s.high = 0 => c < 65536) BY <1>1, CharacterType
    <3> HIDE DEF c
    <3>2. /\ Encoded(c) \in Seq(Nat) /\ Len(Encoded(c)) <= 4
          /\ c < 65536 => Len(Encoded(c)) <= 3
      <4>1. \A m \in Nat : /\ Encoded(m) \in Seq(Nat) /\ Len(Encoded(m)) <= 4
                           /\ m < 65536 => Len(Encoded(m)) <= 3
        BY SMT, EncodedType
      <4>2. c \in Nat BY <3>1
      <4> HIDE DEF bytes, t
      <4> QED BY SMT, <4>1, <4>2
    <3>3. Len(Encoded(c)) \in Nat BY <3>2, LenProperties
    <3> QED BY SMT, <3>1, <3>2, <3>3 DEF c
  <2> HIDE DEF bytes
  <2>3. s.out \o bytes \in Seq(Nat) /\ Len(s.out \o bytes) = Len(s.out) + Len(bytes)
    BY <1>1, <2>2, ConcatProperties
  <2>4. t \in CvtState /\ t.out = s.out \o bytes /\ t.high = 0
    <3> DEFINE o == s.out \o bytes
    <3>1. o \in Seq(Nat) BY <2>3
    <3> HIDE DEF o
    <3>2. 0 \in High BY DEF High
    <3>3. [s EXCEPT !.high = 0, !.out = o] \in CvtState BY <3>1, <3>2, Zenon DEF CvtState
    <3>4. [s EXCEPT !.high = 0, !.out = o].out = o /\ [s EXCEPT !.high = 0, !.out = o].high = 0
      BY <3>1 DEF CvtState, High
    <3> QED BY <3>3, <3>4, Zenon DEF o
  <2> HIDE DEF t
  <2>5. Weight(t) = (Len(s.out) + Len(bytes)) + 0 BY <2>3, <2>4 DEF Weight
  <2>6. Weight(t) <= Weight(s) + 3
    <3> DEFINE n == Len(s.out)
               m == Len(bytes)
    <3> HIDE DEF n, m
    <3>1. /\ n \in Nat /\ m \in Nat /\ m <= 4 /\ (s.high = 0 => m <= 3)
          /\ Weight(t) = (n + m) + 0 /\ Weight(s) = n + (IF s.high = 0 THEN 0 ELSE 3)
      BY <1>1, <1>8, <2>2, <2>5 DEF n, m
    <3> QED BY <3>1
  <2> QED BY <1>3, <2>1, <2>4, <2>6 DEF t, w
<1> QED BY <1>4, <1>5, <1>6, <1>7

\* The conversion as a fold, and its steps.
St(units, i) == Fold(CvtStep, CvtBase, SubSeq(units, 1, i))

\* A step of the conversion stays in its states, and the fold goes on with it.
LEMMA CvtIsStep ==
    /\ IsStep(CvtStep, CvtState, Unit) /\ CvtBase \in CvtState /\ GoesOn(CvtStep, CvtBase, Unit)
    /\ \A s \in CvtState, u \in Unit : CvtStep[<<s, u>>] = Converted(s, u)
<1>1. \A s \in CvtState, u \in Unit : Converted(s, u) \in CvtState BY ConvertedType
<1>2. IsStep(CvtStep, CvtState, Unit) BY <1>1 DEF IsStep, CvtStep
<1>3. CvtBase \in CvtState
  <2>1. 0 \in High BY DEF High
  <2> QED BY <2>1, EmptySeq DEF CvtBase, CvtState
<1>4. GoesOn(CvtStep, CvtBase, Unit) BY <1>2, <1>3, FoldAppend
<1>5. \A s \in CvtState, u \in Unit : CvtStep[<<s, u>>] = Converted(s, u) BY DEF CvtStep
<1> QED BY <1>2, <1>3, <1>4, <1>5

\* The conversion, unit by unit.
LEMMA StSteps ==
    ASSUME NEW units, units \in Seq(Unit)
    PROVE  /\ St(units, 0) = CvtBase
           /\ \A i \in 0 .. Len(units) : St(units, i) \in CvtState
           /\ \A i \in 1 .. Len(units) :
                 units[i] \in Unit /\ St(units, i) = Converted(St(units, i - 1), units[i])
<1> DEFINE P(i) == SubSeq(units, 1, i)
<1>1. P(0) = <<>> BY PrefixEnds
<1>2. St(units, 0) = CvtBase BY <1>1, CvtIsStep DEF St, GoesOn
<1>3. ASSUME NEW i \in 1 .. Len(units)
      PROVE  /\ P(i) = Append(P(i - 1), units[i]) /\ P(i - 1) \in Seq(Unit)
             /\ units[i] \in Unit /\ P(i) \in Seq(Unit)
  <2>1. P(i) = Append(P(i - 1), units[i]) /\ P(i - 1) \in Seq(Unit) /\ units[i] \in Unit
    BY PrefixStep
  <2> HIDE DEF P
  <2>2. Append(P(i - 1), units[i]) \in Seq(Unit) BY <2>1, AppendProperties
  <2> QED BY <2>1, <2>2
<1>4. ASSUME NEW i \in 0 .. Len(units) PROVE P(i) \in Seq(Unit)
  <2>1. CASE i = 0 BY <2>1, <1>1, EmptySeq
  <2>2. CASE i # 0
    <3>1. i \in 1 .. Len(units) BY <2>2
    <3> QED BY <3>1, <1>3
  <2> QED BY <2>1, <2>2
<1> HIDE DEF P
<1>5. ASSUME NEW i \in 0 .. Len(units) PROVE St(units, i) \in CvtState
  <2>1. P(i) \in Seq(Unit) BY <1>4
  <2>2. Fold(CvtStep, CvtBase, P(i)) \in CvtState BY <2>1, CvtIsStep, FoldKnown, Zenon
  <2> QED BY <2>2 DEF St, P
<1>6. ASSUME NEW i \in 1 .. Len(units)
      PROVE  units[i] \in Unit /\ St(units, i) = Converted(St(units, i - 1), units[i])
  <2>1. /\ P(i) = Append(P(i - 1), units[i]) /\ P(i - 1) \in Seq(Unit) /\ units[i] \in Unit
    BY <1>3
  <2>2. Fold(CvtStep, CvtBase, P(i)) = CvtStep[<<Fold(CvtStep, CvtBase, P(i - 1)), units[i]>>]
    BY <2>1, CvtIsStep, Zenon DEF GoesOn
  <2>3. St(units, i - 1) \in CvtState
    <3>1. i - 1 \in 0 .. Len(units) OBVIOUS
    <3> QED BY <3>1, <1>5
  <2>4. St(units, i) = CvtStep[<<St(units, i - 1), units[i]>>] BY <2>2 DEF St, P
  <2> QED BY <2>1, <2>3, <2>4, CvtIsStep, Zenon
<1> QED BY <1>2, <1>5, <1>6

\* What the conversion gives.
LEMMA CvtIs ==
    ASSUME NEW units, units \in Seq(Unit), units # <<>>
    PROVE  Cvt_toUtf8(units) = (IF St(units, Len(units)).high # 0 THEN Failed
                                ELSE St(units, Len(units)))
<1> DEFINE n == Len(units)
           C == CHOOSE it : it = [T \in SUBSET DOMAIN units |->
                  IF T = {} THEN [ok |-> TRUE, high |-> 0, out |-> <<>>]
                  ELSE Converted(it[T \ {Max(T)}], units[Max(T)])]
<1>1. IsStep(CvtStep, CvtState, Unit) /\ CvtBase \in CvtState BY CvtIsStep
<1>2. n \in Nat /\ DOMAIN units = 1..n /\ \A i \in 1..n : units[i] \in Unit
  BY LenProperties, ElementOfSeq
<1>3. PICK it \in [SUBSET (1..n) -> CvtState] : Folds(it, CvtStep, CvtBase, units, n)
  <2>1. n \in 0 .. Len(units) BY <1>2
  <2> QED BY <1>1, <2>1, FoldExists
<1>4. ASSUME NEW T \in SUBSET (1..n), T # {}
      PROVE  Max(T) \in 1..n /\ T \ {Max(T)} \in SUBSET (1..n)
  BY <1>2, <1>4, MaxIs
<1>5. \A x \in CvtState, p \in Unit : CvtStep[<<x, p>>] = Converted(x, p) BY CvtIsStep
<1>6. it = [T \in SUBSET DOMAIN units |->
              IF T = {} THEN [ok |-> TRUE, high |-> 0, out |-> <<>>]
              ELSE Converted(it[T \ {Max(T)}], units[Max(T)])]
  <2>1. ASSUME NEW T \in SUBSET (1..n)
        PROVE  it[T] = IF T = {} THEN CvtBase ELSE Converted(it[T \ {Max(T)}], units[Max(T)])
    <3>1. it[T] = IF T = {} THEN CvtBase ELSE CvtStep[<<it[T \ {Max(T)}], units[Max(T)]>>]
      BY <1>3 DEF Folds
    <3> QED BY <3>1, <1>2, <1>4, <1>5
  <2>2. it = [T \in SUBSET DOMAIN units |->
                IF T = {} THEN CvtBase ELSE Converted(it[T \ {Max(T)}], units[Max(T)])]
    BY <2>1, <1>2
  <2> QED BY <2>2 DEF CvtBase
<1>7. C = [T \in SUBSET DOMAIN units |->
             IF T = {} THEN [ok |-> TRUE, high |-> 0, out |-> <<>>]
             ELSE Converted(C[T \ {Max(T)}], units[Max(T)])]
  BY <1>6
<1>8. Cvt_toUtf8(units) = IF units = <<>> \/ C[DOMAIN units].high # 0 THEN Failed
                          ELSE C[DOMAIN units]
  BY DEF Cvt_toUtf8, FoldLeft, MapThenFoldSet
<1> HIDE DEF C
<1>9. Iterates(C, CvtStep, CvtState, CvtBase, units)
  <2>1. \A T \in SUBSET (1..n) :
           C[T] = IF T = {} THEN CvtBase ELSE Converted(C[T \ {Max(T)}], units[Max(T)])
    BY <1>2, <1>7 DEF CvtBase
  <2>2. C[{}] = CvtBase
    <3>1. {} \in SUBSET (1..n) OBVIOUS
    <3> HIDE DEF n
    <3> QED BY <2>1, <3>1
  <2>3. ASSUME NEW T \in SUBSET (1..n), T # {}, C[T \ {Max(T)}] \in CvtState
        PROVE  C[T] = CvtStep[<<C[T \ {Max(T)}], units[Max(T)]>>]
    <3>1. units[Max(T)] \in Unit BY <2>3, <1>2, <1>4
    <3>2. C[T] = Converted(C[T \ {Max(T)}], units[Max(T)]) BY <2>1, <2>3
    <3> QED BY <2>3, <3>1, <3>2, <1>5
  <2> QED BY <2>2, <2>3 DEF Iterates
<1>10. C[1..n] = Fold(CvtStep, CvtBase, units) BY <1>1, <1>9, IteratesFold
<1>11. SubSeq(units, 1, n) = units BY PrefixEnds
<1> QED BY <1>2, <1>8, <1>10, <1>11 DEF St

\* It gives three bytes for each unit at most.
LEMMA StWeight ==
    ASSUME NEW units, units \in Seq(Unit)
    PROVE  \A i \in 0 .. Len(units) : Weight(St(units, i)) <= 3 * i
<1> DEFINE n == Len(units)
           G == {i \in 0..n : Weight(St(units, i)) <= 3 * i}
<1>1. n \in Nat BY LenProperties
<1>2. 0 \in G
  <2>1. Weight(CvtBase) = 0 BY DEF CvtBase, Weight
  <2>2. St(units, 0) = CvtBase BY StSteps
  <2> QED BY <1>1, <2>1, <2>2
<1>3. ASSUME NEW i \in 1..n, i - 1 \in G PROVE i \in G
  <2> DEFINE s == St(units, i - 1)
             t == St(units, i)
  <2>1. i - 1 \in 0..n /\ i \in 0..n BY <1>1
  <2>2. s \in CvtState /\ t \in CvtState /\ t = Converted(s, units[i]) /\ units[i] \in Unit
    BY <2>1, StSteps
  <2>3. Weight(s) <= 3 * (i - 1) BY <1>3
  <2> HIDE DEF s, t
  <2>4. Weight(t) <= Weight(s) + 3 BY <2>2, ConvertedType
  <2>5. Weight(s) \in Nat /\ Weight(t) \in Nat
    <3>1. \A x \in CvtState : Weight(x) \in Nat
      <4>1. ASSUME NEW x \in CvtState PROVE Weight(x) \in Nat
        <5> DEFINE k == Len(x.out)
        <5>1. k \in Nat BY LenProperties DEF CvtState
        <5> HIDE DEF k
        <5>2. k + 0 \in Nat /\ k + 3 \in Nat BY <5>1
        <5> QED BY <5>2 DEF Weight, k
      <4> QED BY <4>1
    <3> QED BY <2>2, <3>1
  <2>6. Weight(t) <= 3 * i BY <2>1, <2>3, <2>4, <2>5
  <2> QED BY <2>1, <2>6 DEF t
<1>4. \A i \in 0..n : i \in G
  <2> HIDE DEF G, n
  <2> QED BY <1>1, <1>2, <1>3, UpTo
<1> QED
  <2> HIDE DEF n
  <2>1. \A i \in 0..n : Weight(St(units, i)) <= 3 * i BY <1>4
  <2> QED BY <2>1 DEF n

\* A name has at most three bytes for each of its units.
LEMMA CvtType ==
    ASSUME NEW units, units \in Seq(Unit)
    PROVE  Cvt_toUtf8(units).out \in Seq(Nat) /\ Len(Cvt_toUtf8(units).out) <= 3 * Len(units)
<1> DEFINE n == Len(units)
<1>1. n \in Nat BY LenProperties
<1>5. n \in 0..n BY <1>1
<1>6. Weight(St(units, n)) <= 3 * n /\ St(units, n) \in CvtState
  BY <1>5, StSteps, StWeight
<1>7. Failed.out = <<>> /\ <<>> \in Seq(Nat) /\ Len(<<>>) = 0 BY EmptySeq DEF Failed
<1>8. CASE units = <<>> \/ St(units, n).high # 0
  <2>1. Cvt_toUtf8(units) = Failed
    <3>1. CASE units = <<>> BY <3>1 DEF Cvt_toUtf8
    <3>2. CASE units # <<>> BY <3>2, <1>8, CvtIs
    <3> QED BY <3>1, <3>2
  <2>2. 0 <= 3 * n BY <1>1
  <2> QED BY <1>7, <2>1, <2>2
<1>9. CASE ~(units = <<>> \/ St(units, n).high # 0)
  <2> DEFINE s == St(units, n)
  <2>1. Cvt_toUtf8(units) = s BY <1>9, CvtIs
  <2>2. s.high = 0 /\ s.out \in Seq(Nat) /\ Weight(s) <= 3 * n BY <1>6, <1>9 DEF CvtState
  <2> HIDE DEF s
  <2>3. Weight(s) = Len(s.out) + 0 BY <2>2 DEF Weight
  <2>4. Len(s.out) \in Nat BY <2>2, LenProperties
  <2>5. Len(s.out) <= 3 * n BY <1>1, <2>2, <2>3, <2>4
  <2> QED BY <2>1, <2>2, <2>5
<1> QED BY <1>8, <1>9

-----------------------------------------------------------------------------
(* A name that has a text *)

\* Units and surrogates.
LEMMA Surrogates ==
    ASSUME NEW u, u \in Unit
    PROVE  /\ u \in Nat /\ u < 65536
           /\ IsHigh(u) => 55296 <= u /\ u < 56320 /\ ~IsLow(u)
BY SMT DEF Unit, Lengths, IsHigh, IsLow

\* The characters that the converter knows.
LEMMA KnownCharacter ==
    ASSUME NEW c, c \in Nat, c < 1048576
    PROVE  Encoded(c) = Utf8(c) /\ Encoded(c) # <<>> /\ Encoded(c) \in Seq(Nat)
<1>1. Encoded(c) \in Seq(Nat)
  <2>1. \A m \in Nat : Encoded(m) \in Seq(Nat) BY SMT, EncodedType
  <2> QED BY SMT, <2>1
<1>2. Encoded(c) = Utf8(c) /\ Encoded(c) # <<>> BY SMT, EncodedUtf8
<1> QED BY <1>1, <1>2

\* They are all known.
LEMMA KnownCharacters ==
    \A m \in Nat : m < 1048576 =>
        Encoded(m) = Utf8(m) /\ Encoded(m) # <<>> /\ Encoded(m) \in Seq(Nat)
BY SMT, KnownCharacter

\* The buffer has room for a name.
LEMMA Room ==
    EN_MAX_LEN_uname \in Nat /\ bytes_buf_utf8 \in Nat
    /\ 3 * EN_MAX_LEN_uname + 4 <= bytes_buf_utf8
<1>1. EN_MAX_LEN_uname \in Nat BY ClientAssumption
<1>2. bytes_buf_utf8 \in Nat BY Utf8Assumption
<1>3. 3 * EN_MAX_LEN_uname + 4 <= bytes_buf_utf8 BY SizeAssumption
<1> QED BY <1>1, <1>2, <1>3

NameParts(name) ==
    [i \in DOMAIN name |-> IF IsHigh(name[i]) THEN <<>> ELSE Utf8(CodePoint(name, i))]

\* The text of the first units, and the surrogate that waits after them.
TextUpTo(name, i) == FlattenSeq(SubSeq(NameParts(name), 1, i))
Pending(name, i) == IF i = 0 THEN 0 ELSE IF IsHigh(name[i]) THEN name[i] ELSE 0

\* The conversion has got as far as unit i.
Reached(name, i) ==
    /\ St(name, i).ok /\ St(name, i).out = TextUpTo(name, i)
    /\ St(name, i).high = Pending(name, i)

\* The character at a unit that is no high surrogate, as the code and as UTF-16
\* has it.
LEMMA CharacterIs ==
    ASSUME NEW name, name \in Seq(Unit), WellFormed(name), NEW i \in 1 .. Len(name),
           ~IsHigh(name[i])
    PROVE  /\ CodePoint(name, i) \in Nat
           /\ Character(Pending(name, i - 1), name[i]) = CodePoint(name, i)
           /\ Pending(name, i - 1) = 0 => ~IsLow(name[i])
           /\ Pending(name, i - 1) # 0 => IsLow(name[i])
<1>1. Len(name) \in Nat /\ DOMAIN name = 1 .. Len(name) BY LenProperties
<1>2. name[i] \in Unit BY ElementOfSeq
<1>3. /\ IsHigh(name[i]) => i < Len(name) /\ IsLow(name[i + 1])
      /\ IsLow(name[i]) => i > 1 /\ IsHigh(name[i - 1])
  BY <1>1 DEF WellFormed
<1>4. name[i] \in Nat /\ name[i] < 65536 BY SMT, <1>2, Surrogates
<1> DEFINE u == name[i]
           h == name[i - 1]
<1>5. CASE IsLow(u)
  <2>1. i > 1 /\ IsHigh(h) BY <1>3, <1>5
  <2>2. i - 1 \in 1 .. Len(name) /\ i - 1 # 0 BY <1>1, <2>1
  <2>3. h \in Unit BY <2>2, ElementOfSeq
  <2>4. Pending(name, i - 1) = h BY <2>1, <2>2 DEF Pending
  <2>5. CodePoint(name, i) = 65536 + ((h % 1024) * 1024) + (u % 1024) BY <1>5 DEF CodePoint
  <2> HIDE DEF u, h
  <2>6. h \in Nat /\ 55296 <= h /\ h < 56320 BY SMT, <2>1, <2>3, Surrogates
  <2>7. u \in Nat /\ 56320 <= u /\ u < 57344 BY SMT, <1>4, <1>5 DEF IsLow, u
  <2>8. h % 1024 = h - 55296 /\ u % 1024 = u - 56320 BY SMT, <2>6, <2>7
  <2>9. Character(h, u) = 65536 + ((h - 55296) * 1024) + (u - 56320)
    BY SMT, <2>6 DEF Character
  <2>10. Character(h, u) = CodePoint(name, i) /\ CodePoint(name, i) \in Nat
    BY SMT, <2>5, <2>6, <2>7, <2>8, <2>9
  <2>11. h # 0 BY SMT, <2>6
  <2> QED BY <1>5, <2>4, <2>10, <2>11, Zenon DEF u, h
<1>6. CASE ~IsLow(u)
  <2>1. Pending(name, i - 1) = 0
    <3>1. CASE i = 1 BY <3>1 DEF Pending
    <3>2. CASE i # 1
      <4>1. i - 1 \in 1 .. Len(name) /\ i - 1 # 0 /\ i - 1 < Len(name) /\ (i - 1) + 1 = i
        BY <1>1, <3>2
      <4>2. IsHigh(h) => IsLow(name[(i - 1) + 1]) BY <1>1, <4>1 DEF WellFormed
      <4>3. ~IsHigh(h) BY <1>6, <4>1, <4>2
      <4> QED BY <4>1, <4>3 DEF Pending
    <3> QED BY <3>1, <3>2
  <2>2. CodePoint(name, i) = u BY <1>6 DEF CodePoint
  <2>3. Character(0, u) = u BY DEF Character
  <2> QED BY <1>4, <1>6, <2>1, <2>2, <2>3
<1> QED BY <1>5, <1>6

\* Each unit of a name that has a text is converted to its part of the text.
LEMMA ReachedNext ==
    ASSUME NEW name, name \in Seq(Unit), Convertible(name), Len(name) <= EN_MAX_LEN_uname,
           NEW i \in 1 .. Len(name), Reached(name, i - 1),
           NameParts(name) \in Seq(Seq(Nat)), Len(NameParts(name)) = Len(name)
    PROVE  Reached(name, i)
<1> DEFINE u == name[i]
           s == St(name, i - 1)
           t == St(name, i)
           o == TextUpTo(name, i - 1)
<1>1. Len(name) \in Nat /\ DOMAIN name = 1 .. Len(name) /\ i \in Nat /\ i # 0
  BY LenProperties
<1>2. i - 1 \in 0 .. Len(name) /\ i \in 0 .. Len(name) BY <1>1
<1>3. s \in CvtState /\ t \in CvtState /\ t = Converted(s, u) /\ u \in Unit BY <1>2, StSteps
<1>4. s.ok /\ s.out = o /\ s.high = Pending(name, i - 1) BY DEF Reached
<1>5. TextUpTo(name, i) = o \o NameParts(name)[i] /\ o \in Seq(Nat)
  <2>1. i \in 1 .. Len(NameParts(name)) OBVIOUS
  <2> QED BY <2>1, FlattenAt DEF TextUpTo
<1>6. NameParts(name)[i] = IF IsHigh(u) THEN <<>> ELSE Utf8(CodePoint(name, i))
  BY <1>1 DEF NameParts
<1>7. WellFormed(name) BY DEF Convertible
<1>11. ~IsHigh(name[i]) => CodePoint(name, i) < 1048576
  <2> DEFINE Known(j) == ~IsHigh(name[j]) => CodePoint(name, j) < 1048576
  <2>1. \A j \in DOMAIN name : Known(j) BY SMT DEF Convertible
  <2>2. i \in DOMAIN name BY <1>1
  <2> HIDE DEF Known
  <2>3. Known(i) BY <2>1, <2>2
  <2> QED BY SMT, <2>3 DEF Known
<1>8. s.high = 0 => ~(Len(s.out) > bytes_buf_utf8 - 4)
  <2>1. Weight(s) <= 3 * (i - 1) BY <1>2, StWeight
  <2>2. s.high = 0 => Weight(s) = Len(s.out) + 0 BY DEF Weight
  <2>3. Len(s.out) \in Nat BY <1>3, LenProperties DEF CvtState
  <2> HIDE DEF s
  <2>4. EN_MAX_LEN_uname \in Nat /\ 3 * EN_MAX_LEN_uname + 4 <= bytes_buf_utf8
    BY Room
  <2>5. bytes_buf_utf8 \in Nat BY Room
  <2>6. Len(name) \in Nat BY <1>1
  <2> DEFINE w == Len(s.out)
             k == Len(name)
  <2>7. /\ w \in Nat /\ k \in Nat /\ k <= EN_MAX_LEN_uname /\ i <= k /\ i \in Nat
        /\ s.high = 0 => w + 0 <= 3 * (i - 1)
    BY <2>1, <2>2, <2>3, <2>6
  <2> HIDE DEF w, k
  <2>8. s.high = 0 => ~(w > bytes_buf_utf8 - 4) BY <2>4, <2>5, <2>7
  <2> QED BY <2>8 DEF w
<1>12. \A v \in Unit : IsHigh(v) => ~IsLow(v) BY SMT, Surrogates
<1>9. CASE IsHigh(u)
  <2>1. s.high = 0
    <3>1. CASE i = 1 BY <1>4, <3>1 DEF Pending
    <3>2. CASE i # 1
      <4>1. i - 1 \in 1 .. Len(name) /\ i - 1 # 0 /\ (i - 1) + 1 = i BY <1>1, <3>2
      <4>2. IsHigh(name[i - 1]) => IsLow(name[(i - 1) + 1]) BY <1>1, <1>7, <4>1 DEF WellFormed
      <4>3. ~IsLow(u) BY <1>12, <1>3, <1>9
      <4>4. ~IsHigh(name[i - 1]) BY <4>1, <4>2, <4>3
      <4> QED BY <1>4, <4>1, <4>4 DEF Pending
    <3> QED BY <3>1, <3>2
  <2>2. ~IsLow(u) BY <1>12, <1>3, <1>9
  <2> HIDE DEF s, t, u, o
  <2>3. t = [s EXCEPT !.high = u] BY <1>3, <1>4, <1>8, <1>9, <2>1, <2>2 DEF Converted
  <2>4. t.ok /\ t.high = u /\ t.out = s.out BY <1>3, <1>4, <2>3 DEF CvtState
  <2>5. TextUpTo(name, i) = o
    <3>1. NameParts(name)[i] = <<>> BY <1>6, <1>9
    <3> QED BY <1>5, <3>1, ConcatEmptySeq
  <2>6. Pending(name, i) = u BY <1>1, <1>9 DEF Pending, u
  <2> QED BY <1>4, <2>4, <2>5, <2>6 DEF Reached, t
<1>10. CASE ~IsHigh(u)
  <2> DEFINE c == CodePoint(name, i)
             bytes == Encoded(Character(s.high, u))
  <2>1. /\ c \in Nat /\ Character(s.high, u) = c /\ (s.high = 0 => ~IsLow(u))
    BY <1>4, <1>7, <1>10, CharacterIs
  <2>2. c < 1048576 BY SMT, <1>10, <1>11
  <2>9. c \in Nat BY <2>1
  <2> HIDE DEF c, s, t, u, o, bytes
  <2>3. Encoded(c) = Utf8(c) /\ Encoded(c) # <<>> /\ Encoded(c) \in Seq(Nat)
    BY SMT, <2>2, <2>9, KnownCharacters
  <2>4. bytes = Utf8(c) /\ bytes # <<>> /\ bytes \in Seq(Nat) BY <2>1, <2>3 DEF bytes
  <2>5. t = [s EXCEPT !.high = 0, !.out = @ \o bytes]
    BY <1>3, <1>4, <1>8, <1>10, <2>1, <2>4, Zenon DEF Converted, bytes
  <2>6. t.ok /\ t.high = 0 /\ t.out = s.out \o bytes
    <3> DEFINE b == s.out \o bytes
    <3> HIDE DEF b
    <3>1. t = [s EXCEPT !.high = 0, !.out = b] BY <2>5, Zenon DEF b
    <3>2. t.ok /\ t.high = 0 /\ t.out = b BY <1>3, <1>4, <3>1 DEF CvtState
    <3> QED BY <3>2 DEF b
  <2>7. TextUpTo(name, i) = o \o bytes BY <1>5, <1>6, <1>10, <2>4 DEF c
  <2>8. Pending(name, i) = 0 BY <1>1, <1>10 DEF Pending, u
  <2> QED BY <1>4, <2>6, <2>7, <2>8 DEF Reached, t
<1> QED BY <1>9, <1>10

\* A name that has a text is converted to it.
LEMMA CvtText ==
    ASSUME NEW name, name \in Seq(Unit), Convertible(name), Len(name) <= EN_MAX_LEN_uname
    PROVE  Cvt_toUtf8(name).ok /\ Cvt_toUtf8(name).out = Text(name)
<1> DEFINE n == Len(name)
           ps == NameParts(name)
<1>1. n \in Nat /\ DOMAIN name = 1..n BY LenProperties
<1>2. ps \in Seq(Seq(Nat)) /\ Len(ps) = n
  <2>1. ASSUME NEW i \in 1..n
        PROVE  (IF IsHigh(name[i]) THEN <<>> ELSE Utf8(CodePoint(name, i))) \in Seq(Nat)
    <3>1. CASE IsHigh(name[i]) BY <3>1, EmptySeq
    <3>2. CASE ~IsHigh(name[i])
      <4> DEFINE c == CodePoint(name, i)
      <4>1. c \in Nat BY <3>2, CharacterIs DEF Convertible
      <4>2. c < 1048576 BY SMT, <1>1, <3>2 DEF Convertible
      <4> HIDE DEF c
      <4>3. Encoded(c) = Utf8(c) /\ Encoded(c) \in Seq(Nat)
        BY SMT, <4>1, <4>2, KnownCharacter
      <4> QED BY <3>2, <4>3 DEF c
    <3> QED BY <3>1, <3>2
  <2>2. ps \in [1..n -> Seq(Nat)] BY <1>1, <2>1 DEF NameParts
  <2> HIDE DEF ps, n
  <2> QED BY <1>1, <2>2, FunctionIsSeq
<1> HIDE DEF ps
<1> DEFINE G == {i \in 0..n : Reached(name, i)}
<1>3. 0 \in G
  <2>1. St(name, 0) = CvtBase BY StSteps
  <2>2. TextUpTo(name, 0) = <<>> BY <1>2, PrefixEnds, FlattenEmpty DEF TextUpTo, ps
  <2>3. Pending(name, 0) = 0 BY DEF Pending
  <2>4. Reached(name, 0) BY <2>1, <2>2, <2>3 DEF Reached, CvtBase
  <2> QED BY <1>1, <2>4
<1>4. ASSUME NEW i \in 1..n, i - 1 \in G PROVE i \in G
  <2>1. Reached(name, i - 1) BY <1>4
  <2>2. NameParts(name) \in Seq(Seq(Nat)) /\ Len(NameParts(name)) = Len(name) BY <1>2 DEF ps
  <2>3. Reached(name, i) BY <2>1, <2>2, ReachedNext
  <2>4. i \in 0..n BY <1>1
  <2> QED BY <2>3, <2>4
<1>5. \A i \in 0..n : i \in G
  <2> HIDE DEF G, n
  <2> QED BY <1>1, <1>3, <1>4, UpTo
<1>6. name # <<>> /\ WellFormed(name) BY DEF Convertible
<1>7. n # 0 BY <1>6, EmptySeq
<1>8. Reached(name, n)
  <2>1. n \in 0..n BY <1>1
  <2> HIDE DEF n
  <2> QED BY <1>5, <2>1
<1>9. Pending(name, n) = 0
  <2>1. n \in 1..n BY <1>1, <1>7
  <2>2. IsHigh(name[n]) => n < Len(name) BY <1>1, <1>6, <2>1 DEF WellFormed
  <2>3. ~IsHigh(name[n]) BY <1>1, <2>2
  <2> QED BY <2>3 DEF Pending
<1>10. Cvt_toUtf8(name) = St(name, n) BY <1>6, <1>8, <1>9, CvtIs DEF Reached
<1>11. TextUpTo(name, n) = Text(name)
  <2>1. SubSeq(ps, 1, n) = ps BY <1>2, PrefixEnds
  <2>2. Text(name) = FlattenSeq(ps) BY DEF Text, ps, NameParts
  <2> QED BY <2>1, <2>2 DEF TextUpTo, ps
<1> QED BY <1>8, <1>10, <1>11 DEF Reached

\* Sequences put together.
Joint(S) ==
    /\ \A u, v, t \in Seq(S) : (u \o v) \o t = u \o (v \o t)
    /\ \A u, v \in Seq(S) : u \o v \in Seq(S) /\ Len(u \o v) = Len(u) + Len(v)

\* Joining is associative.
LEMMA Regroup ==
    ASSUME NEW S, NEW a, NEW b, NEW c, a \in Seq(S), b \in Seq(S), c \in Seq(S)
    PROVE  (a \o b) \o c = a \o (b \o c)
BY Associate

\* Sequences can be joined in any grouping.
LEMMA Joints ==
    ASSUME NEW S
    PROVE  Joint(S)
<1>1. ASSUME NEW u \in Seq(S), NEW v \in Seq(S), NEW t \in Seq(S)
      PROVE (u \o v) \o t = u \o (v \o t)
  <2>1. u \in Seq(S) /\ v \in Seq(S) /\ t \in Seq(S) OBVIOUS
  <2> QED BY <2>1, Associate
<1>2. \A u, v \in Seq(S) : u \o v \in Seq(S) /\ Len(u \o v) = Len(u) + Len(v)
  BY ConcatProperties
<1>3. \A u, v, t \in Seq(S) : (u \o v) \o t = u \o (v \o t) BY <1>1, Zenon
<1> QED BY <1>2, <1>3, Zenon DEF Joint

-----------------------------------------------------------------------------
(* The record of a user *)

\* The bytes of the address p, the length l, the id a, the view b and the name f.
UserData(d, w, p, a, b, f) ==
    /\ d \in Seq(Byte) /\ Len(d) = (w + 10) + Len(f)
    /\ SubSeq(d, w + 3, w + 6) = a /\ SubSeq(d, w + 7, w + 10) = b
    /\ SubSeq(d, 1, w) = p
    /\ \A i \in 1 .. Len(f) : d[w + 10 + i] = f[i]

\* Where each part lies.
LEMMA UserParts ==
    ASSUME NEW p, p \in Seq(Byte), NEW l, l \in Seq(Byte), Len(l) = 2,
           NEW a, a \in Seq(Byte), Len(a) = 4, NEW b, b \in Seq(Byte), Len(b) = 4,
           NEW f, f \in Seq(Byte), NEW w, w = Len(p)
    PROVE  UserData(p \o (((l \o a) \o b) \o f), w, p, a, b, f)
<1> DEFINE la  == l \o a
           lab == la \o b
           d == p \o (lab \o f)
           x == p \o l
           y == x \o a
           z == y \o b
<1>0. /\ \A u, v, t \in Seq(Byte) : (u \o v) \o t = u \o (v \o t)
      /\ \A u, v \in Seq(Byte) : u \o v \in Seq(Byte) /\ Len(u \o v) = Len(u) + Len(v)
  BY Joints, Zenon DEF Joint
<1>11. la \in Seq(Byte) /\ x \in Seq(Byte) /\ Len(x) = Len(p) + Len(l)
  BY <1>0, Zenon
<1>20. p \in Seq(Byte) /\ l \in Seq(Byte) /\ a \in Seq(Byte) OBVIOUS
<1>12. y = p \o la BY ONLY <1>20, Regroup
<1> HIDE DEF la, x
<1>1. lab \in Seq(Byte) /\ y \in Seq(Byte) /\ Len(y) = Len(x) + Len(a)
  BY <1>0, <1>11, Zenon
<1>13. (p \o la) \o b = p \o (la \o b)
  <2>1. p \in Seq(Byte) /\ la \in Seq(Byte) /\ b \in Seq(Byte) BY <1>11
  <2> QED BY ONLY <2>1, Regroup
<1>14. z = p \o lab BY <1>12, <1>13, Zenon
<1> HIDE DEF lab, y
<1>2. z \in Seq(Byte) /\ Len(z) = Len(y) + Len(b) /\ lab \o f \in Seq(Byte)
  BY <1>0, <1>1, Zenon
<1>10. b \o f \in Seq(Byte) BY <1>0, Zenon
<1>16. (y \o b) \o f = y \o (b \o f)
  <2>1. y \in Seq(Byte) /\ b \in Seq(Byte) /\ f \in Seq(Byte) BY <1>1
  <2> QED BY ONLY <2>1, Regroup
<1>15. (p \o lab) \o f = p \o (lab \o f)
  <2>1. p \in Seq(Byte) /\ lab \in Seq(Byte) /\ f \in Seq(Byte) BY <1>1
  <2> QED BY ONLY <2>1, Regroup
<1> HIDE DEF z
<1>17. d = z \o f BY <1>14, <1>15, Zenon
<1>3. d = z \o f /\ d \in Seq(Byte) /\ Len(d) = Len(z) + Len(f)
  <2>1. z \o f \in Seq(Byte) /\ Len(z \o f) = Len(z) + Len(f) BY <1>0, <1>2, Zenon
  <2> QED BY <1>17, <2>1, Zenon
<1> HIDE DEF d
<1>4. Len(p) \in Nat /\ Len(f) \in Nat BY LenProperties
<1>5. Len(x) = w + 2 /\ Len(y) = w + 6 /\ Len(z) = w + 10 /\ w \in Nat
  BY <1>1, <1>2, <1>4, <1>11
<1>6. SubSeq(d, w + 3, w + 6) = a
  <2>2. SubSeq((x \o a) \o (b \o f), Len(x) + 1, Len(x) + Len(a)) = a
    BY <1>10, <1>11, Middle
  <2>3. d = (x \o a) \o (b \o f) BY <1>3, <1>16, Zenon DEF y, z
  <2>4. Len(x) + 1 = w + 3 /\ Len(x) + Len(a) = w + 6 BY <1>5
  <2> QED BY <2>2, <2>3, <2>4
<1>7. SubSeq(d, w + 7, w + 10) = b
  <2>1. SubSeq((y \o b) \o f, Len(y) + 1, Len(y) + Len(b)) = b BY <1>1, Middle
  <2>2. Len(y) + 1 = w + 7 /\ Len(y) + Len(b) = w + 10 BY <1>5
  <2> QED BY <1>3, <2>1, <2>2 DEF z
<1>8. SubSeq(d, 1, w) = p
  <2> DEFINE q == lab \o f
  <2>1. q \in Seq(Byte) BY <1>2
  <2> HIDE DEF q
  <2>2. SubSeq(p \o q, 1, Len(p)) = p BY <2>1, TwoParts
  <2> QED BY <2>2 DEF d, q
<1>9. ASSUME NEW i \in 1 .. Len(f) PROVE d[w + 10 + i] = f[i]
  <2>1. (z \o f)[Len(z) + i] = f[i]
    <3>1. Len(z) \in Nat /\ z \in Seq(Byte) BY <1>2, LenProperties
    <3>2. Len(z) + i \in 1 .. Len(z) + Len(f) /\ Len(z) + i > Len(z) BY <3>1, <1>4
    <3> QED BY <3>1, <3>2, ConcatProperties
  <2> QED BY <1>3, <1>5, <2>1
<1> QED BY <1>3, <1>5, <1>6, <1>7, <1>8, <1>9 DEF UserData, d, lab, la

\* The units of a name as they lie in memory.
Cells(name) == [i \in DOMAIN name |-> LE(2, name[i])]

\* Two bytes for each, that together are the unit.
LEMMA CellsAre ==
    ASSUME NEW name, name \in Seq(Unit)
    PROVE  /\ FlattenSeq(Cells(name)) \in Seq(Byte)
           /\ Len(FlattenSeq(Cells(name))) = 2 * Len(name)
           /\ \A k \in 1 .. Len(name) :
                 FlattenSeq(Cells(name))[2 * k - 1] + 256 * FlattenSeq(Cells(name))[2 * k]
                    = name[k]
<1> DEFINE n == Len(name)
           cs == Cells(name)
<1>1. n \in Nat /\ DOMAIN name = 1..n /\ \A k \in 1..n : name[k] \in Unit
  BY LenProperties, ElementOfSeq
<1>2. ASSUME NEW k \in 1..n
      PROVE  /\ LE(2, name[k]) \in Seq(Byte) /\ Len(LE(2, name[k])) = 2
             /\ LE(2, name[k])[1] + 256 * LE(2, name[k])[2] = name[k]
  <2>1. name[k] \in Nat /\ name[k] < 65536 BY SMT, <1>1, Surrogates
  <2> DEFINE u == name[k]
  <2> HIDE DEF u
  <2>2. u \in Nat /\ u < 65536 BY <2>1 DEF u
  <2>6. u \in Lengths BY <1>1 DEF u, Unit
  <2>3. LE(2, u) \in Seq(Byte) /\ Len(LE(2, u)) = 2 BY ONLY <2>6, TwoBytes
  <2>4. LE(2, u)[1] = u % 256 /\ LE(2, u)[2] = (u \div 256) % 256
    <3>1. 1 \in 1..2 /\ 2 \in 1..2 /\ 2 \in Nat OBVIOUS
    <3>2. \A i \in 1..2 : LE(2, u)[i] = ByteOf(u, i) BY ONLY <2>2, <3>1, LEBytes
    <3>3. LE(2, u)[1] = ByteOf(u, 1) /\ LE(2, u)[2] = ByteOf(u, 2) BY ONLY <3>1, <3>2
    <3> QED BY ONLY <3>3 DEF ByteOf
  <2>5. (u % 256) + 256 * ((u \div 256) % 256) = u BY ONLY <2>2, SMT
  <2> QED BY <2>3, <2>4, <2>5 DEF u
<1>3. cs \in Seq(Seq(Byte)) /\ Len(cs) = n /\ \A k \in 1..n : cs[k] = LE(2, name[k])
  <2>1. cs \in [1..n -> Seq(Byte)] BY <1>1, <1>2 DEF Cells
  <2>2. \A k \in 1..n : cs[k] = LE(2, name[k]) BY <1>1 DEF Cells
  <2> HIDE DEF cs, n
  <2> QED BY <1>1, <2>1, <2>2, FunctionIsSeq
<1> HIDE DEF cs
<1>4. AllPairs(cs) BY <1>2, <1>3 DEF AllPairs
<1>5. Len(FlattenSeq(cs)) = 2 * n /\ HoldsPairs(FlattenSeq(cs), cs)
  <2> HIDE DEF n
  <2> QED BY <1>3, <1>4, FlattenPairs
<1>6. FlattenSeq(cs) \in Seq(Byte) BY <1>3, FlattenType
<1>7. ASSUME NEW k \in 1..n
      PROVE  FlattenSeq(cs)[2 * k - 1] + 256 * FlattenSeq(cs)[2 * k] = name[k]
  <2>1. PairAt(FlattenSeq(cs), cs[k], k) BY <1>3, <1>5 DEF HoldsPairs
  <2>2. /\ FlattenSeq(cs)[2 * k - 1] = LE(2, name[k])[1]
        /\ FlattenSeq(cs)[2 * k] = LE(2, name[k])[2]
    BY <1>3, <2>1 DEF PairAt
  <2> QED BY <1>2, <2>2
<1> QED BY <1>5, <1>6, <1>7 DEF cs

\* The units that the converter reads of any bytes.
LEMMA UnitsType ==
    ASSUME NEW d, d \in Seq(Byte), NEW w, w \in Nat, w + 10 <= Len(d)
    PROVE  /\ UserUnits(d, w) \in Seq(Unit)
           /\ Len(UserUnits(d, w)) = (Len(d) - w - 10) \div 2
<1> DEFINE m == (Len(d) - w - 10) \div 2
<1>1. Len(d) \in Nat /\ m \in Nat /\ w + 10 + 2 * m <= Len(d)
  <2>1. Len(d) \in Nat BY LenProperties
  <2> QED BY <2>1
<1>2. ASSUME NEW k \in 1..m PROVE d[w + 9 + 2 * k] + 256 * d[w + 10 + 2 * k] \in Unit
  <2>1. w + 9 + 2 * k \in 1 .. Len(d) /\ w + 10 + 2 * k \in 1 .. Len(d)
    <3> HIDE DEF m
    <3> QED BY <1>1
  <2>2. d[w + 9 + 2 * k] \in Byte /\ d[w + 10 + 2 * k] \in Byte BY <2>1, ElementOfSeq
  <2>3. ASSUME NEW x \in Byte, NEW y \in Byte PROVE x + 256 * y \in Unit
    BY DEF Byte, Unit, Lengths
  <2> QED BY <2>2, <2>3
<1>3. UserUnits(d, w) \in [1..m -> Unit] BY <1>2 DEF UserUnits
<1> HIDE DEF m
<1>4. UserUnits(d, w) \in Seq(Unit) /\ Len(UserUnits(d, w)) = m BY <1>1, <1>3, FunctionIsSeq
<1> QED BY <1>4 DEF m

\* The name that was written is read.
LEMMA NameRead ==
    ASSUME NEW name, name \in Seq(Unit), NEW d, NEW w, w \in Nat, NEW p, NEW a, NEW b,
           UserData(d, w, p, a, b, FlattenSeq(Cells(name)))
    PROVE  UserUnits(d, w) = name
<1> DEFINE f == FlattenSeq(Cells(name))
           n == Len(name)
           us == UserUnits(d, w)
<1>1. n \in Nat /\ Len(f) = 2 * n BY LenProperties, CellsAre
<1>2. d \in Seq(Byte) /\ Len(d) = (w + 10) + Len(f) /\ \A i \in 1 .. Len(f) : d[w + 10 + i] = f[i]
  BY DEF UserData
<1>8. \A k \in 1..n : f[2 * k - 1] + 256 * f[2 * k] = name[k] BY CellsAre
<1> HIDE DEF f, n
<1>3. w + 10 <= Len(d) /\ (Len(d) - w - 10) \div 2 = n BY <1>1, <1>2
<1>4. us \in Seq(Unit) /\ Len(us) = n BY <1>2, <1>3, UnitsType
<1>5. ASSUME NEW k \in 1..n PROVE us[k] = name[k]
  <2>1. us[k] = d[w + 9 + 2 * k] + 256 * d[w + 10 + 2 * k]
    BY <1>3 DEF UserUnits
  <2>2. /\ 2 * k - 1 \in 1 .. Len(f) /\ 2 * k \in 1 .. Len(f)
        /\ w + 9 + 2 * k = w + 10 + (2 * k - 1)
    BY <1>1
  <2>3. d[w + 9 + 2 * k] = f[2 * k - 1] /\ d[w + 10 + 2 * k] = f[2 * k] BY <1>2, <2>2
  <2> QED BY <1>8, <2>1, <2>3
<1> HIDE DEF us
<1>6. us = name
  <2>1. name \in Seq(Unit) /\ Len(name) = n BY DEF n
  <2> QED BY <1>1, <1>4, <1>5, <2>1, SameSeq
<1> QED BY <1>6 DEF us

\* Two and three lines of text, and two sequences of lines.
LEMMA FitsLines ==
    ASSUME NEW x, Fits(x), NEW y, Fits(y), NEW z, Fits(z)
    PROVE  AllFit(<<x, y>>) /\ AllFit(<<x, y, z>>)
<1>1. x \in Seq(TextPiece) /\ y \in Seq(TextPiece) /\ z \in Seq(TextPiece) BY DEF Fits
<1>2. <<x, y>> \in Seq(TextSeq) /\ <<x, y, z>> \in Seq(TextSeq) BY <1>1, SmallSeqs DEF TextSeq
<1>3. \A i \in 1 .. Len(<<x, y>>) : Fits(<<x, y>>[i])
  <2>1. Len(<<x, y>>) = 2 /\ <<x, y>>[1] = x /\ <<x, y>>[2] = y OBVIOUS
  <2>2. \A i \in 1 .. Len(<<x, y>>) : i = 1 \/ i = 2 BY <2>1
  <2> QED BY <2>1, <2>2, Zenon
<1>4. \A i \in 1 .. Len(<<x, y, z>>) : Fits(<<x, y, z>>[i])
  <2>1. /\ Len(<<x, y, z>>) = 3 /\ <<x, y, z>>[1] = x /\ <<x, y, z>>[2] = y
        /\ <<x, y, z>>[3] = z
    OBVIOUS
  <2>2. \A i \in 1 .. Len(<<x, y, z>>) : i = 1 \/ i = 2 \/ i = 3 BY <2>1
  <2> QED BY <2>1, <2>2, Zenon
<1> QED BY <1>2, <1>3, <1>4, Zenon DEF AllFit

\* Texts that fit, one after the other.
LEMMA FitsJoined ==
    ASSUME NEW s, AllFit(s), NEW t, AllFit(t)
    PROVE  AllFit(s \o t) /\ FlattenSeq(s \o t) = FlattenSeq(s) \o FlattenSeq(t)
<1>1. s \in Seq(TextSeq) /\ t \in Seq(TextSeq) BY DEF AllFit
<1>2. /\ s \o t \in Seq(TextSeq) /\ Len(s \o t) = Len(s) + Len(t)
      /\ Len(s) \in Nat /\ Len(t) \in Nat
  BY <1>1, ConcatProperties, LenProperties
<1>3. ASSUME NEW i \in 1 .. Len(s \o t) PROVE Fits((s \o t)[i])
  <2>1. CASE i <= Len(s)
    <3>1. (s \o t)[i] = s[i] BY <1>1, <2>1
    <3>2. i \in 1 .. Len(s) BY <1>2, <2>1
    <3> QED BY <3>1, <3>2 DEF AllFit
  <2>2. CASE i > Len(s)
    <3>1. (s \o t)[i] = t[i - Len(s)] BY <1>1, <1>2, <2>2
    <3>2. i - Len(s) \in 1 .. Len(t) BY <1>2, <2>2
    <3> QED BY <3>1, <3>2 DEF AllFit
  <2> QED BY <1>2, <2>1, <2>2
<1>4. AllFit(s \o t) BY <1>2, <1>3 DEF AllFit
<1>5. FlattenSeq(s \o t) = FlattenSeq(s) \o FlattenSeq(t) BY <1>1, FlattenConcat DEF TextSeq
<1> QED BY <1>4, <1>5

\* A name fits on a line.
LEMMA FitsName ==
    ASSUME NEW b, b \in Seq(Nat), Len(b) <= mc_bytes_pad, NEW p, p = <<"name", b>>
    PROVE  Fits(<<p>>) /\ p \in TextPiece
<1>1. p \in TextPiece BY DEF TextPiece, Piece1
<1>2. Width(p) = Len(b) BY DEF Width
<1>3. <<p>> \in Seq(TextPiece) /\ <<p>> = Append(<<>>, p) /\ <<>> \in Seq(TextPiece)
  BY <1>1, SmallSeqs, EmptySeq
<1>4. Bytes(<<p>>) = Bytes(<<>>) + Width(p) /\ Bytes(<<>>) = 0
  BY <1>1, <1>3, BytesAppend, Zenon
<1>5. Len(b) \in Nat BY LenProperties
<1>6. Bytes(<<p>>) <= mc_bytes_pad BY <1>2, <1>4, <1>5
<1> QED BY <1>1, <1>3, <1>6 DEF Fits

\* What is written for a user.
UserHead(d, w) == << <<Num(d, w + 2, 4)>>, <<Num(d, w + 6, 4)>> >>
UserTail(d, w, b) == << << <<"name", b>> >>, <<IP(d, 0, w)>>, <<LF>> >>

\* The texts of a user are those, the tail only if its name has a text.
LEMMA UserTextsAre ==
    ASSUME NEW d, NEW w, NEW c, c = Cvt_toUtf8(UserUnits(d, w))
    PROVE  UserTexts(d, w) = IF c.ok THEN UserHead(d, w) \o UserTail(d, w, c.out)
                             ELSE UserHead(d, w)
BY DEF UserTexts, UserHead, UserTail

\* It fits, if the units are not too many.
LEMMA UserFits ==
    ASSUME NEW d, d \in Seq(Byte), NEW w, w \in Nat, w + 10 <= Len(d),
           3 * ((Len(d) - w - 10) \div 2) <= mc_bytes_pad
    PROVE  /\ AllFit(UserTexts(d, w)) /\ AllFit(UserHead(d, w))
           /\ AllFit(UserTail(d, w, Cvt_toUtf8(UserUnits(d, w)).out))
           /\ Short(Num(d, w + 2, 4)) /\ Short(Num(d, w + 6, 4)) /\ Short(IP(d, 0, w))
<1> DEFINE us == UserUnits(d, w)
           c == Cvt_toUtf8(us)
           m == (Len(d) - w - 10) \div 2
<1>1. us \in Seq(Unit) /\ Len(us) = m BY UnitsType
<1> HIDE DEF us, m
<1>2. c.out \in Seq(Nat) /\ Len(c.out) <= 3 * Len(us) BY <1>1, CvtType
<1> HIDE DEF c
<1>3. Len(c.out) <= mc_bytes_pad
  <2>1. Len(c.out) \in Nat /\ Len(us) \in Nat BY <1>1, <1>2, LenProperties
  <2>2. mc_bytes_pad \in Nat BY PadAssumption
  <2>3. 3 * Len(us) <= mc_bytes_pad BY <1>1 DEF m
  <2> QED BY <1>2, <2>1, <2>2, <2>3
<1> DEFINE p == Num(d, w + 2, 4)
           q == Num(d, w + 6, 4)
           a == IP(d, 0, w)
           n == <<"name", c.out>>
<1>4. Short(p) /\ Short(q) /\ Short(a)
  <2>1. /\ Len(d) \in Nat /\ w + 2 \in Nat /\ w + 6 \in Nat /\ 4 \in Nat /\ 0 \in Nat
        /\ (w + 2) + 4 <= Len(d) /\ (w + 6) + 4 <= Len(d) /\ 0 + w <= Len(d)
    BY LenProperties
  <2>2. Short(p) BY <2>1, ShortNum
  <2>3. Short(q) BY <2>1, ShortNum
  <2>4. Short(a) BY <2>1, ShortNum
  <2> QED BY <2>2, <2>3, <2>4
<1>5. Fits(<<n>>) BY <1>2, <1>3, FitsName
<1>6. /\ UserHead(d, w) = << <<p>>, <<q>> >>
      /\ UserTail(d, w, c.out) = << <<n>>, <<a>>, <<LF>> >>
  BY DEF UserHead, UserTail
<1> HIDE DEF p, q, a, n
<1>7. Fits(<<p>>) /\ Fits(<<q>>) /\ Fits(<<a>>) /\ Fits(<<LF>>) BY <1>4, ShortHdr, ShortFits
<1>8. AllFit(UserHead(d, w)) /\ AllFit(UserTail(d, w, c.out))
  <2> DEFINE x == <<p>>
             y == <<q>>
             z == <<n>>
             u == <<a>>
             v == <<LF>>
  <2>1. Fits(x) /\ Fits(y) /\ Fits(z) /\ Fits(u) /\ Fits(v) BY <1>5, <1>7
  <2> HIDE DEF x, y, z, u, v
  <2>2. AllFit(<<x, y>>) BY <2>1, FitsLines
  <2>3. AllFit(<<z, u, v>>) BY <2>1, FitsLines
  <2> QED BY <1>6, <2>2, <2>3, Zenon DEF x, y, z, u, v
<1>9. AllFit(UserTexts(d, w))
  <2>1. UserTexts(d, w) = IF c.ok THEN UserHead(d, w) \o UserTail(d, w, c.out)
                          ELSE UserHead(d, w)
    BY UserTextsAre DEF c, us
  <2>2. AllFit(UserHead(d, w) \o UserTail(d, w, c.out)) BY <1>8, FitsJoined
  <2> QED BY <1>8, <2>1, <2>2, Zenon
<1> QED BY <1>4, <1>8, <1>9, Zenon DEF c, us, p, q, a

\* The record of a user as the converter takes it.
LEMMA OfUser ==
    ASSUME NEW d
    PROVE  /\ FixedLen("Crt_Usr_v4") = -1
           /\ Texts("Crt_Usr_v4", d) = UserTexts(d, 4)
           /\ FunctionFails("Crt_Usr_v4", d) <=> ~Cvt_toUtf8(UserUnits(d, 4)).ok
<1> DEFINE id == "Crt_Usr_v4"
<1>1. /\ id \in Users /\ id \notin Strings \cup IPv4s \cup IPv6s \cup Counted
      /\ id # "UNIX_TIME" /\ id # "Chk_IP_many_times_cnct_v4"
      /\ id # "Chk_IP_many_times_cnct_v6" /\ id # "Crt_Usr_v6"
      /\ id # "ERR_BUF_Overflow"
  BY DEF Users, Strings, IPv4s, IPv6s, Counted
<1>4. Numbers(id) = <<>> BY DEF Numbers
<1> HIDE DEF id
<1>2. FixedLen(id) = -1 BY <1>1, <1>4, FixedLenIs
<1>3. Texts(id, d) = UserTexts(d, 4) BY <1>1, <1>4, TextsAre DEF id
<1>5. FunctionFails(id, d) <=> ~Cvt_toUtf8(UserUnits(d, 4)).ok
  BY <1>1 DEF FunctionFails, id
<1> QED BY <1>2, <1>3, <1>5 DEF id

\* A record of a user that is not legible loses nothing but its text.
LEMMA KeptOther ==
    ASSUME NEW r, ~Legible(r), NEW d, d \in Seq(Byte), 14 <= Len(d), Len(d) <= mc_bytes_pad,
           3 * ((Len(d) - 14) \div 2) <= mc_bytes_pad
    PROVE  Kept(r, "Crt_Usr_v4", d)
<1>1. Len(d) \in Nat BY LenProperties
<1>2. 4 \in Nat /\ 4 + 10 <= Len(d) /\ 3 * ((Len(d) - 4 - 10) \div 2) <= mc_bytes_pad
  <2>1. Len(d) - 4 - 10 = Len(d) - 14 BY <1>1
  <2> QED BY <1>1, <2>1
<1>3. AllFit(UserTexts(d, 4)) BY <1>2, UserFits
<1> QED BY <1>3, OfUser DEF Kept

\* What the text should say of a user.
UserPieces(num, view, name, ip) ==
    << <<"num", Significant(LE(8, num))>>, <<"num", Significant(LE(8, view))>>,
       <<"name", Text(name)>>, <<"ip", ip>> >>

\* Four pieces and the end of the line, each of which is written on its own.
JoinedUser(p, q, n, a, z) ==
    /\ FlattenSeq(<< <<p>>, <<q>> >>) \o FlattenSeq(<< <<n>>, <<a>>, <<z>> >>)
         = <<p, q, n, a>> \o <<z>>
    /\ <<p, q, n, a>> \in Seq(TextPiece) /\ Len(<<p, q, n, a>>) # 0

\* Four pieces on five lines.
LEMMA FlattenUser ==
    ASSUME NEW p, p \in TextPiece, NEW q, q \in TextPiece,
           NEW n, n \in TextPiece, NEW a, a \in TextPiece, NEW z, z \in TextPiece
    PROVE  JoinedUser(p, q, n, a, z)
<1>1. FlattenSeq(<< <<p>>, <<q>> >>) = <<p>> \o <<q>>
  <2> DEFINE x == <<p>>
             y == <<q>>
  <2>1. x \in Seq(TextPiece) /\ y \in Seq(TextPiece) BY SmallSeqs
  <2> HIDE DEF x, y
  <2>2. FlattenSeq(<<x, y>>) = x \o y BY <2>1, FlattenTwo
  <2> QED BY <2>2 DEF x, y
<1>2. FlattenSeq(<< <<n>>, <<a>>, <<z>> >>) = (<<n>> \o <<a>>) \o <<z>>
  <2> DEFINE x == <<n>>
             y == <<a>>
             w == <<z>>
  <2>1. x \in Seq(TextPiece) /\ y \in Seq(TextPiece) /\ w \in Seq(TextPiece) BY SmallSeqs
  <2> HIDE DEF x, y, w
  <2>2. ThreeJoined(TextPiece, x, y, w) BY <2>1, FlattenFew
  <2> QED BY <2>2, Zenon DEF x, y, w, ThreeJoined
<1>3. (<<p>> \o <<q>>) \o ((<<n>> \o <<a>>) \o <<z>>) = <<p, q, n, a>> \o <<z>> OBVIOUS
<1>4. <<p, q, n, a>> \in Seq(TextPiece) /\ Len(<<p, q, n, a>>) # 0 OBVIOUS
<1> QED BY <1>1, <1>2, <1>3, <1>4, Zenon DEF JoinedUser

\* The record of a user with an address of four bytes is kept.
LEMMA KeptUser ==
    ASSUME NEW r, NEW name, name \in Seq(Unit), Len(name) <= EN_MAX_LEN_uname,
           NEW ip, ip \in Seq(Byte), Len(ip) = 4, NEW num, num \in Nat,
           NEW view, view \in Nat, NEW l, l \in Seq(Byte), Len(l) = 2,
           Legible(r) => /\ r.id = "Crt_Usr_v4" /\ Convertible(name)
                         /\ Pieces(r) = UserPieces(num, view, name, ip),
           NEW d, d = ip \o (((l \o LE(4, num)) \o LE(4, view)) \o FlattenSeq(Cells(name)))
    PROVE  Kept(r, "Crt_Usr_v4", d)
<1> DEFINE a == LE(4, num)
           b == LE(4, view)
           f == FlattenSeq(Cells(name))
           c == Cvt_toUtf8(UserUnits(d, 4))
           id == "Crt_Usr_v4"
<1>1. /\ a \in Seq(Byte) /\ Len(a) = 4 /\ b \in Seq(Byte) /\ Len(b) = 4
      /\ SameNumber(a, LE(8, num)) /\ SameNumber(b, LE(8, view))
  <2>1. 4 \in Nat OBVIOUS
  <2>2. /\ LE(4, num) \in Seq(Byte) /\ Len(LE(4, num)) = 4
        /\ SameNumber(LE(4, num), LE(8, num))
    <3>1. num \in Nat OBVIOUS
    <3> QED BY ONLY <2>1, <3>1, LEType, FewerBytes
  <2>3. /\ LE(4, view) \in Seq(Byte) /\ Len(LE(4, view)) = 4
        /\ SameNumber(LE(4, view), LE(8, view))
    <3>1. view \in Nat OBVIOUS
    <3> QED BY ONLY <2>1, <3>1, LEType, FewerBytes
  <2> QED BY <2>2, <2>3
<1>2. f \in Seq(Byte) /\ Len(f) = 2 * Len(name) BY CellsAre
<1>3. d = ip \o (((l \o a) \o b) \o f) OBVIOUS
<1> HIDE DEF a, b, f
<1>4. UserData(d, 4, ip, a, b, f)
  <2>1. 4 = Len(ip) OBVIOUS
  <2>2. UserData(ip \o (((l \o a) \o b) \o f), 4, ip, a, b, f)
    BY <1>1, <1>2, <2>1, UserParts
  <2> QED BY <1>3, <2>2
<1>5. UserUnits(d, 4) = name
  <2>1. 4 \in Nat OBVIOUS
  <2>2. UserData(d, 4, ip, a, b, FlattenSeq(Cells(name))) BY <1>4 DEF f
  <2>3. name \in Seq(Unit) OBVIOUS
  <2> QED BY ONLY <2>1, <2>2, <2>3, NameRead
<1>6. /\ d \in Seq(Byte) /\ Len(d) = 14 + 2 * Len(name) /\ Len(name) \in Nat
      /\ SubSeq(d, 7, 10) = a /\ SubSeq(d, 11, 14) = b /\ SubSeq(d, 1, 4) = ip
  <2>1. /\ d \in Seq(Byte) /\ Len(d) = (4 + 10) + Len(f)
        /\ SubSeq(d, 4 + 3, 4 + 6) = a /\ SubSeq(d, 4 + 7, 4 + 10) = b
        /\ SubSeq(d, 1, 4) = ip
    BY <1>4, Zenon DEF UserData
  <2>2. Len(name) \in Nat BY LenProperties
  <2> QED BY ONLY <1>2, <2>1, <2>2
<1>7. /\ 14 <= Len(d) /\ Len(d) <= mc_bytes_pad /\ Len(d) \in Nat
      /\ 3 * ((Len(d) - 4 - 10) \div 2) <= mc_bytes_pad
  <2>1. mc_bytes_pad \in Nat /\ EN_MAX_LEN_uname \in Nat BY PadAssumption, ClientAssumption
  <2>2. /\ 26 + 2 * EN_MAX_LEN_uname <= mc_bytes_pad
        /\ 3 * (EN_MAX_LEN_uname + 6) <= mc_bytes_pad
    BY SizeAssumption
  <2>3. Len(name) <= EN_MAX_LEN_uname OBVIOUS
  <2> DEFINE k == Len(name)
             e == EN_MAX_LEN_uname
             n == Len(d)
  <2>4. /\ k \in Nat /\ e \in Nat /\ k <= e /\ n = 14 + 2 * k /\ 26 + 2 * e <= mc_bytes_pad
        /\ 3 * (e + 6) <= mc_bytes_pad /\ mc_bytes_pad \in Nat
    BY <1>6, <2>1, <2>2
  <2> HIDE DEF k, e, n
  <2>5. (n - 4 - 10) \div 2 = k BY ONLY <2>4
  <2>6. 14 <= n /\ n <= mc_bytes_pad /\ n \in Nat /\ 3 * k <= mc_bytes_pad BY ONLY <2>4
  <2> QED BY <2>5, <2>6 DEF n
<1>8. /\ AllFit(UserTexts(d, 4)) /\ AllFit(UserHead(d, 4)) /\ AllFit(UserTail(d, 4, c.out))
      /\ Short(Num(d, 4 + 2, 4)) /\ Short(Num(d, 4 + 6, 4)) /\ Short(IP(d, 0, 4))
  <2>1. 4 \in Nat /\ 4 + 10 <= Len(d) BY <1>7
  <2> QED BY ONLY <1>6, <1>7, <2>1, UserFits
<1>9. /\ FixedLen(id) \in {-1, Len(d)} /\ Texts(id, d) = UserTexts(d, 4)
      /\ FunctionFails(id, d) <=> ~c.ok
  BY OfUser
<1>10. Legible(r) => c.ok /\ c.out = Text(name)
  <2>1. Convertible(name) => Cvt_toUtf8(name).ok /\ Cvt_toUtf8(name).out = Text(name)
    BY CvtText
  <2> QED BY <1>5, <2>1, Zenon
<1> HIDE DEF c, id
<1>11. ASSUME Legible(r)
       PROVE  FlattenSeq(HeaderTexts(id) \o Texts(id, d)) = Meant(r)
  <2> DEFINE p == <<"num", Significant(LE(8, num))>>
             q == <<"num", Significant(LE(8, view))>>
             n == <<"name", Text(name)>>
             i == <<"ip", ip>>
             A == <<p, q, n, i>>
             ts == UserHead(d, 4) \o UserTail(d, 4, c.out)
  <2>1. c.ok /\ c.out = Text(name) BY <1>10, <1>11
  <2>2. Texts(id, d) = ts
    <3>1. UserTexts(d, 4) = IF c.ok THEN ts ELSE UserHead(d, 4) BY UserTextsAre DEF c
    <3> QED BY <1>9, <2>1, <3>1, Zenon
  <2>3. Num(d, 4 + 2, 4) = p /\ Num(d, 4 + 6, 4) = q /\ IP(d, 0, 4) = i
    <3>1. 4 + 2 + 1 = 7 /\ 4 + 2 + 4 = 10 /\ 4 + 6 + 1 = 11 /\ 4 + 6 + 4 = 14
          /\ 0 + 1 = 1 /\ 0 + 4 = 4
      OBVIOUS
    <3>2. Significant(a) = Significant(LE(8, num)) /\ Significant(b) = Significant(LE(8, view))
      BY <1>1 DEF SameNumber
    <3>3. Num(d, 4 + 2, 4) = <<"num", Significant(a)>> BY <1>6, <3>1 DEF Num
    <3>4. Num(d, 4 + 6, 4) = <<"num", Significant(b)>> BY <1>6, <3>1 DEF Num
    <3>5. IP(d, 0, 4) = <<"ip", ip>> BY <1>6, <3>1 DEF IP
    <3> QED BY <3>2, <3>3, <3>4, <3>5
  <2>4. p \in TextPiece /\ q \in TextPiece /\ i \in TextPiece BY <1>8, <2>3 DEF Short
  <2>5. n \in TextPiece
    <3>1. /\ name \in Seq(Unit) /\ UserUnits(d, 4) = name BY <1>5
    <3>2. Cvt_toUtf8(name).out \in Seq(Nat) BY <3>1, CvtType
    <3>3. Text(name) \in Seq(Nat) BY <1>5, <2>1, <3>2 DEF c
    <3> QED BY <3>3 DEF TextPiece, Piece1
  <2>6. LF \in TextPiece BY ShortHdr DEF Short
  <2>7. UserHead(d, 4) = << <<p>>, <<q>> >> /\ UserTail(d, 4, c.out) = << <<n>>, <<i>>, <<LF>> >>
    BY <2>1, <2>3, Zenon DEF UserHead, UserTail
  <2>8. Pieces(r) = A BY <1>11 DEF UserPieces
  <2>9. FlattenSeq(UserHead(d, 4)) \o FlattenSeq(UserTail(d, 4, c.out)) = A \o <<LF>>
        /\ A \in Seq(TextPiece) /\ Len(A) # 0
    <3> HIDE DEF p, q, n, i
    <3>1. /\ FlattenSeq(<< <<p>>, <<q>> >>) \o FlattenSeq(<< <<n>>, <<i>>, <<LF>> >>)
                = <<p, q, n, i>> \o <<LF>>
          /\ <<p, q, n, i>> \in Seq(TextPiece) /\ Len(<<p, q, n, i>>) # 0
      <4>1. JoinedUser(p, q, n, i, LF) BY ONLY <2>4, <2>5, <2>6, FlattenUser
      <4> QED BY <4>1, Zenon DEF JoinedUser
    <3> QED BY <2>7, <3>1, Zenon
  <2>10. FlattenSeq(ts) = A \o <<LF>> /\ ts \in Seq(TextSeq)
    <3>1. AllFit(ts) /\ FlattenSeq(ts) = FlattenSeq(UserHead(d, 4)) \o FlattenSeq(UserTail(d, 4, c.out))
      BY <1>8, FitsJoined
    <3> QED BY <2>9, <3>1 DEF AllFit
  <2>11. id \in IDs /\ id # "UNIX_TIME" /\ r.id = id
    <3>1. "Crt_Usr_v4" \in IDs
      <4>1. LogIDs[36] = "Crt_Usr_v4" /\ 36 \in DOMAIN LogIDs BY DEF LogIDs
      <4> QED BY <4>1 DEF IDs, ToSet
    <3> QED BY <1>11, <3>1 DEF id
  <2> HIDE DEF A, ts
  <2>12. FlattenSeq(HeaderTexts(id) \o ts) = Meant(r)
    BY <2>8, <2>9, <2>10, <2>11, MeantIs
  <2> QED BY <2>2, <2>12
<1>12. FunctionFails(id, d) => ~Legible(r) BY <1>9, <1>10
<1>13. AllFit(Texts(id, d)) BY <1>8, <1>9
<1> QED BY <1>7, <1>9, <1>11, <1>12, <1>13, Zenon DEF Kept, id

-----------------------------------------------------------------------------
\* Sequences made one part by part, or at once.
LEMMA FlattenTwice ==
    ASSUME NEW S, NEW ss, ss \in Seq(Seq(Seq(S))), NEW bb, bb \in Seq(Seq(S)),
           Len(bb) = Len(ss), \A i \in 1 .. Len(ss) : FlattenSeq(ss[i]) = bb[i]
    PROVE  FlattenSeq(FlattenSeq(ss)) = FlattenSeq(bb)
<1> DEFINE n == Len(ss)
           F(i) == FlattenSeq(SubSeq(ss, 1, i))
           H(i) == FlattenSeq(SubSeq(bb, 1, i))
           G == {i \in 0..n : FlattenSeq(F(i)) = H(i)}
<1>1. n \in Nat /\ Len(bb) = n BY LenProperties
<1>2. 0 \in G
  <2>1. F(0) = <<>> /\ H(0) = <<>> BY PrefixEnds, FlattenEmpty
  <2> HIDE DEF F, H
  <2> QED BY <1>1, <2>1, FlattenEmpty
<1>3. ASSUME NEW i \in 1..n, i - 1 \in G PROVE i \in G
  <2>1. i \in 1 .. Len(ss) /\ i \in 1 .. Len(bb) /\ i \in 0..n BY <1>1
  <2>2. F(i - 1) \in Seq(Seq(S)) /\ ss[i] \in Seq(Seq(S)) /\ F(i) = F(i - 1) \o ss[i]
    BY <2>1, FlattenAt
  <2>3. H(i) = H(i - 1) \o bb[i] BY <2>1, FlattenAt
  <2>4. FlattenSeq(ss[i]) = bb[i] BY <2>1
  <2>5. FlattenSeq(F(i - 1)) = H(i - 1) BY <1>3
  <2> HIDE DEF F, H, n
  <2>6. FlattenSeq(F(i - 1) \o ss[i]) = FlattenSeq(F(i - 1)) \o FlattenSeq(ss[i])
    BY ONLY <2>2, FlattenConcat
  <2> QED BY <2>1, <2>2, <2>3, <2>4, <2>5, <2>6
<1>4. \A i \in 0..n : i \in G
  <2> HIDE DEF G, n
  <2> QED BY <1>1, <1>2, <1>3, UpTo
<1>5. F(n) = FlattenSeq(ss) /\ H(n) = FlattenSeq(bb) BY <1>1, PrefixEnds
<1>6. n \in 0..n BY <1>1
<1> HIDE DEF F, H, n
<1> QED BY <1>4, <1>5, <1>6

-----------------------------------------------------------------------------
(* The records of the log *)

\* A string that was cut: the length says so.
CutShort(r, len, data) ==
    /\ len = mc_max_bytes_wrt + EN_FLG_DataSz_PADover /\ Len(data) = mc_max_bytes_wrt
    /\ \E a \in ToSet(r.args) : a[1] = "str" /\ Len(a[2]) > mc_max_bytes_wrt

\* An id, a length and data.
Laid(r, b, id, len, data) ==
    /\ id \in IDs /\ len \in Lengths /\ data \in Seq(Byte) /\ b = Header(id, len) \o data
    /\ \/ len = Len(data) /\ Kept(r, id, data)
       \/ CutShort(r, len, data)

\* The bytes b hold the record r.
IsWire(r, b) == \E id, len, data : Laid(r, b, id, len, data)

Time(t) == IF t = 0 THEN <<>> ELSE UnixTime(t)

\* An entry's bytes are a record of its time and one of its own.
Divides(e, b) == b \in Seq(Byte) /\ e.bytes = Time(e.t) \o b /\ IsWire(e, b)
EntryOK(e) == e.id \in IDs /\ e.t \in Nat /\ e.bytes \in Seq(Byte) /\ \E b : Divides(e, b)

\* A record has three bytes at least.
LEMMA WireType ==
    ASSUME NEW r, NEW b, IsWire(r, b)
    PROVE  b \in Seq(Byte) /\ Len(b) >= 3 /\ Len(b) \in Nat
<1>1. PICK id, len, data : Laid(r, b, id, len, data) BY Zenon DEF IsWire
<1>2. id \in IDs /\ len \in Lengths /\ data \in Seq(Byte) /\ b = Header(id, len) \o data
  BY <1>1, Zenon DEF Laid
<1> DEFINE h == Header(id, len)
<1>3. h \in Seq(Byte) /\ Len(h) = 3 BY <1>2, HeaderBytes
<1> HIDE DEF h
<1>4. h \o data \in Seq(Byte) /\ Len(h \o data) = Len(h) + Len(data) /\ Len(data) \in Nat
  BY <1>2, <1>3, ConcatProperties, LenProperties
<1>5. b = h \o data BY <1>2 DEF h
<1> QED BY <1>3, <1>4, <1>5

\* The record of a time is one of its own.
LEMMA WireOfTime ==
    ASSUME NEW t, t \in Nat
    PROVE  IsWire(Stamp(t), UnixTime(t)) /\ UnixTime(t) \in Seq(Byte)
<1> DEFINE id == "UNIX_TIME"
           data == LE(8, t)
<1>1. data \in Seq(Byte) /\ Len(data) = 8
  <2>1. 8 \in Nat /\ t \in Nat OBVIOUS
  <2> QED BY ONLY <2>1, LEType
<1>2. Kept(Stamp(t), id, data) BY KeptStamp
<1>3. id \in IDs
  <2>1. LogIDs[2] = "UNIX_TIME" /\ 2 \in DOMAIN LogIDs BY DEF LogIDs
  <2> QED BY <2>1 DEF IDs, ToSet
<1>4. 8 \in Lengths BY DEF Lengths
<1>5. UnixTime(t) = Header(id, 8) \o data BY DEF UnixTime
<1> HIDE DEF id, data
<1>6. Laid(Stamp(t), UnixTime(t), id, 8, data) BY <1>1, <1>2, <1>3, <1>4, <1>5 DEF Laid
<1>7. IsWire(Stamp(t), UnixTime(t)) BY <1>6, Zenon DEF IsWire
<1> QED BY <1>7, WireType

-----------------------------------------------------------------------------
(* Two sequences that go together *)

\* Records and their bytes, and sequences of them.
Match(s, t) == Len(s) = Len(t) /\ \A i \in 1 .. Len(s) : IsWire(s[i], t[i])
Matches(ss, tt) == Len(ss) = Len(tt) /\ \A i \in 1 .. Len(ss) : Match(ss[i], tt[i])

\* Put together they still do.
LEMMA MatchJoined ==
    ASSUME NEW S, NEW T, NEW a, a \in Seq(S), NEW b, b \in Seq(T),
           NEW c, c \in Seq(S), NEW d, d \in Seq(T), Match(a, b), Match(c, d)
    PROVE  Match(a \o c, b \o d)
<1>1. /\ a \o c \in Seq(S) /\ Len(a \o c) = Len(a) + Len(c)
      /\ b \o d \in Seq(T) /\ Len(b \o d) = Len(b) + Len(d)
      /\ Len(a) \in Nat /\ Len(c) \in Nat /\ Len(b) = Len(a) /\ Len(d) = Len(c)
  BY ConcatProperties, LenProperties DEF Match
<1>2. ASSUME NEW i \in 1 .. Len(a \o c) PROVE IsWire((a \o c)[i], (b \o d)[i])
  <2>1. CASE i <= Len(a)
    <3>1. (a \o c)[i] = a[i] /\ (b \o d)[i] = b[i] BY <1>1, <2>1
    <3>2. i \in 1 .. Len(a) BY <1>1, <2>1
    <3> QED BY <3>1, <3>2 DEF Match
  <2>2. CASE i > Len(a)
    <3>1. (a \o c)[i] = c[i - Len(a)] /\ (b \o d)[i] = d[i - Len(a)] BY <1>1, <2>2
    <3>2. i - Len(a) \in 1 .. Len(c) BY <1>1, <2>2
    <3> QED BY <3>1, <3>2 DEF Match
  <2>3. i <= Len(a) \/ i > Len(a) BY <1>1
  <2> QED BY <2>1, <2>2, <2>3, Zenon
<1>3. Len(a \o c) = Len(b \o d) BY <1>1
<1> QED BY <1>2, <1>3 DEF Match

\* So do sequences of sequences, made one.
LEMMA FlattenMatch ==
    ASSUME NEW S, NEW T, NEW ss, ss \in Seq(Seq(S)), NEW tt, tt \in Seq(Seq(T)),
           Matches(ss, tt)
    PROVE  Match(FlattenSeq(ss), FlattenSeq(tt))
<1> DEFINE n == Len(ss)
           F(i) == FlattenSeq(SubSeq(ss, 1, i))
           H(i) == FlattenSeq(SubSeq(tt, 1, i))
           G == {i \in 0..n : Match(F(i), H(i))}
<1>1. n \in Nat /\ Len(tt) = n BY LenProperties DEF Matches
<1>2. 0 \in G
  <2>1. F(0) = <<>> /\ H(0) = <<>> BY PrefixEnds, FlattenEmpty
  <2>2. Match(<<>>, <<>>) BY DEF Match
  <2> HIDE DEF F, H
  <2> QED BY <1>1, <2>1, <2>2
<1>3. ASSUME NEW i \in 1..n, i - 1 \in G PROVE i \in G
  <2>1. i \in 1 .. Len(ss) /\ i \in 1 .. Len(tt) /\ i \in 0..n BY <1>1
  <2>2. F(i - 1) \in Seq(S) /\ ss[i] \in Seq(S) /\ F(i) = F(i - 1) \o ss[i]
    BY <2>1, FlattenAt
  <2>3. H(i - 1) \in Seq(T) /\ tt[i] \in Seq(T) /\ H(i) = H(i - 1) \o tt[i]
    BY <2>1, FlattenAt
  <2>4. Match(ss[i], tt[i]) BY <2>1 DEF Matches
  <2>5. Match(F(i - 1), H(i - 1)) BY <1>3
  <2> HIDE DEF F, H, n
  <2>6. Match(F(i - 1) \o ss[i], H(i - 1) \o tt[i])
    BY ONLY <2>2, <2>3, <2>4, <2>5, MatchJoined
  <2> QED BY <2>1, <2>2, <2>3, <2>6
<1>4. \A i \in 0..n : i \in G
  <2> HIDE DEF G, n
  <2> QED BY <1>1, <1>2, <1>3, UpTo
<1>5. F(n) = FlattenSeq(ss) /\ H(n) = FlattenSeq(tt) BY <1>1, PrefixEnds
<1>6. n \in 0..n BY <1>1
<1> HIDE DEF F, H, n
<1> QED BY <1>4, <1>5, <1>6


\* What is left of an entry without its time, and the records of each.
Rest(e) == CHOOSE b : Divides(e, b)
PartsOf(e) == IF e.t = 0 THEN <<e>> ELSE <<Stamp(e.t), e>>
WiresOf(e) == IF e.t = 0 THEN <<Rest(e)>> ELSE <<UnixTime(e.t), Rest(e)>>

RecordsOf(s) == FlattenSeq([i \in DOMAIN s |-> PartsOf(s[i])])
Wires(s) == FlattenSeq([i \in DOMAIN s |-> WiresOf(s[i])])

\* The log is the records, each with its bytes.
LEMMA LogWires ==
    ASSUME NEW E, NEW s, s \in Seq(E), \A i \in 1 .. Len(s) : EntryOK(s[i])
    PROVE  /\ Wires(s) \in Seq(Seq(Byte)) /\ FlattenSeq(Wires(s)) = BytesOf(s)
           /\ Match(RecordsOf(s), Wires(s)) /\ DOMAIN RecordsOf(s) = 1 .. Len(Wires(s))
           /\ BytesOf(s) \in Seq(Byte)
<1> DEFINE n == Len(s)
           RE == E \cup {Stamp(e.t) : e \in E}
           pp == [i \in DOMAIN s |-> PartsOf(s[i])]
           ww == [i \in DOMAIN s |-> WiresOf(s[i])]
           bb == [i \in DOMAIN s |-> s[i].bytes]
<1>1. n \in Nat /\ DOMAIN s = 1..n /\ \A i \in 1..n : s[i] \in E
  BY LenProperties, ElementOfSeq
<1>2. ASSUME NEW i \in 1..n
      PROVE  /\ PartsOf(s[i]) \in Seq(RE) /\ WiresOf(s[i]) \in Seq(Seq(Byte))
             /\ s[i].bytes \in Seq(Byte) /\ FlattenSeq(WiresOf(s[i])) = s[i].bytes
             /\ Match(PartsOf(s[i]), WiresOf(s[i]))
  <2> DEFINE e == s[i]
             b == Rest(e)
  <2>1. EntryOK(e) /\ e \in E BY <1>1
  <2> HIDE DEF e
  <2>2. e \in RE /\ Stamp(e.t) \in RE BY <2>1
  <2>3. Divides(e, b) BY <2>1, Zenon DEF EntryOK, Rest
  <2>4. b \in Seq(Byte) /\ e.bytes = Time(e.t) \o b /\ IsWire(e, b)
    BY <2>3, Zenon DEF Divides
  <2>5. e.t \in Nat /\ e.bytes \in Seq(Byte) BY <2>1, Zenon DEF EntryOK
  <2> HIDE DEF b, RE
  <2>6. CASE e.t = 0
    <3>1. PartsOf(e) = <<e>> /\ WiresOf(e) = <<b>> BY <2>6 DEF PartsOf, WiresOf, b
    <3>2. <<e>> \in Seq(RE) BY <2>2, SmallSeqs
    <3>3. <<b>> \in Seq(Seq(Byte)) /\ FlattenSeq(<<b>>) = b BY <2>4, FlattenFew
    <3>4. e.bytes = b
      <4>1. e.bytes = <<>> \o b BY <2>4, <2>6 DEF Time
      <4> QED BY <4>1, <2>4, ConcatEmptySeq
    <3>5. Match(<<e>>, <<b>>)
      <4>1. Len(<<e>>) = 1 /\ Len(<<b>>) = 1 /\ <<e>>[1] = e /\ <<b>>[1] = b OBVIOUS
      <4>2. \A k \in 1 .. Len(<<e>>) : k = 1 BY <4>1
      <4> QED BY <2>4, <4>1, <4>2, Zenon DEF Match
    <3> QED BY <2>5, <3>1, <3>2, <3>3, <3>4, <3>5, Zenon DEF e
  <2>7. CASE e.t # 0
    <3> DEFINE u == UnixTime(e.t)
               t == Stamp(e.t)
    <3>1. u \in Seq(Byte) /\ IsWire(t, u) BY <2>5, WireOfTime
    <3>2. PartsOf(e) = <<t, e>> /\ WiresOf(e) = <<u, b>> BY <2>7 DEF PartsOf, WiresOf, b
    <3>3. e.bytes = u \o b BY <2>4, <2>7 DEF Time
    <3> HIDE DEF u, t
    <3>4. <<t, e>> \in Seq(RE) BY <2>2, SmallSeqs DEF t
    <3>5. <<u, b>> \in Seq(Seq(Byte)) /\ FlattenSeq(<<u, b>>) = u \o b
      BY <2>4, <3>1, FlattenTwo
    <3>6. Match(<<t, e>>, <<u, b>>)
      <4>1. /\ Len(<<t, e>>) = 2 /\ Len(<<u, b>>) = 2 /\ <<t, e>>[1] = t /\ <<t, e>>[2] = e
            /\ <<u, b>>[1] = u /\ <<u, b>>[2] = b
        OBVIOUS
      <4>2. \A k \in 1 .. Len(<<t, e>>) : k = 1 \/ k = 2 BY <4>1
      <4> QED BY <2>4, <3>1, <4>1, <4>2, Zenon DEF Match
    <3> QED BY <2>5, <3>2, <3>3, <3>4, <3>5, <3>6, Zenon DEF e
  <2> QED BY <2>6, <2>7
<1>3. pp \in [1..n -> Seq(RE)] /\ ww \in [1..n -> Seq(Seq(Byte))] /\ bb \in [1..n -> Seq(Byte)]
  <2> HIDE DEF RE, n
  <2> QED BY <1>1, <1>2
<1>4. \A i \in 1..n : pp[i] = PartsOf(s[i]) /\ ww[i] = WiresOf(s[i]) /\ bb[i] = s[i].bytes
  BY <1>1
<1>5. RecordsOf(s) = FlattenSeq(pp) /\ Wires(s) = FlattenSeq(ww) /\ BytesOf(s) = FlattenSeq(bb)
  BY DEF RecordsOf, Wires, BytesOf
<1> HIDE DEF pp, ww, bb, RE, n
<1>6. /\ pp \in Seq(Seq(RE)) /\ Len(pp) = n /\ ww \in Seq(Seq(Seq(Byte))) /\ Len(ww) = n
      /\ bb \in Seq(Seq(Byte)) /\ Len(bb) = n
  BY <1>1, <1>3, FunctionIsSeq
<1>7. FlattenSeq(pp) \in Seq(RE) /\ FlattenSeq(ww) \in Seq(Seq(Byte)) /\ FlattenSeq(bb) \in Seq(Byte)
  BY <1>6, FlattenType
<1>8. Match(FlattenSeq(pp), FlattenSeq(ww))
  <2>1. Matches(pp, ww) BY <1>2, <1>4, <1>6 DEF Matches
  <2> QED BY <1>6, <2>1, FlattenMatch
<1>9. FlattenSeq(FlattenSeq(ww)) = FlattenSeq(bb)
  <2>1. \A i \in 1 .. Len(ww) : FlattenSeq(ww[i]) = bb[i] BY <1>2, <1>4, <1>6
  <2> QED BY <1>6, <2>1, FlattenTwice
<1>10. DOMAIN FlattenSeq(pp) = 1 .. Len(FlattenSeq(ww))
  <2>1. DOMAIN FlattenSeq(pp) = 1 .. Len(FlattenSeq(pp)) BY <1>7, LenProperties
  <2> QED BY <1>8, <2>1 DEF Match
<1> QED BY <1>5, <1>7, <1>8, <1>9, <1>10, Zenon
=============================================================================
