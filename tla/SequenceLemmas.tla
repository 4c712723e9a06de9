---------------------------- MODULE SequenceLemmas ----------------------------
(***************************************************************************)
(* What the operators on sequences return that several modules use:        *)
(* FlattenSeq, which joins the records of the log and its files, and       *)
(* RemoveAt, which takes an element out of a list.                         *)
(*                                                                         *)
(* FlattenSeq is a recursive function.  That the function exists, and is   *)
(* the only one, is shown by the least place at which it would not.        *)
(***************************************************************************)
EXTENDS Integers, SequencesExt, SequenceTheorems, WellFoundedInduction, TLAPS

\* A set of numbers has a least one.
LEMMA Least ==
    ASSUME NEW T, T \subseteq Nat, T # {}
    PROVE  \E x \in T : \A y \in T : x <= y
<1> DEFINE R == {ss \in Nat \X Nat : ss[1] < ss[2]}
<1>1. IsWellFoundedOn(R, Nat) BY NatLessThanWellFounded DEF OpToRel
<1>2. \A x, y \in Nat : <<y, x>> \in R <=> y < x OBVIOUS
<1> HIDE DEF R
<1>3. PICK x \in T : \A y \in T : ~(<<y, x>> \in R) BY <1>1, WFMin
<1>4. ASSUME NEW y \in T PROVE x <= y
  <2>1. x \in Nat /\ y \in Nat OBVIOUS
  <2>2. ~(<<y, x>> \in R) BY <1>3
  <2>3. ~(y < x) BY <1>2, <2>1, <2>2
  <2> QED BY <2>1, <2>3
<1> QED BY <1>4

\* A function on the first n numbers is a sequence.
LEMMA FunctionIsSeq ==
    ASSUME NEW S, NEW n \in Nat, NEW f, f \in [1..n -> S]
    PROVE  f \in Seq(S) /\ Len(f) = n
BY SeqDef

\* Two sequences are the same if one has the elements of the other.
LEMMA SameSeq ==
    ASSUME NEW S, NEW s, NEW t, s \in Seq(S), t \in Seq(S),
           Len(s) = Len(t), \A i \in 1 .. Len(s) : s[i] = t[i]
    PROVE  s = t
BY SeqEqual

-----------------------------------------------------------------------------
(* Joining sequences *)

\* f[i] joins the first i of the sequences ss, for i up to n.
Joins(f, ss, n) == f = [i \in 1..n |-> IF i = 1 THEN ss[i] ELSE f[i-1] \o ss[i]]

\* s and t have the same first n values.
Agree(s, t, n) == \A i \in 1..n : s[i] = t[i]

\* There is such a function.
LEMMA JoinsExist ==
    ASSUME NEW S, NEW ss \in Seq(Seq(S))
    PROVE  \A n \in 0 .. Len(ss) : \E f \in [1..n -> Seq(S)] : Joins(f, ss, n)
<1>1. Len(ss) \in Nat /\ \A i \in 1 .. Len(ss) : ss[i] \in Seq(S)
  BY LenProperties, ElementOfSeq
<1> DEFINE Has(n) == \E f \in [1..n -> Seq(S)] : Joins(f, ss, n)
           T == {n \in 0 .. Len(ss) : ~Has(n)}
<1>2. T = {}
  <2> SUFFICES ASSUME T # {} PROVE FALSE OBVIOUS
  <2>1. T \subseteq Nat BY <1>1
  <2>2. PICK n \in T : \A m \in T : n <= m BY <2>1, Least
  <2>3. n \in 0 .. Len(ss) /\ n \in Nat /\ ~Has(n) BY <1>1
  <2>4. n # 0
    <3> SUFFICES ASSUME n = 0 PROVE FALSE OBVIOUS
    <3> DEFINE g == [i \in 1..0 |-> <<>>]
    <3>1. g \in [1..0 -> Seq(S)] OBVIOUS
    <3>2. Joins(g, ss, 0) BY DEF Joins
    <3> QED BY <2>3, <3>1, <3>2
  <2>5. n - 1 \in 0 .. Len(ss) /\ ~(n <= n - 1) BY <2>3, <2>4, <1>1
  <2>6. PICK f \in [1..n-1 -> Seq(S)] : Joins(f, ss, n - 1)
    <3>1. n - 1 \notin T BY <2>2, <2>5
    <3> QED BY <2>5, <3>1
  <2> HIDE DEF Has, T
  <2> DEFINE g == [i \in 1..n |->
                     IF i = n THEN IF n = 1 THEN ss[n] ELSE f[n-1] \o ss[n] ELSE f[i]]
  <2>7. \A i \in 1..n : i # n => i \in 1..n-1 BY <2>3
  <2>8. n \in 1 .. Len(ss) /\ ss[n] \in Seq(S) BY <1>1, <2>3, <2>4
  <2>9. g \in [1..n -> Seq(S)]
    <3>1. n # 1 => f[n-1] \o ss[n] \in Seq(S)
      <4>1. n # 1 => f[n-1] \in Seq(S) BY <2>3, <2>8
      <4> QED BY <4>1, <2>8, ConcatProperties
    <3> QED BY <3>1, <2>7, <2>8
  <2>10. ASSUME NEW i \in 1..n
         PROVE  g[i] = IF i = 1 THEN ss[i] ELSE g[i-1] \o ss[i]
    <3>1. CASE i = n
      <4>1. n # 1 => n - 1 \in 1..n /\ n - 1 # n BY <2>3, <2>8
      <4> QED BY <3>1, <4>1
    <3>2. CASE i # n
      <4>1. i \in 1..n-1 /\ g[i] = f[i] BY <3>2, <2>7
      <4>2. f[i] = IF i = 1 THEN ss[i] ELSE f[i-1] \o ss[i] BY <4>1, <2>6 DEF Joins
      <4>3. i # 1 => i - 1 \in 1..n /\ i - 1 # n BY <2>3, <4>1
      <4> QED BY <4>1, <4>2, <4>3
    <3> QED BY <3>1, <3>2
  <2>11. Joins(g, ss, n)
    <3> HIDE DEF g
    <3>1. g = [i \in 1..n |-> g[i]] BY <2>9
    <3> QED BY <3>1, <2>10 DEF Joins
  <2> HIDE DEF g
  <2> QED BY <2>3, <2>9, <2>11 DEF Has
<1> QED BY <1>2

\* It depends on the sequences it has joined only.
LEMMA JoinsSame ==
    ASSUME NEW ss, NEW tt, NEW n \in Nat, NEW m \in Nat, n <= m,
           Agree(ss, tt, n), NEW f, NEW g, Joins(f, ss, n), Joins(g, tt, m)
    PROVE  Agree(f, g, n)
<1> USE DEF Agree
<1> DEFINE T == {i \in 1..n : f[i] # g[i]}
<1> SUFFICES ASSUME T # {} PROVE FALSE OBVIOUS
<1>1. T \subseteq Nat OBVIOUS
<1>2. PICK i \in T : \A j \in T : i <= j BY <1>1, Least
<1>3. i \in 1..n /\ i \in 1..m /\ f[i] # g[i] /\ ss[i] = tt[i] OBVIOUS
<1>4. /\ f[i] = IF i = 1 THEN ss[i] ELSE f[i-1] \o ss[i]
      /\ g[i] = IF i = 1 THEN tt[i] ELSE g[i-1] \o tt[i]
  BY <1>3 DEF Joins
<1>5. i # 1 BY <1>3, <1>4
<1>6. i - 1 \in 1..n /\ ~(i <= i - 1) BY <1>3, <1>5
<1>7. f[i-1] = g[i-1] BY <1>2, <1>6
<1> QED BY <1>3, <1>4, <1>5, <1>7

\* FlattenSeq is the last value of that function.
LEMMA FlattenIs ==
    ASSUME NEW S, NEW ss \in Seq(Seq(S)), Len(ss) # 0
    PROVE  \E f : /\ f \in [1..Len(ss) -> Seq(S)] /\ Joins(f, ss, Len(ss))
                  /\ FlattenSeq(ss) = f[Len(ss)]
<1> DEFINE n == Len(ss)
           C == CHOOSE f : f = [i \in 1..n |-> IF i = 1 THEN ss[i] ELSE f[i-1] \o ss[i]]
<1>1. n \in Nat \ {0} BY LenProperties
<1>2. PICK f \in [1..n -> Seq(S)] : Joins(f, ss, n)
  <2>1. n \in 0 .. Len(ss) BY <1>1
  <2> QED BY <2>1, JoinsExist
<1>3. Joins(C, ss, n) BY <1>2 DEF Joins
<1>4. FlattenSeq(ss) = C[n] BY <1>1 DEF FlattenSeq
<1> HIDE DEF C
<1>5. Agree(f, C, n)
  <2>1. n \in Nat /\ n <= n /\ Agree(ss, ss, n) BY <1>1 DEF Agree
  <2> QED BY <2>1, <1>2, <1>3, JoinsSame
<1>6. FlattenSeq(ss) = f[n]
  <2>1. n \in 1..n BY <1>1
  <2> QED BY <2>1, <1>4, <1>5 DEF Agree
<1> QED BY <1>2, <1>6

\* Nothing joined is nothing.
LEMMA FlattenEmpty == FlattenSeq(<<>>) = <<>>
BY EmptySeq DEF FlattenSeq

\* Elements stay elements.
LEMMA FlattenType ==
    ASSUME NEW S, NEW ss \in Seq(Seq(S))
    PROVE  FlattenSeq(ss) \in Seq(S)
<1>1. CASE Len(ss) = 0
  <2>1. FlattenSeq(ss) = ss BY <1>1 DEF FlattenSeq
  <2>2. ss = <<>> BY <1>1, EmptySeq
  <2> QED BY <2>1, <2>2, EmptySeq
<1>2. CASE Len(ss) # 0
  <2>1. PICK f \in [1..Len(ss) -> Seq(S)] : FlattenSeq(ss) = f[Len(ss)]
    BY <1>2, FlattenIs
  <2>2. Len(ss) \in 1..Len(ss) BY <1>2, LenProperties
  <2> QED BY <2>1, <2>2
<1> QED BY <1>1, <1>2

\* A sequence appended is joined behind the others.
LEMMA FlattenAppend ==
    ASSUME NEW S, NEW ss \in Seq(Seq(S)), NEW s \in Seq(S)
    PROVE  FlattenSeq(Append(ss, s)) = FlattenSeq(ss) \o s
<1> DEFINE tt == Append(ss, s)
           n == Len(ss)
<1>1. /\ tt \in Seq(Seq(S)) /\ Len(tt) = n + 1 /\ tt[n + 1] = s /\ n \in Nat
      /\ \A i \in 1..n : ss[i] = tt[i]
  BY AppendProperties, LenProperties
<1>2. Len(tt) # 0 BY <1>1
<1> HIDE DEF tt
<1>3. PICK g : Joins(g, tt, n + 1) /\ FlattenSeq(tt) = g[n + 1]
  BY <1>1, <1>2, FlattenIs
<1>4. g[n + 1] = IF n + 1 = 1 THEN s ELSE g[n] \o s
  <2>1. n + 1 \in 1..n + 1 /\ (n + 1) - 1 = n BY <1>1
  <2> QED BY <2>1, <1>1, <1>3 DEF Joins
<1>5. CASE n = 0
  <2>1. FlattenSeq(tt) = s BY <1>1, <1>3, <1>4, <1>5
  <2>2. ss = <<>> BY <1>5, EmptySeq
  <2>3. FlattenSeq(ss) = <<>> BY <2>2, FlattenEmpty
  <2>4. <<>> \o s = s BY ConcatEmptySeq
  <2> QED BY <2>1, <2>3, <2>4 DEF tt
<1>6. CASE n # 0
  <2>1. PICK f : Joins(f, ss, n) /\ FlattenSeq(ss) = f[n]
    BY <1>6, FlattenIs
  <2>2. n \in Nat /\ n + 1 \in Nat /\ n <= n + 1 /\ Agree(ss, tt, n)
    BY <1>1 DEF Agree
  <2>3. Agree(f, g, n) BY <2>1, <2>2, <1>3, JoinsSame
  <2>4. n \in 1..n /\ n + 1 # 1 BY <1>1, <1>6
  <2>5. FlattenSeq(tt) = g[n] \o s BY <2>4, <1>3, <1>4
  <2>6. FlattenSeq(tt) = f[n] \o s BY <2>3, <2>4, <2>5 DEF Agree
  <2> QED BY <2>1, <2>6 DEF tt
<1> QED BY <1>5, <1>6

\* Extending the last sequence extends what they join to.
LEMMA FlattenExtend ==
    ASSUME NEW S, NEW ss \in Seq(Seq(S)), Len(ss) # 0, NEW t \in Seq(S)
    PROVE  /\ [ss EXCEPT ![Len(ss)] = @ \o t] \in Seq(Seq(S))
           /\ Len([ss EXCEPT ![Len(ss)] = @ \o t]) = Len(ss)
           /\ FlattenSeq([ss EXCEPT ![Len(ss)] = @ \o t]) = FlattenSeq(ss) \o t
<1> DEFINE n == Len(ss)
           front == SubSeq(ss, 1, n - 1)
           last == ss[n]
           tt == [ss EXCEPT ![n] = ss[n] \o t]
<1>1. n \in Nat \ {0} /\ n \in 1..n /\ \A i \in 1..n : ss[i] \in Seq(S)
  BY LenProperties, ElementOfSeq
<1>2. last \o t \in Seq(S) /\ last \in Seq(S) BY <1>1, ConcatProperties
<1>3. /\ front \in Seq(Seq(S)) /\ Len(front) = n - 1
      /\ \A i \in 1..n - 1 : front[i] = ss[i]
  <2>1. 1 \in Int /\ n - 1 \in Int /\ \A i \in 1..n - 1 : ss[i] \in Seq(S) BY <1>1
  <2>2. /\ front \in Seq(Seq(S))
        /\ Len(front) = IF 1 <= n - 1 THEN n - 1 - 1 + 1 ELSE 0
        /\ \A i \in 1..n - 1 - 1 + 1 : front[i] = ss[1 + i - 1]
    BY <2>1, SubSeqProperties
  <2> HIDE DEF front
  <2>3. Len(front) = n - 1
    <3>1. Len(front) = IF 1 <= n - 1 THEN n - 1 - 1 + 1 ELSE 0 BY <2>2
    <3>2. n \in Nat \ {0} BY <1>1
    <3> HIDE DEF n
    <3> QED BY <3>1, <3>2
  <2>4. ASSUME NEW i \in 1..n - 1 PROVE front[i] = ss[i]
    <3>1. i \in 1..n - 1 - 1 + 1 /\ 1 + i - 1 = i BY <1>1
    <3> QED BY <2>2, <3>1
  <2> QED BY <2>2, <2>3, <2>4
<1>4. /\ tt \in Seq(Seq(S)) /\ Len(tt) = n
      /\ \A i \in 1..n : tt[i] = IF i = n THEN last \o t ELSE ss[i]
  BY <1>1, <1>2, ExceptSeq
<1> HIDE DEF front, last, tt
<1>5. ASSUME NEW u \in Seq(Seq(S)), NEW e \in Seq(S), Len(u) = n,
             \A i \in 1..n : u[i] = IF i = n THEN e ELSE ss[i]
      PROVE  u = Append(front, e)
  <2>1. /\ Append(front, e) \in Seq(Seq(S)) /\ Len(Append(front, e)) = n
        /\ Append(front, e)[n] = e
        /\ \A i \in 1..n - 1 : Append(front, e)[i] = front[i]
    BY <1>1, <1>3, AppendProperties
  <2>2. \A i \in 1..n : i # n => i \in 1..n - 1 BY <1>1
  <2>3. \A i \in 1..n : u[i] = Append(front, e)[i] BY <2>1, <2>2, <1>3, <1>5
  <2>4. Len(u) = Len(Append(front, e)) /\ \A i \in 1..Len(u) : u[i] = Append(front, e)[i]
    BY <2>1, <2>3, <1>5
  <2> DEFINE v == Append(front, e)
  <2>5. v \in Seq(Seq(S)) /\ Len(u) = Len(v) /\ \A i \in 1..Len(u) : u[i] = v[i]
    BY <2>1, <2>4
  <2> HIDE DEF v
  <2>6. u = v BY <2>5, <1>5, SeqEqual
  <2> QED BY <2>6 DEF v
<1>6. tt = Append(front, last \o t) BY <1>2, <1>4, <1>5
<1>7. ss = Append(front, last) BY <1>1, <1>2, <1>5 DEF last
<1>8. FlattenSeq(tt) = FlattenSeq(front) \o (last \o t)
  BY <1>2, <1>3, <1>6, FlattenAppend
<1>9. FlattenSeq(ss) = FlattenSeq(front) \o last
  BY <1>2, <1>3, <1>7, FlattenAppend
<1>10. FlattenSeq(front) \o (last \o t) = (FlattenSeq(front) \o last) \o t
  <2>1. FlattenSeq(front) \in Seq(S) BY <1>3, FlattenType
  <2>2. \A a, b, c \in Seq(S) : (a \o b) \o c = a \o (b \o c)
    BY ONLY ConcatAssociative
  <2> QED BY <2>1, <2>2, <1>2, Zenon
<1>11. FlattenSeq(tt) = FlattenSeq(ss) \o t BY <1>8, <1>9, <1>10
<1>12. [ss EXCEPT ![Len(ss)] = @ \o t] = tt BY DEF tt
<1> QED BY <1>4, <1>11, <1>12

-----------------------------------------------------------------------------
(* Taking an element out *)

\* Taking one element out of a sequence moves those behind it up by one.
LEMMA RemoveAtProperties ==
    ASSUME NEW S, NEW s \in Seq(S), NEW k \in DOMAIN s
    PROVE  /\ RemoveAt(s, k) \in Seq(S)
           /\ Len(RemoveAt(s, k)) = Len(s) - 1
           /\ \A i \in 1 .. Len(s) - 1 :
                 RemoveAt(s, k)[i] = IF i < k THEN s[i] ELSE s[i + 1]
<1> DEFINE a == SubSeq(s, 1, k - 1)
           b == SubSeq(s, k + 1, Len(s))
<1>1. s \in [1 .. Len(s) -> S] /\ Len(s) \in Nat /\ k \in 1 .. Len(s)
  BY LenProperties
<1>2. /\ a \in Seq(S) /\ Len(a) = k - 1
      /\ \A i \in 1 .. k - 1 : a[i] = s[i]
  <2>1. \A i \in 1 .. k - 1 : s[i] \in S BY <1>1
  <2>2. 1 \in Int /\ k - 1 \in Int BY <1>1
  <2>3. /\ a \in Seq(S)
        /\ Len(a) = IF 1 <= k - 1 THEN k - 1 - 1 + 1 ELSE 0
        /\ \A i \in 1 .. k - 1 - 1 + 1 : a[i] = s[1 + i - 1]
    BY <2>1, <2>2, SubSeqProperties
  <2> QED BY <2>3, <1>1
<1>3. /\ b \in Seq(S) /\ Len(b) = Len(s) - k
      /\ \A i \in 1 .. Len(s) - k : b[i] = s[i + k]
  <2>1. \A i \in k + 1 .. Len(s) : s[i] \in S BY <1>1
  <2>2. k + 1 \in Int /\ Len(s) \in Int BY <1>1
  <2>3. /\ b \in Seq(S)
        /\ Len(b) = IF k + 1 <= Len(s) THEN Len(s) - (k + 1) + 1 ELSE 0
        /\ \A i \in 1 .. Len(s) - (k + 1) + 1 : b[i] = s[k + 1 + i - 1]
    BY <2>1, <2>2, SubSeqProperties
  <2>4. Len(b) = Len(s) - k BY <2>3, <1>1
  <2>5. ASSUME NEW i \in 1 .. Len(s) - k PROVE b[i] = s[i + k]
    <3>1. /\ i \in 1 .. Len(s) - (k + 1) + 1 /\ k + 1 + i - 1 = i + k
      BY <1>1, <2>5
    <3> QED BY <2>3, <3>1
  <2> QED BY <2>3, <2>4, <2>5
<1>4. RemoveAt(s, k) = a \o b BY DEF RemoveAt
<1> HIDE DEF a, b
<1>5. /\ a \o b \in Seq(S) /\ Len(a \o b) = Len(a) + Len(b)
      /\ \A i \in 1 .. Len(a) + Len(b) :
            (a \o b)[i] = IF i <= Len(a) THEN a[i] ELSE b[i - Len(a)]
  BY <1>2, <1>3, ConcatProperties
<1>6. Len(a) + Len(b) = Len(s) - 1 BY <1>1, <1>2, <1>3
<1>7. ASSUME NEW i \in 1 .. Len(s) - 1
      PROVE  RemoveAt(s, k)[i] = IF i < k THEN s[i] ELSE s[i + 1]
  <2>1. CASE i < k
    <3>1. i <= Len(a) /\ i \in 1 .. k - 1 BY <2>1, <1>1, <1>2
    <3> QED BY <3>1, <2>1, <1>2, <1>4, <1>5, <1>6
  <2>2. CASE i >= k
    <3>1. ~(i <= Len(a)) /\ i - Len(a) \in 1 .. Len(s) - k
          /\ (i - Len(a)) + k = i + 1
      BY <2>2, <1>1, <1>2
    <3>2. RemoveAt(s, k)[i] = b[i - Len(a)] BY <3>1, <1>4, <1>5, <1>6
    <3>3. b[i - Len(a)] = s[(i - Len(a)) + k] BY <3>1, <1>3
    <3> QED BY <3>1, <3>2, <3>3, <2>2, <1>1
  <2> QED BY <2>1, <2>2, <1>1
<1> QED BY <1>4, <1>5, <1>6, <1>7

-----------------------------------------------------------------------------
(* Folding sequences: a step F takes a value and an element to a value. *)

IsStep(F, X, Y) == F \in [X \X Y -> X]

\* it folds, from base, the elements of s at each set of the first n places.
Folds(it, F, base, s, n) ==
    it = [T \in SUBSET (1..n) |->
            IF T = {} THEN base ELSE F[<<it[T \ {Max(T)}], s[Max(T)]>>]]

\* Its values at the first places, each from the one before.
FoldsUp(it, F, base, s, n) ==
    it[1..0] = base /\ \A i \in 1..n : it[1..i] = F[<<it[1..i-1], s[i]>>]

\* it folds the elements at the first places of s, as far as the values are in X.
FoldsTo(it, F, X, base, s) ==
    /\ it[1..0] = base
    /\ \A i \in 1 .. Len(s) :
          it[1..i-1] \in X => it[1..i] = F[<<it[1..i-1], s[i]>>]

Fold(F, base, s) == (CHOOSE it : Folds(it, F, base, s, Len(s)))[1..Len(s)]

\* The greatest of some of the first numbers.
LEMMA MaxIs ==
    ASSUME NEW n \in Nat, NEW T \in SUBSET (1..n), T # {}
    PROVE  Max(T) \in T /\ \A x \in T : x <= Max(T)
<1> DEFINE D == {n - x : x \in T}
<1>1. D \subseteq Nat /\ D # {} OBVIOUS
<1>2. PICK d \in D : \A e \in D : d <= e BY <1>1, Least
<1>3. PICK m \in T : d = n - m OBVIOUS
<1>4. \A x \in T : x \in Nat /\ m \in Nat /\ n - x \in D OBVIOUS
<1>5. ASSUME NEW x \in T PROVE m >= x
  <2>1. n - m <= n - x BY <1>2, <1>3, <1>4
  <2> QED BY <2>1, <1>4
<1>6. Max(T) \in T /\ \A x \in T : Max(T) >= x BY <1>5 DEF Max
<1> QED BY <1>4, <1>6

\* There is such a function.
LEMMA FoldExists ==
    ASSUME NEW X, NEW Y, NEW F, IsStep(F, X, Y), NEW base \in X, NEW s \in Seq(Y)
    PROVE  \A n \in 0 .. Len(s) : \E it \in [SUBSET (1..n) -> X] : Folds(it, F, base, s, n)
<1>1. Len(s) \in Nat /\ \A i \in 1 .. Len(s) : s[i] \in Y
  BY LenProperties, ElementOfSeq
<1> DEFINE Has(n) == \E it \in [SUBSET (1..n) -> X] : Folds(it, F, base, s, n)
           D == {n \in 0 .. Len(s) : ~Has(n)}
<1>2. D = {}
  <2> SUFFICES ASSUME D # {} PROVE FALSE OBVIOUS
  <2>1. D \subseteq Nat BY <1>1
  <2>2. PICK n \in D : \A m \in D : n <= m
    <3> HIDE DEF D
    <3> QED BY <2>1, Least
  <2>3. n \in 0 .. Len(s) /\ n \in Nat /\ ~Has(n)
    <3> HIDE DEF Has
    <3> QED BY <1>1
  <2>4. n # 0
    <3> SUFFICES ASSUME n = 0 PROVE FALSE OBVIOUS
    <3> DEFINE it == [T \in SUBSET (1..0) |-> base]
    <3>1. it \in [SUBSET (1..0) -> X] OBVIOUS
    <3>2. \A T \in SUBSET (1..0) : T = {} OBVIOUS
    <3>3. Folds(it, F, base, s, 0) BY <3>2 DEF Folds
    <3> QED BY <2>3, <3>1, <3>3
  <2>5. n - 1 \in 0 .. Len(s) /\ ~(n <= n - 1) BY <2>3, <2>4, <1>1
  <2>6. PICK old \in [SUBSET (1..n-1) -> X] : Folds(old, F, base, s, n - 1)
    <3>1. n - 1 \notin D BY <2>2, <2>5
    <3> QED BY <2>5, <3>1
  <2> HIDE DEF Has, D
  <2> DEFINE it == [T \in SUBSET (1..n) |->
                      IF n \in T THEN F[<<old[T \ {n}], s[n]>>] ELSE old[T]]
  <2>7. \A T \in SUBSET (1..n) : T \ {n} \in SUBSET (1..n-1) BY <2>3
  <2>8. \A T \in SUBSET (1..n-1) : T \in SUBSET (1..n) /\ n \notin T BY <2>3
  <2>9. s[n] \in Y /\ n \in 1..n BY <1>1, <2>3, <2>4
  <2>10. it \in [SUBSET (1..n) -> X]
    <3>1. ASSUME NEW T \in SUBSET (1..n)
          PROVE  (IF n \in T THEN F[<<old[T \ {n}], s[n]>>] ELSE old[T]) \in X
      <4>1. CASE n \in T BY <4>1, <2>7, <2>9 DEF IsStep
      <4>2. CASE n \notin T
        <5>1. T = T \ {n} BY <4>2
        <5>2. T \in SUBSET (1..n-1) BY <5>1, <2>7
        <5> QED BY <4>2, <5>2
      <4> QED BY <4>1, <4>2
    <3> QED BY <3>1
  <2>11. ASSUME NEW T \in SUBSET (1..n)
         PROVE  it[T] = IF T = {} THEN base ELSE F[<<it[T \ {Max(T)}], s[Max(T)]>>]
    <3>1. CASE n \in T
      <4>1. Max(T) = n
        <5>1. Max(T) \in T /\ n <= Max(T) BY <3>1, <2>3, MaxIs
        <5>2. Max(T) \in 1..n BY <5>1
        <5> QED BY <5>1, <5>2, <2>3
      <4>2. it[T \ {n}] = old[T \ {n}] BY <2>7, <2>8
      <4>3. it[T] = F[<<old[T \ {n}], s[n]>>] BY <3>1
      <4> HIDE DEF it
      <4> QED BY <3>1, <4>1, <4>2, <4>3
    <3>2. CASE n \notin T
      <4>1. T = T \ {n} BY <3>2
      <4>2. T \in SUBSET (1..n-1) BY <4>1, <2>7
      <4>3. it[T] = old[T] BY <3>2
      <4>4. it[T \ {Max(T)}] = old[T \ {Max(T)}] BY <4>2, <2>8
      <4>5. old[T] = IF T = {} THEN base ELSE F[<<old[T \ {Max(T)}], s[Max(T)]>>]
        BY <4>2, <2>6 DEF Folds
      <4> HIDE DEF it
      <4> QED BY <4>3, <4>4, <4>5
    <3> QED BY <3>1, <3>2
  <2>12. Folds(it, F, base, s, n)
    <3> HIDE DEF it
    <3>1. it = [T \in SUBSET (1..n) |-> it[T]] BY <2>10
    <3> QED BY <3>1, <2>11 DEF Folds
  <2> HIDE DEF it
  <2> QED BY <2>3, <2>10, <2>12 DEF Has
<1> QED BY <1>2

\* What it is at the first places.
LEMMA FoldSteps ==
    ASSUME NEW F, NEW base, NEW s, NEW n \in Nat, NEW it, Folds(it, F, base, s, n)
    PROVE  FoldsUp(it, F, base, s, n)
<1>1. \A T \in SUBSET (1..n) :
          it[T] = IF T = {} THEN base ELSE F[<<it[T \ {Max(T)}], s[Max(T)]>>]
  BY DEF Folds
<1>2. it[1..0] = base
  <2>1. 1..0 = {} /\ {} \in SUBSET (1..n) OBVIOUS
  <2> QED BY <2>1, <1>1
<1>3. ASSUME NEW i \in 1..n PROVE it[1..i] = F[<<it[1..i-1], s[i]>>]
  <2>1. 1..i \in SUBSET (1..n) /\ 1..i # {} /\ i \in Nat /\ i \in 1..i OBVIOUS
  <2>2. Max(1..i) = i
    <3>1. Max(1..i) \in 1..i /\ i <= Max(1..i)
      <4> DEFINE T == 1..i
      <4>1. T \in SUBSET (1..i) /\ T # {} /\ i \in T BY <2>1
      <4> HIDE DEF T
      <4>2. Max(T) \in T /\ i <= Max(T) BY <2>1, <4>1, MaxIs
      <4> QED BY <4>2 DEF T
    <3> QED BY <3>1
  <2>3. (1..i) \ {i} = 1..i-1 BY <2>1
  <2>4. it[1..i] = F[<<it[(1..i) \ {Max(1..i)}], s[Max(1..i)]>>] BY <1>1, <2>1
  <2> QED BY <2>2, <2>3, <2>4
<1> QED BY <1>2, <1>3 DEF FoldsUp

\* It is the only one.
LEMMA FoldUnique ==
    ASSUME NEW X, NEW Y, NEW F, IsStep(F, X, Y), NEW base \in X,
           NEW s \in Seq(Y), NEW t \in Seq(Y), NEW n \in Nat, n <= Len(s), n <= Len(t),
           Agree(s, t, n), NEW f, NEW g, FoldsTo(f, F, X, base, s), FoldsTo(g, F, X, base, t)
    PROVE  f[1..n] = g[1..n] /\ f[1..n] \in X
<1>1. /\ Len(s) \in Nat /\ \A i \in 1 .. Len(s) : s[i] \in Y
      /\ Len(t) \in Nat /\ \A i \in 1 .. Len(t) : t[i] \in Y
  BY LenProperties, ElementOfSeq
<1> DEFINE Same(i) == f[1..i] = g[1..i] /\ f[1..i] \in X
           D == {i \in 0..n : ~Same(i)}
<1>2. D = {}
  <2> SUFFICES ASSUME D # {} PROVE FALSE OBVIOUS
  <2>1. D \subseteq Nat OBVIOUS
  <2>2. PICK i \in D : \A j \in D : i <= j BY <2>1, Least
  <2>3. i \in 0..n /\ ~Same(i) OBVIOUS
  <2>4. i # 0 BY <2>3 DEF FoldsTo
  <2>5. /\ i \in 1..n /\ i \in 1 .. Len(s) /\ i \in 1 .. Len(t)
        /\ i - 1 \in 0..n /\ ~(i <= i - 1)
    BY <2>3, <2>4, <1>1
  <2>6. Same(i - 1)
    <3>1. i - 1 \notin D BY <2>2, <2>5
    <3> QED BY <2>5, <3>1
  <2> HIDE DEF D
  <2>7. s[i] = t[i] /\ s[i] \in Y BY <2>5, <1>1 DEF Agree
  <2>8. /\ f[1..i] = F[<<f[1..i-1], s[i]>>]
        /\ g[1..i] = F[<<g[1..i-1], t[i]>>]
    BY <2>5, <2>6 DEF FoldsTo
  <2>9. F[<<f[1..i-1], s[i]>>] \in X BY <2>6, <2>7 DEF IsStep
  <2> QED BY <2>3, <2>6, <2>7, <2>8, <2>9
<1>3. n \in 0..n OBVIOUS
<1> QED BY <1>2, <1>3

\* A fold is known by its steps.
LEMMA FoldKnown ==
    ASSUME NEW X, NEW Y, NEW F, IsStep(F, X, Y), NEW base \in X, NEW s \in Seq(Y)
    PROVE  /\ Fold(F, base, s) \in X
           /\ \A it : FoldsTo(it, F, X, base, s) => it[1..Len(s)] = Fold(F, base, s)
<1> DEFINE n == Len(s)
           C == CHOOSE it : Folds(it, F, base, s, n)
<1>1. n \in Nat /\ n \in 0..n BY LenProperties
<1>2. PICK it \in [SUBSET (1..n) -> X] : Folds(it, F, base, s, n)
  BY <1>1, FoldExists
<1>3. Folds(C, F, base, s, n) BY <1>2
<1>4. Fold(F, base, s) = C[1..n] BY DEF Fold
<1> HIDE DEF C
<1>5. FoldsTo(C, F, X, base, s)
  <2> HIDE DEF n
  <2>1. FoldsUp(C, F, base, s, n) BY <1>1, <1>3, FoldSteps
  <2> QED BY <2>1 DEF FoldsTo, FoldsUp, n
<1>6. n <= n /\ Agree(s, s, n) BY <1>1 DEF Agree
<1>7. C[1..n] \in X BY <1>1, <1>5, <1>6, FoldUnique
<1> HIDE DEF n
<1>8. ASSUME NEW f, FoldsTo(f, F, X, base, s) PROVE f[1..n] = C[1..n]
  <2>1. n <= Len(s) BY <1>6 DEF n
  <2> QED BY <1>1, <1>5, <1>6, <1>8, <2>1, FoldUnique
<1> QED BY <1>4, <1>7, <1>8 DEF n

\* How a fold is computed.
GoesOn(F, base, Y) ==
    /\ Fold(F, base, <<>>) = base
    /\ \A s \in Seq(Y), e \in Y : Fold(F, base, Append(s, e)) = F[<<Fold(F, base, s), e>>]

\* A fold goes on with the element appended.
LEMMA FoldAppend ==
    ASSUME NEW X, NEW Y, NEW F, IsStep(F, X, Y), NEW base, base \in X
    PROVE  GoesOn(F, base, Y)
<1>0. ASSUME NEW s \in Seq(Y), Len(s) = 0 PROVE Fold(F, base, s) = base
  <2> DEFINE it == [T \in {1..0} |-> base]
  <2>1. it[1..0] = base /\ \A i \in 1..0 : FALSE OBVIOUS
  <2> HIDE DEF it
  <2>2. FoldsTo(it, F, X, base, s) BY <2>1, <1>0 DEF FoldsTo
  <2>3. it[1..Len(s)] = Fold(F, base, s) BY <2>2, FoldKnown
  <2> QED BY <2>1, <2>3, <1>0
<1>1. Fold(F, base, <<>>) = base
  <2>1. <<>> \in Seq(Y) /\ Len(<<>>) = 0 BY EmptySeq
  <2> QED BY <2>1, <1>0
<1>2. ASSUME NEW s \in Seq(Y), NEW e \in Y
      PROVE  Fold(F, base, Append(s, e)) = F[<<Fold(F, base, s), e>>]
  <2> DEFINE t == Append(s, e)
             n == Len(s)
             C == CHOOSE it : Folds(it, F, base, t, n + 1)
  <2>1. /\ n \in Nat /\ t \in Seq(Y) /\ Len(t) = n + 1 /\ t[n + 1] = e
        /\ \A i \in 1..n : t[i] = s[i]
    BY AppendProperties, LenProperties
  <2> HIDE DEF t
  <2>2. Folds(C, F, base, t, n + 1)
    <3>1. n + 1 \in 0 .. Len(t) BY <2>1
    <3>2. PICK it \in [SUBSET (1..n+1) -> X] : Folds(it, F, base, t, n + 1)
      <4> HIDE DEF n
      <4> QED BY <2>1, <3>1, FoldExists
    <3> QED BY <3>2
  <2>3. Fold(F, base, t) = C[1..n+1] BY <2>1 DEF Fold
  <2> HIDE DEF C
  <2>4. C[1..0] = base /\ \A i \in 1..n+1 : C[1..i] = F[<<C[1..i-1], t[i]>>]
    <3> DEFINE m == n + 1
    <3>1. m \in Nat /\ Folds(C, F, base, t, m) BY <2>1, <2>2
    <3> HIDE DEF m
    <3>2. FoldsUp(C, F, base, t, m) BY <3>1, FoldSteps
    <3> QED BY <3>2 DEF m, FoldsUp
  <2>5. FoldsTo(C, F, X, base, s)
    <3>1. \A i \in 1..n : i \in 1..n+1 BY <2>1
    <3> QED BY <2>1, <2>4, <3>1 DEF FoldsTo
  <2>6. C[1..n] = Fold(F, base, s) BY <2>5, FoldKnown
  <2>7. n + 1 \in 1..n+1 /\ (n + 1) - 1 = n BY <2>1
  <2> HIDE DEF n
  <2>8. C[1..n+1] = F[<<C[1..n], t[n + 1]>>] BY <2>4, <2>7
  <2> QED BY <2>1, <2>3, <2>6, <2>8 DEF t
<1> QED BY <1>1, <1>2 DEF GoesOn

\* The first i numbers.
LEMMA Initial ==
    ASSUME NEW n \in Nat, NEW i \in 1..n
    PROVE  1..i \in SUBSET (1..i) /\ 1..i \in SUBSET (1..n) /\ 1..i # {} /\ i \in Nat /\ i \in 1..i
OBVIOUS

\* it is made by steps that are F as far as its values are in X.
Iterates(it, F, X, base, s) ==
    /\ it[{}] = base
    /\ \A T \in SUBSET (1 .. Len(s)) :
          T # {} /\ it[T \ {Max(T)}] \in X =>
             it[T] = F[<<it[T \ {Max(T)}], s[Max(T)]>>]

\* Then it folds.
LEMMA IteratesFolds ==
    ASSUME NEW X, NEW Y, NEW F, NEW base, NEW s \in Seq(Y), NEW it,
           Iterates(it, F, X, base, s)
    PROVE  FoldsTo(it, F, X, base, s)
<1> DEFINE n == Len(s)
<1>1. n \in Nat BY LenProperties
<1>2. it[1..0] = base
  <2>1. 1..0 = {} OBVIOUS
  <2> QED BY <2>1 DEF Iterates
<1>3. ASSUME NEW i \in 1..n, it[1..i-1] \in X PROVE it[1..i] = F[<<it[1..i-1], s[i]>>]
  <2> DEFINE T == 1..i
  <2>1. T \in SUBSET (1..i) /\ T \in SUBSET (1..n) /\ T # {} /\ i \in Nat /\ i \in T
    <3>1. n \in Nat /\ i \in 1..n BY <1>1
    <3> HIDE DEF n
    <3> QED BY <3>1, Initial
  <2>2. T \ {i} = 1..i-1 BY <2>1
  <2> HIDE DEF T
  <2>3. Max(T) = i
    <3>1. Max(T) \in T /\ i <= Max(T) BY <2>1, MaxIs
    <3>2. Max(T) \in 1..i BY <2>1, <3>1
    <3> QED BY <3>1, <3>2, <2>1
  <2>4. it[T] = F[<<it[T \ {i}], s[i]>>]
    <3>1. it[T \ {Max(T)}] \in X BY <2>2, <2>3, <1>3
    <3>2. it[T] = F[<<it[T \ {Max(T)}], s[Max(T)]>>] BY <2>1, <3>1 DEF Iterates
    <3> QED BY <2>3, <3>2
  <2> QED BY <2>2, <2>4 DEF T
<1> QED BY <1>2, <1>3 DEF FoldsTo

\* Such an iteration gives the fold.
LEMMA IteratesFold ==
    ASSUME NEW X, NEW Y, NEW F, IsStep(F, X, Y), NEW base, base \in X,
           NEW s, s \in Seq(Y), NEW it, Iterates(it, F, X, base, s)
    PROVE  it[1..Len(s)] = Fold(F, base, s) /\ Fold(F, base, s) \in X
<1>1. FoldsTo(it, F, X, base, s) BY IteratesFolds
<1> QED BY <1>1, FoldKnown

\* The first elements, one more.
LEMMA PrefixStep ==
    ASSUME NEW S, NEW s \in Seq(S), NEW i \in 1 .. Len(s)
    PROVE  /\ SubSeq(s, 1, i) = Append(SubSeq(s, 1, i - 1), s[i])
           /\ SubSeq(s, 1, i - 1) \in Seq(S) /\ Len(SubSeq(s, 1, i - 1)) = i - 1
           /\ \A j \in 1 .. i - 1 : SubSeq(s, 1, i - 1)[j] = s[j]
           /\ s[i] \in S
<1>1. /\ Len(s) \in Nat /\ 1 \in 1 .. Len(s) /\ i \in 1 .. Len(s) /\ s[i] \in S
      /\ \A j \in 1 .. i - 1 : s[j] \in S
  BY LenProperties, ElementOfSeq
<1>2. SubSeq(s, 1, i) = SubSeq(s, 1, i - 1) \o <<s[i]>>
  BY <1>1, SubSeqRecursiveSecond
<1>3. /\ SubSeq(s, 1, i - 1) \in Seq(S)
      /\ Len(SubSeq(s, 1, i - 1)) = IF 1 <= i - 1 THEN i - 1 - 1 + 1 ELSE 0
      /\ \A j \in 1 .. i - 1 - 1 + 1 : SubSeq(s, 1, i - 1)[j] = s[1 + j - 1]
  <2>1. 1 \in Int /\ i - 1 \in Int BY <1>1
  <2> QED BY <1>1, <2>1, SubSeqProperties
<1> DEFINE t == SubSeq(s, 1, i - 1)
<1>4. Len(t) = i - 1 /\ t \in Seq(S) BY <1>1, <1>3
<1>5. Append(t, s[i]) = t \o <<s[i]>> BY <1>1, <1>4, AppendIsConcat
<1>6. ASSUME NEW j \in 1 .. i - 1 PROVE t[j] = s[j]
  <2>1. j \in 1 .. i - 1 - 1 + 1 /\ 1 + j - 1 = j BY <1>1
  <2> QED BY <1>3, <2>1
<1> QED BY <1>1, <1>2, <1>4, <1>5, <1>6

\* None, and all, of the elements.
LEMMA PrefixEnds ==
    ASSUME NEW S, NEW s \in Seq(S)
    PROVE  SubSeq(s, 1, 0) = <<>> /\ SubSeq(s, 1, Len(s)) = s
<1>1. 1 \in Int /\ 0 \in Int /\ 0 < 1 OBVIOUS
<1> QED BY <1>1, SubSeqEmpty, SubSeqFull

\* An element may be appended before or after joining.
LEMMA ConcatAppend ==
    ASSUME NEW S, NEW s \in Seq(S), NEW t \in Seq(S), NEW e \in S
    PROVE  s \o Append(t, e) = Append(s \o t, e)
OBVIOUS

\* Joining two lists of sequences is joining what each joins to.
LEMMA FlattenConcat ==
    ASSUME NEW S, NEW ss \in Seq(Seq(S)), NEW tt \in Seq(Seq(S))
    PROVE  FlattenSeq(ss \o tt) = FlattenSeq(ss) \o FlattenSeq(tt)
<1> DEFINE n == Len(tt)
           P(i) == SubSeq(tt, 1, i)
           Same(i) == FlattenSeq(ss \o P(i)) = FlattenSeq(ss) \o FlattenSeq(P(i))
           D == {i \in 0..n : ~Same(i)}
<1>1. n \in Nat /\ FlattenSeq(ss) \in Seq(S) BY LenProperties, FlattenType
<1>2. P(0) = <<>> /\ P(n) = tt BY PrefixEnds
<1>3. Same(0)
  <2>1. ss \o <<>> = ss BY ConcatEmptySeq
  <2>2. FlattenSeq(ss) \o <<>> = FlattenSeq(ss) BY <1>1, ConcatEmptySeq
  <2> QED BY <1>2, <2>1, <2>2, FlattenEmpty
<1>4. D = {}
  <2> SUFFICES ASSUME D # {} PROVE FALSE OBVIOUS
  <2>1. D \subseteq Nat OBVIOUS
  <2>2. PICK i \in D : \A j \in D : i <= j
    <3> HIDE DEF D
    <3> QED BY <2>1, Least
  <2>3. i \in 0..n /\ ~Same(i) OBVIOUS
  <2>4. i # 0 BY <1>3, <2>3
  <2> HIDE DEF Same
  <2>5. i \in 1..n /\ i - 1 \in 0..n /\ ~(i <= i - 1) BY <1>1, <2>3, <2>4
  <2>6. Same(i - 1)
    <3>1. i - 1 \notin D BY <2>2, <2>5
    <3> QED BY <2>5, <3>1
  <2> DEFINE u == P(i - 1)
             e == tt[i]
  <2>7. P(i) = Append(u, e) /\ u \in Seq(Seq(S)) /\ e \in Seq(S)
    BY <2>5, PrefixStep
  <2>8. FlattenSeq(ss \o u) = FlattenSeq(ss) \o FlattenSeq(u) BY <2>6 DEF Same
  <2> HIDE DEF P, u, e, D
  <2>9. ss \o Append(u, e) = Append(ss \o u, e) BY <2>7, ConcatAppend
  <2>10. FlattenSeq(Append(ss \o u, e)) = FlattenSeq(ss \o u) \o e
    <3>1. ss \o u \in Seq(Seq(S)) BY <2>7, ConcatProperties
    <3> QED BY <2>7, <3>1, FlattenAppend
  <2>11. FlattenSeq(Append(u, e)) = FlattenSeq(u) \o e BY <2>7, FlattenAppend
  <2>12. (FlattenSeq(ss) \o FlattenSeq(u)) \o e = FlattenSeq(ss) \o (FlattenSeq(u) \o e)
    <3> DEFINE a == FlattenSeq(ss)
               b == FlattenSeq(u)
    <3>1. a \in Seq(S) /\ b \in Seq(S) BY <1>1, <2>7, FlattenType
    <3> HIDE DEF a, b
    <3>2. (a \o b) \o e = a \o (b \o e) BY <2>7, <3>1
    <3> QED BY <3>2 DEF a, b
  <2>13. FlattenSeq(ss \o P(i)) = FlattenSeq(ss) \o FlattenSeq(P(i))
    BY <2>7, <2>8, <2>9, <2>10, <2>11, <2>12, Zenon
  <2> QED BY <2>3, <2>13 DEF Same
<1>5. Same(n)
  <2>1. n \in 0..n BY <1>1
  <2> HIDE DEF Same, n
  <2> QED BY <1>4, <2>1
<1> QED BY <1>2, <1>5

\* The k-th sequence in what they join to, behind those before it.
PlacedAt(S, ss, k) ==
    \E after \in Seq(S) :
       FlattenSeq(ss) = (FlattenSeq(SubSeq(ss, 1, k - 1)) \o ss[k]) \o after

\* What a list joins to holds each of its sequences, behind those before it.
LEMMA FlattenAt ==
    ASSUME NEW S, NEW ss \in Seq(Seq(S)), NEW k \in 1 .. Len(ss)
    PROVE  /\ FlattenSeq(SubSeq(ss, 1, k - 1)) \in Seq(S) /\ ss[k] \in Seq(S)
           /\ FlattenSeq(SubSeq(ss, 1, k)) = FlattenSeq(SubSeq(ss, 1, k - 1)) \o ss[k]
           /\ PlacedAt(S, ss, k)
<1> DEFINE n == Len(ss)
           p == SubSeq(ss, 1, k)
           q == SubSeq(ss, k + 1, n)
           u == SubSeq(ss, 1, k - 1)
<1>1. n \in Nat /\ k \in 1..n /\ k \in 0..n /\ n \in k..n /\ 1 \in 1..n+1
  BY LenProperties
<1>2. p = Append(u, ss[k]) /\ u \in Seq(Seq(S)) /\ ss[k] \in Seq(S)
  BY PrefixStep
<1>3. p \o q = ss
  <2>1. SubSeq(ss, 1, k) \o SubSeq(ss, k + 1, n) = SubSeq(ss, 1, n)
    <3>1. k \in 1-1..n BY <1>1
    <3> QED BY <1>1, <3>1, ConcatAdjacentSubSeq
  <2> QED BY <2>1, PrefixEnds
<1>4. q \in Seq(Seq(S))
  <2>1. k + 1 \in Int /\ n \in Int /\ \A i \in k + 1 .. n : ss[i] \in Seq(S)
    BY <1>1, ElementOfSeq
  <2> QED BY <2>1, SubSeqProperties
<1> HIDE DEF p, q, u
<1>5. p \in Seq(Seq(S)) BY <1>2, AppendProperties
<1>6. FlattenSeq(p) = FlattenSeq(u) \o ss[k] BY <1>2, FlattenAppend
<1>7. FlattenSeq(ss) = FlattenSeq(p) \o FlattenSeq(q) BY <1>3, <1>4, <1>5, FlattenConcat
<1>8. FlattenSeq(u) \in Seq(S) /\ FlattenSeq(q) \in Seq(S) BY <1>2, <1>4, FlattenType
<1> QED BY <1>2, <1>6, <1>7, <1>8 DEF p, u, PlacedAt

\* Induction up to n: G holds of 0, and of each number if of the one before.
LEMMA UpTo ==
    ASSUME NEW n \in Nat, NEW G, 0 \in G, \A i \in 1..n : i - 1 \in G => i \in G
    PROVE  \A i \in 0..n : i \in G
<1> DEFINE D == {i \in 0..n : i \notin G}
<1> SUFFICES ASSUME D # {} PROVE FALSE OBVIOUS
<1>1. D \subseteq Nat OBVIOUS
<1>2. PICK i \in D : \A j \in D : i <= j
  <2> HIDE DEF D
  <2> QED BY <1>1, Least
<1>3. i \in 0..n /\ i \notin G /\ i # 0 OBVIOUS
<1>4. i \in 1..n /\ i - 1 \in 0..n /\ ~(i <= i - 1) BY <1>3
<1>5. i - 1 \in G BY <1>2, <1>4
<1> QED BY <1>3, <1>4, <1>5

\* A part of a sequence.
LEMMA Slice ==
    ASSUME NEW S, NEW s \in Seq(S), NEW m \in 1 .. Len(s) + 1, NEW n \in m - 1 .. Len(s)
    PROVE  /\ SubSeq(s, m, n) \in Seq(S) /\ Len(SubSeq(s, m, n)) = n - m + 1
           /\ \A i \in 1 .. n - m + 1 : SubSeq(s, m, n)[i] = s[m + i - 1]
<1>1. /\ m \in Int /\ n \in Int /\ \A i \in m..n : s[i] \in S
      /\ (IF m <= n THEN n - m + 1 ELSE 0) = n - m + 1
  <2>1. Len(s) \in Nat /\ \A i \in 1 .. Len(s) : s[i] \in S BY LenProperties, ElementOfSeq
  <2> QED BY <2>1
<1> QED BY <1>1, SubSeqProperties

\* The second of three joined sequences.
LEMMA Middle ==
    ASSUME NEW S, NEW a \in Seq(S), NEW b \in Seq(S), NEW c \in Seq(S)
    PROVE  SubSeq((a \o b) \o c, Len(a) + 1, Len(a) + Len(b)) = b
<1> DEFINE s == (a \o b) \o c
           m == Len(a) + 1
           n == Len(a) + Len(b)
<1>1. Len(a) \in Nat /\ Len(b) \in Nat /\ Len(c) \in Nat BY LenProperties
<1>2. /\ a \o b \in Seq(S) /\ Len(a \o b) = Len(a) + Len(b)
      /\ \A i \in 1 .. Len(a) + Len(b) :
            (a \o b)[i] = IF i <= Len(a) THEN a[i] ELSE b[i - Len(a)]
  BY ConcatProperties
<1>3. /\ s \in Seq(S) /\ Len(s) = Len(a \o b) + Len(c)
      /\ \A i \in 1 .. Len(a \o b) + Len(c) :
            s[i] = IF i <= Len(a \o b) THEN (a \o b)[i] ELSE c[i - Len(a \o b)]
  <2> DEFINE ab == a \o b
  <2>1. ab \in Seq(S) BY <1>2
  <2> HIDE DEF ab
  <2>2. /\ ab \o c \in Seq(S) /\ Len(ab \o c) = Len(ab) + Len(c)
        /\ \A i \in 1 .. Len(ab) + Len(c) :
              (ab \o c)[i] = IF i <= Len(ab) THEN ab[i] ELSE c[i - Len(ab)]
    BY <2>1, ConcatProperties
  <2> QED BY <2>2 DEF ab
<1> DEFINE ab == a \o b
<1>4. Len(ab) = Len(a) + Len(b) BY <1>2
<1> HIDE DEF s
<1>5. m \in 1 .. Len(s) + 1 /\ n \in m - 1 .. Len(s) /\ n - m + 1 = Len(b)
  BY <1>1, <1>3, <1>4
<1>6. /\ SubSeq(s, m, n) \in Seq(S) /\ Len(SubSeq(s, m, n)) = Len(b)
      /\ \A i \in 1 .. Len(b) : SubSeq(s, m, n)[i] = s[m + i - 1]
  <2> HIDE DEF m, n
  <2> QED BY <1>3, <1>5, Slice
<1>7. ASSUME NEW i \in 1 .. Len(b) PROVE SubSeq(s, m, n)[i] = b[i]
  <2>1. /\ m + i - 1 \in 1 .. Len(a) + Len(b) /\ m + i - 1 \in 1 .. Len(ab) + Len(c)
        /\ ~(m + i - 1 <= Len(a)) /\ m + i - 1 <= Len(ab) /\ m + i - 1 - Len(a) = i
    BY <1>1, <1>4
  <2>2. s[m + i - 1] = ab[m + i - 1] BY <1>3, <2>1
  <2>3. ab[m + i - 1] = b[m + i - 1 - Len(a)] BY <1>2, <2>1
  <2> QED BY <1>6, <2>1, <2>2, <2>3
<1> DEFINE t == SubSeq(s, m, n)
<1>8. t \in Seq(S) /\ Len(t) = Len(b) /\ \A i \in 1 .. Len(t) : t[i] = b[i]
  BY <1>6, <1>7
<1> HIDE DEF t
<1>9. t = b BY <1>8, SameSeq
<1> QED BY <1>9 DEF t, s, m, n

\* The first and the second of two joined sequences.
LEMMA TwoParts ==
    ASSUME NEW S, NEW a \in Seq(S), NEW b \in Seq(S)
    PROVE  /\ SubSeq(a \o b, 1, Len(a)) = a
           /\ SubSeq(a \o b, Len(a) + 1, Len(a) + Len(b)) = b
<1>1. <<>> \in Seq(S) /\ Len(<<>>) = 0 BY EmptySeq
<1>2. Len(a) \in Nat /\ Len(b) \in Nat BY LenProperties
<1>3. <<>> \o a = a /\ (a \o b) \o <<>> = a \o b
  <2>1. a \o b \in Seq(S) BY ConcatProperties
  <2> QED BY <2>1, ConcatEmptySeq
<1>4. SubSeq((<<>> \o a) \o b, Len(<<>>) + 1, Len(<<>>) + Len(a)) = a
  BY <1>1, Middle
<1>5. SubSeq((a \o b) \o <<>>, Len(a) + 1, Len(a) + Len(b)) = b BY <1>1, Middle
<1>6. Len(<<>>) + 1 = 1 /\ Len(<<>>) + Len(a) = Len(a) BY <1>1, <1>2
<1> QED BY <1>3, <1>4, <1>5, <1>6

-----------------------------------------------------------------------------
(* Prefixes *)

\* What is joined to a sequence makes it a prefix, and leaves its prefixes.
LEMMA PrefixJoined ==
    ASSUME NEW S, NEW s \in Seq(S), NEW t \in Seq(S), NEW u \in Seq(S)
    PROVE  IsPrefix(s, s \o u) /\ (IsPrefix(s, t) => IsPrefix(s, t \o u))
<1>1. Len(s) \in Nat /\ Len(t) \in Nat /\ Len(u) \in Nat BY LenProperties
<1>2. /\ s \o u \in Seq(S) /\ Len(s \o u) = Len(s) + Len(u)
      /\ t \o u \in Seq(S) /\ Len(t \o u) = Len(t) + Len(u)
  BY ConcatProperties
<1>3. IsPrefix(s, s \o u)
  <2>1. SubSeq(s \o u, 1, Len(s)) = s BY TwoParts
  <2>2. SubSeq(s, 1, Len(s)) = s BY PrefixEnds
  <2> QED BY <1>1, <1>2, <2>1, <2>2 DEF IsPrefix
<1>4. ASSUME IsPrefix(s, t) PROVE IsPrefix(s, t \o u)
  <2>1. Len(s) <= Len(t) /\ SubSeq(s, 1, Len(s)) = SubSeq(t, 1, Len(s))
    BY <1>4 DEF IsPrefix
  <2>2. SubSeq(t \o u, 1, Len(s)) = SubSeq(t, 1, Len(s))
    <3>1. CASE Len(s) = 0
      <4>1. SubSeq(t \o u, 1, 0) = <<>> /\ SubSeq(t, 1, 0) = <<>>
        BY <1>2, PrefixEnds
      <4> QED BY <3>1, <4>1
    <3>2. CASE Len(s) # 0
      <4>1. 1 \in 1 .. Len(t) /\ Len(s) \in 1 .. Len(t) BY <1>1, <2>1, <3>2
      <4> QED BY <4>1, SubSeqOfConcat1
    <3> QED BY <3>1, <3>2
  <2> QED BY <1>1, <1>2, <2>1, <2>2 DEF IsPrefix
<1> QED BY <1>3, <1>4

\* s goes on after its first n elements.
DividedAt(S, s, n) ==
    \E r \in Seq(S) : /\ SubSeq(s, 1, n) \in Seq(S) /\ Len(SubSeq(s, 1, n)) = n
                      /\ s = SubSeq(s, 1, n) \o r

\* Every sequence is divided anywhere.
LEMMA Divided ==
    ASSUME NEW S, NEW s \in Seq(S), NEW n \in 0 .. Len(s)
    PROVE  DividedAt(S, s, n)
<1> DEFINE m == Len(s)
           r == SubSeq(s, n + 1, m)
<1>1. m \in Nat /\ n \in 0..m /\ n \in Nat BY LenProperties
<1>2. SubSeq(s, 1, n) \in Seq(S) /\ Len(SubSeq(s, 1, n)) = n
  <2>1. 1 \in 1 .. m + 1 /\ n \in 1 - 1 .. m /\ n - 1 + 1 = n BY <1>1
  <2> QED BY <2>1, Slice
<1>3. r \in Seq(S)
  <2>1. n + 1 \in 1 .. m + 1 /\ m \in n + 1 - 1 .. m BY <1>1
  <2> QED BY <2>1, Slice
<1>4. s = SubSeq(s, 1, n) \o r
  <2>1. CASE m = 0
    <3>1. n = 0 /\ s = <<>> BY <1>1, <2>1, EmptySeq
    <3>2. SubSeq(s, 1, 0) = <<>> /\ SubSeq(s, 1, 0) \in Seq(S) BY <3>1, <1>2, PrefixEnds
    <3>3. r = <<>>
      <4>1. n + 1 \in Int /\ m \in Int /\ m < n + 1 BY <1>1, <2>1
      <4> QED BY <4>1, SubSeqEmpty
    <3>4. <<>> \o <<>> = <<>> BY <3>2, ConcatEmptySeq
    <3> QED BY <3>1, <3>2, <3>3, <3>4
  <2>2. CASE m # 0
    <3>1. 1 \in 1 .. m + 1 /\ n \in 1 - 1 .. m /\ m \in n .. m BY <1>1, <2>2
    <3>2. SubSeq(s, 1, n) \o SubSeq(s, n + 1, m) = SubSeq(s, 1, m)
      BY <3>1, ConcatAdjacentSubSeq
    <3> QED BY <3>2, PrefixEnds
  <2> QED BY <2>1, <2>2
<1> QED BY <1>2, <1>3, <1>4 DEF DividedAt

\* Joining is associative.
LEMMA Associate ==
    ASSUME NEW S, NEW a, NEW b, NEW c, a \in Seq(S), b \in Seq(S), c \in Seq(S)
    PROVE  (a \o b) \o c = a \o (b \o c) /\ a \o b \in Seq(S) /\ b \o c \in Seq(S)
<1>1. a \o b \in Seq(S) /\ b \o c \in Seq(S) BY ConcatProperties
<1>2. (a \o b) \o c = a \o (b \o c) OBVIOUS
<1> QED BY <1>1, <1>2

\* A beginning joined to the same sequence.
LEMMA PrefixInside ==
    ASSUME NEW S, NEW a \in Seq(S), NEW s \in Seq(S), NEW n \in 0 .. Len(s)
    PROVE  IsPrefix(a \o SubSeq(s, 1, n), a \o s)
<1> DEFINE b == SubSeq(s, 1, n)
<1>1. PICK r \in Seq(S) : /\ SubSeq(s, 1, n) \in Seq(S) /\ Len(SubSeq(s, 1, n)) = n
                          /\ s = SubSeq(s, 1, n) \o r
  <2>1. DividedAt(S, s, n) BY Divided
  <2> QED BY <2>1 DEF DividedAt
<1>5. b \in Seq(S) /\ s = b \o r BY <1>1
<1> HIDE DEF b
<1>2. (a \o b) \o r = a \o (b \o r) /\ a \o b \in Seq(S) BY <1>5, Associate
<1>3. IsPrefix(a \o b, (a \o b) \o r)
  <2> DEFINE p == a \o b
  <2>1. p \in Seq(S) BY <1>2
  <2> HIDE DEF p
  <2>2. IsPrefix(p, p \o r) BY <2>1, PrefixJoined
  <2> QED BY <2>2 DEF p
<1>4. IsPrefix(a \o b, a \o s) BY <1>5, <1>2, <1>3, Zenon
<1> QED BY <1>4 DEF b

-----------------------------------------------------------------------------
(* Joining sequences of two *)

\* All of them have two elements.
AllPairs(ss) == \A i \in 1 .. Len(ss) : Len(ss[i]) = 2

\* s holds the two elements of b in its k-th pair of places.
PairAt(s, b, k) == s[2 * k - 1] = b[1] /\ s[2 * k] = b[2]

\* s holds them one after the other.
HoldsPairs(s, ss) == \A k \in 1 .. Len(ss) : PairAt(s, ss[k], k)

\* Two elements between others.
LEMMA PairInside ==
    ASSUME NEW S, NEW a \in Seq(S), NEW b \in Seq(S), NEW c \in Seq(S), NEW k \in Nat,
           k >= 1, Len(a) = 2 * k - 2, Len(b) = 2
    PROVE  PairAt((a \o b) \o c, b, k)
<1>1. /\ a \o b \in Seq(S) /\ Len(a \o b) = Len(a) + Len(b)
      /\ \A i \in 1 .. Len(a) + Len(b) :
            (a \o b)[i] = IF i <= Len(a) THEN a[i] ELSE b[i - Len(a)]
  BY ConcatProperties
<1>2. 2 * k - 1 \in 1 .. Len(a) + Len(b) /\ 2 * k \in 1 .. Len(a) + Len(b)
  OBVIOUS
<1>3. (a \o b)[2 * k - 1] = b[1] /\ (a \o b)[2 * k] = b[2]
  <2>1. ~(2 * k - 1 <= Len(a)) /\ ~(2 * k <= Len(a)) /\ 2 * k - 1 - Len(a) = 1 /\ 2 * k - Len(a) = 2
    OBVIOUS
  <2> QED BY <1>1, <1>2, <2>1
<1> DEFINE ab == a \o b
<1>4. ab \in Seq(S) /\ Len(ab) = 2 * k BY <1>1
<1>5. Len(c) \in Nat BY LenProperties
<1> HIDE DEF ab
<1>6. \A i \in 1 .. Len(ab) + Len(c) :
         (ab \o c)[i] = IF i <= Len(ab) THEN ab[i] ELSE c[i - Len(ab)]
  BY <1>4, ConcatProperties
<1>7. /\ 2 * k - 1 \in 1 .. Len(ab) + Len(c) /\ 2 * k \in 1 .. Len(ab) + Len(c)
      /\ 2 * k - 1 <= Len(ab) /\ 2 * k <= Len(ab)
  BY <1>4, <1>5
<1>8. (ab \o c)[2 * k - 1] = ab[2 * k - 1] /\ (ab \o c)[2 * k] = ab[2 * k]
  BY <1>6, <1>7
<1> QED BY <1>3, <1>8 DEF ab, PairAt

\* They are found at the odd places and those after them.
LEMMA FlattenPairs ==
    ASSUME NEW S, NEW ss \in Seq(Seq(S)), AllPairs(ss)
    PROVE  Len(FlattenSeq(ss)) = 2 * Len(ss) /\ HoldsPairs(FlattenSeq(ss), ss)
<1> DEFINE n == Len(ss)
           P(i) == FlattenSeq(SubSeq(ss, 1, i))
           G == {i \in 0..n : Len(P(i)) = 2 * i}
<1>1. n \in Nat BY LenProperties
<1>2. 0 \in G
  <2>1. P(0) = <<>> BY PrefixEnds, FlattenEmpty
  <2>2. Len(P(0)) = 0 BY <2>1
  <2> HIDE DEF P
  <2> QED BY <1>1, <2>2
<1>3. ASSUME NEW i \in 1..n
      PROVE  /\ P(i - 1) \in Seq(S) /\ ss[i] \in Seq(S) /\ Len(ss[i]) = 2
             /\ P(i) = P(i - 1) \o ss[i] /\ Len(P(i)) = Len(P(i - 1)) + 2
             /\ Len(P(i - 1)) \in Nat
  <2>1. P(i - 1) \in Seq(S) /\ ss[i] \in Seq(S) /\ P(i) = P(i - 1) \o ss[i]
    BY FlattenAt
  <2>2. Len(ss[i]) = 2 BY DEF AllPairs
  <2> DEFINE a == P(i - 1)
             b == ss[i]
  <2> HIDE DEF P, a, b
  <2>3. a \in Seq(S) /\ b \in Seq(S) BY <2>1 DEF a, b
  <2>4. Len(a \o b) = Len(a) + Len(b) /\ Len(a) \in Nat BY <2>3, ConcatProperties, LenProperties
  <2> QED BY <2>1, <2>2, <2>4 DEF a, b
<1> HIDE DEF P
<1>4. ASSUME NEW i \in 1..n, i - 1 \in G PROVE i \in G
  <2>1. i \in 0..n /\ i \in Nat BY <1>1
  <2>2. Len(P(i)) = 2 * (i - 1) + 2 BY <1>3, <1>4
  <2> QED BY <2>1, <2>2
<1>5. \A i \in 0..n : i \in G
  <2> HIDE DEF G, n
  <2> QED BY <1>1, <1>2, <1>4, UpTo
<1>6. P(n) = FlattenSeq(ss) BY PrefixEnds DEF P
<1>7. Len(FlattenSeq(ss)) = 2 * n
  <2>1. n \in 0..n BY <1>1
  <2> HIDE DEF n
  <2> QED BY <2>1, <1>5, <1>6
<1>8. ASSUME NEW k \in 1..n
      PROVE  PairAt(FlattenSeq(ss), ss[k], k)
  <2>1. PlacedAt(S, ss, k) BY FlattenAt
  <2>2. PICK after \in Seq(S) : FlattenSeq(ss) = (P(k - 1) \o ss[k]) \o after
    BY <2>1 DEF PlacedAt, P
  <2>3. P(k - 1) \in Seq(S) /\ ss[k] \in Seq(S) /\ Len(ss[k]) = 2 BY <1>3
  <2>4. Len(P(k - 1)) = 2 * k - 2
    <3>1. k \in Nat /\ k - 1 \in 0..n BY <1>1
    <3>2. Len(P(k - 1)) = 2 * (k - 1) BY <3>1, <1>5
    <3> DEFINE m == Len(P(k - 1))
    <3>3. m = 2 * (k - 1) BY <3>2
    <3> HIDE DEF m, n
    <3>4. m = 2 * k - 2 BY <3>1, <3>3
    <3> QED BY <3>4 DEF m
  <2> DEFINE a == P(k - 1)
             b == ss[k]
  <2> HIDE DEF a, b
  <2>5. a \in Seq(S) /\ b \in Seq(S) /\ Len(b) = 2 /\ Len(a) = 2 * k - 2
    BY <2>3, <2>4 DEF a, b
  <2>6. k \in Nat /\ k >= 1 BY <1>1
  <2>7. PairAt((a \o b) \o after, b, k)
    BY <2>5, <2>6, PairInside
  <2>8. FlattenSeq(ss) = (a \o b) \o after BY <2>2 DEF a, b
  <2>9. PairAt(FlattenSeq(ss), b, k) BY <2>7, <2>8, Zenon
  <2> QED BY <2>9 DEF b
<1> QED BY <1>7, <1>8 DEF HoldsPairs
=============================================================================
