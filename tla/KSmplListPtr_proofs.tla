------------------------- MODULE KSmplListPtr_proofs -------------------------
(***************************************************************************)
(* Theorems about the pointers of KSmplList2, for every number of          *)
(* elements: they implement the operators of KSmplList, whatever is given  *)
(* back; the list is a Pool until it is misused; and m_len counts.         *)
(*                                                                         *)
(* The proofs speak of an order in which the pointers link the elements.   *)
(* Chain, the walk along m_pNext, is a recursive function; ChainIs shows   *)
(* that it meets the elements in that order, by the least place at which   *)
(* it would not.                                                           *)
(***************************************************************************)
EXTENDS KSmplListPtr, FiniteSetTheorems, SequenceLemmas

\* The orders of the elements: each is once in it.
Orders ==
    {s \in [Element -> Element] :
        /\ \A e \in Element : \E i \in Element : s[i] = e
        /\ \A i, j \in Element : s[i] = s[j] => i = j}

\* The pointers link the elements in the order s.
Linked(s) ==
    /\ next \in [Element -> Element \cup {NULL}]
    /\ prev \in [Element -> Element \cup {NULL}]
    /\ begin = s[1] /\ end = s[Size]
    /\ \A i \in Element :
          /\ next[s[i]] = IF i = Size THEN NULL ELSE s[i + 1]
          /\ prev[s[i]] = IF i = 1 THEN NULL ELSE s[i - 1]

\* The free elements begin at place k of s, and those in front of it are held.
Split(s, k) ==
    /\ new = IF k = Size + 1 THEN NULL ELSE s[k]
    /\ ~misused => held = {s[i] : i \in 1 .. k - 1}

\* m_len counts the elements held.
Counted == ~misused => len = Cardinality(held)

\* The inductive invariant.
IInv ==
    /\ held \subseteq Element /\ misused \in BOOLEAN
    /\ \E s \in Orders : Linked(s) /\ \E k \in 1 .. Size + 1 : Split(s, k)
    /\ Counted

\* The order after the element at place p was moved to the end.
Moved(s, p) ==
    [i \in Element |->
        IF i < p THEN s[i] ELSE IF i < Size THEN s[i + 1] ELSE s[p]]

-----------------------------------------------------------------------------

\* The list as constructed.
LEMMA InitIInv == Init => IInv
<1> SUFFICES ASSUME Init PROVE IInv OBVIOUS
<1> DEFINE s == [i \in Element |-> i]
<1>1. Size \in Nat /\ Size >= 2 /\ 1 \in Element /\ Size \in Element
      /\ NULL \notin Element
  BY ListAssumption DEF Element
<1>2. s \in Orders BY DEF Orders
<1>3. Linked(s)
  <2>1. ASSUME NEW i \in Element
        PROVE  /\ next[s[i]] = IF i = Size THEN NULL ELSE s[i + 1]
               /\ prev[s[i]] = IF i = 1 THEN NULL ELSE s[i - 1]
    BY <1>1 DEF Init, Element
  <2>2. /\ next \in [Element -> Element \cup {NULL}]
        /\ prev \in [Element -> Element \cup {NULL}]
    BY <1>1 DEF Init, Element
  <2> QED BY <1>1, <2>1, <2>2 DEF Init, Linked
<1>4. Split(s, 1)
  <2>1. {s[i] : i \in 1 .. 1 - 1} = {} OBVIOUS
  <2> QED BY <1>1, <2>1 DEF Init, Split
<1>5. 1 \in 1 .. Size + 1 BY <1>1
<1>6. Counted BY FS_EmptySet DEF Init, Counted
<1> HIDE DEF s
<1> QED BY <1>2, <1>3, <1>4, <1>5, <1>6 DEF IInv, Init

\* An order stays one.
LEMMA MovedOrder ==
    ASSUME NEW s \in Orders, NEW p \in Element
    PROVE  Moved(s, p) \in Orders
<1> DEFINE t == Moved(s, p)
<1>1. Size \in Nat /\ p \in 1 .. Size BY ListAssumption DEF Element
<1>2. s \in [Element -> Element] BY DEF Orders
<1>3. t \in [Element -> Element]
  <2>1. ASSUME NEW i \in Element, i < Size PROVE i + 1 \in Element
    BY <1>1, <2>1 DEF Element
  <2>2. \A i \in Element : (IF i < p THEN s[i] ELSE IF i < Size THEN s[i + 1] ELSE s[p])
                              \in Element
    BY <1>2, <2>1
  <2> QED BY <2>2 DEF Moved
<1>4. ASSUME NEW e \in Element PROVE \E i \in Element : t[i] = e
  <2>1. PICK j \in Element : s[j] = e BY DEF Orders
  <2>2. CASE j < p BY <2>1, <2>2 DEF Moved
  <2>3. CASE j = p BY <1>1, <2>1, <2>3 DEF Moved, Element
  <2>4. CASE j > p
    <3>1. j - 1 \in Element /\ ~(j - 1 < p) /\ j - 1 < Size /\ (j - 1) + 1 = j
      BY <1>1, <2>4 DEF Element
    <3>2. t[j - 1] = e BY <2>1, <3>1 DEF Moved
    <3> QED BY <3>1, <3>2
  <2> QED BY <1>1, <2>2, <2>3, <2>4 DEF Element
<1>5. ASSUME NEW i \in Element, NEW j \in Element, t[i] = t[j] PROVE i = j
  <2> DEFINE from(n) == IF n < p THEN n ELSE IF n < Size THEN n + 1 ELSE p
  <2>1. \A n \in Element : from(n) \in Element /\ t[n] = s[from(n)]
    BY <1>1 DEF Moved, Element
  <2>2. from(i) = from(j) BY <1>5, <2>1 DEF Orders
  <2> QED BY <1>1, <2>2 DEF Element
<1> HIDE DEF t
<1> QED BY <1>3, <1>4, <1>5 DEF Orders, t

\* What relinking the element at place p does to the links of each place
\* puts the elements in the order Moved.
LEMMA MovedLinked ==
    ASSUME NEW s \in Orders, NEW p \in Element, p < Size,
           next' \in [Element -> Element \cup {NULL}],
           prev' \in [Element -> Element \cup {NULL}],
           begin' = IF p = 1 THEN s[2] ELSE s[1], end' = s[p],
           \A j \in Element : next'[s[j]] =
              IF j = p THEN NULL ELSE IF j = Size THEN s[p]
              ELSE IF j = p - 1 THEN s[p + 1] ELSE s[j + 1],
           \A j \in Element : prev'[s[j]] =
              IF j = p THEN s[Size]
              ELSE IF j = p + 1 THEN (IF p = 1 THEN NULL ELSE s[p - 1])
              ELSE IF j = 1 THEN NULL ELSE s[j - 1]
    PROVE  Linked(Moved(s, p))'
<1> DEFINE t == Moved(s, p)
<1>1. Size \in Nat /\ p \in Nat /\ 1 <= p BY ListAssumption DEF Element
<1>2. \A i \in Element :
         t[i] = IF i < p THEN s[i] ELSE IF i < Size THEN s[i + 1] ELSE s[p]
  BY DEF Moved
<1> HIDE DEF t
<1>3. ASSUME NEW i \in Element
      PROVE  /\ next'[t[i]] = IF i = Size THEN NULL ELSE t[i + 1]
             /\ prev'[t[i]] = IF i = 1 THEN NULL ELSE t[i - 1]
  <2>0. i \in Nat /\ 1 <= i /\ i <= Size BY <1>1 DEF Element
  <2>1. CASE i = Size
    <3>1. t[i] = s[p] /\ i - 1 \in Element /\ t[i - 1] = s[Size] /\ i # 1
      BY <1>1, <1>2, <2>0, <2>1 DEF Element
    <3> QED BY <2>1, <3>1
  <2>2. CASE i < p
    <3>1. /\ t[i] = s[i] /\ i # p /\ i # Size /\ i # p + 1
          /\ i + 1 \in Element
          /\ t[i + 1] = IF i = p - 1 THEN s[p + 1] ELSE s[i + 1]
      BY <1>1, <1>2, <2>0, <2>2 DEF Element
    <3>2. i # 1 => i - 1 \in Element /\ t[i - 1] = s[i - 1]
      BY <1>1, <1>2, <2>0, <2>2 DEF Element
    <3> QED BY <3>1, <3>2
  <2>3. CASE p <= i /\ i < Size
    <3>1. /\ i + 1 \in Element /\ t[i] = s[i + 1] /\ i + 1 # p /\ i + 1 # p - 1
          /\ i + 1 # 1 /\ (i + 1) - 1 = i /\ i # Size
          /\ t[i + 1] = IF i + 1 = Size THEN s[p] ELSE s[(i + 1) + 1]
      BY <1>1, <1>2, <2>0, <2>3 DEF Element
    <3>2. CASE i = p
      <4>1. i # 1 => i - 1 \in Element /\ t[i - 1] = s[p - 1]
        BY <1>1, <1>2, <2>0, <3>2 DEF Element
      <4> QED BY <3>1, <3>2, <4>1
    <3>3. CASE i # p
      <4>1. i # 1 /\ i - 1 \in Element /\ t[i - 1] = s[i] /\ i + 1 # p + 1
        BY <1>1, <1>2, <2>0, <2>3, <3>3 DEF Element
      <4> QED BY <3>1, <4>1
    <3> QED BY <3>2, <3>3
  <2> QED BY <1>1, <2>0, <2>1, <2>2, <2>3
<1>4. begin' = t[1] /\ end' = t[Size]
  <2>1. 1 \in Element /\ Size \in Element /\ 1 + 1 = 2 BY <1>1 DEF Element
  <2> QED BY <1>1, <1>2, <2>1
<1> QED BY <1>3, <1>4 DEF Linked, t

\* MoveToEnd of the element at place p relinks the pointers in the order
\* Moved, whether it is first, in the middle or last.
LEMMA MoveToEndLinks ==
    ASSUME NEW s \in Orders, Linked(s), NEW p \in Element,
           UnlinkFirst(s[p]) \/ UnlinkMiddle(s[p]) \/ LeaveLast(s[p])
    PROVE  Linked(Moved(s, p))' /\ end' = s[p]
<1> DEFINE e == s[p]
<1>1. /\ Size \in Nat /\ Size >= 2 /\ NULL \notin Element
      /\ 1 \in Element /\ 2 \in Element /\ Size \in Element
      /\ p \in Nat /\ 1 <= p /\ p <= Size
  BY ListAssumption DEF Element
<1>2. /\ \A i \in Element : s[i] \in Element
      /\ \A i, j \in Element : s[i] = s[j] => i = j
  BY DEF Orders
<1>3. /\ next \in [Element -> Element \cup {NULL}]
      /\ prev \in [Element -> Element \cup {NULL}]
      /\ begin = s[1] /\ end = s[Size]
      /\ \A i \in Element :
            /\ next[s[i]] = IF i = Size THEN NULL ELSE s[i + 1]
            /\ prev[s[i]] = IF i = 1 THEN NULL ELSE s[i - 1]
  BY DEF Linked
<1>4. /\ p < Size => p + 1 \in Element /\ s[p + 1] \in Element
                     /\ next[e] = s[p + 1]
      /\ p = Size => next[e] = NULL
      /\ p > 1 => p - 1 \in Element /\ s[p - 1] \in Element
                  /\ prev[e] = s[p - 1]
      /\ p = 1 => prev[e] = NULL
  <2>1. p < Size => p + 1 \in Element BY <1>1 DEF Element
  <2>2. p > 1 => p - 1 \in Element BY <1>1 DEF Element
  <2> QED BY <1>1, <1>2, <1>3, <2>1, <2>2
<1>5. e \in Element /\ s[1] \in Element /\ s[2] \in Element /\ s[Size] \in Element
  BY <1>1, <1>2
<1>6. ASSUME p < Size,
             next' \in [Element -> Element \cup {NULL}],
             prev' \in [Element -> Element \cup {NULL}],
             begin' = IF p = 1 THEN s[2] ELSE s[1], end' = e,
             \A x \in Element : next'[x] =
                IF x = e THEN NULL ELSE IF x = s[Size] THEN e
                ELSE IF p > 1 /\ x = s[p - 1] THEN s[p + 1] ELSE next[x],
             \A x \in Element : prev'[x] =
                IF x = e THEN s[Size]
                ELSE IF x = s[p + 1] THEN prev[e] ELSE prev[x]
      PROVE  Linked(Moved(s, p))'
  <2>1. ASSUME NEW j \in Element
        PROVE  next'[s[j]] = IF j = p THEN NULL ELSE IF j = Size THEN s[p]
                             ELSE IF j = p - 1 THEN s[p + 1] ELSE s[j + 1]
    <3>1. s[j] \in Element /\ j \in Nat /\ 1 <= j BY <1>2 DEF Element
    <3>2. (s[j] = e <=> j = p) /\ (s[j] = s[Size] <=> j = Size)
      BY <1>1, <1>2
    <3>3. (p > 1 /\ s[j] = s[p - 1]) <=> j = p - 1
      BY <1>1, <1>2, <1>4, <3>1
    <3> QED BY <1>3, <1>6, <3>1, <3>2, <3>3
  <2>2. ASSUME NEW j \in Element
        PROVE  prev'[s[j]] = IF j = p THEN s[Size]
                 ELSE IF j = p + 1 THEN (IF p = 1 THEN NULL ELSE s[p - 1])
                 ELSE IF j = 1 THEN NULL ELSE s[j - 1]
    <3>1. s[j] \in Element BY <1>2
    <3>2. (s[j] = e <=> j = p) /\ (s[j] = s[p + 1] <=> j = p + 1)
      BY <1>1, <1>2, <1>4, <1>6
    <3>3. prev[e] = IF p = 1 THEN NULL ELSE s[p - 1] BY <1>3
    <3> QED BY <1>3, <1>6, <3>1, <3>2, <3>3
  <2> HIDE DEF e
  <2> QED BY <1>6, <2>1, <2>2, MovedLinked DEF e
<1>7. CASE UnlinkFirst(e)
  <2>1. p = 1 /\ p < Size BY <1>1, <1>4, <1>7 DEF UnlinkFirst
  <2>2. /\ begin' = s[2] /\ end' = e
        /\ prev' = [prev EXCEPT ![s[2]] = NULL, ![e] = s[Size]]
        /\ next' = [next EXCEPT ![s[Size]] = e, ![e] = NULL]
    <3>1. next[e] = s[2] /\ end = s[Size] BY <1>3, <1>4, <2>1
    <3> QED BY <1>7, <3>1 DEF UnlinkFirst
  <2>3. /\ next' \in [Element -> Element \cup {NULL}]
        /\ prev' \in [Element -> Element \cup {NULL}]
    <3> HIDE DEF e
    <3> QED BY <1>3, <1>5, <2>2
  <2>4. /\ \A x \in Element : next'[x] =
              IF x = e THEN NULL ELSE IF x = s[Size] THEN e ELSE next[x]
        /\ \A x \in Element : prev'[x] =
              IF x = e THEN s[Size] ELSE IF x = s[2] THEN NULL ELSE prev[x]
    <3> HIDE DEF e
    <3> QED BY <1>3, <1>5, <2>2
  <2>5. prev[e] = NULL /\ p + 1 = 2 /\ ~(p > 1) BY <1>4, <2>1
  <2> HIDE DEF e
  <2> QED BY <1>6, <2>1, <2>2, <2>3, <2>4, <2>5 DEF e
<1>8. CASE UnlinkMiddle(e)
  <2>1. p # 1 /\ p > 1 /\ p < Size BY <1>1, <1>4, <1>8 DEF UnlinkMiddle
  <2>2. next[e] = s[p + 1] /\ prev[e] = s[p - 1] /\ s[p - 1] # s[Size]
    BY <1>1, <1>2, <1>4, <2>1
  <2>3. /\ begin' = s[1] /\ end' = e
        /\ prev' = [prev EXCEPT ![s[p + 1]] = prev[e], ![e] = s[Size]]
        /\ next' = [next EXCEPT ![s[p - 1]] = s[p + 1], ![s[Size]] = e, ![e] = NULL]
    BY <1>3, <1>8, <2>2 DEF UnlinkMiddle
  <2>4. /\ next' \in [Element -> Element \cup {NULL}]
        /\ prev' \in [Element -> Element \cup {NULL}]
    <3>1. s[p + 1] \in Element /\ prev[e] \in Element BY <1>4, <2>1, <2>2
    <3> HIDE DEF e
    <3> QED BY <1>3, <1>5, <2>3, <3>1
  <2>5. /\ \A x \in Element : next'[x] =
              IF x = e THEN NULL ELSE IF x = s[Size] THEN e
              ELSE IF x = s[p - 1] THEN s[p + 1] ELSE next[x]
        /\ \A x \in Element : prev'[x] =
              IF x = e THEN s[Size]
              ELSE IF x = s[p + 1] THEN prev[e] ELSE prev[x]
    <3> HIDE DEF e
    <3> QED BY <1>3, <1>5, <2>3
  <2> HIDE DEF e
  <2> QED BY <1>6, <2>1, <2>3, <2>4, <2>5 DEF e
<1>9. CASE LeaveLast(e)
  <2>1. p = Size BY <1>1, <1>4, <1>9 DEF LeaveLast
  <2>2. Moved(s, p) = s
    <3>1. s \in [Element -> Element] BY DEF Orders
    <3>2. \A i \in Element : i < p \/ i = p BY <1>1, <2>1 DEF Element
    <3>3. \A i \in Element : Moved(s, p)[i] = s[i]
      BY <1>1, <2>1, <3>2 DEF Moved
    <3> QED BY <3>1, <3>3 DEF Moved
  <2>3. next' = next /\ prev' = prev /\ begin' = begin /\ end' = end
    BY <1>9 DEF LeaveLast, pointers
  <2>4. Linked(s)' BY <2>3 DEF Linked
  <2> QED BY <1>3, <2>1, <2>2, <2>3, <2>4
<1>10. end' = e
  BY <1>7, <1>8, <1>9, <1>1, <1>3, <1>4
  DEF UnlinkFirst, UnlinkMiddle, LeaveLast, pointers
<1> QED BY <1>7, <1>8, <1>9, <1>10

-----------------------------------------------------------------------------
(* The invariant is inductive *)

\* The element handed out is one that is not held.
LEMMA GetKeeps ==
    ASSUME IInv, Get_NewElmt
    PROVE  /\ IInv'
           /\ ~misused => new \in Element \ held /\ held' = held \cup {new}
<1>1. PICK s \in Orders : Linked(s) /\ \E k \in 1 .. Size + 1 : Split(s, k)
  BY DEF IInv
<1>2. PICK k \in 1 .. Size + 1 : Split(s, k) BY <1>1
<1>3. Size \in Nat /\ NULL \notin Element /\ LenWidth \in Nat /\ LenWidth > Size
  BY ListAssumption
<1>4. k # Size + 1 /\ k \in Element /\ new = s[k]
  BY <1>2, <1>3 DEF Split, Get_NewElmt, Element
<1>5. /\ \A i \in Element : s[i] \in Element
      /\ \A i, j \in Element : s[i] = s[j] => i = j
  BY DEF Orders
<1>6. new \in Element BY <1>4, <1>5
<1>7. UNCHANGED <<prev, next, begin, end, misused>> /\ held' = held \cup {new}
      /\ new' = next[new] /\ len' = (len + 1) % LenWidth
  BY DEF Get_NewElmt, pointers
<1>8. Linked(s)' BY <1>1, <1>7 DEF Linked
<1>9. new' = IF k + 1 = Size + 1 THEN NULL ELSE s[k + 1]
  BY <1>1, <1>3, <1>4, <1>7 DEF Linked, Element
<1>10. ASSUME ~misused PROVE held = {s[i] : i \in 1 .. k - 1} /\ new \notin held
  <2>1. held = {s[i] : i \in 1 .. k - 1} BY <1>2, <1>10 DEF Split
  <2>2. ASSUME NEW i \in 1 .. k - 1 PROVE s[i] # new
    BY <1>3, <1>4, <1>5 DEF Element
  <2> QED BY <2>1, <2>2
<1>11. ASSUME ~misused PROVE held' = {s[i] : i \in 1 .. (k + 1) - 1}
  <2>1. 1 .. (k + 1) - 1 = (1 .. k - 1) \cup {k} BY <1>4 DEF Element
  <2> QED BY <1>4, <1>7, <1>10, <1>11, <2>1
<1>12. Split(s, k + 1)' BY <1>7, <1>9, <1>11 DEF Split
<1>13. k + 1 \in 1 .. Size + 1 BY <1>3, <1>4 DEF Element
<1>14. Counted'
  <2> SUFFICES ASSUME ~misused PROVE len' = Cardinality(held')
    BY <1>7 DEF Counted
  <2>1. IsFiniteSet(Element) /\ Cardinality(Element) = Size
    BY <1>3, FS_Interval DEF Element
  <2>2. held \subseteq Element /\ held' \subseteq Element
    BY <1>6, <1>7 DEF IInv
  <2>3. IsFiniteSet(held) /\ Cardinality(held') <= Size
        /\ Cardinality(held) \in Nat
    BY <2>1, <2>2, FS_Subset, FS_CardinalityType
  <2>4. Cardinality(held') = Cardinality(held) + 1
    BY <1>7, <1>10, <2>3, FS_AddElement
  <2>5. len + 1 \in Nat /\ len + 1 < LenWidth
    BY <1>3, <2>3, <2>4 DEF IInv, Counted
  <2>6. len = Cardinality(held) BY DEF IInv, Counted
  <2> QED BY <1>3, <1>7, <2>4, <2>5, <2>6
<1> QED BY <1>6, <1>7, <1>8, <1>10, <1>12, <1>13, <1>14 DEF IInv

\* Returning an element that is held makes it free, and no other.
LEMMA GiveBackKeeps ==
    ASSUME IInv, NEW e \in Element, GiveBack(e)
    PROVE  IInv'
<1>1. PICK s \in Orders : Linked(s) /\ \E k \in 1 .. Size + 1 : Split(s, k)
  BY DEF IInv
<1>2. PICK k \in 1 .. Size + 1 : Split(s, k) BY <1>1
<1>3. PICK p \in Element : s[p] = e BY DEF Orders
<1>4. Size \in Nat /\ Size >= 2 /\ NULL \notin Element
      /\ LenWidth \in Nat /\ LenWidth > Size
  BY ListAssumption
<1>5. p \in Nat /\ 1 <= p /\ p <= Size BY <1>4 DEF Element
<1>6. /\ \A i \in Element : s[i] \in Element
      /\ \A i, j \in Element : s[i] = s[j] => i = j
  BY DEF Orders
<1> DEFINE t == Moved(s, p)
<1>7. t \in Orders /\ Linked(t)' /\ end' = e
  BY <1>1, <1>3, MovedOrder, MoveToEndLinks DEF GiveBack
<1>8. \A i \in Element :
         t[i] = IF i < p THEN s[i] ELSE IF i < Size THEN s[i + 1] ELSE s[p]
  BY DEF Moved
<1> HIDE DEF t
<1>9. /\ new' = IF new = NULL THEN e ELSE new
      /\ held' = held \ {e} /\ misused' = (misused \/ e \notin held)
      /\ len' = (len - 1) % LenWidth
  BY <1>7 DEF GiveBack, NewAfter
<1>10. new = IF k = Size + 1 THEN NULL ELSE s[k] BY <1>2 DEF Split
<1>11. k # Size + 1 => k \in Element /\ s[k] \in Element /\ s[k] # NULL
  BY <1>4, <1>6 DEF Element
<1>12. \E m \in 1 .. Size + 1 : new' = IF m = Size + 1 THEN NULL ELSE t[m]
  <2>1. t[Size] = e /\ Size # Size + 1 /\ Size \in 1 .. Size + 1
    BY <1>3, <1>4, <1>5, <1>8 DEF Element
  <2>2. CASE k = Size + 1 \/ k = p
    <3>1. new' = e BY <1>3, <1>9, <1>10, <2>2
    <3> QED BY <2>1, <3>1
  <2>3. CASE k # Size + 1 /\ k < p
    <3>1. new' = t[k] BY <1>8, <1>9, <1>10, <1>11, <2>3
    <3> QED BY <2>3, <3>1
  <2>4. CASE k # Size + 1 /\ k > p
    <3>1. /\ k - 1 \in Element /\ ~(k - 1 < p) /\ k - 1 < Size
          /\ (k - 1) + 1 = k /\ k - 1 \in 1 .. Size + 1 /\ k - 1 # Size + 1
      BY <1>4, <1>5, <1>11, <2>4 DEF Element
    <3>2. new' = t[k - 1] BY <1>8, <1>9, <1>10, <1>11, <2>4, <3>1
    <3> QED BY <3>1, <3>2
  <2> QED BY <1>4, <1>5, <2>2, <2>3, <2>4
<1>13. ASSUME ~misused'
       PROVE  /\ e \in held /\ ~misused
              /\ k > 1 /\ new' = t[k - 1] /\ held' = {t[i] : i \in 1 .. k - 2}
  <2>1. e \in held /\ ~misused BY <1>9, <1>13 DEF IInv
  <2>2. held = {s[i] : i \in 1 .. k - 1} BY <1>2, <2>1 DEF Split
  <2>3. p < k
    <3>1. PICK i \in 1 .. k - 1 : e = s[i] BY <2>1, <2>2
    <3>2. i \in Element BY <1>4 DEF Element
    <3>3. i = p BY <1>3, <1>6, <3>1, <3>2
    <3> QED BY <3>3
  <2>4. new' = t[k - 1]
    <3>1. k - 1 \in Element /\ ~(k - 1 < p) /\ (k - 1) + 1 = k
          /\ (k - 1 < Size <=> k # Size + 1)
      BY <1>4, <1>5, <2>3 DEF Element
    <3> QED BY <1>3, <1>8, <1>9, <1>10, <1>11, <3>1
  <2>5. ASSUME NEW x \in held' PROVE \E i \in 1 .. k - 2 : t[i] = x
    <3>1. x \in held /\ x # e BY <1>9
    <3>2. PICK i \in 1 .. k - 1 : x = s[i] BY <2>2, <3>1
    <3>3. i # p /\ i \in Element BY <1>3, <1>4, <3>1, <3>2 DEF Element
    <3>4. CASE i < p
      <4>1. i \in 1 .. k - 2 /\ t[i] = x BY <1>8, <2>3, <3>2, <3>3, <3>4
      <4> QED BY <4>1
    <3>5. CASE i > p
      <4>1. /\ i - 1 \in 1 .. k - 2 /\ i - 1 \in Element /\ ~(i - 1 < p)
            /\ i - 1 < Size /\ (i - 1) + 1 = i
        BY <1>4, <1>5, <3>2, <3>3, <3>5 DEF Element
      <4>2. t[i - 1] = x BY <1>8, <3>2, <4>1
      <4> QED BY <4>1, <4>2
    <3> QED BY <1>5, <3>3, <3>4, <3>5
  <2>6. ASSUME NEW i \in 1 .. k - 2 PROVE t[i] \in held'
    <3>1. i \in Element /\ i + 1 \in Element /\ i < Size
          /\ i \in 1 .. k - 1 /\ i + 1 \in 1 .. k - 1
      BY <1>4 DEF Element
    <3>2. CASE i < p
      <4>1. t[i] = s[i] /\ s[i] # e BY <1>3, <1>6, <1>8, <3>1, <3>2
      <4> QED BY <1>9, <2>2, <3>1, <4>1
    <3>3. CASE ~(i < p)
      <4>1. t[i] = s[i + 1] /\ i + 1 # p BY <1>5, <1>8, <3>1, <3>3
      <4>2. s[i + 1] # e BY <1>3, <1>6, <3>1, <4>1
      <4> QED BY <1>9, <2>2, <3>1, <4>1, <4>2
    <3> QED BY <3>2, <3>3
  <2>7. held' = {t[i] : i \in 1 .. k - 2} BY <2>5, <2>6
  <2>8. k > 1 BY <1>5, <2>3
  <2> QED BY <2>1, <2>4, <2>7, <2>8
<1>14. \E m \in 1 .. Size + 1 : Split(t, m)'
  <2>1. CASE misused'
    <3>1. PICK m \in 1 .. Size + 1 : new' = IF m = Size + 1 THEN NULL ELSE t[m]
      BY <1>12
    <3> QED BY <2>1, <3>1 DEF Split
  <2>2. CASE ~misused'
    <3>1. k - 1 \in 1 .. Size + 1 /\ k - 1 # Size + 1 /\ (k - 1) - 1 = k - 2
      BY <1>4, <1>13, <2>2
    <3>2. Split(t, k - 1)' BY <1>13, <2>2, <3>1 DEF Split
    <3> QED BY <3>1, <3>2
  <2> QED BY <2>1, <2>2
<1>15. Counted'
  <2> SUFFICES ASSUME ~misused' PROVE len' = Cardinality(held')
    BY DEF Counted
  <2>1. e \in held /\ ~misused BY <1>13
  <2>2. IsFiniteSet(Element) /\ Cardinality(Element) = Size
    BY <1>4, FS_Interval DEF Element
  <2>3. IsFiniteSet(held) /\ Cardinality(held) <= Size /\ Cardinality(held) \in Nat
    BY <2>2, FS_Subset, FS_CardinalityType DEF IInv
  <2>4. Cardinality(held') = Cardinality(held) - 1 /\ Cardinality(held') \in Nat
    BY <1>9, <2>1, <2>3, FS_RemoveElement, FS_CardinalityType
  <2>5. len = Cardinality(held) BY <2>1 DEF IInv, Counted
  <2> QED BY <1>4, <1>9, <2>3, <2>4, <2>5
<1>16. held' \subseteq Element /\ misused' \in BOOLEAN BY <1>9 DEF IInv
<1> QED BY <1>7, <1>14, <1>15, <1>16 DEF IInv

\* Every step keeps the invariant.
LEMMA NextIInv == IInv /\ [Next]_vars => IInv'
<1> SUFFICES ASSUME IInv, [Next]_vars PROVE IInv' OBVIOUS
<1>1. CASE UNCHANGED vars
  BY <1>1 DEF vars, pointers, IInv, Linked, Split, Counted
<1>2. CASE Get_NewElmt BY <1>2, GetKeeps
<1>3. CASE Get_NewElmt_Full
  BY <1>3 DEF Get_NewElmt_Full, pointers, IInv, Linked, Split, Counted
<1>4. CASE \E e \in Element : GiveBack(e) BY <1>4, GiveBackKeeps
<1> QED BY <1>1, <1>2, <1>3, <1>4 DEF Next

\* The invariant holds throughout.
LEMMA AlwaysIInv == Spec => []IInv
<1> QED BY InitIInv, NextIInv, PTL DEF Spec

-----------------------------------------------------------------------------
(* The list the pointers stand for *)

\* Walking along m_pNext from m_pBegin meets the elements in the order in
\* which they are linked: no first place of the walk differs from that order.
LEMMA ChainIs == \A s \in Orders : Linked(s) => Chain = s
<1> SUFFICES ASSUME NEW s \in Orders, Linked(s) PROVE Chain = s
  OBVIOUS
<1> DEFINE C == CHOOSE f : f = [n \in Element |->
                                  IF n = 1 THEN begin ELSE next[f[n - 1]]]
<1>1. Size \in Nat /\ s \in [Element -> Element] BY ListAssumption DEF Orders
<1>2. ASSUME NEW n \in Element, n # 1
      PROVE  n - 1 \in Element /\ n - 1 # Size /\ (n - 1) + 1 = n
  BY <1>1, <1>2 DEF Element
<1>3. ASSUME NEW n \in Element
      PROVE  s[n] = IF n = 1 THEN begin ELSE next[s[n - 1]]
  BY <1>2 DEF Linked
<1>4. s = [n \in Element |-> IF n = 1 THEN begin ELSE next[s[n - 1]]]
  BY <1>1, <1>3
<1>5. C = [n \in Element |-> IF n = 1 THEN begin ELSE next[C[n - 1]]] BY <1>4
<1>6. Chain = C BY DEF Chain
<1> HIDE DEF C
<1> DEFINE T == {n \in Element : C[n] # s[n]}
<1>7. T = {}
  <2> SUFFICES ASSUME T # {} PROVE FALSE OBVIOUS
  <2>1. T \subseteq Nat BY <1>1 DEF Element
  <2>2. PICK n \in T : \A m \in T : n <= m BY <2>1, Least
  <2>3. n \in Element /\ C[n] # s[n] OBVIOUS
  <2>4. n # 1
    <3> SUFFICES ASSUME n = 1 PROVE FALSE OBVIOUS
    <3> QED BY <1>3, <1>5, <2>3
  <2>5. n - 1 \in Element BY <1>2, <2>3, <2>4
  <2>6. C[n - 1] = s[n - 1]
    <3>1. n \in Nat /\ ~(n <= n - 1) BY <2>1
    <3>2. n - 1 \notin T BY <2>2, <3>1
    <3> QED BY <2>5, <3>2
  <2>7. C[n] = next[C[n - 1]] BY <1>5, <2>3, <2>4
  <2>8. s[n] = next[s[n - 1]] BY <1>3, <2>3, <2>4
  <2> QED BY <2>3, <2>6, <2>7, <2>8
<1>8. \A n \in Element : C[n] = s[n] BY <1>7
<1> HIDE DEF T
<1> QED BY <1>1, <1>5, <1>6, <1>8

\* The list that the pointers stand for is that order.
LEMMA ListIs ==
    \A s \in Orders : Linked(s) => List = [order |-> s, new |-> new, len |-> len]
<1> SUFFICES ASSUME NEW s \in Orders, Linked(s)
             PROVE  List = [order |-> s, new |-> new, len |-> len]
  OBVIOUS
<1>1. Chain = s BY ChainIs
<1>2. s = [n \in Element |-> s[n]] BY DEF Orders
<1> QED BY <1>1, <1>2 DEF List

\* The places of a list without repetition.
LEMMA PlaceIs ==
    ASSUME NEW s \in Orders, NEW L, L.order = s
    PROVE  /\ s \in Seq(Element) /\ Len(s) = Size /\ DOMAIN s = Element
           /\ \A i \in Element : Place(L, s[i]) = i
<1>1. Size \in Nat BY ListAssumption
<1>2. s \in [1 .. Size -> Element] BY DEF Orders, Element
<1>3. s \in Seq(Element) /\ Len(s) = Size
  <2>1. \A i \in 1 .. Size : s[i] \in Element BY <1>2
  <2>2. s = [i \in 1 .. Size |-> s[i]] BY <1>2
  <2> QED BY <1>1, <1>2
<1>4. DOMAIN s = Element BY DEF Orders
<1>5. ASSUME NEW i \in Element PROVE Place(L, s[i]) = i
  <2> DEFINE j == CHOOSE k \in DOMAIN s : s[k] = s[i]
  <2>1. j \in Element /\ s[j] = s[i] BY <1>4
  <2>2. Place(L, s[i]) = j BY DEF Place
  <2> HIDE DEF j
  <2> QED BY <2>1, <2>2 DEF Orders
<1> QED BY <1>3, <1>4, <1>5

\* MoveToEnd of the list puts the elements in the order Moved.
LEMMA MoveToEndIs ==
    ASSUME NEW s \in Orders, NEW p \in Element, NEW n, NEW m
    PROVE  MoveToEnd([order |-> s, new |-> n, len |-> m], s[p])
             = [order |-> Moved(s, p), new |-> IF n = NULL THEN s[p] ELSE n,
                len |-> (m - 1) % LenWidth]
<1> DEFINE L == [order |-> s, new |-> n, len |-> m]
           r == RemoveAt(s, p)
           a == Append(r, s[p])
           t == Moved(s, p)
<1>1. /\ s \in Seq(Element) /\ Len(s) = Size /\ DOMAIN s = Element
      /\ \A i \in Element : Place(L, s[i]) = i
  BY PlaceIs
<1>2. Size \in Nat /\ Size >= 2 /\ s[p] \in Element /\ p \in 1 .. Size
  BY ListAssumption DEF Orders, Element
<1>3. /\ r \in Seq(Element) /\ Len(r) = Size - 1
      /\ \A i \in 1 .. Size - 1 : r[i] = IF i < p THEN s[i] ELSE s[i + 1]
  BY <1>1, RemoveAtProperties
<1>4. Place(L, s[p]) = p BY <1>1
<1>5. MoveToEnd(L, s[p]) = [order |-> a, new |-> IF n = NULL THEN s[p] ELSE n,
                            len |-> (m - 1) % LenWidth]
  BY <1>4 DEF MoveToEnd
<1> HIDE DEF r
<1>6. /\ a \in Seq(Element) /\ Len(a) = Size
      /\ \A i \in 1 .. Size - 1 : a[i] = r[i]
      /\ a[Size] = s[p]
  BY <1>2, <1>3, AppendProperties
<1>7. DOMAIN a = 1 .. Size BY <1>6, LenProperties
<1>8. t \in Orders /\ \A i \in Element :
         t[i] = IF i < p THEN s[i] ELSE IF i < Size THEN s[i + 1] ELSE s[p]
  BY MovedOrder DEF Moved
<1>9. t \in Seq(Element) /\ Len(t) = Size /\ DOMAIN t = Element
  <2>1. [order |-> t].order = t OBVIOUS
  <2> HIDE DEF t
  <2> QED BY <1>8, <2>1, PlaceIs
<1> HIDE DEF a, t
<1>10. ASSUME NEW i \in 1 .. Size PROVE a[i] = t[i]
  <2>1. CASE i < Size
    <3>1. i \in 1 .. Size - 1 BY <1>2, <2>1
    <3> QED BY <1>3, <1>6, <1>8, <2>1, <3>1 DEF Element
  <2>2. CASE i = Size
    <3>1. ~(i < p) /\ ~(i < Size) BY <1>2, <2>2
    <3> QED BY <1>2, <1>6, <1>8, <2>2, <3>1 DEF Element
  <2> QED BY <1>2, <2>1, <2>2
<1>11. a = t
  <2>1. \A i \in 1 .. Len(a) : a[i] = t[i] BY <1>6, <1>10
  <2>2. Len(a) = Len(t) BY <1>6, <1>9
  <2> QED BY <1>6, <1>9, <2>1, <2>2, SeqEqual
<1> QED BY <1>5, <1>11 DEF t

-----------------------------------------------------------------------------
(* The theorems *)

\* m_len is the number of elements handed out and not returned.
THEOREM LenIsHeld == Spec => []LenCounts
<1>1. IInv => LenCounts BY DEF IInv, Counted, LenCounts
<1> QED BY <1>1, AlwaysIInv, PTL

\* The pointers implement the pool: as long as callers return what they hold,
\* an element that is held is never handed out again, and NULL is returned
\* only when all are held.
THEOREM ListIsPool == Spec => IsPool
<1> DEFINE Kept == ~misused' => Promise!PoolNext
<1>1. Init => Promise!PoolInit BY DEF Init, Promise!PoolInit
<1>2. IInv /\ [Next]_vars => [Kept]_<<held, refused>>
  <2> SUFFICES ASSUME IInv, [Next]_vars, ~misused'
               PROVE  Promise!PoolNext \/ UNCHANGED <<held, refused>>
    OBVIOUS
  <2>1. CASE UNCHANGED vars BY <2>1 DEF vars
  <2>2. CASE Get_NewElmt
    <3>1. new \in Element \ held /\ held' = held \cup {new} /\ refused' = FALSE
      BY <2>2, GetKeeps DEF Get_NewElmt
    <3> QED BY <3>1 DEF Promise!PoolNext, Promise!Take
  <2>3. CASE Get_NewElmt_Full
    <3>1. new = NULL /\ refused' = TRUE /\ held' = held /\ ~misused
      BY <2>3 DEF Get_NewElmt_Full
    <3>2. held = Element
      <4>1. PICK s \in Orders : \E k \in 1 .. Size + 1 : Split(s, k) BY DEF IInv
      <4>2. PICK k \in 1 .. Size + 1 : Split(s, k) BY <4>1
      <4>3. Size \in Nat /\ NULL \notin Element BY ListAssumption
      <4>4. k = Size + 1
        <5>1. CASE k # Size + 1
          <6>1. k \in Element BY <4>3, <5>1 DEF Element
          <6>2. s[k] \in Element BY <6>1 DEF Orders
          <6> QED BY <3>1, <4>2, <4>3, <5>1, <6>2 DEF Split
        <5> QED BY <5>1
      <4>5. held = {s[i] : i \in Element}
        BY <3>1, <4>2, <4>3, <4>4 DEF Split, Element
      <4> QED BY <4>5 DEF Orders
    <3> QED BY <3>1, <3>2 DEF Promise!PoolNext, Promise!Refuse
  <2>4. ASSUME NEW e \in Element, GiveBack(e)
        PROVE  Promise!PoolNext
    <3>1. e \in held /\ held' = held \ {e} /\ refused' = refused
      BY <2>4 DEF GiveBack
    <3> QED BY <3>1 DEF Promise!PoolNext, Promise!GiveBack
  <2> QED BY <2>1, <2>2, <2>3, <2>4 DEF Next
<1> QED BY <1>1, <1>2, AlwaysIInv, PTL DEF Spec, IsPool

\* Relinking loses no element and makes no loop: from m_pBegin along m_pNext
\* every element is met once, m_pEnd last, and m_pPrev leads the same way back.
THEOREM ChainWellLinked == Spec => []WellLinked
<1>1. IInv => WellLinked
  <2> SUFFICES ASSUME IInv PROVE WellLinked OBVIOUS
  <2>1. PICK s \in Orders : Linked(s) /\ \E k \in 1 .. Size + 1 : Split(s, k)
    BY DEF IInv
  <2>2. PICK k \in 1 .. Size + 1 : Split(s, k) BY <2>1
  <2>3. Size \in Nat /\ Size >= 2 /\ 1 \in Element /\ Size \in Element
    BY ListAssumption DEF Element
  <2>4. Chain = s BY <2>1, ChainIs
  <2>5. s \in [Element -> Element] /\ \A e \in Element : \E i \in Element : s[i] = e
    BY DEF Orders
  <2>6. {Chain[n] : n \in Element} = Element BY <2>4, <2>5
  <2>7. Chain[Size] = end /\ next[end] = NULL /\ prev[begin] = NULL
    BY <2>1, <2>3, <2>4 DEF Linked
  <2>8. \A n \in 2 .. Size : prev[Chain[n]] = Chain[n - 1]
    <3>1. \A n \in 2 .. Size : n \in Element /\ n # 1 BY <2>3 DEF Element
    <3> QED BY <2>1, <2>4, <3>1 DEF Linked
  <2>9. new \in Element \cup {NULL}
    <3>1. k # Size + 1 => k \in Element BY <2>3 DEF Element
    <3> QED BY <2>2, <2>5, <3>1 DEF Split
  <2> QED BY <2>6, <2>7, <2>8, <2>9 DEF WellLinked
<1> QED BY <1>1, AlwaysIInv, PTL

\* From m_pNewElmt_inList on are exactly the elements the caller does not
\* hold: none in use is handed out again, none given back is lost.
THEOREM FreeOnesAreBehind == Spec => []Partition
<1>1. IInv => Partition
  <2> SUFFICES ASSUME IInv, ~misused PROVE FreeOf(List) = Element \ held
    BY DEF Partition
  <2>1. PICK s \in Orders : Linked(s) /\ \E k \in 1 .. Size + 1 : Split(s, k)
    BY DEF IInv
  <2>2. PICK k \in 1 .. Size + 1 : Split(s, k) BY <2>1
  <2>3. Size \in Nat /\ NULL \notin Element BY ListAssumption
  <2>4. List.order = s /\ List.new = new BY <2>1, ListIs
  <2>5. /\ Len(s) = Size /\ \A i \in Element : Place(List, s[i]) = i
    BY <2>4, PlaceIs
  <2>6. /\ \A i \in Element : s[i] \in Element
        /\ \A i, j \in Element : s[i] = s[j] => i = j
        /\ \A e \in Element : \E i \in Element : s[i] = e
    BY DEF Orders
  <2>7. held = {s[i] : i \in 1 .. k - 1} BY <2>2 DEF Split
  <2>8. Element \ held = {s[i] : i \in k .. Size}
    <3>1. \A i \in k .. Size : i \in Element /\ i \notin 1 .. k - 1
      BY <2>3 DEF Element
    <3>2. \A i \in 1 .. k - 1 : i \in Element BY <2>3 DEF Element
    <3>3. \A i \in Element : i \in 1 .. k - 1 \/ i \in k .. Size
      BY <2>3 DEF Element
    <3> QED BY <2>6, <2>7, <3>1, <3>2, <3>3
  <2>9. CASE k = Size + 1
    <3>1. new = NULL BY <2>2, <2>9 DEF Split
    <3>2. k .. Size = {} BY <2>3, <2>9
    <3> QED BY <2>4, <2>8, <3>1, <3>2 DEF FreeOf
  <2>10. CASE k # Size + 1
    <3>1. k \in Element /\ new = s[k] BY <2>2, <2>3, <2>10 DEF Split, Element
    <3>2. new # NULL /\ Place(List, new) = k BY <2>3, <2>5, <2>6, <3>1
    <3> QED BY <2>4, <2>5, <2>8, <3>2 DEF FreeOf
  <2> QED BY <2>9, <2>10
<1> QED BY <1>1, AlwaysIInv, PTL

\* A walk from Get_FirstEmnt to Get_LastEmnt meets the elements in use, all of
\* them and no other.
THEOREM WalkIsHeld == Spec => []WalkMeetsHeld
<1>1. IInv => WalkMeetsHeld
  <2> DEFINE first == GetFirstEmnt(List)
             last  == GetLastEmnt(List)
  <2> SUFFICES ASSUME IInv, ~misused
               PROVE  IF held = {} THEN first = NULL
                      ELSE /\ {first, last} \subseteq held
                           /\ held = {Chain[n] : n \in Place(List, first)
                                                     .. Place(List, last)}
    BY DEF WalkMeetsHeld
  <2>1. PICK s \in Orders : Linked(s) /\ \E k \in 1 .. Size + 1 : Split(s, k)
    BY DEF IInv
  <2>2. PICK k \in 1 .. Size + 1 : Split(s, k) BY <2>1
  <2>3. Size \in Nat /\ Size >= 2 /\ NULL \notin Element BY ListAssumption
  <2>4. List.order = s /\ List.new = new /\ Chain = s BY <2>1, ListIs, ChainIs
  <2>5. Len(s) = Size /\ \A i \in Element : Place(List, s[i]) = i
    BY <2>4, PlaceIs
  <2>6. /\ \A i \in Element : s[i] \in Element
        /\ \A i, j \in Element : s[i] = s[j] => i = j
    BY DEF Orders
  <2>7. held = {s[i] : i \in 1 .. k - 1} BY <2>2 DEF Split
  <2>8. 1 \in Element /\ Size \in Element BY <2>3 DEF Element
  <2>9. CASE k = 1
    <3>1. held = {} BY <2>7, <2>9
    <3>2. new = s[1] BY <2>2, <2>3, <2>9 DEF Split
    <3>3. first = NULL BY <2>4, <3>2 DEF GetFirstEmnt
    <3> QED BY <3>1, <3>3
  <2>10. CASE k # 1
    <3>1. k - 1 \in Element /\ 1 \in 1 .. k - 1 /\ k - 1 \in 1 .. k - 1
      BY <2>3, <2>10 DEF Element
    <3>2. s[1] \in held /\ s[k - 1] \in held BY <2>7, <3>1
    <3>3. first = s[1]
      <4>1. CASE k = Size + 1
        <5>1. new = NULL BY <2>2, <4>1 DEF Split
        <5> QED BY <2>3, <2>4, <2>6, <2>8, <5>1 DEF GetFirstEmnt
      <4>2. CASE k # Size + 1
        <5>1. k \in Element /\ new = s[k] BY <2>2, <2>3, <4>2 DEF Split, Element
        <5>2. new # s[1] BY <2>6, <2>8, <2>10, <5>1
        <5> QED BY <2>4, <5>2 DEF GetFirstEmnt
      <4> QED BY <4>1, <4>2
    <3>4. last = s[k - 1]
      <4>1. CASE k = Size + 1
        <5>1. new = NULL BY <2>2, <4>1 DEF Split
        <5>2. k - 1 = Size BY <2>3, <4>1
        <5> QED BY <2>4, <2>5, <5>1, <5>2 DEF GetLastEmnt
      <4>2. CASE k # Size + 1
        <5>1. k \in Element /\ new = s[k] BY <2>2, <2>3, <4>2 DEF Split, Element
        <5>2. Place(List, new) = k /\ new # NULL BY <2>3, <2>5, <2>6, <5>1
        <5> QED BY <2>4, <2>10, <5>2 DEF GetLastEmnt
      <4> QED BY <4>1, <4>2
    <3>5. Place(List, first) = 1 /\ Place(List, last) = k - 1
      BY <2>5, <2>8, <3>1, <3>3, <3>4
    <3> HIDE DEF first, last
    <3> QED BY <2>4, <2>7, <3>2, <3>3, <3>4, <3>5
  <2> QED BY <2>9, <2>10
<1> QED BY <1>1, AlwaysIInv, PTL

\* Whatever is given back, held or not, the pointers do what Get_NewElmt and
\* MoveToEnd do to the list that the model of the server works on.
THEOREM PointersImplementList == Spec => ImplementsList
<1> DEFINE Step == \/ List' = GetNewElmt(List)
                   \/ \E e \in Element : e \notin held' /\ List' = MoveToEnd(List, e)
<1>1. Init => List = NewList(Size)
  <2> SUFFICES ASSUME Init PROVE List = NewList(Size) OBVIOUS
  <2> DEFINE s == [i \in Element |-> i]
  <2>1. Size \in Nat /\ Size >= 2 /\ 1 \in Element /\ Size \in Element
        /\ NULL \notin Element
    BY ListAssumption DEF Element
  <2>2. s \in Orders BY DEF Orders
  <2>3. Linked(s)
    <3>1. ASSUME NEW i \in Element
          PROVE  /\ next[s[i]] = IF i = Size THEN NULL ELSE s[i + 1]
                 /\ prev[s[i]] = IF i = 1 THEN NULL ELSE s[i - 1]
      BY <2>1 DEF Init, Element
    <3>2. /\ next \in [Element -> Element \cup {NULL}]
          /\ prev \in [Element -> Element \cup {NULL}]
      BY <2>1 DEF Init, Element
    <3> QED BY <2>1, <3>1, <3>2 DEF Init, Linked
  <2>4. List = [order |-> s, new |-> new, len |-> len]
    <3> HIDE DEF s
    <3> QED BY <2>2, <2>3, ListIs
  <2> QED BY <2>4 DEF Init, NewList, Element
<1>2. (\A s \in Orders : Linked(s) => List = [order |-> s, new |-> new, len |-> len])'
  BY ListIs, PTL
<1>3. ASSUME NEW s \in Orders, Linked(s)'
      PROVE  List' = [order |-> s, new |-> new', len |-> len']
  BY <1>2, <1>3
<1>4. IInv /\ [Next]_vars => [Step]_vars
  <2> SUFFICES ASSUME IInv, Next PROVE Step OBVIOUS
  <2>1. PICK s \in Orders : Linked(s) /\ \E k \in 1 .. Size + 1 : Split(s, k)
    BY DEF IInv
  <2>2. PICK k \in 1 .. Size + 1 : Split(s, k) BY <2>1
  <2>3. Size \in Nat /\ NULL \notin Element BY ListAssumption
  <2>4. List = [order |-> s, new |-> new, len |-> len] BY <2>1, ListIs
  <2>5. Len(s) = Size /\ \A i \in Element : Place(List, s[i]) = i
    BY <2>4, PlaceIs
  <2>6. ASSUME UNCHANGED pointers
        PROVE  List' = [order |-> s, new |-> new', len |-> len']
    <3>1. Linked(s)' BY <2>1, <2>6 DEF Linked, pointers
    <3> QED BY <1>3, <3>1
  <2>7. CASE Get_NewElmt
    <3>1. /\ new # NULL /\ UNCHANGED pointers /\ new' = next[new]
          /\ len' = (len + 1) % LenWidth
      BY <2>7 DEF Get_NewElmt
    <3>2. k \in Element /\ new = s[k]
      BY <2>2, <2>3, <3>1 DEF Split, Element
    <3>3. Place(List, new) = k BY <2>5, <3>2
    <3>4. new' = IF k = Size THEN NULL ELSE s[k + 1]
      BY <2>1, <3>1, <3>2 DEF Linked
    <3>5. Following(List, new) = new' BY <2>4, <2>5, <3>3, <3>4 DEF Following
    <3>6. GetNewElmt(List) = [order |-> s, new |-> new', len |-> len']
      BY <2>4, <3>1, <3>5 DEF GetNewElmt
    <3> QED BY <2>6, <3>1, <3>6
  <2>8. CASE Get_NewElmt_Full
    <3>1. new = NULL /\ UNCHANGED <<pointers, new, len>>
      BY <2>8 DEF Get_NewElmt_Full
    <3>2. List' = List BY <2>4, <2>6, <3>1
    <3>3. GetNewElmt(List) = List BY <2>4, <3>1 DEF GetNewElmt
    <3> QED BY <3>2, <3>3
  <2>9. ASSUME NEW e \in Element, GiveBack(e) PROVE Step
    <3>1. PICK p \in Element : s[p] = e BY DEF Orders
    <3>2. Linked(Moved(s, p))' /\ end' = e
      BY <2>1, <2>9, <3>1, MoveToEndLinks DEF GiveBack
    <3>3. Moved(s, p) \in Orders BY MovedOrder
    <3>4. List' = [order |-> Moved(s, p), new |-> new', len |-> len']
      BY <1>3, <3>2, <3>3
    <3>5. new' = (IF new = NULL THEN e ELSE new) /\ len' = (len - 1) % LenWidth
          /\ e \notin held'
      BY <2>9, <3>2 DEF GiveBack, NewAfter
    <3>6. MoveToEnd(List, s[p])
            = [order |-> Moved(s, p), new |-> IF new = NULL THEN s[p] ELSE new,
               len |-> (len - 1) % LenWidth]
      BY <2>4, MoveToEndIs
    <3>7. List' = MoveToEnd(List, e) BY <3>1, <3>4, <3>5, <3>6
    <3> QED BY <3>5, <3>7
  <2> QED BY <2>7, <2>8, <2>9 DEF Next
<1> QED BY <1>1, <1>4, AlwaysIInv, PTL DEF Spec, ImplementsList
=============================================================================
