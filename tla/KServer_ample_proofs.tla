------------------------- MODULE KServer_ample_proofs -------------------------
(***************************************************************************)
(* Theorems about the pool of clients, for every value of the constants    *)
(* with which it has clients to spare: each client is open, set aside or   *)
(* free; an open one has one operation; and the handlers left over from a  *)
(* closed connection find their client free.                               *)
(*                                                                         *)
(* That last one is about time: a recycled client goes to the end of the   *)
(* free ones, and its left-over handlers must run before it is handed out  *)
(* again.  The invariant counts, for each such handler, the accepts that   *)
(* can still run before it is gone (Rounds), and says that more free       *)
(* clients than that are ahead of its client (LateFew).                    *)
(***************************************************************************)
EXTENDS KServer_proofs, FunctionTheorems

(* Lists without repetition *)

\* Every element is once in the list.
Once(L) == \A i, j \in DOMAIN L.order : L.order[i] = L.order[j] => i = j
Perms(S) == {L \in Lists(S) : Once(L)}

\* The place where the free elements begin, and how many there are.
FirstFree(L) == IF L.new = NULL THEN Len(L.order) + 1 ELSE List!Place(L, L.new)
Spare(L)     == Len(L.order) + 1 - FirstFree(L)

\* How many elements Get_NewElmt hands out before e; negative if e is not free.
Ahead(L, e) == List!Place(L, e) - FirstFree(L)

\* An element is found in its only place.
LEMMA PlaceOnce ==
    ASSUME NEW S, NEW L \in Perms(S)
    PROVE  /\ L \in Lists(S) /\ Len(L.order) \in Nat
           /\ DOMAIN L.order = 1 .. Len(L.order)
           /\ \A i \in DOMAIN L.order :
                 L.order[i] \in S /\ List!Place(L, L.order[i]) = i
           /\ \A e \in S : /\ List!Place(L, e) \in 1 .. Len(L.order)
                           /\ L.order[List!Place(L, e)] = e
<1>1. L \in Lists(S) /\ L.order \in Seq(S) BY DEF Perms, Lists, Orders
<1>2. Len(L.order) \in Nat /\ DOMAIN L.order = 1 .. Len(L.order)
      /\ \A i \in DOMAIN L.order : L.order[i] \in S
  BY <1>1, LenProperties, ElementOfSeq
<1>3. \A e \in S : /\ List!Place(L, e) \in DOMAIN L.order
                   /\ L.order[List!Place(L, e)] = e
  BY <1>1, PlaceIs
<1>4. \A i \in DOMAIN L.order : List!Place(L, L.order[i]) = i
  BY <1>2, <1>3 DEF Perms, Once
<1> QED BY <1>1, <1>2, <1>3, <1>4

\* The order of the free elements.
LEMMA AheadIs ==
    ASSUME NEW S, NULL \notin S, NEW L \in Perms(S)
    PROVE  /\ FirstFree(L) \in 1 .. Len(L.order) + 1 /\ Spare(L) \in Nat
           /\ L.new = NULL <=> Spare(L) = 0
           /\ L.new # NULL => L.new \in S /\ Ahead(L, L.new) = 0
           /\ \A e \in S : Ahead(L, e) \in Int /\ Ahead(L, e) < Spare(L)
           /\ \A d, e \in S : Ahead(L, d) = Ahead(L, e) => d = e
           /\ List!FreeOf(L) = {e \in S : Ahead(L, e) >= 0}
<1> DEFINE n == Len(L.order)
           f == FirstFree(L)
<1>1. /\ L \in Lists(S) /\ n \in Nat /\ DOMAIN L.order = 1 .. n
      /\ \A i \in 1 .. n : L.order[i] \in S /\ List!Place(L, L.order[i]) = i
      /\ \A e \in S : List!Place(L, e) \in 1 .. n /\ L.order[List!Place(L, e)] = e
  BY PlaceOnce
<1>2. L.new \in S \cup {NULL} BY <1>1 DEF Lists
<1>3. f \in 1 .. n + 1 /\ (L.new = NULL <=> f = n + 1)
  <2>1. CASE L.new = NULL BY <1>1, <2>1 DEF FirstFree
  <2>2. CASE L.new # NULL
    <3>1. f = List!Place(L, L.new) /\ L.new \in S BY <1>2, <2>2 DEF FirstFree
    <3>2. f \in 1 .. n BY <1>1, <3>1
    <3> QED BY <1>1, <2>2, <3>2
  <2> QED BY <2>1, <2>2
<1>4. L.new # NULL => L.new \in S /\ Ahead(L, L.new) = 0
  <2> SUFFICES ASSUME L.new # NULL PROVE L.new \in S /\ Ahead(L, L.new) = 0
    OBVIOUS
  <2>1. L.new \in S /\ f = List!Place(L, L.new) BY <1>2 DEF FirstFree
  <2> QED BY <1>1, <2>1 DEF Ahead
<1>5. List!FreeOf(L) = {e \in S : Ahead(L, e) >= 0}
  <2>1. CASE L.new = NULL
    <3>1. \A e \in S : ~(Ahead(L, e) >= 0) BY <1>1, <1>3, <2>1 DEF Ahead
    <3> QED BY <2>1, <3>1 DEF List!FreeOf
  <2>2. CASE L.new # NULL
    <3>1. f = List!Place(L, L.new) BY <2>2 DEF FirstFree
    <3>2. List!FreeOf(L) = {L.order[i] : i \in f .. n}
      BY <2>2, <3>1 DEF List!FreeOf
    <3> HIDE DEF n, f
    <3>3. ASSUME NEW i \in f .. n
          PROVE  L.order[i] \in S /\ Ahead(L, L.order[i]) >= 0
      <4>1. i \in 1 .. n BY <1>1, <1>3
      <4> QED BY <1>1, <1>3, <4>1 DEF Ahead, f
    <3>4. ASSUME NEW e \in S, Ahead(L, e) >= 0
          PROVE  e \in {L.order[i] : i \in f .. n}
      <4>1. List!Place(L, e) \in f .. n BY <1>1, <1>3, <3>4 DEF Ahead, f
      <4> QED BY <1>1, <4>1
    <3> QED BY <3>2, <3>3, <3>4
  <2> QED BY <2>1, <2>2
<1>6. \A e \in S : Ahead(L, e) \in Int /\ Ahead(L, e) < Spare(L)
  BY <1>1, <1>3 DEF Ahead, Spare
<1>7. \A d, e \in S : Ahead(L, d) = Ahead(L, e) => d = e
  <2> SUFFICES ASSUME NEW d \in S, NEW e \in S, Ahead(L, d) = Ahead(L, e)
               PROVE  d = e
    OBVIOUS
  <2> DEFINE x == List!Place(L, d)
             y == List!Place(L, e)
  <2>1. x \in 1 .. n /\ y \in 1 .. n /\ x - f = y - f BY <1>1 DEF Ahead
  <2>2. L.order[x] = d /\ L.order[y] = e BY <1>1
  <2> HIDE DEF x, y, n, f
  <2>3. x = y BY <1>3, <1>1, <2>1
  <2> QED BY <2>2, <2>3
<1>8. Spare(L) \in Nat /\ (L.new = NULL <=> Spare(L) = 0)
  BY <1>1, <1>3 DEF Spare
<1> QED BY <1>3, <1>4, <1>5, <1>6, <1>7, <1>8

\* Get_NewElmt hands out the first free element.
LEMMA TakeIs ==
    ASSUME NEW S, NULL \notin S, NEW L \in Perms(S), L.new # NULL
    PROVE  LET G == List!GetNewElmt(L)
           IN /\ G \in Perms(S)
              /\ Spare(G) = Spare(L) - 1
              /\ \A e \in S : Ahead(G, e) = Ahead(L, e) - 1
<1> DEFINE G == List!GetNewElmt(L)
           n == Len(L.order)
           k == List!Place(L, L.new)
<1>1. /\ L \in Lists(S) /\ n \in Nat /\ DOMAIN L.order = 1 .. n
      /\ \A i \in 1 .. n : L.order[i] \in S /\ List!Place(L, L.order[i]) = i
      /\ \A e \in S : List!Place(L, e) \in 1 .. n /\ L.order[List!Place(L, e)] = e
  BY PlaceOnce
<1>2. L.new \in S /\ k \in 1 .. n BY <1>1 DEF Lists
<1>3. G \in Lists(S) BY <1>1, GetNewElmtKeeps
<1>4. G = [L EXCEPT !.new = IF k = n THEN NULL ELSE L.order[k + 1],
                    !.len = (L.len + 1) % 65536]
  BY DEF List!GetNewElmt, List!Following
<1>5. /\ G.order = L.order
      /\ G.new = IF k = n THEN NULL ELSE L.order[k + 1]
  BY <1>1, <1>4 DEF Lists
<1> HIDE DEF G
<1>6. G \in Perms(S) BY <1>3, <1>5 DEF Perms, Once
<1>7. \A e : List!Place(G, e) = List!Place(L, e) BY <1>5 DEF List!Place
<1>8. FirstFree(L) = k BY DEF FirstFree
<1>9. FirstFree(G) = k + 1
  <2> HIDE DEF k, n
  <2>1. CASE k = n BY <1>5, <2>1 DEF FirstFree, n
  <2>2. CASE k # n
    <3>1. k + 1 \in 1 .. n BY <1>1, <1>2, <2>2
    <3>2. L.order[k + 1] \in S /\ List!Place(L, L.order[k + 1]) = k + 1
      BY <1>1, <3>1
    <3>3. G.new = L.order[k + 1] /\ G.new # NULL BY <1>5, <2>2, <3>2
    <3> QED BY <1>7, <3>2, <3>3 DEF FirstFree
  <2> QED BY <2>1, <2>2
<1>10. Spare(G) = Spare(L) - 1
  <2>1. Spare(G) = Len(G.order) + 1 - FirstFree(G)
        /\ Spare(L) = Len(L.order) + 1 - FirstFree(L)
        /\ Len(G.order) = Len(L.order)
    BY <1>5 DEF Spare
  <2>2. \A a, b \in Int : a + 1 - (b + 1) = (a + 1 - b) - 1 OBVIOUS
  <2>3. Len(L.order) \in Int /\ k \in Int BY <1>1, <1>2
  <2> HIDE DEF k, n
  <2> QED BY <1>8, <1>9, <2>1, <2>2, <2>3
<1> HIDE DEF k, n
<1>11. \A e \in S : Ahead(G, e) = Ahead(L, e) - 1
  BY <1>1, <1>2, <1>7, <1>8, <1>9 DEF Ahead
<1> QED BY <1>6, <1>10, <1>11 DEF G

\* Where MoveToEnd puts the elements.
LEMMA MoveIs ==
    ASSUME NEW S, NULL \notin S, NEW L \in Perms(S), NEW e \in S
    PROVE  LET M == List!MoveToEnd(L, e)
               k == List!Place(L, e)
           IN /\ M \in Perms(S) /\ Len(M.order) = Len(L.order)
              /\ M.new = IF L.new = NULL THEN e ELSE L.new
              /\ List!Place(M, e) = Len(L.order)
              /\ \A x \in S : x # e =>
                    List!Place(M, x) = IF List!Place(L, x) < k
                                       THEN List!Place(L, x)
                                       ELSE List!Place(L, x) - 1
<1> DEFINE M == List!MoveToEnd(L, e)
           n == Len(L.order)
           k == List!Place(L, e)
           r == RemoveAt(L.order, k)
           o == Append(r, e)
<1>1. /\ L \in Lists(S) /\ n \in Nat /\ DOMAIN L.order = 1 .. n
      /\ \A i \in 1 .. n : L.order[i] \in S /\ List!Place(L, L.order[i]) = i
      /\ \A x \in S : List!Place(L, x) \in 1 .. n /\ L.order[List!Place(L, x)] = x
  BY PlaceOnce
<1>2. k \in 1 .. n /\ L.order[k] = e /\ L.order \in Seq(S)
  BY <1>1 DEF Lists, Orders
<1>3. M \in Lists(S) /\ M.new = IF L.new = NULL THEN e ELSE L.new
  BY <1>1, MoveToEndKeeps
<1>4. M.order = o
  <2>1. List!RemoveAt(L.order, k) = r BY DEF RemoveAt, List!RemoveAt
  <2> HIDE DEF r, k
  <2>2. M = [order |-> o, new |-> IF L.new = NULL THEN e ELSE L.new,
             len |-> (L.len - 1) % 65536]
    BY <2>1 DEF List!MoveToEnd, k
  <2> HIDE DEF M, o
  <2> QED BY <2>2
<1> HIDE DEF M, k
<1>5. /\ r \in Seq(S) /\ Len(r) = n - 1
      /\ \A i \in 1 .. n - 1 : r[i] = IF i < k THEN L.order[i] ELSE L.order[i + 1]
  <2>1. k \in DOMAIN L.order BY <1>1, <1>2
  <2> DEFINE s == L.order
  <2>2. s \in Seq(S) /\ k \in DOMAIN s BY <1>2, <2>1
  <2>3. n = Len(s) /\ r = RemoveAt(s, k) OBVIOUS
  <2> HIDE DEF s, r, n
  <2>4. /\ r \in Seq(S) /\ Len(r) = n - 1
        /\ \A i \in 1 .. n - 1 : r[i] = IF i < k THEN s[i] ELSE s[i + 1]
    BY <2>2, <2>3, RemoveAtProperties
  <2> QED BY <2>4 DEF s
<1> HIDE DEF r
<1>6. /\ Len(o) = n /\ DOMAIN o = 1 .. n /\ o[n] = e
      /\ \A i \in 1 .. n - 1 : o[i] = r[i]
  BY <1>1, <1>5, AppendProperties, LenProperties
<1> HIDE DEF o, n
<1>7. \A i \in 1 .. n : o[i] = IF i = n THEN e ELSE IF i < k THEN L.order[i]
                                                   ELSE L.order[i + 1]
  <2> SUFFICES ASSUME NEW i \in 1 .. n
               PROVE  o[i] = IF i = n THEN e ELSE IF i < k THEN L.order[i]
                                                  ELSE L.order[i + 1]
    OBVIOUS
  <2>1. CASE i = n BY <1>6, <2>1
  <2>2. CASE i # n
    <3>1. i \in 1 .. n - 1 BY <1>1, <2>2 DEF n
    <3>2. o[i] = r[i] BY <1>6, <3>1
    <3> QED BY <1>5, <2>2, <3>1, <3>2 DEF n
  <2> QED BY <2>1, <2>2
<1>8. \A i, j \in 1 .. n : L.order[i] = L.order[j] => i = j
  BY <1>1
<1>9. ASSUME NEW i \in 1 .. n, NEW j \in 1 .. n, o[i] = o[j]
      PROVE  i = j
  <2> DEFINE at(x) == IF x = n THEN k ELSE IF x < k THEN x ELSE x + 1
  <2>1. ASSUME NEW x \in 1 .. n PROVE at(x) \in 1 .. n /\ L.order[at(x)] = o[x]
    <3>1. CASE x = n BY <1>2, <1>7, <3>1
    <3>2. CASE x # n
      <4>1. n \in Nat /\ x \in 1 .. n /\ x + 1 \in 1 .. n BY <1>1, <3>2
      <4> QED BY <1>7, <3>2, <4>1
    <3> QED BY <3>1, <3>2
  <2>2. at(i) = at(j)
    <3> HIDE DEF at
    <3> QED BY <1>8, <1>9, <2>1
  <2>3. n \in Nat /\ k \in 1 .. n BY <1>1, <1>2
  <2> QED BY <2>2, <2>3
<1>10. M \in Perms(S) BY <1>3, <1>4, <1>6, <1>9 DEF Perms, Once
<1>11. \A i \in 1 .. n : List!Place(M, o[i]) = i
  BY <1>4, <1>6, <1>10, PlaceOnce
<1>12. List!Place(M, e) = n BY <1>1, <1>2, <1>6, <1>11
<1>13. ASSUME NEW x \in S, x # e
       PROVE  List!Place(M, x) = IF List!Place(L, x) < k
                                 THEN List!Place(L, x) ELSE List!Place(L, x) - 1
  <2> DEFINE j == List!Place(L, x)
  <2>1. j \in 1 .. n /\ L.order[j] = x BY <1>1
  <2> HIDE DEF j
  <2>2. j # k BY <1>2, <1>13, <2>1
  <2>3. CASE j < k
    <3>1. o[j] = x BY <1>1, <1>2, <1>7, <2>1, <2>3
    <3> QED BY <1>11, <2>1, <2>3, <3>1 DEF j
  <2>4. CASE j > k
    <3>1. j - 1 \in 1 .. n /\ j - 1 # n /\ ~(j - 1 < k) /\ (j - 1) + 1 = j
      BY <1>1, <1>2, <2>1, <2>4
    <3>2. o[j - 1] = x BY <1>7, <2>1, <3>1
    <3>3. List!Place(M, x) = j - 1 BY <1>11, <3>1, <3>2
    <3>4. ~(j < k) BY <1>2, <2>1, <2>4
    <3> QED BY <3>3, <3>4 DEF j
  <2> QED BY <1>1, <1>2, <2>1, <2>2, <2>3, <2>4
<1> QED BY <1>3, <1>4, <1>6, <1>10, <1>12, <1>13 DEF M, n, k

\* MoveToEnd of an element in use: it is free, behind those that were.
LEMMA MoveUsed ==
    ASSUME NEW S, NULL \notin S, NEW L \in Perms(S), NEW e \in S, Ahead(L, e) < 0
    PROVE  LET M == List!MoveToEnd(L, e)
           IN /\ M \in Perms(S) /\ M.new # NULL
              /\ Spare(M) = Spare(L) + 1
              /\ Ahead(M, e) = Spare(L)
              /\ \A x \in S : x # e =>
                    IF Ahead(L, x) < 0 THEN Ahead(M, x) < 0
                                       ELSE Ahead(M, x) = Ahead(L, x)
<1> DEFINE M == List!MoveToEnd(L, e)
           n == Len(L.order)
           k == List!Place(L, e)
           f == FirstFree(L)
<1>1. /\ n \in Nat /\ \A x \in S : List!Place(L, x) \in 1 .. n BY PlaceOnce
<1>2. /\ f \in 1 .. n + 1 /\ (L.new # NULL => L.new \in S)
  BY AheadIs
<1>3. /\ M \in Perms(S) /\ Len(M.order) = n
      /\ M.new = IF L.new = NULL THEN e ELSE L.new
      /\ List!Place(M, e) = n
      /\ \A x \in S : x # e => List!Place(M, x) = IF List!Place(L, x) < k
                      THEN List!Place(L, x) ELSE List!Place(L, x) - 1
  BY MoveIs
<1> HIDE DEF M, n
<1>4. k < f /\ k \in 1 .. n BY <1>1, <1>2 DEF Ahead
<1>5. FirstFree(M) = f - 1 /\ M.new # NULL
  <2>1. CASE L.new = NULL
    <3>1. f = n + 1 BY <2>1 DEF FirstFree, n
    <3>2. M.new = e /\ e # NULL BY <1>3, <2>1
    <3> QED BY <1>1, <1>3, <3>1, <3>2 DEF FirstFree
  <2>2. CASE L.new # NULL
    <3>1. f = List!Place(L, L.new) BY <2>2 DEF FirstFree
    <3>2. L.new \in S /\ L.new # e /\ M.new = L.new
      BY <1>2, <1>3, <1>4, <2>2, <3>1
    <3>3. List!Place(M, L.new) = f - 1 BY <1>2, <1>3, <1>4, <3>1, <3>2
    <3> QED BY <2>2, <3>2, <3>3 DEF FirstFree
  <2> QED BY <2>1, <2>2
<1> HIDE DEF k, f
<1>6. Spare(M) = Spare(L) + 1 /\ Ahead(M, e) = Spare(L)
  BY <1>1, <1>2, <1>3, <1>5 DEF Spare, Ahead, n, f
<1>7. ASSUME NEW x \in S, x # e
      PROVE  IF Ahead(L, x) < 0 THEN Ahead(M, x) < 0
                                ELSE Ahead(M, x) = Ahead(L, x)
  <2> DEFINE j == List!Place(L, x)
             i == List!Place(M, x)
  <2>1. j \in 1 .. n /\ i = (IF j < k THEN j ELSE j - 1) BY <1>1, <1>3, <1>7
  <2>2. Ahead(L, x) = j - f /\ Ahead(M, x) = i - (f - 1)
    BY <1>5 DEF Ahead, f
  <2> HIDE DEF i, j
  <2>3. j # k
    <3>1. L.order[List!Place(L, x)] = x /\ L.order[List!Place(L, e)] = e
      BY PlaceOnce
    <3> QED BY <1>7, <3>1 DEF j, k
  <2> QED BY <1>1, <1>2, <1>4, <2>1, <2>2, <2>3
<1> QED BY <1>3, <1>5, <1>6, <1>7 DEF M

\* MoveToEnd of a free element, not the first: those behind it move up.
LEMMA MoveFree ==
    ASSUME NEW S, NULL \notin S, NEW L \in Perms(S), NEW e \in S, Ahead(L, e) >= 1
    PROVE  LET M == List!MoveToEnd(L, e)
           IN /\ M \in Perms(S)
              /\ Spare(M) = Spare(L)
              /\ Ahead(M, e) = Spare(L) - 1
              /\ \A x \in S : x # e =>
                    Ahead(M, x) = IF Ahead(L, x) > Ahead(L, e)
                                  THEN Ahead(L, x) - 1 ELSE Ahead(L, x)
<1> DEFINE M == List!MoveToEnd(L, e)
           n == Len(L.order)
           k == List!Place(L, e)
           f == FirstFree(L)
<1>1. /\ n \in Nat /\ \A x \in S : List!Place(L, x) \in 1 .. n BY PlaceOnce
<1>2. /\ f \in 1 .. n + 1 /\ (L.new # NULL => L.new \in S)
      /\ (L.new = NULL <=> Spare(L) = 0) /\ Ahead(L, e) < Spare(L)
      /\ Spare(L) \in Nat /\ Ahead(L, e) \in Int
  BY AheadIs
<1>3. /\ M \in Perms(S) /\ Len(M.order) = n
      /\ M.new = IF L.new = NULL THEN e ELSE L.new
      /\ List!Place(M, e) = n
      /\ \A x \in S : x # e => List!Place(M, x) = IF List!Place(L, x) < k
                      THEN List!Place(L, x) ELSE List!Place(L, x) - 1
  BY MoveIs
<1> HIDE DEF M, n
<1>4. k > f /\ k \in 1 .. n BY <1>1, <1>2 DEF Ahead
<1>5. FirstFree(M) = f
  <2>1. L.new # NULL BY <1>2
  <2>2. f = List!Place(L, L.new) BY <2>1 DEF FirstFree
  <2>3. L.new \in S /\ L.new # e /\ M.new = L.new
    BY <1>2, <1>3, <1>4, <2>1, <2>2
  <2>4. List!Place(M, L.new) = f BY <1>2, <1>3, <1>4, <2>2, <2>3
  <2> QED BY <2>1, <2>3, <2>4 DEF FirstFree
<1> HIDE DEF k, f
<1>6. Spare(M) = Spare(L) /\ Ahead(M, e) = Spare(L) - 1
  BY <1>1, <1>2, <1>3, <1>5 DEF Spare, Ahead, n, f
<1>7. ASSUME NEW x \in S, x # e
      PROVE  Ahead(M, x) = IF Ahead(L, x) > Ahead(L, e)
                           THEN Ahead(L, x) - 1 ELSE Ahead(L, x)
  <2> DEFINE j == List!Place(L, x)
             i == List!Place(M, x)
  <2>1. j \in 1 .. n /\ i = (IF j < k THEN j ELSE j - 1) BY <1>1, <1>3, <1>7
  <2>2. Ahead(L, x) = j - f /\ Ahead(M, x) = i - f /\ Ahead(L, e) = k - f
    BY <1>5 DEF Ahead, f, k
  <2> HIDE DEF i, j
  <2>3. j # k
    <3>1. L.order[List!Place(L, x)] = x /\ L.order[List!Place(L, e)] = e
      BY PlaceOnce
    <3> QED BY <1>7, <3>1 DEF j, k
  <2> QED BY <1>1, <1>2, <1>4, <2>1, <2>2, <2>3
<1> QED BY <1>3, <1>5, <1>6, <1>7 DEF M

\* Of the clients all but those in use are spare.
LEMMA SpareIs ==
    ASSUME NEW L \in Perms(Client), NEW U \in SUBSET Client,
           \A c \in Client : Ahead(L, c) < 0 <=> c \in U
    PROVE  IsFiniteSet(U) /\ Spare(L) = NUM_CLIENT - Cardinality(U)
<1> DEFINE n == Len(L.order)
           m == FirstFree(L) - 1
           o == L.order
           g == [i \in 1 .. m |-> o[i]]
<1>0. NULL \notin Client /\ NUM_CLIENT \in Nat /\ Client = 1 .. NUM_CLIENT
  BY WatchAssumption, ServerAssumption
<1>1. /\ n \in Nat /\ DOMAIN o = 1 .. n
      /\ \A i \in 1 .. n : o[i] \in Client /\ List!Place(L, o[i]) = i
      /\ \A c \in Client : List!Place(L, c) \in 1 .. n /\ o[List!Place(L, c)] = c
  BY PlaceOnce
<1>2. FirstFree(L) \in 1 .. n + 1 BY <1>0, AheadIs
<1>3. L.order \in Seq(Client) BY DEF Perms, Lists, Orders
<1>4. o \in [1 .. n -> Client] BY <1>3, LenProperties
<1>5. \A i, j \in 1 .. n : o[i] = o[j] => i = j BY <1>1
<1> HIDE DEF n
<1>6. o \in Bijection(1 .. n, Client) BY <1>1, <1>4, <1>5, Fun_IsBij
<1>7. Cardinality(Client) = n BY <1>1, <1>6, FS_CountingElements DEF ExistsBijection
<1>8. n = NUM_CLIENT
  <2>1. Cardinality(1 .. NUM_CLIENT) = NUM_CLIENT
    BY <1>0, FS_Interval
  <2> QED BY <1>0, <1>7, <2>1
<1>9. m \in Nat /\ m <= n BY <1>1, <1>2
<1>10. ASSUME NEW i \in 1 .. n PROVE o[i] \in U <=> i <= m
  <2>1. o[i] \in Client /\ List!Place(L, o[i]) = i BY <1>1
  <2>2. o[i] \in U <=> i - FirstFree(L) < 0 BY <2>1 DEF Ahead
  <2> QED BY <1>1, <1>2, <2>2
<1>11. g \in [1 .. m -> U]
  <2> SUFFICES ASSUME NEW i \in 1 .. m PROVE o[i] \in U OBVIOUS
  <2>1. i \in 1 .. n /\ i <= m BY <1>1, <1>9
  <2> QED BY <1>10, <2>1
<1>12. \A i, j \in 1 .. m : g[i] = g[j] => i = j
  <2> SUFFICES ASSUME NEW i \in 1 .. m, NEW j \in 1 .. m, o[i] = o[j] PROVE i = j
    OBVIOUS
  <2>1. i \in 1 .. n /\ j \in 1 .. n BY <1>1, <1>9
  <2> QED BY <1>5, <2>1
<1>13. ASSUME NEW c \in U PROVE \E i \in 1 .. m : g[i] = c
  <2> DEFINE i == List!Place(L, c)
  <2>1. c \in Client /\ i \in 1 .. n /\ o[i] = c BY <1>1 DEF n
  <2> HIDE DEF i
  <2>2. i <= m BY <1>10, <2>1
  <2>3. i \in 1 .. m BY <1>1, <1>9, <2>1, <2>2
  <2> QED BY <2>1, <2>3
<1> HIDE DEF g, m
<1>14. g \in Bijection(1 .. m, U) BY <1>11, <1>12, <1>13, Fun_IsBij
<1>15. Cardinality(U) = m BY <1>9, <1>14, FS_CountingElements DEF ExistsBijection
<1>16. IsFiniteSet(U)
  <2>1. IsFiniteSet(1 .. NUM_CLIENT) BY <1>0, FS_Interval
  <2> QED BY <1>0, <2>1, FS_Subset
<1>17. Spare(L) = n + 1 - FirstFree(L) /\ m = FirstFree(L) - 1
  BY DEF Spare, n, m
<1>18. FirstFree(L) \in Int BY <1>2
<1> QED BY <1>1, <1>8, <1>15, <1>16, <1>17, <1>18

-----------------------------------------------------------------------------
(* The queue *)

In(q, h) == \E i \in DOMAIN q : q[i] = h

\* A client has at most one handler queued.
Single(q) == \A i, j \in DOMAIN q :
    q[i].client \in Client /\ q[i].client = q[j].client => i = j

AcceptBefore(q, i) == \E j \in DOMAIN q : j < i /\ q[j].op = "accept"
HasAccept(q) == \E j \in DOMAIN q : q[j].op = "accept"

\* An upper bound of the accepts that are handled before the i-th handler and
\* the one it may queue again are: one if the accept's handler is in front of
\* it, and one if it has been performed, for it then goes to the queue's end.
Rounds(q, i) == (IF AcceptBefore(q, i) THEN 1 ELSE 0)
                + (IF q[i].how = "done" THEN 1 ELSE 0)

\* A handler left over from a closed connection of c, with r rounds to go.
Late(q, c, r) == \E i \in DOMAIN q :
    q[i].client = c /\ q[i].stale /\ Rounds(q, i) = r

\* The rounds of a handler h about to be queued.
NewRounds(q, h) == (IF HasAccept(q) THEN 1 ELSE 0)
                   + (IF h.how = "done" THEN 1 ELSE 0)

\* A handler is queued behind the others.
LEMMA AppendIs ==
    ASSUME NEW q \in Seq(Handlers), NEW h \in Handlers
    PROVE  /\ \A x : In(Append(q, h), x) <=> In(q, x) \/ x = h
           /\ Single(q) /\ (h.client \in Client => ~QueuedFor(q, h.client))
                 => Single(Append(q, h))
           /\ \A c, r : Late(Append(q, h), c, r) =>
                 Late(q, c, r) \/ (h.stale /\ c = h.client /\ r = NewRounds(q, h))
<1> DEFINE a == Append(q, h)
           n == Len(q)
<1>1. /\ a \in Seq(Handlers) /\ n \in Nat
      /\ DOMAIN q = 1 .. n /\ DOMAIN a = 1 .. n + 1
      /\ \A i \in 1 .. n : a[i] = q[i]
      /\ a[n + 1] = h
  BY AppendProperties, LenProperties
<1> HIDE DEF a, n
<1>2. \A i \in DOMAIN a : i = n + 1 \/ i \in 1 .. n BY <1>1
<1>3. \A x : In(a, x) <=> In(q, x) \/ x = h BY <1>1, <1>2 DEF In
<1>4. ASSUME Single(q), h.client \in Client => ~QueuedFor(q, h.client)
      PROVE  Single(a)
  BY <1>1, <1>2, <1>4 DEF Single, QueuedFor
<1>5. \A i \in 1 .. n : AcceptBefore(a, i) <=> AcceptBefore(q, i)
  BY <1>1 DEF AcceptBefore
<1>6. AcceptBefore(a, n + 1) <=> HasAccept(q)
  BY <1>1 DEF AcceptBefore, HasAccept
<1>7. ASSUME NEW c, NEW r, Late(a, c, r)
      PROVE  Late(q, c, r) \/ (h.stale /\ c = h.client /\ r = NewRounds(q, h))
  <2>1. PICK i \in DOMAIN a : a[i].client = c /\ a[i].stale /\ Rounds(a, i) = r
    BY <1>7 DEF Late
  <2>2. CASE i \in 1 .. n
    <3>1. Rounds(q, i) = r BY <1>1, <1>5, <2>1, <2>2 DEF Rounds
    <3> QED BY <1>1, <2>1, <2>2, <3>1 DEF Late
  <2>3. CASE i = n + 1
    BY <1>1, <1>6, <2>1, <2>3 DEF Rounds, NewRounds
  <2> QED BY <1>2, <2>2, <2>3
<1> QED BY <1>3, <1>4, <1>7 DEF a

\* The first handler is taken off the queue.
LEMMA TailIs ==
    ASSUME NEW q \in Seq(Handlers), q # <<>>, Single(q)
    PROVE  /\ Tail(q) \in Seq(Handlers) /\ Head(q) \in Handlers /\ In(q, Head(q))
           /\ \A x : In(Tail(q), x) => In(q, x)
           /\ \A x : In(q, x) => In(Tail(q), x) \/ x = Head(q)
           /\ Single(Tail(q))
           /\ Head(q).client \in Client => ~QueuedFor(Tail(q), Head(q).client)
           /\ Head(q).stale => Late(q, Head(q).client,
                                    IF Head(q).how = "done" THEN 1 ELSE 0)
           /\ \A c, r : Late(Tail(q), c, r) =>
                 Late(q, c, r) \/ (Head(q).op = "accept" /\ Late(q, c, r + 1))
<1> DEFINE t == Tail(q)
           n == Len(q)
<1>1. /\ t \in Seq(Handlers) /\ Head(q) \in Handlers /\ n \in Nat /\ n # 0
      /\ DOMAIN q = 1 .. n /\ DOMAIN t = 1 .. n - 1
      /\ Head(q) = q[1] /\ \A i \in 1 .. n - 1 : t[i] = q[i + 1]
  BY HeadTailProperties, LenProperties, EmptySeq
<1> HIDE DEF t, n
<1>2. 1 \in DOMAIN q BY <1>1
<1>3. \A i \in DOMAIN t : i + 1 \in DOMAIN q /\ i + 1 # 1 /\ t[i] = q[i + 1]
  BY <1>1
<1>4. \A x : In(t, x) => In(q, x) BY <1>3 DEF In
<1>5. ASSUME NEW x, In(q, x) PROVE In(t, x) \/ x = Head(q)
  <2>1. PICK i \in DOMAIN q : q[i] = x BY <1>5 DEF In
  <2>2. CASE i = 1 BY <1>1, <2>1, <2>2
  <2>3. CASE i # 1
    <3>1. i - 1 \in DOMAIN t /\ t[i - 1] = x BY <1>1, <2>1, <2>3
    <3> QED BY <3>1 DEF In
  <2> QED BY <2>2, <2>3
<1>6. Single(t)
  <2> SUFFICES ASSUME NEW i \in DOMAIN t, NEW j \in DOMAIN t,
                      t[i].client \in Client, t[i].client = t[j].client
               PROVE  i = j
    BY DEF Single
  <2>1. i + 1 = j + 1 BY <1>3 DEF Single
  <2> QED BY <1>1, <2>1
<1>7. Head(q).client \in Client => ~QueuedFor(t, Head(q).client)
  BY <1>1, <1>2, <1>3 DEF Single, QueuedFor
<1>8. ASSUME Head(q).stale
      PROVE  Late(q, Head(q).client, IF Head(q).how = "done" THEN 1 ELSE 0)
  <2>1. ~AcceptBefore(q, 1) BY <1>1 DEF AcceptBefore
  <2>2. Rounds(q, 1) = IF Head(q).how = "done" THEN 1 ELSE 0
    BY <1>1, <2>1 DEF Rounds
  <2> QED BY <1>1, <1>2, <1>8, <2>2 DEF Late
<1>9. ASSUME NEW c, NEW r, Late(t, c, r)
      PROVE  Late(q, c, r) \/ (Head(q).op = "accept" /\ Late(q, c, r + 1))
  <2>1. PICK i \in DOMAIN t : t[i].client = c /\ t[i].stale /\ Rounds(t, i) = r
    BY <1>9 DEF Late
  <2>2. AcceptBefore(t, i) => AcceptBefore(q, i + 1)
    <3> SUFFICES ASSUME NEW j \in DOMAIN t, j < i, t[j].op = "accept"
                 PROVE  AcceptBefore(q, i + 1)
      BY DEF AcceptBefore
    <3>1. j + 1 \in DOMAIN q /\ j + 1 < i + 1 /\ q[j + 1].op = "accept"
      BY <1>1, <1>3
    <3> QED BY <3>1 DEF AcceptBefore
  <2>3. AcceptBefore(q, i + 1) => AcceptBefore(t, i) \/ Head(q).op = "accept"
    <3> SUFFICES ASSUME NEW j \in DOMAIN q, j < i + 1, q[j].op = "accept",
                        Head(q).op # "accept"
                 PROVE  AcceptBefore(t, i)
      BY DEF AcceptBefore
    <3>1. j # 1 BY <1>1
    <3>2. j - 1 \in DOMAIN t /\ j - 1 < i /\ t[j - 1].op = "accept"
      BY <1>1, <3>1
    <3> QED BY <3>2 DEF AcceptBefore
  <2>4. i + 1 \in DOMAIN q /\ q[i + 1] = t[i] BY <1>3
  <2>5. Rounds(q, i + 1) = r \/ (Head(q).op = "accept" /\ Rounds(q, i + 1) = r + 1)
    BY <2>1, <2>2, <2>3, <2>4 DEF Rounds
  <2> QED BY <2>1, <2>4, <2>5 DEF Late
<1> QED BY <1>1, <1>2, <1>4, <1>5, <1>6, <1>7, <1>8, <1>9 DEF t, In

\* What closing the socket of c makes of the queue.
LEMMA DetachedIs ==
    ASSUME NEW P \in Pools, NEW c \in Client, Single(P.rq)
    PROVE  LET q == P.rq
               d == Detached(P, c).rq
           IN /\ Single(d)
              /\ \A x : x.client # c => (In(d, x) <=> In(q, x))
              /\ \A x : In(d, x) /\ x.client = c => x.stale
              /\ \A x : In(d, x) /\ x.client = c =>
                    \E y : In(q, y) /\ y.client = c /\ y.how # "ready"
                           /\ y.how = x.how
              /\ \A e, r : Late(d, e, r) /\ e # c => Late(q, e, r)
              /\ \A r : Late(d, c, r) =>
                    \E i \in DOMAIN q : /\ q[i].client = c /\ q[i].how # "ready"
                                        /\ Rounds(q, i) = r
<1> DEFINE q     == P.rq
           n     == Len(q)
           ready == {i \in DOMAIN q : q[i].client = c /\ q[i].how = "ready"}
           k     == CHOOSE i \in ready : TRUE
           left  == IF ready = {} THEN q ELSE RemoveAt(q, k)
           d     == Detached(P, c).rq
           at(i) == IF ready = {} \/ i < k THEN i ELSE i + 1
<1>1. q \in Seq(Handlers) /\ n \in Nat /\ DOMAIN q = 1 .. n
  BY LenProperties DEF Pools
<1>2. d = [i \in DOMAIN left |-> [left[i] EXCEPT !.stale = @ \/ left[i].client = c]]
  BY DEF Detached, Pools
<1>3. ready # {} => k \in DOMAIN q /\ q[k].client = c /\ q[k].how = "ready"
  OBVIOUS
<1>4. ASSUME NEW i \in DOMAIN q, q[i].client = c, q[i].how = "ready"
      PROVE  ready # {} /\ i = k
  BY <1>3, <1>4 DEF Single
<1>5. \A i \in DOMAIN q : q[i] \in Handlers BY <1>1, ElementOfSeq
<1>6. /\ left \in Seq(Handlers)
      /\ \A i \in DOMAIN left : at(i) \in DOMAIN q /\ left[i] = q[at(i)]
                               /\ (ready # {} => at(i) # k)
      /\ \A i, j \in DOMAIN left : at(i) < at(j) <=> i < j
      /\ \A j \in DOMAIN q : (ready # {} /\ j = k)
                             \/ \E i \in DOMAIN left : at(i) = j
  <2>1. CASE ready = {} BY <1>1, <2>1
  <2>2. CASE ready # {}
    <3>1. k \in DOMAIN q /\ left = RemoveAt(q, k) BY <1>3, <2>2
    <3> HIDE DEF k, left, ready, q
    <3>2. /\ left \in Seq(Handlers) /\ DOMAIN left = 1 .. n - 1
          /\ \A i \in 1 .. n - 1 : left[i] = IF i < k THEN q[i] ELSE q[i + 1]
      <4>1. /\ left \in Seq(Handlers) /\ Len(left) = n - 1
            /\ \A i \in 1 .. n - 1 : left[i] = IF i < k THEN q[i] ELSE q[i + 1]
        BY <1>1, <3>1, RemoveAtProperties DEF n
      <4>2. DOMAIN left = 1 .. Len(left) BY <4>1, LenProperties
      <4> QED BY <4>1, <4>2
    <3> HIDE DEF n
    <3>3. \A i \in DOMAIN left : at(i) \in DOMAIN q /\ left[i] = q[at(i)]
                                 /\ at(i) # k
      BY <1>1, <2>2, <3>1, <3>2
    <3>4. \A i, j \in DOMAIN left : at(i) < at(j) <=> i < j
      BY <1>1, <2>2, <3>1, <3>2
    <3>5. ASSUME NEW j \in DOMAIN q, j # k
          PROVE  \E i \in DOMAIN left : at(i) = j
      <4>1. CASE j < k
        <5>1. j \in DOMAIN left /\ at(j) = j BY <1>1, <2>2, <3>1, <3>2, <4>1
        <5> QED BY <5>1
      <4>2. CASE j > k
        <5>1. j - 1 \in DOMAIN left /\ at(j - 1) = j
          BY <1>1, <2>2, <3>1, <3>2, <4>2
        <5> QED BY <5>1
      <4> QED BY <1>1, <3>1, <3>5, <4>1, <4>2
    <3> QED BY <2>2, <3>2, <3>3, <3>4, <3>5
  <2> QED BY <2>1, <2>2
<1> HIDE DEF left, k, ready, at
<1>7. ASSUME NEW i \in DOMAIN d
      PROVE  /\ at(i) \in DOMAIN q /\ (ready # {} => at(i) # k)
             /\ d[i] = [q[at(i)] EXCEPT !.stale = @ \/ q[at(i)].client = c]
             /\ d[i].op = q[at(i)].op /\ d[i].client = q[at(i)].client
             /\ d[i].how = q[at(i)].how
             /\ d[i].stale = (q[at(i)].stale \/ q[at(i)].client = c)
             /\ q[at(i)].client # c => d[i] = q[at(i)]
  <2>1. i \in DOMAIN left BY <1>2
  <2>2. at(i) \in DOMAIN q /\ left[i] = q[at(i)] /\ (ready # {} => at(i) # k)
    BY <1>6, <2>1
  <2>3. q[at(i)] \in Handlers BY <1>5, <2>2
  <2>4. d[i] = [q[at(i)] EXCEPT !.stale = @ \/ q[at(i)].client = c]
    BY <1>2, <2>1, <2>2
  <2>5. q[at(i)].stale \in BOOLEAN BY <2>3 DEF Handlers, Handler
  <2> HIDE DEF d, q
  <2> QED BY <2>2, <2>3, <2>4, <2>5 DEF Handlers, Handler
<1>8. DOMAIN d = DOMAIN left BY <1>2
<1> HIDE DEF d, q, n
<1>9. Single(d)
  <2> SUFFICES ASSUME NEW i \in DOMAIN d, NEW j \in DOMAIN d,
                      d[i].client \in Client, d[i].client = d[j].client
               PROVE  i = j
    BY DEF Single
  <2>1. at(i) = at(j) BY <1>7 DEF Single, q
  <2>2. i \in Int /\ j \in Int /\ at(i) \in Int
    BY <1>1, <1>6, <1>7, <1>8, LenProperties
  <2>3. ~(i < j) /\ ~(j < i) BY <1>6, <1>8, <2>1, <2>2
  <2> QED BY <2>2, <2>3
<1>10. ASSUME NEW x, x.client # c PROVE In(d, x) <=> In(q, x)
  <2>1. ASSUME NEW i \in DOMAIN d, d[i] = x PROVE In(q, x)
    BY <1>7, <1>10, <2>1 DEF In
  <2>2. ASSUME NEW j \in DOMAIN q, q[j] = x PROVE In(d, x)
    <3>1. ~(ready # {} /\ j = k) BY <1>3, <1>10, <2>2 DEF q, k, ready
    <3>2. PICK i \in DOMAIN left : at(i) = j BY <1>6, <3>1
    <3>3. d[i] = x BY <1>7, <1>8, <1>10, <2>2, <3>2
    <3> QED BY <1>8, <3>3 DEF In
  <2> QED BY <2>1, <2>2 DEF In
<1>11. ASSUME NEW i \in DOMAIN d, d[i].client = c
       PROVE  /\ d[i].stale /\ q[at(i)].client = c /\ q[at(i)].how # "ready"
              /\ q[at(i)].how = d[i].how
  <2>1. q[at(i)].client = c /\ q[at(i)].how = d[i].how /\ d[i].stale
    BY <1>7, <1>11
  <2>2. q[at(i)].how # "ready" BY <1>4, <1>7, <2>1
  <2> QED BY <2>1, <2>2
<1>12. ASSUME NEW i \in DOMAIN d PROVE Rounds(d, i) = Rounds(q, at(i))
  <2>1. ASSUME NEW j \in DOMAIN d, j < i, d[j].op = "accept"
        PROVE  AcceptBefore(q, at(i))
    <3>1. at(j) \in DOMAIN q /\ at(j) < at(i) /\ q[at(j)].op = "accept"
      BY <1>6, <1>7, <1>8, <2>1
    <3> QED BY <3>1 DEF AcceptBefore
  <2>2. ASSUME NEW j \in DOMAIN q, j < at(i), q[j].op = "accept"
        PROVE  AcceptBefore(d, i)
    <3>1. q[j].client # c
      BY <1>5, <2>2, WatchAssumption DEF Handlers
    <3>2. ~(ready # {} /\ j = k) BY <1>3, <3>1 DEF q, k, ready
    <3>3. PICK m \in DOMAIN left : at(m) = j BY <1>6, <3>2
    <3>4. m < i /\ d[m].op = "accept" BY <1>6, <1>7, <1>8, <2>2, <3>3
    <3> QED BY <1>8, <3>4 DEF AcceptBefore
  <2>3. AcceptBefore(d, i) <=> AcceptBefore(q, at(i))
    BY <2>1, <2>2 DEF AcceptBefore
  <2>4. d[i].how = q[at(i)].how BY <1>7
  <2> QED BY <2>3, <2>4 DEF Rounds
<1>13. ASSUME NEW e, NEW r, Late(d, e, r), e # c PROVE Late(q, e, r)
  <2>1. PICK i \in DOMAIN d : d[i].client = e /\ d[i].stale /\ Rounds(d, i) = r
    BY <1>13 DEF Late
  <2>2. at(i) \in DOMAIN q /\ q[at(i)].client = e /\ q[at(i)].stale
        /\ Rounds(q, at(i)) = r
    BY <1>7, <1>12, <1>13, <2>1
  <2> QED BY <2>2 DEF Late
<1>14. ASSUME NEW r, Late(d, c, r)
       PROVE  \E i \in DOMAIN q : /\ q[i].client = c /\ q[i].how # "ready"
                                  /\ Rounds(q, i) = r
  <2>1. PICK i \in DOMAIN d : d[i].client = c /\ Rounds(d, i) = r
    BY <1>14 DEF Late
  <2>2. at(i) \in DOMAIN q /\ q[at(i)].client = c /\ q[at(i)].how # "ready"
        /\ Rounds(q, at(i)) = r
    BY <1>7, <1>11, <1>12, <2>1
  <2> QED BY <2>2
<1>15. \A x : In(d, x) /\ x.client = c => x.stale BY <1>11 DEF In
<1>16. ASSUME NEW x, In(d, x), x.client = c
       PROVE  \E y : In(q, y) /\ y.client = c /\ y.how # "ready" /\ y.how = x.how
  <2>1. PICK i \in DOMAIN d : d[i] = x BY <1>16 DEF In
  <2>2. at(i) \in DOMAIN q BY <1>7
  <2>3. In(q, q[at(i)]) BY <2>2 DEF In
  <2> QED BY <1>11, <1>16, <2>1, <2>3
<1> QED BY <1>9, <1>10, <1>13, <1>14, <1>15, <1>16 DEF d, q

-----------------------------------------------------------------------------
(* A pool in order *)

\* The clients in use are those that are open, the one set aside for the next
\* connection, and a, whose handler is running.
Shares(P, O, a) ==
    /\ P.clnts \in Perms(Client) /\ O \subseteq Client
    /\ P.under \notin O /\ a \notin O /\ (a # NULL => a # P.under)
    /\ \A c \in Client : Ahead(P.clnts, c) < 0 <=> c \in O \cup {P.under, a}

\* An open client has an operation in progress or a handler that has not been
\* told of its outcome yet; the handlers of the other clients are left over.
Serves(P, O) ==
    /\ Single(P.rq)
    /\ \A c \in Client : c \notin O => P.pend[c] = NULL
    /\ \A c \in O : P.pend[c] = NULL =>
          \E h \in Handlers : In(P.rq, h) /\ h.client = c /\ h.how # "ready"
    /\ \A h \in Handlers : In(P.rq, h) /\ h.client \in O /\ P.pend[h.client] # NULL
          => h.how = "ready" /\ h.op = P.pend[h.client]
    /\ \A h \in Handlers : In(P.rq, h) /\ h.client \in Client =>
          (h.stale <=> h.client \notin O)
    /\ \A h \in Handlers : In(P.rq, h) /\ h.stale =>
          h.client \in Client /\ h.how # "ready"

\* The handlers left over are at most two, and the accepts they have to live
\* through are too few for their clients to be handed out again.
LateFew(q, L) ==
    /\ \A c \in Client, r \in 0 .. 2 : Late(q, c, r) =>
          r <= 1 /\ Ahead(L, c) >= 1 + r
    /\ \A c, d \in Client, r, s \in 0 .. 2 :
          c # d /\ Late(q, c, r) /\ Late(q, d, s) =>
             /\ r + s <= 1
             /\ Ahead(L, c) < Ahead(L, d) => Ahead(L, d) >= 2 + s
    /\ \A c, d, e \in Client, r, s, t \in 0 .. 2 :
          Late(q, c, r) /\ Late(q, d, s) /\ Late(q, e, t) =>
             c = d \/ d = e \/ c = e

Orderly(P, O, a) ==
    P \in Pools /\ Sound(P) /\ Shares(P, O, a) /\ Serves(P, O)
    /\ LateFew(P.rq, P.clnts)

\* A late handler has at most two rounds to go.
LEMMA LateRange ==
    ASSUME NEW q \in Seq(Handlers)
    PROVE  /\ \A c, r : Late(q, c, r) => r \in 0 .. 2 /\ QueuedFor(q, c)
           /\ \A h : In(q, h) /\ h.stale => \E r \in 0 .. 2 : Late(q, h.client, r)
           /\ \A h : In(q, h) => h \in Handlers /\ QueuedFor(q, h.client)
           /\ \A c : QueuedFor(q, c) => \E h \in Handlers : In(q, h) /\ h.client = c
<1>1. \A i \in DOMAIN q : q[i] \in Handlers BY ElementOfSeq, LenProperties
<1>2. \A i \in DOMAIN q : Rounds(q, i) \in 0 .. 2 BY DEF Rounds
<1> QED BY <1>1, <1>2 DEF Late, In, QueuedFor

\* Fewer late handlers, with fewer rounds to go.
LEMMA LateFewer ==
    ASSUME NEW L \in Perms(Client), NEW p, NEW q, LateFew(p, L),
           \A c \in Client, r \in 0 .. 2 : Late(q, c, r) =>
              \E s \in 0 .. 2 : s >= r /\ Late(p, c, s)
    PROVE  LateFew(q, L)
<1>0. \A c \in Client : Ahead(L, c) \in Int BY WatchAssumption, AheadIs
<1>1. ASSUME NEW c \in Client, NEW r \in 0 .. 2, Late(q, c, r)
      PROVE  r <= 1 /\ Ahead(L, c) >= 1 + r
  <2>1. PICK s \in 0 .. 2 : s >= r /\ Late(p, c, s) BY <1>1
  <2>2. s <= 1 /\ Ahead(L, c) >= 1 + s BY <2>1 DEF LateFew
  <2> QED BY <1>0, <2>1, <2>2
<1>2. ASSUME NEW c \in Client, NEW d \in Client, NEW r \in 0 .. 2,
             NEW s \in 0 .. 2, c # d, Late(q, c, r), Late(q, d, s)
      PROVE  r + s <= 1 /\ (Ahead(L, c) < Ahead(L, d) => Ahead(L, d) >= 2 + s)
  <2>1. PICK x \in 0 .. 2 : x >= r /\ Late(p, c, x) BY <1>2
  <2>2. PICK y \in 0 .. 2 : y >= s /\ Late(p, d, y) BY <1>2
  <2>3. x + y <= 1 /\ (Ahead(L, c) < Ahead(L, d) => Ahead(L, d) >= 2 + y)
    BY <1>2, <2>1, <2>2 DEF LateFew
  <2> QED BY <1>0, <2>1, <2>2, <2>3
<1>3. ASSUME NEW c \in Client, NEW d \in Client, NEW e \in Client,
             NEW r \in 0 .. 2, NEW s \in 0 .. 2, NEW t \in 0 .. 2,
             Late(q, c, r), Late(q, d, s), Late(q, e, t)
      PROVE  c = d \/ d = e \/ c = e
  <2>1. /\ \E x \in 0 .. 2 : Late(p, c, x)
        /\ \E x \in 0 .. 2 : Late(p, d, x)
        /\ \E x \in 0 .. 2 : Late(p, e, x)
    BY <1>3
  <2> QED BY <2>1 DEF LateFew
<1> QED BY <1>1, <1>2, <1>3 DEF LateFew

\* A client in use that is not open has no handler.
LEMMA NoneQueued ==
    ASSUME NEW P, NEW O, NEW a, Orderly(P, O, a), NEW c \in Client,
           c \in {P.under, a}
    PROVE  ~QueuedFor(P.rq, c)
<1> SUFFICES ASSUME QueuedFor(P.rq, c) PROVE FALSE OBVIOUS
<1>1. P.rq \in Seq(Handlers) BY DEF Orderly, Pools
<1>2. PICK h \in Handlers : In(P.rq, h) /\ h.client = c BY <1>1, LateRange
<1>3. c \notin O BY DEF Orderly, Shares
<1>4. h.stale BY <1>2, <1>3 DEF Orderly, Serves
<1>5. PICK r \in 0 .. 2 : Late(P.rq, c, r) BY <1>1, <1>2, <1>4, LateRange
<1>6. Ahead(P.clnts, c) >= 1 + r BY <1>5 DEF Orderly, LateFew
<1>7. Ahead(P.clnts, c) < 0 BY DEF Orderly, Shares
<1>8. Ahead(P.clnts, c) \in Int BY WatchAssumption, AheadIs DEF Orderly, Shares
<1> QED BY <1>6, <1>7, <1>8

-----------------------------------------------------------------------------
(* What the operations leave of the order *)

\* No handler of a client waits behind that of the accept.
AcceptLast(q) == \A i \in DOMAIN q : q[i].client \in Client => ~AcceptBefore(q, i)

\* Closing a socket whose operation, if any, is still in progress.
LEMMA CloseIs ==
    ASSUME NEW P \in Pools, NEW c \in Client, Single(P.rq),
           \A h \in Handlers : In(P.rq, h) /\ h.client = c /\ P.pend[c] # NULL
              => h.how = "ready"
    PROVE  LET Q == Close(P, c)
           IN /\ Q \in Pools /\ Q.clnts = P.clnts /\ Q.under = P.under
              /\ Q.pend = [P.pend EXCEPT ![c] = NULL] /\ Single(Q.rq)
              /\ \A h : h.client # c => (In(Q.rq, h) <=> In(P.rq, h))
              /\ \A h : In(Q.rq, h) /\ h.client = c => h.stale /\ h.how # "ready"
              /\ \A d, r : d # c /\ Late(Q.rq, d, r) => Late(P.rq, d, r)
              /\ AcceptLast(P.rq) => \A r : Late(Q.rq, c, r) => r <= 1
              /\ QueuedFor(Q.rq, c) => QueuedFor(P.rq, c) \/ P.pend[c] # NULL
<1> DEFINE D == Detached(P, c)
           Q == Close(P, c)
<1>1. /\ D \in Pools /\ Same(P, D) /\ Q \in Pools /\ Same(P, Q)
  BY DetachedKeeps, CloseKeeps
<1>2. D.pend = [P.pend EXCEPT ![c] = NULL] BY DEF Detached, Pools
<1>3. /\ Single(D.rq)
      /\ \A x : x.client # c => (In(D.rq, x) <=> In(P.rq, x))
      /\ \A x : In(D.rq, x) /\ x.client = c => x.stale
      /\ \A x : In(D.rq, x) /\ x.client = c =>
            \E y : In(P.rq, y) /\ y.client = c /\ y.how # "ready" /\ y.how = x.how
      /\ \A e, r : Late(D.rq, e, r) /\ e # c => Late(P.rq, e, r)
      /\ \A r : Late(D.rq, c, r) =>
            \E i \in DOMAIN P.rq : /\ P.rq[i].client = c /\ P.rq[i].how # "ready"
                                   /\ Rounds(P.rq, i) = r
  BY DetachedIs
<1>4. P.rq \in Seq(Handlers) /\ D.rq \in Seq(Handlers) BY <1>1 DEF Pools
<1> HIDE DEF D
<1>5. ASSUME AcceptLast(P.rq), NEW r, Late(D.rq, c, r) PROVE r <= 1
  <2>1. PICK i \in DOMAIN P.rq : P.rq[i].client = c /\ Rounds(P.rq, i) = r
    BY <1>3, <1>5
  <2>2. ~AcceptBefore(P.rq, i) BY <1>5, <2>1 DEF AcceptLast
  <2> QED BY <2>1, <2>2 DEF Rounds
<1>6. \A x : In(P.rq, x) => x \in Handlers /\ QueuedFor(P.rq, x.client)
  BY <1>4, LateRange
<1>7. \A x : In(D.rq, x) => x \in Handlers /\ QueuedFor(D.rq, x.client)
  BY <1>4, LateRange
<1>8. QueuedFor(D.rq, c) => QueuedFor(P.rq, c)
  <2> SUFFICES ASSUME QueuedFor(D.rq, c) PROVE QueuedFor(P.rq, c) OBVIOUS
  <2>1. PICK x \in Handlers : In(D.rq, x) /\ x.client = c BY <1>4, LateRange
  <2>2. PICK y : In(P.rq, y) /\ y.client = c BY <1>3, <2>1
  <2> QED BY <1>6, <2>2
<1>9. CASE P.pend[c] = NULL
  <2>1. Q = D BY <1>9 DEF Close, D
  <2> HIDE DEF Q
  <2>2. \A h : In(D.rq, h) /\ h.client = c => h.stale /\ h.how # "ready"
    BY <1>3
  <2> QED BY <1>1, <1>2, <1>3, <1>5, <1>8, <2>1, <2>2 DEF Same, Q
<1>10. CASE P.pend[c] # NULL
  <2> DEFINE g == [op |-> P.pend[c], client |-> c, how |-> "failed", stale |-> TRUE]
  <2>1. g \in Handlers
    BY <1>10, WatchAssumption DEF Handlers, Handler, ClientOp, Pools
  <2>2. Q = [D EXCEPT !.rq = Append(D.rq, g)] BY <1>10 DEF Close, Queue, D
  <2>3. g.client = c /\ g.stale /\ g.how = "failed" OBVIOUS
  <2> HIDE DEF g, Q
  <2>4. Q.rq = Append(D.rq, g) /\ Q.pend = D.pend BY <1>1, <2>2 DEF Pools
  <2>5. /\ \A x : In(Q.rq, x) <=> In(D.rq, x) \/ x = g
        /\ Single(D.rq) /\ ~QueuedFor(D.rq, c) => Single(Q.rq)
        /\ \A d, r : Late(Q.rq, d, r) =>
              Late(D.rq, d, r) \/ (d = c /\ r = NewRounds(D.rq, g))
    BY <1>4, <2>1, <2>3, <2>4, AppendIs
  <2>6. ~QueuedFor(D.rq, c)
    <3> SUFFICES ASSUME QueuedFor(D.rq, c) PROVE FALSE OBVIOUS
    <3>1. PICK x \in Handlers : In(D.rq, x) /\ x.client = c BY <1>4, LateRange
    <3>2. PICK y : In(P.rq, y) /\ y.client = c /\ y.how # "ready" BY <1>3, <3>1
    <3> QED BY <1>6, <1>10, <3>2
  <2>7. Single(Q.rq) BY <1>3, <2>5, <2>6
  <2>8. NewRounds(D.rq, g) <= 1 BY <2>3 DEF NewRounds
  <2>9. \A h : In(Q.rq, h) /\ h.client = c => h.stale /\ h.how # "ready"
    BY <1>7, <2>3, <2>5, <2>6
  <2>10. \A h : h.client # c => (In(Q.rq, h) <=> In(P.rq, h))
    BY <1>3, <2>3, <2>5
  <2>11. \A d, r : d # c /\ Late(Q.rq, d, r) => Late(P.rq, d, r)
    BY <1>3, <2>5
  <2>12. AcceptLast(P.rq) => \A r : Late(Q.rq, c, r) => r <= 1
    BY <1>5, <2>5, <2>8
  <2> QED BY <1>1, <1>2, <1>10, <2>4, <2>7, <2>9, <2>10, <2>11, <2>12
      DEF Same, Q
<1> QED BY <1>9, <1>10

\* The other clients are served as before.
LEMMA CloseServes ==
    ASSUME NEW P \in Pools, NEW O \in SUBSET Client, Serves(P, O), NEW c \in Client
    PROVE  /\ \A h \in Handlers : In(P.rq, h) /\ h.client = c /\ P.pend[c] # NULL
                 => h.how = "ready"
           /\ \A Q \in Pools : Q.rq = Close(P, c).rq /\ Q.pend = Close(P, c).pend
                 => Serves(Q, O \ {c})
<1>1. \A h \in Handlers : In(P.rq, h) /\ h.client = c /\ P.pend[c] # NULL
         => h.how = "ready"
  BY DEF Serves
<1>2. ASSUME NEW Q \in Pools, Q.rq = Close(P, c).rq, Q.pend = Close(P, c).pend
      PROVE  Serves(Q, O \ {c})
  <2>1. /\ Q.pend = [P.pend EXCEPT ![c] = NULL] /\ Single(Q.rq)
        /\ \A h : h.client # c => (In(Q.rq, h) <=> In(P.rq, h))
        /\ \A h : In(Q.rq, h) /\ h.client = c => h.stale /\ h.how # "ready"
    BY <1>1, <1>2, CloseIs DEF Serves
  <2>2. P.pend \in [Client -> ClientOp \cup {NULL}] BY DEF Pools
  <2>3. Q.pend[c] = NULL /\ \A d \in Client : d # c => Q.pend[d] = P.pend[d]
    BY <2>1, <2>2
  <2>4. \A d \in Client : d \notin O \ {c} => Q.pend[d] = NULL
    BY <2>3 DEF Serves
  <2>5. ASSUME NEW d \in O \ {c}, Q.pend[d] = NULL
        PROVE  \E h \in Handlers : In(Q.rq, h) /\ h.client = d /\ h.how # "ready"
    <3>1. P.pend[d] = NULL BY <2>3, <2>5
    <3>2. PICK h \in Handlers : In(P.rq, h) /\ h.client = d /\ h.how # "ready"
      BY <2>5, <3>1 DEF Serves
    <3> QED BY <2>1, <2>5, <3>2
  <2>6. ASSUME NEW h \in Handlers, In(Q.rq, h), h.client # c
        PROVE  In(P.rq, h)
    BY <2>1, <2>6
  <2>7. ASSUME NEW h \in Handlers, In(Q.rq, h), h.client \in O \ {c},
               Q.pend[h.client] # NULL
        PROVE  h.how = "ready" /\ h.op = Q.pend[h.client]
    BY <2>3, <2>6, <2>7 DEF Serves
  <2>8. ASSUME NEW h \in Handlers, In(Q.rq, h)
        PROVE  /\ h.client \in Client => (h.stale <=> h.client \notin O \ {c})
               /\ h.stale => h.client \in Client /\ h.how # "ready"
    <3>1. CASE h.client = c BY <2>1, <2>8, <3>1
    <3>2. CASE h.client # c BY <2>6, <2>8, <3>2 DEF Serves
    <3> QED BY <3>1, <3>2
  <2> QED BY <2>1, <2>4, <2>5, <2>7, <2>8 DEF Serves
<1> QED BY <1>1, <1>2

\* Recycle_Clnt where a client is set aside: the acceptor has nothing to do.
LEMMA RecycleIs ==
    ASSUME NEW P \in Pools, Sound(P), P.under # NULL, NEW O \in SUBSET Client,
           Serves(P, O), NEW c \in Client, NEW now \in BOOLEAN
    PROVE  LET Q == Recycle(P, c, now)
           IN /\ Q \in Pools /\ Sound(Q) /\ Serves(Q, O \ {c})
              /\ Q.clnts = List!MoveToEnd(P.clnts, c) /\ Q.under = P.under
              /\ \A d, r : d # c /\ Late(Q.rq, d, r) => Late(P.rq, d, r)
              /\ AcceptLast(P.rq) => \A r : Late(Q.rq, c, r) => r <= 1
              /\ QueuedFor(Q.rq, c) => QueuedFor(P.rq, c) \/ P.pend[c] # NULL
<1> DEFINE Q == Recycle(P, c, now)
           D == Close(P, c)
           L == List!MoveToEnd(P.clnts, c)
<1>0. Single(P.rq) BY DEF Serves
<1>1. \A h \in Handlers : In(P.rq, h) /\ h.client = c /\ P.pend[c] # NULL
         => h.how = "ready"
  BY CloseServes
<1>2. /\ D \in Pools /\ D.clnts = P.clnts /\ D.under = P.under
      /\ \A d, r : d # c /\ Late(D.rq, d, r) => Late(P.rq, d, r)
      /\ AcceptLast(P.rq) => \A r : Late(D.rq, c, r) => r <= 1
      /\ QueuedFor(D.rq, c) => QueuedFor(P.rq, c) \/ P.pend[c] # NULL
  BY <1>0, <1>1, CloseIs
<1>3. L \in Lists(Client) BY MoveToEndKeeps DEF Pools
<1> HIDE DEF L
<1>4. Q = [D EXCEPT !.clnts = L] BY <1>2 DEF Recycle, L
<1>5. Q \in Pools /\ Sound(Q) BY RecycleKeeps
<1> HIDE DEF Q
<1>6. Q.clnts = L /\ Q.under = P.under /\ Q.rq = D.rq /\ Q.pend = D.pend
  BY <1>2, <1>3, <1>4 DEF Pools
<1>7. Serves(Q, O \ {c}) BY <1>5, <1>6, CloseServes DEF D
<1> QED BY <1>2, <1>5, <1>6, <1>7 DEF Q, L

\* The client that has been set aside, or whose handler is running, is done with.
LEMMA RecycleLimbo ==
    ASSUME NEW P, NEW O, NEW a \in Client, Orderly(P, O, a), P.under # NULL,
           NEW now \in BOOLEAN
    PROVE  Orderly(Recycle(P, a, now), O, NULL)
<1> DEFINE Q == Recycle(P, a, now)
           L == P.clnts
           M == List!MoveToEnd(L, a)
<1>1. /\ P \in Pools /\ Sound(P) /\ O \in SUBSET Client /\ Serves(P, O)
      /\ P.rq \in Seq(Handlers) /\ NULL \notin Client
      /\ P.under \in Client /\ L \in Perms(Client)
      /\ a \notin O /\ P.under \notin O /\ a # P.under
      /\ \A c \in Client : Ahead(L, c) < 0 <=> c \in O \cup {P.under, a}
      /\ LateFew(P.rq, L)
  BY WatchAssumption DEF Orderly, Shares, Pools
<1>2. /\ Q \in Pools /\ Sound(Q) /\ Serves(Q, O \ {a})
      /\ Q.clnts = M /\ Q.under = P.under
      /\ \A d, r : d # a /\ Late(Q.rq, d, r) => Late(P.rq, d, r)
      /\ QueuedFor(Q.rq, a) => QueuedFor(P.rq, a) \/ P.pend[a] # NULL
  BY <1>1, RecycleIs, ZenonT(30)
<1> HIDE DEF Q
<1>3. O \ {a} = O BY <1>1
<1>4. ~QueuedFor(Q.rq, a)
  <2>1. ~QueuedFor(P.rq, a) BY NoneQueued
  <2>2. P.pend[a] = NULL BY <1>1 DEF Serves
  <2> QED BY <1>2, <2>1, <2>2
<1>5. /\ M \in Perms(Client) /\ Spare(M) = Spare(L) + 1 /\ Ahead(M, a) = Spare(L)
      /\ \A x \in Client : x # a =>
            IF Ahead(L, x) < 0 THEN Ahead(M, x) < 0 ELSE Ahead(M, x) = Ahead(L, x)
  BY <1>1, MoveUsed
<1>6. /\ Spare(L) \in Nat /\ \A x \in Client : Ahead(L, x) \in Int
      /\ \A x \in Client : Ahead(M, x) \in Int
  BY <1>1, <1>5, AheadIs
<1> HIDE DEF M, L
<1>7. \A x \in Client : Ahead(M, x) < 0 <=> x \in O \cup {P.under, NULL}
  BY <1>1, <1>5, <1>6
<1>8. Shares(Q, O, NULL) BY <1>1, <1>2, <1>5, <1>7 DEF Shares
<1>9. Q.rq \in Seq(Handlers) BY <1>2 DEF Pools
<1>10. \A c \in Client, r \in 0 .. 2 : Late(Q.rq, c, r) =>
          c # a /\ Late(P.rq, c, r)
  BY <1>2, <1>4, <1>9, LateRange
<1>11. LateFew(P.rq, M)
  <2>1. \A c \in Client, r \in 0 .. 2 : Late(P.rq, c, r) => c # a /\ ~(Ahead(L, c) < 0)
    <3> SUFFICES ASSUME NEW c \in Client, NEW r \in 0 .. 2, Late(P.rq, c, r)
                 PROVE  c # a /\ ~(Ahead(L, c) < 0)
      OBVIOUS
    <3>1. Ahead(L, c) >= 1 + r BY <1>1 DEF LateFew
    <3>2. ~(Ahead(L, c) < 0) BY <1>6, <3>1
    <3> QED BY <1>1, <3>2
  <2>2. \A c \in Client, r \in 0 .. 2 : Late(P.rq, c, r) => Ahead(M, c) = Ahead(L, c)
    BY <1>5, <2>1
  <2> QED BY <1>1, <2>2 DEF LateFew
<1>12. LateFew(Q.rq, M)
  BY <1>5, <1>10, <1>11, LateFewer
<1> QED BY <1>2, <1>3, <1>8, <1>12 DEF Orderly, Q

\* One late handler at most, with no round to go.
LateOne(q) ==
    /\ \A c \in Client, r \in 0 .. 2 : Late(q, c, r) => r = 0
    /\ \A c, d \in Client, r, s \in 0 .. 2 : Late(q, c, r) /\ Late(q, d, s) => c = d

\* An open client is recycled by the accept of another connection.
LEMMA RecycleOpen ==
    ASSUME NEW P, NEW O, NEW a \in Client, Orderly(P, O, a), P.under # NULL,
           NEW c \in O, NEW now \in BOOLEAN,
           LateOne(P.rq), AcceptLast(P.rq), Spare(P.clnts) >= 3
    PROVE  Orderly(Recycle(P, c, now), O \ {c}, a)
<1> DEFINE Q == Recycle(P, c, now)
           L == P.clnts
           M == List!MoveToEnd(L, c)
<1>1. /\ P \in Pools /\ Sound(P) /\ O \in SUBSET Client /\ Serves(P, O)
      /\ P.rq \in Seq(Handlers) /\ NULL \notin Client /\ c \in Client
      /\ P.under \in Client /\ L \in Perms(Client)
      /\ a \notin O /\ P.under \notin O /\ a # P.under
      /\ \A x \in Client : Ahead(L, x) < 0 <=> x \in O \cup {P.under, a}
      /\ LateFew(P.rq, L)
  BY WatchAssumption DEF Orderly, Shares, Pools
<1>2. /\ Q \in Pools /\ Sound(Q) /\ Serves(Q, O \ {c})
      /\ Q.clnts = M /\ Q.under = P.under
      /\ \A d, r : d # c /\ Late(Q.rq, d, r) => Late(P.rq, d, r)
      /\ \A r : Late(Q.rq, c, r) => r <= 1
  BY <1>1, RecycleIs
<1> HIDE DEF Q
<1>3. Ahead(L, c) < 0 BY <1>1
<1>4. /\ M \in Perms(Client) /\ Spare(M) = Spare(L) + 1 /\ Ahead(M, c) = Spare(L)
      /\ \A x \in Client : x # c =>
            IF Ahead(L, x) < 0 THEN Ahead(M, x) < 0 ELSE Ahead(M, x) = Ahead(L, x)
  BY <1>1, <1>3, MoveUsed
<1>5. /\ Spare(L) \in Nat
      /\ \A x \in Client : Ahead(L, x) \in Int /\ Ahead(L, x) < Spare(L)
      /\ \A x \in Client : Ahead(M, x) \in Int
  BY <1>1, <1>4, AheadIs
<1>6. Spare(L) >= 3 OBVIOUS
<1> HIDE DEF M, L
<1>7. \A x \in Client : Ahead(M, x) < 0 <=> x \in (O \ {c}) \cup {P.under, a}
  <2> SUFFICES ASSUME NEW x \in Client
               PROVE  Ahead(M, x) < 0 <=> x \in (O \ {c}) \cup {P.under, a}
    OBVIOUS
  <2>1. CASE x = c BY <1>1, <1>4, <1>5, <2>1
  <2>2. CASE x # c BY <1>1, <1>4, <1>5, <2>2
  <2> QED BY <2>1, <2>2
<1>8. Shares(Q, O \ {c}, a) BY <1>1, <1>2, <1>4, <1>7 DEF Shares
<1>9. ASSUME NEW d \in Client, NEW r \in 0 .. 2, Late(Q.rq, d, r), d # c
      PROVE  r = 0 /\ Ahead(M, d) >= 1 /\ Ahead(M, d) < Spare(L)
  <2>1. Late(P.rq, d, r) BY <1>2, <1>9
  <2>2. r = 0 BY <2>1 DEF LateOne
  <2>3. Ahead(L, d) >= 1 + r BY <1>1, <2>1 DEF LateFew
  <2>4. ~(Ahead(L, d) < 0) BY <1>5, <2>3
  <2>5. Ahead(M, d) = Ahead(L, d) BY <1>4, <1>9, <2>4
  <2> QED BY <1>5, <2>2, <2>3, <2>5
<1>10. ASSUME NEW d \in Client, NEW e \in Client, NEW r \in 0 .. 2, NEW s \in 0 .. 2,
              Late(Q.rq, d, r), Late(Q.rq, e, s)
       PROVE  d = c \/ e = c \/ d = e
  <2> SUFFICES ASSUME d # c, e # c PROVE d = e OBVIOUS
  <2>1. Late(P.rq, d, r) /\ Late(P.rq, e, s) BY <1>2, <1>10
  <2> QED BY <2>1 DEF LateOne
<1>11. LateFew(Q.rq, M)
  <2>1. ASSUME NEW d \in Client, NEW r \in 0 .. 2, Late(Q.rq, d, r)
        PROVE  r <= 1 /\ Ahead(M, d) >= 1 + r
    <3>1. CASE d = c BY <1>2, <1>4, <1>5, <1>6, <2>1, <3>1
    <3>2. CASE d # c BY <1>9, <2>1, <3>2
    <3> QED BY <3>1, <3>2
  <2>2. ASSUME NEW d \in Client, NEW e \in Client, NEW r \in 0 .. 2,
               NEW s \in 0 .. 2, d # e, Late(Q.rq, d, r), Late(Q.rq, e, s)
        PROVE  /\ r + s <= 1
               /\ Ahead(M, d) < Ahead(M, e) => Ahead(M, e) >= 2 + s
    <3>1. CASE d = c
      <4>1. r <= 1 /\ s = 0 /\ Ahead(M, e) < Ahead(M, d)
        BY <1>2, <1>4, <1>9, <2>2, <3>1
      <4> QED BY <1>5, <4>1
    <3>2. CASE e = c
      <4>1. s <= 1 /\ r = 0 /\ Ahead(M, e) >= 3
        BY <1>2, <1>4, <1>6, <1>9, <2>2, <3>2
      <4> QED BY <1>5, <4>1
    <3> QED BY <1>10, <2>2, <3>1, <3>2
  <2>3. ASSUME NEW d \in Client, NEW e \in Client, NEW f \in Client,
               NEW r \in 0 .. 2, NEW s \in 0 .. 2, NEW t \in 0 .. 2,
               Late(Q.rq, d, r), Late(Q.rq, e, s), Late(Q.rq, f, t)
        PROVE  d = e \/ e = f \/ d = f
    <3>1. /\ d = c \/ e = c \/ d = e
          /\ d = c \/ f = c \/ d = f
          /\ e = c \/ f = c \/ e = f
      BY <1>10, <2>3
    <3> QED BY <3>1
  <2> QED BY <2>1, <2>2, <2>3 DEF LateFew
<1> QED BY <1>2, <1>8, <1>11 DEF Orderly, Q

\* A late handler recycles its client once more.
LEMMA RecycleStale ==
    ASSUME NEW P, NEW O, Orderly(P, O, NULL), P.under # NULL,
           NEW c \in Client, c \notin O, ~QueuedFor(P.rq, c),
           Ahead(P.clnts, c) >= 1, NEW now \in BOOLEAN,
           \A d \in Client, r \in 0 .. 2 : Late(P.rq, d, r)
              /\ Ahead(P.clnts, c) < Ahead(P.clnts, d) => Ahead(P.clnts, d) >= 2 + r,
           \A d, e \in Client, r, s \in 0 .. 2 :
              Late(P.rq, d, r) /\ Late(P.rq, e, s) => d = e
    PROVE  Orderly(Recycle(P, c, now), O, NULL)
<1> DEFINE Q == Recycle(P, c, now)
           L == P.clnts
           M == List!MoveToEnd(L, c)
<1>1. /\ P \in Pools /\ Sound(P) /\ O \in SUBSET Client /\ Serves(P, O)
      /\ P.rq \in Seq(Handlers) /\ NULL \notin Client
      /\ P.under \in Client /\ L \in Perms(Client)
      /\ P.under \notin O
      /\ \A x \in Client : Ahead(L, x) < 0 <=> x \in O \cup {P.under, NULL}
      /\ LateFew(P.rq, L)
  BY WatchAssumption DEF Orderly, Shares, Pools
<1>2. /\ Q \in Pools /\ Sound(Q) /\ Serves(Q, O \ {c})
      /\ Q.clnts = M /\ Q.under = P.under
      /\ \A d, r : d # c /\ Late(Q.rq, d, r) => Late(P.rq, d, r)
      /\ QueuedFor(Q.rq, c) => QueuedFor(P.rq, c) \/ P.pend[c] # NULL
  BY <1>1, RecycleIs
<1> HIDE DEF Q
<1>3. O \ {c} = O OBVIOUS
<1>4. ~QueuedFor(Q.rq, c)
  <2>1. P.pend[c] = NULL BY <1>1 DEF Serves
  <2> QED BY <1>2, <2>1
<1>5. /\ M \in Perms(Client) /\ Spare(M) = Spare(L) /\ Ahead(M, c) = Spare(L) - 1
      /\ \A x \in Client : x # c =>
            Ahead(M, x) = IF Ahead(L, x) > Ahead(L, c)
                          THEN Ahead(L, x) - 1 ELSE Ahead(L, x)
  BY <1>1, MoveFree
<1>6. /\ Spare(L) \in Nat
      /\ \A x \in Client : Ahead(L, x) \in Int /\ Ahead(L, x) < Spare(L)
      /\ \A x \in Client : Ahead(M, x) \in Int
      /\ Ahead(L, c) >= 1
      /\ \A d \in Client, r \in 0 .. 2 : Late(P.rq, d, r)
              /\ Ahead(L, c) < Ahead(L, d) => Ahead(L, d) >= 2 + r
  BY <1>1, <1>5, AheadIs
<1> HIDE DEF M, L
<1>7. \A x \in Client : Ahead(M, x) < 0 <=> x \in O \cup {P.under, NULL}
  <2> SUFFICES ASSUME NEW x \in Client
               PROVE  Ahead(M, x) < 0 <=> Ahead(L, x) < 0
    BY <1>1
  <2>1. CASE x = c BY <1>5, <1>6, <2>1
  <2>2. CASE x # c /\ Ahead(L, x) > Ahead(L, c) BY <1>5, <1>6, <2>2
  <2>3. CASE x # c /\ ~(Ahead(L, x) > Ahead(L, c)) BY <1>5, <1>6, <2>3
  <2> QED BY <2>1, <2>2, <2>3
<1>8. Shares(Q, O, NULL) BY <1>1, <1>2, <1>5, <1>7 DEF Shares
<1>9. Q.rq \in Seq(Handlers) BY <1>2 DEF Pools
<1>10. \A d \in Client, r \in 0 .. 2 : Late(Q.rq, d, r) =>
          d # c /\ Late(P.rq, d, r)
  BY <1>2, <1>4, <1>9, LateRange
<1>11. LateFew(Q.rq, M)
  <2>1. ASSUME NEW d \in Client, NEW r \in 0 .. 2, Late(Q.rq, d, r)
        PROVE  r <= 1 /\ Ahead(M, d) >= 1 + r
    <3>1. d # c /\ Late(P.rq, d, r) BY <1>10, <2>1
    <3>2. r <= 1 /\ Ahead(L, d) >= 1 + r BY <1>1, <3>1 DEF LateFew
    <3>3. CASE Ahead(L, d) > Ahead(L, c)
      <4>1. Ahead(L, d) >= 2 + r BY <1>6, <3>1, <3>3
      <4>2. Ahead(M, d) = Ahead(L, d) - 1 BY <1>5, <3>1, <3>3
      <4> QED BY <1>6, <3>2, <4>1, <4>2
    <3>4. CASE ~(Ahead(L, d) > Ahead(L, c)) BY <1>5, <3>1, <3>2, <3>4
    <3> QED BY <3>3, <3>4
  <2>2. \A d, e \in Client, r, s \in 0 .. 2 :
           Late(Q.rq, d, r) /\ Late(Q.rq, e, s) => d = e
    BY <1>10
  <2> QED BY <2>1, <2>2 DEF LateFew
<1> QED BY <1>2, <1>3, <1>8, <1>11 DEF Orderly, Q

\* The running handler's client goes on with its connection, or has a new one.
LEMMA StartOrderly ==
    ASSUME NEW P, NEW O, NEW a \in Client, Orderly(P, O, a),
           NEW op \in ClientOp, NEW now \in BOOLEAN
    PROVE  Orderly(Start(P, op, a, TRUE, FALSE, now), O \cup {a}, NULL)
<1> DEFINE Q == Start(P, op, a, TRUE, FALSE, now)
           g == [op |-> op, client |-> a, how |-> "done", stale |-> FALSE]
<1>1. /\ P \in Pools /\ Sound(P) /\ O \in SUBSET Client /\ Serves(P, O)
      /\ P.rq \in Seq(Handlers) /\ NULL \notin Client
      /\ P.clnts \in Perms(Client)
      /\ a \notin O /\ P.under \notin O /\ a # P.under
      /\ LateFew(P.rq, P.clnts)
  BY WatchAssumption DEF Orderly, Shares, Pools
<1>2. Q \in Pools /\ Same(P, Q) BY <1>1, StartKeeps
<1>3. Sound(Q) BY <1>1, <1>2, SameSound
<1>4. ~QueuedFor(P.rq, a) BY NoneQueued
<1>5. g \in Handlers BY <1>1 DEF Handlers, Handler, ClientOp
<1>6. g.client = a /\ g.how = "done" /\ ~g.stale OBVIOUS
<1>7. Q = IF now THEN [P EXCEPT !.rq = Append(P.rq, g)]
                 ELSE [P EXCEPT !.pend[a] = op]
  BY DEF Start, Queue
<1>8. op # NULL BY ServerAssumption
<1> HIDE DEF Q, g
<1>9. CASE now
  <2>1. Q.rq = Append(P.rq, g) /\ Q.clnts = P.clnts /\ Q.under = P.under
        /\ Q.pend = P.pend
    BY <1>1, <1>7, <1>9 DEF Pools
  <2>2. /\ \A x : In(Q.rq, x) <=> In(P.rq, x) \/ x = g
        /\ Single(P.rq) /\ ~QueuedFor(P.rq, a) => Single(Q.rq)
        /\ \A c, r : Late(Q.rq, c, r) => Late(P.rq, c, r)
    BY <1>1, <1>5, <1>6, <2>1, AppendIs
  <2>3. \A h : In(P.rq, h) => h.client # a BY <1>1, <1>4, LateRange
  <2>4. ASSUME NEW d \in O \cup {a}, Q.pend[d] = NULL
        PROVE  \E h \in Handlers : In(Q.rq, h) /\ h.client = d /\ h.how # "ready"
    <3>1. CASE d = a BY <1>5, <1>6, <2>2, <3>1
    <3>2. CASE d \in O BY <1>1, <2>1, <2>2, <2>4, <3>2 DEF Serves
    <3> QED BY <3>1, <3>2
  <2>5. ASSUME NEW h \in Handlers, In(Q.rq, h)
        PROVE  /\ h.client \in O \cup {a} /\ Q.pend[h.client] # NULL
                     => h.how = "ready" /\ h.op = Q.pend[h.client]
               /\ h.client \in Client => (h.stale <=> h.client \notin O \cup {a})
               /\ h.stale => h.client \in Client /\ h.how # "ready"
    <3>1. CASE h = g
      <4>1. Q.pend[a] = NULL BY <1>1, <2>1 DEF Serves
      <4> QED BY <1>6, <3>1, <4>1
    <3>2. CASE h # g
      <4>1. In(P.rq, h) /\ h.client # a BY <2>2, <2>3, <2>5, <3>2
      <4> QED BY <1>1, <2>1, <4>1 DEF Serves
    <3> QED BY <3>1, <3>2
  <2>6. Serves(Q, O \cup {a}) BY <1>1, <1>4, <2>1, <2>2, <2>4, <2>5 DEF Serves
  <2>7. LateFew(Q.rq, Q.clnts) BY <1>1, <2>1, <2>2, LateFewer
  <2>8. Shares(Q, O \cup {a}, NULL) BY <1>1, <2>1 DEF Orderly, Shares
  <2> QED BY <1>2, <1>3, <2>6, <2>7, <2>8 DEF Orderly, Q
<1>10. CASE ~now
  <2>1. Q.rq = P.rq /\ Q.clnts = P.clnts /\ Q.under = P.under
        /\ Q.pend = [P.pend EXCEPT ![a] = op]
    BY <1>1, <1>7, <1>10 DEF Pools
  <2>2. \A h : In(P.rq, h) => h.client # a BY <1>1, <1>4, LateRange
  <2>3. P.pend \in [Client -> ClientOp \cup {NULL}] BY <1>1 DEF Pools
  <2>4. Q.pend[a] # NULL /\ \A d \in Client : d # a => Q.pend[d] = P.pend[d]
    BY <1>8, <2>1, <2>3
  <2>5. ASSUME NEW d \in O \cup {a}, Q.pend[d] = NULL
        PROVE  \E h \in Handlers : In(Q.rq, h) /\ h.client = d /\ h.how # "ready"
    BY <1>1, <2>1, <2>4, <2>5 DEF Serves
  <2>6. ASSUME NEW h \in Handlers, In(Q.rq, h)
        PROVE  /\ h.client \in O \cup {a} /\ Q.pend[h.client] # NULL
                     => h.how = "ready" /\ h.op = Q.pend[h.client]
               /\ h.client \in Client => (h.stale <=> h.client \notin O \cup {a})
               /\ h.stale => h.client \in Client /\ h.how # "ready"
    <3>1. In(P.rq, h) /\ h.client # a BY <2>1, <2>2, <2>6
    <3> QED BY <1>1, <2>4, <3>1 DEF Serves
  <2>7. Serves(Q, O \cup {a}) BY <1>1, <2>1, <2>4, <2>5, <2>6 DEF Serves
  <2>8. LateFew(Q.rq, Q.clnts) BY <1>1, <2>1
  <2>9. Shares(Q, O \cup {a}, NULL) BY <1>1, <2>1 DEF Orderly, Shares
  <2> QED BY <1>2, <1>3, <2>7, <2>8, <2>9 DEF Orderly, Q
<1> QED BY <1>9, <1>10

\* The handlers behind that of the accept.
LEMMA TailAccept ==
    ASSUME NEW q \in Seq(Handlers), q # <<>>, Head(q).op = "accept",
           NoAccept(Tail(q)), NEW c, NEW r, Late(Tail(q), c, r)
    PROVE  Late(q, c, r + 1)
<1> DEFINE t == Tail(q)
           n == Len(q)
<1>1. /\ n \in Nat /\ n # 0 /\ DOMAIN q = 1 .. n /\ DOMAIN t = 1 .. n - 1
      /\ Head(q) = q[1] /\ \A i \in 1 .. n - 1 : t[i] = q[i + 1]
  BY HeadTailProperties, LenProperties, EmptySeq
<1> HIDE DEF t, n
<1>2. PICK i \in DOMAIN t : t[i].client = c /\ t[i].stale /\ Rounds(t, i) = r
  BY DEF Late, t
<1>3. ~AcceptBefore(t, i) BY DEF AcceptBefore, NoAccept, t
<1>4. /\ i + 1 \in DOMAIN q /\ q[i + 1] = t[i] /\ 1 \in DOMAIN q
      /\ 1 < i + 1
  BY <1>1
<1>5. AcceptBefore(q, i + 1) BY <1>1, <1>4 DEF AcceptBefore
<1>6. Rounds(q, i + 1) = r + 1 BY <1>2, <1>3, <1>4, <1>5 DEF Rounds
<1> QED BY <1>2, <1>4, <1>6 DEF Late

\* The pool and its queue when a handler of a client begins.
LEMMA BegunFacts ==
    ASSUME Orderly(Pool, open, NULL), NEW op, NEW c \in Client, Running(op, c)
    PROVE  /\ Begun \in Pools /\ Sound(Begun)
           /\ Begun.under = under /\ Begun.clnts = clnts /\ Begun.rq = Tail(rq)
           /\ Begun.pend = [pend EXCEPT ![c] = NULL]
           /\ Head(rq) \in Handlers /\ In(rq, Head(rq)) /\ Head(rq).client = c
           /\ rq \in Seq(Handlers) /\ Tail(rq) \in Seq(Handlers)
           /\ Single(Tail(rq)) /\ ~QueuedFor(Tail(rq), c)
           /\ \A x : In(Tail(rq), x) => In(rq, x)
           /\ \A x : In(rq, x) => In(Tail(rq), x) \/ x = Head(rq)
           /\ Head(rq).stale => Late(rq, c, IF Head(rq).how = "done" THEN 1 ELSE 0)
           /\ \A d, r : Late(Tail(rq), d, r) => Late(rq, d, r)
<1> DEFINE p == IF Head(rq).how = "ready" /\ Head(rq).client # NULL
                THEN [pend EXCEPT ![Head(rq).client] = NULL] ELSE pend
<1>1. /\ rq \in Seq(Handlers) /\ rq # <<>> /\ Single(rq) /\ Head(rq).client = c
      /\ Head(rq).op = op
      /\ pend \in [Client -> ClientOp \cup {NULL}] /\ NULL \notin Client
      /\ Pool \in Pools /\ PoolOK
  BY WatchAssumption DEF Orderly, Serves, Pools, Pool, Running, PoolOK
<1>2. /\ Head(rq) \in Handlers /\ In(rq, Head(rq)) /\ Tail(rq) \in Seq(Handlers)
      /\ \A x : In(Tail(rq), x) => In(rq, x)
      /\ \A x : In(rq, x) => In(Tail(rq), x) \/ x = Head(rq)
      /\ Single(Tail(rq)) /\ ~QueuedFor(Tail(rq), c)
      /\ Head(rq).stale => Late(rq, c, IF Head(rq).how = "done" THEN 1 ELSE 0)
      /\ \A d, r : Late(Tail(rq), d, r) =>
            Late(rq, d, r) \/ (Head(rq).op = "accept" /\ Late(rq, d, r + 1))
  BY <1>1, TailIs
<1>3. op # "accept" BY <1>1, <1>2 DEF Handlers
<1>4. /\ Begun \in Pools /\ Sound(Begun) /\ Begun.under = under
      /\ Begun.clnts = clnts
  BY <1>1, <1>3, BegunIs
<1>5. Begun.rq = Tail(rq) /\ Begun.pend = p BY DEF Begun, Pool
<1>6. p = [pend EXCEPT ![c] = NULL]
  <2>1. CASE Head(rq).how = "ready" BY <1>1, <2>1
  <2>2. CASE Head(rq).how # "ready"
    <3>1. pend[c] = NULL
      <4>1. CASE c \in open
        BY <1>1, <1>2, <2>2, <4>1 DEF Orderly, Serves, Pool
      <4>2. CASE c \notin open BY <4>2 DEF Orderly, Serves, Pool
      <4> QED BY <4>1, <4>2
    <3> QED BY <1>1, <2>2, <3>1
  <2> QED BY <2>1, <2>2
<1> QED BY <1>1, <1>2, <1>3, <1>4, <1>5, <1>6

\* A handler of an open connection begins.
LEMMA BegunOpen ==
    ASSUME Orderly(Pool, open, NULL), NEW op, NEW c \in open, Running(op, c)
    PROVE  Orderly(Begun, open \ {c}, c) /\ ~Head(rq).stale
<1> DEFINE B == Begun
<1>0. open \in SUBSET Client /\ c \in Client BY DEF Orderly, Shares
<1>1. /\ B \in Pools /\ Sound(B)
      /\ B.under = under /\ B.clnts = clnts /\ B.rq = Tail(rq)
      /\ B.pend = [pend EXCEPT ![c] = NULL]
      /\ Head(rq) \in Handlers /\ In(rq, Head(rq)) /\ Head(rq).client = c
      /\ rq \in Seq(Handlers) /\ Tail(rq) \in Seq(Handlers)
      /\ Single(Tail(rq)) /\ ~QueuedFor(Tail(rq), c)
      /\ \A x : In(Tail(rq), x) => In(rq, x)
      /\ \A x : In(rq, x) => In(Tail(rq), x) \/ x = Head(rq)
      /\ \A d, r : Late(Tail(rq), d, r) => Late(rq, d, r)
  BY <1>0, BegunFacts
<1> HIDE DEF B
<1>2. /\ Shares(Pool, open, NULL) /\ Serves(Pool, open) /\ LateFew(rq, clnts)
      /\ Pool.rq = rq /\ Pool.clnts = clnts /\ Pool.under = under /\ Pool.pend = pend
      /\ clnts \in Perms(Client) /\ NULL \notin Client
      /\ pend \in [Client -> ClientOp \cup {NULL}]
  BY WatchAssumption DEF Orderly, Shares, Pool, Pools
<1>3. ~Head(rq).stale BY <1>0, <1>1, <1>2 DEF Serves
<1>4. Shares(B, open \ {c}, c)
  <2>1. c # under BY <1>2 DEF Shares
  <2>2. (open \ {c}) \cup {under, c} = open \cup {under} OBVIOUS
  <2>3. \A d \in Client : Ahead(clnts, d) < 0 <=> d \in open \cup {under}
    BY <1>2 DEF Shares
  <2> QED BY <1>0, <1>1, <1>2, <2>1, <2>2, <2>3 DEF Shares
<1>5. \A d \in Client : d # c => B.pend[d] = pend[d] BY <1>1, <1>2
<1>6. B.pend[c] = NULL BY <1>0, <1>1, <1>2
<1>7. \A h : In(Tail(rq), h) => h.client # c BY <1>1, LateRange
<1>8. Serves(B, open \ {c})
  <2>1. \A d \in Client : d \notin open \ {c} => B.pend[d] = NULL
    BY <1>2, <1>5, <1>6 DEF Serves
  <2>2. ASSUME NEW d \in open \ {c}, B.pend[d] = NULL
        PROVE  \E h \in Handlers : In(Tail(rq), h) /\ h.client = d /\ h.how # "ready"
    <3>1. pend[d] = NULL /\ d \in open BY <1>0, <1>5, <2>2
    <3>2. PICK h \in Handlers : In(rq, h) /\ h.client = d /\ h.how # "ready"
      BY <1>2, <3>1 DEF Serves
    <3>3. h # Head(rq) BY <1>1, <2>2, <3>2
    <3> QED BY <1>1, <3>2, <3>3
  <2>3. ASSUME NEW h \in Handlers, In(Tail(rq), h)
        PROVE  /\ h.client \in open \ {c} /\ B.pend[h.client] # NULL
                     => h.how = "ready" /\ h.op = B.pend[h.client]
               /\ h.client \in Client => (h.stale <=> h.client \notin open \ {c})
               /\ h.stale => h.client \in Client /\ h.how # "ready"
    <3>1. In(rq, h) /\ h.client # c BY <1>1, <1>7, <2>3
    <3>2. /\ h.client \in open /\ pend[h.client] # NULL
                => h.how = "ready" /\ h.op = pend[h.client]
          /\ h.client \in Client => (h.stale <=> h.client \notin open)
          /\ h.stale => h.client \in Client /\ h.how # "ready"
      BY <1>2, <3>1 DEF Serves
    <3> QED BY <1>0, <1>5, <3>1, <3>2
  <2> QED BY <1>1, <2>1, <2>2, <2>3 DEF Serves
<1>9. LateFew(B.rq, B.clnts) BY <1>1, <1>2, LateFewer
<1> QED BY <1>1, <1>3, <1>4, <1>8, <1>9 DEF Orderly, B

\* A handler left over begins: its client is free, and at most one other
\* handler is left over.
LEMMA BegunLate ==
    ASSUME Orderly(Pool, open, NULL), NEW op, NEW c \in Client, Running(op, c),
           c \notin open
    PROVE  /\ Orderly(Begun, open, NULL) /\ ~QueuedFor(Begun.rq, c)
           /\ Head(rq).stale /\ Head(rq).how # "ready"
           /\ Succeeds => Late(rq, c, 1)
           /\ Ahead(clnts, c) >= 1
           /\ \A d \in Client, r \in 0 .. 2 : Late(Begun.rq, d, r)
                 /\ Ahead(clnts, c) < Ahead(clnts, d) => Ahead(clnts, d) >= 2 + r
           /\ \A d, e \in Client, r, s \in 0 .. 2 :
                 Late(Begun.rq, d, r) /\ Late(Begun.rq, e, s) => d = e
<1> DEFINE B == Begun
           n == IF Head(rq).how = "done" THEN 1 ELSE 0
<1>1. /\ B \in Pools /\ Sound(B)
      /\ B.under = under /\ B.clnts = clnts /\ B.rq = Tail(rq)
      /\ B.pend = [pend EXCEPT ![c] = NULL]
      /\ Head(rq) \in Handlers /\ In(rq, Head(rq)) /\ Head(rq).client = c
      /\ rq \in Seq(Handlers) /\ Tail(rq) \in Seq(Handlers)
      /\ Single(Tail(rq)) /\ ~QueuedFor(Tail(rq), c)
      /\ \A x : In(Tail(rq), x) => In(rq, x)
      /\ \A x : In(rq, x) => In(Tail(rq), x) \/ x = Head(rq)
      /\ Head(rq).stale => Late(rq, c, n)
      /\ \A d, r : Late(Tail(rq), d, r) => Late(rq, d, r)
  BY BegunFacts
<1> HIDE DEF B
<1>2. /\ Shares(Pool, open, NULL) /\ Serves(Pool, open) /\ LateFew(rq, clnts)
      /\ Pool.rq = rq /\ Pool.clnts = clnts /\ Pool.under = under /\ Pool.pend = pend
      /\ clnts \in Perms(Client) /\ NULL \notin Client /\ open \in SUBSET Client
      /\ pend \in [Client -> ClientOp \cup {NULL}]
  BY WatchAssumption DEF Orderly, Shares, Pool, Pools
<1>3. Head(rq).stale /\ Head(rq).how # "ready" BY <1>1, <1>2 DEF Serves
<1>4. n \in 0 .. 2 /\ Late(rq, c, n) BY <1>1, <1>3
<1>5. Succeeds => n = 1
  BY <1>1, <1>3 DEF Succeeds, Handlers, Handler
<1> HIDE DEF n
<1>6. B.pend = pend
  <2>1. pend[c] = NULL BY <1>2 DEF Serves
  <2> QED BY <1>1, <1>2, <2>1
<1>7. Ahead(clnts, c) >= 1
  <2>1. Ahead(clnts, c) >= 1 + n BY <1>2, <1>4 DEF LateFew
  <2>2. Ahead(clnts, c) \in Int BY <1>2, AheadIs
  <2> QED BY <1>4, <2>1, <2>2
<1>8. \A d : ~Late(Tail(rq), c, d) BY <1>1, LateRange
<1>9. ASSUME NEW d \in Client, NEW r \in 0 .. 2, Late(Tail(rq), d, r),
             Ahead(clnts, c) < Ahead(clnts, d)
      PROVE  Ahead(clnts, d) >= 2 + r
  <2>1. Late(rq, d, r) /\ d # c BY <1>1, <1>8, <1>9
  <2> QED BY <1>2, <1>4, <1>9, <2>1 DEF LateFew
<1>10. ASSUME NEW d \in Client, NEW e \in Client, NEW r \in 0 .. 2,
              NEW s \in 0 .. 2, Late(Tail(rq), d, r), Late(Tail(rq), e, s)
       PROVE  d = e
  <2>1. Late(rq, d, r) /\ Late(rq, e, s) /\ d # c /\ e # c BY <1>1, <1>8, <1>10
  <2> QED BY <1>2, <1>4, <2>1 DEF LateFew
<1>11. Shares(B, open, NULL) BY <1>1, <1>2 DEF Shares
<1>12. LateFew(B.rq, B.clnts) BY <1>1, <1>2, LateFewer
<1>13. Serves(B, open)
  <2>1. ASSUME NEW d \in open, pend[d] = NULL
        PROVE  \E h \in Handlers : In(Tail(rq), h) /\ h.client = d /\ h.how # "ready"
    <3>1. PICK h \in Handlers : In(rq, h) /\ h.client = d /\ h.how # "ready"
      BY <1>2, <2>1 DEF Serves
    <3> QED BY <1>1, <2>1, <3>1
  <2> QED BY <1>1, <1>2, <1>6, <2>1 DEF Serves
<1> QED BY <1>1, <1>3, <1>4, <1>5, <1>7, <1>9, <1>10, <1>11, <1>12, <1>13
    DEF Orderly, B

\* The next accept takes the first free client; no handler left over has a
\* round to go until that one is handled.
LEMMA AcceptNextOrderly ==
    ASSUME Orderly(Pool, open, NULL), Running("accept", NULL),
           NEW connected, NEW now \in BOOLEAN, Spare(clnts) >= 1
    PROVE  LET A == AcceptNext(connected, now)
           IN /\ Orderly(A, open, under) /\ under \in Client /\ A.under # NULL
              /\ LateOne(A.rq) /\ AcceptLast(A.rq)
              /\ Spare(A.clnts) = Spare(clnts) - 1
<1> DEFINE A == AcceptNext(connected, now)
           G == List!GetNewElmt(clnts)
           R == [Begun EXCEPT !.under = clnts.new, !.clnts = G]
           g(how) == [op |-> "accept", client |-> NULL, how |-> how, stale |-> FALSE]
           t == Tail(rq)
<1>0. /\ Pool \in Pools /\ Sound(Pool) /\ PoolOK /\ NULL \notin Client
      /\ Shares(Pool, open, NULL) /\ Serves(Pool, open) /\ LateFew(rq, clnts)
      /\ Pool.rq = rq /\ Pool.clnts = clnts /\ Pool.under = under /\ Pool.pend = pend
      /\ clnts \in Perms(Client) /\ open \in SUBSET Client
      /\ rq \in Seq(Handlers) /\ rq # <<>> /\ Single(rq)
      /\ Head(rq).op = "accept" /\ Head(rq).client = NULL
  BY WatchAssumption
  DEF Orderly, Shares, Serves, Pool, Pools, PoolOK, Running
<1>1. /\ Begun \in Pools /\ Begun.clnts = clnts /\ Waits(Begun) /\ under \in Client
      /\ Begun.rq = t /\ Begun.pend = pend
  <2>1. Begun.rq = t /\ Begun.pend = pend BY <1>0 DEF Begun, Pool
  <2> QED BY <1>0, <2>1, BegunIs
<1>2. A \in Pools /\ Sound(A) BY <1>0, AcceptNextKeeps
<1>3. /\ t \in Seq(Handlers) /\ Single(t)
      /\ \A x : In(t, x) => In(rq, x)
      /\ \A x : In(rq, x) => In(t, x) \/ x = Head(rq)
  BY <1>0, TailIs
<1>4. NoAccept(t) BY <1>1 DEF Waits
<1>5. ASSUME NEW c, NEW r, Late(t, c, r) PROVE Late(rq, c, r + 1)
  BY <1>0, <1>4, <1>5, TailAccept
<1>6. /\ clnts.new # NULL /\ clnts.new \in Client /\ Ahead(clnts, clnts.new) = 0
      /\ Spare(clnts) \in Nat
      /\ \A c \in Client : Ahead(clnts, c) \in Int
      /\ \A c, d \in Client : Ahead(clnts, c) = Ahead(clnts, d) => c = d
  BY <1>0, AheadIs
<1>7. /\ G \in Perms(Client) /\ Spare(G) = Spare(clnts) - 1
      /\ \A c \in Client : Ahead(G, c) = Ahead(clnts, c) - 1
  BY <1>0, <1>6, TakeIs
<1>8. G \in Lists(Client) BY <1>7 DEF Perms
<1>9. A = StartAccept(R, clnts.new \in connected, now)
  BY <1>1, <1>6 DEF AcceptNext, List!NextFree
<1> HIDE DEF G, A, t
<1>10. R \in Pools /\ R.rq = t /\ R.clnts = G /\ R.under = clnts.new /\ R.pend = pend
  BY <1>1, <1>6, <1>8 DEF Pools
<1> HIDE DEF R
<1>11. ASSUME NEW how \in How
       PROVE  g(how) \in Handlers
  BY DEF Handlers, Handler, How
<1>12. /\ A.clnts = G /\ A.under = clnts.new /\ A.pend = pend
       /\ A.rq = t \/ \E how \in How : A.rq = Append(t, g(how))
  <2>1. A = [R EXCEPT !.armed = TRUE]
        \/ \E how \in How : A = [R EXCEPT !.rq = Append(t, g(how))]
    BY <1>9, <1>10 DEF StartAccept, Queue, How
  <2>2. CASE A = [R EXCEPT !.armed = TRUE] BY <1>10, <2>2 DEF Pools
  <2>3. ASSUME NEW how \in How, A = [R EXCEPT !.rq = Append(t, g(how))]
        PROVE  /\ A.clnts = G /\ A.under = clnts.new /\ A.pend = pend
               /\ A.rq = Append(t, g(how))
    BY <1>10, <2>3 DEF Pools
  <2> QED BY <2>1, <2>2, <2>3
<1>13. /\ Single(A.rq) /\ AcceptLast(A.rq)
       /\ \A x : x.client \in Client => (In(A.rq, x) <=> In(t, x))
       /\ \A x : In(A.rq, x) => In(t, x) \/ (x.client = NULL /\ ~x.stale)
       /\ \A c, r : Late(A.rq, c, r) => Late(t, c, r)
  <2>1. AcceptLast(t) BY <1>4 DEF AcceptLast, AcceptBefore, NoAccept
  <2>2. CASE A.rq = t BY <1>3, <2>1, <2>2
  <2>3. ASSUME NEW how \in How, A.rq = Append(t, g(how))
        PROVE  /\ Single(A.rq) /\ AcceptLast(A.rq)
               /\ \A x : x.client \in Client => (In(A.rq, x) <=> In(t, x))
               /\ \A x : In(A.rq, x) => In(t, x) \/ (x.client = NULL /\ ~x.stale)
               /\ \A c, r : Late(A.rq, c, r) => Late(t, c, r)
    <3> DEFINE h == g(how)
    <3>1. h \in Handlers /\ h.client = NULL /\ ~h.stale /\ h.op = "accept"
      BY <1>11
    <3> HIDE DEF h
    <3>2. A.rq = Append(t, h) BY <2>3 DEF h
    <3>3. /\ \A x : In(A.rq, x) <=> In(t, x) \/ x = h
          /\ Single(A.rq)
          /\ \A c, r : Late(A.rq, c, r) => Late(t, c, r)
      BY <1>0, <1>3, <3>1, <3>2, AppendIs
    <3>4. /\ Len(t) \in Nat /\ DOMAIN t = 1 .. Len(t)
          /\ DOMAIN A.rq = 1 .. Len(t) + 1
          /\ \A i \in 1 .. Len(t) : A.rq[i] = t[i]
          /\ A.rq[Len(t) + 1] = h
      BY <1>3, <3>1, <3>2, AppendProperties, LenProperties
    <3>5. ASSUME NEW i \in DOMAIN A.rq, A.rq[i].client \in Client
          PROVE  ~AcceptBefore(A.rq, i)
      <4>1. i \in 1 .. Len(t) BY <1>0, <3>1, <3>4, <3>5
      <4>2. ASSUME NEW j \in DOMAIN A.rq, j < i PROVE A.rq[j].op # "accept"
        <5>1. j \in 1 .. Len(t) /\ A.rq[j] = t[j] BY <3>4, <4>1, <4>2
        <5> QED BY <1>4, <3>4, <5>1 DEF NoAccept
      <4> QED BY <4>2 DEF AcceptBefore
    <3>6. AcceptLast(A.rq) BY <3>5 DEF AcceptLast
    <3> QED BY <1>0, <3>1, <3>3, <3>6
  <2> QED BY <1>12, <2>2, <2>3
<1>14. Shares(A, open, under)
  <2>1. \A c \in Client : Ahead(clnts, c) < 0 <=> c \in open \cup {under}
    BY <1>0 DEF Shares
  <2>2. under \notin open BY <1>0 DEF Shares
  <2>3. clnts.new \notin open /\ clnts.new # under BY <1>6, <2>1
  <2>4. ASSUME NEW c \in Client
        PROVE  Ahead(G, c) < 0 <=> c \in open \cup {clnts.new, under}
    <3>1. Ahead(G, c) < 0 <=> Ahead(clnts, c) < 0 \/ Ahead(clnts, c) = 0
      BY <1>6, <1>7
    <3>2. Ahead(clnts, c) = 0 <=> c = clnts.new BY <1>6
    <3> QED BY <2>1, <3>1, <3>2
  <2> QED BY <1>0, <1>1, <1>7, <1>12, <2>2, <2>3, <2>4 DEF Shares
<1>15. Serves(A, open)
  <2>1. ASSUME NEW d \in open, pend[d] = NULL
        PROVE  \E h \in Handlers : In(A.rq, h) /\ h.client = d /\ h.how # "ready"
    <3>1. PICK h \in Handlers : In(rq, h) /\ h.client = d /\ h.how # "ready"
      BY <1>0, <2>1 DEF Serves
    <3>2. h.client \in Client /\ h # Head(rq) BY <1>0, <3>1
    <3> QED BY <1>3, <1>13, <3>1, <3>2
  <2>2. ASSUME NEW h \in Handlers, In(A.rq, h)
        PROVE  In(rq, h) \/ (h.client = NULL /\ ~h.stale)
    BY <1>3, <1>13, <2>2
  <2>3. NULL \notin open BY <1>0
  <2> QED BY <1>0, <1>12, <1>13, <2>1, <2>2, <2>3 DEF Serves
<1>16. A.rq \in Seq(Handlers) BY <1>2 DEF Pools
<1>17. ASSUME NEW c \in Client, NEW r \in 0 .. 2, Late(A.rq, c, r)
       PROVE  r = 0 /\ Late(rq, c, 1) /\ Ahead(G, c) >= 1
  <2>1. Late(rq, c, r + 1) BY <1>5, <1>13, <1>17
  <2>2. r + 1 \in 0 .. 2 BY <1>0, <2>1, LateRange
  <2>3. r + 1 <= 1 /\ Ahead(clnts, c) >= 1 + (r + 1)
    BY <1>0, <2>1, <2>2 DEF LateFew
  <2>4. r = 0 /\ Ahead(clnts, c) >= 2 BY <1>6, <2>3
  <2> QED BY <1>6, <1>7, <2>1, <2>4
<1>18. ASSUME NEW c \in Client, NEW d \in Client, NEW r \in 0 .. 2,
              NEW s \in 0 .. 2, Late(A.rq, c, r), Late(A.rq, d, s)
       PROVE  c = d
  <2>1. Late(rq, c, 1) /\ Late(rq, d, 1) BY <1>17, <1>18
  <2>2. 1 \in 0 .. 2 /\ ~(1 + 1 <= 1) OBVIOUS
  <2> QED BY <1>0, <2>1, <2>2 DEF LateFew
<1>19. LateOne(A.rq) BY <1>17, <1>18 DEF LateOne
<1>20. LateFew(A.rq, G)
  <2>1. ASSUME NEW c \in Client, NEW r \in 0 .. 2, Late(A.rq, c, r)
        PROVE  r <= 1 /\ Ahead(G, c) >= 1 + r
    BY <1>17, <2>1
  <2> QED BY <1>18, <2>1 DEF LateFew
<1> QED BY <1>1, <1>2, <1>6, <1>7, <1>12, <1>13, <1>14, <1>15, <1>19, <1>20
    DEF Orderly, A

\* A connection arrives, or a socket is ready for the operation in progress.
LEMMA AppendOrderly ==
    ASSUME NEW P, NEW O, Orderly(P, O, NULL), NEW Q \in Pools, Sound(Q),
           NEW h \in Handlers, ~h.stale, Q.rq = Append(P.rq, h),
           Q.clnts = P.clnts, Q.under = P.under, Q.pend = P.pend,
           h.client \in Client => /\ h.client \in O /\ ~QueuedFor(P.rq, h.client)
                                  /\ P.pend[h.client] # NULL
                                  /\ h.how = "ready" /\ h.op = P.pend[h.client]
    PROVE  Orderly(Q, O, NULL)
<1>1. /\ P \in Pools /\ O \in SUBSET Client /\ Serves(P, O) /\ NULL \notin Client
      /\ P.rq \in Seq(Handlers) /\ P.clnts \in Perms(Client)
      /\ LateFew(P.rq, P.clnts)
  BY WatchAssumption DEF Orderly, Shares, Pools
<1>2. /\ \A x : In(Q.rq, x) <=> In(P.rq, x) \/ x = h
      /\ Single(Q.rq)
      /\ \A c, r : Late(Q.rq, c, r) => Late(P.rq, c, r)
  BY <1>1, AppendIs DEF Serves
<1>3. Shares(Q, O, NULL) BY DEF Orderly, Shares
<1>4. LateFew(Q.rq, Q.clnts) BY <1>1, <1>2, LateFewer
<1>5. ASSUME NEW g \in Handlers, In(Q.rq, g)
      PROVE  /\ g.client \in O /\ Q.pend[g.client] # NULL
                  => g.how = "ready" /\ g.op = Q.pend[g.client]
             /\ g.client \in Client => (g.stale <=> g.client \notin O)
             /\ g.stale => g.client \in Client /\ g.how # "ready"
  <2>1. CASE g = h BY <1>1, <2>1
  <2>2. CASE g # h
    <3>1. In(P.rq, g) BY <1>2, <1>5, <2>2
    <3> QED BY <1>1, <3>1 DEF Serves
  <2> QED BY <2>1, <2>2
<1>6. \A d \in O : Q.pend[d] = NULL =>
         \E g \in Handlers : In(Q.rq, g) /\ g.client = d /\ g.how # "ready"
  BY <1>1, <1>2 DEF Serves
<1>7. Serves(Q, O) BY <1>1, <1>2, <1>5, <1>6 DEF Serves
<1> QED BY <1>3, <1>4, <1>7 DEF Orderly

-----------------------------------------------------------------------------
(* The inductive invariant *)

\* The pool has more clients than are connected: one for the next connection
\* and one for each client that a connection takes and gives back.  The
\* program has 3000 (KServer.h:10), and MaxOpen bounds the connections.
EnoughClients == NUM_CLIENT >= MaxOpen + 4

AmpleInv ==
    SInv /\ Orderly(Pool, open, NULL) /\ Cardinality(open) <= MaxOpen

\* How many clients are spare.
LEMMA SpareAmple ==
    ASSUME EnoughClients, AmpleInv
    PROVE  /\ IsFiniteSet(open) /\ under \in Client
           /\ Spare(clnts) \in Nat /\ Spare(clnts) >= 3
           /\ Cardinality(open) < MaxOpen => Spare(clnts) >= 4
<1> DEFINE U == open \cup ({under} \ {NULL})
           n == Cardinality(open)
<1>1. /\ clnts \in Perms(Client) /\ open \in SUBSET Client /\ under \notin open
      /\ under \in Client \cup {NULL} /\ NULL \notin Client
      /\ \A c \in Client : Ahead(clnts, c) < 0 <=> c \in open \cup {under, NULL}
      /\ Sound(Pool) /\ Pool.clnts = clnts /\ Pool.under = under
      /\ n <= MaxOpen
  BY WatchAssumption DEF AmpleInv, Orderly, Shares, Pool, Pools
<1>2. U \in SUBSET Client BY <1>1
<1>3. \A c \in Client : Ahead(clnts, c) < 0 <=> c \in U BY <1>1
<1> HIDE DEF U
<1>4. IsFiniteSet(U) /\ Spare(clnts) = NUM_CLIENT - Cardinality(U)
  BY <1>1, <1>2, <1>3, SpareIs
<1>5. IsFiniteSet(open) BY <1>4, FS_Subset DEF U
<1>6. Cardinality(U) <= n + 1 /\ n \in Nat /\ Cardinality(U) \in Nat
  <2>1. n \in Nat BY <1>5, FS_CardinalityType
  <2>2. CASE under = NULL
    <3>1. U = open BY <2>2 DEF U
    <3> QED BY <2>1, <3>1
  <2>3. CASE under # NULL
    <3>1. U = open \cup {under} BY <2>3 DEF U
    <3>2. Cardinality(open \cup {under}) = n + 1 BY <1>1, <1>5, FS_AddElement
    <3> QED BY <2>1, <3>1, <3>2
  <2> QED BY <2>2, <2>3
<1>7. Spare(clnts) \in Nat /\ (clnts.new = NULL <=> Spare(clnts) = 0)
  BY <1>1, AheadIs
<1>8. NUM_CLIENT \in Nat /\ MaxOpen \in Nat BY ServerAssumption
<1> HIDE DEF n
<1>9. Spare(clnts) >= 3 /\ (n < MaxOpen => Spare(clnts) >= 4)
  BY <1>1, <1>4, <1>6, <1>7, <1>8 DEF EnoughClients
<1>10. under # NULL
  <2>1. clnts.new # NULL BY <1>7, <1>9
  <2> QED BY <1>1, <2>1 DEF Sound
<1> QED BY <1>1, <1>5, <1>7, <1>9, <1>10 DEF n

\* A handler that leaves a pool in order keeps the invariant.
LEMMA SetPoolOrderly ==
    ASSUME NEW P, SetPool(P), Orderly(P, open', NULL)
    PROVE  Orderly(Pool, open, NULL)'
<1>1. P = [clnts |-> P.clnts, under |-> P.under, rq |-> P.rq,
           pend |-> P.pend, armed |-> P.armed]
  BY DEF Orderly, Pools
<1>2. Pool' = P BY <1>1 DEF SetPool, Pool
<1> QED BY <1>2

\* A handler that goes on with its connection keeps the order.
LEMMA ProceedsOrderly ==
    ASSUME AmpleInv, NEW from, NEW to \in ClientOp, NEW c \in Client,
           NEW now \in BOOLEAN, Proceeds(from, c, to, now), open' = open
    PROVE  Orderly(Pool, open, NULL)'
<1> DEFINE Q == Start(Begun, to, c, c \in open, Head(rq).stale, now)
<1>1. Orderly(Pool, open, NULL) /\ Running(from, c) /\ Succeeds /\ SetPool(Q)
  BY DEF AmpleInv, Proceeds
<1>2. CASE c \in open
  <2>1. Orderly(Begun, open \ {c}, c) /\ ~Head(rq).stale BY <1>1, <1>2, BegunOpen
  <2>2. Head(rq) \in Handlers BY <1>1, BegunFacts
  <2>3. Head(rq).stale = FALSE BY <2>1, <2>2 DEF Handlers, Handler
  <2>4. Q = Start(Begun, to, c, TRUE, FALSE, now) BY <1>2, <2>3
  <2>5. Orderly(Q, (open \ {c}) \cup {c}, NULL) BY <2>1, <2>4, StartOrderly
  <2>6. (open \ {c}) \cup {c} = open BY <1>2
  <2> HIDE DEF Q
  <2> QED BY <1>1, <2>5, <2>6, SetPoolOrderly
<1>3. CASE c \notin open
  <2> DEFINE g == [op |-> to, client |-> c, how |-> "failed", stale |-> TRUE]
             B == Begun
  <2>1. /\ Orderly(B, open, NULL) /\ ~QueuedFor(B.rq, c)
        /\ Head(rq).stale /\ Late(rq, c, 1)
    BY <1>1, <1>3, BegunLate
  <2>2. /\ Head(rq) \in Handlers /\ B.rq = Tail(rq) /\ B.clnts = clnts
        /\ \A d, r : Late(Tail(rq), d, r) => Late(rq, d, r)
    BY <1>1, BegunFacts
  <2>3. Head(rq).stale = TRUE BY <2>1, <2>2 DEF Handlers, Handler
  <2>4. Q = Queue(B, to, c, "failed", TRUE) BY <1>3, <2>3 DEF Start
  <2>5. Q = [B EXCEPT !.rq = Append(B.rq, g)] BY <2>4 DEF Queue
  <2>6. /\ B \in Pools /\ Sound(B) /\ Serves(B, open) /\ B.rq \in Seq(Handlers)
        /\ Shares(B, open, NULL) /\ open \in SUBSET Client
        /\ clnts \in Perms(Client) /\ LateFew(rq, clnts) /\ NULL \notin Client
    BY <1>1, <2>1, WatchAssumption DEF Orderly, Shares, Pools, Pool
  <2> HIDE DEF B
  <2>7. Q \in Pools /\ Same(B, Q)
    BY <2>4, <2>6, QueueClient DEF How
  <2>8. Sound(Q) BY <2>6, <2>7, SameSound
  <2>9. g \in Handlers BY <2>6 DEF Handlers, Handler, ClientOp
  <2>10. g.client = c /\ g.how = "failed" /\ g.stale OBVIOUS
  <2> HIDE DEF Q, g
  <2>11. Q.rq = Append(B.rq, g) /\ Q.pend = B.pend /\ Q.clnts = clnts
         /\ Q.under = B.under
    BY <2>2, <2>5, <2>6 DEF Pools
  <2>12. /\ \A x : In(Q.rq, x) <=> In(B.rq, x) \/ x = g
         /\ Single(Q.rq)
         /\ \A d, r : Late(Q.rq, d, r) =>
               Late(B.rq, d, r) \/ (d = c /\ r = NewRounds(B.rq, g))
    BY <2>1, <2>6, <2>9, <2>10, <2>11, AppendIs DEF Serves
  <2>13. NewRounds(B.rq, g) <= 1 BY <2>10 DEF NewRounds
  <2>14. \A d \in Client, r \in 0 .. 2 : Late(Q.rq, d, r) =>
            \E s \in 0 .. 2 : s >= r /\ Late(rq, d, s)
    BY <2>1, <2>2, <2>12, <2>13
  <2>15. LateFew(Q.rq, clnts) BY <2>6, <2>14, LateFewer
  <2>16. ASSUME NEW h \in Handlers, In(Q.rq, h)
         PROVE  /\ h.client \in open /\ Q.pend[h.client] # NULL
                      => h.how = "ready" /\ h.op = Q.pend[h.client]
                /\ h.client \in Client => (h.stale <=> h.client \notin open)
                /\ h.stale => h.client \in Client /\ h.how # "ready"
    <3>1. CASE h = g BY <1>3, <2>10, <3>1
    <3>2. CASE h # g
      <4>1. In(B.rq, h) BY <2>12, <2>16, <3>2
      <4> QED BY <2>6, <2>11, <4>1 DEF Serves
    <3> QED BY <3>1, <3>2
  <2>17. \A d \in open : Q.pend[d] = NULL =>
            \E h \in Handlers : In(Q.rq, h) /\ h.client = d /\ h.how # "ready"
    BY <2>6, <2>11, <2>12 DEF Serves
  <2>18. Serves(Q, open) BY <2>6, <2>11, <2>12, <2>16, <2>17 DEF Serves
  <2>19. Shares(Q, open, NULL) BY <2>2, <2>6, <2>11 DEF Shares
  <2>20. Orderly(Q, open, NULL) BY <2>7, <2>8, <2>11, <2>15, <2>18, <2>19 DEF Orderly
  <2> QED BY <1>1, <2>20, SetPoolOrderly DEF Q
<1> QED BY <1>2, <1>3

\* A handler that recycles its client keeps the order.
LEMMA DropOrderly ==
    ASSUME EnoughClients, AmpleInv, NEW op, NEW c \in Client, NEW now \in BOOLEAN,
           Running(op, c), SetPool(Recycle(Begun, c, now)), open' = open \ {c}
    PROVE  Orderly(Pool, open, NULL)'
<1>1. Orderly(Pool, open, NULL) BY DEF AmpleInv
<1>2. under \in Client /\ NULL \notin Client BY SpareAmple, WatchAssumption
<1>3. Begun.under = under /\ Begun.clnts = clnts /\ Begun.under # NULL
  BY <1>1, <1>2, BegunFacts
<1>4. CASE c \in open
  <2>1. Orderly(Begun, open \ {c}, c) BY <1>1, <1>4, BegunOpen
  <2>2. Orderly(Recycle(Begun, c, now), open \ {c}, NULL)
    BY <1>3, <2>1, RecycleLimbo
  <2> QED BY <2>2, SetPoolOrderly
<1>5. CASE c \notin open
  <2> DEFINE B == Begun
  <2>1. /\ Orderly(B, open, NULL) /\ ~QueuedFor(B.rq, c)
        /\ Ahead(clnts, c) >= 1
        /\ \A d \in Client, r \in 0 .. 2 : Late(B.rq, d, r)
              /\ Ahead(clnts, c) < Ahead(clnts, d) => Ahead(clnts, d) >= 2 + r
        /\ \A d, e \in Client, r, s \in 0 .. 2 :
              Late(B.rq, d, r) /\ Late(B.rq, e, s) => d = e
    BY <1>1, <1>5, BegunLate
  <2>2. B.under # NULL /\ B.clnts = clnts BY <1>3
  <2> HIDE DEF B
  <2>3. Orderly(Recycle(B, c, now), open, NULL)
    BY <1>5, <2>1, <2>2, RecycleStale
  <2>4. open \ {c} = open BY <1>5
  <2> QED BY <2>3, <2>4, SetPoolOrderly DEF B
<1> QED BY <1>4, <1>5

\* A connection has been accepted: the acceptor has gone on, and recycles what
\* the connection replaces.
LEMMA AcceptedOrderly ==
    ASSUME EnoughClients, AmpleInv, Running("accept", NULL), NEW connected,
           NEW now \in BOOLEAN
    PROVE  LET A == AcceptNext(connected, now)
           IN /\ under \in Client /\ under \notin open /\ IsFiniteSet(open)
              /\ Orderly(A, open, under)
              /\ Orderly(Recycle(A, under, now), open, NULL)
              /\ \A p \in open : Cardinality(open) < MaxOpen =>
                    /\ Orderly(Recycle(A, p, now), open \ {p}, under)
                    /\ Recycle(A, p, now).under # NULL
<1> DEFINE A == AcceptNext(connected, now)
<1>1. /\ Spare(clnts) \in Nat /\ Spare(clnts) >= 3
      /\ IsFiniteSet(open)
      /\ Cardinality(open) < MaxOpen => Spare(clnts) >= 4
  BY SpareAmple
<1>2. Orderly(Pool, open, NULL) /\ Spare(clnts) >= 1 BY <1>1 DEF AmpleInv
<1>3. /\ Orderly(A, open, under) /\ under \in Client /\ A.under # NULL
      /\ LateOne(A.rq) /\ AcceptLast(A.rq) /\ Spare(A.clnts) = Spare(clnts) - 1
  BY <1>2, AcceptNextOrderly
<1> HIDE DEF A
<1>4. under \notin open BY <1>3 DEF Orderly, Shares
<1>5. Orderly(Recycle(A, under, now), open, NULL) BY <1>3, RecycleLimbo
<1>6. ASSUME NEW p \in open, Cardinality(open) < MaxOpen
      PROVE  /\ Orderly(Recycle(A, p, now), open \ {p}, under)
             /\ Recycle(A, p, now).under # NULL
  <2>1. Spare(A.clnts) >= 3 BY <1>1, <1>3, <1>6
  <2>2. Orderly(Recycle(A, p, now), open \ {p}, under)
    BY <1>3, <2>1, RecycleOpen
  <2>3. /\ A \in Pools /\ Sound(A) /\ open \in SUBSET Client /\ Serves(A, open)
    BY <1>3 DEF Orderly, Shares
  <2>4. Recycle(A, p, now).under = A.under BY <1>3, <2>3, RecycleIs
  <2> QED BY <1>3, <2>2, <2>4
<1> QED BY <1>1, <1>3, <1>4, <1>5, <1>6 DEF A

\* Every step keeps the pool in order.
LEMMA NextOrderly ==
    ASSUME EnoughClients, AmpleInv, [Next]_vars
    PROVE  Orderly(Pool, open, NULL)' /\ Cardinality(open') <= MaxOpen
<1> DEFINE Kept == Orderly(Pool, open, NULL)' /\ Cardinality(open') <= MaxOpen
<1>0. /\ Orderly(Pool, open, NULL) /\ Cardinality(open) <= MaxOpen /\ IInv
      /\ open \in SUBSET Client /\ IsFiniteSet(open) /\ NULL \notin Client
      /\ MaxOpen \in Nat /\ Cardinality(open) \in Nat
  BY SpareAmple, FS_CardinalityType, WatchAssumption, ServerAssumption
  DEF AmpleInv, SInv, Orderly, Shares
<1>1. \A now \in AtOnce : now \in BOOLEAN BY ServerAssumption
<1>2. ASSUME NEW x PROVE Cardinality(open \ {x}) <= Cardinality(open)
                         /\ IsFiniteSet(open \ {x})
                         /\ Cardinality(open \ {x}) \in Nat
  BY <1>0, FS_Subset, FS_CardinalityType
<1>3. ASSUME UNCHANGED <<poolVars, open>> PROVE Kept
  BY <1>0, <1>3 DEF poolVars, Pool, Orderly
<1>4. ASSUME UNCHANGED poolVars, open' = open PROVE Kept BY <1>3, <1>4
<1>5. ASSUME NEW now \in AtOnce, AcceptFails(now) PROVE Kept
  <2> DEFINE X == open \cup (IF Succeeds THEN {under} ELSE {})
             P == Recycle(AcceptNext(X, now), under, now)
  <2>1. Running("accept", NULL) /\ SetPool(P) /\ open' = open \ {under}
    BY <1>5 DEF AcceptFails, Disconnect
  <2> HIDE DEF X
  <2>2. Orderly(P, open, NULL) /\ under \notin open
    BY <1>1, <2>1, AcceptedOrderly
  <2>3. open' = open BY <2>1, <2>2
  <2> HIDE DEF P
  <2> QED BY <1>0, <2>1, <2>2, <2>3, SetPoolOrderly
<1>6. ASSUME NEW ip \in IP, NEW now \in AtOnce, Accepting(ip)
      PROVE  /\ under \in Client /\ under \notin open
             /\ Cardinality(open) < MaxOpen
             /\ Orderly(Accepted(now), open, under)
             /\ Orderly(Recycle(Accepted(now), under, now), open, NULL)
             /\ \A p \in open : /\ Recycle(Accepted(now), p, now).under # NULL
                                /\ Orderly(Recycle(Accepted(now), p, now),
                                           open \ {p}, under)
  <2>1. Running("accept", NULL) /\ Cardinality(open) < MaxOpen
    BY <1>6 DEF Accepting
  <2> QED BY <1>1, <2>1, AcceptedOrderly DEF Accepted
<1>7. ASSUME NEW ip \in IP, NEW now \in AtOnce, Accepting(ip), Known(ip)
      PROVE  /\ Orderly(RecycleIfAny(Accepted(now), Previous(ip), now),
                        open \ {Previous(ip)}, under)
             /\ Previous(ip) # NULL =>
                   RecycleIfAny(Accepted(now), Previous(ip), now).under # NULL
  <2>1. CASE Previous(ip) = NULL
    <3>1. open \ {Previous(ip)} = open BY <1>0, <2>1
    <3> QED BY <1>6, <1>7, <2>1, <3>1 DEF RecycleIfAny
  <2>2. CASE Previous(ip) # NULL
    <3>1. Previous(ip) \in open BY <1>0, <1>7, <2>2, PreviousLinked
    <3> QED BY <1>6, <1>7, <2>2, <3>1 DEF RecycleIfAny
  <2> QED BY <2>1, <2>2
<1>8. ASSUME NEW P, NEW O \in SUBSET open, Orderly(P, O, under), under \in Client,
             under \notin open, Cardinality(open) < MaxOpen, IsFiniteSet(O),
             Cardinality(O) <= Cardinality(open),
             NEW done \in AtOnce, open' = O \cup {under},
             SetPool(Start(P, "hs_read", under, TRUE, FALSE, done))
      PROVE  Kept
  <2>1. Orderly(Start(P, "hs_read", under, TRUE, FALSE, done), O \cup {under}, NULL)
    BY <1>1, <1>8, StartOrderly DEF ClientOp
  <2>2. Orderly(Pool, open, NULL)' BY <1>8, <2>1, SetPoolOrderly
  <2>3. Cardinality(O \cup {under}) = Cardinality(O) + 1
    BY <1>8, FS_AddElement
  <2>4. Cardinality(O) \in Nat BY <1>8, FS_CardinalityType
  <2>5. Cardinality(open') <= MaxOpen BY <1>0, <1>8, <2>3, <2>4
  <2> QED BY <2>2, <2>5
<1>9. ASSUME NEW ip \in IP, AcceptHangs(ip) PROVE Kept
  BY <1>4, <1>9 DEF AcceptHangs, ChkHangs
<1>10. ASSUME NEW ip \in IP, NEW now \in AtOnce, AcceptRefused(ip, now)
       PROVE  Kept
  <2>1. /\ Accepting(ip) /\ SetPool(Recycle(Accepted(now), under, now))
        /\ open' = open
    BY <1>10 DEF AcceptRefused, ChkRefuses
  <2>2. Orderly(Recycle(Accepted(now), under, now), open, NULL) BY <1>6, <2>1
  <2> QED BY <1>0, <2>1, <2>2, SetPoolOrderly
<1>11. ASSUME NEW ip \in IP, NEW now \in AtOnce, NEW done \in AtOnce,
              AcceptNew(ip, now, done)
       PROVE  Kept
  <2>1. /\ Accepting(ip) /\ open' = open \cup {under}
        /\ SetPool(Start(Accepted(now), "hs_read", under, TRUE, FALSE, done))
    BY <1>11 DEF AcceptNew, ChkNew
  <2>2. /\ Orderly(Accepted(now), open, under) /\ under \in Client
        /\ under \notin open /\ Cardinality(open) < MaxOpen
    BY <1>6, <2>1
  <2>3. open \in SUBSET open /\ Cardinality(open) <= Cardinality(open) BY <1>0
  <2> QED BY <1>0, <1>8, <2>1, <2>2, <2>3
<1>12. ASSUME NEW ip \in IP, NEW now \in AtOnce, AcceptOverLimit(ip, now)
       PROVE  Kept
  <2> DEFINE p == Previous(ip)
             P == RecycleIfAny(Accepted(now), p, now)
  <2>1. /\ Accepting(ip) /\ Known(ip) /\ open' = open \ {p}
        /\ SetPool(Recycle(P, under, now))
    BY <1>12 DEF AcceptOverLimit, ChkOverLimit
  <2>2. Orderly(Recycle(P, under, now), open \ {p}, NULL)
    <3>1. CASE p = NULL
      <4>1. P = Accepted(now) /\ open \ {p} = open BY <1>0, <3>1 DEF RecycleIfAny
      <4> QED BY <1>6, <2>1, <4>1
    <3>2. CASE p # NULL
      <4>1. Orderly(P, open \ {p}, under) /\ P.under # NULL /\ under \in Client
        BY <1>6, <1>7, <2>1, <3>2
      <4> HIDE DEF P, p
      <4> QED BY <1>1, <4>1, RecycleLimbo
    <3> QED BY <3>1, <3>2
  <2>3. Cardinality(open \ {p}) <= Cardinality(open)
        /\ Cardinality(open \ {p}) \in Nat
    BY <1>2
  <2> HIDE DEF p, P
  <2>4. Orderly(Pool, open, NULL)' BY <2>1, <2>2, SetPoolOrderly
  <2> QED BY <1>0, <2>1, <2>3, <2>4
<1>13. ASSUME NEW ip \in IP, NEW now \in AtOnce, NEW done \in AtOnce,
              AcceptAgain(ip, now, done)
       PROVE  Kept
  <2> DEFINE p == Previous(ip)
             P == RecycleIfAny(Accepted(now), p, now)
  <2>1. /\ Accepting(ip) /\ Known(ip) /\ open' = (open \ {p}) \cup {under}
        /\ SetPool(Start(P, "hs_read", under, TRUE, FALSE, done))
    BY <1>13 DEF AcceptAgain, ChkAgain
  <2>2. /\ Orderly(P, open \ {p}, under) /\ under \in Client
        /\ under \notin open /\ Cardinality(open) < MaxOpen
    BY <1>6, <1>7, <2>1
  <2>3. /\ IsFiniteSet(open \ {p})
        /\ Cardinality(open \ {p}) <= Cardinality(open)
    BY <1>2
  <2>4. open \ {p} \in SUBSET open OBVIOUS
  <2> HIDE DEF p, P
  <2> QED BY <1>8, <2>1, <2>2, <2>3, <2>4
<1>14. ASSUME NEW c \in Client, NEW now \in AtOnce,
              \/ ClientFails(c, now)
              \/ InitRIDenied(c, now)
              \/ CrtUsrDenied(c, now)
              \/ CrtUsrMalformed(c, now)
       PROVE  Kept
  <2>1. PICK op \in ClientOp : Running(op, c)
    BY <1>14 DEF ClientFails, InitRIDenied, CrtUsrDenied, CrtUsrMalformed,
                 Receives, ClientOp
  <2>2. SetPool(Recycle(Begun, c, now)) /\ open' = open \ {c}
    BY <1>14 DEF ClientFails, InitRIDenied, CrtUsrDenied, CrtUsrMalformed, Drop,
                 Disconnect
  <2>3. Orderly(Pool, open, NULL)' BY <1>1, <2>1, <2>2, DropOrderly
  <2> QED BY <1>0, <1>2, <2>2, <2>3
<1>15. ASSUME NEW c \in Client, NEW now \in AtOnce,
              \/ HandshakeRead(c, now)
              \/ HandshakeWritten(c, now)
              \/ ReplyWritten(c, now)
              \/ InitRIBusy(c, now)
              \/ InitRIReply(c, now)
              \/ CrtUsrBusy(c, now)
              \/ CrtUsrReply(c, now)
       PROVE  Kept
  <2>1. \E from, to \in ClientOp : Proceeds(from, c, to, now)
    BY <1>15 DEF HandshakeRead, HandshakeWritten, ReplyWritten, InitRIBusy,
                 InitRIReply, CrtUsrBusy, CrtUsrReply, ClientOp
  <2>2. open' = open
    BY <1>15 DEF HandshakeRead, HandshakeWritten, ReplyWritten, InitRIBusy,
                 InitRIReply, GrantInitRI, CrtUsrBusy, CrtUsrReply, watchVars
  <2> QED BY <1>0, <1>1, <2>1, <2>2, ProceedsOrderly
<1>16. CASE Arrives
  <2> DEFINE h == [op |-> "accept", client |-> NULL, how |-> "ready",
                   stale |-> FALSE]
             Q == [Queue(Pool, "accept", NULL, "ready", FALSE)
                     EXCEPT !.armed = FALSE]
  <2>1. SetPool(Q) /\ open' = open /\ armed BY <1>16 DEF Arrives, watchVars
  <2>2. h \in Handlers /\ ~h.stale /\ h.client = NULL /\ h.op = "accept"
    BY DEF Handlers, Handler
  <2>3. Q = [[Pool EXCEPT !.rq = Append(rq, h)] EXCEPT !.armed = FALSE]
    BY DEF Queue, Pool
  <2>4. Pool \in Pools /\ Pool.rq = rq /\ Pool.armed = armed /\ rq \in Seq(Handlers)
        /\ Sound(Pool)
    BY <1>0 DEF Orderly, Pools, Pool
  <2> HIDE DEF h, Q
  <2>5. Append(rq, h) \in Seq(Handlers) BY <2>2, <2>4, AppendProperties
  <2>6. /\ Q \in Pools /\ Q.rq = Append(rq, h) /\ Q.clnts = Pool.clnts
        /\ Q.under = Pool.under /\ Q.pend = Pool.pend /\ ~Q.armed
    BY <2>3, <2>4, <2>5 DEF Pools
  <2>7. NoAccept(rq) /\ Pool.under # NULL
    BY <2>1, <2>4 DEF Sound, Accepts, Waits
  <2>8. SingleAccept(Append(rq, h)) BY <2>2, <2>4, <2>7, AppendAccept
  <2>9. Sound(Q) BY <2>6, <2>7, <2>8 DEF Sound, Accepts
  <2>10. Orderly(Q, open, NULL)
    BY <1>0, <2>2, <2>4, <2>6, <2>9, AppendOrderly
  <2> QED BY <1>0, <2>1, <2>10, SetPoolOrderly
<1>17. ASSUME NEW c \in Client, Ready(c) PROVE Kept
  <2> DEFINE h == [op |-> pend[c], client |-> c, how |-> "ready",
                   stale |-> FALSE]
             Q == Queue(Pool, pend[c], c, "ready", FALSE)
  <2>1. /\ SetPool(Q) /\ open' = open /\ pend[c] # NULL
        /\ ~\E i \in DOMAIN rq : rq[i].client = c /\ rq[i].how = "ready"
    BY <1>17 DEF Ready, watchVars
  <2>2. /\ Pool \in Pools /\ Pool.rq = rq /\ Pool.pend = pend
        /\ rq \in Seq(Handlers) /\ Sound(Pool) /\ Serves(Pool, open)
        /\ pend \in [Client -> ClientOp \cup {NULL}]
    BY <1>0 DEF Orderly, Pools, Pool
  <2>3. c \in open /\ pend[c] \in ClientOp BY <2>1, <2>2 DEF Serves
  <2>4. h \in Handlers
    BY <1>0, <2>3 DEF Handlers, Handler, ClientOp
  <2>5. h.client = c /\ h.how = "ready" /\ h.op = pend[c] /\ ~h.stale OBVIOUS
  <2>6. Q = [Pool EXCEPT !.rq = Append(rq, h)] BY DEF Queue, Pool
  <2>7. Q \in Pools /\ Same(Pool, Q) BY <2>2, <2>3, QueueClient DEF How
  <2>8. Sound(Q) BY <2>2, <2>7, SameSound
  <2>9. ~QueuedFor(rq, c)
    <3> SUFFICES ASSUME QueuedFor(rq, c) PROVE FALSE OBVIOUS
    <3>1. PICK g \in Handlers : In(rq, g) /\ g.client = c BY <2>2, LateRange
    <3>2. g.how = "ready" BY <2>1, <2>2, <2>3, <3>1 DEF Serves
    <3> QED BY <2>1, <3>1, <3>2 DEF In
  <2> HIDE DEF h, Q
  <2>10. Q.rq = Append(rq, h) /\ Q.clnts = Pool.clnts /\ Q.under = Pool.under
         /\ Q.pend = Pool.pend
    BY <2>2, <2>6 DEF Pools
  <2>11. Orderly(Q, open, NULL)
    BY <1>0, <2>1, <2>2, <2>3, <2>4, <2>5, <2>7, <2>8, <2>9, <2>10, AppendOrderly
  <2> QED BY <1>0, <2>1, <2>11, SetPoolOrderly
<1>18. CASE TimePasses BY <1>4, <1>18 DEF TimePasses, Tick
<1>19. CASE UNCHANGED vars BY <1>4, <1>19 DEF vars, watchVars
<1>20. CASE Next
  BY <1>5, <1>9, <1>10, <1>11, <1>12, <1>13, <1>14, <1>15, <1>16, <1>17, <1>18,
     <1>20
  DEF Next
<1> QED BY <1>19, <1>20

\* The pool is in order initially.
LEMMA InitOrderly == Init => Orderly(Pool, open, NULL) /\ Cardinality(open) <= MaxOpen
<1> SUFFICES ASSUME Init
             PROVE  Orderly(Pool, open, NULL) /\ Cardinality(open) <= MaxOpen
  OBVIOUS
<1> DEFINE L == List!NewList(NUM_CLIENT)
           G == List!GetNewElmt(L)
           o == [i \in 1 .. NUM_CLIENT |-> i]
<1>0. NUM_CLIENT \in Nat /\ NUM_CLIENT >= 2 /\ Client = 1 .. NUM_CLIENT
      /\ NULL \notin Client /\ 1 \in Client /\ MaxOpen \in Nat
  BY ServerAssumption, WatchAssumption
<1>1. L \in Lists(Client) /\ L.new = 1 BY <1>0, NewListOver
<1>2. L.order = o BY DEF List!NewList
<1> HIDE DEF L
<1>3. L \in Perms(Client) BY <1>1, <1>2 DEF Perms, Once
<1>4. \A c \in Client : List!Place(L, c) = c
  <2>1. \A i \in DOMAIN L.order : List!Place(L, L.order[i]) = i BY <1>3, PlaceOnce
  <2> QED BY <1>0, <1>2, <2>1
<1>5. FirstFree(L) = 1 BY <1>0, <1>1, <1>4 DEF FirstFree
<1>6. /\ G \in Perms(Client) /\ \A c \in Client : Ahead(G, c) = Ahead(L, c) - 1
  BY <1>0, <1>1, <1>3, TakeIs
<1> HIDE DEF G
<1>7. \A c \in Client : Ahead(G, c) < 0 <=> c = 1
  <2> SUFFICES ASSUME NEW c \in Client PROVE Ahead(G, c) < 0 <=> c = 1 OBVIOUS
  <2>1. Ahead(G, c) = (c - 1) - 1 BY <1>4, <1>5, <1>6 DEF Ahead
  <2>2. c \in Int /\ c >= 1 BY <1>0
  <2> QED BY <2>1, <2>2
<1>8. Pool \in Pools /\ Sound(Pool) BY InitSInv DEF SInv, PoolOK
<1>9. /\ Pool.clnts = G /\ Pool.under = 1 /\ Pool.rq = <<>>
      /\ Pool.pend = [c \in Client |-> NULL] /\ open = {}
  BY DEF Init, WatchInit, Pool, G, L
<1>10. Shares(Pool, open, NULL) BY <1>0, <1>6, <1>7, <1>9 DEF Shares
<1>11. DOMAIN Pool.rq = {} BY <1>9
<1>12. Serves(Pool, open) BY <1>9, <1>11 DEF Serves, Single, In
<1>13. LateFew(Pool.rq, Pool.clnts) BY <1>11 DEF LateFew, Late
<1>14. Cardinality(open) = 0 BY <1>9, FS_EmptySet
<1> QED BY <1>0, <1>8, <1>10, <1>12, <1>13, <1>14 DEF Orderly

\* The invariant holds throughout.
LEMMA AlwaysAmple ==
    ASSUME EnoughClients
    PROVE  Spec => []AmpleInv
<1>1. Init => AmpleInv BY InitSInv, InitOrderly DEF AmpleInv
<1>2. AmpleInv /\ SInv' /\ [Next]_vars => AmpleInv'
  BY NextOrderly DEF AmpleInv
<1> QED BY <1>1, <1>2, AlwaysSInv, PTL DEF Spec

-----------------------------------------------------------------------------
(* The theorems *)

\* A handler left over from a closed connection finds its client free: never
\* serving a new connection, nor set aside for the next one.
THEOREM LateHandlersFindFree ==
    ASSUME EnoughClients
    PROVE  Spec => []LateHandlersHarmless
<1>1. AmpleInv => LateHandlersHarmless
  <2> SUFFICES ASSUME AmpleInv, NEW i \in DOMAIN rq, rq[i].stale
               PROVE  rq[i].client \notin open \cup {under}
    BY DEF LateHandlersHarmless
  <2>1. /\ rq \in Seq(Handlers) /\ Orderly(Pool, open, NULL)
        /\ Serves(Pool, open) /\ Pool.rq = rq /\ Pool.under = under
    BY DEF AmpleInv, Orderly, Pools, Pool
  <2>2. rq[i] \in Handlers /\ In(rq, rq[i]) /\ QueuedFor(rq, rq[i].client)
    BY <2>1, ElementOfSeq, LenProperties DEF In, QueuedFor
  <2>3. rq[i].client \in Client /\ rq[i].client \notin open
    BY <2>1, <2>2 DEF Serves
  <2>4. rq[i].client # under BY <2>1, <2>2, <2>3, NoneQueued
  <2> QED BY <2>3, <2>4
<1> QED BY <1>1, AlwaysAmple, PTL

\* The pool hands out what is free and nothing else: each client is open, set
\* aside for the next connection, or free.
THEOREM ClientsPartitioned ==
    ASSUME EnoughClients
    PROVE  Spec => []PoolPartition
<1>1. AmpleInv => PoolPartition
  <2> SUFFICES ASSUME AmpleInv PROVE PoolPartition OBVIOUS
  <2>1. /\ clnts \in Perms(Client) /\ under \notin open /\ NULL \notin Client
        /\ \A c \in Client : Ahead(clnts, c) < 0 <=> c \in open \cup {under}
        /\ open \in SUBSET Client
    BY WatchAssumption DEF AmpleInv, Orderly, Shares, Pool
  <2>2. /\ \A i \in DOMAIN clnts.order : clnts.order[i] \in Client
        /\ DOMAIN clnts.order = 1 .. Len(clnts.order)
        /\ \A c \in Client : List!Place(clnts, c) \in 1 .. Len(clnts.order)
                             /\ clnts.order[List!Place(clnts, c)] = c
    BY <2>1, PlaceOnce
  <2>3. List!Elements(clnts) = Client
    <3>1. List!Elements(clnts) \subseteq Client BY <2>2 DEF List!Elements
    <3>2. ASSUME NEW c \in Client PROVE c \in List!Elements(clnts)
      BY <2>2 DEF List!Elements
    <3> QED BY <3>1, <3>2
  <2>4. /\ List!FreeOf(clnts) = {c \in Client : Ahead(clnts, c) >= 0}
        /\ \A c \in Client : Ahead(clnts, c) \in Int
    BY <2>1, AheadIs
  <2>5. \A c \in Client : Ahead(clnts, c) >= 0 <=> c \notin open \cup {under}
    BY <2>1, <2>4
  <2>6. List!FreeOf(clnts) = Client \ (open \cup {under}) BY <2>4, <2>5
  <2> QED BY <2>1, <2>3, <2>6 DEF PoolPartition
<1> QED BY <1>1, AlwaysAmple, PTL

\* Every open connection has exactly one operation that is in progress or
\* about to be handled.
THEOREM OperationIsOne ==
    ASSUME EnoughClients
    PROVE  Spec => []OneOperation
<1>1. AmpleInv => OneOperation
  <2> SUFFICES ASSUME AmpleInv, NEW c \in open
               PROVE  Cardinality({i \in DOMAIN rq : rq[i].client = c /\ ~rq[i].stale
                                                     /\ rq[i].how # "ready"})
                      + (IF pend[c] = NULL THEN 0 ELSE 1) = 1
    BY DEF OneOperation, Queued
  <2> DEFINE X == {i \in DOMAIN rq : rq[i].client = c /\ ~rq[i].stale
                                     /\ rq[i].how # "ready"}
  <2>1. /\ rq \in Seq(Handlers) /\ Serves(Pool, open) /\ c \in Client
        /\ Pool.rq = rq /\ Pool.pend = pend /\ open \in SUBSET Client
        /\ Single(rq)
    BY DEF AmpleInv, Orderly, Pools, Pool, Shares, Serves
  <2>2. \A i \in DOMAIN rq : rq[i] \in Handlers /\ In(rq, rq[i])
    BY <2>1, ElementOfSeq, LenProperties DEF In
  <2>3. CASE pend[c] = NULL
    <3>1. PICK h \in Handlers : In(rq, h) /\ h.client = c /\ h.how # "ready"
      BY <2>1, <2>3 DEF Serves
    <3>2. PICK i \in DOMAIN rq : rq[i] = h BY <3>1 DEF In
    <3>3. ~h.stale BY <2>1, <3>1 DEF Serves
    <3>4. X = {i} BY <2>1, <3>1, <3>2, <3>3 DEF Single
    <3>5. Cardinality(X) = 1 BY <3>4, FS_Singleton
    <3> QED BY <2>3, <3>5
  <2>4. CASE pend[c] # NULL
    <3>1. X = {} BY <2>1, <2>2, <2>4 DEF Serves
    <3>2. Cardinality(X) = 0 BY <3>1, FS_EmptySet
    <3> QED BY <2>4, <3>2
  <2> QED BY <2>3, <2>4
<1> QED BY <1>1, AlwaysAmple, PTL

(* User records *)

\* The user records in use are those f gives to a client, each to one.
Owned(L, f) ==
    /\ L \in Perms(UserIds)
    /\ \A c, d \in Client : f[c] # NULL /\ f[c] = f[d] => c = d
    /\ \A u \in UserIds : Ahead(L, u) < 0 <=> \E c \in Client : f[c] = u

\* KClient::Clean gives the record of its client back, if it has one.
LEMMA FreedOwned ==
    ASSUME NEW L, NEW f \in [Client -> UserIds \cup {NULL}], Owned(L, f),
           NEW c \in Client
    PROVE  Owned(Freed(L, f[c]), [f EXCEPT ![c] = NULL])
<1> DEFINE g == [f EXCEPT ![c] = NULL]
           M == List!MoveToEnd(L, f[c])
<1>0. NULL \notin UserIds /\ L \in Perms(UserIds)
  BY WatchAssumption DEF UserIds, Owned
<1>1. g[c] = NULL /\ \A d \in Client : d # c => g[d] = f[d] OBVIOUS
<1> HIDE DEF g
<1>2. \A d, e \in Client : g[d] # NULL /\ g[d] = g[e] => d = e
  BY <1>1 DEF Owned
<1>3. CASE f[c] = NULL
  <2>1. Freed(L, f[c]) = L BY <1>3 DEF Freed
  <2>2. \A d \in Client : g[d] = f[d] BY <1>1, <1>3
  <2> QED BY <1>2, <2>1, <2>2 DEF Owned, g
<1>4. CASE f[c] # NULL
  <2>1. f[c] \in UserIds /\ Freed(L, f[c]) = M BY <1>4 DEF Freed
  <2>2. Ahead(L, f[c]) < 0 BY <2>1 DEF Owned
  <2>3. /\ M \in Perms(UserIds) /\ Ahead(M, f[c]) = Spare(L)
        /\ \A u \in UserIds : u # f[c] =>
              IF Ahead(L, u) < 0 THEN Ahead(M, u) < 0 ELSE Ahead(M, u) = Ahead(L, u)
    BY <1>0, <2>1, <2>2, MoveUsed
  <2>4. Spare(L) \in Nat /\ \A u \in UserIds : Ahead(L, u) \in Int
    BY <1>0, AheadIs
  <2> HIDE DEF M
  <2>5. ASSUME NEW u \in UserIds
        PROVE  Ahead(M, u) < 0 <=> \E d \in Client : g[d] = u
    <3>1. CASE u = f[c]
      <4>1. ~(Ahead(M, u) < 0) BY <2>3, <2>4, <3>1
      <4>2. ASSUME NEW d \in Client, g[d] = u PROVE FALSE
        <5>1. d # c BY <1>0, <1>1, <4>2
        <5>2. f[d] = f[c] /\ f[d] # NULL BY <1>0, <1>1, <3>1, <4>2, <5>1
        <5> QED BY <5>1, <5>2 DEF Owned
      <4> QED BY <4>1, <4>2
    <3>2. CASE u # f[c]
      <4>1. Ahead(M, u) < 0 <=> Ahead(L, u) < 0 BY <2>3, <3>2
      <4>2. (\E d \in Client : g[d] = u) <=> (\E d \in Client : f[d] = u)
        BY <1>0, <1>1, <3>2
      <4> QED BY <4>1, <4>2 DEF Owned
    <3> QED BY <3>1, <3>2
  <2> QED BY <1>2, <2>1, <2>3, <2>5 DEF Owned, g
<1> QED BY <1>3, <1>4

\* A record that the pool hands out goes to a client that has none.
LEMMA TakenOwned ==
    ASSUME NEW L, NEW f \in [Client -> UserIds \cup {NULL}], Owned(L, f),
           NEW c \in Client, f[c] = NULL, L.new # NULL
    PROVE  Owned(List!GetNewElmt(L), [f EXCEPT ![c] = L.new])
<1> DEFINE g == [f EXCEPT ![c] = L.new]
           G == List!GetNewElmt(L)
<1>0. NULL \notin UserIds /\ L \in Perms(UserIds)
  BY WatchAssumption DEF UserIds, Owned
<1>1. /\ L.new \in UserIds /\ Ahead(L, L.new) = 0
      /\ \A u \in UserIds : Ahead(L, u) \in Int
      /\ \A u, v \in UserIds : Ahead(L, u) = Ahead(L, v) => u = v
  BY <1>0, AheadIs
<1>2. /\ G \in Perms(UserIds)
      /\ \A u \in UserIds : Ahead(G, u) = Ahead(L, u) - 1
  BY <1>0, TakeIs
<1>3. g[c] = L.new /\ \A d \in Client : d # c => g[d] = f[d] OBVIOUS
<1>4. \A d \in Client : f[d] # L.new
  <2>1. ~(Ahead(L, L.new) < 0) BY <1>1
  <2> QED BY <1>1, <2>1 DEF Owned
<1> HIDE DEF g, G
<1>5. \A d, e \in Client : g[d] # NULL /\ g[d] = g[e] => d = e
  BY <1>3, <1>4 DEF Owned
<1>6. ASSUME NEW u \in UserIds
      PROVE  Ahead(G, u) < 0 <=> \E d \in Client : g[d] = u
  <2>1. Ahead(G, u) < 0 <=> Ahead(L, u) < 0 \/ u = L.new BY <1>1, <1>2
  <2>2. Ahead(L, u) < 0 <=> \E d \in Client : f[d] = u BY DEF Owned
  <2>3. (\E d \in Client : g[d] = u) <=> (\E d \in Client : f[d] = u) \/ u = L.new
    BY <1>0, <1>3
  <2> QED BY <2>1, <2>2, <2>3
<1> QED BY <1>2, <1>5, <1>6 DEF Owned, g, G

UserInv == AmpleInv /\ NoUserLeft /\ Owned(users, uinfo)

\* The client set aside for the next connection has no user record.
LEMMA SetAsideHasNone ==
    ASSUME UserInv, under \in Client
    PROVE  uinfo[under] = NULL
<1>1. Orderly(Pool, open, NULL) /\ Pool.under = under /\ Pool.rq = rq
  BY DEF UserInv, AmpleInv, Pool
<1>2. ~QueuedFor(rq, under) BY <1>1, NoneQueued
<1>3. under \notin open BY <1>1 DEF Orderly, Shares
<1> QED BY <1>2, <1>3 DEF UserInv, NoUserLeft, QueuedFor

\* Every step keeps the user records owned.
LEMMA NextOwned ==
    ASSUME EnoughClients, UserInv, [Next]_vars
    PROVE  Owned(users, uinfo)'
<1>0. /\ Owned(users, uinfo) /\ uinfo \in [Client -> UserIds \cup {NULL}]
      /\ IInv /\ NULL \notin Client /\ NULL \notin UserIds
      /\ under \in Client /\ uinfo[under] = NULL /\ under \notin open
  BY SpareAmple, SetAsideHasNone, WatchAssumption
  DEF UserInv, AmpleInv, SInv, ChatOK, UserIds, Orderly, Shares, Pool
<1>1. ASSUME UNCHANGED <<users, uinfo>> PROVE Owned(users, uinfo)'
  BY <1>0, <1>1
<1>2. ASSUME NEW c \in Client, Clean(c) PROVE Owned(users, uinfo)'
  <2>1. users' = Freed(users, uinfo[c]) /\ uinfo' = [uinfo EXCEPT ![c] = NULL]
    BY <1>2 DEF Clean
  <2> QED BY <1>0, <2>1, FreedOwned
<1>3. ASSUME NEW ip \in IP, NEW now \in AtOnce, AcceptOverLimit(ip, now)
      PROVE  Owned(users, uinfo)'
  <2> DEFINE p    == Previous(ip)
             held == IF p = NULL THEN NULL ELSE uinfo[p]
             S    == {under, p} \ {NULL}
             f    == IF p = NULL THEN uinfo ELSE [uinfo EXCEPT ![p] = NULL]
  <2>1. /\ Known(ip) /\ users' = Freed(Freed(users, held), uinfo[under])
        /\ uinfo' = [c \in Client |-> IF c \in S THEN NULL ELSE uinfo[c]]
    BY <1>3 DEF AcceptOverLimit, ChkOverLimit
  <2>2. p \in Client \cup {NULL} BY <1>0, <2>1, PreviousIs
  <2>3. p # NULL => p # under BY <1>0, <2>1, PreviousLinked
  <2> HIDE DEF p
  <2>4. Owned(Freed(users, held), f)
    <3>1. CASE p = NULL BY <1>0, <3>1 DEF Freed
    <3>2. CASE p # NULL BY <1>0, <2>2, <3>2, FreedOwned
    <3> QED BY <3>1, <3>2
  <2>5. f \in [Client -> UserIds \cup {NULL}] /\ f[under] = NULL
    BY <1>0, <2>2, <2>3
  <2>6. uinfo' = [f EXCEPT ![under] = NULL] BY <1>0, <2>1, <2>2
  <2>7. users' = Freed(Freed(users, held), f[under]) BY <1>0, <2>1, <2>5
  <2> HIDE DEF f, held, S
  <2> QED BY <1>0, <2>4, <2>5, <2>6, <2>7, FreedOwned
<1>4. ASSUME NEW ip \in IP, NEW now \in AtOnce, NEW done \in AtOnce,
             AcceptAgain(ip, now, done)
      PROVE  Owned(users, uinfo)'
  <2> DEFINE p == Previous(ip)
  <2>1. /\ Known(ip) /\ users' = users
        /\ uinfo' = IF Inherits(p)
                    THEN [uinfo EXCEPT ![under] = uinfo[p], ![p] = NULL]
                    ELSE uinfo
    BY <1>4 DEF AcceptAgain, ChkAgain
  <2>2. p \in Client \cup {NULL} BY <1>0, <2>1, PreviousIs
  <2>3. p # NULL => p # under BY <1>0, <2>1, PreviousLinked
  <2> HIDE DEF p
  <2>4. CASE ~Inherits(p) BY <1>1, <2>1, <2>4
  <2>5. CASE Inherits(p)
    <3>1. p \in Client /\ p # under BY <2>2, <2>3, <2>5 DEF Inherits
    <3>2. /\ uinfo'[under] = uinfo[p] /\ uinfo'[p] = NULL
          /\ \A c \in Client : c # p /\ c # under => uinfo'[c] = uinfo[c]
      BY <1>0, <2>1, <2>5, <3>1
    <3>3. \A c, d \in Client : uinfo'[c] # NULL /\ uinfo'[c] = uinfo'[d] => c = d
      <4>1. \A c, d \in Client : uinfo[c] # NULL /\ uinfo[c] = uinfo[d] => c = d
        BY <1>0 DEF Owned
      <4> QED BY <1>0, <3>1, <3>2, <4>1
    <3>4. \A u \in UserIds : (\E c \in Client : uinfo'[c] = u)
                             <=> (\E c \in Client : uinfo[c] = u)
      BY <1>0, <3>1, <3>2
    <3> QED BY <1>0, <2>1, <3>3, <3>4 DEF Owned
  <2> QED BY <2>4, <2>5
<1>5. ASSUME NEW c \in Client, NEW now \in AtOnce, CrtUsrReply(c, now)
      PROVE  Owned(users, uinfo)'
  <2>1. /\ uinfo[c] = NULL /\ users.new # NULL
        /\ uinfo' = [uinfo EXCEPT ![c] = users.new]
        /\ users' = List!GetNewElmt(users)
    BY <1>5 DEF CrtUsrReply, List!NextFree
  <2> QED BY <1>0, <2>1, TakenOwned
<1>6. ASSUME NEW c \in Client, NEW now \in AtOnce,
             \/ ClientFails(c, now)
             \/ InitRIDenied(c, now)
             \/ CrtUsrDenied(c, now)
             \/ CrtUsrMalformed(c, now)
      PROVE  Owned(users, uinfo)'
  BY <1>2, <1>6
  DEF ClientFails, InitRIDenied, CrtUsrDenied, CrtUsrMalformed, Drop
<1>7. ASSUME NEW c \in Client, NEW now \in AtOnce,
             \/ HandshakeRead(c, now)
             \/ HandshakeWritten(c, now)
             \/ ReplyWritten(c, now)
             \/ InitRIBusy(c, now)
             \/ InitRIReply(c, now)
             \/ CrtUsrBusy(c, now)
      PROVE  Owned(users, uinfo)'
  BY <1>1, <1>7
  DEF HandshakeRead, HandshakeWritten, ReplyWritten, InitRIBusy, InitRIReply,
      CrtUsrBusy, chatVars
<1>8. ASSUME NEW now \in AtOnce,
             \/ AcceptFails(now)
             \/ \E ip \in IP : AcceptRefused(ip, now)
      PROVE  Owned(users, uinfo)'
  BY <1>0, <1>2, <1>8 DEF AcceptFails, AcceptRefused
<1>9. ASSUME NEW ip \in IP,
             AcceptHangs(ip) \/ \E now, done \in AtOnce : AcceptNew(ip, now, done)
      PROVE  Owned(users, uinfo)'
  BY <1>1, <1>9 DEF AcceptHangs, AcceptNew, chatVars
<1>10. ASSUME Arrives \/ (\E c \in Client : Ready(c)) \/ TimePasses \/ UNCHANGED vars
       PROVE  Owned(users, uinfo)'
  BY <1>1, <1>10 DEF Arrives, Ready, TimePasses, vars, chatVars
<1>11. CASE Next
  BY <1>3, <1>4, <1>5, <1>6, <1>7, <1>8, <1>9, <1>10, <1>11 DEF Next
<1> QED BY <1>10, <1>11

\* The user records in use are those the clients hold, each held by one: a
\* reconnection that takes a record over, a second recycling of a client and a
\* late registration free none twice and forget none.
THEOREM UsersOwned ==
    ASSUME EnoughClients
    PROVE  Spec => []UserRecordsOwned
<1>1. Init => Owned(users, uinfo)
  <2> SUFFICES ASSUME Init PROVE Owned(users, uinfo) OBVIOUS
  <2> DEFINE L == List!NewList(EN_NUM_KUInfo)
             o == [i \in 1 .. EN_NUM_KUInfo |-> i]
  <2>0. EN_NUM_KUInfo \in Nat /\ EN_NUM_KUInfo >= 2 /\ NULL \notin UserIds
    BY ServerAssumption, WatchAssumption DEF UserIds
  <2>1. L \in Lists(UserIds) /\ L.new = 1 BY <2>0, NewListOver DEF UserIds
  <2>2. L.order = o BY DEF List!NewList
  <2>3. users = L /\ uinfo = [c \in Client |-> NULL] BY DEF Init
  <2> HIDE DEF L
  <2>4. L \in Perms(UserIds) BY <2>1, <2>2 DEF Perms, Once
  <2>5. \A u \in UserIds : List!Place(L, u) = u
    <3>1. \A i \in DOMAIN L.order : List!Place(L, L.order[i]) = i
      BY <2>4, PlaceOnce
    <3> QED BY <2>0, <2>2, <3>1 DEF UserIds
  <2>6. 1 \in UserIds /\ 1 # NULL BY <2>0 DEF UserIds
  <2>7. FirstFree(L) = 1 BY <2>1, <2>5, <2>6 DEF FirstFree
  <2>8. \A u \in UserIds : ~(Ahead(L, u) < 0)
    BY <2>0, <2>5, <2>7 DEF Ahead, UserIds
  <2> QED BY <2>0, <2>3, <2>4, <2>8 DEF Owned
<1>2. AmpleInv /\ NoUserLeft /\ Owned(users, uinfo) /\ [Next]_vars
        => Owned(users, uinfo)'
  BY NextOwned DEF UserInv
<1>3. AmpleInv /\ Owned(users, uinfo) => UserRecordsOwned
  <2> SUFFICES ASSUME AmpleInv, Owned(users, uinfo) PROVE UserRecordsOwned
    OBVIOUS
  <2>1. NULL \notin UserIds /\ users \in Perms(UserIds)
        /\ uinfo \in [Client -> UserIds \cup {NULL}]
    BY WatchAssumption DEF UserIds, Owned, AmpleInv, SInv, ChatOK
  <2>2. /\ List!FreeOf(users) = {u \in UserIds : Ahead(users, u) >= 0}
        /\ \A u \in UserIds : Ahead(users, u) \in Int
    BY <2>1, AheadIs
  <2>3. \A u \in UserIds : Ahead(users, u) >= 0 <=> ~\E c \in Client : uinfo[c] = u
    BY <2>2 DEF Owned
  <2>4. List!FreeOf(users) = UserIds \ {uinfo[c] : c \in Client}
    BY <2>2, <2>3
  <2> QED BY <2>4 DEF UserRecordsOwned, Owned, UserIds
<1> QED BY <1>1, <1>2, <1>3, AlwaysAmple, UsersReleased, PTL DEF Spec

-----------------------------------------------------------------------------
(* Large buffers *)

\* A reply is being written to d, or its handler is queued.
Writes(P, d) ==
    \/ P.pend[d] = "ws_write"
    \/ \E h \in Handlers : In(P.rq, h) /\ h.client = d /\ ~h.stale
                           /\ h.op = "ws_write"

\* From P to Q, d loses neither its operation nor a handler.
Leaves(P, Q, d) ==
    /\ Q.pend[d] = P.pend[d]
    /\ \A h \in Handlers : In(P.rq, h) /\ h.client = d => In(Q.rq, h)

\* The buffers in b are those f gives to a client, each to one.
Lent(f, b) ==
    /\ b = {f[c] : c \in Client} \ {NULL}
    /\ \A c, d \in Client : f[c] # NULL /\ f[c] = f[d] => c = d

\* A client that has a buffer is open, and its reply is being written.
Replying(f, P, O) == \A c \in Client : f[c] # NULL => c \in O /\ Writes(P, c)

\* The handler of another client begins.
LEMMA BegunLeaves ==
    ASSUME Orderly(Pool, open, NULL), NEW op, NEW c \in Client, Running(op, c),
           NEW d \in Client, d # c
    PROVE  Leaves(Pool, Begun, d)
<1>1. /\ Begun.rq = Tail(rq) /\ Begun.pend = [pend EXCEPT ![c] = NULL]
      /\ Head(rq).client = c
      /\ \A x : In(rq, x) => In(Tail(rq), x) \/ x = Head(rq)
  BY BegunFacts
<1>2. pend \in [Client -> ClientOp \cup {NULL}] /\ Pool.rq = rq /\ Pool.pend = pend
  BY DEF Orderly, Pools, Pool
<1> QED BY <1>1, <1>2 DEF Leaves

\* The handler of the accept begins and goes on with the next client.
LEMMA AcceptLeaves ==
    ASSUME Orderly(Pool, open, NULL), Running("accept", NULL),
           NEW connected, NEW now \in BOOLEAN, NEW d \in Client
    PROVE  Leaves(Pool, AcceptNext(connected, now), d)
<1> DEFINE A == AcceptNext(connected, now)
           G == List!GetNewElmt(clnts)
           R == [Begun EXCEPT !.under = clnts.new, !.clnts = G]
           g(how) == [op |-> "accept", client |-> NULL, how |-> how, stale |-> FALSE]
           t == Tail(rq)
<1>1. /\ PoolOK /\ NULL \notin Client /\ Pool.rq = rq /\ Pool.pend = pend
      /\ clnts \in Lists(Client)
      /\ rq \in Seq(Handlers) /\ rq # <<>> /\ Single(rq)
      /\ Head(rq).op = "accept" /\ Head(rq).client = NULL
  BY WatchAssumption DEF Orderly, Serves, Pool, Pools, PoolOK, Running
<1>2. Begun \in Pools /\ Begun.rq = t /\ Begun.pend = pend /\ Begun.clnts = clnts
  <2>1. Begun.rq = t /\ Begun.pend = pend BY <1>1 DEF Begun, Pool
  <2> QED BY <1>1, <2>1, BegunIs
<1>3. t \in Seq(Handlers) /\ \A x : In(rq, x) => In(t, x) \/ x = Head(rq)
  BY <1>1, TailIs
<1>4. \A h \in Handlers : In(rq, h) /\ h.client = d => In(t, h) BY <1>1, <1>3
<1> HIDE DEF t, A
<1>5. CASE clnts.new = NULL
  <2>1. A = [Begun EXCEPT !.under = NULL, !.clnts = G]
    BY <1>2, <1>5 DEF A, AcceptNext, List!NextFree
  <2>2. A.rq = t /\ A.pend = pend BY <1>2, <2>1 DEF Pools
  <2> QED BY <1>1, <1>4, <2>2 DEF Leaves, A
<1>6. CASE clnts.new # NULL
  <2>1. A = StartAccept(R, clnts.new \in connected, now)
    BY <1>2, <1>6 DEF A, AcceptNext, List!NextFree
  <2>2. clnts.new \in Client /\ G \in Lists(Client)
    BY <1>1, <1>6, GetNewElmtKeeps DEF Lists
  <2> HIDE DEF G
  <2>3. R \in Pools /\ R.rq = t /\ R.pend = pend BY <1>2, <2>2 DEF Pools
  <2> HIDE DEF R
  <2>4. \/ A = [R EXCEPT !.armed = TRUE]
        \/ \E how \in How : A = [R EXCEPT !.rq = Append(t, g(how))]
    BY <2>1, <2>3 DEF StartAccept, Queue, How
  <2>5. CASE A = [R EXCEPT !.armed = TRUE]
    <3>1. A.rq = t /\ A.pend = pend BY <2>3, <2>5 DEF Pools
    <3> QED BY <1>1, <1>4, <3>1 DEF Leaves, A
  <2>6. ASSUME NEW how \in How, A = [R EXCEPT !.rq = Append(t, g(how))]
        PROVE  Leaves(Pool, A, d)
    <3>1. g(how) \in Handlers BY DEF Handlers, Handler, How
    <3>2. A.rq = Append(t, g(how)) /\ A.pend = pend BY <2>3, <2>6 DEF Pools
    <3>3. \A x : In(t, x) => In(A.rq, x) BY <1>3, <3>1, <3>2, AppendIs
    <3> QED BY <1>1, <1>4, <3>2, <3>3 DEF Leaves
  <2> QED BY <2>4, <2>5, <2>6 DEF A
<1> QED BY <1>5, <1>6

\* Another client is recycled.
LEMMA RecycleLeaves ==
    ASSUME NEW P \in Pools, P.under # NULL, NEW O \in SUBSET Client,
           Serves(P, O), NEW c \in Client, NEW now, NEW d \in Client, d # c
    PROVE  Leaves(P, Recycle(P, c, now), d)
<1> DEFINE Q == Recycle(P, c, now)
           D == Close(P, c)
           L == List!MoveToEnd(P.clnts, c)
<1>1. Single(P.rq) BY DEF Serves
<1>2. \A h \in Handlers : In(P.rq, h) /\ h.client = c /\ P.pend[c] # NULL
         => h.how = "ready"
  BY CloseServes
<1>3. /\ D \in Pools /\ D.clnts = P.clnts /\ D.under = P.under
      /\ D.pend = [P.pend EXCEPT ![c] = NULL]
      /\ \A h : h.client # c => (In(D.rq, h) <=> In(P.rq, h))
  BY <1>1, <1>2, CloseIs
<1>4. L \in Lists(Client) BY MoveToEndKeeps DEF Pools
<1> HIDE DEF L
<1>5. Q = [D EXCEPT !.clnts = L] BY <1>3 DEF Recycle, L
<1> HIDE DEF Q
<1>6. Q.rq = D.rq /\ Q.pend = D.pend BY <1>3, <1>4, <1>5 DEF Pools
<1>7. P.pend \in [Client -> ClientOp \cup {NULL}] BY DEF Pools
<1> HIDE DEF D
<1> QED BY <1>3, <1>6, <1>7 DEF Leaves, Q

\* An operation is started on the socket of a client.
LEMMA StartLeaves ==
    ASSUME NEW P \in Pools, NEW op \in ClientOp, NEW c \in Client,
           NEW connected \in BOOLEAN, NEW stale \in BOOLEAN, NEW now \in BOOLEAN
    PROVE  LET Q == Start(P, op, c, connected, stale, now)
           IN /\ \A d \in Client : d # c => Leaves(P, Q, d)
              /\ connected /\ ~stale /\ op = "ws_write" => Writes(Q, c)
<1> DEFINE Q == Start(P, op, c, connected, stale, now)
           g(how) == [op |-> op, client |-> c, how |-> how, stale |-> stale]
<1>1. /\ P.rq \in Seq(Handlers) /\ P.pend \in [Client -> ClientOp \cup {NULL}]
      /\ NULL \notin Client
  BY WatchAssumption DEF Pools
<1>2. \/ connected /\ Q = [P EXCEPT !.pend[c] = op]
      \/ \E how \in How : Q = [P EXCEPT !.rq = Append(P.rq, g(how))]
  BY DEF Start, Queue, How
<1> HIDE DEF Q
<1>3. CASE Q = [P EXCEPT !.pend[c] = op]
  <2>1. Q.rq = P.rq /\ Q.pend = [P.pend EXCEPT ![c] = op] BY <1>3 DEF Pools
  <2> QED BY <1>1, <2>1 DEF Leaves, Writes, Q
<1>4. ASSUME NEW how \in How, Q = [P EXCEPT !.rq = Append(P.rq, g(how))]
      PROVE  /\ \A d \in Client : d # c => Leaves(P, Q, d)
             /\ connected /\ ~stale /\ op = "ws_write" => Writes(Q, c)
  <2>1. g(how) \in Handlers BY <1>1 DEF Handlers, Handler, How, ClientOp
  <2>2. Q.rq = Append(P.rq, g(how)) /\ Q.pend = P.pend BY <1>4 DEF Pools
  <2>3. \A x : In(Q.rq, x) <=> In(P.rq, x) \/ x = g(how)
    BY <1>1, <2>1, <2>2, AppendIs
  <2> QED BY <2>1, <2>2, <2>3 DEF Leaves, Writes
<1> QED BY <1>2, <1>3, <1>4 DEF Q

\* What loses nothing of a client leaves it its reply.
LEMMA LeavesWrites ==
    ASSUME NEW P, NEW Q, NEW d, Leaves(P, Q, d)
    PROVE  /\ Writes(P, d) => Writes(Q, d)
           /\ \A R : Leaves(Q, R, d) => Leaves(P, R, d)
  BY DEF Leaves, Writes

\* The buffers of some clients are returned.
LEMMA ReturnedLent ==
    ASSUME NEW S \in SUBSET Client, big \in [Client -> Buf \cup {NULL}],
           Lent(big, bufs), CleanBuf(S)
    PROVE  /\ Lent(big, bufs)'
           /\ \A c \in Client : big'[c] # NULL => c \notin S /\ big[c] # NULL
<1>1. /\ bufs' = bufs \ {big[c] : c \in S}
      /\ \A c \in Client : big'[c] = IF c \in S THEN NULL ELSE big[c]
  BY DEF CleanBuf
<1>2. /\ bufs = {big[c] : c \in Client} \ {NULL}
      /\ \A c, d \in Client : big[c] # NULL /\ big[c] = big[d] => c = d
  BY DEF Lent
<1>3. \A c, d \in Client : big'[c] # NULL /\ big'[c] = big'[d] => c = d
  BY <1>1, <1>2
<1>4. bufs' = {big'[c] : c \in Client} \ {NULL}
  <2>1. ASSUME NEW b \in bufs' PROVE b \in {big'[c] : c \in Client} \ {NULL}
    <3>1. PICK c \in Client : b = big[c] /\ b # NULL BY <1>1, <1>2, <2>1
    <3>2. c \notin S BY <1>1, <2>1, <3>1
    <3> QED BY <1>1, <3>1, <3>2
  <2>2. ASSUME NEW c \in Client, big'[c] # NULL PROVE big'[c] \in bufs'
    <3>1. c \notin S /\ big'[c] = big[c] BY <1>1, <2>2
    <3>2. big[c] \in bufs BY <1>2, <2>2, <3>1
    <3>3. \A d \in S : big[d] # big[c] BY <1>2, <2>2, <3>1
    <3> QED BY <1>1, <3>1, <3>2, <3>3
  <2> QED BY <2>1, <2>2
<1> QED BY <1>1, <1>3, <1>4 DEF Lent

BufInv == AmpleInv /\ Lent(big, bufs) /\ Replying(big, Pool, open)

\* A client that a handler other than that of a reply runs for has no buffer.
LEMMA NoReplyYet ==
    ASSUME BufInv, NEW op, op # "ws_write", NEW c \in Client, Running(op, c)
    PROVE  big[c] = NULL
<1> SUFFICES ASSUME big[c] # NULL PROVE FALSE OBVIOUS
<1>1. Orderly(Pool, open, NULL) /\ c \in open /\ Writes(Pool, c)
  BY DEF BufInv, AmpleInv, Replying
<1>2. Head(rq) \in Handlers /\ In(rq, Head(rq)) /\ Head(rq).client = c
  BY <1>1, BegunFacts
<1>3. Head(rq).op # "ws_write" BY DEF Running
<1>4. Serves(Pool, open) /\ Pool.rq = rq /\ Pool.pend = pend BY <1>1 DEF Orderly, Pool
<1>5. CASE pend[c] = "ws_write"
  <2>1. pend[c] # NULL BY <1>5, ServerAssumption DEF ClientOp
  <2> QED BY <1>1, <1>2, <1>3, <1>4, <1>5, <2>1 DEF Serves
<1>6. CASE pend[c] # "ws_write"
  <2>1. PICK h \in Handlers : In(rq, h) /\ h.client = c /\ h.op = "ws_write"
    BY <1>1, <1>4, <1>6 DEF Writes
  <2>2. h = Head(rq) BY <1>2, <1>4, <2>1 DEF Serves, Single, In
  <2> QED BY <1>3, <2>1, <2>2
<1> QED BY <1>5, <1>6

\* A handler of a client that goes on leaves the other clients alone; if it
\* goes on with a reply to a connection, that reply is being written.
LEMMA ProceedsLeaves ==
    ASSUME AmpleInv, NEW from, NEW to \in ClientOp, NEW c \in Client,
           NEW now \in BOOLEAN, Proceeds(from, c, to, now)
    PROVE  /\ \A d \in Client : d # c => Leaves(Pool, Pool', d)
           /\ c \in open /\ to = "ws_write" => Writes(Pool', c)
<1> DEFINE Q == Start(Begun, to, c, c \in open, Head(rq).stale, now)
<1>1. Orderly(Pool, open, NULL) /\ Running(from, c) /\ SetPool(Q)
  BY DEF AmpleInv, Proceeds
<1>2. Begun \in Pools /\ Head(rq) \in Handlers BY <1>1, BegunFacts
<1>3. Head(rq).stale \in BOOLEAN /\ (c \in open) \in BOOLEAN
  BY <1>2 DEF Handlers, Handler
<1>4. Q \in Pools BY <1>2, <1>3, StartKeeps
<1>5. /\ \A d \in Client : d # c => Leaves(Begun, Q, d)
      /\ c \in open /\ ~Head(rq).stale /\ to = "ws_write" => Writes(Q, c)
  BY <1>2, <1>3, StartLeaves
<1> HIDE DEF Q
<1>6. Pool' = Q BY <1>1, <1>4 DEF SetPool, Pool, Pools
<1>7. \A d \in Client : d # c => Leaves(Pool, Begun, d) BY <1>1, BegunLeaves
<1>8. \A d \in Client : d # c => Leaves(Pool, Q, d) BY <1>5, <1>7, LeavesWrites
<1>9. c \in open => ~Head(rq).stale BY <1>1, BegunOpen
<1> QED BY <1>5, <1>6, <1>8, <1>9

\* Recycling a client leaves the pool and its queue typed.
LEMMA RecycleIn ==
    ASSUME NEW P \in Pools, P.under # NULL, NEW c \in Client,
           NEW now \in BOOLEAN, NEW O \in SUBSET Client, Serves(P, O)
    PROVE  Recycle(P, c, now) \in Pools
<1> DEFINE D == Close(P, c)
           L == List!MoveToEnd(P.clnts, c)
<1>1. Single(P.rq) BY DEF Serves
<1>2. \A h \in Handlers : In(P.rq, h) /\ h.client = c /\ P.pend[c] # NULL
         => h.how = "ready"
  BY CloseServes
<1>3. D \in Pools /\ D.clnts = P.clnts /\ D.under = P.under BY <1>1, <1>2, CloseIs
<1>4. L \in Lists(Client) BY MoveToEndKeeps DEF Pools
<1> HIDE DEF L, D
<1>5. Recycle(P, c, now) = [D EXCEPT !.clnts = L] BY <1>3 DEF Recycle, L, D
<1> QED BY <1>3, <1>4, <1>5 DEF Pools

\* What takes no buffer and leaves the clients that keep one alone.
LEMMA KeptReplying ==
    ASSUME BufInv, NEW O, NEW Q, NEW g,
           \A c \in Client : g[c] # NULL =>
              big[c] # NULL /\ (c \in open => c \in O /\ Leaves(Pool, Q, c))
    PROVE  Replying(g, Q, O)
  BY LeavesWrites DEF BufInv, Replying

\* Every step keeps the buffers with the replies.
LEMMA NextBuf ==
    ASSUME EnoughClients, BufInv, [Next]_vars
    PROVE  (Lent(big, bufs) /\ Replying(big, Pool, open))'
<1> DEFINE Kept == Lent(big', bufs') /\ Replying(big', Pool', open')
<1>0. /\ AmpleInv /\ Orderly(Pool, open, NULL) /\ IInv /\ Lent(big, bufs)
      /\ big \in [Client -> Buf \cup {NULL}] /\ bufs \subseteq Buf
      /\ NULL \notin Client /\ NULL \notin Buf /\ NULL \notin Slot
      /\ under \in Client /\ under \notin open /\ open \in SUBSET Client
  <2>1. AmpleInv /\ Lent(big, bufs) BY DEF BufInv
  <2>2. Orderly(Pool, open, NULL) /\ IInv /\ ChatOK BY <2>1 DEF AmpleInv, SInv
  <2>3. under \in Client BY <2>1, SpareAmple
  <2>4. under \notin open /\ open \in SUBSET Client
    BY <2>2 DEF Orderly, Shares, Pool
  <2>5. NULL \notin Client /\ NULL \notin Buf /\ NULL \notin Slot
    BY WatchAssumption, ServerAssumption DEF Slot
  <2> QED BY <2>1, <2>2, <2>3, <2>4, <2>5 DEF ChatOK
<1>1. \A now \in AtOnce : now \in BOOLEAN BY ServerAssumption
<1>2. \A c \in Client : big[c] # NULL => c \in open BY DEF BufInv, Replying
<1>3. ASSUME big' = big, bufs' = bufs,
             \A c \in open : c \in open' /\ Leaves(Pool, Pool', c)
      PROVE  Kept
  BY <1>0, <1>2, <1>3, KeptReplying
<1>4. ASSUME NEW S \in SUBSET Client, CleanBuf(S),
             \A c \in open : c \notin S => c \in open' /\ Leaves(Pool, Pool', c)
      PROVE  Kept
  <2>1. Lent(big', bufs') BY <1>0, <1>4, ReturnedLent
  <2>2. \A c \in Client : big'[c] # NULL => c \notin S /\ big[c] # NULL
    BY <1>0, <1>4, ReturnedLent
  <2> QED BY <1>4, <2>1, <2>2, KeptReplying
<1>5. ASSUME UNCHANGED <<big, bufs, poolVars, open>> PROVE Kept
  <2>1. Pool' = Pool BY <1>5 DEF Pool, poolVars
  <2> QED BY <1>3, <1>5, <2>1 DEF Leaves
<1>6. ASSUME NEW P \in Pools, SetPool(P) PROVE Pool' = P
  BY <1>6 DEF SetPool, Pool, Pools
<1>7. ASSUME NEW connected, NEW now \in AtOnce, Running("accept", NULL)
      PROVE  LET A == AcceptNext(connected, now)
             IN /\ A \in Pools /\ A.under # NULL /\ Serves(A, open)
                /\ Recycle(A, under, now) \in Pools
                /\ \A d \in open : Leaves(Pool, A, d)
                /\ \A d \in open : Leaves(Pool, Recycle(A, under, now), d)
  <2> DEFINE A == AcceptNext(connected, now)
  <2>1. Spare(clnts) >= 1 BY <1>0, SpareAmple
  <2>2. Orderly(A, open, under) /\ A.under # NULL
    BY <1>0, <1>1, <1>7, <2>1, AcceptNextOrderly
  <2>3. \A d \in open : Leaves(Pool, A, d) BY <1>0, <1>1, <1>7, AcceptLeaves
  <2>4. Orderly(Recycle(A, under, now), open, NULL)
    BY <1>0, <1>1, <1>7, AcceptedOrderly
  <2> HIDE DEF A
  <2>5. A \in Pools /\ Serves(A, open) /\ Recycle(A, under, now) \in Pools
    BY <2>2, <2>4 DEF Orderly
  <2>6. \A d \in open : d # under => Leaves(A, Recycle(A, under, now), d)
    BY <1>0, <2>2, <2>5, RecycleLeaves
  <2>7. \A d \in open : Leaves(Pool, Recycle(A, under, now), d)
    BY <1>0, <2>3, <2>6, LeavesWrites
  <2> QED BY <2>2, <2>3, <2>5, <2>7 DEF A
<1>8. ASSUME NEW now \in AtOnce, AcceptFails(now) PROVE Kept
  <2> DEFINE X == open \cup (IF Succeeds THEN {under} ELSE {})
             P == Recycle(AcceptNext(X, now), under, now)
  <2>1. /\ Running("accept", NULL) /\ SetPool(P) /\ open' = open \ {under}
        /\ CleanBuf({under})
    BY <1>8 DEF AcceptFails, Disconnect, Clean
  <2> HIDE DEF X
  <2>2. P \in Pools /\ \A d \in open : Leaves(Pool, P, d) BY <1>7, <2>1
  <2> HIDE DEF P
  <2>3. Pool' = P BY <1>6, <2>1, <2>2
  <2>4. {under} \in SUBSET Client BY <1>0
  <2> QED BY <1>4, <2>1, <2>2, <2>3, <2>4
<1>9. ASSUME NEW ip \in IP, AcceptHangs(ip) PROVE Kept
  BY <1>5, <1>9 DEF AcceptHangs, ChkHangs, chatVars
<1>10. ASSUME NEW ip \in IP, NEW now \in AtOnce, AcceptRefused(ip, now)
       PROVE  Kept
  <2> DEFINE P == Recycle(Accepted(now), under, now)
  <2>1. /\ Running("accept", NULL) /\ SetPool(P) /\ open' = open
        /\ CleanBuf({under})
    BY <1>10 DEF AcceptRefused, Accepting, ChkRefuses, Clean
  <2>2. P \in Pools /\ \A d \in open : Leaves(Pool, P, d)
    BY <1>7, <2>1 DEF Accepted
  <2> HIDE DEF P
  <2>3. Pool' = P BY <1>6, <2>1, <2>2
  <2>4. {under} \in SUBSET Client BY <1>0
  <2> QED BY <1>4, <2>1, <2>2, <2>3, <2>4
<1>11. ASSUME NEW P \in Pools, NEW done \in AtOnce,
              SetPool(Start(P, "hs_read", under, TRUE, FALSE, done)),
              NEW d \in open, Leaves(Pool, P, d)
       PROVE  Leaves(Pool, Pool', d)
  <2> DEFINE Q == Start(P, "hs_read", under, TRUE, FALSE, done)
  <2>1. Q \in Pools BY <1>0, <1>1, StartKeeps DEF ClientOp
  <2>2. d \in Client /\ d # under BY <1>0
  <2>3. Leaves(P, Q, d) BY <1>0, <1>1, <2>2, StartLeaves DEF ClientOp
  <2> HIDE DEF Q
  <2>4. Pool' = Q BY <1>6, <1>11, <2>1 DEF Q
  <2> QED BY <1>11, <2>3, <2>4, LeavesWrites
<1>12. ASSUME NEW ip \in IP, NEW now \in AtOnce, NEW done \in AtOnce,
              AcceptNew(ip, now, done)
       PROVE  Kept
  <2>1. /\ Running("accept", NULL) /\ open' = open \cup {under}
        /\ SetPool(Start(Accepted(now), "hs_read", under, TRUE, FALSE, done))
        /\ big' = big /\ bufs' = bufs
    BY <1>12 DEF AcceptNew, Accepting, ChkNew
  <2>2. Accepted(now) \in Pools /\ \A d \in open : Leaves(Pool, Accepted(now), d)
    BY <1>7, <2>1 DEF Accepted
  <2> QED BY <1>3, <1>11, <2>1, <2>2
<1>13. ASSUME NEW ip \in IP, NEW now \in AtOnce, Accepting(ip), Known(ip)
       PROVE  LET p == Previous(ip)
                  P == RecycleIfAny(Accepted(now), p, now)
              IN /\ P \in Pools /\ P.under # NULL /\ Serves(P, open \ {p})
                 /\ p \in open \cup {NULL}
                 /\ \A d \in open : d # p => Leaves(Pool, P, d)
  <2> DEFINE A == Accepted(now)
             p == Previous(ip)
             P == RecycleIfAny(A, p, now)
  <2>1. Running("accept", NULL) /\ Cardinality(open) < MaxOpen
    BY <1>13 DEF Accepting
  <2>2. /\ A \in Pools /\ A.under # NULL /\ Serves(A, open)
        /\ \A d \in open : Leaves(Pool, A, d)
    BY <1>7, <2>1 DEF Accepted
  <2>3. CASE p = NULL
    <3>1. open \ {p} = open BY <1>0, <2>3
    <3> QED BY <2>2, <2>3, <3>1 DEF RecycleIfAny
  <2>4. CASE p # NULL
    <3>1. p \in open BY <1>0, <1>13, <2>4, PreviousLinked
    <3>2. P = Recycle(A, p, now) BY <2>4 DEF RecycleIfAny
    <3>3. Orderly(Recycle(A, p, now), open \ {p}, under)
          /\ Recycle(A, p, now).under # NULL
      BY <1>1, <1>0, <2>1, <3>1, AcceptedOrderly DEF Accepted
    <3> HIDE DEF p, A
    <3>4. \A d \in open : d # p => Leaves(A, Recycle(A, p, now), d)
      BY <1>0, <2>2, <3>1, RecycleLeaves
    <3>5. \A d \in open : d # p => Leaves(Pool, Recycle(A, p, now), d)
      BY <2>2, <3>4, LeavesWrites
    <3> QED BY <3>1, <3>2, <3>3, <3>5 DEF Orderly, p, A
  <2> QED BY <2>3, <2>4
<1>14. ASSUME NEW ip \in IP, NEW now \in AtOnce, AcceptOverLimit(ip, now)
       PROVE  Kept
  <2> DEFINE p == Previous(ip)
             P == RecycleIfAny(Accepted(now), p, now)
             Q == Recycle(P, under, now)
             S == {under, p} \ {NULL}
  <2>1. /\ Accepting(ip) /\ Known(ip) /\ open' = open \ {p}
        /\ SetPool(Q) /\ CleanBuf(S)
    BY <1>14 DEF AcceptOverLimit, ChkOverLimit
  <2>2. /\ P \in Pools /\ P.under # NULL /\ Serves(P, open \ {p})
        /\ p \in open \cup {NULL}
        /\ \A d \in open : d # p => Leaves(Pool, P, d)
    BY <1>13, <2>1
  <2> HIDE DEF p, P
  <2>3. open \ {p} \in SUBSET Client BY <1>0
  <2>4. \A d \in open : Leaves(P, Q, d) BY <1>0, <2>2, <2>3, RecycleLeaves
  <2>5. Q \in Pools BY <1>0, <1>1, <2>2, <2>3, RecycleIn
  <2> HIDE DEF Q
  <2>6. Pool' = Q BY <1>6, <2>1, <2>5
  <2>7. S \in SUBSET Client BY <1>0, <2>2
  <2>8. \A d \in open : d \notin S => d \in open' /\ Leaves(Pool, Pool', d)
    BY <1>0, <2>1, <2>2, <2>4, <2>6, LeavesWrites
  <2> HIDE DEF S
  <2> QED BY <1>4, <2>1, <2>7, <2>8
<1>15. ASSUME NEW ip \in IP, NEW now \in AtOnce, NEW done \in AtOnce,
              AcceptAgain(ip, now, done)
       PROVE  Kept
  <2> DEFINE p == Previous(ip)
             P == RecycleIfAny(Accepted(now), p, now)
             S == {p} \ {NULL}
  <2>1. /\ Accepting(ip) /\ Known(ip) /\ open' = (open \ {p}) \cup {under}
        /\ SetPool(Start(P, "hs_read", under, TRUE, FALSE, done)) /\ CleanBuf(S)
    BY <1>15 DEF AcceptAgain, ChkAgain
  <2>2. /\ P \in Pools /\ p \in open \cup {NULL}
        /\ \A d \in open : d # p => Leaves(Pool, P, d)
    BY <1>13, <2>1
  <2> HIDE DEF p, P
  <2>3. \A d \in open : d # p => Leaves(Pool, Pool', d) BY <1>11, <2>1, <2>2
  <2>4. S \in SUBSET Client BY <1>0, <2>2
  <2>5. \A d \in open : d \notin S => d \in open' /\ Leaves(Pool, Pool', d)
    BY <1>0, <2>1, <2>3
  <2> HIDE DEF S
  <2> QED BY <1>4, <2>1, <2>4, <2>5
<1>16. ASSUME NEW c \in Client, NEW now \in AtOnce,
              \/ ClientFails(c, now)
              \/ InitRIDenied(c, now)
              \/ CrtUsrDenied(c, now)
              \/ CrtUsrMalformed(c, now)
       PROVE  Kept
  <2> DEFINE Q == Recycle(Begun, c, now)
  <2>1. PICK op \in ClientOp : Running(op, c)
    BY <1>16 DEF ClientFails, InitRIDenied, CrtUsrDenied, CrtUsrMalformed,
                 Receives, ClientOp
  <2>2. SetPool(Q) /\ open' = open \ {c} /\ CleanBuf({c})
    BY <1>16 DEF ClientFails, InitRIDenied, CrtUsrDenied, CrtUsrMalformed, Drop,
                 Disconnect, Clean
  <2>3. Begun \in Pools /\ Begun.under # NULL BY <1>0, <2>1, BegunFacts
  <2>4. \A d \in Client : d # c => Leaves(Pool, Begun, d) BY <1>0, <2>1, BegunLeaves
  <2>5. \E O \in SUBSET Client : Serves(Begun, O)
    <3>1. CASE c \in open
      <4>1. Orderly(Begun, open \ {c}, c) BY <1>0, <2>1, <3>1, BegunOpen
      <4>2. open \ {c} \in SUBSET Client BY <1>0
      <4> QED BY <4>1, <4>2 DEF Orderly
    <3>2. CASE c \notin open
      <4>1. Orderly(Begun, open, NULL) BY <1>0, <2>1, <3>2, BegunLate
      <4> QED BY <1>0, <4>1 DEF Orderly
    <3> QED BY <3>1, <3>2
  <2>6. \A d \in Client : d # c => Leaves(Begun, Q, d)
    BY <2>3, <2>5, RecycleLeaves
  <2>7. Q \in Pools BY <1>1, <2>3, <2>5, RecycleIn
  <2> HIDE DEF Q
  <2>8. Pool' = Q BY <1>6, <2>2, <2>7
  <2>9. \A d \in open : d \notin {c} => d \in open' /\ Leaves(Pool, Pool', d)
    BY <1>0, <2>2, <2>4, <2>6, <2>8, LeavesWrites
  <2>10. {c} \in SUBSET Client OBVIOUS
  <2> QED BY <1>4, <2>2, <2>9, <2>10
<1>17. ASSUME NEW c \in Client, NEW now \in AtOnce, NEW from, NEW to \in ClientOp,
              Proceeds(from, c, to, now), open' = open
       PROVE  /\ \A d \in open : d \notin {c} => d \in open' /\ Leaves(Pool, Pool', d)
              /\ c \in open /\ to = "ws_write" => Writes(Pool', c)
              /\ Running(from, c)
  <2>1. /\ \A d \in Client : d # c => Leaves(Pool, Pool', d)
        /\ c \in open /\ to = "ws_write" => Writes(Pool', c)
    BY <1>0, <1>1, <1>17, ProceedsLeaves
  <2> QED BY <1>0, <1>17, <2>1 DEF Proceeds
<1>18. ASSUME NEW c \in Client, NEW now \in AtOnce,
              \/ HandshakeRead(c, now)
              \/ HandshakeWritten(c, now)
              \/ InitRIBusy(c, now)
              \/ CrtUsrReply(c, now)
       PROVE  Kept
  <2>1. \E from \in ClientOp \ {"ws_write"}, to \in ClientOp :
           Proceeds(from, c, to, now)
    BY <1>18 DEF HandshakeRead, HandshakeWritten, InitRIBusy, CrtUsrReply, ClientOp
  <2>2. open' = open /\ bufs' = bufs /\ big' \in {big, [big EXCEPT ![c] = NULL]}
    BY <1>18 DEF HandshakeRead, HandshakeWritten, InitRIBusy, CrtUsrReply,
                 watchVars, chatVars
  <2>3. PICK from \in ClientOp \ {"ws_write"} : \E to \in ClientOp :
           Proceeds(from, c, to, now)
    BY <2>1
  <2>4. Running(from, c) /\ \A d \in open : d # c => d \in open' /\ Leaves(Pool, Pool', d)
    BY <1>17, <2>2, <2>3
  <2>5. big[c] = NULL BY <2>3, <2>4, NoReplyYet
  <2>6. big' = big BY <1>0, <2>2, <2>5
  <2>7. \A d \in Client : big'[d] # NULL =>
           big[d] # NULL /\ (d \in open => d \in open' /\ Leaves(Pool, Pool', d))
    BY <2>4, <2>5, <2>6
  <2> QED BY <1>0, <2>2, <2>6, <2>7, KeptReplying
<1>19. ASSUME NEW c \in Client, NEW now \in AtOnce,
              ReplyWritten(c, now) \/ CrtUsrBusy(c, now)
       PROVE  Kept
  <2>1. \E from \in ClientOp, to \in ClientOp : Proceeds(from, c, to, now)
    BY <1>19 DEF ReplyWritten, CrtUsrBusy, ClientOp
  <2>2. open' = open /\ CleanBuf({c})
    BY <1>19 DEF ReplyWritten, CrtUsrBusy, watchVars
  <2>3. \A d \in open : d \notin {c} => d \in open' /\ Leaves(Pool, Pool', d)
    BY <1>17, <2>1, <2>2
  <2>4. {c} \in SUBSET Client OBVIOUS
  <2> QED BY <1>4, <2>2, <2>3, <2>4
<1>20. ASSUME NEW c \in Client, NEW now \in AtOnce, InitRIReply(c, now)
       PROVE  Kept
  <2> DEFINE b == CHOOSE x \in Buf \ bufs : TRUE
  <2>1. /\ Entitled(c) /\ bufs # Buf /\ open' = open
        /\ bufs' = bufs \cup {b} /\ big' = [big EXCEPT ![c] = b]
        /\ Proceeds("ws_read", c, "ws_write", now)
    BY <1>20 DEF InitRIReply, GrantInitRI
  <2>2. b \in Buf \ bufs BY <1>0, <2>1
  <2> HIDE DEF b
  <2>3. c \in open
    <3>1. link[c] # NULL /\ link[c] \in Slot /\ recd[link[c]].client = c
      BY <1>0, <2>1 DEF Entitled, IInv, WatchTypeOK, LinksMutual
    <3> QED BY <1>0, <3>1 DEF IInv, LinksMutual
  <2>4. /\ \A d \in open : d # c => d \in open' /\ Leaves(Pool, Pool', d)
        /\ Writes(Pool', c) /\ Running("ws_read", c)
    BY <1>17, <2>1, <2>3 DEF ClientOp
  <2>5. big[c] = NULL BY <2>4, NoReplyYet
  <2>6. big'[c] = b /\ \A d \in Client : d # c => big'[d] = big[d] BY <1>0, <2>1
  <2>7. /\ bufs = {big[d] : d \in Client} \ {NULL} /\ b # NULL
        /\ \A d, e \in Client : big[d] # NULL /\ big[d] = big[e] => d = e
    BY <1>0, <2>2 DEF Lent
  <2>8. \A d \in Client : big[d] # b BY <2>2, <2>7
  <2>9. \A d, e \in Client : big'[d] # NULL /\ big'[d] = big'[e] => d = e
    BY <2>6, <2>7, <2>8
  <2>10. bufs' = {big'[d] : d \in Client} \ {NULL}
    <3>1. bufs' = ({big[d] : d \in Client} \ {NULL}) \cup {b} BY <2>1, <2>7
    <3>2. ASSUME NEW x PROVE x \in {big'[d] : d \in Client} \ {NULL} <=> x \in bufs'
      <4>1. x \in bufs' <=> x = b \/ (x # NULL /\ \E d \in Client : big[d] = x)
        BY <3>1
      <4>2. x \in {big'[d] : d \in Client} \ {NULL}
               <=> x # NULL /\ \E d \in Client : big'[d] = x
        OBVIOUS
      <4> QED BY <2>5, <2>6, <2>7, <4>1, <4>2
    <3> QED BY <3>2
  <2>11. ASSUME NEW d \in Client, big'[d] # NULL
         PROVE  d \in open' /\ Writes(Pool', d)
    <3>1. CASE d = c BY <2>1, <2>3, <2>4, <3>1
    <3>2. CASE d # c
      <4>1. d \in open /\ Writes(Pool, d)
        BY <2>6, <2>11, <3>2 DEF BufInv, Replying
      <4> QED BY <2>4, <3>2, <4>1, LeavesWrites
    <3> QED BY <3>1, <3>2
  <2> QED BY <2>9, <2>10, <2>11 DEF Lent, Replying
<1>21. ASSUME NEW h \in Handlers, NEW P, P = [Pool EXCEPT !.rq = Append(rq, h)],
              SetPool(P) \/ SetPool([P EXCEPT !.armed = FALSE]), NEW d
       PROVE  Leaves(Pool, Pool', d)
  <2>1. Pool \in Pools /\ Pool.rq = rq /\ Pool.pend = pend /\ rq \in Seq(Handlers)
    BY <1>0 DEF Orderly, Pools, Pool
  <2>2. P.rq = Append(rq, h) /\ P.pend = pend BY <1>21, <2>1 DEF Pools
  <2>3. [P EXCEPT !.armed = FALSE].rq = P.rq /\ [P EXCEPT !.armed = FALSE].pend = P.pend
    BY <1>21, <2>1 DEF Pools
  <2>4. rq' = Append(rq, h) /\ pend' = pend BY <1>21, <2>2, <2>3 DEF SetPool
  <2>5. Pool'.rq = rq' /\ Pool'.pend = pend' BY DEF Pool
  <2>6. \A x : In(rq', x) <=> In(rq, x) \/ x = h BY <2>1, <2>4, AppendIs
  <2> QED BY <2>1, <2>4, <2>5, <2>6 DEF Leaves
<1>22. CASE Arrives
  <2> DEFINE h == [op |-> "accept", client |-> NULL, how |-> "ready",
                   stale |-> FALSE]
  <2>1. h \in Handlers BY DEF Handlers, Handler
  <2>2. SetPool([[Pool EXCEPT !.rq = Append(rq, h)] EXCEPT !.armed = FALSE])
        /\ open' = open /\ big' = big /\ bufs' = bufs
    BY <1>22 DEF Arrives, Queue, Pool, watchVars, chatVars
  <2> HIDE DEF h
  <2> QED BY <1>3, <1>21, <2>1, <2>2
<1>23. ASSUME NEW c \in Client, Ready(c) PROVE Kept
  <2> DEFINE h == [op |-> pend[c], client |-> c, how |-> "ready",
                   stale |-> FALSE]
  <2>1. pend \in [Client -> ClientOp \cup {NULL}] BY <1>0 DEF Orderly, Pools, Pool
  <2>2. pend[c] \in ClientOp BY <1>23, <2>1 DEF Ready
  <2>3. h \in Handlers BY <1>0, <2>2 DEF Handlers, Handler, ClientOp
  <2>4. SetPool([Pool EXCEPT !.rq = Append(rq, h)])
        /\ open' = open /\ big' = big /\ bufs' = bufs
    BY <1>23 DEF Ready, Queue, Pool, watchVars, chatVars
  <2> HIDE DEF h
  <2> QED BY <1>3, <1>21, <2>3, <2>4
<1>24. CASE TimePasses BY <1>5, <1>24 DEF TimePasses, Tick, chatVars
<1>25. CASE UNCHANGED vars BY <1>5, <1>25 DEF vars, watchVars, chatVars
<1>26. CASE Next
  BY <1>8, <1>9, <1>10, <1>12, <1>14, <1>15, <1>16, <1>18, <1>19, <1>20, <1>22,
     <1>23, <1>24, <1>26
  DEF Next
<1> QED BY <1>25, <1>26

\* The large buffers in use are those of the replies being written, one each:
\* whether a reply completes, fails, or its client is recycled meanwhile, its
\* buffer is returned once.
THEOREM RepliesOwnBuffers ==
    ASSUME EnoughClients
    PROVE  Spec => []BuffersOwned
<1> DEFINE Held == Lent(big, bufs) /\ Replying(big, Pool, open)
<1>1. Init => Held
  <2> SUFFICES ASSUME Init PROVE Held OBVIOUS
  <2>1. bufs = {} /\ \A c \in Client : big[c] = NULL BY DEF Init
  <2>2. {big[c] : c \in Client} \ {NULL} = {} BY <2>1
  <2> QED BY <2>1, <2>2 DEF Lent, Replying
<1>2. AmpleInv /\ Held /\ [Next]_vars => Held'
  BY NextBuf DEF BufInv
<1>3. AmpleInv /\ Held => BuffersOwned
  <2> SUFFICES ASSUME AmpleInv, Held PROVE BuffersOwned OBVIOUS
  <2>1. Pool.rq = rq /\ Pool.pend = pend BY DEF Pool
  <2>2. \A c \in Client : Writes(Pool, c) =>
           pend[c] = "ws_write"
           \/ \E i \in DOMAIN rq : rq[i].client = c /\ ~rq[i].stale
                                   /\ rq[i].op = "ws_write"
    BY <2>1 DEF Writes, In
  <2> QED BY <2>2 DEF BuffersOwned, Lent, Replying
<1> QED BY <1>1, <1>2, <1>3, AlwaysAmple, PTL DEF Spec
=============================================================================
