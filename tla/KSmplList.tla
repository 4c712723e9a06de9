----------------------------- MODULE KSmplList -----------------------------
(***************************************************************************)
(* KSmplList2<T, size> (KSmplList.hpp): a fixed array of elements chained  *)
(* into one list.  The elements in use are its front, the free ones its    *)
(* end; new (m_pNewElmt_inList) is the first free element and NULL when    *)
(* there is none.  Get_NewElmt hands out new, MoveToEnd takes an element   *)
(* back and puts it at the end.                                            *)
(*                                                                         *)
(* Here a list is a value: order, the elements as m_pNext chains them,     *)
(* new, and len.  KSmplListPtr.tla has the pointers themselves and         *)
(* implements these operators.                                             *)
(***************************************************************************)
EXTENDS Integers, SequencesExt, FiniteSets

CONSTANTS NULL,       \* the null pointer
          LenWidth    \* m_len is a uint16_t: arithmetic modulo 2^16

\* The list as constructed, an element being its index in the array.
NewList(size) == [order |-> [i \in 1..size |-> i], new |-> 1, len |-> 0]

Elements(L) == {L.order[i] : i \in DOMAIN L.order}

Place(L, e) == CHOOSE i \in DOMAIN L.order : L.order[i] = e

\* m_pNext of e.
Following(L, e) ==
    IF Place(L, e) = Len(L.order) THEN NULL ELSE L.order[Place(L, e) + 1]

\* What Get_NewElmt returns: the first free element, or NULL.
NextFree(L) == L.new

\* Get_NewElmt: the list after the call.
GetNewElmt(L) ==
    IF L.new = NULL
    THEN L
    ELSE [L EXCEPT !.new = Following(L, L.new), !.len = (@ + 1) % LenWidth]

\* Mutant: the element is the next one handed out.
MoveBeforeNew(L, e) ==
    LET others == SelectSeq(L.order, LAMBDA x : x # e)
        n == IF L.new \in {NULL, e} THEN Len(others)
             ELSE (CHOOSE i \in DOMAIN others : others[i] = L.new) - 1
    IN [order |-> SubSeq(others, 1, n) \o <<e>> \o SubSeq(others, n + 1, Len(others)),
        new |-> e, len |-> (L.len - 1) % LenWidth]

\* MoveToEnd(pelmt).  Nothing in the method asks whether e is in use.
MoveToEnd(L, e) ==
    [order |-> Append(RemoveAt(L.order, Place(L, e)), e),
     new   |-> IF L.new = NULL THEN e ELSE L.new,
     len   |-> (L.len - 1) % LenWidth]

\* Mutant: m_pPrev forgotten.
GetLastIsNew(L) == IF L.new = NULL THEN L.order[Len(L.order)] ELSE L.new

\* Get_FirstEmnt and Get_LastEmnt.
GetFirstEmnt(L) == IF L.new = L.order[1] THEN NULL ELSE L.order[1]
GetLastEmnt(L)  ==
    IF L.new = NULL THEN L.order[Len(L.order)]
    ELSE IF Place(L, L.new) = 1 THEN NULL ELSE L.order[Place(L, L.new) - 1]

\* The elements Get_NewElmt has still to hand out, if none comes back.
FreeOf(L) ==
    IF L.new = NULL THEN {}
    ELSE {L.order[i] : i \in Place(L, L.new) .. Len(L.order)}

=============================================================================
