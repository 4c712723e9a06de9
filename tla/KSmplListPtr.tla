---------------------------- MODULE KSmplListPtr ----------------------------
(***************************************************************************)
(* KSmplList2 down to its pointers: m_pPrev and m_pNext of each element,   *)
(* m_pBegin, m_pEnd and m_pNewElmt_inList, and a caller that may give back *)
(* any element at any time (KServer.tla shows that m_KClntList has such a  *)
(* caller).  It implements the operators of KSmplList.tla, so that the     *)
(* server's model may work on lists, and it is a Pool until it is misused. *)
(***************************************************************************)
EXTENDS KSmplList

CONSTANT Size         \* the number of elements

Element == 1..Size

ASSUME ListAssumption ==
    /\ Size \in Nat /\ Size >= 2 /\ NULL \notin Element
    /\ LenWidth \in Nat /\ LenWidth > Size

VARIABLES prev, next,   \* m_pPrev and m_pNext of each element
          begin, end,   \* m_pBegin and m_pEnd
          new,          \* m_pNewElmt_inList
          len,          \* m_len
          held,         \* the elements the caller was given and has not returned
          refused,      \* the last Get_NewElmt returned NULL
          misused       \* an element that was not held has been given back

pointers == <<prev, next, begin, end>>
vars == <<pointers, new, len, held, refused, misused>>

Init ==
    /\ prev = [e \in Element |-> IF e = 1 THEN NULL ELSE e - 1]
    /\ next = [e \in Element |-> IF e = Size THEN NULL ELSE e + 1]
    /\ begin = 1 /\ end = Size /\ new = 1
    /\ len = 0
    /\ held = {} /\ refused = FALSE /\ misused = FALSE

Get_NewElmt ==
    /\ new # NULL
    /\ new' = next[new]
    /\ len' = (len + 1) % LenWidth
    /\ held' = held \cup {new} /\ refused' = FALSE
    /\ UNCHANGED <<pointers, misused>>

\* Mutant: a refusal is counted.
RefusalCounted ==
    /\ new = NULL
    /\ len' = (len + 1) % LenWidth
    /\ refused' = TRUE
    /\ UNCHANGED <<pointers, new, held, misused>>

Get_NewElmt_Full ==
    /\ new = NULL
    /\ refused' = TRUE
    /\ UNCHANGED <<pointers, new, len, held, misused>>

\* Mutant: m_pPrev of the new first element is left alone.
UnlinkFirstHalf(e) ==
    /\ prev[e] = NULL
    /\ begin' = next[e]
    /\ prev' = [prev EXCEPT ![e] = end]
    /\ next' = [next EXCEPT ![end] = e, ![e] = NULL]
    /\ end' = e

\* The three cases of MoveToEnd: e is first, in the middle, or last.
UnlinkFirst(e) ==
    /\ prev[e] = NULL
    /\ begin' = next[e]
    /\ prev' = [prev EXCEPT ![next[e]] = NULL, ![e] = end]
    /\ next' = [next EXCEPT ![end] = e, ![e] = NULL]
    /\ end' = e

UnlinkMiddle(e) ==
    /\ prev[e] # NULL /\ next[e] # NULL
    /\ prev' = [prev EXCEPT ![next[e]] = prev[e], ![e] = end]
    /\ next' = [next EXCEPT ![prev[e]] = next[e], ![end] = e, ![e] = NULL]
    /\ end' = e
    /\ UNCHANGED begin

LeaveLast(e) ==
    /\ prev[e] # NULL /\ next[e] = NULL
    /\ UNCHANGED pointers

\* Mutants: m_pNewElmt_inList is left NULL, or is set before the element is
\* moved.
NewAfterFull == new
NewAfterTooSoon == IF new = NULL THEN end ELSE new

\* m_pNewElmt_inList after MoveToEnd.
NewAfter == IF new = NULL THEN end' ELSE new

GiveBack(e) ==
    /\ UnlinkFirst(e) \/ UnlinkMiddle(e) \/ LeaveLast(e)
    /\ new' = NewAfter
    /\ len' = (len - 1) % LenWidth
    /\ held' = held \ {e}
    /\ misused' = (misused \/ e \notin held)
    /\ UNCHANGED refused

Next == \/ Get_NewElmt
        \/ Get_NewElmt_Full
        \/ \E e \in Element : GiveBack(e)

Spec == Init /\ [][Next]_vars

-----------------------------------------------------------------------------

\* The elements met from m_pBegin along m_pNext.
Chain ==
    LET walk[n \in Element] == IF n = 1 THEN begin ELSE next[walk[n-1]]
    IN walk

\* m_pNext chains every element from m_pBegin to m_pEnd, and m_pPrev is the
\* same chain backwards: relinking loses no element and makes no loop.
WellLinked ==
    /\ {Chain[n] : n \in Element} = Element
    /\ Chain[Size] = end /\ next[end] = NULL
    /\ prev[begin] = NULL
    /\ \A n \in 2..Size : prev[Chain[n]] = Chain[n-1]
    /\ new \in Element \cup {NULL}

\* The list the pointers stand for.
List == [order |-> [n \in Element |-> Chain[n]], new |-> new, len |-> len]

\* Whatever is given back, the pointers do what the operators say that the
\* other models use: Get_NewElmt, and MoveToEnd of the element given back.
ImplementsList ==
    /\ List = NewList(Size)
    /\ [][\/ List' = GetNewElmt(List)
          \/ \E e \in Element : e \notin held' /\ List' = MoveToEnd(List, e)]_vars

\* Whatever the order of calls, the list keeps every element, and those from
\* m_pNewElmt_inList on are exactly what the caller does not hold: none in
\* use is handed out again and none that was given back is lost.
Partition == ~misused => FreeOf(List) = Element \ held

\* m_len, which Get_Len reports as the number of elements, counts them.
LenCounts == ~misused => len = Cardinality(held)

\* A caller that walks from Get_FirstEmnt to Get_LastEmnt, as UP_InitRI does
\* over the rooms, meets exactly the elements in use.
WalkMeetsHeld ==
    LET first == GetFirstEmnt(List)
        last  == GetLastEmnt(List)
    IN ~misused =>
         IF held = {} THEN first = NULL
         ELSE /\ {first, last} \subseteq held
              /\ held = {Chain[n] : n \in Place(List, first) .. Place(List, last)}

Promise == INSTANCE Pool WITH Resource <- Element

\* The list is a pool as long as its callers give back what they hold: it
\* never hands out an element that is held, and refuses only when all are.
IsPool ==
    /\ Promise!PoolInit
    /\ [][~misused' => Promise!PoolNext]_<<held, refused>>

=============================================================================
