-------------------------------- MODULE Deque --------------------------------
(***************************************************************************)
(* What ezgrpc2_list.c does, without its nodes: double-ended queues of     *)
(* data, whose every operation returns what it removed or found, or        *)
(* nothing. List implements this specification.                            *)
(*                                                                         *)
(* This is the deque of the code, which its callers rely on, and not the   *)
(* one that the comments of ezgrpc2_list.h describe. There push_back       *)
(* pushes to the front and push_front to the back (lines 28-48), pop_front *)
(* takes the last element (50-60), peek_front looks at the back (64-73),   *)
(* and find and remove take a datum for which cmp returns 1 (86-91,        *)
(* 124-129), where the code takes the first for which it returns 0.        *)
(***************************************************************************)
EXTENDS Naturals, Sequences

CONSTANTS Lists, Data, NoData

VARIABLES
    content,            \* the data of each list, front first
    result              \* what the last operation returned

vars == <<content, result>>

Init == content = [l \in Lists |-> <<>>] /\ result = NoData

Set(l, s) == content' = [content EXCEPT ![l] = s]

PushBack(l, d)  == UNCHANGED result /\ Set(l, Append(content[l], d))
PushFront(l, d) == UNCHANGED result /\ Set(l, <<d>> \o content[l])

PopBack(l) ==
    /\ content[l] # <<>>
    /\ result' = content[l][Len(content[l])]
    /\ Set(l, SubSeq(content[l], 1, Len(content[l]) - 1))

PopFront(l) ==
    /\ content[l] # <<>>
    /\ result' = Head(content[l])
    /\ Set(l, Tail(content[l]))

\* The first datum that matches (cmp returns 0) leaves the list.
Remove(l, d) ==
    /\ result' = d
    /\ \E k \in DOMAIN content[l] :
         /\ content[l][k] = d
         /\ \A j \in 1 .. k - 1 : content[l][j] # d
         /\ Set(l, SubSeq(content[l], 1, k - 1)
                     \o SubSeq(content[l], k + 1, Len(content[l])))

PeekFront(l) ==
    /\ content[l] # <<>>
    /\ result' = Head(content[l])
    /\ UNCHANGED content

PeekBack(l) ==
    /\ content[l] # <<>>
    /\ result' = content[l][Len(content[l])]
    /\ UNCHANGED content

Find(l, d) ==
    /\ result' = d
    /\ \E k \in DOMAIN content[l] : content[l][k] = d
    /\ UNCHANGED content

\* Nothing to pop, peek at or find.
Nothing(l) ==
    /\ result' = NoData
    /\ \/ content[l] = <<>>
       \/ \E d \in Data : \A k \in DOMAIN content[l] : content[l][k] # d
    /\ UNCHANGED content

Concat(dst, src) ==
    /\ UNCHANGED result
    /\ content' = [content EXCEPT ![dst] = @ \o content[src], ![src] = <<>>]

Next ==
    \/ \E l \in Lists, d \in Data :
          PushBack(l, d) \/ PushFront(l, d) \/ Remove(l, d) \/ Find(l, d)
    \/ \E l \in Lists : PopBack(l) \/ PopFront(l) \/ Nothing(l)
                          \/ PeekFront(l) \/ PeekBack(l)
    \/ \E dst, src \in Lists : dst # src /\ Concat(dst, src)

Spec == Init /\ [][Next]_vars
=============================================================================
