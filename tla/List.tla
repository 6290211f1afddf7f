-------------------------------- MODULE List ---------------------------------
(***************************************************************************)
(* The doubly linked list under every queue of the program,                 *)
(* src/ezgrpc2_list.c, pointer by pointer: nodes on a heap, a front, a back *)
(* and a count. A popped node is not freed, only a removed one is.          *)
(*                                                                          *)
(* cmp returns 0 on a match: find and remove go on while it does not. (No   *)
(* name is one of Events or PathTable: one module extends all three.)       *)
(***************************************************************************)
EXTENDS Naturals, Sequences

CONSTANTS
    Lists,              \* the lists
    Data,               \* the user's data
    MaxNodes,           \* bound on the nodes allocated at one time
    NoData              \* a NULL result

ASSUME ListAssumption == MaxNodes \in Nat /\ NoData \notin Data

VARIABLES
    node,               \* the heap: fields of each node, or the free mark
    list,               \* front, back and count of each list
    returned            \* what the last operation returned

lvars == <<node, list, returned>>

Nodes == 1 .. MaxNodes
NULL  == 0
Blank == [next |-> NULL, prev |-> NULL, data |-> NoData]

\* ezgrpc2_list_new
Empty == [front |-> NULL, back |-> NULL, count |-> 0]

ListInit ==
    /\ node = [n \in Nodes |-> Blank]
    /\ list = [l \in Lists |-> Empty]
    /\ returned = NoData

\* malloc: any node that is not in use; the smallest stands for all.
Fresh(n) == node[n].data = NoData /\ \A m \in 1 .. n - 1 : node[m].data # NoData

-----------------------------------------------------------------------------

PushBack(l, d) ==
    \E n \in Nodes :
        LET back == list[l].back IN
        /\ Fresh(n)
        /\ node' = [m \in Nodes |->
                      IF m = n THEN [next |-> NULL, prev |-> back, data |-> d]
                      ELSE IF m = back THEN [node[m] EXCEPT !.next = n]
                      ELSE node[m]]
        /\ list' = [list EXCEPT ![l].back = n, ![l].count = @ + 1,
                                ![l].front = IF back = NULL THEN n ELSE @]
        /\ UNCHANGED returned

PushFront(l, d) ==
    \E n \in Nodes :
        LET front == list[l].front IN
        /\ Fresh(n)
        /\ node' = [m \in Nodes |->
                      IF m = n THEN [next |-> front, prev |-> NULL, data |-> d]
                      ELSE IF m = front THEN [node[m] EXCEPT !.prev = n]
                      ELSE node[m]]
        /\ list' = [list EXCEPT ![l].front = n, ![l].count = @ + 1,
                                ![l].back = IF front = NULL THEN n ELSE @]
        /\ UNCHANGED returned

\* Mutant: front is kept when the last node goes.
PopBackKeepsFront(l) ==
    LET back == list[l].back
        prev == node[back].prev IN
    /\ list[l].count > 0
    /\ returned' = node[back].data
    /\ list' = [list EXCEPT ![l].back = prev, ![l].count = @ - 1]
    /\ node' = [m \in Nodes |-> IF m = prev THEN [node[m] EXCEPT !.next = NULL] ELSE node[m]]

PopBack(l) ==
    LET back == list[l].back
        prev == node[back].prev IN
    /\ list[l].count > 0
    /\ returned' = node[back].data
    /\ list' = [list EXCEPT ![l].back = prev, ![l].count = @ - 1,
                            ![l].front = IF prev = NULL THEN NULL ELSE @]
    /\ node' = [m \in Nodes |-> IF m = prev THEN [node[m] EXCEPT !.next = NULL] ELSE node[m]]

PopFront(l) ==
    LET front == list[l].front
        next  == node[front].next IN
    /\ list[l].count > 0
    /\ returned' = node[front].data
    /\ list' = [list EXCEPT ![l].front = next, ![l].count = @ - 1,
                            ![l].back = IF next = NULL THEN NULL ELSE @]
    /\ node' = [m \in Nodes |-> IF m = next THEN [node[m] EXCEPT !.prev = NULL] ELSE node[m]]

\* The nodes that a loop from n along next comes to, in a heap: the k-th one, or
\* NULL when the loop has ended before. (It visits no more than there are nodes.)
Step(heap, m) == IF m = NULL THEN NULL ELSE heap[m].next

Walk(heap, n) ==
    LET at[k \in Nodes] == IF k = 1 THEN n ELSE Step(heap, at[k - 1])
    IN  at

\* The first node, from n on, whose data matches; NULL if there is none.
Seek(n, d) ==
    LET at   == Walk(node, n)
        hits == {k \in Nodes : at[k] # NULL /\ node[at[k]].data = d}
    IN  IF hits = {} THEN NULL ELSE at[CHOOSE k \in hits : \A j \in hits : k <= j]

Remove(l, d) ==
    LET n    == Seek(list[l].front, d)
        prev == node[n].prev
        next == node[n].next IN
    /\ n # NULL
    /\ returned' = node[n].data
    /\ node' = [m \in Nodes |->
                  IF m = n THEN Blank
                  ELSE IF m = prev THEN [node[m] EXCEPT !.next = next]
                  ELSE IF m = next THEN [node[m] EXCEPT !.prev = prev]
                  ELSE node[m]]
    /\ list' = [list EXCEPT ![l].count = @ - 1,
                            ![l].front = IF prev = NULL THEN next ELSE @,
                            ![l].back  = IF next = NULL THEN prev ELSE @]

\* peek_front and peek_back, find, and every operation that finds nothing.
PeekFront(l) ==
    /\ returned' = IF list[l].front = NULL THEN NoData ELSE node[list[l].front].data
    /\ UNCHANGED <<node, list>>

PeekBack(l) ==
    /\ returned' = IF list[l].back = NULL THEN NoData ELSE node[list[l].back].data
    /\ UNCHANGED <<node, list>>

Find(l, d) ==
    LET n == Seek(list[l].front, d) IN
    /\ returned' = IF n = NULL THEN NoData ELSE node[n].data
    /\ UNCHANGED <<node, list>>

PopNothing(l) ==
    /\ list[l].count = 0
    /\ returned' = NoData
    /\ UNCHANGED <<node, list>>

\* ezgrpc2_list_concat_and_empty_src
Concat(dst, src) ==
    LET front == list[src].front
        back  == list[dst].back IN
    /\ list[src].count > 0
    /\ node' = [m \in Nodes |->
                  IF m = back THEN [node[m] EXCEPT !.next = front]
                  ELSE IF m = front /\ back # NULL THEN [node[m] EXCEPT !.prev = back]
                  ELSE node[m]]
    /\ list' = [list EXCEPT
                  ![dst] = [front |-> IF @.front # NULL THEN @.front ELSE front,
                            back  |-> list[src].back,
                            count |-> @.count + list[src].count],
                  ![src] = Empty]
    /\ UNCHANGED returned

ListNext ==
    \/ \E l \in Lists, d \in Data :
          PushBack(l, d) \/ PushFront(l, d) \/ Remove(l, d) \/ Find(l, d)
    \/ \E l \in Lists : PopBack(l) \/ PopFront(l) \/ PopNothing(l)
                          \/ PeekFront(l) \/ PeekBack(l)
    \/ \E dst, src \in Lists : dst # src /\ Concat(dst, src)

ListSpec == ListInit /\ [][ListNext]_lvars

-----------------------------------------------------------------------------

\* A list runs from front to back along next, and from back to front along prev,
\* through as many nodes as it counts, and no node is in two lists: so foreach and
\* find end, and "front->prev is always NULL and back next is always NULL".
WellLinked ==
    /\ \A l \in Lists :
         LET at    == Walk(node, list[l].front)
             count == list[l].count
         IN  /\ \A k \in 1 .. count :
                   /\ at[k] # NULL /\ node[at[k]].data # NoData
                   /\ node[at[k]].next = (IF k = count THEN NULL ELSE at[k + 1])
                   /\ node[at[k]].prev = (IF k = 1 THEN NULL ELSE at[k - 1])
             /\ IF count = 0 THEN list[l] = Empty ELSE list[l].back = at[count]
    /\ \A l, m \in Lists : l # m =>
         \A j \in 1 .. list[l].count, k \in 1 .. list[m].count :
             Walk(node, list[l].front)[j] # Walk(node, list[m].front)[k]

\* The data along the first `count` nodes from node n.
Forward(heap, n, count) ==
    LET at == Walk(heap, n) IN [k \in 1 .. count |-> heap[at[k]].data]

Deques == INSTANCE Deque WITH
            content <- [l \in Lists |-> Forward(node, list[l].front, list[l].count)],
            result  <- returned

\* However pushes, pops, removals and concatenations at both ends are mixed, the
\* nodes and the three fields of a list stand for one sequence, and what each
\* operation does to it and answers is the same whatever came before: push_back
\* at the end that pop_back takes from, at the other end push_front and
\* pop_front. That is the deque of ezgrpc2_list.c and of its comments, on which
\* every queue of the program relies; ezgrpc2_list.h describes another (Deque).
ImplementsDeque == Deques!Spec
=============================================================================
