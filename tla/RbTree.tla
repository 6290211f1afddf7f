------------------------------- MODULE RbTree --------------------------------
(***************************************************************************)
(* The red-black tree of src/wepoll.c that finds a socket, or an epoll      *)
(* port, by its handle. A node is told apart by its key; 0 is NULL. The two *)
(* symmetric cases of the code, written there as macros over (cis, trans),  *)
(* are operators over a side.                                               *)
(***************************************************************************)
EXTENDS Naturals

CONSTANT Keys           \* the handles, positive numbers

VARIABLES
    tree,               \* the root, and child, parent and red of each node
    keys                \* history: the keys added and not deleted

tvars == <<tree, keys>>

NIL   == 0
Sides == {"left", "right"}
Other(side) == IF side = "left" THEN "right" ELSE "left"

Init ==
    /\ tree = [root   |-> NIL,
               child  |-> [s \in Sides |-> [k \in Keys |-> NIL]],
               parent |-> [k \in Keys |-> NIL],
               red    |-> [k \in Keys |-> FALSE]]
    /\ keys = {}

Red(t, n)   == n # NIL /\ t.red[n]
SideOf(t, n, p) == IF t.child["left"][p] = n THEN "left" ELSE "right"

\* Put n where p was below g, and set the parent of a node that may be NULL.
Relink(t, g, p, n) ==
    IF g = NIL THEN [t EXCEPT !.root = n]
    ELSE [t EXCEPT !.child[SideOf(t, p, g)][g] = n]

SetParent(t, n, p) == IF n = NIL THEN t ELSE [t EXCEPT !.parent[n] = p]

\* TREE__ROTATE(cis, trans)
Rotate(t, cis, p) ==
    LET trans == Other(cis)
        q     == t.child[trans][p]
        inner == t.child[cis][q]
        up    == Relink(t, t.parent[p], p, q)
    IN  SetParent([up EXCEPT !.parent[q] = t.parent[p], !.parent[p] = q,
                             !.child[trans][p] = inner, !.child[cis][q] = p],
                  inner, p)

-----------------------------------------------------------------------------
(* tree_add *)

\* The node below which the key belongs, from n down.
RECURSIVE Descend(_, _, _)
Descend(t, n, k) ==
    LET next == t.child[IF k < n THEN "left" ELSE "right"][n]
    IN  IF next = NIL THEN n ELSE Descend(t, next, k)

\* TREE__REBALANCE_AFTER_INSERT and its loop
RECURSIVE AfterInsert(_, _)
AfterInsert(t, n) ==
    LET parent == t.parent[n]
        grand  == t.parent[parent]
        cis    == SideOf(t, parent, grand)
        trans  == Other(cis)
        uncle  == t.child[trans][grand]
        inside == n = t.child[trans][parent]
        t1     == IF inside THEN Rotate(t, cis, parent) ELSE t
        top    == IF inside THEN n ELSE parent
    IN  CASE ~Red(t, parent) -> t
          [] Red(t, parent) /\ Red(t, uncle) ->
               AfterInsert([t EXCEPT !.red[parent] = FALSE, !.red[uncle] = FALSE,
                                     !.red[grand] = TRUE], grand)
          [] Red(t, parent) /\ ~Red(t, uncle) ->
               AfterInsert(Rotate([t1 EXCEPT !.red[top] = FALSE, !.red[grand] = TRUE],
                                  trans, grand),
                           IF inside THEN parent ELSE n)

Insert(t, k) ==
    LET p  == IF t.root = NIL THEN NIL ELSE Descend(t, t.root, k)
        t1 == IF p = NIL THEN [t EXCEPT !.root = k]
              ELSE [t EXCEPT !.child[IF k < p THEN "left" ELSE "right"][p] = k]
        t2 == AfterInsert([t1 EXCEPT !.child["left"][k] = NIL, !.child["right"][k] = NIL,
                                     !.parent[k] = p, !.red[k] = TRUE], k)
    IN  [t2 EXCEPT !.red[t2.root] = FALSE]

-----------------------------------------------------------------------------
(* tree_del *)

RECURSIVE Leftmost(_, _)
Leftmost(t, n) == IF t.child["left"][n] = NIL THEN n ELSE Leftmost(t, t.child["left"][n])

\* Mutant: the colour of the outer nephew is not looked at.
OuterIsRed(t, sibling, trans) == TRUE

OuterRed(t, sibling, trans) == Red(t, t.child[trans][sibling])

\* TREE__REBALANCE_AFTER_REMOVE and its loop; n may be NULL.
RECURSIVE AfterRemove(_, _, _)
AfterRemove(t, n, parent) ==
    IF n = t.root \/ Red(t, n)
    THEN IF n = NIL THEN t ELSE [t EXCEPT !.red[n] = FALSE]
    ELSE
    LET cis   == SideOf(t, n, parent)
        trans == Other(cis)
        s0    == t.child[trans][parent]
        t1    == IF ~Red(t, s0) THEN t
                 ELSE Rotate([t EXCEPT !.red[s0] = FALSE, !.red[parent] = TRUE], cis, parent)
        s1    == t1.child[trans][parent]
        outer == OuterRed(t1, s1, trans)
        inner == t1.child[cis][s1]
        t2    == IF outer THEN t1
                 ELSE Rotate([t1 EXCEPT !.red[inner] = FALSE, !.red[s1] = TRUE], trans, s1)
        s2    == t2.child[trans][parent]
        t3    == Rotate([t2 EXCEPT !.red[s2] = t2.red[parent], !.red[parent] = FALSE,
                                   !.red[t2.child[trans][s2]] = FALSE], cis, parent)
    IN  IF outer \/ Red(t1, inner)
        THEN [t3 EXCEPT !.red[t3.root] = FALSE]
        ELSE AfterRemove([t1 EXCEPT !.red[s1] = TRUE], parent, t1.parent[parent])

Delete(t, k) ==
    LET left   == t.child["left"][k]
        right  == t.child["right"][k]
        both   == left # NIL /\ right # NIL
        next   == IF left = NIL THEN right ELSE IF right = NIL THEN left ELSE Leftmost(t, right)
        above  == t.parent[k]
        t1     == Relink(t, above, k, next)
        deep   == next # right               \* the successor is not k's own child
        n      == IF both THEN t.child["right"][next] ELSE next
        parent == IF ~both THEN above ELSE IF deep THEN t.parent[next] ELSE next
        red    == IF both THEN t.red[next] ELSE t.red[k]
        t2     == IF ~both THEN t1
                  ELSE [t1 EXCEPT !.red[next] = t.red[k], !.child["left"][next] = left,
                                  !.parent[left] = next, !.parent[next] = above]
        t3     == IF ~(both /\ deep) THEN t2
                  ELSE [t2 EXCEPT !.child["left"][parent] = n,
                                  !.child["right"][next] = right, !.parent[right] = next]
        t4     == SetParent(t3, n, parent)
        t5     == IF red THEN t4 ELSE AfterRemove(t4, n, parent)
    IN  \* the node itself is freed by its owner
        [t5 EXCEPT !.child["left"][k] = NIL, !.child["right"][k] = NIL,
                   !.parent[k] = NIL, !.red[k] = FALSE]

-----------------------------------------------------------------------------

\* tree_find
RECURSIVE FindFrom(_, _, _)
FindFrom(t, n, k) ==
    IF n = NIL \/ n = k THEN n
    ELSE FindFrom(t, t.child[IF k < n THEN "left" ELSE "right"][n], k)

Find(k) == FindFrom(tree, tree.root, k)

\* tree_add returns -1, and does nothing, when the key is in the tree.
Add(k) ==
    /\ Find(k) = NIL
    /\ tree' = Insert(tree, k)
    /\ keys' = keys \cup {k}

Del(k) ==
    /\ Find(k) # NIL
    /\ tree' = Delete(tree, k)
    /\ keys' = keys \ {k}

Next == \E k \in Keys : Add(k) \/ Del(k)

Spec == Init /\ [][Next]_tvars

-----------------------------------------------------------------------------

\* Black nodes on every way down from n; the ways agree.
RECURSIVE BlackHeights(_)
BlackHeights(n) ==
    IF n = NIL THEN {0}
    ELSE {h + (IF tree.red[n] THEN 0 ELSE 1) :
            h \in UNION {BlackHeights(tree.child[s][n]) : s \in Sides}}

\* In whatever order keys come and go, through every rotation, a search finds
\* exactly the keys present; the links up mirror the links down; and the tree
\* stays balanced: no red node below a red one, and as many black nodes on
\* every way down.
TreeSound ==
    /\ \A k \in Keys : Find(k) # NIL <=> k \in keys
    /\ \A k \in keys : IF tree.parent[k] = NIL THEN tree.root = k /\ ~tree.red[k]
                       ELSE \E s \in Sides : tree.child[s][tree.parent[k]] = k
    /\ \A k \in keys : Red(tree, k) => ~Red(tree, tree.parent[k])
    /\ \E h \in BlackHeights(tree.root) : BlackHeights(tree.root) = {h}
=============================================================================
