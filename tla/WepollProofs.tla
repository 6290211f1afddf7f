---------------------------- MODULE WepollProofs -----------------------------
(***************************************************************************)
(* Proofs about one epoll port of wepoll.c, for any number of threads,      *)
(* sockets and objects, any event masks and any size of poll groups.        *)
(*                                                                          *)
(* Critical sections are functions of the port's state s, and so is the     *)
(* invariant: Sound(s, H, phase), where H are the packets in the hands of   *)
(* threads. It has three parts.                                             *)
(*   Basic      types; no object is twice in a queue;                       *)
(*   ObjectOk   what the record of one object, its place in the queues and  *)
(*              that of its packet have to do with each other;              *)
(*   Packed     poll groups: full ones first, their sizes those of the sets *)
(*              of objects they have (Count).                               *)
(* In a critical section one object at a time is out of order: SoundBut     *)
(* says that all the others are not. There is a lemma for each function of  *)
(* wepoll.c, and one for each action of the port, which says that the port  *)
(* is left sound. IInv adds where threads are and what they have in their   *)
(* hands (ThreadsOk), that active_poll_count is the number of those that    *)
(* poll, that nothing waits while they do (Quiet), and that a deleted port  *)
(* has no object (Gone).                                                    *)
(***************************************************************************)
EXTENDS Wepoll, Integers, FiniteSetTheorems, SequenceTheorems, WellFoundedInduction, TLAPS

Distinct(q) == \A i, j \in DOMAIN q : q[i] = q[j] => i = j

\* What the variables of a port hold.
Rec == [used : BOOLEAN, socket : Sockets \cup {0},
        user : SUBSET (Known \cup {"oneshot"}), pending : SUBSET (Known \cup {"oneshot"}),
        status : {"idle", "pending", "cancelled"}, delete : BOOLEAN,
        group : Nat, io : SUBSET (Known \cup {"pending", "cancelled", "closed"})]

Group == [id : Nat, size : Nat]

PortState == [sock : [Objects -> Rec], update : Seq(Objects), deleted : Seq(Objects),
              groups : Seq(Group), packets : SUBSET Objects, refused : BOOLEAN]

Basic(s) == s \in PortState /\ Distinct(s.update) /\ Distinct(s.deleted)

\* From s to t nothing happens to objects other than o.
Apart(s, t, o) == \A p \in Objects \ {o} :
    /\ t.sock[p] = s.sock[p]
    /\ InQueue(t.update, p) <=> InQueue(s.update, p)
    /\ InQueue(t.deleted, p) <=> InQueue(s.deleted, p)
    /\ p \in t.packets <=> p \in s.packets

-----------------------------------------------------------------------------
(* Queues *)

LEMMA WithoutIs ==
  ASSUME NEW S, NEW q \in Seq(S), NEW k \in DOMAIN q
  PROVE  /\ Without(q, k) \in Seq(S) /\ Len(Without(q, k)) = Len(q) - 1
         /\ DOMAIN Without(q, k) = 1 .. Len(q) - 1
         /\ \A i \in 1 .. Len(q) - 1 : Without(q, k)[i] = q[IF i < k THEN i ELSE i + 1]
<1>1. Len(q) \in Nat /\ DOMAIN q = 1 .. Len(q) /\ k \in 1 .. Len(q) /\ Len(q) - 1 \in Nat
  OBVIOUS
<1>2. \A i \in 1 .. Len(q) - 1 : q[IF i < k THEN i ELSE i + 1] \in S
  BY <1>1
<1> DEFINE n == Len(q) - 1
           f == [i \in 1 .. n |-> q[IF i < k THEN i ELSE i + 1]]
<1>3. Without(q, k) = f
  BY DEF Without
<1>4. f \in [1 .. n -> S] /\ \A i \in 1 .. n : f[i] = q[IF i < k THEN i ELSE i + 1]
  BY <1>2
<1>5. n \in Nat
  BY <1>1
<1> HIDE DEF f, n
<1>6. f \in Seq(S) /\ Len(f) = n /\ DOMAIN f = 1 .. n
  BY <1>4, <1>5
<1> QED BY <1>3, <1>4, <1>6 DEF n

\* Taking out the k-th of distinct nodes takes out that node and no other.
LEMMA WithoutKeeps ==
  ASSUME NEW S, NEW q \in Seq(S), NEW k \in DOMAIN q, Distinct(q)
  PROVE  /\ Distinct(Without(q, k))
         /\ \A x : InQueue(Without(q, k), x) <=> InQueue(q, x) /\ x # q[k]
<1> DEFINE p == Without(q, k)
           n == Len(q)
<1>1. n \in Nat /\ DOMAIN q = 1 .. n /\ k \in 1 .. n /\ DOMAIN p = 1 .. n - 1
      /\ \A i \in 1 .. n - 1 : p[i] = q[IF i < k THEN i ELSE i + 1]
  BY WithoutIs
<1> HIDE DEF p, n
<1>2. Distinct(p)
  <2>1. SUFFICES ASSUME NEW i \in 1 .. n - 1, NEW j \in 1 .. n - 1, p[i] = p[j]
                 PROVE  i = j
    BY <1>1 DEF Distinct
  <2> DEFINE a == IF i < k THEN i ELSE i + 1
             b == IF j < k THEN j ELSE j + 1
  <2>2. a \in 1 .. n /\ b \in 1 .. n /\ p[i] = q[a] /\ p[j] = q[b]
    BY <1>1
  <2>3. a = b
    <3> HIDE DEF a, b
    <3> QED BY <1>1, <2>1, <2>2 DEF Distinct
  <2> QED BY <1>1, <2>3
<1>3. ASSUME NEW x
      PROVE  InQueue(p, x) <=> InQueue(q, x) /\ x # q[k]
  <2>1. ASSUME NEW i \in 1 .. n - 1, p[i] = x
        PROVE  InQueue(q, x) /\ x # q[k]
    <3> DEFINE a == IF i < k THEN i ELSE i + 1
    <3>1. a \in 1 .. n /\ p[i] = q[a] /\ a # k
      BY <1>1
    <3> HIDE DEF a
    <3> QED BY <1>1, <2>1, <3>1 DEF InQueue, Distinct
  <2>2. ASSUME NEW a \in 1 .. n, q[a] = x, x # q[k]
        PROVE  InQueue(p, x)
    <3> DEFINE i == IF a < k THEN a ELSE a - 1
    <3>1. a # k
      BY <2>2
    <3>2. i \in 1 .. n - 1 /\ (IF i < k THEN i ELSE i + 1) = a
      BY <1>1, <3>1
    <3>3. p[i] = q[a]
      <4> HIDE DEF i
      <4> QED BY <1>1, <3>2
    <3> HIDE DEF i
    <3> QED BY <1>1, <2>2, <3>2, <3>3 DEF InQueue
  <2> QED BY <1>1, <2>1, <2>2 DEF InQueue
<1> QED BY <1>2, <1>3 DEF p

LEMMA DropIs ==
  ASSUME NEW S, NEW q \in Seq(S), Distinct(q), NEW o
  PROVE  /\ Drop(q, o) \in Seq(S) /\ Distinct(Drop(q, o))
         /\ \A x : InQueue(Drop(q, o), x) <=> InQueue(q, x) /\ x # o
         /\ InQueue(q, o) => Len(Drop(q, o)) = Len(q) - 1
         /\ ~InQueue(q, o) => Drop(q, o) = q
<1>1. CASE InQueue(q, o)
  <2> DEFINE k == CHOOSE k \in DOMAIN q : q[k] = o
  <2>1. k \in DOMAIN q /\ q[k] = o
    BY <1>1 DEF InQueue
  <2>2. Drop(q, o) = Without(q, k)
    BY <1>1 DEF Drop
  <2> HIDE DEF k
  <2>3. /\ Without(q, k) \in Seq(S) /\ Len(Without(q, k)) = Len(q) - 1
    BY <2>1, WithoutIs
  <2>4. /\ Distinct(Without(q, k))
        /\ \A x : InQueue(Without(q, k), x) <=> InQueue(q, x) /\ x # o
    BY <2>1, WithoutKeeps
  <2> QED BY <1>1, <2>2, <2>3, <2>4
<1>2. CASE ~InQueue(q, o)
  <2>1. Drop(q, o) = q
    BY <1>2 DEF Drop
  <2> QED BY <1>2, <2>1
<1> QED BY <1>1, <1>2

LEMMA AppendIs ==
  ASSUME NEW S, NEW q \in Seq(S), NEW o \in S
  PROVE  /\ Append(q, o) \in Seq(S)
         /\ \A x : InQueue(Append(q, o), x) <=> InQueue(q, x) \/ x = o
         /\ Distinct(q) /\ ~InQueue(q, o) => Distinct(Append(q, o))
<1> DEFINE p == Append(q, o)
           n == Len(q)
<1>1. /\ n \in Nat /\ DOMAIN q = 1 .. n /\ DOMAIN p = 1 .. n + 1 /\ p \in Seq(S)
      /\ p[n + 1] = o /\ \A i \in 1 .. n : p[i] = q[i]
  BY AppendProperties
<1> HIDE DEF p, n
<1>2. ASSUME NEW x
      PROVE  InQueue(p, x) <=> InQueue(q, x) \/ x = o
  <2>1. 1 .. n + 1 = (1 .. n) \cup {n + 1}
    BY <1>1
  <2> QED BY <1>1, <2>1 DEF InQueue
<1>3. ASSUME Distinct(q), ~InQueue(q, o)
      PROVE  Distinct(p)
  <2>1. \A i \in 1 .. n : q[i] # o
    BY <1>1, <1>3 DEF InQueue
  <2>2. \A i, j \in 1 .. n : q[i] = q[j] => i = j
    BY <1>1, <1>3 DEF Distinct
  <2>3. 1 .. n + 1 = (1 .. n) \cup {n + 1}
    BY <1>1
  <2> QED BY <1>1, <2>1, <2>2, <2>3 DEF Distinct
<1> QED BY <1>1, <1>2, <1>3 DEF p
-----------------------------------------------------------------------------
(* What the operations on one object do *)

LEMMA FieldsOf ==
  ASSUME NEW s \in PortState
  PROVE  /\ s.sock \in [Objects -> Rec] /\ s.update \in Seq(Objects) /\ s.deleted \in Seq(Objects)
         /\ s.groups \in Seq(Group) /\ s.packets \subseteq Objects /\ s.refused \in BOOLEAN
  BY DEF PortState

Edited(s, o, y) == [s EXCEPT !.sock = [s.sock EXCEPT ![o] = y]]

LEMMA EditIs ==
  ASSUME NEW s, Basic(s), NEW o \in Objects, NEW y \in Rec, NEW t, t = Edited(s, o, y)
  PROVE  /\ Basic(t) /\ Apart(s, t, o) /\ t.sock[o] = y
         /\ t.update = s.update /\ t.deleted = s.deleted /\ t.groups = s.groups
         /\ t.packets = s.packets /\ t.refused = s.refused
<1>1. s.sock \in [Objects -> Rec]
  BY DEF Basic, PortState
<1> DEFINE f == [s.sock EXCEPT ![o] = y]
<1>2. f \in [Objects -> Rec] /\ f[o] = y /\ \A p \in Objects \ {o} : f[p] = s.sock[p]
  BY <1>1
<1> HIDE DEF f
<1>3. /\ t \in PortState /\ t.sock = f /\ t.update = s.update /\ t.deleted = s.deleted
      /\ t.groups = s.groups /\ t.packets = s.packets /\ t.refused = s.refused
  BY <1>2 DEF Basic, PortState, Edited, f
<1> QED BY <1>2, <1>3 DEF Basic, Apart

LEMMA DequeueIs ==
  ASSUME NEW s, Basic(s), NEW o \in Objects, NEW t, t = Dequeue(s, o)
  PROVE  /\ Basic(t) /\ Apart(s, t, o)
         /\ t.sock = s.sock /\ t.groups = s.groups /\ t.packets = s.packets /\ t.refused = s.refused
         /\ ~InQueue(t.update, o) /\ ~InQueue(t.deleted, o)
         /\ InQueue(s.update, o) => Len(t.update) = Len(s.update) - 1
         /\ ~InQueue(s.update, o) => t.update = s.update
<1>1. /\ s.update \in Seq(Objects) /\ s.deleted \in Seq(Objects)
      /\ Distinct(s.update) /\ Distinct(s.deleted)
  BY DEF Basic, PortState
<1> DEFINE u == Drop(s.update, o)
           d == Drop(s.deleted, o)
<1>2. /\ u \in Seq(Objects) /\ Distinct(u)
      /\ \A x : InQueue(u, x) <=> InQueue(s.update, x) /\ x # o
      /\ InQueue(s.update, o) => Len(u) = Len(s.update) - 1
      /\ ~InQueue(s.update, o) => u = s.update
  BY <1>1, DropIs
<1>3. /\ d \in Seq(Objects) /\ Distinct(d)
      /\ \A x : InQueue(d, x) <=> InQueue(s.deleted, x) /\ x # o
  BY <1>1, DropIs
<1>4. t = [s EXCEPT !.update = u, !.deleted = d]
  BY DEF Dequeue
<1> HIDE DEF u, d
<1>5. /\ t \in PortState /\ t.sock = s.sock /\ t.update = u /\ t.deleted = d
      /\ t.groups = s.groups /\ t.packets = s.packets /\ t.refused = s.refused
  BY <1>2, <1>3, <1>4 DEF Basic, PortState
<1> QED BY <1>2, <1>3, <1>5 DEF Basic, Apart

LEMMA RequestUpdateIs ==
  ASSUME NEW s, Basic(s), NEW o \in Objects, NEW t, t = RequestUpdate(s, o)
  PROVE  /\ Basic(t) /\ Apart(s, t, o)
         /\ t.sock = s.sock /\ t.groups = s.groups /\ t.packets = s.packets /\ t.refused = s.refused
         /\ t.deleted = s.deleted
         /\ InQueue(t.update, o) <=> InQueue(s.update, o) \/ ~InQueue(s.deleted, o)
<1>1. CASE Enqueued(s, o)
  <2>1. t = s
    BY <1>1 DEF RequestUpdate
  <2> QED BY <1>1, <2>1 DEF Apart, Enqueued
<1>2. CASE ~Enqueued(s, o)
  <2> DEFINE u == Append(s.update, o)
  <2>1. t = [s EXCEPT !.update = u] /\ ~InQueue(s.update, o) /\ ~InQueue(s.deleted, o)
    BY <1>2 DEF RequestUpdate, Enqueued
  <2>2. s.update \in Seq(Objects) /\ Distinct(s.update)
    BY DEF Basic, PortState
  <2>3. /\ u \in Seq(Objects) /\ Distinct(u)
        /\ \A x : InQueue(u, x) <=> InQueue(s.update, x) \/ x = o
    BY <2>1, <2>2, AppendIs
  <2> HIDE DEF u
  <2>4. /\ t \in PortState /\ t.sock = s.sock /\ t.update = u /\ t.deleted = s.deleted
        /\ t.groups = s.groups /\ t.packets = s.packets /\ t.refused = s.refused
    BY <2>1, <2>3 DEF Basic, PortState
  <2> QED BY <2>1, <2>3, <2>4 DEF Basic, Apart
<1> QED BY <1>1, <1>2

LEMMA AddDeletedIs ==
  ASSUME NEW s, Basic(s), NEW o \in Objects, NEW t, t = AddDeleted(s, o)
  PROVE  /\ Basic(t) /\ Apart(s, t, o)
         /\ t.sock = s.sock /\ t.groups = s.groups /\ t.packets = s.packets /\ t.refused = s.refused
         /\ t.update = s.update
         /\ InQueue(t.deleted, o) <=> InQueue(s.deleted, o) \/ ~InQueue(s.update, o)
<1>1. CASE Enqueued(s, o)
  <2>1. t = s
    BY <1>1 DEF AddDeleted
  <2> QED BY <1>1, <2>1 DEF Apart, Enqueued
<1>2. CASE ~Enqueued(s, o)
  <2> DEFINE u == Append(s.deleted, o)
  <2>1. t = [s EXCEPT !.deleted = u] /\ ~InQueue(s.update, o) /\ ~InQueue(s.deleted, o)
    BY <1>2 DEF AddDeleted, Enqueued
  <2>2. s.deleted \in Seq(Objects) /\ Distinct(s.deleted)
    BY DEF Basic, PortState
  <2>3. /\ u \in Seq(Objects) /\ Distinct(u)
        /\ \A x : InQueue(u, x) <=> InQueue(s.deleted, x) \/ x = o
    BY <2>1, <2>2, AppendIs
  <2> HIDE DEF u
  <2>4. /\ t \in PortState /\ t.sock = s.sock /\ t.deleted = u /\ t.update = s.update
        /\ t.groups = s.groups /\ t.packets = s.packets /\ t.refused = s.refused
    BY <2>1, <2>3 DEF Basic, PortState
  <2> QED BY <2>1, <2>3, <2>4 DEF Basic, Apart
<1> QED BY <1>1, <1>2

LEMMA CompleteIs ==
  ASSUME NEW s, Basic(s), NEW o \in Objects,
         NEW result \in SUBSET (Known \cup {"pending", "cancelled", "closed"}),
         NEW t, t = Complete(s, o, result)
  PROVE  /\ Basic(t) /\ Apart(s, t, o) /\ t.sock[o] = [s.sock[o] EXCEPT !.io = result]
         /\ t.update = s.update /\ t.deleted = s.deleted /\ t.groups = s.groups
         /\ t.refused = s.refused
         /\ t.packets = IF phase = "closed" THEN s.packets ELSE s.packets \cup {o}
<1> DEFINE y == [s.sock[o] EXCEPT !.io = result]
           P == IF phase = "closed" THEN s.packets ELSE s.packets \cup {o}
           u == Edited(s, o, y)
<1>1. s \in PortState /\ s.sock[o] \in Rec
  BY DEF Basic, PortState
<1>2. y \in Rec
  BY <1>1 DEF Rec
<1>3. P \subseteq Objects
  BY DEF Basic, PortState
<1>4. t = [u EXCEPT !.packets = P]
  BY <1>1 DEF Complete, PortState, Edited
<1> HIDE DEF y
<1>5. /\ Basic(u) /\ Apart(s, u, o) /\ u.sock[o] = y
      /\ u.update = s.update /\ u.deleted = s.deleted /\ u.groups = s.groups
      /\ u.packets = s.packets /\ u.refused = s.refused
  BY <1>2, EditIs
<1> HIDE DEF u
<1>6. \A p \in Objects \ {o} : p \in P <=> p \in s.packets
  OBVIOUS
<1> HIDE DEF P
<1>7. /\ t \in PortState /\ t.sock = u.sock /\ t.update = u.update /\ t.deleted = u.deleted
      /\ t.groups = u.groups /\ t.packets = P /\ t.refused = u.refused
  BY <1>3, <1>4, <1>5 DEF Basic, PortState
<1> QED BY <1>5, <1>6, <1>7 DEF Basic, Apart, y, P

\* The record of an object whose poll was cancelled.
Cancelled(x) == [x EXCEPT !.status = "cancelled", !.pending = {},
                          !.io = IF @ = {"pending"} THEN {"cancelled"} ELSE @]

LEMMA CancelPollIs ==
  ASSUME NEW s, Basic(s), NEW o \in Objects, NEW t, t = CancelPoll(s, o)
  PROVE  /\ Basic(t) /\ Apart(s, t, o) /\ t.sock[o] = Cancelled(s.sock[o])
         /\ t.update = s.update /\ t.deleted = s.deleted /\ t.groups = s.groups
         /\ t.refused = s.refused
         /\ t.packets = IF phase # "closed" /\ s.sock[o].io = {"pending"} THEN s.packets \cup {o}
                        ELSE s.packets
<1> DEFINE x == s.sock[o]
           u == IF x.io = {"pending"} THEN Complete(s, o, {"cancelled"}) ELSE s
           y == [u.sock[o] EXCEPT !.status = "cancelled", !.pending = {}]
<1>1. s \in PortState /\ x \in Rec
  BY DEF Basic, PortState
<1>2. /\ Basic(u) /\ Apart(s, u, o)
      /\ u.sock[o] = IF x.io = {"pending"} THEN [x EXCEPT !.io = {"cancelled"}] ELSE x
      /\ u.update = s.update /\ u.deleted = s.deleted /\ u.groups = s.groups
      /\ u.refused = s.refused
      /\ u.packets = IF phase # "closed" /\ x.io = {"pending"} THEN s.packets \cup {o}
                     ELSE s.packets
  <2>1. CASE x.io = {"pending"}
    <3>1. u = Complete(s, o, {"cancelled"})
      BY <2>1
    <3>2. /\ Basic(u) /\ Apart(s, u, o) /\ u.sock[o] = [x EXCEPT !.io = {"cancelled"}]
          /\ u.update = s.update /\ u.deleted = s.deleted /\ u.groups = s.groups
          /\ u.refused = s.refused
          /\ u.packets = IF phase = "closed" THEN s.packets ELSE s.packets \cup {o}
      <4> HIDE DEF u
      <4> QED BY <3>1, CompleteIs
    <3> HIDE DEF u, x
    <3> QED BY <2>1, <3>2
  <2>2. CASE x.io # {"pending"}
    BY <2>2 DEF Apart
  <2> QED BY <2>1, <2>2
<1>3. y \in Rec /\ y = Cancelled(x)
  <2>1. u.sock[o] \in Rec
    BY <1>2 DEF Basic, PortState
  <2>2. y \in Rec
    <3> HIDE DEF u, x
    <3> QED BY <2>1 DEF Rec
  <2>3. CASE x.io = {"pending"}
    <3>1. u.sock[o] = [x EXCEPT !.io = {"cancelled"}]
      BY <1>2, <2>3
    <3> HIDE DEF u, x
    <3> QED BY <1>1, <2>2, <2>3, <3>1 DEF Rec, Cancelled
  <2>4. CASE x.io # {"pending"}
    <3>1. u.sock[o] = x
      BY <1>2, <2>4
    <3> HIDE DEF u, x
    <3> QED BY <1>1, <2>2, <2>4, <3>1 DEF Rec, Cancelled
  <2> QED BY <2>2, <2>3, <2>4
<1>4. t = Edited(u, o, y)
  <2>1. u \in PortState
    BY <1>2 DEF Basic
  <2>2. t = [u EXCEPT !.sock[o].status = "cancelled", !.sock[o].pending = {}]
    BY DEF CancelPoll
  <2> HIDE DEF u
  <2> QED BY <2>1, <2>2 DEF PortState, Edited
<1> HIDE DEF u, y
<1>5. /\ Basic(t) /\ Apart(u, t, o) /\ t.sock[o] = y
      /\ t.update = u.update /\ t.deleted = u.deleted /\ t.groups = u.groups
      /\ t.packets = u.packets /\ t.refused = u.refused
  BY <1>2, <1>3, <1>4, EditIs
<1>6. Apart(s, t, o)
  BY <1>2, <1>5 DEF Apart
<1> HIDE DEF x
<1> QED BY <1>2, <1>3, <1>5, <1>6 DEF x

-----------------------------------------------------------------------------
(* Poll groups. c[id] is the number of objects in the group id.             *)

OneOfAKind(g) == \A j, k \in DOMAIN g : g[j].id = g[k].id => j = k
FullFirst(g)  == \A j, k \in DOMAIN g :
                     j < k /\ g[k].size = MaxGroupSize => g[j].size = MaxGroupSize
Sized(g, c, n) == \A k \in DOMAIN g :
                     /\ g[k].id \in 1 .. n /\ g[k].size = c[g[k].id]
                     /\ g[k].size <= MaxGroupSize
Grouped(g, c, I) == \A i \in I : c[i] # 0 => \E k \in DOMAIN g : g[k].id = i

Packed(g, c) == /\ g \in Seq(Group)
                /\ OneOfAKind(g) /\ FullFirst(g) /\ Sized(g, c, Len(g)) /\ Grouped(g, c, Nat)

\* The groups but x, which is going to be one more, and have d[x.id] objects.
Others0(g, c, x, d) ==
    /\ g \in Seq(Group)
    /\ OneOfAKind(g) /\ FullFirst(g) /\ Sized(g, c, Len(g) + 1) /\ Grouped(g, c, Nat \ {x.id})
    /\ \A k \in DOMAIN g : g[k].id # x.id
    /\ x \in Group /\ x.id \in 1 .. Len(g) + 1 /\ x.size <= MaxGroupSize
    /\ x.size = d[x.id] /\ \A i \in Nat \ {x.id} : d[i] = c[i]

\* It is put behind the others ...
LEMMA PackedBehind ==
  ASSUME NEW g, NEW c, NEW d, NEW x, Others0(g, c, x, d),
         x.size = MaxGroupSize => \A k \in DOMAIN g : g[k].size = MaxGroupSize
  PROVE  Packed(Append(g, x), d)
<1> DEFINE p == Append(g, x)
           n == Len(g)
<1>0. g \in Seq(Group) /\ x \in Group
  BY DEF Others0
<1>1. /\ n \in Nat /\ DOMAIN g = 1 .. n /\ DOMAIN p = 1 .. n + 1 /\ Len(p) = n + 1
      /\ p \in Seq(Group) /\ p[n + 1] = x /\ \A i \in 1 .. n : p[i] = g[i]
  BY <1>0, AppendProperties
<1>2. /\ \A j, k \in 1 .. n : g[j].id = g[k].id => j = k
      /\ \A k \in 1 .. n : g[k].id # x.id
  BY <1>1 DEF Others0, OneOfAKind
<1>3. \A k \in 1 .. n : /\ g[k].id \in 1 .. n + 1 /\ g[k].size = c[g[k].id]
                        /\ g[k].size <= MaxGroupSize
  BY <1>1 DEF Others0, Sized
<1>4. /\ x.id \in 1 .. n + 1 /\ x.size <= MaxGroupSize
      /\ x.size = d[x.id] /\ \A i \in Nat \ {x.id} : d[i] = c[i]
  BY <1>1 DEF Others0
<1>5. \A j, k \in 1 .. n : j < k /\ g[k].size = MaxGroupSize => g[j].size = MaxGroupSize
  BY <1>1 DEF Others0, FullFirst
<1>6. \A i \in Nat \ {x.id} : c[i] # 0 => \E k \in 1 .. n : g[k].id = i
  BY <1>1 DEF Others0, Grouped
<1> HIDE DEF p, n
<1>7. 1 .. n + 1 = (1 .. n) \cup {n + 1} /\ n + 1 \notin 1 .. n
  BY <1>1
<1>8. OneOfAKind(p)
  BY <1>1, <1>2, <1>7 DEF OneOfAKind
<1>9. Sized(p, d, n + 1)
  BY <1>1, <1>2, <1>3, <1>4, <1>7 DEF Sized
<1>10. FullFirst(p)
  <2>1. SUFFICES ASSUME NEW j \in 1 .. n + 1, NEW k \in 1 .. n + 1, j < k,
                        p[k].size = MaxGroupSize
                 PROVE  p[j].size = MaxGroupSize
    BY <1>1 DEF FullFirst
  <2>2. j \in 1 .. n
    BY <1>1, <2>1
  <2>3. CASE k \in 1 .. n
    BY <1>1, <1>5, <2>1, <2>2, <2>3
  <2>4. CASE k = n + 1
    BY <1>1, <2>1, <2>2, <2>4
  <2> QED BY <1>7, <2>3, <2>4
<1>11. Grouped(p, d, Nat)
  <2>1. SUFFICES ASSUME NEW i \in Nat, d[i] # 0
                 PROVE  \E k \in 1 .. n + 1 : p[k].id = i
    BY <1>1 DEF Grouped
  <2>2. CASE i = x.id
    BY <1>1, <1>7, <2>2
  <2>3. CASE i # x.id
    <3>1. PICK k \in 1 .. n : g[k].id = i
      BY <1>4, <1>6, <2>1, <2>3
    <3> QED BY <1>1, <1>7, <3>1
  <2> QED BY <2>2, <2>3
<1> QED BY <1>1, <1>8, <1>9, <1>10, <1>11 DEF Packed, p

\* ... or, full, before them.
LEMMA PackedBefore ==
  ASSUME NEW g, NEW c, NEW d, NEW x, Others0(g, c, x, d), x.size = MaxGroupSize
  PROVE  Packed(<<x>> \o g, d)
<1> DEFINE p == <<x>> \o g
           n == Len(g)
<1>0. g \in Seq(Group) /\ x \in Group
  BY DEF Others0
<1>1. /\ n \in Nat /\ DOMAIN g = 1 .. n /\ DOMAIN p = 1 .. n + 1 /\ Len(p) = n + 1
      /\ p \in Seq(Group) /\ p[1] = x /\ \A i \in 2 .. n + 1 : p[i] = g[i - 1] /\ i - 1 \in 1 .. n
  <2> DEFINE h == <<x>>
  <2>1. h \in Seq(Group) /\ Len(h) = 1 /\ h[1] = x
    BY <1>0
  <2>2. n \in Nat /\ DOMAIN g = 1 .. n
    BY <1>0
  <2> HIDE DEF h
  <2>3. /\ h \o g \in Seq(Group) /\ Len(h \o g) = Len(h) + Len(g)
        /\ \A i \in 1 .. Len(h) + Len(g) : (h \o g)[i] = IF i <= Len(h) THEN h[i] ELSE g[i - Len(h)]
    BY <1>0, <2>1, ConcatProperties
  <2> DEFINE q == h \o g
  <2>4. q \in Seq(Group) /\ Len(q) = n + 1
        /\ \A i \in 1 .. n + 1 : q[i] = IF i <= 1 THEN h[i] ELSE g[i - 1]
    BY <2>1, <2>2, <2>3
  <2> HIDE DEF q, n
  <2>5. q[1] = x /\ \A i \in 2 .. n + 1 : q[i] = g[i - 1] /\ i - 1 \in 1 .. n
    BY <2>1, <2>2, <2>4
  <2>6. DOMAIN q = 1 .. n + 1
    BY <2>4
  <2> QED BY <2>2, <2>4, <2>5, <2>6 DEF h, q
<1>2. /\ \A j, k \in 1 .. n : g[j].id = g[k].id => j = k
      /\ \A k \in 1 .. n : g[k].id # x.id
  BY <1>1 DEF Others0, OneOfAKind
<1>3. \A k \in 1 .. n : /\ g[k].id \in 1 .. n + 1 /\ g[k].size = c[g[k].id]
                        /\ g[k].size <= MaxGroupSize
  BY <1>1 DEF Others0, Sized
<1>4. /\ x.id \in 1 .. n + 1 /\ x.size <= MaxGroupSize
      /\ x.size = d[x.id] /\ \A i \in Nat \ {x.id} : d[i] = c[i]
  BY <1>1 DEF Others0
<1>5. \A j, k \in 1 .. n : j < k /\ g[k].size = MaxGroupSize => g[j].size = MaxGroupSize
  BY <1>1 DEF Others0, FullFirst
<1>6. \A i \in Nat \ {x.id} : c[i] # 0 => \E k \in 1 .. n : g[k].id = i
  BY <1>1 DEF Others0, Grouped
<1> HIDE DEF p, n
<1>7. 1 .. n + 1 = {1} \cup (2 .. n + 1) /\ \A k \in 1 .. n : k + 1 \in 2 .. n + 1 /\ (k + 1) - 1 = k
  BY <1>1
<1>8. OneOfAKind(p)
  <2>1. SUFFICES ASSUME NEW j \in 1 .. n + 1, NEW k \in 1 .. n + 1, p[j].id = p[k].id
                 PROVE  j = k
    BY <1>1 DEF OneOfAKind
  <2>2. CASE j = 1 \/ k = 1
    BY <1>1, <1>2, <1>7, <2>1, <2>2
  <2>3. CASE j # 1 /\ k # 1
    <3>1. j \in 2 .. n + 1 /\ k \in 2 .. n + 1
      BY <1>7, <2>3
    <3>2. j - 1 = k - 1
      BY <1>1, <1>2, <2>1, <3>1
    <3> QED BY <3>1, <3>2
  <2> QED BY <2>2, <2>3
<1>9. Sized(p, d, n + 1)
  <2>1. SUFFICES ASSUME NEW k \in 1 .. n + 1
                 PROVE  /\ p[k].id \in 1 .. n + 1 /\ p[k].size = d[p[k].id]
                        /\ p[k].size <= MaxGroupSize
    BY <1>1 DEF Sized
  <2>2. CASE k = 1
    BY <1>1, <1>4, <2>2
  <2>3. CASE k # 1
    <3>1. k \in 2 .. n + 1
      BY <1>7, <2>3
    <3>2. p[k] = g[k - 1] /\ k - 1 \in 1 .. n
      BY <1>1, <3>1
    <3>3. g[k - 1].id \in Nat
      BY <1>1, <1>3, <3>2
    <3> QED BY <1>2, <1>3, <1>4, <3>2, <3>3
  <2> QED BY <2>2, <2>3
<1>10. FullFirst(p)
  <2>1. SUFFICES ASSUME NEW j \in 1 .. n + 1, NEW k \in 1 .. n + 1, j < k,
                        p[k].size = MaxGroupSize
                 PROVE  p[j].size = MaxGroupSize
    BY <1>1 DEF FullFirst
  <2>2. CASE j = 1
    BY <1>1, <2>2
  <2>3. CASE j # 1
    <3>1. j \in 2 .. n + 1 /\ k \in 2 .. n + 1
      BY <1>1, <2>1, <2>3
    <3>2. j - 1 < k - 1
      BY <2>1, <3>1
    <3> QED BY <1>1, <1>5, <2>1, <3>1, <3>2
  <2> QED BY <2>2, <2>3
<1>11. Grouped(p, d, Nat)
  <2>1. SUFFICES ASSUME NEW i \in Nat, d[i] # 0
                 PROVE  \E k \in 1 .. n + 1 : p[k].id = i
    BY <1>1 DEF Grouped
  <2>2. CASE i = x.id
    BY <1>1, <1>7, <2>2
  <2>3. CASE i # x.id
    <3>1. PICK k \in 1 .. n : g[k].id = i
      BY <1>4, <1>6, <2>1, <2>3
    <3>2. p[k + 1] = g[k] /\ k + 1 \in 1 .. n + 1
      BY <1>1, <1>7
    <3> QED BY <3>1, <3>2
  <2> QED BY <2>2, <2>3
<1> QED BY <1>1, <1>8, <1>9, <1>10, <1>11 DEF Packed, p

LEMMA OthersAre ==
  ASSUME NEW g, NEW c, NEW d, NEW x, Packed(g, c), NEW k \in DOMAIN g, x \in Group,
         x.id = g[k].id, x.size <= MaxGroupSize, x.size = d[x.id],
         \A i \in Nat \ {x.id} : d[i] = c[i]
  PROVE  Others0(Without(g, k), c, x, d)
<1> DEFINE p == Without(g, k)
           n == Len(g)
           at(i) == IF i < k THEN i ELSE i + 1
<1>0. g \in Seq(Group)
  BY DEF Packed
<1>1. /\ n \in Nat /\ DOMAIN g = 1 .. n /\ k \in 1 .. n
      /\ p \in Seq(Group) /\ Len(p) = n - 1 /\ DOMAIN p = 1 .. n - 1
      /\ \A i \in 1 .. n - 1 : p[i] = g[at(i)]
  BY <1>0, WithoutIs
<1>2. \A i \in 1 .. n - 1 : at(i) \in 1 .. n /\ at(i) # k
  BY <1>1
<1>3. /\ \A i, j \in 1 .. n - 1 : at(i) = at(j) => i = j
      /\ \A i, j \in 1 .. n - 1 : i < j => at(i) < at(j)
  BY <1>1
<1>4. \A j \in 1 .. n : j # k => \E i \in 1 .. n - 1 : at(i) = j
  <2>1. SUFFICES ASSUME NEW j \in 1 .. n, j # k
                 PROVE  \E i \in 1 .. n - 1 : at(i) = j
    OBVIOUS
  <2>2. CASE j < k
    <3>1. j \in 1 .. n - 1 /\ at(j) = j
      BY <1>1, <2>2
    <3> QED BY <3>1
  <2>3. CASE j > k
    <3>1. j - 1 \in 1 .. n - 1 /\ at(j - 1) = j
      BY <1>1, <2>3
    <3> QED BY <3>1
  <2> QED BY <1>1, <2>1, <2>2, <2>3
<1>5. /\ \A i, j \in 1 .. n : g[i].id = g[j].id => i = j
      /\ \A i, j \in 1 .. n : i < j /\ g[j].size = MaxGroupSize => g[i].size = MaxGroupSize
      /\ \A i \in 1 .. n : /\ g[i].id \in 1 .. n /\ g[i].size = c[g[i].id]
                           /\ g[i].size <= MaxGroupSize
      /\ \A i \in Nat : c[i] # 0 => \E j \in 1 .. n : g[j].id = i
  BY <1>1 DEF Packed, OneOfAKind, FullFirst, Sized, Grouped
<1>6. (n - 1) + 1 = n
  BY <1>1
<1> HIDE DEF p, n, at
<1>7. OneOfAKind(p)
  BY <1>1, <1>2, <1>3, <1>5 DEF OneOfAKind
<1>8. FullFirst(p)
  BY <1>1, <1>2, <1>3, <1>5 DEF FullFirst
<1>9. Sized(p, c, Len(p) + 1)
  BY <1>1, <1>2, <1>5, <1>6 DEF Sized
<1>10. Grouped(p, c, Nat \ {x.id})
  <2>1. SUFFICES ASSUME NEW i \in Nat, i # x.id, c[i] # 0
                 PROVE  \E j \in 1 .. n - 1 : p[j].id = i
    BY <1>1 DEF Grouped
  <2>2. PICK j \in 1 .. n : g[j].id = i
    BY <1>5, <2>1
  <2>3. j # k
    BY <2>1, <2>2
  <2>4. PICK l \in 1 .. n - 1 : at(l) = j
    BY <1>4, <2>3
  <2> QED BY <1>1, <2>2, <2>4
<1>11. \A i \in DOMAIN p : p[i].id # x.id
  BY <1>1, <1>2, <1>5
<1>12. x.id \in 1 .. Len(p) + 1
  BY <1>1, <1>5, <1>6
<1> QED BY <1>1, <1>7, <1>8, <1>9, <1>10, <1>11, <1>12 DEF Others0, p

LEMMA GroupFields ==
  ASSUME NEW g, NEW c, Packed(g, c), NEW k \in DOMAIN g
  PROVE  /\ g[k].id \in Nat /\ g[k].size \in Nat /\ g[k].id \in 1 .. Len(g)
         /\ g[k].size = c[g[k].id] /\ g[k].size <= MaxGroupSize
<1>1. g \in Seq(Group)
  BY DEF Packed
<1>2. g[k] \in Group
  BY <1>1
<1>3. g[k].id \in Nat /\ g[k].size \in Nat
  BY <1>2 DEF Group
<1> QED BY <1>3 DEF Packed, Sized

Counts == [Nat -> Nat]
Put(c, i, m) == [c EXCEPT ![i] = m]
Sizing(i, m) == [id |-> i, size |-> m]

LEMMA PutIs ==
  ASSUME NEW c \in Counts, NEW i \in Nat, NEW m \in Nat
  PROVE  /\ Put(c, i, m) \in Counts /\ Put(c, i, m)[i] = m
         /\ \A j \in Nat \ {i} : Put(c, i, m)[j] = c[j]
  BY DEF Put, Counts

LEMMA OneMore ==
  ASSUME NEW z \in Nat, NEW m \in Nat, ~(z >= m)
  PROVE  1 + z \in Nat /\ 1 + z = z + 1 /\ 1 + z <= m /\ (1 + z = m \/ 1 + z < m)
  OBVIOUS

LEMMA SizingIs ==
  ASSUME NEW i \in Nat, NEW m \in Nat
  PROVE  Sizing(i, m) \in Group /\ Sizing(i, m).id = i /\ Sizing(i, m).size = m
  BY DEF Sizing, Group

\* A group without objects yet, when all the others are full.
LEMMA NewGroup ==
  ASSUME NEW g, NEW c \in Counts, Packed(g, c), NEW i, i = Len(g) + 1
  PROVE  Others0(g, c, Sizing(i, 1), Put(c, i, 1)) /\ c[i] = 0
<1>1. g \in Seq(Group) /\ OneOfAKind(g) /\ FullFirst(g) /\ Sized(g, c, Len(g)) /\ Grouped(g, c, Nat)
  BY DEF Packed
<1> DEFINE n == Len(g)
<1>2. n \in Nat /\ DOMAIN g = 1 .. n /\ i = n + 1 /\ i \in Nat
  BY <1>1
<1>3. /\ MaxGroupSize \in Nat /\ 1 <= MaxGroupSize
  BY SizesAssumption
<1> HIDE DEF n
<1>4. \A k \in 1 .. n : g[k].id \in 1 .. n
  BY <1>1, <1>2 DEF Sized, n
<1>5. \A j \in 1 .. n : j # i /\ j \in 1 .. i
  BY <1>2
<1>6. \A k \in DOMAIN g : g[k].id # i
  BY <1>2, <1>4, <1>5
<1>7. c[i] = 0
  BY <1>1, <1>2, <1>6 DEF Grouped
<1>8. Sized(g, c, Len(g) + 1)
  BY <1>1, <1>2, <1>5 DEF Sized, n
<1>9. Grouped(g, c, Nat \ {i})
  BY <1>1 DEF Grouped
<1> DEFINE x == Sizing(i, 1)
           d == Put(c, i, 1)
<1>10. x \in Group /\ x.id = i /\ x.size = 1
  BY <1>2, SizingIs
<1>11. d[i] = 1 /\ \A j \in Nat \ {i} : d[j] = c[j]
  <2>1. 1 \in Nat
    OBVIOUS
  <2> HIDE DEF x
  <2> QED BY <1>2, <2>1, PutIs
<1>12. i \in 1 .. Len(g) + 1
  BY <1>2 DEF n
<1> HIDE DEF x, d
<1>13. Others0(g, c, x, d)
  BY <1>1, <1>3, <1>6, <1>8, <1>9, <1>10, <1>11, <1>12 DEF Others0
<1> QED BY <1>7, <1>13 DEF x, d

\* One object more, or one less, in the k-th group.
LEMMA OldGroup ==
  ASSUME NEW g, NEW c \in Counts, Packed(g, c), NEW k \in DOMAIN g,
         NEW m \in Nat, m <= MaxGroupSize
  PROVE  Others0(Without(g, k), c, Sizing(g[k].id, m), Put(c, g[k].id, m))
<1> DEFINE i == g[k].id
           x == Sizing(i, m)
           d == Put(c, i, m)
<1>1. i \in Nat
  BY GroupFields
<1> HIDE DEF i
<1>2. x \in Group /\ x.id = i /\ x.size = m
  BY <1>1, SizingIs
<1>3. d[i] = m /\ \A j \in Nat \ {i} : d[j] = c[j]
  BY <1>1, PutIs
<1> HIDE DEF x, d
<1>4. Others0(Without(g, k), c, x, d)
  BY <1>2, <1>3, OthersAre DEF i
<1> QED BY <1>4 DEF i, x, d

\* poll_group_acquire counts one object more in the group it gives.
LEMMA AcquireIs ==
  ASSUME NEW s \in PortState, NEW c \in Counts, Packed(s.groups, c),
         NEW a, a = Acquire(s)
  PROVE  /\ a.id \in Nat /\ a.s = [s EXCEPT !.groups = a.s.groups]
         /\ Packed(a.s.groups, Put(c, a.id, c[a.id] + 1))
<1>1. PICK g : g = s.groups
  OBVIOUS
<1>2. Packed(g, c)
  BY <1>1
<1>3. g \in Seq(Group) /\ MaxGroupSize \in Nat \ {0}
  BY <1>2, SizesAssumption DEF Packed
<1>4. PICK n : n = Len(g)
  OBVIOUS
<1>5. n \in Nat /\ DOMAIN g = 1 .. n
  BY <1>3, <1>4
<1> DEFINE new == NeedsGroup(s)
           id == IF new THEN n + 1 ELSE LastGroup(s).id
           x == [id |-> id, size |-> 1 + (IF new THEN 0 ELSE LastGroup(s).size)]
           old == IF new THEN g ELSE Others(s, id)
           h == IF x.size = MaxGroupSize THEN <<x>> \o old ELSE Append(old, x)
<1>6. a = [id |-> id, s |-> [s EXCEPT !.groups = h]]
  BY <1>1, <1>4 DEF Acquire
<1>7. \E m \in Nat : /\ id \in Nat /\ x = Sizing(id, m) /\ m = c[id] + 1 /\ m <= MaxGroupSize
                     /\ Others0(old, c, x, Put(c, id, m))
                     /\ (m = MaxGroupSize \/ m < MaxGroupSize)
  <2>1. CASE new
    <3>1. id = n + 1 /\ x = Sizing(id, 1) /\ old = g
      BY <2>1 DEF Sizing
    <3> HIDE DEF id, x, old
    <3>2. Others0(g, c, Sizing(id, 1), Put(c, id, 1)) /\ c[id] = 0
      BY <1>2, <1>4, <3>1, NewGroup
    <3>3. id \in Nat
      BY <1>5, <3>1
    <3>4. 1 \in Nat /\ 1 = c[id] + 1 /\ 1 <= MaxGroupSize /\ (1 = MaxGroupSize \/ 1 < MaxGroupSize)
      BY <1>3, <3>2
    <3> QED BY <3>1, <3>2, <3>3, <3>4
  <2>2. CASE ~new
    <3> DEFINE k == PlaceOf(s, id)
    <3>1. g # <<>> /\ ~(g[n].size >= MaxGroupSize)
      BY <1>1, <1>4, <2>2 DEF NeedsGroup, LastGroup
    <3>2. n \in DOMAIN g
      BY <1>3, <1>4, <3>1
    <3>3. id = g[n].id /\ x = Sizing(id, 1 + g[n].size) /\ old = Without(g, k)
      BY <1>1, <1>4, <2>2 DEF LastGroup, Others, Sizing
    <3>4. k = CHOOSE j \in DOMAIN g : g[j].id = id
      BY <1>1 DEF PlaceOf
    <3> HIDE DEF id, x, old, k
    <3>5. k \in DOMAIN g /\ g[k].id = g[n].id
      BY <3>2, <3>3, <3>4
    <3>6. k = n
      BY <1>2, <3>2, <3>5 DEF Packed, OneOfAKind
    <3>7. /\ g[n].size \in Nat /\ g[n].size = c[id] /\ id \in Nat
      BY <1>2, <3>2, <3>3, GroupFields
    <3>8. PICK m \in Nat : m = 1 + g[n].size
      BY <3>7
    <3>9. m = c[id] + 1 /\ m <= MaxGroupSize /\ (m = MaxGroupSize \/ m < MaxGroupSize)
      <4>1. PICK z : z = g[n].size
        OBVIOUS
      <4>2. z \in Nat /\ ~(z >= MaxGroupSize) /\ MaxGroupSize \in Nat
        BY <1>3, <3>1, <3>7, <4>1
      <4>3. m = z + 1 /\ m <= MaxGroupSize /\ (m = MaxGroupSize \/ m < MaxGroupSize)
        BY <3>8, <4>1, <4>2, OneMore
      <4> QED BY <3>7, <4>1, <4>3
    <3>10. Others0(Without(g, n), c, Sizing(g[n].id, m), Put(c, g[n].id, m))
      BY <1>2, <3>2, <3>9, OldGroup
    <3> QED BY <3>3, <3>6, <3>7, <3>8, <3>9, <3>10
  <2> QED BY <2>1, <2>2
<1>8. PICK m \in Nat : /\ id \in Nat /\ x = Sizing(id, m) /\ m = c[id] + 1 /\ m <= MaxGroupSize
                      /\ Others0(old, c, x, Put(c, id, m))
                      /\ (m = MaxGroupSize \/ m < MaxGroupSize)
  BY <1>7
<1>9. Packed(h, Put(c, id, m))
  <2>1. x.size = m
    <3> HIDE DEF x, id
    <3> QED BY <1>8, SizingIs
  <2>2. CASE m = MaxGroupSize
    <3>1. h = <<x>> \o old
      BY <2>1, <2>2
    <3> HIDE DEF x, old, h, id
    <3> QED BY <1>8, <2>1, <2>2, <3>1, PackedBefore
  <2>3. CASE m # MaxGroupSize
    <3>1. h = Append(old, x)
      BY <2>1, <2>3
    <3> HIDE DEF x, old, h, id
    <3> QED BY <1>8, <2>1, <2>3, <3>1, PackedBehind
  <2> QED BY <2>2, <2>3
<1> HIDE DEF h, id, x, old
<1>10. a.id = id /\ a.s.groups = h /\ a.s = [s EXCEPT !.groups = h]
  BY <1>6 DEF PortState
<1> QED BY <1>8, <1>9, <1>10

\* poll_group_release counts one less.
LEMMA ReleaseIs ==
  ASSUME NEW s \in PortState, NEW c \in Counts, Packed(s.groups, c),
         NEW id \in Nat, c[id] # 0, NEW t, t = Release(s, id)
  PROVE  /\ t = [s EXCEPT !.groups = t.groups]
         /\ Packed(t.groups, Put(c, id, c[id] - 1))
<1>1. PICK g : g = s.groups
  OBVIOUS
<1>2. Packed(g, c) /\ MaxGroupSize \in Nat
  BY <1>1, SizesAssumption
<1>3. PICK k : k = PlaceOf(s, id)
  OBVIOUS
<1>4. k \in DOMAIN g /\ g[k].id = id
  <2>1. k = CHOOSE j \in DOMAIN g : g[j].id = id
    BY <1>1, <1>3 DEF PlaceOf
  <2>2. \E j \in DOMAIN g : g[j].id = id
    BY <1>2 DEF Packed, Grouped
  <2> QED BY <2>1, <2>2
<1>5. g[k].size \in Nat /\ g[k].size = c[id] /\ g[k].size <= MaxGroupSize
  BY <1>2, <1>4, GroupFields
<1>6. PICK m \in Nat : m = c[id] - 1
  <2>1. PICK z \in Nat : z = c[id]
    BY <1>5
  <2>2. z # 0
    BY <2>1
  <2>3. z - 1 \in Nat
    BY <2>2
  <2> QED BY <2>1, <2>3
<1>7. m <= MaxGroupSize /\ m # MaxGroupSize /\ g[k].size - 1 = m
  BY <1>2, <1>5, <1>6
<1> DEFINE x == Sizing(id, m)
           h == Append(Without(g, k), x)
<1>8. t = [s EXCEPT !.groups = h]
  <2>1. x = [id |-> id, size |-> g[k].size - 1]
    BY <1>7 DEF Sizing
  <2> HIDE DEF x
  <2> QED BY <1>1, <1>3, <2>1 DEF Release, SizeOf, Others
<1>9. x.size = m
  BY SizingIs
<1>10. Others0(Without(g, k), c, x, Put(c, id, m))
  <2>1. Others0(Without(g, k), c, Sizing(g[k].id, m), Put(c, g[k].id, m))
    BY <1>2, <1>4, <1>7, OldGroup
  <2> QED BY <1>4, <2>1
<1> HIDE DEF x
<1>11. Packed(h, Put(c, id, m))
  BY <1>7, <1>9, <1>10, PackedBehind
<1> HIDE DEF h
<1>12. t.groups = h
  BY <1>8 DEF PortState
<1> QED BY <1>6, <1>8, <1>11, <1>12

-----------------------------------------------------------------------------
(* How many objects a group has. *)

Members(s, i) == {o \in Objects : s.sock[o].used /\ s.sock[o].group = i}
Count(s) == [i \in Nat |-> Cardinality(Members(s, i))]

LEMMA CountIs ==
  ASSUME NEW s
  PROVE  /\ Count(s) \in Counts
         /\ \A i \in Nat : /\ Count(s)[i] = Cardinality(Members(s, i)) /\ Count(s)[i] \in Nat
                           /\ IsFiniteSet(Members(s, i))
<1>1. \A i \in Nat : IsFiniteSet(Members(s, i))
  <2>1. \A i \in Nat : Members(s, i) \subseteq Objects
    BY DEF Members
  <2> QED BY <2>1, FS_Subset, ObjectsAssumption
<1>2. \A i \in Nat : Cardinality(Members(s, i)) \in Nat
  BY <1>1, FS_CardinalityType
<1> QED BY <1>1, <1>2 DEF Count, Counts

LEMMA SameCounts ==
  ASSUME NEW c \in Counts, NEW d \in Counts, \A i \in Nat : c[i] = d[i]
  PROVE  c = d
  BY DEF Counts

LEMMA PutUnique ==
  ASSUME NEW c \in Counts, NEW d \in Counts, NEW i \in Nat, NEW m \in Nat,
         d[i] = m, \A j \in Nat \ {i} : d[j] = c[j]
  PROVE  d = Put(c, i, m)
  BY DEF Put, Counts

LEMMA CountSame ==
  ASSUME NEW s, NEW t, NEW o \in Objects,
         \A p \in Objects \ {o} : t.sock[p] = s.sock[p],
         t.sock[o].used = s.sock[o].used, t.sock[o].group = s.sock[o].group
  PROVE  Count(t) = Count(s)
<1>1. \A i \in Nat : Members(t, i) = Members(s, i)
  BY DEF Members
<1> QED BY <1>1 DEF Count

LEMMA CountLess ==
  ASSUME NEW s, NEW t, NEW o \in Objects, NEW i \in Nat,
         \A p \in Objects \ {o} : t.sock[p] = s.sock[p],
         s.sock[o].used, s.sock[o].group = i, ~t.sock[o].used
  PROVE  Count(s)[i] # 0 /\ Count(t) = Put(Count(s), i, Count(s)[i] - 1)
<1>1. /\ o \in Members(s, i) /\ Members(t, i) = Members(s, i) \ {o}
      /\ \A j \in Nat \ {i} : Members(t, j) = Members(s, j)
  <2>1. \A p, j : p \in Members(s, j) <=> p \in Objects /\ s.sock[p].used /\ s.sock[p].group = j
    BY DEF Members
  <2>2. \A p, j : p \in Members(t, j) <=> p \in Objects /\ t.sock[p].used /\ t.sock[p].group = j
    BY DEF Members
  <2>3. o \in Members(s, i)
    BY <2>1
  <2>4. Members(t, i) = Members(s, i) \ {o}
    BY <2>1, <2>2
  <2>5. ASSUME NEW j \in Nat \ {i}
        PROVE  Members(t, j) = Members(s, j)
    <3>1. \A p : p \in Members(t, j) <=> p \in Members(s, j)
      <4> SUFFICES ASSUME NEW p \in Objects
                   PROVE  p \in Members(t, j) <=> p \in Members(s, j)
        BY <2>1, <2>2
      <4>1. CASE p = o
        BY <2>1, <2>2, <4>1
      <4>2. CASE p # o
        BY <2>1, <2>2, <4>2
      <4> QED BY <4>1, <4>2
    <3> QED BY <3>1
  <2> QED BY <2>3, <2>4, <2>5
<1>2. Cardinality(Members(t, i)) = Cardinality(Members(s, i)) - 1
  <2>1. PICK M : M = Members(s, i)
    OBVIOUS
  <2>2. IsFiniteSet(M) /\ o \in M
    BY <1>1, <2>1, CountIs
  <2>3. Cardinality(M \ {o}) = Cardinality(M) - 1
    BY <2>2, FS_RemoveElement
  <2> QED BY <1>1, <2>1, <2>3
<1>3. Count(s)[i] # 0
  <2>1. IsFiniteSet(Members(s, i)) /\ Members(s, i) # {}
    BY <1>1, CountIs
  <2>2. Cardinality(Members(s, i)) # 0
    BY <2>1, FS_EmptySet
  <2> QED BY <2>2, CountIs
<1> DEFINE c == Count(s)
           d == Count(t)
<1>4. c \in Counts /\ d \in Counts /\ c[i] = Cardinality(Members(s, i)) /\ d[i] = Cardinality(Members(t, i))
  BY CountIs
<1>5. \A j \in Nat \ {i} : d[j] = c[j]
  <2>1. \A j \in Nat : c[j] = Cardinality(Members(s, j)) /\ d[j] = Cardinality(Members(t, j))
    BY CountIs
  <2> HIDE DEF c, d
  <2> QED BY <1>1, <2>1
<1> HIDE DEF c, d
<1>6. d[i] = c[i] - 1 /\ d[i] \in Nat
  <2>1. d[i] \in Nat
    BY CountIs DEF d
  <2> QED BY <1>2, <1>4, <2>1
<1>7. PICK m \in Nat : m = d[i]
  BY <1>6
<1>8. d = Put(c, i, m)
  BY <1>4, <1>5, <1>7, PutUnique
<1> QED BY <1>3, <1>6, <1>7, <1>8 DEF c, d

LEMMA CountMore ==
  ASSUME NEW s, NEW t, NEW o \in Objects, NEW i \in Nat,
         \A p \in Objects \ {o} : t.sock[p] = s.sock[p],
         ~s.sock[o].used, t.sock[o].used, t.sock[o].group = i
  PROVE  Count(t) = Put(Count(s), i, Count(s)[i] + 1)
<1>1. /\ o \notin Members(s, i) /\ Members(t, i) = Members(s, i) \cup {o}
      /\ \A j \in Nat \ {i} : Members(t, j) = Members(s, j)
  <2>1. \A p, j : p \in Members(s, j) <=> p \in Objects /\ s.sock[p].used /\ s.sock[p].group = j
    BY DEF Members
  <2>2. \A p, j : p \in Members(t, j) <=> p \in Objects /\ t.sock[p].used /\ t.sock[p].group = j
    BY DEF Members
  <2>3. o \notin Members(s, i)
    BY <2>1
  <2>4. Members(t, i) = Members(s, i) \cup {o}
    BY <2>1, <2>2
  <2>5. ASSUME NEW j \in Nat \ {i}
        PROVE  Members(t, j) = Members(s, j)
    <3>1. \A p : p \in Members(t, j) <=> p \in Members(s, j)
      <4> SUFFICES ASSUME NEW p \in Objects
                   PROVE  p \in Members(t, j) <=> p \in Members(s, j)
        BY <2>1, <2>2
      <4>1. CASE p = o
        BY <2>1, <2>2, <4>1
      <4>2. CASE p # o
        BY <2>1, <2>2, <4>2
      <4> QED BY <4>1, <4>2
    <3> QED BY <3>1
  <2> QED BY <2>3, <2>4, <2>5
<1>2. Cardinality(Members(t, i)) = Cardinality(Members(s, i)) + 1
  <2>1. PICK M : M = Members(s, i)
    OBVIOUS
  <2>2. IsFiniteSet(M) /\ o \notin M
    BY <1>1, <2>1, CountIs
  <2>3. Cardinality(M \cup {o}) = Cardinality(M) + 1
    BY <2>2, FS_AddElement
  <2> QED BY <1>1, <2>1, <2>3
<1> DEFINE c == Count(s)
           d == Count(t)
<1>4. c \in Counts /\ d \in Counts /\ c[i] = Cardinality(Members(s, i)) /\ d[i] = Cardinality(Members(t, i))
  BY CountIs
<1>5. \A j \in Nat \ {i} : d[j] = c[j]
  <2>1. \A j \in Nat : c[j] = Cardinality(Members(s, j)) /\ d[j] = Cardinality(Members(t, j))
    BY CountIs
  <2> HIDE DEF c, d
  <2> QED BY <1>1, <2>1
<1> HIDE DEF c, d
<1>6. d[i] = c[i] + 1 /\ d[i] \in Nat
  <2>1. d[i] \in Nat
    BY CountIs DEF d
  <2> QED BY <1>2, <1>4, <2>1
<1>7. PICK m \in Nat : m = d[i]
  BY <1>6
<1>8. d = Put(c, i, m)
  BY <1>4, <1>5, <1>7, PutUnique
<1> QED BY <1>6, <1>7, <1>8 DEF c, d

\* A group that is acquired and released again is as it was.
LEMMA PutBack ==
  ASSUME NEW c \in Counts, NEW i \in Nat
  PROVE  LET d == Put(c, i, c[i] + 1) IN d \in Counts /\ d[i] # 0 /\ Put(d, i, d[i] - 1) = c
<1>1. PICK n \in Nat : n = c[i]
  BY DEF Counts
<1>2. PICK m \in Nat : m = n + 1
  BY <1>1
<1>3. PICK d : d = Put(c, i, m)
  OBVIOUS
<1>4. d \in Counts /\ d[i] = m /\ \A j \in Nat \ {i} : d[j] = c[j]
  <2>1. /\ Put(c, i, m) \in Counts /\ Put(c, i, m)[i] = m
        /\ \A j \in Nat \ {i} : Put(c, i, m)[j] = c[j]
    BY PutIs
  <2> QED BY <1>3, <2>1
<1>5. m - 1 = n /\ m # 0
  BY <1>2
<1>6. PICK e : e = Put(d, i, n)
  OBVIOUS
<1>7. e \in Counts /\ e[i] = n /\ \A j \in Nat \ {i} : e[j] = d[j]
  <2>1. d \in Counts
    BY <1>4
  <2>2. /\ Put(d, i, n) \in Counts /\ Put(d, i, n)[i] = n
        /\ \A j \in Nat \ {i} : Put(d, i, n)[j] = d[j]
    BY <2>1, PutIs
  <2> QED BY <1>6, <2>2
<1>8. \A j \in Nat : e[j] = c[j]
  <2>1. \A j \in Nat \ {i} : e[j] = c[j]
    BY <1>4, <1>7
  <2>2. e[i] = c[i]
    BY <1>1, <1>7
  <2> QED BY <2>1, <2>2
<1>9. e = c
  BY <1>7, <1>8, SameCounts
<1>10. d = Put(c, i, c[i] + 1) /\ d[i] - 1 = n
  BY <1>1, <1>2, <1>3, <1>4, <1>5
<1>11. Put(d, i, d[i] - 1) = c
  BY <1>6, <1>9, <1>10
<1> HIDE DEF Put
<1> QED BY <1>4, <1>5, <1>10, <1>11

-----------------------------------------------------------------------------
(* What holds of a port between two critical sections.                      *)

\* What the record of an object, its place in the queues and that of its
\* completion packet have to do with each other. H: the packets in hands.
ObjectOk(s, o, H, ph) ==
    LET x  == s.sock[o]
        up == InQueue(s.update, o)
        de == InQueue(s.deleted, o)
        pk == o \in s.packets \/ o \in H
    IN  /\ ~x.used => x = Unused /\ ~up /\ ~de /\ ~pk
        /\ x.used /\ x.status = "idle" => x.io = {} /\ x.pending = {} /\ ~x.delete /\ ~pk
        /\ x.used /\ x.status # "idle" => x.io # {}
        /\ x.used /\ x.io = {"pending"} => x.status = "pending" /\ ~pk
        /\ x.used /\ x.delete => x.status # "idle" /\ de /\ ~up
        /\ x.used /\ ~x.delete => ~de
        /\ x.used /\ ~x.delete /\ (x.status = "idle" \/ (x.io = {"pending"} /\ Uncovered(x))) => up
        /\ ph \in {"open", "unlisted"} /\ x.used /\ x.status # "idle" /\ x.io # {"pending"} => pk

\* The same of all objects but o, and of the port.
SoundBut(s, o, H, ph) ==
    /\ Basic(s) /\ H \subseteq Objects
    /\ \A p \in Objects \ {o} : ObjectOk(s, p, H, ph)
    /\ Packed(s.groups, Count(s))
    /\ s.packets \cap H = {}
    /\ ph = "closed" => s.packets = {}

Sound(s, H, ph) ==
    /\ Basic(s) /\ H \subseteq Objects
    /\ \A p \in Objects : ObjectOk(s, p, H, ph)
    /\ Packed(s.groups, Count(s))
    /\ s.packets \cap H = {}
    /\ ph = "closed" => s.packets = {}

LEMMA SoundIs ==
  ASSUME NEW s, NEW o \in Objects, NEW H, NEW ph
  PROVE  Sound(s, H, ph) <=> SoundBut(s, o, H, ph) /\ ObjectOk(s, o, H, ph)
<1> HIDE DEF ObjectOk
<1> QED BY DEF Sound, SoundBut

\* A step at o leaves the other objects as they are.
LEMMA Moved ==
  ASSUME NEW s, NEW t, NEW o \in Objects, NEW H, NEW J, NEW ph,
         SoundBut(s, o, H, ph), Basic(t), Apart(s, t, o), Packed(t.groups, Count(t)),
         J \subseteq H, H \ {o} \subseteq J,
         t.packets \subseteq s.packets \cup {o}, o \in t.packets => o \notin J,
         ph = "closed" => t.packets = {}
  PROVE  SoundBut(t, o, J, ph)
<1>1. ASSUME NEW p \in Objects \ {o}
      PROVE  ObjectOk(t, p, J, ph)
  <2>1. ObjectOk(s, p, H, ph)
    BY <1>1 DEF SoundBut
  <2>2. t.sock[p] = s.sock[p] /\ (InQueue(t.update, p) <=> InQueue(s.update, p))
        /\ (InQueue(t.deleted, p) <=> InQueue(s.deleted, p))
        /\ (p \in t.packets <=> p \in s.packets) /\ (p \in J <=> p \in H)
    BY <1>1 DEF Apart
  <2> QED BY <2>1, <2>2 DEF ObjectOk
<1>2. H \subseteq Objects /\ s.packets \cap H = {}
  BY DEF SoundBut
<1>3. J \subseteq Objects /\ t.packets \cap J = {}
  BY <1>2
<1> QED BY <1>1, <1>3 DEF SoundBut

LEMMA ApartTrans ==
  ASSUME NEW s, NEW t, NEW u, NEW o, Apart(s, t, o), Apart(t, u, o)
  PROVE  Apart(s, u, o)
  BY DEF Apart

-----------------------------------------------------------------------------
(* sock__delete: the object is marked, and freed or kept. *)

Marked(s, o) ==
    IF s.sock[o].delete THEN s
    ELSE Mark(Dequeue(IF s.sock[o].status = "pending" THEN CancelPoll(s, o) ELSE s, o), o)

Freed(s, o) == [Release(Dequeue(s, o), s.sock[o].group) EXCEPT !.sock[o] = Unused]

LEMMA DeleteSplit ==
  ASSUME NEW s, NEW o, NEW force
  PROVE  Delete(s, o, force) = IF force \/ MayFree(Marked(s, o), o) THEN Freed(Marked(s, o), o)
                               ELSE AddDeleted(Marked(s, o), o)
  BY DEF Delete, Marked, Freed

\* The record of a marked object.
MarkedRec(x) ==
    [(IF x.status = "pending" THEN Cancelled(x) ELSE x)
        EXCEPT !.delete = TRUE, !.user = {}, !.pending = {}]

LEMMA RecIs ==
  ASSUME NEW s, Basic(s), NEW o \in Objects
  PROVE  s.sock[o] \in Rec
  BY DEF Basic, PortState

\* t is s with o marked, or freed, or kept in the deleted queue.
IsMarked(s, t, o) ==
    /\ Basic(t) /\ Apart(s, t, o) /\ t.groups = s.groups /\ t.refused = s.refused
    /\ t.sock[o] = MarkedRec(s.sock[o])
    /\ ~InQueue(t.update, o) /\ ~InQueue(t.deleted, o)
    /\ InQueue(s.update, o) => Len(t.update) = Len(s.update) - 1
    /\ ~InQueue(s.update, o) => t.update = s.update
    /\ t.packets = IF phase # "closed" /\ s.sock[o].status = "pending"
                      /\ s.sock[o].io = {"pending"}
                   THEN s.packets \cup {o} ELSE s.packets

IsFreed(s, t, o) ==
    /\ Basic(t) /\ Apart(s, t, o) /\ Packed(t.groups, Count(t)) /\ t.refused = s.refused
    /\ t.sock[o] = Unused
    /\ ~InQueue(t.update, o) /\ ~InQueue(t.deleted, o)
    /\ t.packets \subseteq s.packets \cup {o}
    /\ phase = "closed" \/ s.sock[o].status # "pending" => t.packets = s.packets
    /\ InQueue(s.update, o) => Len(t.update) = Len(s.update) - 1
    /\ ~InQueue(s.update, o) => t.update = s.update

IsKept(s, t, o) ==
    /\ Basic(t) /\ Apart(s, t, o) /\ Packed(t.groups, Count(t)) /\ t.refused = s.refused
    /\ t.sock[o] = MarkedRec(s.sock[o])
    /\ ~InQueue(t.update, o) /\ InQueue(t.deleted, o)
    /\ t.packets = IF phase # "closed" /\ s.sock[o].status = "pending"
                      /\ s.sock[o].io = {"pending"}
                   THEN s.packets \cup {o} ELSE s.packets
    /\ ~InQueue(s.update, o) => t.update = s.update

LEMMA MarkedNew ==
  ASSUME NEW s, Basic(s), NEW o \in Objects, ~s.sock[o].delete, NEW t, t = Marked(s, o)
  PROVE  IsMarked(s, t, o)
<1>1. PICK x : x = s.sock[o]
  OBVIOUS
<1>2. PICK u : u = IF x.status = "pending" THEN CancelPoll(s, o) ELSE s
  OBVIOUS
<1>3. /\ Basic(u) /\ Apart(s, u, o)
      /\ u.sock[o] = IF x.status = "pending" THEN Cancelled(x) ELSE x
      /\ u.update = s.update /\ u.deleted = s.deleted /\ u.groups = s.groups
      /\ u.refused = s.refused
      /\ u.packets = IF phase # "closed" /\ x.status = "pending" /\ x.io = {"pending"}
                     THEN s.packets \cup {o} ELSE s.packets
  <2>1. CASE x.status = "pending"
    <3>1. u = CancelPoll(s, o)
      BY <1>2, <2>1
    <3>2. /\ Basic(u) /\ Apart(s, u, o) /\ u.sock[o] = Cancelled(s.sock[o])
          /\ u.update = s.update /\ u.deleted = s.deleted /\ u.groups = s.groups
          /\ u.refused = s.refused
          /\ u.packets = IF phase # "closed" /\ s.sock[o].io = {"pending"} THEN s.packets \cup {o}
                         ELSE s.packets
      BY <3>1, CancelPollIs
    <3> QED BY <1>1, <2>1, <3>2
  <2>2. CASE x.status # "pending"
    <3>1. u = s
      BY <1>2, <2>2
    <3> QED BY <1>1, <2>2, <3>1 DEF Apart
  <2> QED BY <2>1, <2>2
<1>4. PICK v : v = Dequeue(u, o)
  OBVIOUS
<1>5. /\ Basic(v) /\ Apart(u, v, o)
      /\ v.sock = u.sock /\ v.groups = u.groups /\ v.packets = u.packets /\ v.refused = u.refused
      /\ ~InQueue(v.update, o) /\ ~InQueue(v.deleted, o)
      /\ InQueue(u.update, o) => Len(v.update) = Len(u.update) - 1
      /\ ~InQueue(u.update, o) => v.update = u.update
  BY <1>3, <1>4, DequeueIs
<1>6. PICK y : y = [v.sock[o] EXCEPT !.delete = TRUE, !.user = {}, !.pending = {}]
  OBVIOUS
<1>7. y = MarkedRec(x)
  BY <1>3, <1>5, <1>6 DEF MarkedRec
<1>8. v.sock[o] \in Rec
  BY <1>5, RecIs
<1>9. y \in Rec
  BY <1>6, <1>8 DEF Rec
<1>10. t = Mark(v, o)
  BY <1>1, <1>2, <1>4 DEF Marked
<1>11. t = Edited(v, o, y)
  <2>1. v \in PortState
    BY <1>5 DEF Basic
  <2> QED BY <1>6, <1>10, <2>1 DEF Mark, PortState, Edited
<1>12. /\ Basic(t) /\ Apart(v, t, o) /\ t.sock[o] = y
       /\ t.update = v.update /\ t.deleted = v.deleted /\ t.groups = v.groups
       /\ t.packets = v.packets /\ t.refused = v.refused
  BY <1>5, <1>9, <1>11, EditIs
<1>13. Apart(s, t, o)
  BY <1>3, <1>5, <1>12, ApartTrans
<1> QED BY <1>1, <1>3, <1>5, <1>7, <1>12, <1>13 DEF IsMarked

LEMMA UnusedIs == Unused \in Rec /\ ~Unused.used
  BY DEF Unused, Rec

\* A step that changes the poll groups only.
LEMMA Regrouped ==
  ASSUME NEW s, Basic(s), NEW g, NEW c, Packed(g, c), NEW t, t = [s EXCEPT !.groups = g]
  PROVE  /\ Basic(t) /\ t.groups = g /\ t.sock = s.sock /\ t.update = s.update
         /\ t.deleted = s.deleted /\ t.packets = s.packets /\ t.refused = s.refused
<1>1. g \in Seq(Group)
  BY DEF Packed
<1>2. /\ t \in PortState /\ t.groups = g /\ t.sock = s.sock /\ t.update = s.update
      /\ t.deleted = s.deleted /\ t.packets = s.packets /\ t.refused = s.refused
  BY <1>1 DEF Basic, PortState
<1> QED BY <1>2 DEF Basic

LEMMA FreedIs ==
  ASSUME NEW s, Basic(s), NEW o \in Objects, s.sock[o].used, Packed(s.groups, Count(s)),
         NEW t, t = Freed(s, o)
  PROVE  /\ Basic(t) /\ Apart(s, t, o) /\ Packed(t.groups, Count(t)) /\ t.refused = s.refused
         /\ t.sock[o] = Unused /\ t.packets = s.packets
         /\ ~InQueue(t.update, o) /\ ~InQueue(t.deleted, o)
         /\ InQueue(s.update, o) => Len(t.update) = Len(s.update) - 1
         /\ ~InQueue(s.update, o) => t.update = s.update
<1>1. PICK u : u = Dequeue(s, o)
  OBVIOUS
<1>2. /\ Basic(u) /\ Apart(s, u, o)
      /\ u.sock = s.sock /\ u.groups = s.groups /\ u.packets = s.packets /\ u.refused = s.refused
      /\ ~InQueue(u.update, o) /\ ~InQueue(u.deleted, o)
      /\ InQueue(s.update, o) => Len(u.update) = Len(s.update) - 1
      /\ ~InQueue(s.update, o) => u.update = s.update
  BY <1>1, DequeueIs
<1>3. PICK i : i = s.sock[o].group
  OBVIOUS
<1>4. i \in Nat
  <2>1. s.sock[o] \in Rec
    BY RecIs
  <2> QED BY <1>3, <2>1 DEF Rec
<1>5. PICK w : w = Edited(s, o, Unused)
  OBVIOUS
<1>6. Apart(s, w, o) /\ w.sock[o] = Unused
  BY <1>5, EditIs, UnusedIs
<1>7. PICK c : c = Count(s)
  OBVIOUS
<1>8. c[i] # 0 /\ Count(w) = Put(c, i, c[i] - 1)
  BY <1>3, <1>4, <1>6, <1>7, CountLess, UnusedIs DEF Apart
<1>9. PICK v : v = Release(u, i)
  OBVIOUS
<1>10. v = [u EXCEPT !.groups = v.groups] /\ Packed(v.groups, Put(c, i, c[i] - 1))
  <2>1. u \in PortState /\ c \in Counts /\ Packed(u.groups, c)
    BY <1>2, <1>7, CountIs DEF Basic
  <2> QED BY <1>4, <1>8, <1>9, <2>1, ReleaseIs
<1>11. /\ Basic(v) /\ v.sock = u.sock /\ v.update = u.update
       /\ v.deleted = u.deleted /\ v.packets = u.packets /\ v.refused = u.refused
  BY <1>2, <1>10, Regrouped
<1>12. t = Edited(v, o, Unused)
  <2>1. t = [v EXCEPT !.sock[o] = Unused]
    BY <1>1, <1>3, <1>9 DEF Freed
  <2>2. v \in PortState
    BY <1>11 DEF Basic
  <2> QED BY <2>1, <2>2 DEF Edited, PortState
<1>13. /\ Basic(t) /\ Apart(v, t, o) /\ t.sock[o] = Unused
       /\ t.update = v.update /\ t.deleted = v.deleted /\ t.groups = v.groups
       /\ t.packets = v.packets /\ t.refused = v.refused
  BY <1>11, <1>12, EditIs, UnusedIs
<1>14. Apart(u, v, o)
  BY <1>11 DEF Apart
<1>15. Apart(s, t, o)
  BY <1>2, <1>13, <1>14, ApartTrans
<1>16. Count(t) = Count(w)
  <2>1. \A p \in Objects \ {o} : t.sock[p] = w.sock[p]
    BY <1>6, <1>15 DEF Apart
  <2> QED BY <1>6, <1>13, <2>1, CountSame
<1>17. Packed(t.groups, Count(t))
  BY <1>8, <1>10, <1>13, <1>16
<1> QED BY <1>2, <1>11, <1>13, <1>15, <1>17

LEMMA DeleteFrees ==
  ASSUME NEW s, Basic(s), NEW o \in Objects, s.sock[o].used, Packed(s.groups, Count(s)),
         NEW t, t = Freed(Marked(s, o), o)
  PROVE  IsFreed(s, t, o)
<1>1. PICK u : u = Marked(s, o)
  OBVIOUS
<1>2. s.sock[o] \in Rec
  BY RecIs
<1>3. t = Freed(u, o)
  BY <1>1
<1>4. CASE s.sock[o].delete
  <2>1. u = s
    BY <1>1, <1>4 DEF Marked
  <2>2. t = Freed(s, o)
    BY <1>3, <2>1
  <2>3. /\ Basic(t) /\ Apart(s, t, o) /\ Packed(t.groups, Count(t)) /\ t.refused = s.refused
        /\ t.sock[o] = Unused /\ t.packets = s.packets
        /\ ~InQueue(t.update, o) /\ ~InQueue(t.deleted, o)
        /\ InQueue(s.update, o) => Len(t.update) = Len(s.update) - 1
        /\ ~InQueue(s.update, o) => t.update = s.update
    BY <2>2, FreedIs
  <2> QED BY <2>3 DEF IsFreed
<1>5. CASE ~s.sock[o].delete
  <2>1. IsMarked(s, u, o)
    BY <1>1, <1>5, MarkedNew
  <2>2. /\ Basic(u) /\ Apart(s, u, o) /\ u.groups = s.groups
        /\ u.sock[o] = MarkedRec(s.sock[o])
        /\ ~InQueue(u.update, o)
    BY <2>1 DEF IsMarked
  <2>3. u.sock[o].used = s.sock[o].used /\ u.sock[o].group = s.sock[o].group
    BY <1>2, <2>2 DEF MarkedRec, Cancelled, Rec
  <2>4. \A p \in Objects \ {o} : u.sock[p] = s.sock[p]
    BY <2>2 DEF Apart
  <2>5. Count(u) = Count(s)
    BY <2>3, <2>4, CountSame
  <2>6. Packed(u.groups, Count(u)) /\ u.sock[o].used
    BY <2>2, <2>3, <2>5
  <2>7. /\ Basic(t) /\ Apart(u, t, o) /\ Packed(t.groups, Count(t)) /\ t.refused = u.refused
        /\ t.sock[o] = Unused /\ t.packets = u.packets
        /\ ~InQueue(t.update, o) /\ ~InQueue(t.deleted, o)
        /\ ~InQueue(u.update, o) => t.update = u.update
    BY <1>3, <2>2, <2>6, FreedIs
  <2>8. Apart(s, t, o)
    BY <2>2, <2>7, ApartTrans
  <2>9. t.packets \subseteq s.packets \cup {o}
        /\ (phase = "closed" \/ s.sock[o].status # "pending" => t.packets = s.packets)
    BY <2>1, <2>7 DEF IsMarked
  <2> QED BY <2>1, <2>7, <2>8, <2>9 DEF IsFreed, IsMarked
<1> QED BY <1>4, <1>5

LEMMA IdleFreed ==
  ASSUME NEW s, Basic(s), NEW o \in Objects, s.sock[o].status = "idle"
  PROVE  Delete(s, o, FALSE) = Freed(Marked(s, o), o)
<1>1. PICK u : u = Marked(s, o)
  OBVIOUS
<1>2. u.sock[o].status = "idle"
  <2>1. CASE s.sock[o].delete
    BY <1>1, <2>1 DEF Marked
  <2>2. CASE ~s.sock[o].delete
    <3>1. IsMarked(s, u, o)
      BY <1>1, <2>2, MarkedNew
    <3>2. s.sock[o] \in Rec
      BY RecIs
    <3> QED BY <3>1, <3>2 DEF IsMarked, MarkedRec, Rec
  <2> QED BY <2>1, <2>2
<1> QED BY <1>1, <1>2, DeleteSplit DEF MayFree

LEMMA DeleteKeeps ==
  ASSUME NEW s, Basic(s), NEW o \in Objects, Packed(s.groups, Count(s)),
         s.sock[o].status # "idle", ~s.sock[o].delete,
         NEW t, t = Delete(s, o, FALSE)
  PROVE  IsKept(s, t, o)
<1>1. PICK u : u = Marked(s, o)
  OBVIOUS
<1>2. s.sock[o] \in Rec
  BY RecIs
<1>3. IsMarked(s, u, o)
  BY <1>1, MarkedNew
<1>4. /\ Basic(u) /\ Apart(s, u, o) /\ u.groups = s.groups
      /\ u.sock[o] = MarkedRec(s.sock[o])
      /\ ~InQueue(u.update, o) /\ ~InQueue(u.deleted, o)
  BY <1>3 DEF IsMarked
<1>5. /\ u.sock[o].used = s.sock[o].used /\ u.sock[o].group = s.sock[o].group
      /\ u.sock[o].status # "idle"
  BY <1>2, <1>4 DEF MarkedRec, Cancelled, Rec
<1>6. t = AddDeleted(u, o)
  BY <1>1, <1>5, DeleteSplit DEF MayFree
<1>7. /\ Basic(t) /\ Apart(u, t, o)
      /\ t.sock = u.sock /\ t.groups = u.groups /\ t.packets = u.packets /\ t.refused = u.refused
      /\ t.update = u.update
      /\ InQueue(t.deleted, o) <=> InQueue(u.deleted, o) \/ ~InQueue(u.update, o)
  BY <1>4, <1>6, AddDeletedIs
<1>8. Apart(s, t, o)
  BY <1>4, <1>7, ApartTrans
<1>9. \A p \in Objects \ {o} : t.sock[p] = s.sock[p]
  BY <1>8 DEF Apart
<1>10. Count(t) = Count(s)
  <2>1. t.sock[o].used = s.sock[o].used /\ t.sock[o].group = s.sock[o].group
    BY <1>5, <1>7
  <2> QED BY <1>9, <2>1, CountSame
<1>11. Packed(t.groups, Count(t))
  BY <1>4, <1>7, <1>10
<1>12. InQueue(t.deleted, o)
  BY <1>4, <1>7
<1> QED BY <1>3, <1>7, <1>8, <1>11, <1>12 DEF IsMarked, IsKept

\* A port stays sound when an object is deleted: sock__delete of ctl_del, of
\* sock_update ...
LEMMA DeleteSound ==
  ASSUME NEW s, NEW H, Sound(s, H, phase), NEW o \in Objects, s.sock[o].used, ~s.sock[o].delete,
         NEW t, t = Delete(s, o, FALSE)
  PROVE  /\ Sound(t, H, phase) /\ t.refused = s.refused
         /\ ~InQueue(s.update, o) => t.update = s.update
         /\ InQueue(s.update, o) /\ s.sock[o].status = "idle" => Len(t.update) = Len(s.update) - 1
<1>1. SoundBut(s, o, H, phase) /\ ObjectOk(s, o, H, phase)
  BY SoundIs
<1>2. Basic(s) /\ Packed(s.groups, Count(s)) /\ (phase = "closed" => s.packets = {})
      /\ s.packets \cap H = {}
  BY <1>1 DEF SoundBut
<1>3. s.sock[o] \in Rec
  BY <1>2, RecIs
<1>5. CASE s.sock[o].status = "idle"
  <2>0. IsFreed(s, t, o)
    <3>1. t = Freed(Marked(s, o), o)
      BY <1>2, <1>5, IdleFreed
    <3> QED BY <1>2, <3>1, DeleteFrees
  <2>1. /\ Basic(t) /\ Apart(s, t, o) /\ Packed(t.groups, Count(t)) /\ t.refused = s.refused
        /\ t.sock[o] = Unused
        /\ ~InQueue(t.update, o) /\ ~InQueue(t.deleted, o)
        /\ t.packets = s.packets
    BY <1>5, <2>0 DEF IsFreed
  <2>2. o \notin s.packets /\ o \notin H
    BY <1>1, <1>5 DEF ObjectOk
  <2>3. SoundBut(t, o, H, phase)
    BY <1>1, <1>2, <2>1, <2>2, Moved
  <2>4. ObjectOk(t, o, H, phase)
    BY <2>1, <2>2, UnusedIs DEF ObjectOk
  <2>5. Sound(t, H, phase)
    BY <2>3, <2>4, SoundIs
  <2> QED BY <2>0, <2>5 DEF IsFreed
<1>6. CASE s.sock[o].status # "idle"
  <2>0. IsKept(s, t, o)
    BY <1>2, <1>6, DeleteKeeps
  <2> DEFINE x == s.sock[o]
  <2>1. /\ Basic(t) /\ Apart(s, t, o) /\ Packed(t.groups, Count(t))
        /\ t.sock[o] = MarkedRec(x)
        /\ ~InQueue(t.update, o) /\ InQueue(t.deleted, o)
        /\ t.packets = IF phase # "closed" /\ x.status = "pending"
                          /\ x.io = {"pending"}
                       THEN s.packets \cup {o} ELSE s.packets
    BY <2>0 DEF IsKept
  <2>2. /\ x.used /\ ~x.delete /\ x.io # {} /\ (x.io = {"pending"} => x.status = "pending")
        /\ x.io = {"pending"} => o \notin s.packets /\ o \notin H
        /\ phase \in {"open", "unlisted"} /\ x.io # {"pending"} => o \in s.packets \/ o \in H
    BY <1>1, <1>6 DEF ObjectOk
  <2>3. PICK y : y = MarkedRec(x)
    OBVIOUS
  <2>4. /\ y.used /\ y.delete /\ y.status = "cancelled"
        /\ y.io = IF x.io = {"pending"} THEN {"cancelled"} ELSE x.io
    BY <1>3, <1>6, <2>2, <2>3 DEF MarkedRec, Cancelled, Rec
  <2> HIDE DEF x
  <2>5. SoundBut(t, o, H, phase)
    <3>1. t.packets \subseteq s.packets \cup {o} /\ (o \in t.packets => o \notin H)
          /\ (phase = "closed" => t.packets = {})
      BY <1>2, <2>1, <2>2
    <3> QED BY <1>1, <2>1, <3>1, Moved
  <2>6. /\ y.io # {} /\ y.io # {"pending"}
    BY <2>2, <2>4
  <2>7. phase \in {"open", "unlisted"} => o \in t.packets \/ o \in H
    BY <2>1, <2>2
  <2>8. ObjectOk(t, o, H, phase)
    BY <2>1, <2>3, <2>4, <2>6, <2>7 DEF ObjectOk
  <2>9. Sound(t, H, phase)
    BY <2>5, <2>8, SoundIs
  <2> QED BY <1>6, <2>0, <2>9 DEF IsKept
<1> QED BY <1>5, <1>6

\* ... of ctl_del with a cancel that fails: the request stays with the kernel ...
LEMMA UncancelledSound ==
  ASSUME NEW s, NEW H, Sound(s, H, phase), NEW o \in Objects, s.sock[o].used, ~s.sock[o].delete,
         MayNotCancel(s, o), NEW t, t = DeleteUncancelled(s, o)
  PROVE  /\ Sound(t, H, phase) /\ t.refused = s.refused
         /\ ~InQueue(s.update, o) => t.update = s.update
<1>1. SoundBut(s, o, H, phase) /\ ObjectOk(s, o, H, phase)
  BY SoundIs
<1>2. Basic(s) /\ Packed(s.groups, Count(s)) /\ (phase = "closed" => s.packets = {})
  BY <1>1 DEF SoundBut
<1>3. s.sock[o].status = "pending" /\ s.sock[o].io = {"pending"}
  BY DEF MayNotCancel
<1>4. PICK v : v = Dequeue(s, o)
  OBVIOUS
<1>5. /\ Basic(v) /\ Apart(s, v, o)
      /\ v.sock = s.sock /\ v.groups = s.groups /\ v.packets = s.packets /\ v.refused = s.refused
      /\ ~InQueue(v.update, o) /\ ~InQueue(v.deleted, o)
      /\ ~InQueue(s.update, o) => v.update = s.update
  BY <1>2, <1>4, DequeueIs
<1>6. PICK y : y = [s.sock[o] EXCEPT !.delete = TRUE, !.user = {}, !.pending = {}]
  OBVIOUS
<1>7. /\ y \in Rec /\ y.used /\ y.delete /\ y.status = "pending" /\ y.io = {"pending"}
      /\ y.group = s.sock[o].group
  <2>1. s.sock[o] \in Rec
    BY <1>2, RecIs
  <2> QED BY <1>3, <1>6, <2>1 DEF Rec
<1>8. PICK u : u = Mark(v, o)
  OBVIOUS
<1>9. u = Edited(v, o, y)
  <2>1. v \in PortState
    BY <1>5 DEF Basic
  <2> QED BY <1>5, <1>6, <1>8, <2>1 DEF Mark, PortState, Edited
<1>10. /\ Basic(u) /\ Apart(v, u, o) /\ u.sock[o] = y
       /\ u.update = v.update /\ u.deleted = v.deleted /\ u.groups = v.groups
       /\ u.packets = v.packets /\ u.refused = v.refused
  BY <1>5, <1>7, <1>9, EditIs
<1>11. t = AddDeleted(u, o)
  BY <1>4, <1>8 DEF DeleteUncancelled
<1>12. /\ Basic(t) /\ Apart(u, t, o)
       /\ t.sock = u.sock /\ t.groups = u.groups /\ t.packets = u.packets /\ t.refused = u.refused
       /\ t.update = u.update
       /\ InQueue(t.deleted, o) <=> InQueue(u.deleted, o) \/ ~InQueue(u.update, o)
  BY <1>10, <1>11, AddDeletedIs
<1>13. Apart(s, t, o)
  BY <1>5, <1>10, <1>12, ApartTrans
<1>14. t.sock[o] = y /\ InQueue(t.deleted, o) /\ ~InQueue(t.update, o) /\ t.packets = s.packets
  BY <1>5, <1>10, <1>12
<1>15. Packed(t.groups, Count(t))
  <2>1. Count(t) = Count(s)
    <3>1. t.sock[o].used = s.sock[o].used /\ t.sock[o].group = s.sock[o].group
      BY <1>7, <1>14
    <3>2. \A p \in Objects \ {o} : t.sock[p] = s.sock[p]
      BY <1>13 DEF Apart
    <3> QED BY <3>1, <3>2, CountSame
  <2> QED BY <1>2, <1>5, <1>10, <1>12, <2>1
<1>16. o \notin s.packets /\ o \notin H
  BY <1>1, <1>3 DEF ObjectOk
<1>17. SoundBut(t, o, H, phase)
  BY <1>1, <1>2, <1>12, <1>13, <1>14, <1>15, <1>16, Moved
<1>18. ObjectOk(t, o, H, phase)
  BY <1>7, <1>14, <1>16 DEF ObjectOk
<1> QED BY <1>5, <1>10, <1>12, <1>17, <1>18, SoundIs

\* ... and that of port_delete, which frees it whatever it waits for.
IsForced(s, t, o) == /\ Sound(t, {}, phase) /\ t.sock[o] = Unused
                     /\ \A p \in Objects \ {o} : t.sock[p] = s.sock[p]

LEMMA ForceSound ==
  ASSUME NEW s, phase = "closed", Sound(s, {}, phase), NEW o \in Objects, s.sock[o].used,
         NEW t, t = Delete(s, o, TRUE)
  PROVE  IsForced(s, t, o)
<1>1. SoundBut(s, o, {}, phase)
  BY SoundIs
<1>2. Basic(s) /\ Packed(s.groups, Count(s)) /\ s.packets = {}
  BY <1>1 DEF SoundBut
<1>3. t = Freed(Marked(s, o), o)
  BY DeleteSplit
<1>4. IsFreed(s, t, o)
  BY <1>2, <1>3, DeleteFrees
<1>5. /\ Basic(t) /\ Apart(s, t, o) /\ Packed(t.groups, Count(t))
      /\ t.sock[o] = Unused
      /\ ~InQueue(t.update, o) /\ ~InQueue(t.deleted, o)
      /\ t.packets = s.packets
      /\ ~InQueue(s.update, o) => t.update = s.update
  BY <1>4 DEF IsFreed
<1>6. SoundBut(t, o, {}, phase)
  BY <1>1, <1>2, <1>5, Moved
<1>7. ObjectOk(t, o, {}, phase)
  BY <1>2, <1>5, UnusedIs DEF ObjectOk
<1>8. Sound(t, {}, phase)
  BY <1>6, <1>7, SoundIs
<1> QED BY <1>5, <1>8 DEF Apart, IsForced

-----------------------------------------------------------------------------
(* sock_set_event and sock_new *)

\* A registered object, which may still have to be put in the update queue.
Tame(s, o, H, ph) ==
    LET x  == s.sock[o]
        pk == o \in s.packets \/ o \in H
    IN  /\ x.used /\ ~x.delete /\ ~InQueue(s.deleted, o)
        /\ x.status = "idle" => x.io = {} /\ x.pending = {} /\ ~pk
        /\ x.status # "idle" => x.io # {}
        /\ x.io = {"pending"} => x.status = "pending" /\ ~pk
        /\ ph \in {"open", "unlisted"} /\ x.status # "idle" /\ x.io # {"pending"} => pk

LEMMA RegisteredTame ==
  ASSUME NEW s, NEW o, NEW H, NEW ph, ObjectOk(s, o, H, ph), s.sock[o].used, ~s.sock[o].delete
  PROVE  Tame(s, o, H, ph)
  BY DEF ObjectOk, Tame

LEMMA SetEventSound ==
  ASSUME NEW s, NEW H, NEW o \in Objects, SoundBut(s, o, H, phase), Tame(s, o, H, phase),
         NEW mask \in Masks, NEW t, t = SetEvent(s, o, mask)
  PROVE  Sound(t, H, phase)
<1>1. Basic(s) /\ Packed(s.groups, Count(s)) /\ (phase = "closed" => s.packets = {})
      /\ s.packets \cap H = {}
  BY DEF SoundBut
<1>2. s.sock[o] \in Rec
  BY <1>1, RecIs
<1>3. PICK user : user = mask \cup {"err"}
  OBVIOUS
<1>4. user \in SUBSET (Known \cup {"oneshot"}) /\ "err" \in user
  BY <1>3, MasksAssumption DEF Known
<1>5. PICK y : y = [s.sock[o] EXCEPT !.user = user]
  OBVIOUS
<1>6. /\ y \in Rec /\ y.user = user
      /\ y.used = s.sock[o].used /\ y.delete = s.sock[o].delete /\ y.status = s.sock[o].status
      /\ y.io = s.sock[o].io /\ y.pending = s.sock[o].pending /\ y.group = s.sock[o].group
  BY <1>2, <1>4, <1>5 DEF Rec
<1>7. PICK u : u = Edited(s, o, y)
  OBVIOUS
<1>8. /\ Basic(u) /\ Apart(s, u, o) /\ u.sock[o] = y
      /\ u.update = s.update /\ u.deleted = s.deleted /\ u.groups = s.groups
      /\ u.packets = s.packets /\ u.refused = s.refused
  BY <1>1, <1>6, <1>7, EditIs
<1>9. t = IF Uncovered(y) THEN RequestUpdate(u, o) ELSE u
  <2>1. u = [s EXCEPT !.sock[o].user = mask \cup {"err"}]
    <3>1. s \in PortState
      BY <1>1 DEF Basic
    <3> QED BY <1>3, <1>5, <1>7, <3>1 DEF Edited, PortState
  <2> QED BY <1>8, <2>1 DEF SetEvent
<1>10. /\ Basic(t) /\ Apart(u, t, o)
       /\ t.sock = u.sock /\ t.groups = u.groups /\ t.packets = u.packets
       /\ t.deleted = u.deleted
       /\ Uncovered(y) => InQueue(t.update, o) \/ InQueue(u.deleted, o)
  <2>1. CASE Uncovered(y)
    BY <1>8, <1>9, <2>1, RequestUpdateIs
  <2>2. CASE ~Uncovered(y)
    BY <1>8, <1>9, <2>2 DEF Apart
  <2> QED BY <2>1, <2>2
<1>11. Apart(s, t, o)
  BY <1>8, <1>10, ApartTrans
<1>12. Count(t) = Count(s)
  <2>1. \A p \in Objects \ {o} : t.sock[p] = s.sock[p]
    BY <1>11 DEF Apart
  <2>2. t.sock[o].used = s.sock[o].used /\ t.sock[o].group = s.sock[o].group
    BY <1>6, <1>8, <1>10
  <2> QED BY <2>1, <2>2, CountSame
<1>13. Packed(t.groups, Count(t)) /\ t.packets = s.packets
  BY <1>1, <1>8, <1>10, <1>12
<1>14. SoundBut(t, o, H, phase)
  <2>1. \A p \in H : p \notin t.packets
    BY <1>1, <1>13
  <2> QED BY <1>1, <1>10, <1>11, <1>13, <2>1, Moved
<1>15. y.status = "idle" => Uncovered(y)
  BY <1>4, <1>6 DEF Tame, Uncovered, Known
<1>16. ObjectOk(t, o, H, phase)
  <2>1. t.sock[o] = y /\ t.packets = s.packets /\ (InQueue(t.deleted, o) <=> InQueue(s.deleted, o))
    BY <1>8, <1>10
  <2>2. /\ y.used /\ ~y.delete /\ ~InQueue(t.deleted, o)
        /\ y.status = "idle" => y.io = {} /\ y.pending = {} /\ ~(o \in t.packets \/ o \in H)
        /\ y.status # "idle" => y.io # {}
        /\ y.io = {"pending"} => y.status = "pending" /\ ~(o \in t.packets \/ o \in H)
        /\ phase \in {"open", "unlisted"} /\ y.status # "idle" /\ y.io # {"pending"}
             => o \in t.packets \/ o \in H
    BY <1>6, <2>1 DEF Tame
  <2>3. y.status = "idle" \/ (y.io = {"pending"} /\ Uncovered(y)) => InQueue(t.update, o)
    BY <1>8, <1>10, <1>15, <2>1, <2>2
  <2> QED BY <2>1, <2>2, <2>3 DEF ObjectOk
<1> QED BY <1>14, <1>16, SoundIs

WithRec(s, o, y) == [s EXCEPT !.sock[o] = y]
NewRec(x, i) == [Unused EXCEPT !.used = TRUE, !.socket = x, !.group = i]

LEMMA NewRecIs ==
  ASSUME NEW x \in Sockets, NEW i \in Nat
  PROVE  /\ NewRec(x, i) \in Rec /\ NewRec(x, i).used /\ ~NewRec(x, i).delete
         /\ NewRec(x, i).status = "idle" /\ NewRec(x, i).io = {} /\ NewRec(x, i).pending = {}
         /\ NewRec(x, i).group = i
  BY DEF NewRec, Unused, Rec

\* The socket is registered already: the group is as it was.
LEMMA NewSockFails ==
  ASSUME NEW s, NEW H, Sound(s, H, phase), NEW a, a = Acquire(s),
         NEW t, t = Release(a.s, a.id)
  PROVE  Sound(t, H, phase) /\ t.update = s.update /\ t.refused = s.refused
<1>1. Basic(s) /\ Packed(s.groups, Count(s))
  BY DEF Sound
<1>2. PICK c : c = Count(s)
  OBVIOUS
<1>3. c \in Counts /\ Packed(s.groups, c)
  BY <1>1, <1>2, CountIs
<1>4. PICK i : i = a.id
  OBVIOUS
<1>5. PICK u : u = a.s
  OBVIOUS
<1>6. PICK d : d = Put(c, i, c[i] + 1)
  OBVIOUS
<1>7. i \in Nat /\ u = [s EXCEPT !.groups = u.groups] /\ Packed(u.groups, d)
  <2>1. s \in PortState
    BY <1>1 DEF Basic
  <2>2. /\ a.id \in Nat /\ a.s = [s EXCEPT !.groups = a.s.groups]
        /\ Packed(a.s.groups, Put(c, a.id, c[a.id] + 1))
    BY <1>3, <2>1, AcquireIs
  <2> QED BY <1>4, <1>5, <1>6, <2>2
<1>8. /\ Basic(u) /\ u.sock = s.sock /\ u.update = s.update
      /\ u.deleted = s.deleted /\ u.packets = s.packets /\ u.refused = s.refused
  BY <1>1, <1>7, Regrouped
<1>9. d \in Counts /\ d[i] # 0 /\ Put(d, i, d[i] - 1) = c
  BY <1>3, <1>6, <1>7, PutBack
<1>10. t = Release(u, i)
  BY <1>4, <1>5
<1>11. t = [u EXCEPT !.groups = t.groups] /\ Packed(t.groups, c)
  <2>1. u \in PortState
    BY <1>8 DEF Basic
  <2>2. t = [u EXCEPT !.groups = t.groups] /\ Packed(t.groups, Put(d, i, d[i] - 1))
    BY <1>7, <1>9, <1>10, <2>1, ReleaseIs
  <2> QED BY <1>9, <2>2
<1>12. /\ Basic(t) /\ t.sock = u.sock /\ t.update = u.update
       /\ t.deleted = u.deleted /\ t.packets = u.packets /\ t.refused = u.refused
  BY <1>8, <1>11, Regrouped
<1>13. Count(t) = c
  BY <1>2, <1>8, <1>12 DEF Count, Members
<1>14. \A p \in Objects : ObjectOk(t, p, H, phase)
  <2>1. SUFFICES ASSUME NEW p \in Objects
                 PROVE  ObjectOk(t, p, H, phase)
    OBVIOUS
  <2>2. ObjectOk(s, p, H, phase)
    BY DEF Sound
  <2> QED BY <1>8, <1>12, <2>2 DEF ObjectOk
<1> QED BY <1>8, <1>11, <1>12, <1>13, <1>14 DEF Sound

LEMMA NewSockIs ==
  ASSUME NEW s, NEW H, Sound(s, H, phase), NEW o \in Objects, ~s.sock[o].used,
         NEW x \in Sockets, NEW a, a = Acquire(s),
         NEW t, t = WithRec(a.s, o, NewRec(x, a.id))
  PROVE  SoundBut(t, o, H, phase) /\ Tame(t, o, H, phase)
<1>1. SoundBut(s, o, H, phase) /\ ObjectOk(s, o, H, phase)
  BY SoundIs
<1>2. Basic(s) /\ Packed(s.groups, Count(s)) /\ (phase = "closed" => s.packets = {})
      /\ s.packets \cap H = {}
  BY <1>1 DEF SoundBut
<1>3. PICK c : c = Count(s)
  OBVIOUS
<1>4. c \in Counts /\ Packed(s.groups, c)
  BY <1>2, <1>3, CountIs
<1>5. PICK i : i = a.id
  OBVIOUS
<1>6. PICK u : u = a.s
  OBVIOUS
<1>7. i \in Nat /\ u = [s EXCEPT !.groups = u.groups] /\ Packed(u.groups, Put(c, i, c[i] + 1))
  <2>1. s \in PortState
    BY <1>2 DEF Basic
  <2>2. /\ a.id \in Nat /\ a.s = [s EXCEPT !.groups = a.s.groups]
        /\ Packed(a.s.groups, Put(c, a.id, c[a.id] + 1))
    BY <1>4, <2>1, AcquireIs
  <2> QED BY <1>5, <1>6, <2>2
<1>8. /\ Basic(u) /\ u.sock = s.sock /\ u.update = s.update
      /\ u.deleted = s.deleted /\ u.packets = s.packets /\ u.refused = s.refused
  BY <1>2, <1>7, Regrouped
<1>9. PICK y : y = NewRec(x, i)
  OBVIOUS
<1>10. /\ y \in Rec /\ y.used /\ ~y.delete /\ y.status = "idle" /\ y.io = {} /\ y.pending = {}
       /\ y.group = i
  BY <1>7, <1>9, NewRecIs
<1>11. t = Edited(u, o, y)
  <2>1. u \in PortState
    BY <1>8 DEF Basic
  <2>2. t = WithRec(u, o, y)
    BY <1>5, <1>6, <1>9
  <2> QED BY <2>1, <2>2 DEF PortState, Edited, WithRec
<1>12. /\ Basic(t) /\ Apart(u, t, o) /\ t.sock[o] = y
       /\ t.update = u.update /\ t.deleted = u.deleted /\ t.groups = u.groups
       /\ t.packets = u.packets /\ t.refused = u.refused
  BY <1>8, <1>10, <1>11, EditIs
<1>13. Apart(s, t, o)
  <2>1. Apart(s, u, o)
    BY <1>8 DEF Apart
  <2> QED BY <1>12, <2>1, ApartTrans
<1>14. Count(t) = Put(c, i, c[i] + 1)
  <2>1. \A p \in Objects \ {o} : t.sock[p] = s.sock[p]
    BY <1>13 DEF Apart
  <2>2. t.sock[o].used /\ t.sock[o].group = i
    BY <1>10, <1>12
  <2>3. Count(t) = Put(Count(s), i, Count(s)[i] + 1)
    BY <1>7, <2>1, <2>2, CountMore
  <2> QED BY <1>3, <2>3
<1>15. Packed(t.groups, Count(t)) /\ t.packets = s.packets
  BY <1>7, <1>8, <1>12, <1>14
<1>16. SoundBut(t, o, H, phase)
  <2>1. \A p \in H : p \notin t.packets
    BY <1>2, <1>15
  <2> QED BY <1>1, <1>2, <1>12, <1>13, <1>15, <2>1, Moved
<1>17. ~InQueue(s.deleted, o) /\ ~(o \in s.packets \/ o \in H)
  BY <1>1 DEF ObjectOk
<1>18. Tame(t, o, H, phase)
  BY <1>8, <1>10, <1>12, <1>17 DEF Tame
<1> QED BY <1>16, <1>18

-----------------------------------------------------------------------------
(* sock_update *)

LEMMA RefusedIs ==
  ASSUME NEW s, NEW H, NEW ph, Sound(s, H, ph), NEW b \in BOOLEAN,
         NEW t, t = [s EXCEPT !.refused = b]
  PROVE  Sound(t, H, ph) /\ t.update = s.update /\ t.refused = b
<1>1. Basic(s) /\ Packed(s.groups, Count(s)) /\ (ph = "closed" => s.packets = {})
      /\ s.packets \cap H = {} /\ H \subseteq Objects
  BY DEF Sound
<1>2. /\ t \in PortState /\ t.sock = s.sock /\ t.update = s.update /\ t.deleted = s.deleted
      /\ t.groups = s.groups /\ t.packets = s.packets /\ t.refused = b
  BY <1>1 DEF Basic, PortState
<1>3. Basic(t)
  BY <1>1, <1>2 DEF Basic
<1>4. Count(t) = Count(s)
  BY <1>2 DEF Count, Members
<1>5. ASSUME NEW p \in Objects
      PROVE  ObjectOk(t, p, H, ph)
  <2>1. ObjectOk(s, p, H, ph)
    BY DEF Sound
  <2> QED BY <1>2, <2>1 DEF ObjectOk
<1> QED BY <1>1, <1>2, <1>3, <1>4, <1>5 DEF Sound

\* What sock_update leads to, one way or another.
SockUpdated(s, t, H) == Sound(t, H, phase) /\ Len(t.update) = Len(s.update) - 1

\* The object leaves the update queue, with its poll as it is.
LEMMA DequeuedSound ==
  ASSUME NEW s, NEW H, NEW o \in Objects, SoundBut(s, o, H, phase),
         Tame(s, o, H, phase), InQueue(s.update, o),
         s.sock[o].status # "idle", s.sock[o].io = {"pending"} => ~Uncovered(s.sock[o]),
         NEW t, t = Dequeue(s, o)
  PROVE  SockUpdated(s, t, H)
<1>1. Basic(s) /\ Packed(s.groups, Count(s)) /\ (phase = "closed" => s.packets = {})
      /\ s.packets \cap H = {}
  BY DEF SoundBut
<1>2. /\ Basic(t) /\ Apart(s, t, o)
      /\ t.sock = s.sock /\ t.groups = s.groups /\ t.packets = s.packets /\ t.refused = s.refused
      /\ ~InQueue(t.update, o) /\ ~InQueue(t.deleted, o)
      /\ Len(t.update) = Len(s.update) - 1
  BY <1>1, DequeueIs
<1>3. Count(t) = Count(s)
  BY <1>2 DEF Count, Members
<1>4. Packed(t.groups, Count(t))
  BY <1>1, <1>2, <1>3
<1>5. SoundBut(t, o, H, phase)
  <2>1. \A p \in H : p \notin t.packets
    BY <1>1, <1>2
  <2> QED BY <1>1, <1>2, <1>4, <2>1, Moved
<1>6. ObjectOk(t, o, H, phase)
  BY <1>2 DEF Tame, ObjectOk
<1>7. Sound(t, H, phase)
  BY <1>5, <1>6, SoundIs
<1> QED BY <1>2, <1>7 DEF SockUpdated

LEMMA CancelledSound ==
  ASSUME NEW s, NEW H, NEW o \in Objects, Sound(s, H, phase), InQueue(s.update, o),
         s.sock[o].used, ~s.sock[o].delete, s.sock[o].status = "pending",
         NEW t, t = Dequeue(CancelPoll(s, o), o)
  PROVE  SockUpdated(s, t, H)
<1>1. SoundBut(s, o, H, phase) /\ ObjectOk(s, o, H, phase)
  BY SoundIs
<1>2. Basic(s) /\ Packed(s.groups, Count(s)) /\ (phase = "closed" => s.packets = {})
      /\ s.packets \cap H = {}
  BY <1>1 DEF SoundBut
<1>3. PICK x : x = s.sock[o]
  OBVIOUS
<1>4. x \in Rec
  BY <1>2, <1>3, RecIs
<1>5. PICK u : u = CancelPoll(s, o)
  OBVIOUS
<1>6. /\ Basic(u) /\ Apart(s, u, o) /\ u.sock[o] = Cancelled(s.sock[o])
      /\ u.update = s.update /\ u.deleted = s.deleted /\ u.groups = s.groups
      /\ u.refused = s.refused
      /\ u.packets = IF phase # "closed" /\ s.sock[o].io = {"pending"} THEN s.packets \cup {o}
                     ELSE s.packets
  BY <1>2, <1>5, CancelPollIs
<1>7. PICK y : y = Cancelled(x)
  OBVIOUS
<1>8. /\ y.used /\ ~y.delete /\ y.status = "cancelled" /\ y.group = x.group
      /\ y.io = IF x.io = {"pending"} THEN {"cancelled"} ELSE x.io
  BY <1>3, <1>4, <1>7 DEF Cancelled, Rec
<1>9. u.sock[o] = y
  BY <1>3, <1>6, <1>7
<1>10. /\ x.io # {} /\ ~InQueue(s.deleted, o)
       /\ x.io = {"pending"} => o \notin s.packets /\ o \notin H
       /\ phase \in {"open", "unlisted"} /\ x.io # {"pending"} => o \in s.packets \/ o \in H
  BY <1>1, <1>3 DEF ObjectOk
<1>11. u.packets = IF phase # "closed" /\ x.io = {"pending"} THEN s.packets \cup {o}
                   ELSE s.packets
  BY <1>3, <1>6
<1>12. Count(u) = Count(s)
  <2>1. u.sock[o].used = s.sock[o].used /\ u.sock[o].group = s.sock[o].group
    BY <1>3, <1>8, <1>9
  <2>2. \A p \in Objects \ {o} : u.sock[p] = s.sock[p]
    BY <1>6 DEF Apart
  <2> QED BY <2>1, <2>2, CountSame
<1>13. SoundBut(u, o, H, phase)
  <2>1. u.packets \subseteq s.packets \cup {o} /\ (o \in u.packets => o \notin H)
        /\ (phase = "closed" => u.packets = {})
    BY <1>2, <1>10, <1>11
  <2>2. Packed(u.groups, Count(u))
    BY <1>2, <1>6, <1>12
  <2> QED BY <1>1, <1>6, <2>1, <2>2, Moved
<1>14. y.io # {} /\ y.io # {"pending"}
  BY <1>8, <1>10
<1>15. phase \in {"open", "unlisted"} => o \in u.packets \/ o \in H
  BY <1>10, <1>11
<1>16. Tame(u, o, H, phase)
  BY <1>6, <1>8, <1>9, <1>10, <1>14, <1>15 DEF Tame
<1>17. InQueue(u.update, o) /\ u.sock[o].status # "idle" /\ u.sock[o].io # {"pending"}
  BY <1>6, <1>8, <1>9, <1>14
<1>18. t = Dequeue(u, o)
  BY <1>5
<1>19. SockUpdated(u, t, H)
  BY <1>13, <1>16, <1>17, <1>18, DequeuedSound
<1> QED BY <1>6, <1>19 DEF SockUpdated

\* The poll of an object is submitted.
Submitted(s, o) == [s EXCEPT !.sock[o].io = {"pending"}, !.sock[o].status = "pending",
                             !.sock[o].pending = s.sock[o].user]

LEMMA SubmittedSound ==
  ASSUME NEW s, NEW H, NEW o \in Objects, Sound(s, H, phase), InQueue(s.update, o),
         s.sock[o].used, ~s.sock[o].delete, s.sock[o].status = "idle",
         NEW t, t = Dequeue(Submitted(s, o), o)
  PROVE  SockUpdated(s, t, H)
<1>1. SoundBut(s, o, H, phase) /\ ObjectOk(s, o, H, phase)
  BY SoundIs
<1>2. Basic(s) /\ Packed(s.groups, Count(s)) /\ (phase = "closed" => s.packets = {})
      /\ s.packets \cap H = {}
  BY <1>1 DEF SoundBut
<1>3. PICK x : x = s.sock[o]
  OBVIOUS
<1>4. x \in Rec
  BY <1>2, <1>3, RecIs
<1>5. PICK y : y = [x EXCEPT !.io = {"pending"}, !.status = "pending", !.pending = x.user]
  OBVIOUS
<1>6. /\ y \in Rec /\ y.used = x.used /\ y.delete = x.delete /\ y.status = "pending"
      /\ y.group = x.group /\ y.io = {"pending"} /\ y.pending = y.user
  BY <1>4, <1>5 DEF Rec
<1>7. PICK u : u = Submitted(s, o)
  OBVIOUS
<1>8. u = Edited(s, o, y)
  <2>1. s \in PortState
    BY <1>2 DEF Basic
  <2> QED BY <1>3, <1>5, <1>7, <2>1 DEF Submitted, Edited, PortState
<1>9. /\ Basic(u) /\ Apart(s, u, o) /\ u.sock[o] = y
      /\ u.update = s.update /\ u.deleted = s.deleted /\ u.groups = s.groups
      /\ u.packets = s.packets /\ u.refused = s.refused
  BY <1>2, <1>6, <1>8, EditIs
<1>10. o \notin s.packets /\ o \notin H /\ ~InQueue(s.deleted, o)
  BY <1>1 DEF ObjectOk
<1>11. Count(u) = Count(s)
  <2>1. u.sock[o].used = s.sock[o].used /\ u.sock[o].group = s.sock[o].group
    BY <1>3, <1>6, <1>9
  <2>2. \A p \in Objects \ {o} : u.sock[p] = s.sock[p]
    BY <1>9 DEF Apart
  <2> QED BY <2>1, <2>2, CountSame
<1>12. SoundBut(u, o, H, phase)
  <2>1. Packed(u.groups, Count(u))
    BY <1>2, <1>9, <1>11
  <2>2. u.packets \subseteq s.packets \cup {o} /\ (o \in u.packets => o \notin H)
        /\ (phase = "closed" => u.packets = {})
    BY <1>2, <1>9, <1>10
  <2> QED BY <1>1, <1>9, <2>1, <2>2, Moved
<1>13. u.sock[o].used /\ ~u.sock[o].delete
  BY <1>3, <1>6, <1>9
<1>14. ~Uncovered(u.sock[o]) /\ u.sock[o].status = "pending" /\ u.sock[o].io = {"pending"}
  BY <1>6, <1>9 DEF Uncovered
<1>15. Tame(u, o, H, phase)
  BY <1>9, <1>10, <1>13, <1>14 DEF Tame
<1>16. InQueue(u.update, o)
  BY <1>9
<1>17. t = Dequeue(u, o)
  BY <1>7
<1>18. SockUpdated(u, t, H)
  BY <1>12, <1>14, <1>15, <1>16, <1>17, DequeuedSound
<1> QED BY <1>9, <1>18 DEF SockUpdated

LEMMA OkIs ==
  ASSUME NEW s, NEW H, NEW ph, Sound(s, H, ph), NEW r, r = Ok(s)
  PROVE  r.ok = TRUE /\ Sound(r.s, H, ph) /\ r.s.update = s.update /\ r.s.refused = FALSE
<1>1. PICK t : t = [s EXCEPT !.refused = FALSE]
  OBVIOUS
<1>2. Sound(t, H, ph) /\ t.update = s.update /\ t.refused = FALSE
  BY <1>1, RefusedIs
<1>3. r.ok = TRUE /\ r.s = t
  BY <1>1 DEF Ok
<1> QED BY <1>2, <1>3

LEMMA ErrorIs ==
  ASSUME NEW s, NEW H, NEW ph, Sound(s, H, ph), NEW r, r = Error(s)
  PROVE  r.ok = FALSE /\ Sound(r.s, H, ph) /\ r.s.update = s.update /\ r.s.refused = TRUE
<1>1. PICK t : t = [s EXCEPT !.refused = TRUE]
  OBVIOUS
<1>2. Sound(t, H, ph) /\ t.update = s.update /\ t.refused = TRUE
  BY <1>1, RefusedIs
<1>3. r.ok = FALSE /\ r.s = t
  BY <1>1 DEF Error
<1> QED BY <1>2, <1>3

\* One round of port__update_events, from s: done, or refused by the kernel.
Updated(s, r, H) ==
    /\ Sound(r.s, H, phase)
    /\ \/ r.ok = TRUE /\ r.s.refused = FALSE /\ Len(r.s.update) = Len(s.update) - 1
       \/ r.ok = FALSE /\ r.s.refused = TRUE

LEMMA OkUpdated ==
  ASSUME NEW s, NEW t, NEW H, SockUpdated(s, t, H), NEW r, r = Ok(t)
  PROVE  Updated(s, r, H)
<1>1. Sound(t, H, phase) /\ Len(t.update) = Len(s.update) - 1
  BY DEF SockUpdated
<1>2. r.ok = TRUE /\ Sound(r.s, H, phase) /\ r.s.update = t.update /\ r.s.refused = FALSE
  BY <1>1, OkIs
<1> QED BY <1>1, <1>2 DEF Updated

\* The sets sock_update chooses from, one for each arm of its CASE.
LEMMA SockUpdateCases ==
  ASSUME NEW s, NEW o, NEW r, r \in SockUpdate(s, o),
         s.sock[o].status \in {"idle", "pending", "cancelled"}
  PROVE  \/ s.sock[o].status = "pending" /\ ~Uncovered(s.sock[o]) /\ r = Ok(Dequeue(s, o))
         \/ s.sock[o].status = "pending" /\ r = Ok(Dequeue(CancelPoll(s, o), o))
         \/ s.sock[o].status = "cancelled" /\ r = Ok(Dequeue(s, o))
         \/ s.sock[o].status = "idle" /\ r = Ok(Delete(s, o, FALSE))
         \/ s.sock[o].status = "idle" /\ r = Ok(Dequeue(Submitted(s, o), o))
         \/ r = Error(s)
<1>1. CASE s.sock[o].status = "pending" /\ ~Uncovered(s.sock[o])
  <2>1. SockUpdate(s, o) = {Ok(Dequeue(s, o))}
    BY <1>1 DEF SockUpdate
  <2> QED BY <1>1, <2>1
<1>2. CASE s.sock[o].status = "pending" /\ Uncovered(s.sock[o])
  <2>1. SockUpdate(s, o) = {Ok(Dequeue(CancelPoll(s, o), o))}
                           \cup (IF MayNotCancel(s, o) THEN {Error(s)} ELSE {})
    BY <1>2 DEF SockUpdate
  <2>2. r = Ok(Dequeue(CancelPoll(s, o), o)) \/ r = Error(s)
    BY <2>1
  <2> QED BY <1>2, <2>2
<1>3. CASE s.sock[o].status = "cancelled"
  <2>1. SockUpdate(s, o) = {Ok(Dequeue(s, o))}
    BY <1>3 DEF SockUpdate
  <2> QED BY <1>3, <2>1
<1>4. CASE s.sock[o].status = "idle" /\ s.sock[o].socket \notin open
  <2>1. SockUpdate(s, o) = {Ok(Delete(s, o, FALSE))}
    BY <1>4 DEF SockUpdate
  <2> QED BY <1>4, <2>1
<1>5. CASE s.sock[o].status = "idle" /\ s.sock[o].socket \in open
  <2>1. SockUpdate(s, o) = {Ok(Dequeue(Submitted(s, o), o))}
                           \cup (IF AfdMayFail THEN {Error(s)} ELSE {})
    BY <1>5 DEF SockUpdate, Submitted
  <2>2. r = Ok(Dequeue(Submitted(s, o), o)) \/ r = Error(s)
    BY <2>1
  <2> QED BY <1>5, <2>2
<1> QED BY <1>1, <1>2, <1>3, <1>4, <1>5

LEMMA SockUpdateIs ==
  ASSUME NEW s, NEW H, Sound(s, H, phase), NEW o \in Objects, InQueue(s.update, o),
         NEW r, r \in SockUpdate(s, o)
  PROVE  Updated(s, r, H)
<1>1. SoundBut(s, o, H, phase) /\ ObjectOk(s, o, H, phase)
  BY SoundIs
<1>2. Basic(s)
  BY <1>1 DEF SoundBut
<1>3. s.sock[o].used /\ ~s.sock[o].delete
  BY <1>1 DEF ObjectOk
<1>4. Tame(s, o, H, phase)
  BY <1>1, <1>3, RegisteredTame
<1>5. s.sock[o].status \in {"idle", "pending", "cancelled"}
  <2>1. s.sock[o] \in Rec
    BY <1>2, RecIs
  <2> QED BY <2>1 DEF Rec
<1>6. CASE s.sock[o].status = "pending" /\ ~Uncovered(s.sock[o]) /\ r = Ok(Dequeue(s, o))
  <2>1. SockUpdated(s, Dequeue(s, o), H)
    BY <1>1, <1>4, <1>6, DequeuedSound
  <2> QED BY <1>6, <2>1, OkUpdated
<1>7. CASE s.sock[o].status = "pending" /\ r = Ok(Dequeue(CancelPoll(s, o), o))
  <2>1. SockUpdated(s, Dequeue(CancelPoll(s, o), o), H)
    BY <1>3, <1>7, CancelledSound
  <2> QED BY <1>7, <2>1, OkUpdated
<1>8. CASE s.sock[o].status = "cancelled" /\ r = Ok(Dequeue(s, o))
  <2>1. s.sock[o].io # {"pending"}
    BY <1>1, <1>3, <1>8 DEF ObjectOk
  <2>2. SockUpdated(s, Dequeue(s, o), H)
    BY <1>1, <1>4, <1>8, <2>1, DequeuedSound
  <2> QED BY <1>8, <2>2, OkUpdated
<1>9. CASE s.sock[o].status = "idle" /\ r = Ok(Delete(s, o, FALSE))
  <2>1. SockUpdated(s, Delete(s, o, FALSE), H)
    BY <1>3, <1>9, DeleteSound DEF SockUpdated
  <2> QED BY <1>9, <2>1, OkUpdated
<1>10. CASE s.sock[o].status = "idle" /\ r = Ok(Dequeue(Submitted(s, o), o))
  <2>1. SockUpdated(s, Dequeue(Submitted(s, o), o), H)
    BY <1>3, <1>10, SubmittedSound
  <2> QED BY <1>10, <2>1, OkUpdated
<1>11. CASE r = Error(s)
  BY <1>11, ErrorIs DEF Updated
<1> QED BY <1>5, <1>6, <1>7, <1>8, <1>9, <1>10, <1>11, SockUpdateCases

-----------------------------------------------------------------------------
(* sock_feed_event, of a packet in the hands of a thread *)

\* The request has ended and left the object idle.
Idled(s, o) == [s EXCEPT !.sock[o].status = "idle", !.sock[o].pending = {}, !.sock[o].io = {}]

LEMMA IdledIs ==
  ASSUME NEW s, NEW H, Sound(s, H, phase), NEW o \in H, NEW t, t = Idled(s, o)
  PROVE  /\ SoundBut(t, o, H \ {o}, phase) /\ t.refused = s.refused
         /\ t.update = s.update /\ t.deleted = s.deleted /\ t.packets = s.packets
         /\ o \in Objects /\ o \notin t.packets
         /\ t.sock[o] \in Rec /\ t.sock[o].used
         /\ t.sock[o].delete = s.sock[o].delete /\ t.sock[o].user = s.sock[o].user
         /\ t.sock[o].status = "idle" /\ t.sock[o].pending = {} /\ t.sock[o].io = {}
         /\ ~t.sock[o].delete => ~InQueue(t.deleted, o)
<1>0. o \in Objects
  BY DEF Sound
<1>1. SoundBut(s, o, H, phase) /\ ObjectOk(s, o, H, phase)
  BY <1>0, SoundIs
<1>2. Basic(s) /\ Packed(s.groups, Count(s)) /\ (phase = "closed" => s.packets = {})
      /\ s.packets \cap H = {}
  BY <1>1 DEF SoundBut
<1>3. PICK x : x = s.sock[o]
  OBVIOUS
<1>4. x \in Rec
  BY <1>0, <1>2, <1>3, RecIs
<1>5. PICK y : y = [x EXCEPT !.status = "idle", !.pending = {}, !.io = {}]
  OBVIOUS
<1>6. /\ y \in Rec /\ y.used = x.used /\ y.delete = x.delete /\ y.status = "idle"
      /\ y.group = x.group /\ y.io = {} /\ y.pending = {} /\ y.user = x.user
  BY <1>4, <1>5 DEF Rec
<1>7. t = Edited(s, o, y)
  <2>1. s \in PortState
    BY <1>2 DEF Basic
  <2> QED BY <1>0, <1>3, <1>5, <2>1 DEF Idled, Edited, PortState
<1>8. /\ Basic(t) /\ Apart(s, t, o) /\ t.sock[o] = y
      /\ t.update = s.update /\ t.deleted = s.deleted /\ t.groups = s.groups
      /\ t.packets = s.packets /\ t.refused = s.refused
  BY <1>0, <1>2, <1>6, <1>7, EditIs
<1>9. Count(t) = Count(s)
  <2>1. t.sock[o].used = s.sock[o].used /\ t.sock[o].group = s.sock[o].group
    BY <1>3, <1>6, <1>8
  <2>2. \A p \in Objects \ {o} : t.sock[p] = s.sock[p]
    BY <1>8 DEF Apart
  <2> QED BY <1>0, <2>1, <2>2, CountSame
<1>10. o \notin t.packets
  BY <1>2, <1>8
<1>11. SoundBut(t, o, H \ {o}, phase)
  <2>1. Packed(t.groups, Count(t))
    BY <1>2, <1>8, <1>9
  <2>2. t.packets \subseteq s.packets \cup {o}
        /\ (phase = "closed" => t.packets = {})
    BY <1>2, <1>8
  <2> QED BY <1>0, <1>1, <1>8, <1>10, <2>1, <2>2, Moved
<1>12. x.used /\ (~x.delete => ~InQueue(s.deleted, o))
  BY <1>1, <1>3 DEF ObjectOk
<1> QED BY <1>0, <1>3, <1>6, <1>8, <1>10, <1>11, <1>12

\* It is deleted when that was put off, or when its socket is closed.
LEMMA FeedDeletes ==
  ASSUME NEW s, NEW H, Sound(s, H, phase), NEW o \in H, NEW t, t = Delete(Idled(s, o), o, FALSE)
  PROVE  Sound(t, H \ {o}, phase) /\ t.refused = s.refused
<1>1. PICK u : u = Idled(s, o)
  OBVIOUS
<1>2. /\ SoundBut(u, o, H \ {o}, phase) /\ u.refused = s.refused
      /\ o \in Objects /\ o \notin u.packets /\ u.sock[o].used /\ u.sock[o].status = "idle"
  BY <1>1, IdledIs
<1>3. Basic(u) /\ Packed(u.groups, Count(u)) /\ (phase = "closed" => u.packets = {})
  BY <1>2 DEF SoundBut
<1>4. t = Freed(Marked(u, o), o)
  <2>1. Delete(u, o, FALSE) = Freed(Marked(u, o), o)
    BY <1>2, <1>3, IdleFreed
  <2> QED BY <1>1, <2>1
<1>5. IsFreed(u, t, o)
  BY <1>2, <1>3, <1>4, DeleteFrees
<1>6. /\ Basic(t) /\ Apart(u, t, o) /\ Packed(t.groups, Count(t)) /\ t.refused = u.refused
      /\ t.sock[o] = Unused
      /\ ~InQueue(t.update, o) /\ ~InQueue(t.deleted, o)
      /\ t.packets = u.packets
  BY <1>2, <1>5 DEF IsFreed
<1>7. SoundBut(t, o, H \ {o}, phase)
  BY <1>2, <1>3, <1>6, Moved
<1>8. ObjectOk(t, o, H \ {o}, phase)
  BY <1>2, <1>6, UnusedIs DEF ObjectOk
<1> QED BY <1>2, <1>6, <1>7, <1>8, SoundIs

\* Else it is watched again, for no event at all if it was asked for one shot.
LEMMA FeedRequests ==
  ASSUME NEW s, NEW H, Sound(s, H, phase), NEW o \in H, ~s.sock[o].delete,
         NEW t, t = RequestUpdate(Idled(s, o), o)
  PROVE  /\ Sound(t, H \ {o}, phase) /\ t.refused = s.refused
         /\ InQueue(t.update, o) /\ t.sock[o].used /\ ~t.sock[o].delete
         /\ t.sock[o].status = "idle" /\ t.sock[o] \in Rec /\ o \in Objects
<1>1. PICK u : u = Idled(s, o)
  OBVIOUS
<1>2. /\ SoundBut(u, o, H \ {o}, phase) /\ u.refused = s.refused
      /\ o \in Objects /\ o \notin u.packets /\ u.sock[o] \in Rec
      /\ u.sock[o].used /\ ~u.sock[o].delete
      /\ u.sock[o].status = "idle" /\ u.sock[o].pending = {} /\ u.sock[o].io = {}
      /\ ~InQueue(u.deleted, o)
  BY <1>1, IdledIs
<1>3. Basic(u) /\ Packed(u.groups, Count(u)) /\ (phase = "closed" => u.packets = {})
  BY <1>2 DEF SoundBut
<1>4. t = RequestUpdate(u, o)
  BY <1>1
<1>5. /\ Basic(t) /\ Apart(u, t, o)
      /\ t.sock = u.sock /\ t.groups = u.groups /\ t.packets = u.packets /\ t.refused = u.refused
      /\ t.deleted = u.deleted
      /\ InQueue(t.update, o)
  BY <1>2, <1>3, <1>4, RequestUpdateIs
<1>6. Count(t) = Count(u)
  BY <1>5 DEF Count, Members
<1>7. SoundBut(t, o, H \ {o}, phase)
  <2>1. Packed(t.groups, Count(t))
    BY <1>3, <1>5, <1>6
  <2> QED BY <1>2, <1>3, <1>5, <2>1, Moved
<1>8. ObjectOk(t, o, H \ {o}, phase)
  BY <1>2, <1>5 DEF ObjectOk
<1> QED BY <1>2, <1>5, <1>7, <1>8, SoundIs

\* The event was reported to one who asked for one shot.
Shot(s, o) == [s EXCEPT !.sock[o].user = {}]

LEMMA ShotSound ==
  ASSUME NEW s, NEW H, Sound(s, H, phase), NEW o \in Objects, s.sock[o].used, InQueue(s.update, o),
         NEW t, t = Shot(s, o)
  PROVE  Sound(t, H, phase) /\ t.refused = s.refused
<1>1. SoundBut(s, o, H, phase) /\ ObjectOk(s, o, H, phase)
  BY SoundIs
<1>2. Basic(s) /\ Packed(s.groups, Count(s)) /\ (phase = "closed" => s.packets = {})
      /\ s.packets \cap H = {}
  BY <1>1 DEF SoundBut
<1>3. PICK x : x = s.sock[o]
  OBVIOUS
<1>4. x \in Rec
  BY <1>2, <1>3, RecIs
<1>5. PICK y : y = [x EXCEPT !.user = {}]
  OBVIOUS
<1>6. /\ y \in Rec /\ y.used = x.used /\ y.delete = x.delete /\ y.status = x.status
      /\ y.group = x.group /\ y.io = x.io /\ y.pending = x.pending
  BY <1>4, <1>5 DEF Rec
<1>7. t = Edited(s, o, y)
  <2>1. s \in PortState
    BY <1>2 DEF Basic
  <2> QED BY <1>3, <1>5, <2>1 DEF Shot, Edited, PortState
<1>8. /\ Basic(t) /\ Apart(s, t, o) /\ t.sock[o] = y
      /\ t.update = s.update /\ t.deleted = s.deleted /\ t.groups = s.groups
      /\ t.packets = s.packets /\ t.refused = s.refused
  BY <1>2, <1>6, <1>7, EditIs
<1>9. Count(t) = Count(s)
  <2>1. t.sock[o].used = s.sock[o].used /\ t.sock[o].group = s.sock[o].group
    BY <1>3, <1>6, <1>8
  <2>2. \A p \in Objects \ {o} : t.sock[p] = s.sock[p]
    BY <1>8 DEF Apart
  <2> QED BY <2>1, <2>2, CountSame
<1>10. SoundBut(t, o, H, phase)
  <2>1. Packed(t.groups, Count(t))
    BY <1>2, <1>8, <1>9
  <2>2. \A p \in H : p \notin t.packets
    BY <1>2, <1>8
  <2> QED BY <1>1, <1>2, <1>8, <2>1, <2>2, Moved
<1>11. ObjectOk(t, o, H, phase)
  <2>1. t.sock[o].used
    BY <1>3, <1>6, <1>8
  <2>2. /\ t.sock[o].used = s.sock[o].used /\ t.sock[o].delete = s.sock[o].delete
        /\ t.sock[o].status = s.sock[o].status /\ t.sock[o].io = s.sock[o].io
        /\ t.sock[o].pending = s.sock[o].pending
    BY <1>3, <1>6, <1>8
  <2> QED BY <1>1, <1>8, <2>1, <2>2 DEF ObjectOk
<1>12. Sound(t, H, phase)
  BY <1>10, <1>11, SoundIs
<1> QED BY <1>8, <1>12

LEMMA FeedIs ==
  ASSUME NEW s, NEW H, Sound(s, H, phase), NEW o \in H, NEW f, f = Feed(s, o)
  PROVE  Sound(f.s, H \ {o}, phase) /\ f.s.refused = s.refused
<1>1. PICK u : u = Idled(s, o)
  OBVIOUS
<1>2. PICK v : v = RequestUpdate(u, o)
  OBVIOUS
<1>3. PICK ev : ev = s.sock[o].user \cap (IF s.sock[o].io = {"cancelled"} THEN {}
                                          ELSE EpollEvents(s.sock[o].io))
  OBVIOUS
<1> DEFINE d == Delete(u, o, FALSE)
<1>4. f = IF s.sock[o].delete \/ s.sock[o].io = {"closed"} THEN [s |-> d, n |-> 0]
          ELSE IF ev = {} THEN [s |-> v, n |-> 0]
          ELSE [s |-> IF "oneshot" \in s.sock[o].user THEN Shot(v, o) ELSE v,
                n |-> 1]
  BY <1>1, <1>2, <1>3 DEF Feed, Idled, Shot
<1>5. CASE s.sock[o].delete \/ s.sock[o].io = {"closed"}
  <2>1. f.s = d
    <3> HIDE DEF d
    <3>1. f = [s |-> d, n |-> 0]
      BY <1>4, <1>5
    <3> QED BY <3>1
  <2>2. Sound(d, H \ {o}, phase) /\ d.refused = s.refused
    BY <1>1, FeedDeletes
  <2> HIDE DEF d
  <2> QED BY <2>1, <2>2
<1>6. CASE ~(s.sock[o].delete \/ s.sock[o].io = {"closed"})
  <2>1. f.s = v \/ f.s = Shot(v, o)
    BY <1>4, <1>6
  <2>2. /\ Sound(v, H \ {o}, phase) /\ v.refused = s.refused
        /\ InQueue(v.update, o) /\ v.sock[o].used /\ o \in Objects
    BY <1>1, <1>2, <1>6, FeedRequests
  <2>3. Sound(Shot(v, o), H \ {o}, phase) /\ Shot(v, o).refused = v.refused
    BY <2>2, ShotSound
  <2> QED BY <2>1, <2>2, <2>3
<1> QED BY <1>5, <1>6

\* How many events it reports.
LEMMA FeedCounts ==
  ASSUME NEW s, NEW o
  PROVE  Feed(s, o).n \in {0, 1}
  BY DEF Feed

-----------------------------------------------------------------------------
(* The kernel ends a request, or all those of a socket *)

LEMMA CompleteSound ==
  ASSUME NEW s, NEW H, Sound(s, H, phase), NEW o \in Objects, s.sock[o].io = {"pending"},
         NEW e \in Known, NEW t, t = Complete(s, o, {e})
  PROVE  Sound(t, H, phase) /\ t.update = s.update /\ t.refused = s.refused
<1>1. SoundBut(s, o, H, phase) /\ ObjectOk(s, o, H, phase)
  BY SoundIs
<1>2. Basic(s) /\ Packed(s.groups, Count(s)) /\ (phase = "closed" => s.packets = {})
      /\ s.packets \cap H = {}
  BY <1>1 DEF SoundBut
<1>3. PICK x : x = s.sock[o]
  OBVIOUS
<1>4. x \in Rec
  BY <1>2, <1>3, RecIs
<1>5. PICK y : y = [x EXCEPT !.io = {e}]
  OBVIOUS
<1>6. PICK result : result = {e}
  OBVIOUS
<1>7. result \in SUBSET (Known \cup {"pending", "cancelled", "closed"}) /\ result # {} /\ result # {"pending"}
  BY <1>6 DEF Known
<1>8. /\ y.used = x.used /\ y.delete = x.delete /\ y.status = x.status
      /\ y.group = x.group /\ y.io = result /\ y.pending = x.pending
  BY <1>4, <1>5, <1>6 DEF Rec
<1>9. /\ Basic(t) /\ Apart(s, t, o) /\ t.sock[o] = [s.sock[o] EXCEPT !.io = result]
      /\ t.update = s.update /\ t.deleted = s.deleted /\ t.groups = s.groups
      /\ t.refused = s.refused
      /\ t.packets = IF phase = "closed" THEN s.packets ELSE s.packets \cup {o}
  <2>1. t = Complete(s, o, result)
    BY <1>6
  <2> QED BY <1>2, <1>7, <2>1, CompleteIs
<1>10. t.sock[o] = y
  BY <1>3, <1>5, <1>6, <1>9
<1>11. Count(t) = Count(s)
  <2>1. t.sock[o].used = s.sock[o].used /\ t.sock[o].group = s.sock[o].group
    BY <1>3, <1>8, <1>10
  <2>2. \A p \in Objects \ {o} : t.sock[p] = s.sock[p]
    BY <1>9 DEF Apart
  <2> QED BY <2>1, <2>2, CountSame
<1>12. /\ x.used /\ x.status = "pending" /\ o \notin s.packets /\ o \notin H
       /\ x.delete => InQueue(s.deleted, o) /\ ~InQueue(s.update, o)
       /\ ~x.delete => ~InQueue(s.deleted, o)
  <2>1. x.used
    BY <1>1, <1>3 DEF ObjectOk, Unused
  <2>2. x.status = "pending" /\ o \notin s.packets /\ o \notin H
    BY <1>1, <1>3, <2>1 DEF ObjectOk
  <2> QED BY <1>1, <1>3, <2>1, <2>2 DEF ObjectOk
<1>13. SoundBut(t, o, H, phase)
  <2>1. Packed(t.groups, Count(t))
    BY <1>2, <1>9, <1>11
  <2>2. t.packets \subseteq s.packets \cup {o} /\ (o \in t.packets => o \notin H)
        /\ (phase = "closed" => t.packets = {})
    BY <1>2, <1>9, <1>12
  <2> QED BY <1>1, <1>9, <2>1, <2>2, Moved
<1>14. phase \in {"open", "unlisted"} => o \in t.packets
  BY <1>9
<1>15. /\ y.used /\ y.status = "pending" /\ y.io # {} /\ y.io # {"pending"}
       /\ y.delete => InQueue(t.deleted, o) /\ ~InQueue(t.update, o)
       /\ ~y.delete => ~InQueue(t.deleted, o)
  BY <1>7, <1>8, <1>9, <1>12
<1>16. ObjectOk(t, o, H, phase)
  BY <1>10, <1>14, <1>15 DEF ObjectOk
<1> QED BY <1>9, <1>13, <1>16, SoundIs

\* closesocket: the requests on the socket end.
Closed(s, hit) ==
    [s EXCEPT !.sock = [o \in Objects |-> IF o \in hit THEN [s.sock[o] EXCEPT !.io = {"closed"}]
                                          ELSE s.sock[o]],
              !.packets = IF phase = "closed" THEN @ ELSE @ \cup hit]

LEMMA ClosedSound ==
  ASSUME NEW s, NEW H, Sound(s, H, phase), NEW hit \in SUBSET Objects,
         \A o \in hit : s.sock[o].io = {"pending"},
         NEW t, t = Closed(s, hit)
  PROVE  Sound(t, H, phase) /\ t.update = s.update /\ t.refused = s.refused
<1>1. Basic(s) /\ Packed(s.groups, Count(s)) /\ (phase = "closed" => s.packets = {})
      /\ s.packets \cap H = {} /\ H \subseteq Objects
  BY DEF Sound
<1> DEFINE y(o) == IF o \in hit THEN [s.sock[o] EXCEPT !.io = {"closed"}] ELSE s.sock[o]
           P == IF phase = "closed" THEN s.packets ELSE s.packets \cup hit
           f == [o \in Objects |-> y(o)]
<1>2. \A o \in Objects : s.sock[o] \in Rec
  BY <1>1, RecIs
<1>3. ASSUME NEW o \in Objects
      PROVE  /\ y(o) \in Rec
             /\ o \notin hit => y(o) = s.sock[o]
             /\ o \in hit => /\ y(o).used = s.sock[o].used /\ y(o).delete = s.sock[o].delete
                             /\ y(o).status = s.sock[o].status /\ y(o).io = {"closed"}
             /\ y(o).used = s.sock[o].used /\ y(o).group = s.sock[o].group
  <2>1. CASE o \in hit
    BY <1>2, <2>1 DEF Rec
  <2>2. CASE o \notin hit
    BY <1>2, <2>2
  <2> QED BY <2>1, <2>2
<1> HIDE DEF y
<1>4. f \in [Objects -> Rec] /\ \A o \in Objects : f[o] = y(o)
  BY <1>3
<1>5. P \subseteq Objects
  BY <1>1 DEF Basic, PortState
<1>6. t = [s EXCEPT !.sock = f, !.packets = P]
  <2>1. s \in PortState
    BY <1>1 DEF Basic
  <2> QED BY <2>1 DEF Closed, PortState, y
<1> HIDE DEF f, P
<1>7. /\ t \in PortState /\ t.sock = f /\ t.update = s.update /\ t.deleted = s.deleted
      /\ t.groups = s.groups /\ t.packets = P /\ t.refused = s.refused
  BY <1>1, <1>4, <1>5, <1>6 DEF Basic, PortState
<1>8. Basic(t)
  BY <1>1, <1>7 DEF Basic
<1>9. Count(t) = Count(s)
  <2>1. \A i \in Nat : Members(t, i) = Members(s, i)
    BY <1>3, <1>4, <1>7 DEF Members
  <2> QED BY <2>1 DEF Count
<1>10. ASSUME NEW o \in Objects
       PROVE  ObjectOk(s, o, H, phase)
  BY DEF Sound
<1>11. ASSUME NEW o \in hit
       PROVE  /\ s.sock[o].used /\ s.sock[o].status = "pending"
              /\ o \notin s.packets /\ o \notin H
              /\ s.sock[o].delete => InQueue(s.deleted, o) /\ ~InQueue(s.update, o)
              /\ ~s.sock[o].delete => ~InQueue(s.deleted, o)
  <2>1. ObjectOk(s, o, H, phase) /\ s.sock[o].io = {"pending"}
    BY <1>10
  <2>2. s.sock[o].used
    BY <2>1 DEF ObjectOk, Unused
  <2>3. s.sock[o].status = "pending" /\ o \notin s.packets /\ o \notin H
    BY <2>1, <2>2 DEF ObjectOk
  <2> QED BY <2>1, <2>2, <2>3 DEF ObjectOk
<1>12. t.packets \cap H = {} /\ (phase = "closed" => t.packets = {})
  BY <1>1, <1>7, <1>11 DEF P
<1>13. ASSUME NEW o \in Objects
       PROVE  ObjectOk(t, o, H, phase)
  <2>1. CASE o \in hit
    <3>1. /\ t.sock[o].used /\ t.sock[o].delete = s.sock[o].delete
          /\ t.sock[o].status = "pending" /\ t.sock[o].io = {"closed"}
      BY <1>3, <1>4, <1>7, <1>11, <2>1
    <3>2. phase \in {"open", "unlisted"} => o \in t.packets
      BY <1>7, <2>1 DEF P
    <3>3. /\ t.sock[o].delete => InQueue(t.deleted, o) /\ ~InQueue(t.update, o)
          /\ ~t.sock[o].delete => ~InQueue(t.deleted, o)
      BY <1>7, <1>11, <2>1, <3>1
    <3> QED BY <3>1, <3>2, <3>3 DEF ObjectOk
  <2>2. CASE o \notin hit
    <3>1. t.sock[o] = s.sock[o] /\ (o \in t.packets <=> o \in s.packets)
      BY <1>3, <1>4, <1>7, <2>2 DEF P
    <3> QED BY <1>7, <1>10, <3>1 DEF ObjectOk
  <2> QED BY <2>1, <2>2
<1>14. Packed(t.groups, Count(t))
  BY <1>1, <1>7, <1>9
<1>15. Sound(t, H, phase)
  BY <1>1, <1>8, <1>12, <1>13, <1>14 DEF Sound
<1> QED BY <1>7, <1>15

-----------------------------------------------------------------------------
(* port__update_events, one round after the other                           *)

LEMMA Upward ==
  ASSUME NEW n \in Nat, NEW S, 0 \in S,
         ASSUME NEW k \in 1 .. n, k - 1 \in S
         PROVE  k \in S
  PROVE  0 .. n \subseteq S
<1> DEFINE T == {k \in 0 .. n : k \notin S}
           R == OpToRel(<, Nat)
<1>1. SUFFICES ASSUME T # {}
               PROVE  FALSE
  OBVIOUS
<1>2. \A x, y \in Nat : x < y => <<x, y>> \in R
  BY DEF OpToRel
<1>3. IsWellFoundedOn(R, Nat)
  BY NatLessThanWellFounded, Zenon
<1>4. T \subseteq Nat
  OBVIOUS
<1> HIDE DEF R
<1>5. PICK m \in T : \A j \in T : <<j, m>> \notin R
  <2> HIDE DEF T
  <2> QED BY <1>1, <1>3, <1>4, WFMin
<1>6. m \in 1 .. n /\ m - 1 \in 0 .. n /\ m - 1 < m /\ m \in Nat /\ m - 1 \in Nat
  <2>1. m # 0
    BY <1>5
  <2> QED BY <1>5, <2>1
<1>7. m - 1 \in S
  <2>1. m - 1 \notin T
    BY <1>2, <1>5, <1>6
  <2> QED BY <1>6, <2>1
<1> QED BY <1>5, <1>6, <1>7

\* One more socket of the update queue is served, whatever the ones before led to.
Round(X) == UNION {IF r.ok THEN SockUpdate(r.s, Head(r.s.update)) ELSE {r} : r \in X}
Rounds(s, n, f) == f = [k \in 0 .. n |-> IF k = 0 THEN {Ok(s)} ELSE Round(f[k - 1])]

LEMMA RoundsExist ==
  ASSUME NEW s, NEW n \in Nat
  PROVE  \E f : Rounds(s, n, f)
<1> DEFINE S == {k \in 0 .. n : \E f : Rounds(s, k, f)}
<1>1. 0 \in S
  <2> DEFINE f == [k \in 0 .. 0 |-> {Ok(s)}]
  <2>1. \A k \in 0 .. 0 : k = 0
    OBVIOUS
  <2>2. f = [k \in 0 .. 0 |-> IF k = 0 THEN {Ok(s)} ELSE Round(f[k - 1])]
    BY <2>1
  <2> HIDE DEF f
  <2>3. Rounds(s, 0, f)
    BY <2>2 DEF Rounds
  <2> QED BY <2>3
<1>2. ASSUME NEW k \in 1 .. n, k - 1 \in S
      PROVE  k \in S
  <2>1. PICK g : Rounds(s, k - 1, g)
    BY <1>2
  <2>2. g = [j \in 0 .. k - 1 |-> IF j = 0 THEN {Ok(s)} ELSE Round(g[j - 1])]
    BY <2>1 DEF Rounds
  <2>3. \A j \in 0 .. k - 1 : g[j] = IF j = 0 THEN {Ok(s)} ELSE Round(g[j - 1])
    BY <2>2
  <2> DEFINE f == [j \in 0 .. k |-> IF j = k THEN Round(g[k - 1]) ELSE g[j]]
  <2>4. \A j \in 0 .. k : f[j] = IF j = k THEN Round(g[k - 1]) ELSE g[j]
    OBVIOUS
  <2>5. f = [j \in 0 .. k |-> f[j]]
    OBVIOUS
  <2> HIDE DEF f
  <2>6. ASSUME NEW j \in 0 .. k
        PROVE  f[j] = IF j = 0 THEN {Ok(s)} ELSE Round(f[j - 1])
    <3>1. CASE j = 0
      <4>1. j # k /\ j \in 0 .. k - 1
        BY <3>1
      <4> QED BY <2>3, <2>4, <3>1, <4>1
    <3>2. CASE j # 0
      <4>1. j - 1 \in 0 .. k /\ j - 1 # k
        BY <3>2
      <4>2. f[j - 1] = g[j - 1]
        BY <2>4, <4>1
      <4>3. CASE j = k
        BY <2>4, <3>2, <4>2, <4>3
      <4>4. CASE j # k
        <5>1. j \in 0 .. k - 1
          BY <4>4
        <5> QED BY <2>3, <2>4, <3>2, <4>2, <4>4, <5>1
      <4> QED BY <4>3, <4>4
    <3> QED BY <3>1, <3>2
  <2>7. f = [j \in 0 .. k |-> IF j = 0 THEN {Ok(s)} ELSE Round(f[j - 1])]
    BY <2>5, <2>6
  <2>8. Rounds(s, k, f)
    BY <2>7 DEF Rounds
  <2> QED BY <2>8
<1> HIDE DEF S
<1>3. 0 .. n \subseteq S
  BY <1>1, <1>2, Upward
<1>4. n \in S
  BY <1>3
<1> QED BY <1>4 DEF S

\* After all the rounds the queue is empty, or the kernel has refused.
UpdateDone(r, H) ==
    /\ Sound(r.s, H, phase)
    /\ \/ r.ok = TRUE /\ r.s.refused = FALSE /\ r.s.update = <<>>
       \/ r.ok = FALSE /\ r.s.refused = TRUE

LEMMA UpdateEventsIs ==
  ASSUME NEW s, NEW H, Sound(s, H, phase), NEW r, r \in UpdateEvents(s)
  PROVE  UpdateDone(r, H)
<1>1. s.update \in Seq(Objects)
  BY DEF Sound, Basic, PortState
<1> DEFINE n == Len(s.update)
           p == CHOOSE f : Rounds(s, n, f)
           Inv(x, k) == /\ Sound(x.s, H, phase)
                        /\ \/ x.ok = TRUE /\ x.s.refused = FALSE /\ Len(x.s.update) = n - k
                           \/ x.ok = FALSE /\ x.s.refused = TRUE
           S == {k \in 0 .. n : \A x \in p[k] : Inv(x, k)}
<1>2. UpdateEvents(s) = p[n]
  BY DEF UpdateEvents, Rounds, Round
<1>3. n \in Nat
  BY <1>1
<1>4. Rounds(s, n, p)
  BY <1>3, RoundsExist
<1> HIDE DEF p, n
<1>5. \A k \in 0 .. n : p[k] = IF k = 0 THEN {Ok(s)} ELSE Round(p[k - 1])
  BY <1>4 DEF Rounds
<1>6. 0 \in S
  <2>1. p[0] = {Ok(s)} /\ 0 \in 0 .. n
    BY <1>3, <1>5
  <2>2. ASSUME NEW x \in p[0]
        PROVE  Inv(x, 0)
    <3>1. x = Ok(s)
      BY <2>1
    <3>2. x.ok = TRUE /\ Sound(x.s, H, phase) /\ x.s.update = s.update /\ x.s.refused = FALSE
      BY <3>1, OkIs
    <3>3. Len(x.s.update) = n - 0
      BY <1>3, <3>2 DEF n
    <3> QED BY <3>2, <3>3
  <2> QED BY <2>1, <2>2
<1>7. ASSUME NEW k \in 1 .. n, k - 1 \in S
      PROVE  k \in S
  <2>1. k \in 0 .. n /\ k # 0
    BY <1>3
  <2>2. p[k] = Round(p[k - 1])
    BY <1>5, <2>1
  <2>3. ASSUME NEW x \in p[k]
        PROVE  Inv(x, k)
    <3>1. PICK y \in p[k - 1] : x \in IF y.ok THEN SockUpdate(y.s, Head(y.s.update)) ELSE {y}
      BY <2>2 DEF Round
    <3>2. Inv(y, k - 1)
      BY <1>7
    <3>3. CASE y.ok = FALSE
      <4>1. x = y
        BY <3>1, <3>3
      <4> QED BY <3>2, <3>3, <4>1
    <3>4. CASE y.ok = TRUE
      <4>1. x \in SockUpdate(y.s, Head(y.s.update))
        BY <3>1, <3>4
      <4>2. Sound(y.s, H, phase) /\ Len(y.s.update) = n - (k - 1)
        BY <3>2, <3>4
      <4>3. y.s.update \in Seq(Objects)
        BY <4>2 DEF Sound, Basic, PortState
      <4>4. y.s.update # <<>>
        <5>1. Len(y.s.update) # 0
          BY <1>3, <4>2
        <5> QED BY <5>1
      <4>5. Head(y.s.update) \in Objects /\ InQueue(y.s.update, Head(y.s.update))
        BY <4>3, <4>4 DEF InQueue
      <4>6. Updated(y.s, x, H)
        BY <4>1, <4>2, <4>5, SockUpdateIs
      <4>7. Len(y.s.update) - 1 = n - k
        BY <1>3, <4>2
      <4> QED BY <4>6, <4>7 DEF Updated
    <3> QED BY <3>2, <3>3, <3>4
  <2> QED BY <2>1, <2>3
<1> HIDE DEF S
<1>8. 0 .. n \subseteq S
  BY <1>3, <1>6, <1>7, Upward
<1>9. n \in S
  BY <1>3, <1>8
<1>10. Inv(r, n)
  BY <1>2, <1>9 DEF S
<1>11. Len(r.s.update) = n - n => r.s.update = <<>>
  <2>1. r.s.update \in Seq(Objects)
    BY <1>10 DEF Sound, Basic, PortState
  <2> QED BY <1>3, <2>1, EmptySeq
<1> QED BY <1>10, <1>11 DEF UpdateDone

\* What a critical section leaves to the m threads that poll.
Served(s, m, H) == Sound(s, H, phase) /\ (m > 0 => s.refused = TRUE \/ s.update = <<>>)

LEMMA UpdateIfPollingServes ==
  ASSUME NEW s, NEW m \in Nat, NEW H, Sound(s, H, phase), NEW r, r \in UpdateIfPolling(s, m)
  PROVE  Served(r.s, m, H)
<1>1. CASE m > 0
  <2>1. r \in UpdateEvents(s)
    BY <1>1 DEF UpdateIfPolling
  <2>2. UpdateDone(r, H)
    BY <2>1, UpdateEventsIs
  <2> QED BY <2>2 DEF UpdateDone, Served
<1>2. CASE ~(m > 0)
  <2>1. r = [s |-> s, ok |-> TRUE]
    BY <1>2 DEF UpdateIfPolling
  <2>2. r.s = s
    BY <2>1
  <2> QED BY <1>2, <2>2 DEF Served
<1> QED BY <1>1, <1>2

-----------------------------------------------------------------------------
(* port__feed_events, object after object *)

\* From x on, the packet of o is fed if it is in the hand.
Fed(x, o, hand) ==
    IF o \notin hand THEN x
    ELSE LET f == Feed(x.s, o) IN [s |-> f.s, n |-> x.n + f.n]

Feeds(s, hand, n, f) ==
    f = [k \in 0 .. n |-> IF k = 0 THEN [s |-> s, n |-> 0] ELSE Fed(f[k - 1], k, hand)]

LEMMA FeedsExist ==
  ASSUME NEW s, NEW hand, NEW n \in Nat
  PROVE  \E f : Feeds(s, hand, n, f)
<1> DEFINE S == {k \in 0 .. n : \E f : Feeds(s, hand, k, f)}
<1>1. 0 \in S
  <2> DEFINE f == [k \in 0 .. 0 |-> [s |-> s, n |-> 0]]
  <2>1. \A k \in 0 .. 0 : k = 0
    OBVIOUS
  <2>2. f = [k \in 0 .. 0 |-> IF k = 0 THEN [s |-> s, n |-> 0] ELSE Fed(f[k - 1], k, hand)]
    BY <2>1
  <2> HIDE DEF f
  <2>3. Feeds(s, hand, 0, f)
    BY <2>2 DEF Feeds
  <2> QED BY <2>3
<1>2. ASSUME NEW k \in 1 .. n, k - 1 \in S
      PROVE  k \in S
  <2>1. PICK g : Feeds(s, hand, k - 1, g)
    BY <1>2
  <2>2. g = [j \in 0 .. k - 1 |-> IF j = 0 THEN [s |-> s, n |-> 0] ELSE Fed(g[j - 1], j, hand)]
    BY <2>1 DEF Feeds
  <2>3. \A j \in 0 .. k - 1 : g[j] = IF j = 0 THEN [s |-> s, n |-> 0] ELSE Fed(g[j - 1], j, hand)
    BY <2>2
  <2> DEFINE f == [j \in 0 .. k |-> IF j = k THEN Fed(g[k - 1], k, hand) ELSE g[j]]
  <2>4. \A j \in 0 .. k : f[j] = IF j = k THEN Fed(g[k - 1], k, hand) ELSE g[j]
    OBVIOUS
  <2>5. f = [j \in 0 .. k |-> f[j]]
    OBVIOUS
  <2> HIDE DEF f
  <2>6. ASSUME NEW j \in 0 .. k
        PROVE  f[j] = IF j = 0 THEN [s |-> s, n |-> 0] ELSE Fed(f[j - 1], j, hand)
    <3>1. CASE j = 0
      <4>1. j # k /\ j \in 0 .. k - 1
        BY <3>1
      <4> QED BY <2>3, <2>4, <3>1, <4>1
    <3>2. CASE j # 0
      <4>1. j - 1 \in 0 .. k /\ j - 1 # k
        BY <3>2
      <4>2. f[j - 1] = g[j - 1]
        BY <2>4, <4>1
      <4>3. CASE j = k
        BY <2>4, <3>2, <4>2, <4>3
      <4>4. CASE j # k
        <5>1. j \in 0 .. k - 1
          BY <4>4
        <5> QED BY <2>3, <2>4, <3>2, <4>2, <4>4, <5>1
      <4> QED BY <4>3, <4>4
    <3> QED BY <3>1, <3>2
  <2>7. f = [j \in 0 .. k |-> IF j = 0 THEN [s |-> s, n |-> 0] ELSE Fed(f[j - 1], j, hand)]
    BY <2>5, <2>6
  <2>8. Feeds(s, hand, k, f)
    BY <2>7 DEF Feeds
  <2> QED BY <2>8
<1> HIDE DEF S
<1>3. 0 .. n \subseteq S
  BY <1>1, <1>2, Upward
<1>4. n \in S
  BY <1>3
<1> QED BY <1>4 DEF S

LEMMA FeedEventsIs ==
  ASSUME NEW s, NEW H, Sound(s, H, phase), NEW hand \in SUBSET H,
         NEW f, f = FeedEvents(s, hand)
  PROVE  Sound(f.s, H \ hand, phase) /\ f.s.refused = s.refused
<1>0. PICK n \in Nat : n = Cardinality(Objects)
  BY ObjectsAssumption, FS_CardinalityType
<1>1. \A o : o \in Objects <=> o \in 1 .. n
  BY <1>0, ObjectsAssumption
<1> DEFINE p == CHOOSE g : Feeds(s, hand, n, g)
           Left(k) == H \ {o \in hand : o <= k}
           S == {k \in 0 .. n : Sound(p[k].s, Left(k), phase) /\ p[k].s.refused = s.refused}
<1>2. f = p[n]
  <2>1. {0} \cup Objects = 0 .. n
    BY <1>1
  <2> QED BY <1>0, <2>1 DEF FeedEvents, Feeds, Fed
<1>3. Feeds(s, hand, n, p)
  BY FeedsExist
<1> HIDE DEF p
<1>4. \A k \in 0 .. n : p[k] = IF k = 0 THEN [s |-> s, n |-> 0] ELSE Fed(p[k - 1], k, hand)
  BY <1>3 DEF Feeds
<1>5. \A o \in hand : o \in Nat /\ o # 0 /\ o <= n
  <2>1. \A o \in hand : o \in 1 .. n
    BY <1>1 DEF Sound
  <2> QED BY <2>1
<1>6. 0 \in S
  <2>1. p[0] = [s |-> s, n |-> 0] /\ 0 \in 0 .. n
    BY <1>4
  <2>2. p[0].s = s
    BY <2>1
  <2>3. Left(0) = H
    BY <1>5
  <2> HIDE DEF Left
  <2> QED BY <2>1, <2>2, <2>3
<1>7. ASSUME NEW k \in 1 .. n, k - 1 \in S
      PROVE  k \in S
  <2>1. k \in 0 .. n /\ k # 0 /\ k \in Objects
    BY <1>1
  <2>2. p[k] = Fed(p[k - 1], k, hand)
    BY <1>4, <2>1
  <2>3. Sound(p[k - 1].s, Left(k - 1), phase) /\ p[k - 1].s.refused = s.refused
    BY <1>7
  <2>4. CASE k \notin hand
    <3>1. p[k] = p[k - 1]
      BY <2>2, <2>4 DEF Fed
    <3>2. \A o \in hand : o <= k <=> o <= k - 1
      BY <1>5, <2>4
    <3>3. Left(k) = Left(k - 1)
      BY <3>2
    <3> HIDE DEF Left
    <3> QED BY <2>1, <2>3, <3>1, <3>3
  <2>5. CASE k \in hand
    <3>1. PICK x : x = p[k - 1].s
      OBVIOUS
    <3>2. PICK g : g = Feed(x, k)
      OBVIOUS
    <3>3. p[k] = [s |-> g.s, n |-> p[k - 1].n + g.n]
      BY <2>2, <2>5, <3>1, <3>2 DEF Fed
    <3>4. p[k].s = g.s
      BY <3>3
    <3>5. k \in Left(k - 1) /\ Left(k) = Left(k - 1) \ {k}
      <4>1. \A o \in hand : o <= k <=> o <= k - 1 \/ o = k
        BY <1>5
      <4>2. ~(k <= k - 1)
        OBVIOUS
      <4> QED BY <2>5, <4>1, <4>2
    <3> HIDE DEF Left
    <3>6. Sound(g.s, Left(k - 1) \ {k}, phase) /\ g.s.refused = x.refused
      BY <2>3, <3>1, <3>2, <3>5, FeedIs
    <3> QED BY <2>1, <2>3, <3>1, <3>4, <3>5, <3>6
  <2> QED BY <2>4, <2>5
<1> HIDE DEF S
<1>8. 0 .. n \subseteq S
  BY <1>6, <1>7, Upward
<1>9. n \in S
  BY <1>8
<1>10. Left(n) = H \ hand
  BY <1>5
<1> HIDE DEF Left
<1> QED BY <1>2, <1>9, <1>10 DEF S

-----------------------------------------------------------------------------
(* port_delete, object after object *)

Deletes(s, n, f) ==
    f = [k \in 0 .. n |-> IF k = 0 THEN s
                          ELSE IF sock[k].used THEN Delete(f[k - 1], k, TRUE) ELSE f[k - 1]]

LEMMA DeletesExist ==
  ASSUME NEW s, NEW n \in Nat
  PROVE  \E f : Deletes(s, n, f)
<1> DEFINE S == {k \in 0 .. n : \E f : Deletes(s, k, f)}
<1>1. 0 \in S
  <2> DEFINE f == [k \in 0 .. 0 |-> s]
  <2>1. \A k \in 0 .. 0 : k = 0
    OBVIOUS
  <2>2. f = [k \in 0 .. 0 |-> IF k = 0 THEN s ELSE IF sock[k].used THEN Delete(f[k - 1], k, TRUE) ELSE f[k - 1]]
    BY <2>1
  <2> HIDE DEF f
  <2>3. Deletes(s, 0, f)
    BY <2>2 DEF Deletes
  <2> QED BY <2>3
<1>2. ASSUME NEW k \in 1 .. n, k - 1 \in S
      PROVE  k \in S
  <2>1. PICK g : Deletes(s, k - 1, g)
    BY <1>2
  <2>2. g = [j \in 0 .. k - 1 |-> IF j = 0 THEN s ELSE IF sock[j].used THEN Delete(g[j - 1], j, TRUE) ELSE g[j - 1]]
    BY <2>1 DEF Deletes
  <2>3. \A j \in 0 .. k - 1 : g[j] = IF j = 0 THEN s ELSE IF sock[j].used THEN Delete(g[j - 1], j, TRUE) ELSE g[j - 1]
    BY <2>2
  <2> DEFINE f == [j \in 0 .. k |-> IF j = k THEN IF sock[k].used THEN Delete(g[k - 1], k, TRUE) ELSE g[k - 1] ELSE g[j]]
  <2>4. \A j \in 0 .. k : f[j] = IF j = k THEN IF sock[k].used THEN Delete(g[k - 1], k, TRUE) ELSE g[k - 1] ELSE g[j]
    OBVIOUS
  <2>5. f = [j \in 0 .. k |-> f[j]]
    OBVIOUS
  <2> HIDE DEF f
  <2>6. ASSUME NEW j \in 0 .. k
        PROVE  f[j] = IF j = 0 THEN s ELSE IF sock[j].used THEN Delete(f[j - 1], j, TRUE) ELSE f[j - 1]
    <3>1. CASE j = 0
      <4>1. j # k /\ j \in 0 .. k - 1
        BY <3>1
      <4> QED BY <2>3, <2>4, <3>1, <4>1
    <3>2. CASE j # 0
      <4>1. j - 1 \in 0 .. k /\ j - 1 # k
        BY <3>2
      <4>2. f[j - 1] = g[j - 1]
        BY <2>4, <4>1
      <4>3. CASE j = k
        BY <2>4, <3>2, <4>2, <4>3
      <4>4. CASE j # k
        <5>1. j \in 0 .. k - 1
          BY <4>4
        <5> QED BY <2>3, <2>4, <3>2, <4>2, <4>4, <5>1
      <4> QED BY <4>3, <4>4
    <3> QED BY <3>1, <3>2
  <2>7. f = [j \in 0 .. k |-> IF j = 0 THEN s ELSE IF sock[j].used THEN Delete(f[j - 1], j, TRUE) ELSE f[j - 1]]
    BY <2>5, <2>6
  <2>8. Deletes(s, k, f)
    BY <2>7 DEF Deletes
  <2> QED BY <2>8
<1> HIDE DEF S
<1>3. 0 .. n \subseteq S
  BY <1>1, <1>2, Upward
<1>4. n \in S
  BY <1>3
<1> QED BY <1>4 DEF S

-----------------------------------------------------------------------------
(* Threads *)

ThreadRec == [pc : {"idle", "entering", "polling", "back"}, hand : SUBSET Objects, fails : BOOLEAN]

\* The packets in the hands of threads, and the threads active_poll_count counts.
Hands == UNION {th[t].hand : t \in Threads}
Busy == {t \in Threads : th[t].pc \in {"polling", "back"}}

ThreadsOk ==
    /\ th \in [Threads -> ThreadRec]
    /\ \A t, u \in Threads : t # u => th[t].hand \cap th[u].hand = {}
    /\ \A t \in Threads : th[t].pc # "back" => th[t].hand = {}

LEMMA ThreadIs ==
  ASSUME ThreadsOk, NEW t \in Threads
  PROVE  /\ th[t] \in ThreadRec /\ th[t].hand \subseteq Objects /\ th[t].hand \subseteq Hands
         /\ th[t].pc \in {"idle", "entering", "polling", "back"}
<1>1. th[t] \in ThreadRec
  BY DEF ThreadsOk
<1>2. th[t].hand \subseteq Hands
  BY DEF Hands
<1> QED BY <1>1, <1>2 DEF ThreadRec

LEMMA HandsIn ==
  ASSUME ThreadsOk
  PROVE  Hands \subseteq Objects
  BY ThreadIs DEF Hands

\* One thread goes somewhere else, with the packets of hand.
Moves(t, pc, hand) ==
    /\ th' \in [Threads -> ThreadRec]
    /\ th'[t].pc = pc /\ th'[t].hand = hand
    /\ \A u \in Threads \ {t} : th'[u] = th[u]

LEMMA GotoMoves ==
  ASSUME ThreadsOk, NEW t \in Threads, NEW pc \in {"idle", "entering", "polling"}, Goto(t, pc)
  PROVE  Moves(t, pc, {})
<1> DEFINE y == [pc |-> pc, hand |-> {}, fails |-> FALSE]
<1>1. y \in ThreadRec /\ y.pc = pc /\ y.hand = {}
  BY DEF ThreadRec
<1>2. th' = [th EXCEPT ![t] = y] /\ th \in [Threads -> ThreadRec]
  BY DEF Goto, ThreadsOk
<1> HIDE DEF y
<1> QED BY <1>1, <1>2 DEF Moves

\* The packets it had are gone, those it has come from nobody's hands.
LEMMA MovesOk ==
  ASSUME ThreadsOk, NEW t \in Threads, NEW pc, NEW hand, Moves(t, pc, hand),
         hand \cap Hands = {}, pc # "back" => hand = {}
  PROVE  ThreadsOk' /\ Hands' = (Hands \ th[t].hand) \cup hand
<1>1. /\ \A u \in Threads \ {t} : th'[u] = th[u]
      /\ th'[t].pc = pc /\ th'[t].hand = hand /\ th' \in [Threads -> ThreadRec]
  BY DEF Moves
<1>2. \A u, v \in Threads : u # v => th[u].hand \cap th[v].hand = {}
  BY DEF ThreadsOk
<1>3. \A u \in Threads : th[u].hand \subseteq Hands
  BY DEF Hands
<1>4. ASSUME NEW u \in Threads, NEW v \in Threads, u # v
      PROVE  th'[u].hand \cap th'[v].hand = {}
  <2>1. CASE u = t
    <3>1. th'[v] = th[v] /\ th'[u].hand = hand
      BY <1>1, <1>4, <2>1
    <3> QED BY <1>3, <3>1
  <2>2. CASE v = t
    <3>1. th'[u] = th[u] /\ th'[v].hand = hand
      BY <1>1, <1>4, <2>2
    <3> QED BY <1>3, <3>1
  <2>3. CASE u # t /\ v # t
    <3>1. th'[u] = th[u] /\ th'[v] = th[v]
      BY <1>1, <2>3
    <3> QED BY <1>2, <1>4, <3>1
  <2> QED BY <2>1, <2>2, <2>3
<1>5. ASSUME NEW u \in Threads, th'[u].pc # "back"
      PROVE  th'[u].hand = {}
  <2>1. CASE u = t
    BY <1>1, <1>5, <2>1
  <2>2. CASE u # t
    <3>1. th'[u] = th[u]
      BY <1>1, <2>2
    <3> QED BY <1>5, <3>1 DEF ThreadsOk
  <2> QED BY <2>1, <2>2
<1>6. ThreadsOk'
  BY <1>1, <1>4, <1>5 DEF ThreadsOk
<1>7. ASSUME NEW o
      PROVE  o \in Hands' <=> o \in (Hands \ th[t].hand) \cup hand
  <2>1. o \in Hands' <=> \E u \in Threads : o \in th'[u].hand
    BY DEF Hands
  <2>2. o \in Hands <=> \E u \in Threads : o \in th[u].hand
    BY DEF Hands
  <2>3. ASSUME NEW u \in Threads, o \in th'[u].hand
        PROVE  o \in (Hands \ th[t].hand) \cup hand
    <3>1. CASE u = t
      BY <1>1, <2>3, <3>1
    <3>2. CASE u # t
      <4>1. o \in th[u].hand
        BY <1>1, <2>3, <3>2
      <4>2. o \notin th[t].hand
        BY <1>2, <3>2, <4>1
      <4> QED BY <2>2, <4>1, <4>2
    <3> QED BY <3>1, <3>2
  <2>4. ASSUME o \in hand
        PROVE  \E u \in Threads : o \in th'[u].hand
    BY <1>1, <2>4
  <2>5. ASSUME o \in Hands, o \notin th[t].hand
        PROVE  \E u \in Threads : o \in th'[u].hand
    <3>1. PICK u \in Threads : o \in th[u].hand
      BY <2>2, <2>5
    <3>2. u # t
      BY <2>5, <3>1
    <3>3. th'[u] = th[u]
      BY <1>1, <3>2
    <3> QED BY <3>1, <3>3
  <2> QED BY <2>1, <2>3, <2>4, <2>5
<1>8. Hands' = (Hands \ th[t].hand) \cup hand
  BY <1>7
<1> QED BY <1>6, <1>8

LEMMA BusyIs ==
  IsFiniteSet(Busy) /\ Cardinality(Busy) \in Nat
<1>1. Busy \subseteq Threads
  BY DEF Busy
<1>2. IsFiniteSet(Busy)
  BY <1>1, FS_Subset, ThreadsAssumption
<1> QED BY <1>2, FS_CardinalityType

\* How a move changes the number of those who are busy.
LEMMA MovesBusy ==
  ASSUME NEW t \in Threads, NEW pc, NEW hand, Moves(t, pc, hand)
  PROVE  /\ t \in Busy /\ pc \in {"polling", "back"} => Busy' = Busy
         /\ t \notin Busy /\ pc \notin {"polling", "back"} => Busy' = Busy
         /\ t \in Busy /\ pc \notin {"polling", "back"}
              => Cardinality(Busy') = Cardinality(Busy) - 1 /\ Cardinality(Busy) # 0
         /\ t \notin Busy /\ pc \in {"polling", "back"}
              => Cardinality(Busy') = Cardinality(Busy) + 1
<1>1. /\ \A u \in Threads \ {t} : th'[u] = th[u]
      /\ th'[t].pc = pc
  BY DEF Moves
<1>2. \A u \in Threads \ {t} : u \in Busy' <=> u \in Busy
  BY <1>1 DEF Busy
<1>3. t \in Busy' <=> pc \in {"polling", "back"}
  BY <1>1 DEF Busy
<1>4. Busy \subseteq Threads /\ Busy' \subseteq Threads
  BY DEF Busy
<1>5. CASE t \in Busy /\ pc \in {"polling", "back"}
  <2>1. Busy' = Busy
    BY <1>2, <1>3, <1>4, <1>5
  <2> QED BY <1>5, <2>1
<1>6. CASE t \notin Busy /\ pc \notin {"polling", "back"}
  <2>1. Busy' = Busy
    BY <1>2, <1>3, <1>4, <1>6
  <2> QED BY <1>6, <2>1
<1>7. CASE t \in Busy /\ pc \notin {"polling", "back"}
  <2>1. Busy' = Busy \ {t}
    BY <1>2, <1>3, <1>4, <1>7
  <2>2. Cardinality(Busy') = Cardinality(Busy) - 1
    BY <1>7, <2>1, BusyIs, FS_RemoveElement
  <2>3. Cardinality(Busy) # 0
    BY <1>7, BusyIs, FS_EmptySet
  <2> QED BY <1>7, <2>2, <2>3
<1>8. CASE t \notin Busy /\ pc \in {"polling", "back"}
  <2>1. Busy' = Busy \cup {t}
    BY <1>2, <1>3, <1>4, <1>8
  <2>2. Cardinality(Busy') = Cardinality(Busy) + 1
    BY <1>8, <2>1, BusyIs, FS_AddElement
  <2> QED BY <1>8, <2>2
<1> QED BY <1>5, <1>6, <1>7, <1>8

-----------------------------------------------------------------------------
(* The invariant *)

Phases == {"open", "unlisted", "closed", "deleted", "aborted"}

\* While a thread polls nothing waits, unless the kernel has refused.
Quiet == active > 0 /\ ~refused => update = <<>>

Gone == phase = "deleted" => \A o \in Objects : sock[o] = Unused

IInv ==
    /\ phase \in Phases /\ open \subseteq Sockets
    /\ ThreadsOk
    /\ active = Cardinality(Busy)
    /\ Sound(State, Hands, phase)
    /\ Quiet
    /\ Gone

LEMMA StateIs ==
  /\ State.sock = sock /\ State.update = update /\ State.deleted = deleted
  /\ State.groups = groups /\ State.packets = packets /\ State.refused = refused
  BY DEF State

LEMMA BecomesIs ==
  ASSUME NEW H, NEW ph, NEW s, Sound(s, H, ph), Becomes(s)
  PROVE  State' = s
<1>1. s \in PortState
  BY DEF Sound, Basic
<1>2. s = [sock |-> s.sock, update |-> s.update, deleted |-> s.deleted,
           groups |-> s.groups, packets |-> s.packets, refused |-> s.refused]
  BY <1>1 DEF PortState
<1> QED BY <1>2 DEF Becomes, State

LEMMA ActiveIs ==
  ASSUME IInv
  PROVE  active \in Nat
  BY BusyIs DEF IInv

-----------------------------------------------------------------------------
(* The moves of one thread *)

LEMMA GotoOutside ==
  ASSUME ThreadsOk, NEW t \in Threads, th[t].pc \in {"idle", "entering"},
         NEW pc \in {"idle", "entering"}, Goto(t, pc)
  PROVE  ThreadsOk' /\ Hands' = Hands /\ Busy' = Busy
<1>1. Moves(t, pc, {})
  BY GotoMoves
<1>2. th[t].hand = {} /\ t \notin Busy
  BY DEF ThreadsOk, Busy
<1>3. ThreadsOk' /\ Hands' = (Hands \ th[t].hand) \cup {}
  BY <1>1, MovesOk
<1>4. Busy' = Busy
  BY <1>1, <1>2, MovesBusy
<1> QED BY <1>2, <1>3, <1>4

LEMMA GotoPolling ==
  ASSUME ThreadsOk, NEW t \in Threads, th[t].pc \in {"idle", "entering"}, Goto(t, "polling")
  PROVE  ThreadsOk' /\ Hands' = Hands /\ Cardinality(Busy') = Cardinality(Busy) + 1
<1>1. Moves(t, "polling", {})
  BY GotoMoves
<1>2. th[t].hand = {} /\ t \notin Busy
  BY DEF ThreadsOk, Busy
<1>3. ThreadsOk' /\ Hands' = (Hands \ th[t].hand) \cup {}
  BY <1>1, MovesOk
<1>4. Cardinality(Busy') = Cardinality(Busy) + 1
  BY <1>1, <1>2, MovesBusy
<1> QED BY <1>2, <1>3, <1>4

LEMMA GotoOut ==
  ASSUME ThreadsOk, NEW t \in Threads, th[t].pc = "back", Goto(t, "idle")
  PROVE  /\ ThreadsOk' /\ Hands' = Hands \ th[t].hand
         /\ Cardinality(Busy') = Cardinality(Busy) - 1 /\ Cardinality(Busy) # 0
<1>1. Moves(t, "idle", {})
  BY GotoMoves
<1>2. t \in Busy
  BY DEF Busy
<1>3. ThreadsOk' /\ Hands' = (Hands \ th[t].hand) \cup {}
  BY <1>1, MovesOk
<1>4. Cardinality(Busy') = Cardinality(Busy) - 1 /\ Cardinality(Busy) # 0
  BY <1>1, <1>2, MovesBusy
<1> QED BY <1>3, <1>4

LEMMA GotoAgain ==
  ASSUME ThreadsOk, NEW t \in Threads, th[t].pc = "back", Goto(t, "polling")
  PROVE  /\ ThreadsOk' /\ Hands' = Hands \ th[t].hand /\ Busy' = Busy /\ Cardinality(Busy) # 0
<1>1. Moves(t, "polling", {})
  BY GotoMoves
<1>2. t \in Busy
  BY DEF Busy
<1>3. ThreadsOk' /\ Hands' = (Hands \ th[t].hand) \cup {}
  BY <1>1, MovesOk
<1>4. Busy' = Busy
  BY <1>1, <1>2, MovesBusy
<1>5. Cardinality(Busy) # 0
  BY <1>2, BusyIs, FS_EmptySet
<1> QED BY <1>3, <1>4, <1>5

-----------------------------------------------------------------------------
(* The steps *)

LEMMA PortSame ==
  ASSUME UNCHANGED port
  PROVE  State' = State /\ sock' = sock /\ update' = update /\ refused' = refused
  BY DEF port, State

LEMMA EnterPortStep ==
  ASSUME IInv, Alive, NEW t \in Threads, EnterPort(t)
  PROVE  IInv'
<1>1. th[t].pc = "idle" /\ Goto(t, "entering") /\ UNCHANGED port /\ active' = active
      /\ open' = open /\ phase' = phase
  BY DEF EnterPort
<1>2. ThreadsOk' /\ Hands' = Hands /\ Busy' = Busy
  BY <1>1, GotoOutside DEF IInv
<1>3. State' = State /\ sock' = sock /\ update' = update /\ refused' = refused
  BY <1>1, PortSame
<1>4. Sound(State, Hands, phase)'
  BY <1>1, <1>2, <1>3 DEF IInv
<1>5. Quiet' /\ Gone'
  BY <1>1, <1>3 DEF IInv, Quiet, Gone
<1> QED BY <1>1, <1>2, <1>4, <1>5 DEF IInv

LEMMA CtlFailsStep ==
  ASSUME IInv, Alive, NEW t \in Threads, CtlFails(t)
  PROVE  IInv'
<1>1. th[t].pc = "entering" /\ Goto(t, "idle") /\ UNCHANGED port /\ active' = active
      /\ open' = open /\ phase' = phase
  BY DEF CtlFails, Inside
<1>2. ThreadsOk' /\ Hands' = Hands /\ Busy' = Busy
  BY <1>1, GotoOutside DEF IInv
<1>3. State' = State /\ sock' = sock /\ update' = update /\ refused' = refused
  BY <1>1, PortSame
<1>4. Sound(State, Hands, phase)'
  BY <1>1, <1>2, <1>3 DEF IInv
<1>5. Quiet' /\ Gone'
  BY <1>1, <1>3 DEF IInv, Quiet, Gone
<1> QED BY <1>1, <1>2, <1>4, <1>5 DEF IInv

\* A step that leaves the threads alone.
LEMMA ThreadsSame ==
  ASSUME th' = th, ThreadsOk
  PROVE  ThreadsOk' /\ Hands' = Hands /\ Busy' = Busy
  BY DEF ThreadsOk, Hands, Busy

LEMMA OtherPhase ==
  ASSUME NEW s, NEW H, NEW ph, NEW new, Sound(s, H, ph),
         new \in {"open", "unlisted"} => ph \in {"open", "unlisted"},
         new = "closed" => s.packets = {}
  PROVE  Sound(s, H, new)
<1>1. ASSUME NEW o \in Objects
      PROVE  ObjectOk(s, o, H, new)
  <2>1. ObjectOk(s, o, H, ph)
    BY DEF Sound
  <2> QED BY <2>1 DEF ObjectOk
<1> QED BY <1>1 DEF Sound

LEMMA CtlAddAssertsStep ==
  ASSUME IInv, Alive, NEW t \in Threads, CtlAddAsserts(t)
  PROVE  IInv'
<1>1. phase' = "aborted" /\ UNCHANGED port /\ active' = active /\ open' = open /\ th' = th
  BY DEF CtlAddAsserts
<1>2. ThreadsOk' /\ Hands' = Hands /\ Busy' = Busy
  BY <1>1, ThreadsSame DEF IInv
<1>3. State' = State /\ sock' = sock /\ update' = update /\ refused' = refused
  BY <1>1, PortSame
<1>4. Sound(State, Hands, "aborted")
  BY OtherPhase DEF IInv
<1>5. Sound(State, Hands, phase)'
  BY <1>1, <1>2, <1>3, <1>4
<1>6. Quiet' /\ Gone'
  BY <1>1, <1>3 DEF IInv, Quiet, Gone
<1> QED BY <1>1, <1>2, <1>5, <1>6 DEF IInv, Phases

LEMMA UnlistStep ==
  ASSUME IInv, Alive, Unlist
  PROVE  IInv'
<1>1. phase = "open" /\ phase' = "unlisted" /\ UNCHANGED port /\ active' = active /\ open' = open
      /\ th' = th
  BY DEF Unlist
<1>2. ThreadsOk' /\ Hands' = Hands /\ Busy' = Busy
  BY <1>1, ThreadsSame DEF IInv
<1>3. State' = State /\ sock' = sock /\ update' = update /\ refused' = refused
  BY <1>1, PortSame
<1>4. Sound(State, Hands, "unlisted")
  BY <1>1, OtherPhase DEF IInv
<1>5. Sound(State, Hands, phase)'
  BY <1>1, <1>2, <1>3, <1>4
<1>6. Quiet' /\ Gone'
  BY <1>1, <1>3 DEF IInv, Quiet, Gone
<1> QED BY <1>1, <1>2, <1>5, <1>6 DEF IInv, Phases

\* The packets that nobody has taken yet are gone with the IOCP.
LEMMA PortCloseStep ==
  ASSUME IInv, Alive, PortClose
  PROVE  IInv'
<1>1. /\ phase' = "closed" /\ packets' = {} /\ th' = th /\ open' = open /\ active' = active
      /\ sock' = sock /\ update' = update /\ deleted' = deleted /\ groups' = groups
      /\ refused' = refused
  BY DEF PortClose
<1>2. ThreadsOk' /\ Hands' = Hands /\ Busy' = Busy
  BY <1>1, ThreadsSame DEF IInv
<1>3. PICK t : t = State'
  OBVIOUS
<1>4. PICK s : s = State
  OBVIOUS
<1>5. /\ s.sock = t.sock /\ s.update = t.update /\ s.deleted = t.deleted /\ s.groups = t.groups
      /\ s.refused = t.refused /\ t.packets = {}
      /\ t = [sock |-> t.sock, update |-> t.update, deleted |-> t.deleted, groups |-> t.groups,
              packets |-> t.packets, refused |-> t.refused]
  BY <1>1, <1>3, <1>4 DEF State
<1>6. Sound(s, Hands, phase)
  BY <1>4 DEF IInv
<1>7. Sound(t, Hands, "closed")
  <2>1. Basic(s) /\ Packed(s.groups, Count(s)) /\ Hands \subseteq Objects
    BY <1>6 DEF Sound
  <2>2. Basic(t)
    BY <1>5, <2>1 DEF Basic, PortState
  <2>3. Count(t) = Count(s)
    BY <1>5 DEF Count, Members
  <2>4. ASSUME NEW o \in Objects
        PROVE  ObjectOk(t, o, Hands, "closed")
    <3>1. ObjectOk(s, o, Hands, phase)
      BY <1>6 DEF Sound
    <3> QED BY <1>5, <3>1 DEF ObjectOk
  <2> QED BY <1>5, <2>1, <2>2, <2>3, <2>4 DEF Sound
<1>8. Sound(State, Hands, phase)'
  BY <1>1, <1>2, <1>3, <1>7
<1>9. Quiet' /\ Gone'
  BY <1>1 DEF IInv, Quiet, Gone
<1> QED BY <1>1, <1>2, <1>8, <1>9 DEF IInv, Phases

\* A completion is posted.
LEMMA SocketReadyStep ==
  ASSUME IInv, Alive, NEW o \in Objects, SocketReady(o)
  PROVE  IInv'
<1>1. /\ sock[o].io = {"pending"}
      /\ active' = active /\ open' = open /\ phase' = phase /\ th' = th
  BY DEF SocketReady
<1>2. PICK e \in (sock[o].pending \cap Known) \cup {"err"} : Becomes(Complete(State, o, {e}))
  BY DEF SocketReady
<1>3. e \in Known
  BY <1>2 DEF Known
<1>4. PICK t : t = Complete(State, o, {e})
  OBVIOUS
<1>5. Sound(t, Hands, phase) /\ t.update = State.update /\ t.refused = State.refused
  <2>1. State.sock[o].io = {"pending"}
    BY <1>1, StateIs
  <2> QED BY <1>3, <1>4, <2>1, CompleteSound DEF IInv
<1>6. State' = t
  BY <1>2, <1>4, <1>5, BecomesIs
<1>7. update' = update /\ refused' = refused
  BY <1>2, <1>4, <1>5, StateIs DEF Becomes
<1>8. ThreadsOk' /\ Hands' = Hands /\ Busy' = Busy
  BY <1>1, ThreadsSame DEF IInv
<1>9. Sound(State, Hands, phase)'
  BY <1>1, <1>5, <1>6, <1>8
<1>10. Quiet' /\ Gone'
  BY <1>1, <1>7 DEF IInv, Quiet, Gone, Alive
<1> QED BY <1>1, <1>8, <1>9, <1>10 DEF IInv

LEMMA CloseSocketStep ==
  ASSUME IInv, Alive, NEW x \in Sockets, CloseSocket(x)
  PROVE  IInv'
<1> DEFINE hit == {o \in Objects : sock[o].socket = x /\ sock[o].io = {"pending"}}
<1>1. /\ open' = open \ {x} /\ active' = active /\ phase' = phase /\ th' = th
  BY DEF CloseSocket
<1>2. Becomes(Closed(State, hit))
  BY StateIs DEF CloseSocket, Closed
<1>3. hit \in SUBSET Objects /\ \A o \in hit : State.sock[o].io = {"pending"}
  BY StateIs
<1> HIDE DEF hit
<1>4. PICK t : t = Closed(State, hit)
  OBVIOUS
<1>5. Sound(t, Hands, phase) /\ t.update = State.update /\ t.refused = State.refused
  BY <1>3, <1>4, ClosedSound DEF IInv
<1>6. State' = t
  BY <1>2, <1>4, <1>5, BecomesIs
<1>7. update' = update /\ refused' = refused
  BY <1>2, <1>4, <1>5, StateIs DEF Becomes
<1>8. ThreadsOk' /\ Hands' = Hands /\ Busy' = Busy
  BY <1>1, ThreadsSame DEF IInv
<1>9. Sound(State, Hands, phase)'
  BY <1>1, <1>5, <1>6, <1>8
<1>10. Quiet' /\ Gone'
  BY <1>1, <1>7 DEF IInv, Quiet, Gone, Alive
<1> QED BY <1>1, <1>8, <1>9, <1>10 DEF IInv

\* epoll_ctl: what its change leads to, when those who poll are served.
LEMMA CtlEnds ==
  ASSUME IInv, Alive, NEW t \in Threads, th[t].pc = "entering", Goto(t, "idle"),
         active' = active, open' = open, phase' = phase,
         NEW s, Sound(s, Hands, phase), Becomes(s),
         active > 0 /\ s.refused # TRUE => s.update = <<>>
  PROVE  IInv'
<1>1. ThreadsOk' /\ Hands' = Hands /\ Busy' = Busy
  BY GotoOutside DEF IInv
<1>2. State' = s
  BY BecomesIs
<1>3. Sound(State, Hands, phase)'
  BY <1>1, <1>2
<1>4. update' = s.update /\ refused' = s.refused
  BY DEF Becomes
<1>5. Quiet' /\ Gone'
  BY <1>4 DEF Quiet, Gone, Alive
<1> QED BY <1>1, <1>3, <1>5 DEF IInv

LEMMA ServedIs ==
  ASSUME NEW s, Sound(s, Hands, phase), active \in Nat, NEW r, r \in UpdateIfPolling(s, active)
  PROVE  Sound(r.s, Hands, phase) /\ (active > 0 /\ r.s.refused # TRUE => r.s.update = <<>>)
<1>1. Served(r.s, active, Hands)
  BY UpdateIfPollingServes
<1> QED BY <1>1 DEF Served

LEMMA CtlAddStep ==
  ASSUME IInv, Alive, NEW t \in Threads, NEW x \in Sockets, NEW mask \in Masks, CtlAdd(t, x, mask)
  PROVE  IInv'
<1>1. th[t].pc = "entering" /\ Goto(t, "idle") /\ active' = active /\ open' = open /\ phase' = phase
  BY DEF CtlAdd, Inside
<1>2. PICK s : s = State
  OBVIOUS
<1>3. Sound(s, Hands, phase) /\ active \in Nat
  BY <1>2, ActiveIs DEF IInv
<1>4. PICK o \in Objects :
         /\ ~sock[o].used
         /\ \E n \in {NewSock(State, o, x)} :
              \E r \in (IF n.ok THEN UpdateIfPolling(SetEvent(n.s, o, mask), active) ELSE {n}) :
                   Becomes(r.s)
  BY DEF CtlAdd
<1>5. PICK n : n = NewSock(s, o, x)
  OBVIOUS
<1>6. PICK r \in (IF n.ok THEN UpdateIfPolling(SetEvent(n.s, o, mask), active) ELSE {n}) : Becomes(r.s)
  BY <1>2, <1>4, <1>5
<1>7. PICK a : a = Acquire(s)
  OBVIOUS
<1>8. CASE \E p \in Objects : Registered(p, x)
  <2>1. n = [s |-> Release(a.s, a.id), ok |-> FALSE]
    BY <1>5, <1>7, <1>8 DEF NewSock
  <2>2. n.s = Release(a.s, a.id) /\ n.ok = FALSE
    BY <2>1
  <2>3. Sound(n.s, Hands, phase) /\ n.s.update = s.update /\ n.s.refused = s.refused
    BY <1>3, <1>7, <2>2, NewSockFails
  <2>4. r = n
    BY <1>6, <2>2
  <2>5. active > 0 /\ r.s.refused # TRUE => r.s.update = <<>>
    <3>1. n.s.update = update /\ n.s.refused = refused
      BY <1>2, <2>3, StateIs
    <3>2. active > 0 /\ ~refused => update = <<>>
      BY DEF IInv, Quiet
    <3>3. refused \in BOOLEAN
      <4>1. s.refused \in BOOLEAN
        BY <1>3 DEF Sound, Basic, PortState
      <4> QED BY <1>2, <4>1, StateIs
    <3> QED BY <2>4, <3>1, <3>2, <3>3
  <2> QED BY <1>1, <1>6, <2>3, <2>4, <2>5, CtlEnds
<1>9. CASE ~\E p \in Objects : Registered(p, x)
  <2>1. n = [s |-> WithRec(a.s, o, NewRec(x, a.id)), ok |-> TRUE]
    BY <1>5, <1>7, <1>9 DEF NewSock, WithRec, NewRec
  <2>2. n.s = WithRec(a.s, o, NewRec(x, a.id)) /\ n.ok = TRUE
    BY <2>1
  <2>3. ~s.sock[o].used
    BY <1>2, <1>4, StateIs
  <2>4. SoundBut(n.s, o, Hands, phase) /\ Tame(n.s, o, Hands, phase)
    BY <1>3, <1>7, <2>2, <2>3, NewSockIs
  <2>5. PICK u : u = SetEvent(n.s, o, mask)
    OBVIOUS
  <2>6. Sound(u, Hands, phase)
    BY <2>4, <2>5, SetEventSound
  <2>7. r \in UpdateIfPolling(u, active)
    BY <1>6, <2>2, <2>5
  <2>8. Sound(r.s, Hands, phase) /\ (active > 0 /\ r.s.refused # TRUE => r.s.update = <<>>)
    BY <1>3, <2>6, <2>7, ServedIs
  <2> QED BY <1>1, <1>6, <2>8, CtlEnds
<1> QED BY <1>8, <1>9

LEMMA CtlModStep ==
  ASSUME IInv, Alive, NEW t \in Threads, NEW x \in Sockets, NEW mask \in Masks, CtlMod(t, x, mask)
  PROVE  IInv'
<1>1. th[t].pc = "entering" /\ Goto(t, "idle") /\ active' = active /\ open' = open /\ phase' = phase
  BY DEF CtlMod, Inside
<1>2. PICK s : s = State
  OBVIOUS
<1>3. Sound(s, Hands, phase) /\ active \in Nat
  BY <1>2, ActiveIs DEF IInv
<1>4. PICK o \in Objects :
         /\ Registered(o, x)
         /\ \E r \in UpdateIfPolling(SetEvent(State, o, mask), active) : Becomes(r.s)
  BY DEF CtlMod
<1>5. PICK r \in UpdateIfPolling(SetEvent(s, o, mask), active) : Becomes(r.s)
  BY <1>2, <1>4
<1>6. s.sock[o].used /\ ~s.sock[o].delete
  BY <1>2, <1>4, StateIs DEF Registered
<1>7. SoundBut(s, o, Hands, phase) /\ Tame(s, o, Hands, phase)
  <2>1. SoundBut(s, o, Hands, phase) /\ ObjectOk(s, o, Hands, phase)
    BY <1>3, SoundIs
  <2> QED BY <1>6, <2>1, RegisteredTame
<1>8. PICK u : u = SetEvent(s, o, mask)
  OBVIOUS
<1>9. Sound(u, Hands, phase)
  BY <1>7, <1>8, SetEventSound
<1>10. r \in UpdateIfPolling(u, active)
  BY <1>5, <1>8
<1>11. Sound(r.s, Hands, phase) /\ (active > 0 /\ r.s.refused # TRUE => r.s.update = <<>>)
  BY <1>3, <1>9, <1>10, ServedIs
<1> QED BY <1>1, <1>5, <1>11, CtlEnds

LEMMA CtlDelStep ==
  ASSUME IInv, Alive, NEW t \in Threads, NEW x \in Sockets, CtlDel(t, x)
  PROVE  IInv'
<1>1. th[t].pc = "entering" /\ Goto(t, "idle") /\ active' = active /\ open' = open /\ phase' = phase
  BY DEF CtlDel, Inside
<1>2. PICK s : s = State
  OBVIOUS
<1>3. Sound(s, Hands, phase)
  BY <1>2 DEF IInv
<1>4. PICK o \in Objects :
         /\ Registered(o, x)
         /\ \/ Becomes(Delete(State, o, FALSE))
            \/ MayNotCancel(State, o) /\ Becomes(DeleteUncancelled(State, o))
  BY DEF CtlDel
<1>5. PICK u : /\ Becomes(u)
               /\ \/ u = Delete(s, o, FALSE)
                  \/ MayNotCancel(s, o) /\ u = DeleteUncancelled(s, o)
  <2>1. CASE Becomes(Delete(State, o, FALSE))
    <3>1. Becomes(Delete(s, o, FALSE))
      BY <1>2, <2>1
    <3> QED BY <3>1
  <2>2. CASE MayNotCancel(State, o) /\ Becomes(DeleteUncancelled(State, o))
    <3>1. MayNotCancel(s, o) /\ Becomes(DeleteUncancelled(s, o))
      BY <1>2, <2>2
    <3> QED BY <3>1
  <2> QED BY <1>4, <2>1, <2>2
<1>6. s.sock[o].used /\ ~s.sock[o].delete
  BY <1>2, <1>4, StateIs DEF Registered
<1>7. /\ Sound(u, Hands, phase) /\ u.refused = s.refused
      /\ ~InQueue(s.update, o) => u.update = s.update
  <2>1. CASE u = Delete(s, o, FALSE)
    BY <1>3, <1>6, <2>1, DeleteSound
  <2>2. CASE MayNotCancel(s, o) /\ u = DeleteUncancelled(s, o)
    BY <1>3, <1>6, <2>2, UncancelledSound
  <2> QED BY <1>5, <2>1, <2>2
<1>8. active > 0 /\ u.refused # TRUE => u.update = <<>>
  <2>1. active > 0 /\ ~refused => update = <<>>
    BY DEF IInv, Quiet
  <2>2. s.update = update /\ s.refused = refused
    BY <1>2, StateIs
  <2>3. s.refused \in BOOLEAN
    BY <1>3 DEF Sound, Basic, PortState
  <2>4. s.update = <<>> => ~InQueue(s.update, o)
    BY DEF InQueue
  <2> QED BY <1>7, <2>1, <2>2, <2>3, <2>4
<1> QED BY <1>1, <1>5, <1>7, <1>8, CtlEnds

\* port__poll: the thread polls, with nothing left to update, or it leaves.
LEMMA PollIs ==
  ASSUME NEW t \in Threads, NEW s, NEW H, Sound(s, H, phase), NEW others \in Nat, Poll(t, s, others)
  PROVE  /\ Sound(State', H, phase) /\ (active' > 0 /\ refused' # TRUE => update' = <<>>)
         /\ \/ active' = others + 1 /\ Goto(t, "polling")
            \/ active' = others /\ Goto(t, "idle")
<1>1. PICK r \in UpdateEvents(s) :
        IF r.ok THEN /\ Becomes(r.s) /\ active' = others + 1
                     /\ Goto(t, "polling")
        ELSE \E q \in UpdateIfPolling(r.s, others) :
             /\ Becomes(q.s) /\ active' = others
             /\ Goto(t, "idle")
  BY DEF Poll
<1>2. UpdateDone(r, H)
  BY UpdateEventsIs
<1>3. CASE r.ok = TRUE
  <2>1. Becomes(r.s) /\ active' = others + 1 /\ Goto(t, "polling")
    BY <1>1, <1>3
  <2>2. Sound(r.s, H, phase) /\ r.s.update = <<>>
    BY <1>2, <1>3 DEF UpdateDone
  <2>3. State' = r.s
    BY <2>1, <2>2, BecomesIs
  <2>4. update' = <<>>
    BY <2>1, <2>2 DEF Becomes
  <2> QED BY <2>1, <2>2, <2>3, <2>4
<1>4. CASE r.ok = FALSE
  <2>1. PICK q \in UpdateIfPolling(r.s, others) :
             Becomes(q.s) /\ active' = others /\ Goto(t, "idle")
    BY <1>1, <1>4
  <2>2. Sound(r.s, H, phase)
    BY <1>2 DEF UpdateDone
  <2>3. /\ Sound(q.s, H, phase)
        /\ others > 0 => q.s.refused = TRUE \/ q.s.update = <<>>
    <3>1. Served(q.s, others, H)
      BY <2>2, UpdateIfPollingServes
    <3> QED BY <3>1 DEF Served
  <2>4. State' = q.s
    BY <2>1, <2>3, BecomesIs
  <2>5. active' > 0 /\ refused' # TRUE => update' = <<>>
    BY <2>1, <2>3 DEF Becomes
  <2> QED BY <2>1, <2>3, <2>4, <2>5
<1> QED BY <1>2, <1>3, <1>4 DEF UpdateDone

LEMMA WaitStep ==
  ASSUME IInv, Alive, NEW t \in Threads, Wait(t)
  PROVE  IInv'
<1>1. th[t].pc = "entering" /\ Poll(t, State, active) /\ open' = open /\ phase' = phase
  BY DEF Wait, Inside
<1>2. active \in Nat /\ active = Cardinality(Busy)
  BY ActiveIs DEF IInv
<1>3. /\ Sound(State', Hands, phase) /\ (active' > 0 /\ refused' # TRUE => update' = <<>>)
      /\ \/ active' = active + 1 /\ Goto(t, "polling")
         \/ active' = active /\ Goto(t, "idle")
  BY <1>1, <1>2, PollIs DEF IInv
<1>4. ThreadsOk' /\ Hands' = Hands /\ active' = Cardinality(Busy')
  <2>1. CASE active' = active + 1 /\ Goto(t, "polling")
    BY <1>1, <1>2, <2>1, GotoPolling DEF IInv
  <2>2. CASE active' = active /\ Goto(t, "idle")
    BY <1>1, <1>2, <2>2, GotoOutside DEF IInv
  <2> QED BY <1>3, <2>1, <2>2
<1>5. Sound(State, Hands, phase)'
  BY <1>1, <1>3, <1>4
<1>6. Quiet' /\ Gone'
  BY <1>1, <1>3 DEF Quiet, Gone, Alive
<1> QED BY <1>1, <1>4, <1>5, <1>6 DEF IInv

\* A thread takes packets out of the IOCP.
LEMMA DequeuedStep ==
  ASSUME IInv, Alive, NEW t \in Threads, Dequeued(t)
  PROVE  IInv'
<1>1. /\ th[t].pc = "polling" /\ open' = open /\ phase' = phase /\ active' = active
      /\ sock' = sock /\ update' = update /\ deleted' = deleted /\ groups' = groups
      /\ refused' = refused
  BY DEF Dequeued
<1>2. PICK hand \in SUBSET packets :
         /\ packets' = packets \ hand
         /\ th' = [th EXCEPT ![t] = [pc |-> "back", hand |-> hand, fails |-> FALSE]]
  BY DEF Dequeued
<1>3. PICK s : s = State
  OBVIOUS
<1>4. PICK u : u = State'
  OBVIOUS
<1>5. /\ u.sock = s.sock /\ u.update = s.update /\ u.deleted = s.deleted /\ u.groups = s.groups
      /\ u.refused = s.refused /\ u.packets = s.packets \ hand /\ hand \subseteq s.packets
      /\ u = [sock |-> u.sock, update |-> u.update, deleted |-> u.deleted, groups |-> u.groups,
              packets |-> u.packets, refused |-> u.refused]
  BY <1>1, <1>2, <1>3, <1>4 DEF State
<1>6. Sound(s, Hands, phase)
  BY <1>3 DEF IInv
<1>7. /\ Basic(s) /\ Packed(s.groups, Count(s)) /\ Hands \subseteq Objects
      /\ s.packets \cap Hands = {} /\ s.packets \subseteq Objects
      /\ (phase = "closed" => s.packets = {})
  BY <1>6 DEF Sound, Basic, PortState
<1>8. ThreadsOk' /\ Hands' = Hands \cup hand /\ Busy' = Busy
  <2>1. Moves(t, "back", hand)
    <3> DEFINE y == [pc |-> "back", hand |-> hand, fails |-> FALSE]
    <3>1. y \in ThreadRec /\ y.pc = "back" /\ y.hand = hand
      BY <1>5, <1>7 DEF ThreadRec
    <3>2. th' = [th EXCEPT ![t] = y] /\ th \in [Threads -> ThreadRec]
      BY <1>2 DEF IInv, ThreadsOk
    <3> HIDE DEF y
    <3> QED BY <3>1, <3>2 DEF Moves
  <2>2. hand \cap Hands = {} /\ ThreadsOk
    BY <1>5, <1>7 DEF IInv
  <2>3. ThreadsOk' /\ Hands' = (Hands \ th[t].hand) \cup hand
    BY <2>1, <2>2, MovesOk
  <2>4. th[t].hand = {} /\ t \in Busy
    BY <1>1, <2>2 DEF ThreadsOk, Busy
  <2>5. Busy' = Busy
    BY <2>1, <2>4, MovesBusy
  <2> QED BY <2>3, <2>4, <2>5
<1>9. Sound(u, Hands \cup hand, phase)
  <2>1. Basic(u)
    BY <1>5, <1>7 DEF Basic, PortState
  <2>2. Count(u) = Count(s)
    BY <1>5 DEF Count, Members
  <2>3. ASSUME NEW o \in Objects
        PROVE  ObjectOk(u, o, Hands \cup hand, phase)
    <3>1. ObjectOk(s, o, Hands, phase)
      BY <1>6 DEF Sound
    <3>2. (o \in u.packets \/ o \in Hands \cup hand) <=> (o \in s.packets \/ o \in Hands)
      BY <1>5
    <3> QED BY <1>5, <3>1, <3>2 DEF ObjectOk
  <2>4. Hands \cup hand \subseteq Objects /\ u.packets \cap (Hands \cup hand) = {}
        /\ (phase = "closed" => u.packets = {})
    BY <1>5, <1>7
  <2>5. Packed(u.groups, Count(u))
    BY <1>5, <1>7, <2>2
  <2> QED BY <2>1, <2>3, <2>4, <2>5 DEF Sound
<1>10. Sound(State, Hands, phase)'
  BY <1>1, <1>4, <1>8, <1>9
<1>11. Quiet' /\ Gone'
  BY <1>1 DEF IInv, Quiet, Gone, Alive
<1> QED BY <1>1, <1>8, <1>10, <1>11 DEF IInv

LEMMA TimedOutStep ==
  ASSUME IInv, Alive, NEW t \in Threads, TimedOut(t)
  PROVE  IInv'
<1>1. /\ th[t].pc = "polling" /\ open' = open /\ phase' = phase /\ active' = active
      /\ UNCHANGED port
      /\ th' = [th EXCEPT ![t] = [pc |-> "back", hand |-> {}, fails |-> TRUE]]
  BY DEF TimedOut
<1>2. State' = State /\ sock' = sock /\ update' = update /\ refused' = refused
  BY <1>1, PortSame
<1>3. ThreadsOk' /\ Hands' = Hands /\ Busy' = Busy
  <2>1. Moves(t, "back", {})
    <3> DEFINE y == [pc |-> "back", hand |-> {}, fails |-> TRUE]
    <3>1. y \in ThreadRec /\ y.pc = "back" /\ y.hand = {}
      BY DEF ThreadRec
    <3>2. th' = [th EXCEPT ![t] = y] /\ th \in [Threads -> ThreadRec]
      BY <1>1 DEF IInv, ThreadsOk
    <3> HIDE DEF y
    <3> QED BY <3>1, <3>2 DEF Moves
  <2>2. ThreadsOk
    BY DEF IInv
  <2>3. ThreadsOk' /\ Hands' = (Hands \ th[t].hand) \cup {}
    BY <2>1, <2>2, MovesOk
  <2>4. th[t].hand = {} /\ t \in Busy
    BY <1>1, <2>2 DEF ThreadsOk, Busy
  <2>5. Busy' = Busy
    BY <2>1, <2>4, MovesBusy
  <2> QED BY <2>3, <2>4, <2>5
<1>4. Sound(State, Hands, phase)'
  BY <1>1, <1>2, <1>3 DEF IInv
<1>5. Quiet' /\ Gone'
  BY <1>1, <1>2 DEF IInv, Quiet, Gone
<1> QED BY <1>1, <1>3, <1>4, <1>5 DEF IInv

\* The events of its packets are fed, and it leaves ...
LEMMA WaitReturnsStep ==
  ASSUME IInv, Alive, NEW t \in Threads, WaitReturns(t)
  PROVE  IInv'
<1>1. /\ th[t].pc = "back" /\ open' = open /\ phase' = phase /\ active' = active - 1
      /\ Goto(t, "idle")
  BY DEF WaitReturns
<1>2. PICK f : f = FeedEvents(State, th[t].hand)
  OBVIOUS
<1>3. PICK r \in UpdateIfPolling(f.s, active - 1) : Becomes(r.s)
  BY <1>2 DEF WaitReturns
<1>4. /\ ThreadsOk' /\ Hands' = Hands \ th[t].hand
      /\ Cardinality(Busy') = Cardinality(Busy) - 1 /\ Cardinality(Busy) # 0
  BY <1>1, GotoOut DEF IInv
<1>5. active \in Nat /\ active = Cardinality(Busy)
  BY ActiveIs DEF IInv
<1>6. active - 1 \in Nat /\ active' = Cardinality(Busy')
  BY <1>1, <1>4, <1>5
<1>7. Sound(f.s, Hands \ th[t].hand, phase)
  <2>1. th[t].hand \in SUBSET Hands
    BY DEF Hands
  <2> QED BY <1>2, <2>1, FeedEventsIs DEF IInv
<1>8. /\ Sound(r.s, Hands \ th[t].hand, phase)
      /\ active - 1 > 0 => r.s.refused = TRUE \/ r.s.update = <<>>
  <2>1. PICK m : m = active - 1
    OBVIOUS
  <2>2. r \in UpdateIfPolling(f.s, m) /\ m \in Nat
    BY <1>3, <1>6, <2>1
  <2>3. Served(r.s, m, Hands \ th[t].hand)
    BY <1>7, <2>2, UpdateIfPollingServes
  <2> QED BY <2>1, <2>3 DEF Served
<1>9. State' = r.s
  BY <1>3, <1>8, BecomesIs
<1>10. Sound(State, Hands, phase)'
  BY <1>1, <1>4, <1>8, <1>9
<1>11. Quiet'
  BY <1>1, <1>3, <1>8 DEF Becomes, Quiet
<1>12. Gone'
  BY <1>1 DEF Gone, Alive
<1> QED BY <1>1, <1>4, <1>6, <1>10, <1>11, <1>12 DEF IInv

\* ... or polls again.
LEMMA PollsAgainStep ==
  ASSUME IInv, Alive, NEW t \in Threads, PollsAgain(t)
  PROVE  IInv'
<1>1. th[t].pc = "back" /\ open' = open /\ phase' = phase
  BY DEF PollsAgain
<1>2. PICK f : f = FeedEvents(State, th[t].hand)
  OBVIOUS
<1>3. Poll(t, f.s, active - 1)
  BY <1>2 DEF PollsAgain
<1>4. active \in Nat /\ active = Cardinality(Busy) /\ ThreadsOk
  BY ActiveIs DEF IInv
<1>5. Cardinality(Busy) # 0
  <2>1. t \in Busy
    BY <1>1 DEF Busy
  <2> QED BY <2>1, BusyIs, FS_EmptySet
<1>6. active - 1 \in Nat /\ (active - 1) + 1 = active
  BY <1>4, <1>5
<1>7. Sound(f.s, Hands \ th[t].hand, phase)
  <2>1. th[t].hand \in SUBSET Hands
    BY DEF Hands
  <2> QED BY <1>2, <2>1, FeedEventsIs DEF IInv
<1>8. /\ Sound(State', Hands \ th[t].hand, phase)
      /\ (active' > 0 /\ refused' # TRUE => update' = <<>>)
      /\ \/ active' = (active - 1) + 1 /\ Goto(t, "polling")
         \/ active' = active - 1 /\ Goto(t, "idle")
  BY <1>3, <1>6, <1>7, PollIs
<1>9. ThreadsOk' /\ Hands' = Hands \ th[t].hand /\ active' = Cardinality(Busy')
  <2>1. CASE active' = (active - 1) + 1 /\ Goto(t, "polling")
    BY <1>1, <1>4, <1>6, <2>1, GotoAgain
  <2>2. CASE active' = active - 1 /\ Goto(t, "idle")
    BY <1>1, <1>4, <2>2, GotoOut
  <2> QED BY <1>8, <2>1, <2>2
<1>10. Sound(State, Hands, phase)'
  BY <1>1, <1>8, <1>9
<1>11. Quiet' /\ Gone'
  BY <1>1, <1>8 DEF Quiet, Gone, Alive
<1> QED BY <1>1, <1>9, <1>10, <1>11 DEF IInv

\* The last reference is dropped, and all objects are freed.
LEMMA PortDeleteStep ==
  ASSUME IInv, Alive, PortDelete
  PROVE  IInv'
<1>0. PICK n \in Nat : n = Cardinality(Objects)
  BY ObjectsAssumption, FS_CardinalityType
<1>1. \A o : o \in Objects <=> o \in 1 .. n
  BY <1>0, ObjectsAssumption
<1>2. /\ phase = "closed" /\ phase' = "deleted" /\ active' = active /\ open' = open /\ th' = th
      /\ \A t \in Threads : th[t].pc = "idle"
  BY DEF PortDelete
<1> DEFINE p == CHOOSE g : Deletes(State, n, g)
           Free(k) == /\ Sound(p[k], {}, phase)
                      /\ \A o \in 1 .. k : p[k].sock[o] = Unused
                      /\ \A o \in k + 1 .. n : p[k].sock[o] = sock[o]
           S == {k \in 0 .. n : Free(k)}
<1>3. Becomes(p[n])
  <2>1. {0} \cup Objects = 0 .. n
    BY <1>1
  <2> QED BY <1>0, <2>1 DEF PortDelete, Deletes
<1>4. Deletes(State, n, p)
  BY DeletesExist
<1> HIDE DEF p
<1>5. \A k \in 0 .. n : p[k] = IF k = 0 THEN State
                               ELSE IF sock[k].used THEN Delete(p[k - 1], k, TRUE) ELSE p[k - 1]
  BY <1>4 DEF Deletes
<1>6. Hands = {}
  BY <1>2 DEF IInv, ThreadsOk, Hands
<1>7. Sound(State, {}, phase)
  BY <1>6 DEF IInv
<1>8. 0 \in S
  <2>0. 0 \in 0 .. n
    BY <1>0
  <2>1. p[0] = State
    BY <1>5, <2>0
  <2>2. \A o \in 1 .. 0 : p[0].sock[o] = Unused
    OBVIOUS
  <2>3. \A o \in 0 + 1 .. n : p[0].sock[o] = sock[o]
    BY <2>1, StateIs
  <2>4. Sound(p[0], {}, phase)
    BY <1>7, <2>1
  <2> QED BY <2>0, <2>2, <2>3, <2>4
<1>9. ASSUME NEW k \in 1 .. n, k - 1 \in S
      PROVE  k \in S
  <2>1. k \in 0 .. n /\ k # 0 /\ k \in Objects /\ k \in (k - 1) + 1 .. n
    BY <1>1
  <2>2. /\ Sound(p[k - 1], {}, phase)
        /\ \A o \in 1 .. k - 1 : p[k - 1].sock[o] = Unused
        /\ \A o \in (k - 1) + 1 .. n : p[k - 1].sock[o] = sock[o]
    BY <1>9
  <2>3. p[k - 1].sock[k] = sock[k]
    BY <2>1, <2>2
  <2>4. /\ \A o \in 1 .. k : o = k \/ o \in 1 .. k - 1
        /\ \A o \in k + 1 .. n : o \in (k - 1) + 1 .. n /\ o # k
        /\ \A o \in 1 .. k - 1 : o # k
    OBVIOUS
  <2>5. CASE sock[k].used
    <3>1. PICK s : s = p[k - 1]
      OBVIOUS
    <3>2. p[k] = Delete(s, k, TRUE)
      BY <1>5, <2>1, <2>5, <3>1
    <3>3. Sound(s, {}, phase) /\ s.sock[k].used
      BY <2>2, <2>3, <2>5, <3>1
    <3>4. /\ Sound(p[k], {}, phase) /\ p[k].sock[k] = Unused
          /\ \A o \in Objects \ {k} : p[k].sock[o] = s.sock[o]
      <4>1. PICK t : t = Delete(s, k, TRUE)
        OBVIOUS
      <4>2. IsForced(s, t, k)
        BY <1>2, <2>1, <3>3, <4>1, ForceSound
      <4>3. p[k] = t
        BY <3>2, <4>1
      <4> QED BY <4>2, <4>3 DEF IsForced
    <3>5. \A o \in 1 .. n : o # k => p[k].sock[o] = p[k - 1].sock[o]
      BY <1>1, <3>1, <3>4
    <3>6. \A o \in 1 .. k : p[k].sock[o] = Unused
      BY <2>2, <2>4, <3>4, <3>5
    <3>7. \A o \in k + 1 .. n : p[k].sock[o] = sock[o]
      BY <2>2, <2>4, <3>5
    <3> QED BY <2>1, <3>4, <3>6, <3>7
  <2>6. CASE ~sock[k].used
    <3>1. p[k] = p[k - 1]
      BY <1>5, <2>1, <2>6
    <3>2. p[k].sock[k] = Unused
      <4>1. ObjectOk(p[k - 1], k, {}, phase)
        BY <2>1, <2>2 DEF Sound
      <4> QED BY <2>3, <2>6, <3>1, <4>1 DEF ObjectOk
    <3>3. \A o \in 1 .. k : p[k].sock[o] = Unused
      BY <2>2, <2>4, <3>1, <3>2
    <3>4. \A o \in k + 1 .. n : p[k].sock[o] = sock[o]
      BY <2>2, <2>4, <3>1
    <3> QED BY <2>1, <2>2, <3>1, <3>3, <3>4
  <2> QED BY <2>5, <2>6
<1> HIDE DEF S
<1>10. 0 .. n \subseteq S
  BY <1>8, <1>9, Upward
<1>11. Free(n)
  BY <1>10 DEF S
<1>12. PICK t : t = p[n]
  OBVIOUS
<1>13. /\ Sound(t, {}, phase) /\ Becomes(t)
       /\ \A o \in Objects : t.sock[o] = Unused
  BY <1>1, <1>3, <1>11, <1>12
<1> HIDE DEF Free
<1>14. Sound(t, {}, "deleted")
  BY <1>13, OtherPhase
<1>15. State' = t /\ sock' = t.sock
  BY <1>13, BecomesIs DEF Becomes
<1>16. ThreadsOk' /\ Hands' = Hands /\ Busy' = Busy
  BY <1>2, ThreadsSame DEF IInv
<1>17. Sound(State, Hands, phase)'
  BY <1>2, <1>6, <1>14, <1>15, <1>16
<1>18. active = 0
  <2>1. Busy = {}
    BY <1>2 DEF Busy
  <2> QED BY <2>1, FS_EmptySet DEF IInv
<1>19. Quiet' /\ Gone'
  BY <1>2, <1>13, <1>15, <1>18 DEF Quiet, Gone
<1> QED BY <1>2, <1>16, <1>17, <1>19 DEF IInv, Phases

LEMMA InitIInv ==
  ASSUME Init
  PROVE  IInv
<1>1. /\ sock = [o \in Objects |-> Unused] /\ update = <<>> /\ deleted = <<>> /\ groups = <<>>
      /\ packets = {} /\ refused = FALSE /\ active = 0 /\ open = Sockets /\ phase = "open"
      /\ th = [t \in Threads |-> [pc |-> "idle", hand |-> {}, fails |-> FALSE]]
  BY DEF Init
<1>2. ThreadsOk /\ Hands = {} /\ Busy = {}
  BY <1>1 DEF ThreadsOk, ThreadRec, Hands, Busy
<1>3. PICK s : s = State
  OBVIOUS
<1>4. /\ s.update = <<>> /\ s.deleted = <<>> /\ s.groups = <<>> /\ s.packets = {}
      /\ \A o \in Objects : s.sock[o] = Unused
  BY <1>1, <1>3, StateIs
<1>5. Basic(s)
  <2>1. sock \in [Objects -> Rec]
    <3>1. Unused \in Rec
      BY UnusedIs
    <3> HIDE DEF Rec, Unused
    <3> QED BY <1>1, <3>1
  <2>2. /\ update \in Seq(Objects) /\ deleted \in Seq(Objects) /\ groups \in Seq(Group)
        /\ packets \in SUBSET Objects /\ refused \in BOOLEAN
    <3>1. <<>> \in Seq(Objects) /\ <<>> \in Seq(Group)
      OBVIOUS
    <3> QED BY <1>1, <3>1
  <2>3. State \in PortState
    BY <2>1, <2>2 DEF State, PortState
  <2> QED BY <1>3, <1>4, <2>3 DEF Basic, Distinct
<1>6. Packed(s.groups, Count(s))
  <2>1. \A i \in Nat : Count(s)[i] = 0
    <3>1. \A i \in Nat : Members(s, i) = {}
      BY <1>4, UnusedIs DEF Members
    <3> QED BY <3>1, CountIs, FS_EmptySet
  <2> HIDE DEF Count
  <2> QED BY <1>4, <2>1 DEF Packed, OneOfAKind, FullFirst, Sized, Grouped
<1>7. \A x : ~InQueue(<<>>, x)
  BY DEF InQueue
<1>8. ASSUME NEW o \in Objects
      PROVE  ObjectOk(s, o, {}, "open")
  BY <1>4, <1>7, UnusedIs DEF ObjectOk
<1>9. Sound(s, {}, "open")
  BY <1>4, <1>5, <1>6, <1>8 DEF Sound
<1>10. Quiet /\ Gone /\ active = Cardinality(Busy)
  BY <1>1, <1>2, FS_EmptySet DEF Quiet, Gone
<1> QED BY <1>1, <1>2, <1>3, <1>9, <1>10 DEF IInv, Phases

LEMMA IInvSame ==
  ASSUME IInv, UNCHANGED vars
  PROVE  IInv'
<1>1. UNCHANGED port /\ active' = active /\ open' = open /\ phase' = phase /\ th' = th
  BY DEF vars, port
<1>2. ThreadsOk' /\ Hands' = Hands /\ Busy' = Busy
  BY <1>1, ThreadsSame DEF IInv
<1>3. State' = State /\ sock' = sock /\ update' = update /\ refused' = refused
  BY <1>1, PortSame
<1>4. Sound(State, Hands, phase)'
  BY <1>1, <1>2, <1>3 DEF IInv
<1>5. Quiet' /\ Gone'
  BY <1>1, <1>3 DEF IInv, Quiet, Gone
<1> QED BY <1>1, <1>2, <1>4, <1>5 DEF IInv

LEMMA NextKeepsIInv ==
  ASSUME IInv, Next
  PROVE  IInv'
<1>1. CASE UNCHANGED vars
  BY <1>1, IInvSame
<1>2. ASSUME Alive, NEW t \in Threads,
             \/ EnterPort(t) \/ Wait(t) \/ Dequeued(t) \/ TimedOut(t)
             \/ WaitReturns(t) \/ PollsAgain(t) \/ CtlAddAsserts(t) \/ CtlFails(t)
      PROVE  IInv'
  BY <1>2, EnterPortStep, WaitStep, DequeuedStep, TimedOutStep, WaitReturnsStep,
     PollsAgainStep, CtlAddAssertsStep, CtlFailsStep
<1>3. ASSUME Alive, NEW t \in Threads, NEW x \in Sockets, CtlDel(t, x)
      PROVE  IInv'
  BY <1>3, CtlDelStep
<1>4. ASSUME Alive, NEW t \in Threads, NEW x \in Sockets, NEW m \in Masks,
             CtlAdd(t, x, m) \/ CtlMod(t, x, m)
      PROVE  IInv'
  BY <1>4, CtlAddStep, CtlModStep
<1>5. CASE Alive /\ (Unlist \/ PortClose \/ PortDelete)
  BY <1>5, UnlistStep, PortCloseStep, PortDeleteStep
<1>6. ASSUME Alive, NEW o \in Objects, SocketReady(o)
      PROVE  IInv'
  BY <1>6, SocketReadyStep
<1>7. ASSUME Alive, NEW x \in Sockets, CloseSocket(x)
      PROVE  IInv'
  BY <1>7, CloseSocketStep
<1> QED BY <1>1, <1>2, <1>3, <1>4, <1>5, <1>6, <1>7 DEF Next, Over

\* After every critical section of every thread, and whatever the kernel does
\* meanwhile, the port is sound: epoll_ctl, port_wait, port_close and
\* port_delete leave it as they found it.
THEOREM Invariance == Spec => []IInv
<1>1. Init => IInv
  BY InitIInv
<1>2. IInv /\ [Next]_vars => IInv'
  BY NextKeepsIInv, IInvSame
<1> QED BY <1>1, <1>2, PTL DEF Spec

-----------------------------------------------------------------------------
(* What the invariant says *)

LEMMA ObjectNow ==
  ASSUME IInv, NEW o \in Objects
  PROVE  /\ ~sock[o].used => /\ sock[o] = Unused /\ ~InQueue(update, o)
                             /\ o \notin packets /\ o \notin Hands
         /\ sock[o].used /\ sock[o].status # "idle" => sock[o].io # {}
         /\ sock[o].used /\ sock[o].io = {"pending"} => sock[o].status = "pending"
         /\ sock[o].used /\ sock[o].delete =>
              sock[o].status # "idle" /\ InQueue(deleted, o) /\ ~InQueue(update, o)
         /\ sock[o].used /\ ~sock[o].delete
              /\ (sock[o].status = "idle" \/ (sock[o].io = {"pending"} /\ Uncovered(sock[o])))
              => InQueue(update, o)
         /\ phase \in {"open", "unlisted"} /\ sock[o].used /\ sock[o].status # "idle"
              /\ sock[o].io # {"pending"} => o \in packets \/ o \in Hands
<1>1. PICK s : s = State
  OBVIOUS
<1>2. ObjectOk(s, o, Hands, phase)
  BY <1>1 DEF IInv, Sound
<1>3. s.sock = sock /\ s.update = update /\ s.deleted = deleted /\ s.packets = packets
  BY <1>1, StateIs
<1>4. s.sock[o] = sock[o]
  BY <1>3
<1> QED BY <1>2, <1>3, <1>4 DEF ObjectOk

LEMMA OnItsWayIs ==
  ASSUME NEW o
  PROVE  OnItsWay(o) <=> o \in packets \/ o \in Hands
  BY DEF OnItsWay, Hands

LEMMA GroupsNow ==
  ASSUME IInv
  PROVE  /\ FullFirst(groups)
         /\ \A k \in DOMAIN groups :
              /\ groups[k].id \in Nat /\ groups[k].size <= MaxGroupSize
              /\ groups[k].size =
                   Cardinality({o \in Objects : sock[o].used /\ sock[o].group = groups[k].id})
<1>1. PICK s : s = State
  OBVIOUS
<1>2. s.groups = groups /\ s.sock = sock
  BY <1>1, StateIs
<1>3. Packed(groups, Count(s))
  BY <1>1, <1>2 DEF IInv, Sound
<1>4. groups \in Seq(Group) /\ FullFirst(groups) /\ Sized(groups, Count(s), Len(groups))
  BY <1>3 DEF Packed
<1>5. ASSUME NEW k \in DOMAIN groups
      PROVE  /\ groups[k].id \in Nat /\ groups[k].size <= MaxGroupSize
             /\ groups[k].size =
                  Cardinality({o \in Objects : sock[o].used /\ sock[o].group = groups[k].id})
  <2>1. /\ groups[k].id \in 1 .. Len(groups) /\ groups[k].size = Count(s)[groups[k].id]
        /\ groups[k].size <= MaxGroupSize
    BY <1>4 DEF Sized
  <2>2. groups[k].id \in Nat
    BY <2>1
  <2>3. Count(s)[groups[k].id] = Cardinality(Members(s, groups[k].id))
    BY <2>2, CountIs
  <2>4. Members(s, groups[k].id) = {o \in Objects : sock[o].used /\ sock[o].group = groups[k].id}
    BY <1>2 DEF Members
  <2> QED BY <2>1, <2>2, <2>3, <2>4
<1> QED BY <1>4, <1>5

LEMMA IInvTypes == IInv => TypeOK
<1> SUFFICES ASSUME IInv PROVE TypeOK
  OBVIOUS
<1>1. State \in PortState
  BY DEF IInv, Sound, Basic
<1>2. /\ sock \in [Objects -> Rec] /\ update \in Seq(Objects) /\ deleted \in Seq(Objects)
      /\ packets \in SUBSET Objects /\ refused \in BOOLEAN
  BY <1>1 DEF PortState, State
<1>3. active \in 0 .. Cardinality(Threads)
  <2>1. Busy \subseteq Threads
    BY DEF Busy
  <2>2. Cardinality(Busy) <= Cardinality(Threads)
    BY <2>1, ThreadsAssumption, FS_Subset
  <2>3. Cardinality(Threads) \in Nat /\ Cardinality(Busy) \in Nat
    BY BusyIs, ThreadsAssumption, FS_CardinalityType
  <2> QED BY <2>2, <2>3 DEF IInv
<1>4. th \in [Threads -> ThreadRec] /\ open \subseteq Sockets /\ phase \in Phases
  BY DEF IInv, ThreadsOk
<1> QED BY <1>2, <1>3, <1>4 DEF TypeOK, Rec, ThreadRec, Phases

LEMMA IInvWatches == IInv => Watched
<1> SUFFICES ASSUME IInv, phase \in {"open", "unlisted"}
             PROVE  /\ \A o \in Objects : sock[o].used /\ ~sock[o].delete =>
                         \/ InQueue(update, o)
                         \/ /\ sock[o].io = {"pending"} /\ sock[o].status = "pending"
                            /\ ~Uncovered(sock[o])
                         \/ OnItsWay(o)
                    /\ active > 0 /\ ~refused => update = <<>>
  BY DEF Watched
<1>1. ASSUME NEW o \in Objects, sock[o].used, ~sock[o].delete, ~InQueue(update, o), ~OnItsWay(o)
      PROVE  sock[o].io = {"pending"} /\ sock[o].status = "pending" /\ ~Uncovered(sock[o])
  <2>1. sock[o].status # "idle"
    BY <1>1, ObjectNow
  <2>2. o \notin packets /\ o \notin Hands
    BY <1>1, OnItsWayIs
  <2>3. sock[o].io = {"pending"}
    BY <1>1, <2>1, <2>2, ObjectNow
  <2>4. sock[o].status = "pending" /\ ~Uncovered(sock[o])
    BY <1>1, <2>3, ObjectNow
  <2> QED BY <2>3, <2>4
<1>2. active > 0 /\ ~refused => update = <<>>
  BY DEF IInv, Quiet
<1> QED BY <1>1, <1>2

LEMMA IInvKeepsObjects == IInv => ObjectsLive
<1> SUFFICES ASSUME IInv PROVE ObjectsLive
  OBVIOUS
<1>1. \A o \in Objects : sock[o].io # {} \/ OnItsWay(o) => sock[o].used
  <2> SUFFICES ASSUME NEW o \in Objects, ~sock[o].used
               PROVE  sock[o].io = {} /\ ~OnItsWay(o)
    OBVIOUS
  <2>1. sock[o] = Unused /\ o \notin packets /\ o \notin Hands
    BY ObjectNow
  <2>2. ~OnItsWay(o)
    BY <2>1, OnItsWayIs
  <2>3. Unused.io = {}
    BY DEF Unused
  <2> QED BY <2>1, <2>2, <2>3
<1>2. \A t, u \in Threads : th[t].hand \cap packets = {} /\ (t # u => th[t].hand \cap th[u].hand = {})
  <2>1. State.packets \cap Hands = {} /\ ThreadsOk
    BY DEF IInv, Sound
  <2>2. packets \cap Hands = {}
    BY <2>1, StateIs
  <2>3. \A t \in Threads : th[t].hand \subseteq Hands
    BY <2>1, ThreadIs
  <2> QED BY <2>1, <2>2, <2>3 DEF ThreadsOk
<1>3. \A o \in Objects : sock[o].used /\ sock[o].delete =>
         InQueue(deleted, o) /\ ~InQueue(update, o) /\ sock[o].status # "idle"
  BY ObjectNow
<1>4. \A o \in Objects : InQueue(update, o) => sock[o].used /\ ~sock[o].delete
  BY ObjectNow
<1>5. \A k \in DOMAIN groups : groups[k].size =
         Cardinality({o \in Objects : sock[o].used /\ sock[o].group = groups[k].id})
  BY GroupsNow
<1>6. phase = "deleted" => \A o \in Objects : sock[o] = Unused
  BY DEF IInv, Gone
<1> QED BY <1>1, <1>2, <1>3, <1>4, <1>5, <1>6 DEF ObjectsLive

LEMMA IInvPacks == IInv => GroupsPacked
  BY GroupsNow DEF GroupsPacked, FullFirst

\* Whatever the threads, the kernel and the application do, in whatever order:
\* the queues and the counters of a port hold what wepoll.c declares for them.
THEOREM TypeCorrect == Spec => []TypeOK
  BY Invariance, IInvTypes, PTL

\* No event gets lost: every socket that epoll_ctl has added is watched for what
\* its user asks, or waits to be, or its completion is under way, and nobody
\* polls while one waits (port__ctl_op, port_wait, sock_update,
\* sock_feed_event).
THEOREM NoEventLost == Spec => []Watched
  BY Invariance, IInvWatches, PTL

\* sock__delete frees an object when the kernel has done with it and no earlier,
\* port_delete frees the rest, and a poll group counts the objects it has.
THEOREM ObjectsNeededLive == Spec => []ObjectsLive
  BY Invariance, IInvKeepsObjects, PTL

\* poll_group_acquire and poll_group_release keep the full groups in front, and
\* no group above POLL_GROUP__MAX_GROUP_SIZE.
THEOREM PackedAlways == Spec => []GroupsPacked
  BY Invariance, IInvPacks, PTL
=============================================================================
