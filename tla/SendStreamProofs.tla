-------------------------- MODULE SendStreamProofs ---------------------------
(***************************************************************************)
(* Theorems about the send path of a stream, for any lengths of messages,   *)
(* any sizes of the buffers nghttp2 offers, and any number of messages.     *)
(*                                                                          *)
(* A stream's three fields stand for a place in what the messages look like *)
(* on the wire (Place), and what was sent is all that is before it. The     *)
(* callback's loop is a recursive function: its existence is by iteration   *)
(* (Iterates), with a set of values each turn stays in, and that set is the *)
(* loop's invariant (Loop).                                                 *)
(***************************************************************************)
EXTENDS SendStream, Integers, SequenceTheorems, WellFoundedInduction, TLAPS

-----------------------------------------------------------------------------
(* Induction and iteration up to a number. *)

LEMMA Upward ==
  ASSUME NEW n \in Nat, NEW S, 0 \in S,
         ASSUME NEW k \in 1 .. n, k - 1 \in S
         PROVE  k \in S
  PROVE  0 .. n \subseteq S
<1> DEFINE T == {k \in 0 .. n : k \notin S}
           R == OpToRel(<, Nat)
<1>1. SUFFICES ASSUME T # {}
               PROVE  FALSE
  OBVIOUS
<1>2. \A x, y \in Nat : x < y => <<x, y>> \in R
  BY DEF OpToRel
<1>3. IsWellFoundedOn(R, Nat)
  BY NatLessThanWellFounded, Zenon
<1>4. T \subseteq Nat
  OBVIOUS
<1> HIDE DEF R
<1>5. PICK m \in T : \A j \in T : <<j, m>> \notin R
  <2> HIDE DEF T
  <2> QED BY <1>1, <1>3, <1>4, WFMin
<1>6. m \in 1 .. n /\ m - 1 \in 0 .. n /\ m - 1 < m /\ m \in Nat /\ m - 1 \in Nat
  <2>1. m # 0
    BY <1>5
  <2> QED BY <1>5, <2>1
<1>7. m - 1 \in S
  <2>1. m - 1 \notin T
    BY <1>2, <1>5, <1>6
  <2> QED BY <1>6, <2>1
<1> QED BY <1>5, <1>6, <1>7

\* A function that starts at x and goes on by a step that stays in V exists.
Runs(f, n, V, x, step) ==
    f \in [0 .. n -> V] /\ f[0] = x /\ \A j \in 1 .. n : f[j] = step[j][f[j - 1]]

LEMMA Iterates ==
  ASSUME NEW n \in Nat, NEW V, NEW x \in V, NEW step \in [1 .. n -> [V -> V]]
  PROVE  \E f : Runs(f, n, V, x, step)
<1> DEFINE S == {k \in 0 .. n : \E f : Runs(f, k, V, x, step)}
<1>1. 0 \in S
  <2> DEFINE f == [k \in 0 .. 0 |-> x]
  <2>1. f \in [0 .. 0 -> V] /\ f[0] = x
    OBVIOUS
  <2> HIDE DEF f
  <2>2. 1 .. 0 = {} /\ 0 \in 0 .. n
    OBVIOUS
  <2>3. Runs(f, 0, V, x, step)
    BY <2>1, <2>2 DEF Runs
  <2> QED BY <2>2, <2>3
<1>2. ASSUME NEW k \in 1 .. n, k - 1 \in S
      PROVE  k \in S
  <2>1. PICK g : Runs(g, k - 1, V, x, step)
    BY <1>2
  <2>2. /\ g \in [0 .. k - 1 -> V] /\ g[0] = x
        /\ \A j \in 1 .. k - 1 : g[j] = step[j][g[j - 1]]
    BY <2>1 DEF Runs
  <2> DEFINE f == [j \in 0 .. k |-> IF j = k THEN step[k][g[k - 1]] ELSE g[j]]
  <2>3. step[k][g[k - 1]] \in V
    BY <2>2
  <2>4. f \in [0 .. k -> V]
    BY <2>2, <2>3
  <2>5. \A i \in 0 .. k : f[i] = IF i = k THEN step[k][g[k - 1]] ELSE g[i]
    OBVIOUS
  <2> HIDE DEF f
  <2>6. f[0] = x
    BY <2>2, <2>5
  <2>7. ASSUME NEW j \in 1 .. k
        PROVE  f[j] = step[j][f[j - 1]]
    <3>1. f[j - 1] = g[j - 1]
      <4>1. j - 1 \in 0 .. k /\ j - 1 # k
        OBVIOUS
      <4> QED BY <2>5, <4>1
    <3>2. CASE j = k
      BY <2>5, <3>1, <3>2
    <3>3. CASE j # k
      <4>1. f[j] = g[j] /\ j \in 1 .. k - 1
        BY <2>5, <3>3
      <4>2. g[j] = step[j][g[j - 1]]
        BY <2>2, <4>1
      <4> QED BY <3>1, <4>1, <4>2
    <3> QED BY <3>2, <3>3
  <2>8. Runs(f, k, V, x, step)
    BY <2>4, <2>6, <2>7 DEF Runs
  <2> QED BY <2>8
<1> HIDE DEF S
<1>3. 0 .. n \subseteq S
  BY <1>1, <1>2, Upward
<1>4. n \in S
  BY <1>3
<1> QED BY <1>4 DEF S

-----------------------------------------------------------------------------
(* What messages look like on the wire *)

\* The first m of the messages of lengths a.
Frames(a, m) ==
    LET upTo[n \in 0 .. Len(a)] ==
          IF n = 0 THEN <<>>
          ELSE upTo[n - 1] \o Bytes(n, 0, HEADER + a[n])
    IN  upTo[m]

\* The last n of the messages accepted.
Rest(n) == [i \in 1 .. n |-> Len(accepted) - n + i]

\* How far a stream with these fields is on the wire.
Place(queue, trunc, seek) ==
    LET done == Len(accepted) - Len(queue)
    IN  Frames(accepted, done) \o
          (IF trunc THEN Bytes(done + 1, 0, HEADER + seek) ELSE <<>>)

\* A message begun and not finished has payload left, unless it has none.
Within(queue, trunc, seek) ==
    trunc /\ queue # <<>> =>
        \/ seek < accepted[Head(queue)]
        \/ seek = 0 /\ accepted[Head(queue)] = 0

Counted == Len(accepted) <= MaxMessages /\ Len(lqueue_omessages) <= Len(accepted)

Queued == lqueue_omessages = Rest(Len(lqueue_omessages))

Begun == /\ stream = "open" /\ is_trunc => lqueue_omessages # <<>>
         /\ Within(lqueue_omessages, is_trunc, trunc_seek)

Sent == stream = "open" /\ ~garbled => wire = Place(lqueue_omessages, is_trunc, trunc_seek)

IInv == TypeOK /\ Counted /\ Queued /\ Begun /\ Sent

-----------------------------------------------------------------------------
(* Lemmas about bytes and frames *)

Pairs == Nat \X Nat

LEMMA BytesAre ==
  ASSUME NEW m \in Nat, NEW from \in Nat, NEW n \in Nat
  PROVE  /\ Bytes(m, from, n) \in Seq(Pairs)
         /\ Len(Bytes(m, from, n)) = n
         /\ \A i \in 1 .. n : Bytes(m, from, n)[i] = <<m, from + i>>
<1>1. \A i \in 1 .. n : <<m, from + i>> \in Pairs
  BY DEF Pairs
<1> QED BY <1>1 DEF Bytes

\* Bytes of one message that follow each other.
Join(m, from, j, k) == Bytes(m, from, j) \o Bytes(m, from + j, k) = Bytes(m, from, j + k)

LEMMA BytesJoin ==
  ASSUME NEW m \in Nat, NEW from \in Nat, NEW j \in Nat, NEW k \in Nat
  PROVE  Join(m, from, j, k)
<1> DEFINE x == Bytes(m, from, j)
           y == Bytes(m, from + j, k)
           z == Bytes(m, from, j + k)
<1>1. /\ x \in Seq(Pairs) /\ Len(x) = j /\ \A i \in 1 .. j : x[i] = <<m, from + i>>
  BY BytesAre
<1>2. /\ y \in Seq(Pairs) /\ Len(y) = k /\ \A i \in 1 .. k : y[i] = <<m, from + j + i>>
  <2>1. from + j \in Nat
    OBVIOUS
  <2> QED BY <2>1, BytesAre
<1>3. /\ z \in Seq(Pairs) /\ Len(z) = j + k /\ \A i \in 1 .. j + k : z[i] = <<m, from + i>>
  <2>1. j + k \in Nat
    OBVIOUS
  <2> QED BY <2>1, BytesAre
<1> HIDE DEF x, y, z
<1>4. x \o y \in Seq(Pairs) /\ Len(x \o y) = j + k
  BY <1>1, <1>2
<1>5. ASSUME NEW i \in 1 .. j + k
      PROVE  (x \o y)[i] = z[i]
  <2>1. CASE i <= j
    <3>1. (x \o y)[i] = x[i] /\ i \in 1 .. j
      BY <1>1, <1>2, <2>1
    <3> QED BY <1>1, <1>3, <3>1
  <2>2. CASE i > j
    <3>0. i - j \in 1 .. k /\ i \in 1 .. Len(x) + Len(y) /\ ~(i <= Len(x))
      BY <1>1, <1>2, <2>2
    <3>1. (x \o y)[i] = y[i - j] /\ i - j \in 1 .. k
      <4>1. (x \o y)[i] = y[i - Len(x)]
        BY <1>1, <1>2, <3>0, ConcatProperties
      <4> QED BY <1>1, <3>0, <4>1
    <3>2. y[i - j] = <<m, from + j + (i - j)>>
      BY <1>2, <3>1
    <3>3. from + j + (i - j) = from + i
      OBVIOUS
    <3>4. <<m, from + j + (i - j)>> = <<m, from + i>>
      BY <3>3
    <3> QED BY <1>3, <3>1, <3>2, <3>4
  <2>3. i <= j \/ i > j
    OBVIOUS
  <2> QED BY <2>1, <2>2, <2>3, Zenon
<1>6. x \o y = z
  BY <1>3, <1>4, <1>5, SeqEqual
<1> QED BY <1>6 DEF x, y, z, Join

Grows(a, f) ==
    f = [n \in 0 .. Len(a) |-> IF n = 0 THEN <<>>
                               ELSE f[n - 1] \o Bytes(n, 0, HEADER + a[n])]

LEMMA FramesAre ==
  ASSUME NEW a \in Seq(Nat)
  PROVE  /\ Frames(a, 0) = <<>>
         /\ \A n \in 0 .. Len(a) : Frames(a, n) \in Seq(Pairs)
         /\ \A n \in 1 .. Len(a) : Frames(a, n) = Frames(a, n - 1) \o Bytes(n, 0, HEADER + a[n])
<1> DEFINE N == Len(a)
           p == CHOOSE f : Grows(a, f)
           V == Seq(Pairs)
           step == [n \in 1 .. N |-> [v \in V |-> v \o Bytes(n, 0, HEADER + a[n])]]
<1>1. N \in Nat /\ <<>> \in V
  OBVIOUS
<1>2. \A n \in 1 .. N : Bytes(n, 0, HEADER + a[n]) \in V
  <2> SUFFICES ASSUME NEW n \in 1 .. N
               PROVE  Bytes(n, 0, HEADER + a[n]) \in V
    OBVIOUS
  <2>1. n \in Nat /\ HEADER + a[n] \in Nat
    BY DEF HEADER
  <2> QED BY <2>1, BytesAre
<1>3. step \in [1 .. N -> [V -> V]]
  <2>1. \A n \in 1 .. N, v \in V : v \o Bytes(n, 0, HEADER + a[n]) \in V
    BY <1>2
  <2> QED BY <2>1
<1>4. \A n \in 1 .. N, v \in V : step[n][v] = v \o Bytes(n, 0, HEADER + a[n])
  OBVIOUS
<1>5. ASSUME NEW m
      PROVE  Frames(a, m) = p[m]
  BY DEF Frames, Grows
<1> HIDE DEF step, V
<1>6. PICK g : /\ g \in [0 .. N -> V] /\ g[0] = <<>>
               /\ \A j \in 1 .. N : g[j] = step[j][g[j - 1]]
  <2> HIDE DEF N
  <2>1. PICK g : Runs(g, N, V, <<>>, step)
    BY <1>1, <1>3, Iterates, Zenon
  <2> QED BY <2>1 DEF Runs
<1>7. Grows(a, g)
  <2>1. ASSUME NEW n \in 0 .. N
        PROVE  g[n] = IF n = 0 THEN <<>> ELSE g[n - 1] \o Bytes(n, 0, HEADER + a[n])
    <3>1. CASE n = 0
      BY <1>6, <3>1
    <3>2. CASE n # 0
      <4>1. n \in 1 .. N /\ n - 1 \in 0 .. N
        BY <3>2
      <4>2. g[n - 1] \in V
        BY <1>6, <4>1
      <4> QED BY <1>4, <1>6, <3>2, <4>1, <4>2
    <3> QED BY <3>1, <3>2
  <2>2. g = [n \in 0 .. N |-> g[n]]
    BY <1>6
  <2> QED BY <2>1, <2>2 DEF Grows
<1>8. Grows(a, p)
  BY <1>7
<1> HIDE DEF p
<1>9. \A n \in 0 .. N : p[n] = IF n = 0 THEN <<>> ELSE p[n - 1] \o Bytes(n, 0, HEADER + a[n])
  BY <1>8 DEF Grows
<1> DEFINE S == {n \in 0 .. N : p[n] \in V}
<1>10. p[0] = <<>> /\ 0 \in 0 .. N /\ \A n \in 1 .. N : n \in 0 .. N /\ n - 1 \in 0 .. N
  BY <1>1, <1>9
<1>11. ASSUME NEW n \in 1 .. N
       PROVE  p[n] = p[n - 1] \o Bytes(n, 0, HEADER + a[n])
  <2>1. n \in 0 .. N /\ n # 0
    OBVIOUS
  <2> QED BY <1>9, <2>1, Zenon
<1>12. \A n \in 0 .. N : p[n] \in V
  <2>1. 0 \in S
    BY <1>1, <1>10
  <2>2. ASSUME NEW k \in 1 .. N, k - 1 \in S
        PROVE  k \in S
    <3>1. p[k - 1] \o Bytes(k, 0, HEADER + a[k]) \in V
      BY <1>2, <2>2 DEF V
    <3> QED BY <1>10, <1>11, <3>1
  <2> HIDE DEF S
  <2>3. 0 .. N \subseteq S
    BY <1>1, <2>1, <2>2, Upward
  <2> QED BY <2>3 DEF S
<1> QED BY <1>5, <1>10, <1>11, <1>12 DEF V

\* A sequence joined to another is its last part.
LEMMA LastOfJoined ==
  ASSUME NEW S, NEW x \in Seq(S), NEW y \in Seq(S)
  PROVE  Last(x \o y, Len(y)) = y
<1> DEFINE z == x \o y
           m == Len(x) + 1
           n == Len(x) + Len(y)
           t == SubSeq(z, m, n)
<1>1. Len(x) \in Nat /\ Len(y) \in Nat /\ m \in Int /\ n \in Int
  BY LenProperties
<1>2. /\ z \in Seq(S) /\ Len(z) = n
      /\ \A i \in 1 .. n : z[i] = IF i <= Len(x) THEN x[i] ELSE y[i - Len(x)]
  BY ConcatProperties
<1> HIDE DEF z
<1>3. \A i \in m .. n : z[i] \in S
  <2>1. \A i \in m .. n : i \in 1 .. n
    BY <1>1
  <2> QED BY <1>2, <2>1
<1>4. /\ t \in Seq(S) /\ Len(t) = Len(y)
      /\ \A i \in 1 .. n - m + 1 : t[i] = z[m + i - 1]
  <2> HIDE DEF m, n
  <2>1. /\ t \in Seq(S) /\ Len(t) = IF m <= n THEN n - m + 1 ELSE 0
        /\ \A i \in 1 .. n - m + 1 : t[i] = z[m + i - 1]
    BY <1>1, <1>3, SubSeqProperties
  <2> QED BY <1>1, <2>1 DEF m, n
<1> HIDE DEF t
<1>5. ASSUME NEW i \in 1 .. Len(t)
      PROVE  t[i] = y[i]
  <2>1. i \in 1 .. n - m + 1 /\ m + i - 1 \in 1 .. n /\ ~(m + i - 1 <= Len(x))
        /\ (m + i - 1) - Len(x) = i
    BY <1>1, <1>4
  <2> HIDE DEF m, n
  <2>2. t[i] = z[m + i - 1]
    BY <1>4, <2>1
  <2>3. z[m + i - 1] = y[(m + i - 1) - Len(x)]
    BY <1>2, <2>1
  <2> QED BY <2>1, <2>2, <2>3
<1>6. t = y
  BY <1>4, <1>5, SeqEqual
<1>7. Len(z) - Len(y) + 1 = m
  BY <1>1, <1>2
<1>8. Last(z, Len(y)) = t
  BY <1>1, <1>2, <1>7 DEF Last, t
<1> QED BY <1>6, <1>8 DEF z

\* Messages sent later do not change how the earlier ones look.
LEMMA FramesStay ==
  ASSUME NEW a \in Seq(Nat), NEW c \in Seq(Nat), NEW n \in 0 .. Len(a)
  PROVE  Frames(a \o c, n) = Frames(a, n)
<1> DEFINE d == a \o c
           S == {k \in 0 .. Len(a) : Frames(d, k) = Frames(a, k)}
<1>1. Len(a) \in Nat /\ Len(c) \in Nat
  OBVIOUS
<1>2. /\ d \in Seq(Nat) /\ Len(d) = Len(a) + Len(c)
      /\ \A i \in 1 .. Len(a) : d[i] = a[i]
  OBVIOUS
<1> HIDE DEF d
<1>3. 0 \in S
  BY <1>1, <1>2, FramesAre
<1>4. ASSUME NEW k \in 1 .. Len(a), k - 1 \in S
      PROVE  k \in S
  <2>1. k \in 1 .. Len(d) /\ d[k] = a[k]
    BY <1>1, <1>2
  <2>2. Frames(d, k) = Frames(d, k - 1) \o Bytes(k, 0, HEADER + d[k])
    BY <1>2, <2>1, FramesAre
  <2>3. Frames(a, k) = Frames(a, k - 1) \o Bytes(k, 0, HEADER + a[k])
    BY FramesAre
  <2>4. Frames(d, k - 1) = Frames(a, k - 1)
    BY <1>4
  <2>5. Frames(d, k) = Frames(a, k)
    BY <2>1, <2>2, <2>3, <2>4, Zenon
  <2>6. k \in 0 .. Len(a)
    OBVIOUS
  <2> QED BY <2>5, <2>6
<1> HIDE DEF S
<1>5. 0 .. Len(a) \subseteq S
  BY <1>1, <1>3, <1>4, Upward
<1> QED BY <1>5 DEF S, d

LEMMA FramesLonger ==
  ASSUME NEW a \in Seq(Nat), NEW n \in 1 .. Len(a)
  PROVE  /\ Len(Frames(a, n)) \in Nat /\ Len(Frames(a, n - 1)) \in Nat
         /\ Len(Frames(a, n)) = Len(Frames(a, n - 1)) + HEADER + a[n]
<1> DEFINE x == Frames(a, n - 1)
           h == HEADER + a[n]
           y == Bytes(n, 0, h)
<1>1. n - 1 \in 0 .. Len(a) /\ n \in Nat /\ a[n] \in Nat /\ h \in Nat
  BY DEF HEADER
<1> HIDE DEF h
<1>2. x \in Seq(Pairs)
  BY <1>1, FramesAre
<1>3. y \in Seq(Pairs) /\ Len(y) = h
  BY <1>1, BytesAre
<1>4. Frames(a, n) = x \o y
  BY FramesAre DEF h
<1> HIDE DEF x, y
<1>5. Len(x) \in Nat /\ Len(x \o y) = Len(x) + h
  <2>1. Len(x \o y) = Len(x) + Len(y)
    BY <1>2, <1>3, ConcatProperties, Zenon
  <2>2. Len(x) \in Nat
    BY <1>2, LenProperties
  <2> QED BY <1>3, <2>1, <2>2, Zenon
<1>6. Len(Frames(a, n)) = Len(x) + h
  BY <1>4, <1>5
<1>7. Len(x) + h = Len(x) + HEADER + a[n]
  <2>1. Len(x) \in Nat /\ a[n] \in Nat
    BY <1>1, <1>5
  <2>2. h = HEADER + a[n]
    BY DEF h
  <2> DEFINE l == Len(x)
             w == a[n]
  <2>3. l \in Nat /\ w \in Nat /\ h = HEADER + w
    BY <2>1, <2>2
  <2> HIDE DEF x, h, l, w
  <2>4. l + h = l + HEADER + w
    BY <2>3 DEF HEADER
  <2> QED BY <2>4 DEF l, w
<1>8. Len(x) + h \in Nat
  BY <1>1, <1>5
<1> QED BY <1>5, <1>6, <1>7, <1>8 DEF x

\* Appending is associative.
LEMMA Regrouped ==
  ASSUME NEW x \in Seq(Pairs), NEW y \in Seq(Pairs), NEW z \in Seq(Pairs)
  PROVE  (x \o y) \o z = x \o (y \o z)
  BY ConcatAssociative

\* The first messages are the first part of all.
LEMMA FramesSplit ==
  ASSUME NEW a \in Seq(Nat), NEW m \in 0 .. Len(a)
  PROVE  \E r \in Seq(Pairs) : Frames(a, Len(a)) = Frames(a, m) \o r
<1> DEFINE n == Len(a) - m
           S == {d \in 0 .. n : \E r \in Seq(Pairs) : Frames(a, m + d) = Frames(a, m) \o r}
<1>1. n \in Nat /\ m \in Nat /\ m + n = Len(a) /\ Frames(a, m) \in Seq(Pairs)
  BY FramesAre
<1>2. 0 \in S
  <2>1. Frames(a, m) = Frames(a, m) \o <<>> /\ <<>> \in Seq(Pairs)
    BY <1>1, ConcatEmptySeq
  <2>2. m + 0 = m /\ 0 \in 0 .. n
    BY <1>1
  <2> QED BY <2>1, <2>2
<1>3. ASSUME NEW d \in 1 .. n, d - 1 \in S
      PROVE  d \in S
  <2>1. PICK r \in Seq(Pairs) : Frames(a, m + (d - 1)) = Frames(a, m) \o r
    BY <1>3
  <2> DEFINE k == m + d
             y == Bytes(k, 0, HEADER + a[k])
  <2>2. k \in 1 .. Len(a) /\ k - 1 = m + (d - 1) /\ k \in Nat
    BY <1>1
  <2>3. HEADER + a[k] \in Nat
    BY <2>2 DEF HEADER
  <2>4. y \in Seq(Pairs)
    BY <2>2, <2>3, BytesAre
  <2>5. Frames(a, k) = Frames(a, k - 1) \o y
    BY <2>2, FramesAre
  <2> HIDE DEF k, y
  <2>6. Frames(a, k) = (Frames(a, m) \o r) \o y
    <3>1. Frames(a, k - 1) = Frames(a, m) \o r
      BY <2>1, <2>2
    <3> QED BY <2>5, <3>1, Zenon
  <2>7. (Frames(a, m) \o r) \o y = Frames(a, m) \o (r \o y)
    <3> DEFINE F == Frames(a, m)
    <3>1. F \in Seq(Pairs)
      BY <1>1
    <3> HIDE DEF F
    <3>2. (F \o r) \o y = F \o (r \o y)
      BY <2>1, <2>4, <3>1, Regrouped, Zenon
    <3> QED BY <3>2 DEF F
  <2>8. r \o y \in Seq(Pairs)
    BY <2>1, <2>4, ConcatProperties
  <2>9. Frames(a, m + d) = Frames(a, m) \o (r \o y)
    BY <2>6, <2>7, Zenon DEF k
  <2>10. d \in 0 .. n
    OBVIOUS
  <2> HIDE DEF n
  <2> QED BY <2>8, <2>9, <2>10
<1> HIDE DEF S
<1>4. 0 .. n \subseteq S
  BY <1>1, <1>2, <1>3, Upward
<1>5. n \in S
  BY <1>1, <1>4
<1> QED BY <1>1, <1>5 DEF S

LEMMA Joined ==
  ASSUME NEW S, NEW x \in Seq(S), NEW y \in Seq(S)
  PROVE  x \o y \in Seq(S) /\ Len(x) \in Nat /\ Len(y) \in Nat /\ Len(x \o y) = Len(x) + Len(y)
  OBVIOUS

Regroups(x, y, z, u) == (x \o (y \o z)) \o u = (x \o y) \o (z \o u)

LEMMA FourRegrouped ==
  ASSUME NEW x \in Seq(Pairs), NEW y \in Seq(Pairs), NEW z \in Seq(Pairs), NEW u \in Seq(Pairs)
  PROVE  Regroups(x, y, z, u)
<1>1. (x \o y) \o z = x \o (y \o z)
  BY Regrouped, Zenon
<1> DEFINE w == x \o y
<1>2. w \in Seq(Pairs)
  BY Joined
<1> HIDE DEF w
<1>3. (w \o z) \o u = w \o (z \o u)
  BY <1>2, Regrouped, Zenon
<1> QED BY <1>1, <1>3, Zenon DEF w, Regroups

LEMMA LengthsAre ==
  ASSUME TypeOK
  PROVE  accepted \in Seq(Nat) /\ Len(accepted) \in Nat /\ Len(lqueue_omessages) \in Nat
<1>1. MsgLens \subseteq Nat
  BY LengthsAssumption
<1>2. accepted \in Seq(MsgLens) /\ lqueue_omessages \in Seq(1 .. MaxMessages)
  BY DEF TypeOK
<1>3. Len(accepted) \in Nat /\ Len(lqueue_omessages) \in Nat
  BY <1>2, LenProperties
<1>4. accepted \in [1 .. Len(accepted) -> MsgLens]
  BY <1>2, LenProperties
<1>5. accepted \in [1 .. Len(accepted) -> Nat]
  BY <1>1, <1>4
<1> QED BY <1>3, <1>5

Done == Len(accepted) - Len(lqueue_omessages)

Backlog(f) ==
    f = [n \in 0 .. Len(lqueue_omessages) |->
          IF n = 0 THEN 0 ELSE f[n - 1] + HEADER + accepted[lqueue_omessages[n]]]

LEMMA FromStart ==
  ASSUME NEW x \in Nat, NEW y \in Nat, NEW z \in Nat, NEW w \in Nat, x = y + HEADER + w
  PROVE  x - z = (y - z) + HEADER + w
  BY DEF HEADER

\* The bytes a stream has still to send are those behind its place.
LEMMA UnsentIs ==
  ASSUME TypeOK, Counted, Queued
  PROVE  Unsent = Len(Frames(accepted, Len(accepted))) - Len(Frames(accepted, Done))
                    - (IF is_trunc THEN HEADER + trunc_seek ELSE 0)
<1> DEFINE a == accepted
           L == Len(lqueue_omessages)
           q == lqueue_omessages
           ln(n) == Len(Frames(a, n))
           g == [n \in 0 .. L |-> ln(Done + n) - ln(Done)]
           p == CHOOSE f : Backlog(f)
<1>1. a \in Seq(Nat) /\ Len(a) \in Nat /\ L \in Nat /\ L <= Len(a)
  BY LengthsAre DEF Counted
<1>2. Done \in Nat /\ Done + L = Len(a)
  BY <1>1 DEF Done
<1>3. \A n \in 1 .. L : q[n] = Done + n
  BY <1>1 DEF Queued, Rest, Done
<1>4. ASSUME NEW n \in 1 .. L
      PROVE  /\ Done + n \in 1 .. Len(a) /\ Done + (n - 1) = (Done + n) - 1
             /\ ln(Done + n) \in Nat /\ ln(Done + (n - 1)) \in Nat /\ a[Done + n] \in Nat
             /\ ln(Done + n) = ln(Done + (n - 1)) + HEADER + a[Done + n]
  <2>1. Done + n \in 1 .. Len(a) /\ Done + (n - 1) = (Done + n) - 1
    BY <1>1, <1>2
  <2>2. a[Done + n] \in Nat
    BY <1>1, <2>1
  <2> DEFINE k == Done + n
  <2>3. k \in 1 .. Len(a)
    BY <2>1
  <2> HIDE DEF k
  <2>4. ln(k) \in Nat /\ ln(k - 1) \in Nat /\ ln(k) = ln(k - 1) + HEADER + a[k]
    BY <1>1, <2>3, FramesLonger
  <2>5. ln(Done + (n - 1)) = ln(k - 1)
    BY <2>1 DEF k
  <2> QED BY <2>1, <2>2, <2>4, <2>5 DEF k
<1>5. ln(Done) \in Nat
  <2>1. Done \in 0 .. Len(a)
    BY <1>1, <1>2
  <2>2. Frames(a, Done) \in Seq(Pairs)
    BY <1>1, <2>1, FramesAre
  <2> QED BY <2>2, LenProperties
<1> DEFINE e == [n \in 0 .. L |-> ln(Done + n)]
<1>6. /\ \A n \in 1 .. L : /\ q[n] = Done + n /\ e[n] \in Nat /\ e[n - 1] \in Nat
                           /\ a[Done + n] \in Nat /\ e[n] = e[n - 1] + HEADER + a[Done + n]
      /\ e[0] = ln(Done)
  <2>1. ASSUME NEW n \in 1 .. L
        PROVE  e[n] = ln(Done + n) /\ e[n - 1] = ln(Done + (n - 1))
    <3>1. n \in 0 .. L /\ n - 1 \in 0 .. L
      BY <1>1
    <3> HIDE DEF ln, L
    <3> QED BY <3>1
  <2>2. e[0] = ln(Done)
    <3>1. 0 \in 0 .. L /\ Done + 0 = Done
      BY <1>1, <1>2
    <3> HIDE DEF ln, L
    <3> QED BY <3>1
  <2> HIDE DEF e, ln
  <2> QED BY <1>3, <1>4, <2>1, <2>2
<1>7. Backlog([n \in 0 .. L |-> e[n] - e[0]])
  <2> HIDE DEF e
  <2> DEFINE h == [n \in 0 .. L |-> e[n] - e[0]]
  <2>1. ASSUME NEW n \in 0 .. L
        PROVE  h[n] = IF n = 0 THEN 0 ELSE h[n - 1] + HEADER + a[q[n]]
    <3>1. CASE n = 0
      BY <1>5, <1>6, <3>1
    <3>2. CASE n # 0
      <4>1. n \in 1 .. L /\ n - 1 \in 0 .. L
        BY <3>2
      <4>2. h[n] = e[n] - e[0] /\ h[n - 1] = e[n - 1] - e[0]
        BY <4>1
      <4>3. a[q[n]] = a[Done + n]
        BY <1>6, <4>1
      <4> HIDE DEF h
      <4>4. h[n] = h[n - 1] + HEADER + a[Done + n]
        <5> DEFINE u == e[n]
                   v == e[n - 1]
                   z == e[0]
                   w == a[Done + n]
        <5>1. u \in Nat /\ v \in Nat /\ z \in Nat /\ w \in Nat /\ u = v + HEADER + w
          BY <1>5, <1>6, <4>1
        <5> HIDE DEF u, v, z, w
        <5>2. u - z = (v - z) + HEADER + w
          BY <5>1, FromStart
        <5> QED BY <4>2, <5>2, Zenon DEF u, v, z, w
      <4> QED BY <3>2, <4>3, <4>4
    <3> QED BY <3>1, <3>2
  <2>2. h = [n \in 0 .. L |-> h[n]]
    OBVIOUS
  <2> HIDE DEF h
  <2>3. h = [n \in 0 .. L |-> IF n = 0 THEN 0 ELSE h[n - 1] + HEADER + a[q[n]]]
    BY <2>1, <2>2
  <2>4. Backlog(h)
    BY <2>3 DEF Backlog
  <2> QED BY <2>4 DEF h
<1>8. Backlog(p)
  BY <1>7
<1>9. Unsent = p[L] - (IF is_trunc THEN HEADER + trunc_seek ELSE 0)
  BY DEF Unsent, Backlog
<1> HIDE DEF p
<1>10. \A n \in 0 .. L : p[n] = IF n = 0 THEN 0 ELSE p[n - 1] + HEADER + a[q[n]]
  BY <1>8 DEF Backlog
<1> DEFINE S == {n \in 0 .. L : p[n] = e[n] - e[0]}
<1>11. L \in S
  <2> HIDE DEF e
  <2>1. 0 \in S
    <3>1. p[0] = 0 /\ 0 \in 0 .. L
      BY <1>1, <1>10
    <3> QED BY <1>5, <1>6, <3>1
  <2>2. ASSUME NEW n \in 1 .. L, n - 1 \in S
        PROVE  n \in S
    <3>1. n \in 0 .. L /\ n # 0
      OBVIOUS
    <3>2. p[n] = p[n - 1] + HEADER + a[q[n]]
      BY <1>10, <3>1, Zenon
    <3>3. a[q[n]] = a[Done + n]
      BY <1>6
    <3>4. p[n - 1] = e[n - 1] - e[0]
      BY <2>2
    <3>5. p[n] = e[n] - e[0]
      <4> DEFINE u == e[n]
                 v == e[n - 1]
                 z == e[0]
                 w == a[Done + n]
      <4>1. u \in Nat /\ v \in Nat /\ z \in Nat /\ w \in Nat /\ u = v + HEADER + w
        BY <1>5, <1>6
      <4> HIDE DEF u, v, z, w
      <4>2. u - z = (v - z) + HEADER + w
        BY <4>1, FromStart
      <4> QED BY <3>2, <3>3, <3>4, <4>2, Zenon DEF u, v, z, w
    <3> QED BY <3>1, <3>5
  <2> HIDE DEF S
  <2>3. 0 .. L \subseteq S
    BY <1>1, <2>1, <2>2, Upward
  <2> QED BY <1>1, <2>3
<1>12. p[L] = e[L] - e[0]
  BY <1>11
<1>13. e[L] = ln(Len(a))
  <2>1. L \in 0 .. L /\ Done + L = Len(a)
    BY <1>1, <1>2
  <2> HIDE DEF ln, L, a
  <2> QED BY <2>1
<1> HIDE DEF e
<1> QED BY <1>6, <1>9, <1>12, <1>13

-----------------------------------------------------------------------------
(* FramesInOrder follows from the invariant *)

\* What is before a stream's place, and what the queue stands for behind it,
\* is all there is.
LEMMA PlaceSplits ==
  ASSUME TypeOK, Counted, Queued, Begun, stream = "open"
  PROVE  \E r \in Seq(Pairs) :
           /\ Framed = Place(lqueue_omessages, is_trunc, trunc_seek) \o r
           /\ Len(r) = Unsent
           /\ Place(lqueue_omessages, is_trunc, trunc_seek) \in Seq(Pairs)
<1> DEFINE a == accepted
           q == lqueue_omessages
           X == Frames(a, Done)
           F == Frames(a, Len(a))
<1>1. /\ a \in Seq(Nat) /\ Len(a) \in Nat /\ Len(q) \in Nat
      /\ Done \in 0 .. Len(a) /\ Done \in Nat
  BY LengthsAre DEF Counted, Done
<1>2. Framed = F
  BY DEF Framed, Frames
<1>3. X \in Seq(Pairs) /\ Len(X) \in Nat
  BY <1>1, FramesAre, LenProperties
<1>4. Unsent = Len(F) - Len(X) - (IF is_trunc THEN HEADER + trunc_seek ELSE 0)
  BY UnsentIs
<1>5. CASE ~is_trunc
  <2>1. PICK r \in Seq(Pairs) : F = X \o r
    BY <1>1, FramesSplit
  <2>2. Place(q, is_trunc, trunc_seek) = X \o <<>>
    BY <1>5 DEF Place, Done
  <2> HIDE DEF X, F
  <2>3. X \o <<>> = X
    BY <1>3
  <2>4. Len(F) = Len(X) + Len(r) /\ Len(r) \in Nat
    BY <1>3, <2>1, Joined
  <2>5. Len(r) = Unsent
    BY <1>3, <1>4, <1>5, <2>4
  <2> QED BY <1>2, <1>3, <2>1, <2>2, <2>3, <2>5
<1>6. CASE is_trunc
  <2> DEFINE k == Done + 1
             left == a[k] - trunc_seek
             Y == Bytes(k, 0, HEADER + trunc_seek)
             Z == Bytes(k, HEADER + trunc_seek, left)
  <2>1. Len(q) >= 1 /\ q # <<>>
    BY <1>1, <1>6 DEF Begun, TypeOK
  <2>2. Head(q) = k
    <3>1. Head(q) = q[1] /\ 1 \in 1 .. Len(q)
      BY <1>1, <2>1
    <3>2. q[1] = Rest(Len(q))[1]
      BY DEF Queued
    <3>3. Rest(Len(q))[1] = Len(a) - Len(q) + 1
      BY <3>1 DEF Rest
    <3> QED BY <3>1, <3>2, <3>3 DEF Done
  <2>3. k \in 1 .. Len(a) /\ k - 1 = Done /\ k \in Nat
    BY <1>1, <2>1 DEF Done
  <2>4. trunc_seek \in Nat /\ a[k] \in Nat /\ trunc_seek <= a[k]
    <3>1. trunc_seek \in Nat /\ a[k] \in Nat
      BY <1>1, <2>3 DEF TypeOK
    <3>2. trunc_seek < a[k] \/ trunc_seek = 0
      BY <1>6, <2>1, <2>2 DEF Begun, Within
    <3> QED BY <3>1, <3>2
  <2>5. left \in Nat /\ trunc_seek + left = a[k]
    BY <2>4
  <2>6. HEADER + trunc_seek \in Nat /\ 0 + (HEADER + trunc_seek) = HEADER + trunc_seek
        /\ (HEADER + trunc_seek) + left = HEADER + a[k]
    <3> HIDE DEF k, left
    <3> QED BY <2>4, <2>5 DEF HEADER
  <2>7. Y \in Seq(Pairs) /\ Len(Y) = HEADER + trunc_seek
    <3> DEFINE h == HEADER + trunc_seek
    <3>1. h \in Nat /\ 0 \in Nat
      BY <2>6
    <3> HIDE DEF h, k
    <3>2. Bytes(k, 0, h) \in Seq(Pairs) /\ Len(Bytes(k, 0, h)) = h
      BY <2>3, <3>1, BytesAre
    <3> QED BY <3>2, Zenon DEF h
  <2>8. Z \in Seq(Pairs) /\ Len(Z) = left
    <3> DEFINE h == HEADER + trunc_seek
    <3>1. h \in Nat
      BY <2>6
    <3> HIDE DEF h, left, k
    <3>2. Bytes(k, h, left) \in Seq(Pairs) /\ Len(Bytes(k, h, left)) = left
      BY <2>3, <2>5, <3>1, BytesAre
    <3> QED BY <3>2 DEF h
  <2>9. Y \o Z = Bytes(k, 0, HEADER + a[k])
    <3> DEFINE h == HEADER + trunc_seek
               l == left
    <3>1. h \in Nat /\ l \in Nat /\ 0 + h = h /\ h + l = HEADER + a[k]
      BY <2>5, <2>6
    <3> HIDE DEF h, l, k
    <3>2. k \in Nat /\ 0 \in Nat /\ h \in Nat /\ l \in Nat
      BY <2>3, <3>1
    <3>3. Join(k, 0, h, l)
      BY <3>2, BytesJoin
    <3> QED BY <3>1, <3>3 DEF h, l, Join
  <2>10. Frames(a, k) = X \o (Y \o Z)
    <3>1. Frames(a, k) = Frames(a, k - 1) \o Bytes(k, 0, HEADER + a[k])
      BY <1>1, <2>3, FramesAre
    <3>2. Frames(a, k - 1) = X
      BY <2>3
    <3> QED BY <2>9, <3>1, <3>2, Zenon
  <2>11. PICK r \in Seq(Pairs) : F = Frames(a, k) \o r
    <3>1. k \in 0 .. Len(a)
      BY <2>3
    <3> HIDE DEF k
    <3> QED BY <1>1, <3>1, FramesSplit
  <2>12. Place(q, is_trunc, trunc_seek) = X \o Y
    BY <1>6 DEF Place, Done
  <2> HIDE DEF X, Y, Z, F, left, k
  <2>13. F = (X \o Y) \o (Z \o r)
    <3>1. X \in Seq(Pairs) /\ Y \in Seq(Pairs) /\ Z \in Seq(Pairs)
      BY <1>3, <2>7, <2>8
    <3>2. Regroups(X, Y, Z, r)
      BY <3>1, FourRegrouped
    <3> QED BY <2>10, <2>11, <3>2, Zenon DEF Regroups
  <2>14. Z \o r \in Seq(Pairs) /\ Len(Z \o r) = Len(Z) + Len(r) /\ Len(r) \in Nat
    BY <2>8, Joined
  <2>15. X \o Y \in Seq(Pairs) /\ Len(X \o Y) = Len(X) + Len(Y)
    BY <1>3, <2>7, Joined
  <2>16. Len(F) = (Len(X) + Len(Y)) + (Len(Z) + Len(r))
    <3> DEFINE u == X \o Y
               v == Z \o r
    <3>1. u \in Seq(Pairs) /\ v \in Seq(Pairs)
      BY <2>14, <2>15
    <3> HIDE DEF u, v
    <3>2. Len(u \o v) = Len(u) + Len(v)
      BY <3>1, Joined
    <3>3. F = u \o v /\ Len(u) = Len(X) + Len(Y) /\ Len(v) = Len(Z) + Len(r)
      BY <2>13, <2>14, <2>15, Zenon DEF u, v
    <3> QED BY <3>2, <3>3, Zenon
  <2>17. Len(Z \o r) = Unsent
    <3>1. Len(F) = Len(X) + (HEADER + trunc_seek) + Len(Z \o r)
      BY <1>3, <2>6, <2>7, <2>14, <2>16
    <3>2. Len(Z \o r) \in Nat /\ Len(X) \in Nat
      BY <1>3, <2>5, <2>8, <2>14
    <3> QED BY <1>4, <1>6, <2>6, <3>1, <3>2
  <2> QED BY <1>2, <2>12, <2>13, <2>14, <2>15, <2>17
<1> QED BY <1>5, <1>6

LEMMA InvInOrder ==
  ASSUME IInv
  PROVE  FramesInOrder
<1> SUFFICES ASSUME ~garbled, stream = "open"
             PROVE  wire \o Last(Framed, Unsent) = Framed
  BY DEF FramesInOrder
<1> DEFINE P == Place(lqueue_omessages, is_trunc, trunc_seek)
<1>1. PICK r \in Seq(Pairs) : Framed = P \o r /\ Len(r) = Unsent /\ P \in Seq(Pairs)
  BY PlaceSplits DEF IInv
<1>2. wire = P
  BY DEF IInv, Sent
<1> HIDE DEF P
<1>3. Last(P \o r, Len(r)) = r
  BY <1>1, LastOfJoined
<1> QED BY <1>1, <1>2, <1>3

-----------------------------------------------------------------------------
(* The loop of data_source_read_callback2 *)

TurnType == [out : Seq(Pairs), queue : Seq(1 .. MaxMessages), trunc : BOOLEAN,
             seek : Nat, end : {"no", "eof", "full", "assert"}]

\* A queue holds the last messages accepted.
IsRest(q) == /\ q \in Seq(1 .. MaxMessages) /\ Len(q) <= Len(accepted)
             /\ q = Rest(Len(q))

Here == Place(lqueue_omessages, is_trunc, trunc_seek)

\* What holds of the loop's variables after any number of turns.
Loop(b) ==
    {s \in TurnType :
        /\ Len(s.out) <= b
        /\ IsRest(s.queue)
        /\ s.trunc => s.queue # <<>>
        /\ Within(s.queue, s.trunc, s.seek)
        /\ Here \o s.out = Place(s.queue, s.trunc, s.seek)}

LEMMA RestIs ==
  ASSUME TypeOK, NEW q, IsRest(q), q # <<>>
  PROVE  /\ Len(q) \in Nat /\ Len(q) >= 1 /\ Len(accepted) \in Nat
         /\ Head(q) \in 1 .. Len(accepted)
         /\ Head(q) = Len(accepted) - Len(q) + 1
         /\ accepted[Head(q)] \in Nat /\ accepted[Head(q)] \in MsgLens
         /\ IsRest(Tail(q)) /\ Len(Tail(q)) = Len(q) - 1
<1>1. q \in Seq(1 .. MaxMessages) /\ Len(q) <= Len(accepted) /\ q = Rest(Len(q))
  BY DEF IsRest
<1>2. Len(q) \in Nat /\ Len(q) >= 1 /\ Len(accepted) \in Nat
  <2>1. Len(accepted) \in Nat
    BY LengthsAre
  <2> QED BY <1>1, <2>1
<1>3. Head(q) = Len(accepted) - Len(q) + 1
  <2>1. Head(q) = q[1] /\ 1 \in 1 .. Len(q)
    BY <1>1, <1>2
  <2>2. q[1] = Rest(Len(q))[1]
    BY <1>1
  <2>3. Rest(Len(q))[1] = Len(accepted) - Len(q) + 1
    BY <2>1 DEF Rest
  <2> QED BY <2>1, <2>2, <2>3
<1>4. Head(q) \in 1 .. Len(accepted)
  BY <1>1, <1>2, <1>3
<1>5. accepted[Head(q)] \in Nat /\ accepted[Head(q)] \in MsgLens
  <2>1. accepted \in Seq(Nat) /\ accepted \in Seq(MsgLens)
    BY LengthsAre DEF TypeOK
  <2> DEFINE i == Head(q)
  <2>2. i \in 1 .. Len(accepted)
    BY <1>4
  <2> HIDE DEF i
  <2>3. accepted[i] \in Nat /\ accepted[i] \in MsgLens
    BY <2>1, <2>2
  <2> QED BY <2>3 DEF i
<1>6. /\ Tail(q) \in Seq(1 .. MaxMessages) /\ Len(Tail(q)) = Len(q) - 1
      /\ \A i \in 1 .. Len(Tail(q)) : Tail(q)[i] = q[i + 1]
  BY <1>1, HeadTailProperties
<1>7. Tail(q) = Rest(Len(q) - 1)
  <2> DEFINE t == Tail(q)
             n == Len(q) - 1
  <2>1. t = [i \in 1 .. n |-> t[i]] /\ n \in Nat
    <3>1. t \in Seq(1 .. MaxMessages) /\ Len(t) = n
      BY <1>6
    <3> HIDE DEF t, n
    <3>2. t \in [1 .. n -> 1 .. MaxMessages]
      BY <3>1, LenProperties
    <3>3. n \in Nat
      BY <3>1, LenProperties
    <3> QED BY <3>2, <3>3
  <2>2. ASSUME NEW i \in 1 .. n
        PROVE  t[i] = Len(accepted) - n + i
    <3>1. t[i] = q[i + 1] /\ i + 1 \in 1 .. Len(q)
      BY <1>2, <1>6
    <3>2. q[i + 1] = Rest(Len(q))[i + 1]
      BY <1>1
    <3>3. Rest(Len(q))[i + 1] = Len(accepted) - Len(q) + (i + 1)
      BY <3>1 DEF Rest
    <3>4. Len(accepted) - Len(q) + (i + 1) = Len(accepted) - n + i
      BY <1>2
    <3> QED BY <3>1, <3>2, <3>3, <3>4
  <2> HIDE DEF t, n
  <2>3. t = [i \in 1 .. n |-> Len(accepted) - n + i]
    BY <2>1, <2>2
  <2> QED BY <2>3 DEF t, n, Rest
<1>8. IsRest(Tail(q))
  BY <1>1, <1>2, <1>6, <1>7 DEF IsRest
<1> QED BY <1>2, <1>3, <1>4, <1>5, <1>6, <1>8

LEMMA PlaceIs ==
  ASSUME TypeOK, NEW q, IsRest(q), NEW t \in BOOLEAN, NEW k \in Nat
  PROVE  Place(q, t, k) \in Seq(Pairs)
<1> DEFINE d == Len(accepted) - Len(q)
           X == Frames(accepted, d)
           Y == Bytes(d + 1, 0, HEADER + k)
<1>1. d \in 0 .. Len(accepted) /\ d + 1 \in Nat /\ HEADER + k \in Nat
  <2>1. q \in Seq(1 .. MaxMessages) /\ Len(q) <= Len(accepted) /\ Len(accepted) \in Nat
    BY LengthsAre DEF IsRest
  <2>2. Len(q) \in Nat
    BY <2>1, LenProperties
  <2> QED BY <2>1, <2>2 DEF HEADER
<1>2. X \in Seq(Pairs)
  BY <1>1, LengthsAre, FramesAre
<1>3. Y \in Seq(Pairs)
  <2> HIDE DEF d
  <2> QED BY <1>1, BytesAre
<1>4. Place(q, t, k) = X \o (IF t THEN Y ELSE <<>>)
  BY DEF Place
<1> HIDE DEF X, Y
<1>5. X \o Y \in Seq(Pairs) /\ X \o <<>> \in Seq(Pairs)
  BY <1>2, <1>3
<1> QED BY <1>4, <1>5

\* The place moves by what is written: some of the payload, ...
LEMMA PlaceInside ==
  ASSUME TypeOK, NEW q, IsRest(q), q # <<>>, NEW k \in Nat, NEW n \in Nat
  PROVE  Place(q, TRUE, k) \o Bytes(Head(q), HEADER + k, n) = Place(q, TRUE, k + n)
<1> DEFINE d == Len(accepted) - Len(q)
           m == d + 1
           h == HEADER + k
           X == Frames(accepted, d)
           Y == Bytes(m, 0, h)
           Z == Bytes(m, h, n)
<1>1. /\ d \in 0 .. Len(accepted) /\ m \in Nat /\ h \in Nat /\ 0 \in Nat /\ 0 + h = h
      /\ h + n = HEADER + (k + n) /\ Head(q) = m
  BY RestIs DEF HEADER
<1>2. X \in Seq(Pairs)
  BY <1>1, LengthsAre, FramesAre
<1>3. Y \in Seq(Pairs) /\ Z \in Seq(Pairs)
  <2> HIDE DEF m, h
  <2> QED BY <1>1, BytesAre
<1>4. Y \o Z = Bytes(m, 0, h + n)
  <2> HIDE DEF m, h
  <2>1. m \in Nat /\ 0 \in Nat /\ h \in Nat /\ n \in Nat
    BY <1>1
  <2>2. Join(m, 0, h, n)
    BY <2>1, BytesJoin
  <2>3. 0 + h = h
    BY <1>1
  <2> QED BY <2>2, <2>3 DEF Join
<1>5. Place(q, TRUE, k) = X \o Y
  BY DEF Place
<1>6. Place(q, TRUE, k + n) = X \o Bytes(m, 0, h + n)
  BY <1>1 DEF Place
<1>7. Bytes(Head(q), HEADER + k, n) = Z
  BY <1>1
<1> HIDE DEF X, Y, Z
<1>8. (X \o Y) \o Z = X \o (Y \o Z)
  BY <1>2, <1>3
<1> QED BY <1>4, <1>5, <1>6, <1>7, <1>8, Zenon

\* ... a header, ...
LEMMA PlaceAfterHeader ==
  ASSUME TypeOK, NEW q, IsRest(q), q # <<>>, NEW k \in Nat
  PROVE  Place(q, FALSE, k) \o Bytes(Head(q), 0, HEADER) = Place(q, TRUE, 0)
<1> DEFINE d == Len(accepted) - Len(q)
           X == Frames(accepted, d)
           Y == Bytes(d + 1, 0, HEADER)
<1>1. d \in 0 .. Len(accepted) /\ HEADER + 0 = HEADER /\ Head(q) = d + 1
  BY RestIs DEF HEADER
<1>2. X \in Seq(Pairs)
  BY <1>1, LengthsAre, FramesAre
<1>3. Place(q, FALSE, k) = X \o <<>> /\ Place(q, TRUE, 0) = X \o Y
  BY <1>1 DEF Place
<1>4. X \o <<>> = X
  <2> HIDE DEF X
  <2> QED BY <1>2
<1>5. Bytes(Head(q), 0, HEADER) = Y
  BY <1>1
<1> QED BY <1>3, <1>4, <1>5, Zenon

\* ... or all that was left of a message.
LEMMA PlaceAfterMessage ==
  ASSUME TypeOK, NEW q, IsRest(q), q # <<>>
  PROVE  Place(q, TRUE, accepted[Head(q)]) = Place(Tail(q), FALSE, 0)
<1> DEFINE d == Len(accepted) - Len(q)
           m == d + 1
           X == Frames(accepted, d)
           Y == Bytes(m, 0, HEADER + accepted[m])
           W == Frames(accepted, m)
<1>1. /\ m \in 1 .. Len(accepted) /\ m - 1 = d /\ Head(q) = m
      /\ Len(accepted) - Len(Tail(q)) = m
  BY RestIs
<1>2. accepted \in Seq(Nat)
  BY LengthsAre
<1>3. W = X \o Y
  <2>1. Frames(accepted, m) = Frames(accepted, m - 1) \o Bytes(m, 0, HEADER + accepted[m])
    BY <1>1, <1>2, FramesAre
  <2>2. Frames(accepted, m - 1) = X
    BY <1>1
  <2> QED BY <2>1, <2>2, Zenon
<1>4. W \in Seq(Pairs)
  <2>1. m \in 0 .. Len(accepted)
    BY <1>1
  <2> HIDE DEF m
  <2> QED BY <1>2, <2>1, FramesAre
<1>5. Place(q, TRUE, accepted[Head(q)]) = X \o Y
  BY <1>1 DEF Place
<1>6. Place(Tail(q), FALSE, 0) = W \o <<>>
  BY <1>1 DEF Place
<1>7. W \o <<>> = W
  <2> HIDE DEF W
  <2> QED BY <1>4
<1> QED BY <1>3, <1>5, <1>6, <1>7, Zenon

\* A turn has written x, and left these fields.
Wrote(s, t, x, q, c, k) ==
    /\ t \in TurnType
    /\ t.out = s.out \o x /\ t.queue = q /\ t.trunc = c /\ t.seek = k

LEMMA LoopIs ==
  ASSUME NEW b, NEW s \in Loop(b)
  PROVE  /\ s \in TurnType /\ s.out \in Seq(Pairs) /\ s.queue \in Seq(1 .. MaxMessages)
         /\ s.trunc \in BOOLEAN /\ s.seek \in Nat
         /\ Len(s.out) \in Nat /\ Len(s.out) <= b
         /\ IsRest(s.queue)
         /\ s.trunc => s.queue # <<>>
         /\ Within(s.queue, s.trunc, s.seek)
         /\ Here \o s.out = Place(s.queue, s.trunc, s.seek)
<1>1. s \in TurnType /\ Len(s.out) <= b /\ IsRest(s.queue) /\ (s.trunc => s.queue # <<>>)
      /\ Within(s.queue, s.trunc, s.seek)
      /\ Here \o s.out = Place(s.queue, s.trunc, s.seek)
  BY Zenon DEF Loop
<1>2. s.out \in Seq(Pairs) /\ s.queue \in Seq(1 .. MaxMessages)
      /\ s.trunc \in BOOLEAN /\ s.seek \in Nat
  BY <1>1 DEF TurnType
<1>3. Len(s.out) \in Nat
  BY <1>2, LenProperties
<1> QED BY <1>1, <1>2, <1>3, Zenon

LEMMA WroteKeeps ==
  ASSUME TypeOK, Here \in Seq(Pairs), NEW b, NEW s \in Loop(b), NEW t, NEW x \in Seq(Pairs),
         NEW q, NEW c, NEW k,
         Wrote(s, t, x, q, c, k),
         Len(s.out) + Len(x) <= b,
         IsRest(q), c => q # <<>>, Within(q, c, k),
         Place(s.queue, s.trunc, s.seek) \o x = Place(q, c, k)
  PROVE  t \in Loop(b) /\ Len(t.out) = Len(s.out) + Len(x)
<1> DEFINE o == s.out
           H == Here
<1>1. o \in Seq(Pairs) /\ H \in Seq(Pairs) /\ H \o o = Place(s.queue, s.trunc, s.seek)
  BY LoopIs
<1>2. t \in TurnType /\ t.out = o \o x /\ t.queue = q /\ t.trunc = c /\ t.seek = k
  BY DEF Wrote
<1> HIDE DEF o, H
<1>3. Len(o \o x) = Len(o) + Len(x)
  BY <1>1
<1>4. (H \o o) \o x = H \o (o \o x)
  <2>1. o \in Seq(Pairs) /\ H \in Seq(Pairs)
    BY <1>1
  <2> QED BY <2>1, Regrouped, Zenon
<1>5. H \o (o \o x) = Place(q, c, k)
  BY <1>1, <1>4, Zenon
<1>6. Len(t.out) = Len(o) + Len(x)
  BY <1>2, <1>3
<1>7. Len(t.out) <= b
  BY <1>6 DEF o
<1>8. H \o t.out = Place(t.queue, t.trunc, t.seek)
  BY <1>2, <1>5, Zenon
<1>9. IsRest(t.queue) /\ (t.trunc => t.queue # <<>>) /\ Within(t.queue, t.trunc, t.seek)
  BY <1>2, Zenon
<1>10. t \in Loop(b)
  BY <1>2, <1>7, <1>8, <1>9 DEF Loop, H
<1> QED BY <1>6, <1>10 DEF o

\* How the loop ends is no matter for the other fields.
LEMMA EndSet ==
  ASSUME NEW s \in TurnType, NEW e \in {"no", "eof", "full", "assert"}
  PROVE  LET t == [s EXCEPT !.end = e]
         IN  /\ t \in TurnType
             /\ t.out = s.out /\ t.queue = s.queue /\ t.trunc = s.trunc /\ t.seek = s.seek
<1> DEFINE t == [s EXCEPT !.end = e]
<1>1. t \in TurnType
  BY DEF TurnType
<1>2. t.out = s.out /\ t.queue = s.queue /\ t.trunc = s.trunc /\ t.seek = s.seek
  BY DEF TurnType
<1> QED BY <1>1, <1>2, Zenon

\* A turn writes within the buffer, and what it has written brings the stream
\* to the place its fields then stand for.
LEMMA TurnKeeps ==
  ASSUME TypeOK, Here \in Seq(Pairs), NEW b \in Nat, NEW s \in Loop(b)
  PROVE  /\ Turn(s, b) \in Loop(b)
         /\ Len(s.out) <= Len(Turn(s, b).out)
         /\ /\ s.end = "no" /\ s.queue # <<>> /\ s.out = <<>> /\ b >= HEADER
            /\ s.trunc => s.seek # accepted[Head(s.queue)]
            => Len(Turn(s, b).out) >= 1
<1> DEFINE t == Turn(s, b)
           q == s.queue
           k == s.seek
           msg == Head(q)
           rem == b - Len(s.out)
           left == accepted[msg] - k
<1>1. /\ s \in TurnType /\ s.out \in Seq(Pairs) /\ q \in Seq(1 .. MaxMessages)
      /\ s.trunc \in BOOLEAN /\ k \in Nat /\ Len(s.out) \in Nat /\ Len(s.out) <= b
      /\ IsRest(q) /\ (s.trunc => q # <<>>) /\ Within(q, s.trunc, k)
  BY LoopIs
<1>2. rem \in Nat /\ s.end \in {"no", "eof", "full", "assert"}
  BY <1>1 DEF TurnType
<1>3. ASSUME NEW u, u \in TurnType,
             u.out = s.out /\ u.queue = q /\ u.trunc = s.trunc /\ u.seek = k
      PROVE  u \in Loop(b) /\ Len(s.out) <= Len(u.out)
  <2>1. <<>> \in Seq(Pairs) /\ Len(<<>>) = 0
    OBVIOUS
  <2>2. s.out \o <<>> = s.out
    BY <1>1
  <2>3. Wrote(s, u, <<>>, q, s.trunc, k)
    BY <1>3, <2>2 DEF Wrote
  <2>4. Place(q, s.trunc, k) \o <<>> = Place(q, s.trunc, k)
    <3> DEFINE P == Place(q, s.trunc, k)
    <3>1. P \in Seq(Pairs)
      BY <1>1, PlaceIs
    <3> HIDE DEF P
    <3>2. P \o <<>> = P
      BY <3>1
    <3> QED BY <3>2 DEF P
  <2>5. Len(s.out) + Len(<<>>) <= b
    BY <1>1, <2>1
  <2>6. u \in Loop(b) /\ Len(u.out) = Len(s.out) + Len(<<>>)
    BY <1>1, <2>1, <2>3, <2>4, <2>5, WroteKeeps, Zenon
  <2> QED BY <1>1, <2>1, <2>6
<1>4. CASE s.end # "no"
  <2>1. t = s
    BY <1>4 DEF Turn
  <2> QED BY <1>1, <1>4, <2>1
<1>5. CASE s.end = "no" /\ q = <<>>
  <2>1. t = [s EXCEPT !.end = "eof"]
    BY <1>5 DEF Turn
  <2>2. t \in TurnType /\ t.out = s.out /\ t.queue = q /\ t.trunc = s.trunc /\ t.seek = k
    BY <1>1, <2>1, EndSet
  <2> HIDE DEF t
  <2>3. t \in Loop(b) /\ Len(s.out) <= Len(t.out)
    BY <1>3, <2>2
  <2> QED BY <1>5, <2>3 DEF t
<1>6. CASE s.end = "no" /\ q # <<>> /\ s.trunc
  <2>1. /\ msg \in 1 .. Len(accepted) /\ accepted[msg] \in Nat
        /\ IsRest(Tail(q))
    BY <1>1, <1>6, RestIs
  <2>2. (k < accepted[msg] \/ (k = 0 /\ accepted[msg] = 0)) /\ k <= accepted[msg] /\ left \in Nat
    <3>1. k < accepted[msg] \/ (k = 0 /\ accepted[msg] = 0)
      BY <1>1, <1>6 DEF Within
    <3> HIDE DEF msg, k
    <3> QED BY <1>1, <2>1, <3>1
  <2>3. CASE rem = 0 \/ left = 0
    <3>1. t = [s EXCEPT !.end = "full"] \/ t = [s EXCEPT !.end = "assert"]
      <4>1. CASE rem = 0
        BY <1>6, <4>1 DEF Turn
      <4>2. CASE rem # 0
        BY <1>6, <2>3, <4>2 DEF Turn
      <4> QED BY <4>1, <4>2
    <3>2. t \in TurnType /\ t.out = s.out /\ t.queue = q /\ t.trunc = s.trunc /\ t.seek = k
      <4>1. CASE t = [s EXCEPT !.end = "full"]
        BY <1>1, <4>1, EndSet
      <4>2. CASE t = [s EXCEPT !.end = "assert"]
        BY <1>1, <4>2, EndSet
      <4> QED BY <3>1, <4>1, <4>2
    <3> HIDE DEF t
    <3>3. t \in Loop(b) /\ Len(s.out) <= Len(t.out)
      BY <1>3, <3>2
    <3>4. ~(s.out = <<>> /\ b >= HEADER /\ k # accepted[msg])
      <4>1. s.out = <<>> => Len(s.out) = 0
        OBVIOUS
      <4> HIDE DEF msg, k
      <4> QED BY <1>1, <2>1, <2>2, <2>3, <4>1 DEF HEADER
    <3> QED BY <1>6, <3>3, <3>4 DEF t
  <2>4. CASE rem # 0 /\ left # 0 /\ IsFit(msg, s, b)
    <3> DEFINE x == Bytes(msg, HEADER + k, left)
               p == Tail(q)
    <3>1. t = [s EXCEPT !.out = s.out \o x, !.queue = p, !.trunc = FALSE, !.seek = 0]
      BY <1>6, <2>4 DEF Turn
    <3>2. x \in Seq(Pairs) /\ Len(x) = left
      <4>1. msg \in Nat /\ HEADER + k \in Nat
        BY <1>1, <2>1 DEF HEADER
      <4> HIDE DEF msg, left
      <4> DEFINE h == HEADER + k
      <4>2. h \in Nat
        BY <4>1
      <4> HIDE DEF h
      <4>3. Bytes(msg, h, left) \in Seq(Pairs) /\ Len(Bytes(msg, h, left)) = left
        BY <2>2, <4>1, <4>2, BytesAre
      <4> QED BY <4>3 DEF h
    <3>3. p \in Seq(1 .. MaxMessages)
      BY <2>1 DEF IsRest
    <3> HIDE DEF x
    <3>4. s.out \o x \in Seq(Pairs)
      BY <1>1, <3>2
    <3>5. Wrote(s, t, x, p, FALSE, 0)
      <4> DEFINE o == s.out \o x
      <4>1. t = [s EXCEPT !.out = o, !.queue = p, !.trunc = FALSE, !.seek = 0]
        BY <3>1
      <4>2. o \in Seq(Pairs) /\ FALSE \in BOOLEAN /\ 0 \in Nat
        BY <3>4
      <4> HIDE DEF o, p, t
      <4>3. t \in TurnType /\ t.out = o /\ t.queue = p /\ t.trunc = FALSE /\ t.seek = 0
        BY <1>1, <3>3, <4>1, <4>2 DEF TurnType
      <4> QED BY <4>3 DEF Wrote, o
    <3>6. Len(s.out) + Len(x) <= b
      BY <1>1, <1>2, <2>2, <2>4, <3>2 DEF IsFit
    <3>7. Place(q, s.trunc, k) \o x = Place(p, FALSE, 0)
      <4>1. Place(q, TRUE, k) \o Bytes(Head(q), HEADER + k, left) = Place(q, TRUE, k + left)
        <5> HIDE DEF left
        <5> QED BY <1>1, <1>6, <2>2, PlaceInside
      <4>2. Place(q, TRUE, accepted[Head(q)]) = Place(p, FALSE, 0)
        BY <1>1, <1>6, PlaceAfterMessage
      <4>3. k + left = accepted[Head(q)]
        BY <1>1, <2>1
      <4>4. s.trunc = TRUE
        BY <1>1, <1>6
      <4> QED BY <4>1, <4>2, <4>3, <4>4 DEF x
    <3>8. IsRest(p) /\ (FALSE => p # <<>>) /\ Within(p, FALSE, 0)
      BY <2>1 DEF Within
    <3> HIDE DEF p, t
    <3>9. t \in Loop(b) /\ Len(t.out) = Len(s.out) + Len(x)
      BY <3>2, <3>5, <3>6, <3>7, <3>8, WroteKeeps
    <3>10. Len(s.out) <= Len(t.out) /\ Len(t.out) >= 1
      <4> HIDE DEF left
      <4> QED BY <1>1, <2>2, <2>4, <3>2, <3>9
    <3> QED BY <3>9, <3>10 DEF t
  <2>5. CASE rem # 0 /\ left # 0 /\ ~IsFit(msg, s, b)
    <3> DEFINE x == Bytes(msg, HEADER + k, rem)
               n == k + rem
    <3>1. t = [s EXCEPT !.out = s.out \o x, !.seek = n, !.end = "full"]
      BY <1>6, <2>5 DEF Turn, SeekOn
    <3>2. x \in Seq(Pairs) /\ Len(x) = rem
      <4>1. msg \in Nat /\ HEADER + k \in Nat
        BY <1>1, <2>1 DEF HEADER
      <4>0. rem \in Nat
        BY <1>2
      <4> HIDE DEF msg, rem
      <4> DEFINE h == HEADER + k
      <4>2. h \in Nat
        BY <4>1
      <4> HIDE DEF h
      <4>3. Bytes(msg, h, rem) \in Seq(Pairs) /\ Len(Bytes(msg, h, rem)) = rem
        BY <4>0, <4>1, <4>2, BytesAre
      <4> QED BY <4>3, Zenon DEF h
    <3>3. n \in Nat /\ n < accepted[msg]
      <4>1. rem < left
        BY <1>1, <1>2, <2>1, <2>2, <2>5 DEF IsFit
      <4>2. k \in Nat /\ rem \in Nat /\ accepted[msg] \in Nat
        BY <1>1, <1>2, <2>1
      <4> HIDE DEF msg, rem, k
      <4> QED BY <4>1, <4>2
    <3> HIDE DEF x
    <3>4. s.out \o x \in Seq(Pairs)
      BY <1>1, <3>2
    <3>5. Wrote(s, t, x, q, TRUE, n)
      <4> DEFINE o == s.out \o x
      <4>1. t = [s EXCEPT !.out = o, !.seek = n, !.end = "full"]
        BY <3>1
      <4>2. o \in Seq(Pairs) /\ s.trunc = TRUE
        BY <1>1, <1>6, <3>4
      <4> HIDE DEF o, n, t
      <4>3. t \in TurnType /\ t.out = o /\ t.queue = q /\ t.trunc = s.trunc /\ t.seek = n
        BY <1>1, <3>3, <4>1, <4>2 DEF TurnType
      <4> QED BY <4>2, <4>3 DEF Wrote, o
    <3>6. Len(s.out) + Len(x) <= b
      BY <1>1, <1>2, <3>2
    <3>7. Place(q, s.trunc, k) \o x = Place(q, TRUE, n)
      <4>1. Place(q, TRUE, k) \o Bytes(Head(q), HEADER + k, rem) = Place(q, TRUE, k + rem)
        <5> HIDE DEF rem
        <5> QED BY <1>1, <1>2, <1>6, PlaceInside
      <4>2. s.trunc = TRUE
        BY <1>1, <1>6
      <4> QED BY <4>1, <4>2 DEF x
    <3>8. IsRest(q) /\ (TRUE => q # <<>>) /\ Within(q, TRUE, n)
      BY <1>1, <1>6, <3>3 DEF Within
    <3> HIDE DEF n, t
    <3>9. t \in Loop(b) /\ Len(t.out) = Len(s.out) + Len(x)
      BY <3>2, <3>5, <3>6, <3>7, <3>8, WroteKeeps
    <3>10. Len(s.out) <= Len(t.out) /\ Len(t.out) >= 1
      <4> HIDE DEF rem
      <4> QED BY <1>1, <1>2, <2>5, <3>2, <3>9
    <3> QED BY <3>9, <3>10 DEF t
  <2> QED BY <2>3, <2>4, <2>5
<1>7. CASE s.end = "no" /\ q # <<>> /\ ~s.trunc
  <2>1. msg \in 1 .. Len(accepted) /\ accepted[msg] \in Nat
    BY <1>1, <1>7, RestIs
  <2>2. CASE ~RoomForHeader(s, b)
    <3>1. t = [s EXCEPT !.end = "full"]
      BY <1>7, <2>2 DEF Turn
    <3>2. t \in TurnType /\ t.out = s.out /\ t.queue = q /\ t.trunc = s.trunc /\ t.seek = k
      BY <1>1, <3>1, EndSet
    <3> HIDE DEF t
    <3>3. t \in Loop(b) /\ Len(s.out) <= Len(t.out)
      BY <1>3, <3>2
    <3>4. ~(s.out = <<>> /\ b >= HEADER)
      <4>1. s.out = <<>> => Len(s.out) = 0
        OBVIOUS
      <4> QED BY <1>1, <2>2, <4>1 DEF RoomForHeader, HEADER
    <3> QED BY <3>3, <3>4 DEF t
  <2>3. CASE RoomForHeader(s, b)
    <3> DEFINE x == Bytes(msg, 0, HEADER)
    <3>1. t = [s EXCEPT !.out = s.out \o x, !.trunc = TRUE, !.seek = 0]
      BY <1>7, <2>3 DEF Turn
    <3>2. x \in Seq(Pairs) /\ Len(x) = HEADER /\ HEADER \in Nat /\ HEADER >= 1
      <4>1. msg \in Nat /\ HEADER \in Nat /\ 0 \in Nat /\ HEADER >= 1
        BY <2>1 DEF HEADER
      <4> HIDE DEF msg
      <4> QED BY <4>1, BytesAre
    <3> HIDE DEF x
    <3>4. s.out \o x \in Seq(Pairs)
      BY <1>1, <3>2
    <3>5. Wrote(s, t, x, q, TRUE, 0)
      <4> DEFINE o == s.out \o x
      <4>1. t = [s EXCEPT !.out = o, !.trunc = TRUE, !.seek = 0]
        BY <3>1
      <4>2. o \in Seq(Pairs) /\ TRUE \in BOOLEAN /\ 0 \in Nat
        BY <3>4
      <4> HIDE DEF o, t
      <4>3. t \in TurnType /\ t.out = o /\ t.queue = q /\ t.trunc = TRUE /\ t.seek = 0
        BY <1>1, <4>1, <4>2 DEF TurnType
      <4> QED BY <4>3 DEF Wrote, o
    <3>6. Len(s.out) + Len(x) <= b
      BY <2>3, <3>2 DEF RoomForHeader
    <3>7. Place(q, s.trunc, k) \o x = Place(q, TRUE, 0)
      <4>1. Place(q, FALSE, k) \o Bytes(Head(q), 0, HEADER) = Place(q, TRUE, 0)
        BY <1>1, <1>7, PlaceAfterHeader
      <4>2. s.trunc = FALSE
        BY <1>1, <1>7
      <4> QED BY <4>1, <4>2 DEF x
    <3>8. IsRest(q) /\ (TRUE => q # <<>>) /\ Within(q, TRUE, 0)
      <4>1. 0 < accepted[msg] \/ accepted[msg] = 0
        BY <2>1
      <4> QED BY <1>1, <1>7, <4>1 DEF Within
    <3> HIDE DEF t
    <3>9. t \in Loop(b) /\ Len(t.out) = Len(s.out) + Len(x)
      BY <3>2, <3>5, <3>6, <3>7, <3>8, WroteKeeps
    <3>10. Len(s.out) <= Len(t.out) /\ Len(t.out) >= 1
      BY <1>1, <3>2, <3>9
    <3> QED BY <3>9, <3>10 DEF t
  <2> QED BY <2>2, <2>3
<1> QED BY <1>1, <1>4, <1>5, <1>6, <1>7

Start == [out |-> <<>>, queue |-> lqueue_omessages,
          trunc |-> is_trunc, seek |-> trunc_seek, end |-> "no"]

Turns(b, f) ==
    f = [n \in 0 .. 2 * Len(lqueue_omessages) + 1 |->
          IF n = 0 THEN [out |-> <<>>, queue |-> lqueue_omessages,
                         trunc |-> is_trunc, seek |-> trunc_seek, end |-> "no"]
          ELSE Turn(f[n - 1], b)]

Ready == /\ is_trunc => lqueue_omessages # <<>>
         /\ Within(lqueue_omessages, is_trunc, trunc_seek)

LEMMA StartIs ==
  ASSUME TypeOK, Counted, Queued, Ready, NEW b \in Nat
  PROVE  /\ Start \in Loop(b) /\ Here \in Seq(Pairs)
         /\ Start.out = <<>> /\ Start.queue = lqueue_omessages /\ Start.end = "no"
         /\ Start.trunc = is_trunc /\ Start.seek = trunc_seek
<1>1. /\ lqueue_omessages \in Seq(1 .. MaxMessages) /\ is_trunc \in BOOLEAN
      /\ trunc_seek \in Nat
  BY DEF TypeOK
<1>2. IsRest(lqueue_omessages)
  BY <1>1 DEF IsRest, Counted, Queued
<1>3. Here \in Seq(Pairs)
  BY <1>1, <1>2, PlaceIs DEF Here
<1>4. /\ Start.out = <<>> /\ Start.queue = lqueue_omessages /\ Start.end = "no"
      /\ Start.trunc = is_trunc /\ Start.seek = trunc_seek
  BY DEF Start
<1>5. <<>> \in Seq(Pairs) /\ Len(<<>>) = 0
  OBVIOUS
<1>6. Start \in TurnType
  BY <1>1, <1>5 DEF Start, TurnType
<1>7. Here \o <<>> = Here
  BY <1>3
<1>8. Here \o Start.out = Place(Start.queue, Start.trunc, Start.seek)
  BY <1>4, <1>7, Zenon DEF Here
<1>9. Len(Start.out) <= b
  BY <1>4, <1>5
<1>10. /\ IsRest(Start.queue) /\ (Start.trunc => Start.queue # <<>>)
       /\ Within(Start.queue, Start.trunc, Start.seek)
  BY <1>2, <1>4, Zenon DEF Ready
<1>11. Start \in Loop(b)
  BY <1>6, <1>8, <1>9, <1>10 DEF Loop
<1> QED BY <1>3, <1>4, <1>11

\* Whatever holds at the start and is kept by turns holds at the end.
LEMMA FillRuns ==
  ASSUME TypeOK, NEW b, NEW V, Start \in V, \A v \in V : Turn(v, b) \in V
  PROVE  \E v \in V : Fill(b) = Turn(v, b)
<1> DEFINE N == 2 * Len(lqueue_omessages) + 1
           step == [n \in 1 .. N |-> [v \in V |-> Turn(v, b)]]
           p == CHOOSE f : Turns(b, f)
<1>1. N \in Nat /\ N >= 1
  BY LengthsAre
<1>2. Fill(b) = p[N]
  BY DEF Fill, Turns
<1>3. step \in [1 .. N -> [V -> V]] /\ \A n \in 1 .. N, v \in V : step[n][v] = Turn(v, b)
  <2> HIDE DEF N
  <2> QED OBVIOUS
<1> HIDE DEF step, N, p
<1>4. PICK g : /\ g \in [0 .. N -> V] /\ g[0] = Start
               /\ \A j \in 1 .. N : g[j] = step[j][g[j - 1]]
  <2>1. PICK g : Runs(g, N, V, Start, step)
    BY <1>1, <1>3, Iterates
  <2> QED BY <2>1 DEF Runs
<1>5. Turns(b, g)
  <2>1. ASSUME NEW n \in 0 .. N
        PROVE  g[n] = IF n = 0 THEN Start ELSE Turn(g[n - 1], b)
    <3>1. CASE n = 0
      BY <1>4, <3>1
    <3>2. CASE n # 0
      <4>1. n \in 1 .. N /\ n - 1 \in 0 .. N
        BY <1>1, <3>2
      <4>2. g[n - 1] \in V
        BY <1>4, <4>1
      <4> QED BY <1>3, <1>4, <3>2, <4>1, <4>2
    <3> QED BY <3>1, <3>2
  <2>2. g = [n \in 0 .. N |-> g[n]]
    BY <1>4
  <2>3. g = [n \in 0 .. N |-> IF n = 0 THEN Start ELSE Turn(g[n - 1], b)]
    BY <2>1, <2>2
  <2> QED BY <2>3 DEF Turns, N, Start
<1>6. Turns(b, p)
  BY <1>5 DEF p
<1>7. p = [n \in 0 .. N |-> IF n = 0 THEN Start ELSE Turn(p[n - 1], b)]
  BY <1>6 DEF Turns, N, Start
<1>8. p[0] = Start
  <2>1. 0 \in 0 .. N
    BY <1>1
  <2> QED BY <1>7, <2>1
<1>9. ASSUME NEW n \in 1 .. N
      PROVE  p[n] = Turn(p[n - 1], b)
  <2>1. n \in 0 .. N /\ n # 0
    OBVIOUS
  <2> QED BY <1>7, <2>1
<1> DEFINE S == {n \in 0 .. N : p[n] \in V}
<1>10. 0 \in S
  BY <1>1, <1>8
<1>11. ASSUME NEW n \in 1 .. N, n - 1 \in S
       PROVE  n \in S
  <2>1. p[n - 1] \in V /\ n \in 0 .. N
    BY <1>11
  <2> QED BY <1>9, <2>1
<1> HIDE DEF S
<1>12. 0 .. N \subseteq S
  BY <1>1, <1>10, <1>11, Upward
<1>13. N - 1 \in S /\ N \in 1 .. N
  BY <1>1, <1>12
<1>14. p[N - 1] \in V /\ p[N] = Turn(p[N - 1], b)
  BY <1>9, <1>13 DEF S
<1> QED BY <1>2, <1>14

\* The loop writes within its buffer, and leaves the fields at the place it
\* has come to.
LEMMA FillKeeps ==
  ASSUME TypeOK, Counted, Queued, Ready, NEW b \in Nat
  PROVE  Fill(b) \in Loop(b)
<1>1. Start \in Loop(b) /\ Here \in Seq(Pairs)
  BY StartIs
<1>2. \A v \in Loop(b) : Turn(v, b) \in Loop(b)
  BY <1>1, TurnKeeps
<1>3. PICK v \in Loop(b) : Fill(b) = Turn(v, b)
  BY <1>1, <1>2, FillRuns
<1> QED BY <1>2, <1>3

\* It writes something, unless it is stopped by an empty message.
LEMMA FillMoves ==
  ASSUME TypeOK, Counted, Queued, Ready, NEW b \in Nat,
         lqueue_omessages # <<>>, b >= HEADER,
         is_trunc => trunc_seek # accepted[Head(lqueue_omessages)]
  PROVE  Len(Fill(b).out) >= 1
<1> DEFINE V == {v \in Loop(b) : v = Start \/ Len(v.out) >= 1}
<1>1. Start \in Loop(b) /\ Here \in Seq(Pairs)
  BY StartIs
<1>2. ASSUME NEW v \in V
      PROVE  Turn(v, b) \in Loop(b) /\ Len(Turn(v, b).out) >= 1
  <2>1. v \in Loop(b)
    OBVIOUS
  <2>2. Turn(v, b) \in Loop(b) /\ Len(v.out) <= Len(Turn(v, b).out)
    BY <1>1, <2>1, TurnKeeps
  <2>3. CASE v = Start
    <3>1. /\ v.out = <<>> /\ v.queue = lqueue_omessages /\ v.end = "no"
          /\ v.trunc = is_trunc /\ v.seek = trunc_seek
      BY <2>3, StartIs
    <3>2. /\ v.end = "no" /\ v.queue # <<>> /\ v.out = <<>> /\ b >= HEADER
          /\ v.trunc => v.seek # accepted[Head(v.queue)]
          => Len(Turn(v, b).out) >= 1
      BY <1>1, <2>1, TurnKeeps
    <3> QED BY <2>2, <3>1, <3>2
  <2>4. CASE v # Start
    <3>1. Len(v.out) >= 1
      BY <2>4
    <3>2. Len(v.out) \in Nat /\ Len(Turn(v, b).out) \in Nat
      BY <2>1, <2>2, LoopIs
    <3> QED BY <2>2, <3>1, <3>2
  <2> QED BY <2>3, <2>4
<1>3. Start \in V /\ \A v \in V : Turn(v, b) \in V
  BY <1>1, <1>2
<1> HIDE DEF V
<1>4. PICK v \in V : Fill(b) = Turn(v, b)
  BY <1>3, FillRuns
<1> QED BY <1>2, <1>4

\* What a turn that changes some of the fields does to `end`.
LEMMA EndIs ==
  ASSUME NEW s \in TurnType, NEW o, NEW p, NEW c, NEW j, NEW e
  PROVE  /\ [s EXCEPT !.end = e].end = e
         /\ [s EXCEPT !.out = o, !.seek = j, !.end = e].end = e
         /\ [s EXCEPT !.out = o, !.queue = p, !.trunc = c, !.seek = j].end = s.end
         /\ [s EXCEPT !.out = o, !.trunc = c, !.seek = j].end = s.end
<1>1. [s EXCEPT !.end = e].end = e
  BY DEF TurnType
<1>2. [s EXCEPT !.out = o, !.seek = j, !.end = e].end = e
  BY DEF TurnType
<1>3. [s EXCEPT !.out = o, !.queue = p, !.trunc = c, !.seek = j].end = s.end
  BY DEF TurnType
<1>4. [s EXCEPT !.out = o, !.trunc = c, !.seek = j].end = s.end
  BY DEF TurnType
<1> QED BY <1>1, <1>2, <1>3, <1>4, Zenon

\* Without empty messages no turn meets the assert.
LEMMA FillEnds ==
  ASSUME TypeOK, Counted, Queued, Ready, NEW b \in Nat, 0 \notin MsgLens
  PROVE  Fill(b).end # "assert"
<1> DEFINE V == {v \in Loop(b) : v.end # "assert"}
<1>1. Start \in Loop(b) /\ Here \in Seq(Pairs) /\ Start.end = "no"
  BY StartIs
<1>2. ASSUME NEW s \in V
      PROVE  Turn(s, b) \in V
  <2>1. s \in Loop(b) /\ s.end # "assert"
    OBVIOUS
  <2>2. Turn(s, b) \in Loop(b)
    BY <1>1, <2>1, TurnKeeps
  <2>3. s \in TurnType /\ IsRest(s.queue) /\ Within(s.queue, s.trunc, s.seek) /\ s.seek \in Nat
    BY <2>1, LoopIs
  <2> SUFFICES Turn(s, b).end # "assert"
    BY <2>2 DEF V
  <2> HIDE DEF V
  <2>4. CASE s.end = "no" /\ s.queue # <<>> /\ s.trunc
    <3> DEFINE n == accepted[Head(s.queue)]
               k == s.seek
    <3>1. n \in Nat /\ n # 0
      BY <2>3, <2>4, RestIs
    <3>2. k < n
      BY <2>3, <2>4, <3>1 DEF Within
    <3>3. n - k # 0
      <4> HIDE DEF n, k
      <4> QED BY <2>3, <3>1, <3>2 DEF k
    <3>4. CASE b - Len(s.out) = 0
      <4>1. Turn(s, b) = [s EXCEPT !.end = "full"]
        BY <2>4, <3>4 DEF Turn
      <4> QED BY <2>3, <4>1, EndIs
    <3>5. CASE b - Len(s.out) # 0 /\ IsFit(Head(s.queue), s, b)
      <4>1. \E o, p : Turn(s, b) = [s EXCEPT !.out = o, !.queue = p, !.trunc = FALSE, !.seek = 0]
        BY <2>4, <3>3, <3>5 DEF Turn
      <4>2. PICK o, p : Turn(s, b) = [s EXCEPT !.out = o, !.queue = p, !.trunc = FALSE, !.seek = 0]
        BY <4>1
      <4> QED BY <2>1, <2>3, <4>2, EndIs
    <3>6. CASE b - Len(s.out) # 0 /\ ~IsFit(Head(s.queue), s, b)
      <4>1. \E o, j : Turn(s, b) = [s EXCEPT !.out = o, !.seek = j, !.end = "full"]
        BY <2>4, <3>3, <3>6 DEF Turn
      <4>2. PICK o, j : Turn(s, b) = [s EXCEPT !.out = o, !.seek = j, !.end = "full"]
        BY <4>1
      <4> QED BY <2>3, <4>2, EndIs
    <3> QED BY <3>4, <3>5, <3>6
  <2>5. CASE s.end = "no" /\ s.queue = <<>>
    <3>1. Turn(s, b) = [s EXCEPT !.end = "eof"]
      BY <2>5 DEF Turn
    <3> QED BY <2>3, <3>1, EndIs
  <2>6. CASE s.end = "no" /\ s.queue # <<>> /\ ~s.trunc
    <3>1. CASE RoomForHeader(s, b)
      <4>1. \E o : Turn(s, b) = [s EXCEPT !.out = o, !.trunc = TRUE, !.seek = 0]
        BY <2>6, <3>1 DEF Turn
      <4>2. PICK o : Turn(s, b) = [s EXCEPT !.out = o, !.trunc = TRUE, !.seek = 0]
        BY <4>1
      <4> QED BY <2>1, <2>3, <4>2, EndIs
    <3>2. CASE ~RoomForHeader(s, b)
      <4>1. Turn(s, b) = [s EXCEPT !.end = "full"]
        BY <2>6, <3>2 DEF Turn
      <4> QED BY <2>3, <4>1, EndIs
    <3> QED BY <3>1, <3>2
  <2>7. CASE s.end # "no"
    <3>1. Turn(s, b) = s
      BY <2>7 DEF Turn
    <3> QED BY <2>1, <3>1
  <2>8. s.trunc \in BOOLEAN
    BY <2>3 DEF TurnType
  <2> QED BY <2>4, <2>5, <2>6, <2>7, <2>8
<1>3. Start \in V
  BY <1>1
<1> HIDE DEF V
<1>4. PICK v \in V : Fill(b) = Turn(v, b)
  BY <1>2, <1>3, FillRuns
<1> QED BY <1>2, <1>4 DEF V

-----------------------------------------------------------------------------
(* The invariant is inductive *)

LEMMA InitInv == Init => IInv
<1> SUFFICES ASSUME Init
             PROVE  IInv
  OBVIOUS
<1>1. <<>> \in Seq(1 .. MaxMessages) /\ <<>> \in Seq(Nat \X Nat) /\ <<>> \in Seq(MsgLens)
      /\ Len(<<>>) = 0
  OBVIOUS
<1>2. TypeOK
  BY <1>1 DEF Init, TypeOK
<1>3. Counted
  BY <1>1, BoundAssumption DEF Init, Counted
<1>4. Rest(0) = <<>>
  BY DEF Rest
<1>5. Queued
  BY <1>1, <1>4 DEF Init, Queued
<1>6. Begun
  BY DEF Init, Begun, Within
<1>7. Sent
  <2>1. accepted = <<>> /\ lqueue_omessages = <<>> /\ is_trunc = FALSE /\ wire = <<>>
    BY DEF Init
  <2>2. Frames(<<>>, 0) = <<>>
    <3>1. <<>> \in Seq(Nat)
      OBVIOUS
    <3> QED BY <3>1, FramesAre
  <2>3. Place(lqueue_omessages, is_trunc, trunc_seek) = Frames(<<>>, 0) \o <<>>
    BY <1>1, <2>1 DEF Place
  <2>4. <<>> \o <<>> = <<>>
    OBVIOUS
  <2> QED BY <2>1, <2>2, <2>3, <2>4 DEF Sent
<1> QED BY <1>2, <1>3, <1>5, <1>6, <1>7 DEF IInv

\* Steps that leave what is queued and what was sent alone.
LEMMA SameKeeps ==
  ASSUME IInv, TypeOK',
         UNCHANGED <<lqueue_omessages, is_trunc, trunc_seek, accepted>>,
         stream' = "open" => stream = "open",
         stream' = "open" /\ ~garbled' => ~garbled /\ wire' = wire
  PROVE  IInv'
<1>1. Counted' /\ Queued' /\ Begun'
  BY DEF IInv, Counted, Queued, Begun, Within, Rest
<1>2. Sent'
  BY DEF IInv, Sent, Place
<1> QED BY <1>1, <1>2 DEF IInv

LEMMA StreamEndKeeps ==
  ASSUME IInv, StreamEnd
  PROVE  IInv'
<1>1. TypeOK'
  BY DEF IInv, TypeOK, StreamEnd
<1> QED BY <1>1, SameKeeps DEF StreamEnd

LEMMA SendTrailersKeeps ==
  ASSUME IInv, SendTrailers
  PROVE  IInv'
<1>1. TypeOK'
  BY DEF IInv, TypeOK, SendTrailers
<1> QED BY <1>1, SameKeeps DEF SendTrailers

LEMMA PackShortKeeps ==
  ASSUME IInv, NEW b \in BufLens, PackShort(b)
  PROVE  IInv'
<1>1. wire' \in Seq(Nat \X Nat)
  <2>1. wire \in Seq(Nat \X Nat)
    BY DEF IInv, TypeOK
  <2>2. Garbage \in Nat \X Nat
    BY DEF Garbage
  <2>3. wire \o <<Garbage, Garbage>> \in Seq(Nat \X Nat)
    BY <2>1, <2>2
  <2> QED BY <2>1, <2>3 DEF PackShort
<1>2. stream' \in {"open", "gone", "aborted"}
  BY DEF PackShort, IInv, TypeOK
<1>3. TypeOK'
  BY <1>1, <1>2 DEF IInv, TypeOK, PackShort
<1>4. garbled' /\ stream = "open"
  BY DEF PackShort, MayPack
<1> QED BY <1>3, <1>4, SameKeeps DEF PackShort

LEMMA CloseStreamKeeps ==
  ASSUME IInv, CloseStream
  PROVE  IInv'
<1>1. <<>> \in Seq(1 .. MaxMessages) /\ Len(<<>>) = 0
  OBVIOUS
<1>2. TypeOK'
  BY <1>1 DEF IInv, TypeOK, CloseStream
<1>3. lqueue_omessages' = <<>> /\ accepted' = accepted /\ stream' = "gone"
  BY DEF CloseStream
<1>4. Counted'
  <2>1. Len(accepted) \in Nat /\ Len(accepted) <= MaxMessages
    BY LengthsAre DEF IInv, Counted
  <2> QED BY <1>1, <1>3, <2>1 DEF Counted
<1>5. Queued'
  <2>1. [i \in 1 .. 0 |-> Len(accepted') - 0 + i] = <<>>
    OBVIOUS
  <2> QED BY <1>1, <1>3, <2>1 DEF Queued, Rest
<1>6. Begun' /\ Sent'
  BY <1>3 DEF Begun, Within, Sent
<1> QED BY <1>2, <1>4, <1>5, <1>6 DEF IInv

LEMMA PackDataKeeps ==
  ASSUME IInv, NEW b \in BufLens, PackData(b)
  PROVE  IInv'
<1> DEFINE s == Fill(b)
<1>1. /\ stream = "open" /\ b \in Nat /\ TypeOK /\ Counted /\ Queued /\ Ready
      /\ accepted' = accepted /\ garbled' = garbled
  BY LengthsAssumption DEF PackData, MayPack, IInv, Begun, Ready
<1>2. s \in Loop(b)
  BY <1>1, FillKeeps
<1>3. /\ lqueue_omessages' = s.queue /\ is_trunc' = s.trunc /\ trunc_seek' = s.seek
      /\ wire' = IF s.end = "assert" THEN wire ELSE wire \o s.out
      /\ source' = (s.end \notin Eof)
      /\ stream' = IF s.end = "assert" THEN "aborted" ELSE stream
      /\ UNCHANGED <<trailers, overtaken>>
  BY DEF PackData
<1> HIDE DEF s
<1>4. /\ s \in TurnType /\ s.out \in Seq(Pairs) /\ s.queue \in Seq(1 .. MaxMessages)
      /\ s.trunc \in BOOLEAN /\ s.seek \in Nat /\ IsRest(s.queue)
      /\ (s.trunc => s.queue # <<>>) /\ Within(s.queue, s.trunc, s.seek)
      /\ Here \o s.out = Place(s.queue, s.trunc, s.seek)
  BY <1>2, LoopIs
<1>5. TypeOK'
  <2>1. wire \in Seq(Pairs) /\ s.out \in Seq(Pairs)
    BY <1>1, <1>4 DEF TypeOK, Pairs
  <2>2. wire \o s.out \in Seq(Pairs)
    BY <2>1
  <2>3. wire' \in Seq(Nat \X Nat)
    BY <1>3, <2>1, <2>2 DEF Pairs
  <2>4. source' \in BOOLEAN /\ stream' \in {"open", "gone", "aborted"}
    BY <1>1, <1>3
  <2> QED BY <1>1, <1>3, <1>4, <2>3, <2>4 DEF TypeOK
<1>6. Counted' /\ Queued'
  BY <1>1, <1>3, <1>4 DEF IsRest, Counted, Queued, Rest
<1>7. Begun'
  <2>1. Within(lqueue_omessages, is_trunc, trunc_seek)'
    BY <1>1, <1>3, <1>4 DEF Within
  <2> QED BY <1>3, <1>4, <2>1 DEF Begun
<1>8. Sent'
  <2> SUFFICES ASSUME stream' = "open", ~garbled'
               PROVE  wire' = Place(lqueue_omessages, is_trunc, trunc_seek)'
    BY DEF Sent
  <2>1. wire' = wire \o s.out
    BY <1>3
  <2>2. wire = Here
    BY <1>1 DEF IInv, Sent, Here
  <2>3. Place(s.queue, s.trunc, s.seek) = Place(lqueue_omessages, is_trunc, trunc_seek)'
    BY <1>1, <1>3 DEF Place
  <2> QED BY <1>4, <2>1, <2>2, <2>3, Zenon
<1> QED BY <1>5, <1>6, <1>7, <1>8 DEF IInv

\* What the application hands over joins the end of the queue.
LEMMA StreamSendKeeps ==
  ASSUME IInv, NEW lens \in Lists, StreamSend(lens)
  PROVE  IInv'
<1> DEFINE A == Len(accepted)
           Q == Len(lqueue_omessages)
           L == Len(lens)
           new == [i \in 1 .. L |-> A + i]
<1>1. /\ TypeOK /\ Counted /\ Queued /\ Begun
      /\ A \in Nat /\ Q \in Nat /\ Q <= A /\ MaxMessages \in Nat
      /\ lqueue_omessages \in Seq(1 .. MaxMessages)
      /\ accepted \in Seq(MsgLens) /\ accepted \in Seq(Nat)
  BY LengthsAre, BoundAssumption, LengthsAssumption DEF IInv, Counted, TypeOK
<1>2. lens \in Seq(MsgLens) /\ lens \in Seq(Nat) /\ L \in Nat /\ L >= 1
  <2>1. CASE \E m \in MsgLens : lens = <<m>>
    BY <2>1, LengthsAssumption
  <2>2. CASE \E m, n \in MsgLens : lens = <<m, n>>
    BY <2>2, LengthsAssumption
  <2> QED BY <2>1, <2>2 DEF Lists
<1>3. /\ stream = "open" /\ A + L <= MaxMessages
      /\ lqueue_omessages' = lqueue_omessages \o new
      /\ accepted' = accepted \o lens
      /\ source' = TRUE /\ overtaken' = (overtaken \/ trailers # "none")
      /\ UNCHANGED <<is_trunc, trunc_seek, trailers, stream, wire, garbled>>
  BY DEF StreamSend
<1>4. new \in Seq(1 .. MaxMessages) /\ Len(new) = L /\ \A i \in 1 .. L : new[i] = A + i
  <2> HIDE DEF A, L
  <2>1. \A i \in 1 .. L : A + i \in 1 .. MaxMessages
    BY <1>1, <1>2, <1>3
  <2>2. new \in [1 .. L -> 1 .. MaxMessages]
    BY <2>1
  <2> QED BY <1>2, <2>2
<1> HIDE DEF new
<1>5. /\ lqueue_omessages' \in Seq(1 .. MaxMessages) /\ Len(lqueue_omessages') = Q + L
      /\ \A i \in 1 .. Q : lqueue_omessages'[i] = lqueue_omessages[i]
      /\ \A i \in 1 .. L : lqueue_omessages'[Q + i] = new[i]
  <2> DEFINE q == lqueue_omessages
             z == q \o new
  <2>1. q \in Seq(1 .. MaxMessages) /\ new \in Seq(1 .. MaxMessages)
    BY <1>1, <1>4
  <2> HIDE DEF q
  <2>2. z \in Seq(1 .. MaxMessages)
    BY <2>1
  <2>3. Len(z) = Len(q) + Len(new)
    BY <2>1
  <2>4. \A i \in 1 .. Len(q) : z[i] = q[i]
    BY <2>1
  <2>5. \A i \in 1 .. Len(new) : z[Len(q) + i] = new[i]
    BY <2>1
  <2> HIDE DEF z
  <2>6. lqueue_omessages' = z /\ Len(new) = L /\ Q = Len(q)
    BY <1>3, <1>4 DEF z, q
  <2> HIDE DEF Q, L
  <2>7. /\ z \in Seq(1 .. MaxMessages) /\ Len(z) = Q + L
        /\ \A i \in 1 .. Q : z[i] = q[i]
        /\ \A i \in 1 .. L : z[Q + i] = new[i]
    BY <2>2, <2>3, <2>4, <2>5, <2>6
  <2> QED BY <2>6, <2>7 DEF q
<1>6. /\ accepted' \in Seq(MsgLens) /\ Len(accepted') = A + L
      /\ \A i \in 1 .. A : accepted'[i] = accepted[i]
  BY <1>1, <1>2, <1>3
<1>7. TypeOK'
  <2>1. source' \in BOOLEAN /\ overtaken' \in BOOLEAN
    BY <1>1, <1>3 DEF TypeOK
  <2> QED BY <1>1, <1>3, <1>5, <1>6, <2>1 DEF TypeOK
<1>8. Counted'
  <2> HIDE DEF A, Q, L
  <2> QED BY <1>1, <1>2, <1>3, <1>5, <1>6 DEF Counted
<1>9. Queued'
  <2>1. \A i \in 1 .. Q : lqueue_omessages[i] = A - Q + i
    BY <1>1 DEF Queued, Rest
  <2>2. \A i \in 1 .. Q + L : lqueue_omessages'[i] = (A + L) - (Q + L) + i
    <3> SUFFICES ASSUME NEW i \in 1 .. Q + L
                 PROVE  lqueue_omessages'[i] = (A + L) - (Q + L) + i
      OBVIOUS
    <3> HIDE DEF A, Q, L
    <3>1. CASE i <= Q
      <4>1. i \in 1 .. Q
        BY <1>1, <1>2, <3>1
      <4>2. lqueue_omessages'[i] = A - Q + i
        BY <1>5, <2>1, <4>1
      <4>3. (A + L) - (Q + L) + i = A - Q + i
        BY <1>1, <1>2, <4>1
      <4> QED BY <4>2, <4>3
    <3>2. CASE i > Q
      <4>1. i - Q \in 1 .. L /\ Q + (i - Q) = i
        BY <1>1, <1>2, <3>2
      <4>2. lqueue_omessages'[i] = A + (i - Q)
        BY <1>4, <1>5, <4>1
      <4> QED BY <1>1, <1>2, <4>2
    <3> QED BY <1>1, <1>2, <3>1, <3>2
  <2>3. lqueue_omessages' = [i \in 1 .. Q + L |-> lqueue_omessages'[i]]
    <3> DEFINE q == lqueue_omessages'
    <3>1. q \in Seq(1 .. MaxMessages) /\ Len(q) = Q + L
      BY <1>5
    <3> HIDE DEF q
    <3>2. q = [i \in 1 .. Q + L |-> q[i]]
      BY <3>1
    <3> QED BY <3>2 DEF q
  <2>4. lqueue_omessages' = [i \in 1 .. Q + L |-> (A + L) - (Q + L) + i]
    BY <2>2, <2>3
  <2> QED BY <1>5, <1>6, <2>4 DEF Queued, Rest
<1>10. Begun'
  <2>1. is_trunc => lqueue_omessages # <<>>
    BY <1>1, <1>3 DEF Begun
  <2> SUFFICES ASSUME is_trunc
               PROVE  /\ lqueue_omessages' # <<>>
                      /\ Within(lqueue_omessages, is_trunc, trunc_seek)'
    BY <1>3 DEF Begun, Within
  <2>2. IsRest(lqueue_omessages) /\ lqueue_omessages # <<>>
    BY <1>1, <2>1 DEF IsRest, Counted, Queued
  <2>3. Q >= 1 /\ Head(lqueue_omessages) \in 1 .. A
    BY <1>1, <2>2, RestIs
  <2>4. lqueue_omessages' # <<>> /\ Head(lqueue_omessages') = Head(lqueue_omessages)
    <3>1. Q + L >= 1 /\ 1 \in 1 .. Q + L /\ 1 <= Q
      <4> HIDE DEF Q, L
      <4> QED BY <1>1, <1>2, <2>3
    <3>2. lqueue_omessages'[1] = lqueue_omessages[1]
      <4>1. 1 \in 1 .. Q
        BY <1>1, <3>1
      <4> QED BY <1>5, <4>1
    <3>3. lqueue_omessages' # <<>>
      BY <1>5, <3>1
    <3> QED BY <1>1, <1>5, <2>2, <3>2, <3>3
  <2>5. accepted'[Head(lqueue_omessages')] = accepted[Head(lqueue_omessages)]
    BY <1>6, <2>3, <2>4
  <2>6. Within(lqueue_omessages, is_trunc, trunc_seek)
    BY <1>1 DEF Begun
  <2> QED BY <1>3, <2>2, <2>4, <2>5, <2>6 DEF Within
<1>11. Sent'
  <2> SUFFICES ASSUME stream' = "open", ~garbled'
               PROVE  wire' = Place(lqueue_omessages, is_trunc, trunc_seek)'
    BY DEF Sent
  <2>1. wire' = Place(lqueue_omessages, is_trunc, trunc_seek)
    BY <1>3 DEF IInv, Sent
  <2>2. Len(accepted') - Len(lqueue_omessages') = A - Q /\ A - Q \in 0 .. A
    <3> HIDE DEF A, Q, L
    <3> QED BY <1>1, <1>2, <1>5, <1>6
  <2>3. Frames(accepted', A - Q) = Frames(accepted, A - Q)
    BY <1>1, <1>2, <1>3, <2>2, FramesStay
  <2>4. Place(lqueue_omessages, is_trunc, trunc_seek)' = Place(lqueue_omessages, is_trunc, trunc_seek)
    BY <1>3, <2>2, <2>3 DEF Place
  <2> QED BY <2>1, <2>4
<1> QED BY <1>7, <1>8, <1>9, <1>10, <1>11 DEF IInv

\* Every step keeps the invariant.
LEMMA StepKeeps == IInv /\ [Next]_vars => IInv'
<1> SUFFICES ASSUME IInv, [Next]_vars
             PROVE  IInv'
  OBVIOUS
<1>1. CASE UNCHANGED vars
  BY <1>1 DEF vars, IInv, TypeOK, Counted, Queued, Rest, Begun, Within, Sent, Place
<1>2. CASE Next
  <2>1. CASE \E lens \in Lists : StreamSend(lens)
    BY <2>1, StreamSendKeeps
  <2>2. CASE StreamEnd
    BY <2>2, StreamEndKeeps
  <2>3. CASE \E b \in BufLens : PackData(b) \/ PackShort(b)
    BY <2>3, PackDataKeeps, PackShortKeeps
  <2>4. CASE SendTrailers
    BY <2>4, SendTrailersKeeps
  <2>5. CASE CloseStream
    BY <2>5, CloseStreamKeeps
  <2>6. CASE Over
    BY <1>1, <2>6 DEF Over
  <2> QED BY <1>2, <2>1, <2>2, <2>3, <2>4, <2>5, <2>6 DEF Next
<1> QED BY <1>1, <1>2

-----------------------------------------------------------------------------
(* Theorems *)

\* The fields of a stream always stand for the place its bytes have come to.
THEOREM Invariance == Spec => []IInv
<1>1. Init => IInv
  BY InitInv
<1>2. IInv /\ [Next]_vars => IInv'
  BY StepKeeps
<1> QED BY <1>1, <1>2, PTL DEF Spec

\* The fields of a stream keep their types, whatever is sent, offered or reset.
THEOREM TypeCorrect == Spec => []TypeOK
<1>1. IInv => TypeOK
  BY DEF IInv
<1> QED BY <1>1, Invariance, PTL

\* For messages and buffers of every length, and however sends, frames and the
\* end of the stream interleave: what is on the wire, followed by what the
\* queue, is_trunc and trunc_seek stand for, is every message accepted in its
\* frame, in order, no byte lost or repeated.
THEOREM WireInOrder == Spec => []FramesInOrder
<1>1. IInv => FramesInOrder
  BY InvInOrder
<1> QED BY <1>1, Invariance, PTL

\* As long as no application sends an empty message, the callback given room
\* for a header writes at least one byte and never past its buffer.
THEOREM BuffersFilled == 0 \notin MsgLens => (Spec => []FillsItsBuffer)
<1> SUFFICES ASSUME 0 \notin MsgLens
             PROVE  Spec => []FillsItsBuffer
  OBVIOUS
<1>1. IInv => FillsItsBuffer
  <2> SUFFICES ASSUME IInv, lqueue_omessages # <<>>, NEW b \in BufLens, b >= HEADER
               PROVE  Len(Fill(b).out) \in 1 .. b
    BY DEF FillsItsBuffer
  <2>1. TypeOK /\ Counted /\ Queued /\ Ready /\ b \in Nat
    BY LengthsAssumption DEF IInv, Begun, Ready
  <2>2. is_trunc => trunc_seek # accepted[Head(lqueue_omessages)]
    <3>1. IsRest(lqueue_omessages)
      BY <2>1 DEF IsRest, TypeOK, Counted, Queued
    <3>2. accepted[Head(lqueue_omessages)] \in MsgLens
      BY <2>1, <3>1, RestIs
    <3> DEFINE n == accepted[Head(lqueue_omessages)]
    <3>3. n \in Nat /\ n # 0
      BY <3>2, LengthsAssumption
    <3>4. is_trunc => trunc_seek < n \/ n = 0
      BY <2>1 DEF Ready, Within
    <3>5. trunc_seek \in Nat
      BY <2>1 DEF TypeOK
    <3> HIDE DEF n
    <3>6. is_trunc => trunc_seek # n
      BY <3>3, <3>4, <3>5
    <3> QED BY <3>6 DEF n
  <2>3. Len(Fill(b).out) >= 1
    BY <2>1, <2>2, FillMoves
  <2>4. Fill(b) \in Loop(b)
    BY <2>1, FillKeeps
  <2>5. Len(Fill(b).out) \in Nat /\ Len(Fill(b).out) <= b
    BY <2>4, LoopIs
  <2> QED BY <2>1, <2>3, <2>5
<1> QED BY <1>1, Invariance, PTL

\* As long as no application sends an empty message, the assert that a message
\* begun has payload left is never met; the run send_empty shows the rest.
THEOREM AssertNeedsEmpty == 0 \notin MsgLens => (Spec => []NoAssertFails)
<1> SUFFICES ASSUME 0 \notin MsgLens
             PROVE  Spec => []NoAssertFails
  OBVIOUS
<1>1. Init => NoAssertFails
  BY DEF Init, NoAssertFails
<1>2. IInv /\ NoAssertFails /\ [Next]_vars => NoAssertFails'
  <2> SUFFICES ASSUME IInv, NoAssertFails, [Next]_vars
               PROVE  NoAssertFails'
    OBVIOUS
  <2>1. ASSUME NEW b \in BufLens, PackData(b)
        PROVE  NoAssertFails'
    <3>1. TypeOK /\ Counted /\ Queued /\ Ready /\ b \in Nat
      BY <2>1, LengthsAssumption DEF IInv, Begun, Ready, PackData, MayPack
    <3>2. Fill(b).end # "assert"
      BY <3>1, FillEnds
    <3>3. stream' = stream
      BY <2>1, <3>2 DEF PackData
    <3> QED BY <3>3 DEF NoAssertFails
  <2>2. CASE UNCHANGED vars
    BY <2>2 DEF vars, NoAssertFails
  <2>3. ASSUME NEW b \in BufLens, PackShort(b)
        PROVE  NoAssertFails'
    BY <2>3 DEF PackShort, NoAssertFails
  <2>4. CASE \E lens \in Lists : StreamSend(lens)
    BY <2>4 DEF StreamSend, NoAssertFails
  <2>5. CASE StreamEnd \/ SendTrailers \/ CloseStream \/ Over
    BY <2>5 DEF StreamEnd, SendTrailers, CloseStream, Over, vars, NoAssertFails
  <2> QED BY <2>1, <2>2, <2>3, <2>4, <2>5 DEF Next
<1> QED BY <1>1, <1>2, Invariance, PTL DEF Spec
=============================================================================
