--------------------------- MODULE RecvPathProofs ----------------------------
(***************************************************************************)
(* Theorems about the receive path, for every set of streams, every window, *)
(* every set of byte sequences and every base.                              *)
(*                                                                          *)
(* First the parser: parse_grpc_message is a recursive function on a        *)
(* buffer, and what it returns is proved by induction from the buffer's end *)
(* to its start (Downward): where the loop stops (ParseStops), that what it *)
(* pushes are complete messages of the buffer (ParsePlaces), and that such  *)
(* a message is a slice of it, length bytes included (MessageIsSlice). Then *)
(* the events of one DATA frame (FrameFinals, FrameMessages), the inductive *)
(* invariant IInv, one lemma per action, and the theorems.                  *)
(***************************************************************************)
EXTENDS RecvPath, Integers, SequenceTheorems, WellFoundedInduction, TLAPS

-----------------------------------------------------------------------------
(* Induction from the end of a buffer to its start. A property is given as  *)
(* the set of places that have it.                                          *)

LEMMA SmallestOf ==
  ASSUME NEW T, T \subseteq Nat, T # {}
  PROVE  \E m \in T : \A j \in T : m <= j
<1> DEFINE R == OpToRel(<, Nat)
<1>1. \A x, y \in Nat : x < y => <<x, y>> \in R
  BY DEF OpToRel
<1>2. IsWellFoundedOn(R, Nat)
  BY NatLessThanWellFounded, Zenon
<1> HIDE DEF R
<1>3. PICK m \in T : \A j \in T : <<j, m>> \notin R
  BY <1>2, WFMin
<1>4. \A j \in T : ~(j < m)
  BY <1>1, <1>3
<1> QED BY <1>3, <1>4

LEMMA Downward ==
  ASSUME NEW n \in Nat, NEW S,
         ASSUME NEW k \in 0 .. n, \A j \in 0 .. n : j > k => j \in S
         PROVE  k \in S
  PROVE  0 .. n \subseteq S
<1> DEFINE T == {d \in 0 .. n : n - d \notin S}
<1>1. SUFFICES ASSUME T # {}
               PROVE  FALSE
  <2>1. ASSUME NEW k \in 0 .. n, k \notin S
        PROVE  n - k \in T
    <3>1. n - k \in 0 .. n /\ n - (n - k) = k
      OBVIOUS
    <3> QED BY <2>1, <3>1
  <2> QED BY <2>1
<1>2. PICK m \in T : \A d \in T : m <= d
  <2>1. T \subseteq Nat
    OBVIOUS
  <2> HIDE DEF T
  <2> QED BY <1>1, <2>1, SmallestOf
<1> DEFINE k == n - m
<1>3. k \in 0 .. n /\ k \notin S /\ m \in 0 .. n
  OBVIOUS
<1>4. ASSUME NEW j \in 0 .. n, j > k, j \notin S
      PROVE  FALSE
  <2>1. n - j \in 0 .. n /\ n - (n - j) = j /\ n - j < m
    BY <1>3, <1>4
  <2>2. n - j \in T
    BY <1>4, <2>1
  <2> QED BY <1>2, <1>3, <2>1, <2>2
<1>5. k \in S
  BY <1>3, <1>4
<1> QED BY <1>3, <1>5

-----------------------------------------------------------------------------
(* parse_grpc_message *)

LEMMA WordIs == Word \in Nat /\ Word > 0
<1>1. Base \in Nat /\ Base > 0
  BY BaseAssumption
<1>2. Base * Base \in Nat /\ Base * Base > 0
  BY <1>1
<1>3. Base * Base * Base \in Nat /\ Base * Base * Base > 0
  BY <1>1, <1>2
<1> QED BY <1>1, <1>3 DEF Word

LEMMA NtohlIs ==
  ASSUME NEW b \in Seq(Byte), NEW i \in Nat, i + 4 <= Len(b)
  PROVE  Ntohl(b, i) \in Nat
<1>1. b[i+1] \in Nat /\ b[i+2] \in Nat /\ b[i+3] \in Nat /\ b[i+4] \in Nat /\ Base \in Nat
  <2>1. i+1 \in 1 .. Len(b) /\ i+2 \in 1 .. Len(b) /\ i+3 \in 1 .. Len(b) /\ i+4 \in 1 .. Len(b)
    OBVIOUS
  <2>2. Byte \subseteq Nat /\ Base \in Nat
    BY BaseAssumption DEF Byte
  <2>3. \A j \in 1 .. Len(b) : b[j] \in Byte
    OBVIOUS
  <2> QED BY <2>1, <2>2, <2>3
<1>2. \A x, y \in Nat : x * Base + y \in Nat
  BY <1>1
<1> QED BY <1>1, <1>2 DEF Ntohl

\* A complete message lies within the buffer.
LEMMA MessageIs ==
  ASSUME NEW b \in Seq(Byte), NEW k \in Nat, Complete(b, k)
  PROVE  /\ MsgLen(b, k) \in Nat /\ k + 5 + MsgLen(b, k) <= Len(b)
         /\ Message(b, k) \in MessageType
         /\ Message(b, k).cflag = b[k + 1]
         /\ Message(b, k).data = SubSeq(b, k + 6, k + 5 + MsgLen(b, k))
         /\ Len(Message(b, k).data) = MsgLen(b, k)
<1>1. Len(b) \in Nat /\ k + 5 <= Len(b) /\ k + 5 + MsgLen(b, k) <= Len(b)
  BY DEF Complete
<1>2. MsgLen(b, k) \in Nat
  BY <1>1, NtohlIs DEF MsgLen
<1>3. b[k + 1] \in Byte
  BY <1>1
<1> DEFINE d == SubSeq(b, k + 6, k + 5 + MsgLen(b, k))
<1>4. d \in Seq(Byte) /\ Len(d) = MsgLen(b, k)
  BY <1>1, <1>2
<1>5. Message(b, k) = [cflag |-> b[k + 1], data |-> d]
  BY DEF Message
<1> HIDE DEF d
<1>6. Message(b, k) \in MessageType /\ Message(b, k).cflag = b[k + 1] /\ Message(b, k).data = d
  BY <1>3, <1>4, <1>5 DEF MessageType
<1> QED BY <1>1, <1>2, <1>4, <1>6 DEF d

\* What the loop pushes from `seek` on, for an f that says it of later places.
Pushed(b, f, seek) == IF ~Complete(b, seek) THEN <<>> ELSE <<Message(b, seek)>> \o f[seek + 5]

Pushes(b, f) == f = [seek \in 0 .. Len(b) |-> Pushed(b, f, seek)]

LEMMA PushesExists ==
  ASSUME NEW b \in Seq(Byte)
  PROVE  \E f : Pushes(b, f)
<1> DEFINE n == Len(b)
           S == {k \in 0 .. n : \E f : f = [j \in k .. n |-> Pushed(b, f, j)]}
<1>1. n \in Nat
  OBVIOUS
<1>2. ASSUME NEW k \in 0 .. n, \A j \in 0 .. n : j > k => j \in S
      PROVE  k \in S
  <2>1. PICK g : g = [j \in k + 1 .. n |-> Pushed(b, g, j)]
    <3>1. CASE k = n
      <4> DEFINE e == [j \in {} |-> 0]
      <4>1. k + 1 .. n = {}
        BY <1>1, <3>1
      <4>2. e = [j \in k + 1 .. n |-> Pushed(b, e, j)]
        BY <4>1
      <4> QED BY <4>2
    <3>2. CASE k # n
      <4>1. k + 1 \in 0 .. n /\ k + 1 > k
        BY <1>1, <3>2
      <4> QED BY <1>2, <4>1
    <3> QED BY <3>1, <3>2
  <2> DEFINE v == Pushed(b, g, k)
             f == [j \in k .. n |-> IF j = k THEN v ELSE g[j]]
  <2>2. \A j \in k .. n : Complete(b, j) => j + 5 \in k + 1 .. n
    BY <1>1 DEF Complete
  <2>3. \A j \in k + 1 .. n : f[j] = g[j]
    BY <1>1
  <2>4. \A j \in k .. n : Pushed(b, f, j) = Pushed(b, g, j)
    BY <2>2, <2>3 DEF Pushed
  <2>5. ASSUME NEW j \in k .. n
        PROVE  f[j] = Pushed(b, f, j)
    <3>1. CASE j = k
      BY <2>4, <3>1
    <3>2. CASE j # k
      <4>1. j \in k + 1 .. n
        BY <1>1, <2>5, <3>2
      <4> QED BY <2>1, <2>3, <2>4, <4>1
    <3> QED BY <3>1, <3>2
  <2>6. f = [j \in k .. n |-> f[j]]
    OBVIOUS
  <2> HIDE DEF f
  <2>7. f = [j \in k .. n |-> Pushed(b, f, j)]
    BY <2>5, <2>6
  <2> QED BY <2>7
<1> HIDE DEF S
<1>3. 0 .. n \subseteq S
  BY <1>1, <1>2, Downward
<1>4. 0 \in S
  BY <1>1, <1>3
<1>5. PICK f : f = [j \in 0 .. n |-> Pushed(b, f, j)]
  BY <1>4 DEF S
<1> QED BY <1>5 DEF Pushes

\* The messages pushed from a place on: p[0] are those parse_grpc_message pushes.
Parsed(b, p) ==
    /\ p \in [0 .. Len(b) -> Seq(MessageType)]
    /\ \A k \in 0 .. Len(b) : p[k] = Pushed(b, p, k)
    /\ ParseGrpcMessage(b) = p[0]

LEMMA ParseIs ==
  ASSUME NEW b \in Seq(Byte)
  PROVE  \E p : Parsed(b, p)
<1> DEFINE n == Len(b)
           p == CHOOSE f : Pushes(b, f)
           S == {k \in 0 .. n : p[k] \in Seq(MessageType)}
<1>1. n \in Nat
  OBVIOUS
<1>2. Pushes(b, p)
  BY PushesExists
<1>3. ParseGrpcMessage(b) = p[0]
  BY DEF ParseGrpcMessage, Pushes, Pushed
<1> HIDE DEF p
<1>4. p = [k \in 0 .. n |-> p[k]] /\ \A k \in 0 .. n : p[k] = Pushed(b, p, k)
  BY <1>2 DEF Pushes
<1>5. ASSUME NEW k \in 0 .. n, \A j \in 0 .. n : j > k => j \in S
      PROVE  k \in S
  <2>1. CASE ~Complete(b, k)
    <3>1. p[k] = <<>>
      BY <1>4, <2>1 DEF Pushed
    <3>2. <<>> \in Seq(MessageType)
      OBVIOUS
    <3> QED BY <3>1, <3>2
  <2>2. CASE Complete(b, k)
    <3>1. k + 5 \in 0 .. n /\ k + 5 > k
      BY <1>1, <2>2 DEF Complete
    <3>2. Message(b, k) \in MessageType
      BY <2>2, MessageIs
    <3>3. p[k + 5] \in Seq(MessageType)
      BY <1>5, <3>1
    <3>4. p[k] = <<Message(b, k)>> \o p[k + 5]
      BY <1>4, <2>2 DEF Pushed
    <3>5. <<Message(b, k)>> \o p[k + 5] \in Seq(MessageType)
      BY <3>2, <3>3
    <3> QED BY <3>4, <3>5
  <2> QED BY <2>1, <2>2
<1> HIDE DEF S
<1>6. 0 .. n \subseteq S
  BY <1>1, <1>5, Downward
<1>7. \A k \in 0 .. n : p[k] \in Seq(MessageType)
  BY <1>6 DEF S
<1>8. p \in [0 .. n -> Seq(MessageType)]
  BY <1>4, <1>7
<1> QED BY <1>3, <1>4, <1>8 DEF Parsed

\* The loop stops where no complete message starts, within the buffer.
LEMMA ParseStops ==
  ASSUME NEW b \in Seq(Byte)
  PROVE  /\ ParseGrpcMessage(b) \in Seq(MessageType)
         /\ Lseek(b) \in 0 .. Len(b)
         /\ ~Complete(b, Lseek(b))
         /\ Lseek(b) = 0 <=> ~Complete(b, 0)
<1> DEFINE n == Len(b)
<1>1. n \in Nat
  OBVIOUS
<1>2. PICK p : Parsed(b, p)
  BY ParseIs
<1> DEFINE S == {k \in 0 .. n : k + 5 * Len(p[k]) <= n /\ ~Complete(b, k + 5 * Len(p[k]))}
<1>3. ASSUME NEW k \in 0 .. n
      PROVE  /\ p[k] \in Seq(MessageType) /\ Len(p[k]) \in Nat
             /\ ~Complete(b, k) => Len(p[k]) = 0
             /\ Complete(b, k) => /\ k + 5 \in 0 .. n
                                  /\ Len(p[k]) = 1 + Len(p[k + 5])
  <2>1. p[k] \in Seq(MessageType)
    BY <1>2 DEF Parsed
  <2>2. CASE ~Complete(b, k)
    <3>1. p[k] = <<>>
      BY <1>2, <2>2 DEF Parsed, Pushed
    <3> QED BY <2>1, <2>2, <3>1
  <2>3. CASE Complete(b, k)
    <3>1. k + 5 \in 0 .. n
      BY <1>1, <2>3 DEF Complete
    <3>2. Message(b, k) \in MessageType /\ p[k + 5] \in Seq(MessageType)
      <4>1. p[k + 5] \in Seq(MessageType)
        BY <1>2, <3>1 DEF Parsed
      <4> QED BY <2>3, <4>1, MessageIs
    <3>3. p[k] = <<Message(b, k)>> \o p[k + 5]
      BY <1>2, <2>3 DEF Parsed, Pushed
    <3> QED BY <2>1, <2>3, <3>1, <3>2, <3>3
  <2> QED BY <2>2, <2>3
<1>4. ASSUME NEW k \in 0 .. n, \A j \in 0 .. n : j > k => j \in S
      PROVE  k \in S
  <2>1. CASE ~Complete(b, k)
    <3>1. k + 5 * Len(p[k]) = k
      BY <1>3, <2>1
    <3> QED BY <2>1, <3>1
  <2>2. CASE Complete(b, k)
    <3>1. k + 5 \in 0 .. n /\ Len(p[k]) = 1 + Len(p[k + 5]) /\ Len(p[k + 5]) \in Nat
      BY <1>3, <2>2
    <3>2. k + 5 \in S
      BY <1>4, <3>1
    <3>3. k + 5 * Len(p[k]) = (k + 5) + 5 * Len(p[k + 5])
      <4> DEFINE L == Len(p[k + 5])
      <4>1. Len(p[k]) = 1 + L /\ L \in Nat /\ k \in Int
        BY <3>1
      <4> HIDE DEF L
      <4>2. k + 5 * (1 + L) = (k + 5) + 5 * L
        BY <4>1
      <4> QED BY <4>1, <4>2 DEF L
    <3> QED BY <3>2, <3>3
  <2> QED BY <2>1, <2>2
<1> HIDE DEF S
<1>5. 0 \in S
  <2>1. 0 .. n \subseteq S
    BY <1>1, <1>4, Downward
  <2> QED BY <1>1, <2>1
<1>6. ParseGrpcMessage(b) = p[0] /\ 0 \in 0 .. n
  BY <1>1, <1>2 DEF Parsed
<1>7. Lseek(b) = 0 + 5 * Len(p[0])
  BY <1>3, <1>6 DEF Lseek
<1>8. Lseek(b) \in 0 .. n /\ ~Complete(b, Lseek(b))
  BY <1>3, <1>5, <1>6, <1>7 DEF S
<1>9. Lseek(b) = 0 <=> ~Complete(b, 0)
  <2>1. CASE ~Complete(b, 0)
    BY <1>3, <1>6, <1>7, <2>1
  <2>2. CASE Complete(b, 0)
    <3>1. 5 \in 0 .. n /\ Len(p[0]) = 1 + Len(p[5]) /\ Len(p[5]) \in Nat
      BY <1>3, <1>6, <2>2
    <3> QED BY <1>7, <2>2, <3>1
  <2> QED BY <2>1, <2>2
<1> QED BY <1>3, <1>6, <1>8, <1>9

\* Whatever is pushed is a complete message that starts somewhere in the buffer.
LEMMA ParsePlaces ==
  ASSUME NEW b \in Seq(Byte), NEW i \in DOMAIN ParseGrpcMessage(b)
  PROVE  \E k \in 0 .. Len(b) : Complete(b, k) /\ ParseGrpcMessage(b)[i] = Message(b, k)
<1> DEFINE n == Len(b)
           Place(m) == \E k \in 0 .. n : Complete(b, k) /\ m = Message(b, k)
<1>1. n \in Nat
  OBVIOUS
<1>2. PICK p : Parsed(b, p)
  BY ParseIs
<1> DEFINE S == {k \in 0 .. n : \A j \in DOMAIN p[k] : Place(p[k][j])}
<1>3. ASSUME NEW k \in 0 .. n, \A j \in 0 .. n : j > k => j \in S
      PROVE  k \in S
  <2>1. CASE ~Complete(b, k)
    <3>1. p[k] = <<>>
      BY <1>2, <2>1 DEF Parsed, Pushed
    <3> QED BY <3>1
  <2>2. CASE Complete(b, k)
    <3>1. k + 5 \in 0 .. n /\ k + 5 > k
      BY <1>1, <2>2 DEF Complete
    <3>2. p[k + 5] \in Seq(MessageType) /\ Message(b, k) \in MessageType
      <4>1. p[k + 5] \in Seq(MessageType)
        BY <1>2, <3>1 DEF Parsed
      <4> QED BY <2>2, <4>1, MessageIs
    <3>3. p[k] = <<Message(b, k)>> \o p[k + 5]
      BY <1>2, <2>2 DEF Parsed, Pushed
    <3>4. \A j \in DOMAIN p[k + 5] : Place(p[k + 5][j])
      BY <1>3, <3>1
    <3>5. Place(Message(b, k))
      BY <2>2
    <3> HIDE DEF Place
    <3>6. ASSUME NEW j \in DOMAIN p[k]
          PROVE  Place(p[k][j])
      <4>1. CASE j = 1
        BY <3>2, <3>3, <3>5, <4>1
      <4>2. CASE j # 1
        <5>1. j - 1 \in DOMAIN p[k + 5] /\ p[k][j] = p[k + 5][j - 1]
          BY <3>2, <3>3, <3>6, <4>2
        <5> QED BY <3>4, <5>1
      <4> QED BY <4>1, <4>2
    <3> QED BY <3>6
  <2> QED BY <2>1, <2>2
<1> HIDE DEF S
<1>4. 0 .. n \subseteq S
  BY <1>1, <1>3, Downward
<1>5. 0 \in S /\ ParseGrpcMessage(b) = p[0]
  BY <1>1, <1>2, <1>4 DEF Parsed
<1> QED BY <1>5 DEF S


-----------------------------------------------------------------------------
(* What is left in the buffer, and what a message is made of *)

\* The slice that leaves out the first f elements.
LEMMA SliceIs ==
  ASSUME NEW S, NEW q \in Seq(S), NEW f \in Nat, NEW t \in Nat, f <= t, t <= Len(q)
  PROVE  /\ SubSeq(q, f + 1, t) \in Seq(S)
         /\ Len(SubSeq(q, f + 1, t)) = t - f
         /\ \A i \in 1 .. t - f : SubSeq(q, f + 1, t)[i] = q[f + i]
<1>1. \A i \in f + 1 .. t : q[i] \in S
  OBVIOUS
<1>2. /\ SubSeq(q, f + 1, t) \in Seq(S)
      /\ Len(SubSeq(q, f + 1, t)) = IF f + 1 <= t THEN t - (f + 1) + 1 ELSE 0
      /\ \A i \in 1 .. t - (f + 1) + 1 : SubSeq(q, f + 1, t)[i] = q[(f + 1) + i - 1]
  BY <1>1, SubSeqProperties
<1>3. t - (f + 1) + 1 = t - f /\ \A i \in Int : (f + 1) + i - 1 = f + i
  OBVIOUS
<1> QED BY <1>2, <1>3

\* memcpy to the front of the buffer, whichever way it goes, moves as many
\* bytes as are left.
LEMMA CopiedIs ==
  ASSUME NEW b \in Seq(Byte), NEW l \in 1 .. Len(b), NEW order \in {"up", "down"}
  PROVE  Copied(b, l, order) \in Seq(Byte) /\ Len(Copied(b, l, order)) = Len(b) - l
<1> DEFINE n == Len(b) - l
           Move(f, i) == IF i + l <= n THEN f[i + l] ELSE b[i + l]
           Moves(f) == f = [i \in 1 .. n |-> Move(f, i)]
           down == CHOOSE f : Moves(f)
<1>1. n \in Nat /\ Len(b) \in Nat /\ l \in Nat /\ l >= 1 /\ l + n = Len(b)
  OBVIOUS
<1>2. CASE order = "up"
  <2>1. Copied(b, l, order) = SubSeq(b, l + 1, Len(b))
    BY <1>2 DEF Copied
  <2>2. SubSeq(b, l + 1, Len(b)) \in Seq(Byte) /\ Len(SubSeq(b, l + 1, Len(b))) = Len(b) - l
    BY SliceIs
  <2> QED BY <2>1, <2>2
<1>3. CASE order = "down"
  <2>1. Copied(b, l, order) = [i \in 1 .. n |-> down[i]]
    BY <1>3 DEF Copied
  <2>n. n = Len(b) - l
    OBVIOUS
  <2> HIDE DEF n
  <2> DEFINE S == {k \in 0 .. n : \E f : f = [i \in k + 1 .. n |-> Move(f, i)]}
  <2>2. ASSUME NEW k \in 0 .. n, \A j \in 0 .. n : j > k => j \in S
        PROVE  k \in S
    <3>1. CASE k = n
      <4> DEFINE e == [i \in {} |-> 0]
      <4>1. k + 1 .. n = {}
        BY <1>1, <3>1
      <4>2. e = [i \in k + 1 .. n |-> Move(e, i)]
        BY <4>1
      <4> QED BY <4>2
    <3>2. CASE k # n
      <4>1. k + 1 \in 0 .. n /\ k + 1 > k
        BY <1>1, <3>2
      <4>2. PICK g : g = [i \in k + 2 .. n |-> Move(g, i)]
        <5>1. k + 1 \in S
          BY <2>2, <4>1
        <5>2. PICK g : g = [i \in (k + 1) + 1 .. n |-> Move(g, i)]
          BY <5>1
        <5>3. (k + 1) + 1 = k + 2
          BY <1>1
        <5> QED BY <5>2, <5>3
      <4> DEFINE v == Move(g, k + 1)
                 f == [i \in k + 1 .. n |-> IF i = k + 1 THEN v ELSE g[i]]
      <4>3. \A i \in k + 2 .. n : f[i] = g[i]
        BY <1>1, <4>1
      <4>4. \A i \in k + 1 .. n : i + l <= n => i + l \in k + 2 .. n
        BY <1>1, <4>1
      <4>5. \A i \in k + 1 .. n : Move(f, i) = Move(g, i)
        BY <4>3, <4>4
      <4>6. ASSUME NEW i \in k + 1 .. n
            PROVE  f[i] = Move(f, i)
        <5>1. CASE i = k + 1
          BY <4>5, <5>1
        <5>2. CASE i # k + 1
          <6>1. i \in k + 2 .. n
            BY <1>1, <4>1, <4>6, <5>2
          <6>2. g[i] = Move(g, i)
            BY <4>2, <6>1
          <6> QED BY <4>3, <4>5, <6>1, <6>2
        <5> QED BY <5>1, <5>2
      <4>7. f = [i \in k + 1 .. n |-> f[i]]
        OBVIOUS
      <4> HIDE DEF f
      <4>8. f = [i \in k + 1 .. n |-> Move(f, i)]
        BY <4>6, <4>7
      <4> QED BY <4>8
    <3> QED BY <3>1, <3>2
  <2> HIDE DEF S
  <2>3. 0 \in S
    <3>1. 0 .. n \subseteq S
      BY <1>1, <2>2, Downward
    <3> QED BY <1>1, <3>1
  <2>4. \E f : Moves(f)
    BY <2>3 DEF S
  <2>5. Moves(down)
    BY <2>4
  <2> HIDE DEF down
  <2>6. \A i \in 1 .. n : down[i] = Move(down, i)
    BY <2>5
  <2> DEFINE T == {k \in 0 .. n : \A i \in k + 1 .. n : down[i] \in Byte}
  <2>7. ASSUME NEW k \in 0 .. n, \A j \in 0 .. n : j > k => j \in T
        PROVE  k \in T
    <3>1. CASE k = n
      BY <3>1
    <3>2. CASE k # n
      <4>1. k + 1 \in T /\ k + 1 \in 1 .. n
        BY <1>1, <2>7, <3>2
      <4>2. \A i \in k + 2 .. n : down[i] \in Byte
        BY <1>1, <4>1
      <4>3. down[k + 1] \in Byte
        <5>1. CASE k + 1 + l <= n
          <6>1. k + 1 + l \in k + 2 .. n
            BY <1>1, <4>1, <5>1
          <6> QED BY <2>6, <4>1, <4>2, <5>1, <6>1
        <5>2. CASE ~(k + 1 + l <= n)
          <6>1. k + 1 + l \in 1 .. Len(b)
            BY <1>1, <4>1
          <6>2. b[k + 1 + l] \in Byte
            BY <6>1
          <6> QED BY <2>6, <4>1, <5>2, <6>2
        <5> QED BY <5>1, <5>2
      <4>4. \A i \in k + 1 .. n : i = k + 1 \/ i \in k + 2 .. n
        BY <1>1, <4>1
      <4>5. \A i \in k + 1 .. n : down[i] \in Byte
        BY <4>2, <4>3, <4>4
      <4> QED BY <4>5
    <3> QED BY <3>1, <3>2
  <2> HIDE DEF T
  <2>8. 0 \in T
    <3>1. 0 .. n \subseteq T
      BY <1>1, <2>7, Downward
    <3> QED BY <1>1, <3>1
  <2>9. \A i \in 1 .. n : down[i] \in Byte
    BY <2>8 DEF T
  <2>10. [i \in 1 .. n |-> down[i]] \in Seq(Byte) /\ Len([i \in 1 .. n |-> down[i]]) = n
    BY <1>1, <2>9
  <2> QED BY <2>1, <2>10, <2>n
<1> QED BY <1>2, <1>3

\* A slice of a slice.
LEMMA SliceOfSlice ==
  ASSUME NEW q \in Seq(Byte), NEW f \in Nat, NEW t \in Nat, f <= t, t <= Len(q),
         NEW i \in Nat, NEW j \in Nat, i <= j, j <= t - f
  PROVE  SubSeq(SubSeq(q, f + 1, t), i + 1, j) = SubSeq(q, f + i + 1, f + j)
<1> DEFINE b == SubSeq(q, f + 1, t)
<1>1. b \in Seq(Byte) /\ Len(b) = t - f /\ \A k \in 1 .. t - f : b[k] = q[f + k]
  <2>1. Len(b) = t - f
    OBVIOUS
  <2>2. \A k \in 1 .. t - f : b[k] = q[f + k]
    OBVIOUS
  <2> QED BY <2>1, <2>2
<1> HIDE DEF b
<1> DEFINE x == SubSeq(b, i + 1, j)
           y == SubSeq(q, f + i + 1, f + j)
<1>2. x \in Seq(Byte) /\ Len(x) = j - i /\ \A k \in 1 .. j - i : x[k] = b[i + k]
  BY <1>1
<1>3. y \in Seq(Byte) /\ Len(y) = j - i /\ \A k \in 1 .. j - i : y[k] = q[f + i + k]
  BY <1>1
<1> HIDE DEF x, y
<1>4. \A k \in 1 .. j - i : x[k] = y[k]
  <2> TAKE k \in 1 .. j - i
  <2>1. i + k \in 1 .. t - f /\ f + (i + k) = f + i + k
    OBVIOUS
  <2> QED BY <1>1, <1>2, <1>3, <2>1
<1>5. x = y
  BY <1>2, <1>3, <1>4
<1> QED BY <1>5 DEF x, y, b

LEMMA DivMod ==
  ASSUME NEW B \in Nat, B > 0, NEW x \in Nat, NEW y \in 0 .. B - 1
  PROVE  (x * B + y) \div B = x /\ (x * B + y) % B = y
OBVIOUS

LEMMA Digits ==
  ASSUME NEW B \in Nat, B > 0, NEW C \in Nat, C > 0, NEW x \in 0 .. C - 1, NEW y \in 0 .. B - 1
  PROVE  x * B + y \in 0 .. C * B - 1
<1>1. x + 1 <= C /\ x \in Nat /\ y \in Nat /\ y <= B - 1
  OBVIOUS
<1>2. (x + 1) * B <= C * B
  BY <1>1
<1>3. (x + 1) * B = x * B + B /\ x * B \in Nat /\ C * B \in Nat
  BY <1>1
<1> DEFINE p == x * B
           q == C * B
<1>4. p + B <= q /\ p \in Nat /\ q \in Nat
  BY <1>2, <1>3
<1> HIDE DEF p, q
<1>5. p + y \in 0 .. q - 1
  BY <1>1, <1>4
<1> QED BY <1>5 DEF p, q

LEMMA TwoDigits ==
  ASSUME NEW B \in Nat, B > 0, NEW x \in 0 .. B - 1, NEW y \in 0 .. B - 1
  PROVE  x * B + y \in 0 .. B * B - 1 /\ B * B \in Nat /\ B * B > 0
<1>1. x * B + y \in 0 .. B * B - 1
  BY Digits
<1>2. B * B \in Nat /\ B * B > 0
  OBVIOUS
<1> QED BY <1>1, <1>2


\* The four bytes read at a place are the four bytes of the number read there.
LEMMA BigEndianIs ==
  ASSUME NEW b \in Seq(Byte), NEW i \in Nat, i + 4 <= Len(b)
  PROVE  BigEndian(Ntohl(b, i)) = <<b[i+1], b[i+2], b[i+3], b[i+4]>>
<1> DEFINE w == b[i+1]
           x == b[i+2]
           y == b[i+3]
           z == b[i+4]
<1>1. Base \in Nat /\ Base > 0
  BY BaseAssumption
<1>2. w \in 0 .. Base - 1 /\ x \in 0 .. Base - 1 /\ y \in 0 .. Base - 1 /\ z \in 0 .. Base - 1
  <2>1. i+1 \in 1 .. Len(b) /\ i+2 \in 1 .. Len(b) /\ i+3 \in 1 .. Len(b) /\ i+4 \in 1 .. Len(b)
    OBVIOUS
  <2>2. \A j \in 1 .. Len(b) : b[j] \in Byte
    OBVIOUS
  <2> QED BY <2>1, <2>2 DEF Byte
<1>3. Ntohl(b, i) = ((w * Base + x) * Base + y) * Base + z
  BY DEF Ntohl
<1> HIDE DEF w, x, y, z
<1> DEFINE wx  == w * Base + x
           wxy == wx * Base + y
           n   == wxy * Base + z
<1>4. w \in Nat /\ x \in Nat /\ y \in Nat /\ z \in Nat
  BY <1>1, <1>2
<1>5. \A p, q \in Nat : p * Base + q \in Nat
  BY <1>1
<1>6. wx \in Nat
  BY <1>4, <1>5
<1> HIDE DEF wx
<1>7. wxy \in Nat
  BY <1>4, <1>5, <1>6
<1> HIDE DEF wxy
<1>8. n \div Base = wxy /\ n % Base = z
  BY <1>1, <1>2, <1>7, DivMod
<1>9. n \div (Base * Base) = wx /\ (n \div (Base * Base)) % Base = x
  <2> DEFINE B == Base * Base
             r == y * Base + z
  <2>1. B \in Nat /\ B > 0
    BY <1>1
  <2>2. r \in 0 .. B - 1
    BY <1>1, <1>2, TwoDigits
  <2>3. n = wx * B + r
    BY <1>1, <1>4, <1>6 DEF wxy
  <2> HIDE DEF B, r
  <2>4. n \div B = wx
    BY <1>6, <2>1, <2>2, <2>3, DivMod
  <2>5. wx % Base = x
    BY <1>1, <1>2, <1>4, DivMod DEF wx
  <2> QED BY <2>4, <2>5 DEF B
<1>10. wxy % Base = y
  BY <1>1, <1>2, <1>6, DivMod DEF wxy
<1>11. n \div (Base * Base * Base) = w
  <2> DEFINE B == Base * Base * Base
             r == (x * Base + y) * Base + z
  <2>1. B \in Nat /\ B > 0
    <3>1. Base * Base \in Nat /\ Base * Base > 0
      BY <1>1
    <3> QED BY <1>1, <3>1
  <2>2. r \in 0 .. B - 1
    <3> DEFINE xy == x * Base + y
               BB == Base * Base
    <3>1. xy \in 0 .. BB - 1 /\ BB \in Nat /\ BB > 0
      BY <1>1, <1>2, TwoDigits
    <3>2. B = BB * Base
      OBVIOUS
    <3> HIDE DEF xy, BB
    <3>3. xy * Base + z \in 0 .. BB * Base - 1
      BY <1>1, <1>2, <3>1, Digits
    <3> QED BY <3>2, <3>3 DEF xy
  <2>3. n = w * B + r
    <3>1. wxy * Base = ((w * Base + x) * Base) * Base + y * Base
      BY <1>1, <1>4 DEF wxy, wx
    <3>2. ((w * Base + x) * Base) * Base = w * B + (x * Base) * Base
      BY <1>1, <1>4
    <3>3. r = (x * Base) * Base + y * Base + z
      BY <1>1, <1>4
    <3>4. w * B \in Nat /\ (x * Base) * Base \in Nat /\ y * Base \in Nat
      BY <1>1, <1>4, <2>1
    <3> HIDE DEF B, r
    <3> QED BY <1>4, <3>1, <3>2, <3>3, <3>4
  <2> HIDE DEF B, r
  <2>4. n \div B = w
    BY <1>4, <2>1, <2>2, <2>3, DivMod
  <2> QED BY <2>4 DEF B
<1>12. Ntohl(b, i) = n
  BY <1>3 DEF wx, wxy
<1> HIDE DEF n
<1>13. BigEndian(n) = <<w, x, y, z>>
  BY <1>8, <1>9, <1>10, <1>11 DEF BigEndian
<1> QED BY <1>12, <1>13 DEF w, x, y, z

\* A complete message is a slice of the buffer, flag, length and payload.
LEMMA MessageIsSlice ==
  ASSUME NEW b \in Seq(Byte), NEW k \in Nat, Complete(b, k)
  PROVE  SubSeq(b, k + 1, k + 5 + MsgLen(b, k))
           = <<b[k + 1]>> \o BigEndian(MsgLen(b, k)) \o SubSeq(b, k + 6, k + 5 + MsgLen(b, k))
<1> DEFINE n == MsgLen(b, k)
           x == SubSeq(b, k + 1, k + 5 + n)
           d == SubSeq(b, k + 6, k + 5 + n)
           h == <<b[k+1]>> \o <<b[k+2], b[k+3], b[k+4], b[k+5]>>
<1>1. n \in Nat /\ k + 5 + n <= Len(b) /\ Len(b) \in Nat
  BY MessageIs
<1>2. BigEndian(n) = <<b[k+2], b[k+3], b[k+4], b[k+5]>>
  <2>1. (k + 1) + 4 <= Len(b) /\ k + 1 \in Nat
    BY <1>1
  <2>2. BigEndian(Ntohl(b, k + 1)) = <<b[(k+1)+1], b[(k+1)+2], b[(k+1)+3], b[(k+1)+4]>>
    BY <2>1, BigEndianIs
  <2>3. (k+1)+1 = k+2 /\ (k+1)+2 = k+3 /\ (k+1)+3 = k+4 /\ (k+1)+4 = k+5
    OBVIOUS
  <2> QED BY <2>2, <2>3 DEF MsgLen
<1> HIDE DEF n
<1>3. b[k+1] \in Byte /\ b[k+2] \in Byte /\ b[k+3] \in Byte /\ b[k+4] \in Byte /\ b[k+5] \in Byte
  BY <1>1
<1>5. h \in Seq(Byte) /\ Len(h) = 5
      /\ h[1] = b[k+1] /\ h[2] = b[k+2] /\ h[3] = b[k+3] /\ h[4] = b[k+4] /\ h[5] = b[k+5]
  <2> DEFINE c1 == b[k+1]
             c2 == b[k+2]
             c3 == b[k+3]
             c4 == b[k+4]
             c5 == b[k+5]
  <2>1. c1 \in Byte /\ c2 \in Byte /\ c3 \in Byte /\ c4 \in Byte /\ c5 \in Byte
    BY <1>3
  <2>2. h = <<c1>> \o <<c2, c3, c4, c5>>
    BY DEF h
  <2> HIDE DEF h, c1, c2, c3, c4, c5
  <2> DEFINE s1 == <<c1>>
             s4 == <<c2, c3, c4, c5>>
  <2>3. s1 \in Seq(Byte) /\ Len(s1) = 1 /\ s1[1] = c1
    BY <2>1
  <2>4. s4 \in Seq(Byte) /\ Len(s4) = 4 /\ s4[1] = c2 /\ s4[2] = c3 /\ s4[3] = c4 /\ s4[4] = c5
    BY <2>1
  <2> HIDE DEF s1, s4
  <2>5. /\ s1 \o s4 \in Seq(Byte) /\ Len(s1 \o s4) = Len(s1) + Len(s4)
        /\ \A i \in 1 .. Len(s1) + Len(s4) :
             (s1 \o s4)[i] = IF i <= Len(s1) THEN s1[i] ELSE s4[i - Len(s1)]
    BY <2>3, <2>4, ConcatProperties
  <2>6. h = s1 \o s4
    BY <2>2 DEF s1, s4
  <2>7. h[1] = c1 /\ h[2] = c2 /\ h[3] = c3 /\ h[4] = c4 /\ h[5] = c5
    <3>1. \A i \in 1 .. 5 : h[i] = IF i <= 1 THEN s1[i] ELSE s4[i - 1]
      <4>1. Len(s1) = 1 /\ Len(s1) + Len(s4) = 5
        BY <2>3, <2>4
      <4> QED BY <2>5, <2>6, <4>1, Zenon
    <3> QED BY <2>3, <2>4, <3>1
  <2>8. h \in Seq(Byte) /\ Len(h) = 5
    BY <2>3, <2>4, <2>5, <2>6
  <2> QED BY <2>7, <2>8 DEF c1, c2, c3, c4, c5
<1> HIDE DEF h
<1>6. x \in Seq(Byte) /\ Len(x) = 5 + n /\ \A i \in 1 .. 5 + n : x[i] = b[k + i]
  <2>1. k <= k + 5 + n /\ k + 5 + n \in Nat /\ (k + 5 + n) - k = 5 + n
    BY <1>1
  <2> QED BY <1>1, <2>1, SliceIs
<1>7. d \in Seq(Byte) /\ Len(d) = n /\ \A i \in 1 .. n : d[i] = b[k + 5 + i]
  <2>1. k + 5 <= k + 5 + n /\ k + 5 + n \in Nat /\ (k + 5 + n) - (k + 5) = n
        /\ (k + 5) + 1 = k + 6 /\ k + 5 \in Nat
    BY <1>1
  <2>2. /\ SubSeq(b, (k + 5) + 1, k + 5 + n) \in Seq(Byte)
        /\ Len(SubSeq(b, (k + 5) + 1, k + 5 + n)) = (k + 5 + n) - (k + 5)
        /\ \A i \in 1 .. (k + 5 + n) - (k + 5) : SubSeq(b, (k + 5) + 1, k + 5 + n)[i] = b[k + 5 + i]
    BY <1>1, <2>1, SliceIs
  <2> QED BY <2>1, <2>2
<1> HIDE DEF x, d
<1>8. h \o d \in Seq(Byte) /\ Len(h \o d) = 5 + n
      /\ \A i \in 1 .. 5 + n : (h \o d)[i] = IF i <= 5 THEN h[i] ELSE d[i - 5]
  <2>1. h \in Seq(Byte) /\ d \in Seq(Byte) /\ Len(h) = 5 /\ Len(d) = n
    BY <1>5, <1>7
  <2>2. /\ h \o d \in Seq(Byte) /\ Len(h \o d) = Len(h) + Len(d)
        /\ \A i \in 1 .. Len(h) + Len(d) :
             (h \o d)[i] = IF i <= Len(h) THEN h[i] ELSE d[i - Len(h)]
    BY <2>1, ConcatProperties
  <2> QED BY <2>1, <2>2
<1>9. ASSUME NEW i \in 1 .. 5 + n
      PROVE  x[i] = (h \o d)[i]
  <2>1. CASE i <= 5
    <3>1. i = 1 \/ i = 2 \/ i = 3 \/ i = 4 \/ i = 5
      BY <2>1
    <3>2. h[i] = b[k + i]
      BY <1>5, <3>1
    <3> QED BY <1>6, <1>8, <2>1, <3>2
  <2>2. CASE ~(i <= 5)
    <3>1. i - 5 \in 1 .. n /\ k + 5 + (i - 5) = k + i
      BY <1>1, <2>2
    <3> QED BY <1>6, <1>7, <1>8, <2>2, <3>1
  <2> QED BY <2>1, <2>2
<1>10. x = h \o d
  BY <1>6, <1>8, <1>9, SeqEqual
<1>11. (<<b[k+1]>> \o BigEndian(n)) \o d = h \o d
  BY <1>2 DEF h
<1> QED BY <1>10, <1>11 DEF x, d, n

\* An element taken out of a sequence.
LEMMA TakenOut ==
  ASSUME NEW S, NEW q \in Seq(S), NEW i \in 1 .. Len(q)
  PROVE  LET r == SubSeq(q, 1, i - 1) \o SubSeq(q, i + 1, Len(q))
         IN  /\ r \in Seq(S) /\ Len(r) = Len(q) - 1
             /\ \A j \in 1 .. Len(q) - 1 : r[j] = IF j < i THEN q[j] ELSE q[j + 1]
<1> DEFINE x == SubSeq(q, 1, i - 1)
           y == SubSeq(q, i + 1, Len(q))
<1>1. i \in Nat /\ i >= 1 /\ i <= Len(q) /\ Len(q) \in Nat
  OBVIOUS
<1>2. x \in Seq(S) /\ Len(x) = i - 1 /\ \A j \in 1 .. i - 1 : x[j] = q[j]
  <2>1. i - 1 \in Nat /\ 0 <= i - 1 /\ i - 1 <= Len(q) /\ (i - 1) - 0 = i - 1 /\ 0 + 1 = 1
    BY <1>1
  <2>2. /\ SubSeq(q, 0 + 1, i - 1) \in Seq(S)
        /\ Len(SubSeq(q, 0 + 1, i - 1)) = (i - 1) - 0
        /\ \A j \in 1 .. (i - 1) - 0 : SubSeq(q, 0 + 1, i - 1)[j] = q[0 + j]
    BY <2>1, SliceIs
  <2>3. \A j \in 1 .. i - 1 : 0 + j = j
    OBVIOUS
  <2> QED BY <2>1, <2>2, <2>3
<1>3. y \in Seq(S) /\ Len(y) = Len(q) - i /\ \A j \in 1 .. Len(q) - i : y[j] = q[i + j]
  BY <1>1, SliceIs
<1> HIDE DEF x, y
<1>4. x \o y \in Seq(S) /\ Len(x \o y) = Len(q) - 1
      /\ \A j \in 1 .. Len(q) - 1 : (x \o y)[j] = IF j <= i - 1 THEN x[j] ELSE y[j - (i - 1)]
  <2>1. /\ x \o y \in Seq(S) /\ Len(x \o y) = Len(x) + Len(y)
        /\ \A j \in 1 .. Len(x) + Len(y) :
             (x \o y)[j] = IF j <= Len(x) THEN x[j] ELSE y[j - Len(x)]
    BY <1>2, <1>3, ConcatProperties
  <2>2. (i - 1) + (Len(q) - i) = Len(q) - 1
    BY <1>1
  <2> QED BY <1>2, <1>3, <2>1, <2>2
<1>5. ASSUME NEW j \in 1 .. Len(q) - 1
      PROVE  (x \o y)[j] = IF j < i THEN q[j] ELSE q[j + 1]
  <2>1. CASE j < i
    BY <1>1, <1>2, <1>4, <2>1
  <2>2. CASE ~(j < i)
    <3>1. j - (i - 1) \in 1 .. Len(q) - i /\ i + (j - (i - 1)) = j + 1 /\ ~(j <= i - 1)
      BY <1>1, <2>2
    <3> QED BY <1>3, <1>4, <2>2, <3>1
  <2> QED BY <2>1, <2>2
<1> QED BY <1>4, <1>5 DEF x, y


-----------------------------------------------------------------------------
(* on_frame_recv_data *)

\* What is left in the buffer when the messages are cut off.
Rest(b, order) == IF Lseek(b) = 0 THEN b ELSE Copied(b, Lseek(b), order)

LEMMA RestIs ==
  ASSUME NEW b \in Seq(Byte), NEW order \in CopyOrders
  PROVE  /\ Rest(b, order) \in Seq(Byte)
         /\ Len(Rest(b, order)) = Len(b) - Lseek(b)
         /\ Lseek(b) \in 0 .. Len(b)
<1>1. Lseek(b) \in 0 .. Len(b)
  BY ParseStops
<1>2. order \in {"up", "down"}
  BY OrdersAssumption
<1>3. CASE Lseek(b) = 0
  BY <1>1, <1>3 DEF Rest
<1>4. CASE Lseek(b) # 0
  <2>1. Lseek(b) \in 1 .. Len(b)
    BY <1>1, <1>4
  <2>2. /\ Copied(b, Lseek(b), order) \in Seq(Byte)
        /\ Len(Copied(b, Lseek(b), order)) = Len(b) - Lseek(b)
    BY <1>2, <2>1, CopiedIs
  <2> QED BY <1>1, <1>4, <2>2 DEF Rest
<1> QED BY <1>3, <1>4

\* The list of messages is allocated whenever a message is pushed to it.
LEMMA ListAllocated ==
  ASSUME NEW b \in Seq(Byte), Lseek(b) # 0
  PROVE  ListNew(b)
<1>1. Complete(b, 0)
  BY ParseStops
<1>2. MsgLen(b, 0) \in Nat /\ 0 + 5 + MsgLen(b, 0) <= Len(b)
  BY <1>1, MessageIs
<1> DEFINE m == MsgLen(b, 0) + 5
<1>3. m \in Nat /\ m <= Len(b) /\ Len(b) \in Nat /\ Len(b) >= 5
  BY <1>2
<1> HIDE DEF m
<1>4. m % Word <= m /\ m % Word \in Nat
  <2>1. \A B \in Nat : B > 0 => m % B <= m /\ m % B \in Nat
    BY <1>3
  <2> QED BY <2>1, WordIs
<1>5. Len(b) >= m % Word
  BY <1>3, <1>4
<1> QED BY <1>3, <1>5 DEF ListNew, m

LEMMA ListNewIsBoolean ==
  ASSUME NEW b
  PROVE  ListNew(b) \in BOOLEAN
BY DEF ListNew

LEMMA OneAndOne ==
  ASSUME NEW x, NEW y
  PROVE  /\ <<x>> \o <<y>> = <<x, y>> /\ <<x>> \o <<>> = <<x>>
         /\ <<>> \o <<y>> = <<y>> /\ <<>> \o <<>> = <<>>
<1>1. <<x>> \in Seq({x, y}) /\ <<y>> \in Seq({x, y})
  OBVIOUS
<1>2. <<x>> \o <<>> = <<x>> /\ <<>> \o <<y>> = <<y>>
  BY <1>1, ConcatEmptySeq
<1>3. <<>> \o <<>> = <<>>
  <2>1. <<>> \in Seq({x})
    OBVIOUS
  <2> QED BY <2>1, ConcatEmptySeq
<1>4. <<x>> \o <<y>> = <<x, y>>
  <2> DEFINE s == <<x>>
             t == <<y>>
             u == <<x, y>>
  <2>1. s \in Seq({x, y}) /\ Len(s) = 1 /\ s[1] = x
    OBVIOUS
  <2>2. t \in Seq({x, y}) /\ Len(t) = 1 /\ t[1] = y
    OBVIOUS
  <2>3. u \in Seq({x, y}) /\ Len(u) = 2 /\ u[1] = x /\ u[2] = y
    OBVIOUS
  <2> HIDE DEF s, t, u
  <2>4. /\ s \o t \in Seq({x, y}) /\ Len(s \o t) = Len(s) + Len(t)
        /\ \A i \in 1 .. Len(s) + Len(t) :
             (s \o t)[i] = IF i <= Len(s) THEN s[i] ELSE t[i - Len(s)]
    <3> DEFINE V == {x, y}
    <3>1. s \in Seq(V) /\ t \in Seq(V)
      BY <2>1, <2>2
    <3> HIDE DEF V
    <3>2. /\ s \o t \in Seq(V) /\ Len(s \o t) = Len(s) + Len(t)
          /\ \A i \in 1 .. Len(s) + Len(t) :
               (s \o t)[i] = IF i <= Len(s) THEN s[i] ELSE t[i - Len(s)]
      BY <3>1, ConcatProperties
    <3> QED BY <3>2 DEF V
  <2> DEFINE c == s \o t
  <2>5. c \in Seq({x, y}) /\ Len(c) = 2 /\ c[1] = x /\ c[2] = y
    BY <2>1, <2>2, <2>4
  <2> HIDE DEF c
  <2>6. \A i \in 1 .. Len(c) : c[i] = u[i]
    BY <2>3, <2>5
  <2>7. c = u
    BY <2>3, <2>5, <2>6, SeqEqual
  <2> QED BY <2>7 DEF c, s, t, u
<1> QED BY <1>2, <1>3, <1>4

\* The events of a frame: at most the messages and then the truncated end.
LEMMA FrameEventsAre ==
  ASSUME NEW b \in Seq(Byte), NEW rest \in Seq(Byte), NEW e \in BOOLEAN,
         Lseek(b) = 0 => rest = b
  PROVE  LET m == MessageEvent(ParseGrpcMessage(b), e /\ rest = <<>>, ListNew(b))
         IN  \/ e /\ rest = <<>> /\ FrameEvents(b, rest, e) = <<MessageEvent(<<>>, TRUE, TRUE)>>
             \/ e /\ rest # <<>> /\ FrameEvents(b, rest, e) = <<DatalossEvent>>
             \/ ~e /\ FrameEvents(b, rest, e) = <<>>
             \/ /\ e /\ rest # <<>> /\ Lseek(b) # 0
                /\ FrameEvents(b, rest, e) = <<m, DatalossEvent>>
             \/ (e => rest = <<>>) /\ Lseek(b) # 0 /\ FrameEvents(b, rest, e) = <<m>>
<1> DEFINE m == MessageEvent(ParseGrpcMessage(b), e /\ rest = <<>>, ListNew(b))
<1>1. CASE e /\ b = <<>>
  <2>1. Lseek(b) = 0
    <3>1. Len(b) = 0
      BY <1>1
    <3>2. Lseek(b) \in 0 .. Len(b)
      BY ParseStops
    <3> QED BY <3>1, <3>2
  <2>2. FrameEvents(b, rest, e) = <<MessageEvent(<<>>, TRUE, TRUE)>>
    BY <1>1 DEF FrameEvents
  <2> QED BY <1>1, <2>1, <2>2
<1>2. CASE ~(e /\ b = <<>>)
  <2>1. FrameEvents(b, rest, e)
          = (IF Lseek(b) = 0 THEN <<>> ELSE <<m>>)
            \o (IF e /\ rest # <<>> THEN <<DatalossEvent>> ELSE <<>>)
    BY <1>2 DEF FrameEvents
  <2> DEFINE d == DatalossEvent
  <2>j. /\ <<m>> \o <<d>> = <<m, d>> /\ <<m>> \o <<>> = <<m>>
        /\ <<>> \o <<d>> = <<d>> /\ <<>> \o <<>> = <<>>
    BY OneAndOne
  <2>d. FrameEvents(b, rest, e)
          = (IF Lseek(b) = 0 THEN <<>> ELSE <<m>>) \o (IF e /\ rest # <<>> THEN <<d>> ELSE <<>>)
    BY <2>1
  <2> HIDE DEF m, d
  <2>2. CASE Lseek(b) = 0 /\ e
    <3>1. rest # <<>>
      BY <1>2, <2>2
    <3>2. FrameEvents(b, rest, e) = <<d>>
      BY <2>2, <2>d, <2>j, <3>1
    <3> QED BY <2>2, <3>1, <3>2 DEF d
  <2>3. CASE Lseek(b) = 0 /\ ~e
    <3>1. FrameEvents(b, rest, e) = <<>>
      BY <2>3, <2>d, <2>j
    <3> QED BY <2>3, <3>1
  <2>4. CASE Lseek(b) # 0 /\ e /\ rest # <<>>
    <3>1. FrameEvents(b, rest, e) = <<m, d>>
      BY <2>4, <2>d, <2>j
    <3> QED BY <2>4, <3>1 DEF m, d
  <2>5. CASE Lseek(b) # 0 /\ (e => rest = <<>>)
    <3>1. FrameEvents(b, rest, e) = <<m>>
      BY <2>5, <2>d, <2>j
    <3> QED BY <2>5, <3>1 DEF m
  <2> QED BY <2>2, <2>3, <2>4, <2>5
<1> QED BY <1>1, <1>2

LEMMA EventsAre ==
  ASSUME NEW b \in Seq(Byte), NEW end \in BOOLEAN
  PROVE  /\ MessageEvent(<<>>, TRUE, TRUE) \in Event
         /\ DatalossEvent \in Event
         /\ MessageEvent(ParseGrpcMessage(b), end, ListNew(b)) \in Event
<1>1. <<>> \in Seq(MessageType) /\ ParseGrpcMessage(b) \in Seq(MessageType)
  <2>1. ParseGrpcMessage(b) \in Seq(MessageType)
    BY ParseStops
  <2> QED BY <2>1
<1>2. ListNew(b) \in BOOLEAN
  BY ListNewIsBoolean
<1> DEFINE q == ParseGrpcMessage(b)
           l == ListNew(b)
<1> HIDE DEF q, l
<1>3. MessageEvent(q, end, l) \in Event
  BY <1>1, <1>2 DEF MessageEvent, Event, q, l
<1>4. MessageEvent(<<>>, TRUE, TRUE) \in Event /\ DatalossEvent \in Event
  BY <1>1 DEF MessageEvent, DatalossEvent, Event
<1> QED BY <1>3, <1>4 DEF q, l

\* The last event of a frame that ends the stream is the only final one.
LEMMA FrameFinals ==
  ASSUME NEW b \in Seq(Byte), NEW rest \in Seq(Byte), NEW e \in BOOLEAN,
         Lseek(b) = 0 => rest = b
  PROVE  LET q == FrameEvents(b, rest, e)
         IN  /\ q \in Seq(Event)
             /\ ~e => \A k \in DOMAIN q : ~Final(q[k])
             /\ e => /\ Len(q) \in Nat \ {0}
                     /\ \A k \in DOMAIN q : Final(q[k]) <=> k = Len(q)
                     /\ q[Len(q)].type = IF rest = <<>> THEN "MESSAGE" ELSE "DATALOSS"
<1> DEFINE q  == FrameEvents(b, rest, e)
           m  == MessageEvent(ParseGrpcMessage(b), e /\ rest = <<>>, ListNew(b))
           m1 == MessageEvent(<<>>, TRUE, TRUE)
           d  == DatalossEvent
<1>1. \/ e /\ rest = <<>> /\ q = <<m1>>
      \/ e /\ rest # <<>> /\ q = <<d>>
      \/ ~e /\ q = <<>>
      \/ e /\ rest # <<>> /\ Lseek(b) # 0 /\ q = <<m, d>>
      \/ (e => rest = <<>>) /\ Lseek(b) # 0 /\ q = <<m>>
  BY FrameEventsAre
<1>2. m \in Event /\ m1 \in Event /\ d \in Event
  <2>1. (e /\ rest = <<>>) \in BOOLEAN
    OBVIOUS
  <2> QED BY <2>1, EventsAre
<1>3. /\ m.type = "MESSAGE" /\ (Final(m) <=> e /\ rest = <<>>)
      /\ m1.type = "MESSAGE" /\ Final(m1)
      /\ d.type = "DATALOSS" /\ Final(d)
  BY DEF MessageEvent, DatalossEvent, Final
<1> HIDE DEF q, m, m1, d
<1> DEFINE Claim ==
             /\ q \in Seq(Event)
             /\ ~e => \A k \in DOMAIN q : ~Final(q[k])
             /\ e => /\ Len(q) \in Nat \ {0}
                     /\ \A k \in DOMAIN q : Final(q[k]) <=> k = Len(q)
                     /\ q[Len(q)].type = IF rest = <<>> THEN "MESSAGE" ELSE "DATALOSS"
<1>4. CASE e /\ rest = <<>> /\ q = <<m1>>
  <2>1. q \in Seq(Event) /\ Len(q) = 1 /\ DOMAIN q = {1} /\ q[1] = m1
    BY <1>2, <1>4
  <2>2. Claim
    BY <1>3, <1>4, <2>1
  <2> QED BY <2>2 DEF q
<1>5. CASE e /\ rest # <<>> /\ q = <<d>>
  <2>1. q \in Seq(Event) /\ Len(q) = 1 /\ DOMAIN q = {1} /\ q[1] = d
    BY <1>2, <1>5
  <2>2. Claim
    BY <1>3, <1>5, <2>1
  <2> QED BY <2>2 DEF q
<1>6. CASE ~e /\ q = <<>>
  <2>1. q \in Seq(Event) /\ DOMAIN q = {}
    BY <1>6
  <2>2. Claim
    BY <1>6, <2>1
  <2> QED BY <2>2 DEF q
<1>7. CASE e /\ rest # <<>> /\ q = <<m, d>>
  <2>1. q \in Seq(Event) /\ Len(q) = 2 /\ DOMAIN q = {1, 2} /\ q[1] = m /\ q[2] = d
    BY <1>2, <1>7
  <2>2. Claim
    BY <1>3, <1>7, <2>1
  <2> QED BY <2>2 DEF q
<1>8. CASE (e => rest = <<>>) /\ q = <<m>>
  <2>1. q \in Seq(Event) /\ Len(q) = 1 /\ DOMAIN q = {1} /\ q[1] = m
    BY <1>2, <1>8
  <2>2. Claim
    BY <1>3, <1>8, <2>1
  <2> QED BY <2>2 DEF q
<1> QED BY <1>1, <1>4, <1>5, <1>6, <1>7, <1>8

\* The messages of a frame are messages of the buffer, in an allocated list.
LEMMA FrameMessages ==
  ASSUME NEW b \in Seq(Byte), NEW rest \in Seq(Byte), NEW e \in BOOLEAN,
         Lseek(b) = 0 => rest = b
  PROVE  \A k \in DOMAIN FrameEvents(b, rest, e) :
           LET v == FrameEvents(b, rest, e)[k]
           IN  /\ v.type = "MESSAGE" => v.allocated
               /\ \A i \in DOMAIN v.msgs : \E o \in 0 .. Len(b) :
                    Complete(b, o) /\ v.msgs[i] = Message(b, o)
<1> DEFINE q  == FrameEvents(b, rest, e)
           m  == MessageEvent(ParseGrpcMessage(b), e /\ rest = <<>>, ListNew(b))
           m1 == MessageEvent(<<>>, TRUE, TRUE)
           d  == DatalossEvent
           Good(v) == /\ v.type = "MESSAGE" => v.allocated
                      /\ \A i \in DOMAIN v.msgs : \E o \in 0 .. Len(b) :
                           Complete(b, o) /\ v.msgs[i] = Message(b, o)
<1>1. \/ e /\ rest = <<>> /\ q = <<m1>>
      \/ e /\ rest # <<>> /\ q = <<d>>
      \/ ~e /\ q = <<>>
      \/ e /\ rest # <<>> /\ Lseek(b) # 0 /\ q = <<m, d>>
      \/ (e => rest = <<>>) /\ Lseek(b) # 0 /\ q = <<m>>
  BY FrameEventsAre
<1>2. Good(m1) /\ Good(d)
  <2>1. DOMAIN <<>> = {}
    OBVIOUS
  <2> QED BY <2>1 DEF MessageEvent, DatalossEvent
<1>3. Lseek(b) # 0 => Good(m)
  <2>1. m.msgs = ParseGrpcMessage(b) /\ m.allocated = ListNew(b)
    BY DEF MessageEvent
  <2>2. Lseek(b) # 0 => m.allocated
    BY <2>1, ListAllocated
  <2>3. \A i \in DOMAIN m.msgs : \E o \in 0 .. Len(b) :
           Complete(b, o) /\ m.msgs[i] = Message(b, o)
    BY <2>1, ParsePlaces
  <2> QED BY <2>2, <2>3
<1> HIDE DEF q, m, m1, d, Good
<1>4. DOMAIN <<>> = {} /\ DOMAIN <<m1>> = {1} /\ DOMAIN <<d>> = {1} /\ DOMAIN <<m>> = {1}
      /\ DOMAIN <<m, d>> = {1, 2}
  OBVIOUS
<1>5. \A k \in DOMAIN q : Good(q[k])
  BY <1>1, <1>2, <1>3, <1>4
<1> QED BY <1>5 DEF q, Good


-----------------------------------------------------------------------------
(* The inductive invariant. Beside the properties it says how far a stream  *)
(* has come (Phase) and in which order its objects lie in lstreams.         *)

Phase(s) ==
    /\ sent[s] <= Len(wire[s])
    /\ ng[s].state = "idle" =>
         ez[s] = NoObject /\ events[s] = <<>> /\ wire[s] = <<>> /\ sent[s] = 0 /\ ~eos[s]
    /\ ng[s].state = "open" => ~eos[s] /\ ez[s].object = 1
    /\ session = "open" /\ ng[s].state # "idle" => ez[s].object >= 1
    /\ frame = s => ng[s].state # "idle"
    /\ ez[s].object = 2 => Trailers

Buffered(s) ==
    /\ Len(ez[s].recv) <= Window
    /\ ez[s].object = 1 /\ session = "open" /\ exact[s] =>
         /\ Len(ez[s].recv) <= sent[s]
         /\ ez[s].recv = SubSeq(wire[s], sent[s] - Len(ez[s].recv) + 1, sent[s])

\* A message is a slice of the first n elements of w.
SentIn(w, n, m) == \E o \in 0 .. n - 5 - Len(m.data) :
    SubSeq(w, o + 1, o + 5 + Len(m.data)) = <<m.cflag>> \o BigEndian(Len(m.data)) \o m.data

GoodEvent(w, n, x, e) ==
    /\ e.type = "MESSAGE" => e.allocated
    /\ x => \A i \in DOMAIN e.msgs : SentIn(w, n, e.msgs[i])

Delivered(s) ==
    \A k \in DOMAIN events[s] : GoodEvent(wire[s], sent[s], exact[s], events[s][k])

Drained(s) ==
    /\ session = "open" /\ frame # s
    /\ ng[s].state \in {"open", "ended"} /\ ez[s].path /\ exact[s]
    => ~Complete(ez[s].recv, 0)

Finals(s) == {k \in DOMAIN events[s] : Final(events[s][k])}

Ended(s) ==
    IF eos[s] /\ ez[s].path
      THEN /\ Finals(s) = {Len(events[s])}
           /\ events[s][Len(events[s])].type =
                IF ez[s].recv = <<>> THEN "MESSAGE" ELSE "DATALOSS"
      ELSE Finals(s) = {}

Sound(s) == Phase(s) /\ Buffered(s) /\ Delivered(s) /\ Drained(s) /\ Ended(s)

Ordered == \A i, j \in DOMAIN lstreams :
    lstreams[i][1] = lstreams[j][1] /\ lstreams[i][2] < lstreams[j][2] => i < j

IInv == TypeOK /\ Ordered /\ StreamsTracked /\ \A s \in Streams : Sound(s)

LEMMA Properties ==
  ASSUME IInv
  PROVE  BufferIsSuffix /\ DeliveredVerbatim /\ NoCompleteMessageLeft /\ FinalEventOnce
<1>1. \A s \in Streams : Buffered(s) /\ Delivered(s) /\ Drained(s) /\ Ended(s)
  BY DEF IInv, Sound
<1>2. BufferIsSuffix
  BY <1>1 DEF BufferIsSuffix, Buffered
<1>3. DeliveredVerbatim
  BY <1>1 DEF DeliveredVerbatim, Delivered, GoodEvent, SentIn
<1>4. NoCompleteMessageLeft
  BY <1>1 DEF NoCompleteMessageLeft, Drained
<1>5. FinalEventOnce
  BY <1>1 DEF FinalEventOnce, Ended, Finals
<1> QED BY <1>2, <1>3, <1>4, <1>5

\* The types of what a stream has.
LEMMA OfStream ==
  ASSUME TypeOK, NEW s \in Streams
  PROVE  /\ ez[s] \in [object : 0 .. 2, path : BOOLEAN, recv : Seq(Byte)]
         /\ ez[s].object \in 0 .. 2 /\ ez[s].path \in BOOLEAN
         /\ ez[s].recv \in Seq(Byte) /\ Len(ez[s].recv) \in Nat
         /\ ng[s] \in [state : {"idle", "open", "ended", "closing", "closed"}, local : BOOLEAN]
         /\ wire[s] \in Seq(Byte) /\ Len(wire[s]) \in Nat /\ sent[s] \in Nat
         /\ events[s] \in Seq(Event) /\ Len(events[s]) \in Nat
         /\ eos[s] \in BOOLEAN /\ exact[s] \in BOOLEAN
<1>1. ez[s] \in [object : 0 .. 2, path : BOOLEAN, recv : Seq(Byte)]
  BY DEF TypeOK
<1>2. /\ ez[s].object \in 0 .. 2 /\ ez[s].path \in BOOLEAN
      /\ ez[s].recv \in Seq(Byte) /\ Len(ez[s].recv) \in Nat
  BY <1>1
<1>3. wire[s] \in Seq(Byte) /\ Len(wire[s]) \in Nat
  <2>1. wire[s] \in Seq(Byte)
    BY DEF TypeOK
  <2> QED BY <2>1
<1>4. events[s] \in Seq(Event) /\ Len(events[s]) \in Nat
  <2>1. events[s] \in Seq(Event)
    BY DEF TypeOK
  <2> QED BY <2>1
<1>5. ng[s] \in [state : {"idle", "open", "ended", "closing", "closed"}, local : BOOLEAN]
  BY DEF TypeOK
<1>6. sent[s] \in Nat /\ eos[s] \in BOOLEAN /\ exact[s] \in BOOLEAN
  BY DEF TypeOK
<1> QED BY <1>1, <1>2, <1>3, <1>4, <1>5, <1>6

\* What is delivered stays delivered when more is received.
LEMMA DeliveredStays ==
  ASSUME TypeOK, NEW s \in Streams, Delivered(s),
         events'[s] = events[s], wire'[s] = wire[s], exact'[s] = exact[s],
         sent'[s] \in Nat, sent'[s] >= sent[s]
  PROVE  Delivered(s)'
<1>1. ASSUME NEW m \in MessageType, SentIn(wire[s], sent[s], m)
      PROVE  SentIn(wire[s], sent'[s], m)
  <2>1. PICK o \in 0 .. sent[s] - 5 - Len(m.data) :
          SubSeq(wire[s], o + 1, o + 5 + Len(m.data))
            = <<m.cflag>> \o BigEndian(Len(m.data)) \o m.data
    BY <1>1 DEF SentIn
  <2>2. Len(m.data) \in Nat
    <3>1. m.data \in Seq(Byte)
      BY DEF MessageType
    <3> QED BY <3>1
  <2>3. sent[s] \in Nat
    BY OfStream
  <2>4. o \in 0 .. sent'[s] - 5 - Len(m.data)
    BY <2>2, <2>3
  <2> QED BY <2>1, <2>4 DEF SentIn
<1>2. ASSUME NEW k \in DOMAIN events[s]
      PROVE  GoodEvent(wire[s], sent'[s], exact[s], events[s][k])
  <2>1. GoodEvent(wire[s], sent[s], exact[s], events[s][k])
    BY DEF Delivered
  <2>2. events[s][k] \in Event
    <3>1. events[s] \in Seq(Event)
      BY OfStream
    <3> QED BY <3>1
  <2>3. \A i \in DOMAIN events[s][k].msgs : events[s][k].msgs[i] \in MessageType
    <3>1. events[s][k].msgs \in Seq(MessageType)
      BY <2>2 DEF Event
    <3> QED BY <3>1
  <2> QED BY <1>1, <2>1, <2>3 DEF GoodEvent
<1> QED BY <1>2 DEF Delivered

Same(s) ==
    /\ ez'[s] = ez[s] /\ events'[s] = events[s] /\ wire'[s] = wire[s]
    /\ \/ ng'[s].state = ng[s].state
       \/ ng'[s].state = "closed" /\ ng[s].state # "idle"
    /\ sent'[s] = sent[s] /\ eos'[s] = eos[s] /\ exact'[s] = exact[s]

\* A stream that is left alone, or closed.
LEMMA SameKeeps ==
  ASSUME TypeOK, NEW s \in Streams, Sound(s), Same(s),
         session' = "open" => session = "open", frame' = s <=> frame = s
  PROVE  Sound(s)'
<1>1. Delivered(s)'
  <2>1. sent[s] \in Nat
    BY OfStream
  <2>2. sent'[s] \in Nat /\ sent'[s] >= sent[s]
    BY <2>1 DEF Same
  <2> QED BY <2>2, DeliveredStays DEF Sound, Same
<1>2. Phase(s)'
  BY DEF Sound, Same, Phase
<1>3. Buffered(s)'
  BY DEF Sound, Same, Buffered
<1>4. Drained(s)'
  BY DEF Sound, Same, Drained
<1>5. Ended(s)'
  BY DEF Sound, Same, Ended, Finals
<1> QED BY <1>1, <1>2, <1>3, <1>4, <1>5 DEF Sound

\* A stream of a session that is freed.
LEMMA FreedKeeps ==
  ASSUME TypeOK, NEW s \in Streams, Sound(s), FreeSession,
         ez'[s] = ez[s], events'[s] = events[s], wire'[s] = wire[s],
         eos'[s] = eos[s], exact'[s] = exact[s],
         sent'[s] \in Nat, sent'[s] >= sent[s], sent'[s] <= Len(wire[s])
  PROVE  Sound(s)'
<1>1. Delivered(s)'
  BY DeliveredStays DEF Sound
<1>2. ng'[s].state = "closed" /\ session' = "freed" /\ frame' = None /\ frame' # s
  <2>1. ng[s] \in [state : {"idle", "open", "ended", "closing", "closed"}, local : BOOLEAN]
    BY OfStream
  <2>2. ng'[s] = [ng[s] EXCEPT !.state = "closed"]
    BY DEF FreeSession
  <2>3. ng'[s].state = "closed"
    BY <2>1, <2>2
  <2>4. session' = "freed" /\ frame' = None
    BY DEF FreeSession
  <2> QED BY <2>3, <2>4, NoneAssumption
<1>3. Phase(s)'
  BY <1>2 DEF Sound, Phase
<1>4. Buffered(s)'
  BY <1>2 DEF Sound, Buffered
<1>5. Drained(s)'
  BY <1>2 DEF Drained
<1>6. Ended(s)'
  BY DEF Sound, Ended, Finals
<1> QED BY <1>1, <1>3, <1>4, <1>5, <1>6 DEF Sound

-----------------------------------------------------------------------------
(* lstreams *)

Active == {s \in Streams : ng[s].state \in {"open", "ended", "closing"}}

Objects == {p \in Streams \X (1 .. 2) : p[1] \in Active /\ p[2] <= ez[p[1]].object}

Tracked ==
    session = "open" =>
      /\ {lstreams[i] : i \in DOMAIN lstreams} = Objects
      /\ \A i, j \in DOMAIN lstreams : lstreams[i] = lstreams[j] => i = j

LEMMA TrackedIs == StreamsTracked <=> Tracked
BY DEF StreamsTracked, Tracked, Active, Objects

\* What is in lstreams, place by place.
LEMMA Places ==
  ASSUME TypeOK
  PROVE  /\ lstreams \in Seq(Streams \X (1 .. 2)) /\ Len(lstreams) \in Nat
         /\ DOMAIN lstreams = 1 .. Len(lstreams)
         /\ \A i \in 1 .. Len(lstreams) : lstreams[i] \in Streams \X (1 .. 2)
<1>1. lstreams \in Seq(Streams \X (1 .. 2))
  BY DEF TypeOK
<1> QED BY <1>1, LenProperties, ElementOfSeq

\* No stream is added and none is closed.
LEMMA ListStays ==
  ASSUME TypeOK, Ordered, Tracked, lstreams' = lstreams,
         session' = "open" => session = "open",
         Active' = Active, \A s \in Active : ez'[s].object = ez[s].object
  PROVE  Ordered' /\ Tracked'
<1>1. Objects' = Objects
  BY DEF Objects
<1> QED BY <1>1 DEF Ordered, Tracked

\* The session is freed, or the assert ends the program.
LEMMA ListGone ==
  ASSUME Ordered, session' # "open", lstreams' = <<>> \/ lstreams' = lstreams
  PROVE  Ordered' /\ Tracked'
<1>1. Tracked'
  BY DEF Tracked
<1>2. CASE lstreams' = <<>>
  <2>1. DOMAIN lstreams' = {}
    BY <1>2
  <2> QED BY <1>1, <2>1 DEF Ordered
<1>3. CASE lstreams' = lstreams
  BY <1>1, <1>3 DEF Ordered
<1> QED BY <1>2, <1>3

\* A stream gets its next object.
LEMMA ListGrows ==
  ASSUME TypeOK, Ordered, Tracked, session = "open",
         NEW s \in Streams, NEW k \in 1 .. 2,
         lstreams' = Append(lstreams, <<s, k>>),
         Objects' = Objects \cup {<<s, k>>},
         \A j \in 1 .. 2 : <<s, j>> \in Objects <=> j < k /\ s \in Active,
         k # 1 => s \in Active
  PROVE  Ordered' /\ Tracked' /\ lstreams' \in Seq(Streams \X (1 .. 2))
<1> DEFINE n == Len(lstreams)
           q == lstreams'
           x == <<s, k>>
<1>1. n \in Nat /\ DOMAIN lstreams = 1 .. n
      /\ \A i \in 1 .. n : lstreams[i] \in Streams \X (1 .. 2)
  BY Places
<1>2. q \in Seq(Streams \X (1 .. 2)) /\ Len(q) = n + 1 /\ DOMAIN q = 1 .. n + 1
      /\ q[n + 1] = x /\ \A i \in 1 .. n : q[i] = lstreams[i]
  <2>1. lstreams \in Seq(Streams \X (1 .. 2)) /\ x \in Streams \X (1 .. 2)
    BY Places
  <2> HIDE DEF x
  <2>2. q = Append(lstreams, x)
    BY DEF x
  <2> QED BY <2>1, <2>2, AppendProperties, LenProperties
<1>3. {lstreams[i] : i \in 1 .. n} = Objects
      /\ \A i, j \in 1 .. n : lstreams[i] = lstreams[j] => i = j
  BY <1>1 DEF Tracked
<1>4. x \notin Objects
  <2>1. ~(k < k)
    OBVIOUS
  <2> QED BY <2>1
<1> HIDE DEF n, q
<1>5. \A i \in 1 .. n + 1 : i \in 1 .. n \/ i = n + 1
  BY <1>1
<1>6. \A i \in 1 .. n : lstreams[i] \in Objects /\ lstreams[i] # x
  BY <1>3, <1>4
<1>7. {q[i] : i \in 1 .. n + 1} = Objects \cup {x}
  <2>1. \A i \in 1 .. n : i \in 1 .. n + 1
    BY <1>1
  <2>2. n + 1 \in 1 .. n + 1
    BY <1>1
  <2>3. \A y \in Objects : \E i \in 1 .. n : lstreams[i] = y
    BY <1>3
  <2> HIDE DEF x
  <2>4. \A i \in 1 .. n + 1 : q[i] \in Objects \cup {x}
    BY <1>2, <1>5, <1>6
  <2>5. \A y \in Objects \cup {x} : \E i \in 1 .. n + 1 : q[i] = y
    BY <1>2, <2>1, <2>2, <2>3
  <2> QED BY <2>4, <2>5
<1>8. \A i, j \in 1 .. n + 1 : q[i] = q[j] => i = j
  BY <1>2, <1>3, <1>5, <1>6
<1>9. ASSUME NEW i \in 1 .. n + 1, NEW j \in 1 .. n + 1, q[i][1] = q[j][1], q[i][2] < q[j][2]
      PROVE  i < j
  <2>1. CASE i \in 1 .. n /\ j \in 1 .. n
    <3>1. q[i] = lstreams[i] /\ q[j] = lstreams[j]
      BY <1>2, <2>1
    <3> QED BY <1>1, <1>9, <2>1, <3>1 DEF Ordered
  <2>2. CASE i \in 1 .. n /\ j = n + 1
    BY <1>1, <2>2
  <2>3. CASE i = n + 1 /\ j \in 1 .. n
    <3>1. q[i] = x /\ q[j] = lstreams[j] /\ q[j] \in Objects /\ q[j] \in Streams \X (1 .. 2)
      BY <1>1, <1>2, <1>6, <2>3
    <3>2. q[j] = <<s, q[j][2]>> /\ q[j][2] \in 1 .. 2 /\ k < q[j][2]
      BY <1>9, <3>1
    <3>3. q[j][2] < k
      BY <3>1, <3>2
    <3> QED BY <3>2, <3>3
  <2>4. CASE i = n + 1 /\ j = n + 1
    <3>1. q[i] = x /\ q[j] = x
      BY <1>2, <2>4
    <3> QED BY <1>9, <3>1
  <2> QED BY <1>5, <2>1, <2>2, <2>3, <2>4
<1>10. Ordered'
  BY <1>2, <1>9 DEF Ordered, q
<1>11. Tracked'
  BY <1>2, <1>7, <1>8 DEF Tracked, q
<1> QED BY <1>2, <1>10, <1>11 DEF q


\* on_stream_close_callback finds the first object of the stream, which is the
\* only one unless the stream had trailers.
LEMMA FirstOf ==
  ASSUME TypeOK, Ordered, Tracked, session = "open", NEW s \in Active, ez[s].object \in 1 .. 2
  PROVE  LET mine  == {i \in DOMAIN lstreams : lstreams[i][1] = s}
             first == CHOOSE i \in mine : \A j \in mine : i <= j
         IN  /\ first \in 1 .. Len(lstreams)
             /\ lstreams[first] = <<s, 1>>
             /\ lstreams[first] = <<s, ez[s].object>> =>
                  \A i \in 1 .. Len(lstreams) : i # first => lstreams[i][1] # s
<1> DEFINE n     == Len(lstreams)
           mine  == {i \in DOMAIN lstreams : lstreams[i][1] = s}
           first == CHOOSE i \in mine : \A j \in mine : i <= j
<1>1. n \in Nat /\ DOMAIN lstreams = 1 .. n
      /\ \A i \in 1 .. n : lstreams[i] \in Streams \X (1 .. 2)
  BY Places
<1>2. s \in Streams
  BY DEF Active
<1>3. {lstreams[i] : i \in 1 .. n} = Objects
      /\ \A i, j \in 1 .. n : lstreams[i] = lstreams[j] => i = j
  BY <1>1 DEF Tracked
<1>4. <<s, 1>> \in Objects
  <2>1. 1 <= ez[s].object /\ 1 \in 1 .. 2
    OBVIOUS
  <2> QED BY <1>2, <2>1 DEF Objects
<1> HIDE DEF n
<1>5. PICK f \in 1 .. n : lstreams[f] = <<s, 1>>
  BY <1>3, <1>4
<1>6. ASSUME NEW i \in mine
      PROVE  i \in 1 .. n /\ f <= i /\ (i = f \/ lstreams[i] = <<s, 2>>)
  <2>1. i \in 1 .. n /\ lstreams[i] \in Streams \X (1 .. 2) /\ lstreams[i][1] = s
    BY <1>1
  <2>2. lstreams[i] = <<s, lstreams[i][2]>> /\ lstreams[i][2] \in 1 .. 2
    BY <2>1
  <2>3. CASE lstreams[i][2] = 1
    <3>1. lstreams[i] = lstreams[f]
      BY <1>5, <2>2, <2>3
    <3>2. i = f
      BY <1>3, <2>1, <3>1
    <3> QED BY <2>1, <3>2
  <2>4. CASE lstreams[i][2] # 1
    <3>1. lstreams[i][2] = 2
      BY <2>2, <2>4
    <3>2. lstreams[f][1] = lstreams[i][1] /\ lstreams[f][2] < lstreams[i][2]
      BY <1>5, <2>1, <3>1
    <3>3. f < i
      BY <1>1, <2>1, <3>2 DEF Ordered
    <3> QED BY <2>1, <2>2, <3>1, <3>3
  <2> QED BY <2>3, <2>4
<1>7. f \in mine
  BY <1>1, <1>5
<1>8. first = f
  <2>1. \A j \in mine : f <= j
    BY <1>6
  <2>2. first \in mine /\ \A j \in mine : first <= j
    BY <1>7, <2>1
  <2>3. first \in 1 .. n /\ f <= first /\ first <= f
    BY <1>6, <1>7, <2>2
  <2> QED BY <1>1, <2>3
<1>9. ASSUME ez[s].object = 1, NEW i \in 1 .. n, i # f
      PROVE  lstreams[i][1] # s
  <2>1. SUFFICES ASSUME lstreams[i][1] = s
                 PROVE  FALSE
    OBVIOUS
  <2>2. lstreams[i] = <<s, 2>>
    BY <1>1, <1>6, <1>9, <2>1
  <2>3. <<s, 2>> \in Objects
    BY <1>3, <2>2
  <2>4. 2 <= ez[s].object
    BY <2>3 DEF Objects
  <2> QED BY <1>9, <2>4
<1>10. <<s, 1>> = <<s, ez[s].object>> => ez[s].object = 1
  OBVIOUS
<1> HIDE DEF first, mine
<1>11. /\ first \in 1 .. n /\ lstreams[first] = <<s, 1>>
       /\ lstreams[first] = <<s, ez[s].object>> =>
            \A i \in 1 .. n : i # first => lstreams[i][1] # s
  BY <1>5, <1>8, <1>9, <1>10
<1> QED BY <1>11 DEF first, mine, n

\* A stream is closed.
LEMMA ListShrinks ==
  ASSUME TypeOK, Ordered, Tracked, session = "open",
         NEW s \in Active, ez[s].object \in 1 .. 2, CloseStream(s), ez' = ez
  PROVE  /\ Ordered' /\ Tracked' /\ lstreams' \in Seq(Streams \X (1 .. 2))
         /\ session' \in {"open", "aborted"}
         /\ ez[s].object = 1 => session' = "open"
<1> DEFINE mine  == {i \in DOMAIN lstreams : lstreams[i][1] = s}
           f     == CHOOSE i \in mine : \A j \in mine : i <= j
           n     == Len(lstreams)
           T     == Streams \X (1 .. 2)
           q     == SubSeq(lstreams, 1, f - 1) \o SubSeq(lstreams, f + 1, Len(lstreams))
<1>1. n \in Nat /\ DOMAIN lstreams = 1 .. n /\ lstreams \in Seq(T)
      /\ \A i \in 1 .. n : lstreams[i] \in T
  BY Places
<1>2. /\ f \in 1 .. n /\ lstreams[f] = <<s, 1>>
      /\ lstreams[f] = <<s, ez[s].object>> =>
           \A i \in 1 .. n : i # f => lstreams[i][1] # s
  BY FirstOf
<1>3. /\ ng' = [ng EXCEPT ![s].state = "closed"]
      /\ IF lstreams[f] = <<s, ez[s].object>>
           THEN lstreams' = q /\ session' = session
           ELSE session' = "aborted" /\ lstreams' = lstreams
  BY DEF CloseStream
<1>q. f \in 1 .. n => /\ q \in Seq(T) /\ Len(q) = n - 1
                      /\ \A j \in 1 .. n - 1 : q[j] = IF j < f THEN lstreams[j] ELSE lstreams[j + 1]
  BY <1>1, TakenOut
<1> HIDE DEF mine, f
<1>4. CASE lstreams[f] # <<s, ez[s].object>>
  <2>1. session' = "aborted" /\ lstreams' = lstreams
    BY <1>3, <1>4
  <2>2. Ordered' /\ Tracked'
    BY <2>1, ListGone
  <2>3. ez[s].object # 1
    BY <1>2, <1>4
  <2> QED BY <1>1, <2>1, <2>2, <2>3
<1>5. CASE lstreams[f] = <<s, ez[s].object>>
  <2>1. lstreams' = q /\ session' = "open"
    BY <1>3, <1>5
  <2>2. q \in Seq(T) /\ Len(q) = n - 1 /\ DOMAIN q = 1 .. n - 1
        /\ \A j \in 1 .. n - 1 : q[j] = IF j < f THEN lstreams[j] ELSE lstreams[j + 1]
    <3>1. q \in Seq(T) /\ Len(q) = n - 1
          /\ \A j \in 1 .. n - 1 : q[j] = IF j < f THEN lstreams[j] ELSE lstreams[j + 1]
      BY <1>2, <1>q
    <3> HIDE DEF q
    <3> QED BY <3>1, LenProperties
  <2> DEFINE at(j) == IF j < f THEN j ELSE j + 1
  <2> HIDE DEF q, n
  <2>3. \A j \in 1 .. n - 1 : at(j) \in 1 .. n /\ at(j) # f /\ q[j] = lstreams[at(j)]
    BY <1>1, <1>2, <2>2
  <2>4. \A i, j \in 1 .. n - 1 : (at(i) = at(j) => i = j) /\ (at(i) < at(j) => i < j)
    BY <1>1, <1>2
  <2>5. \A i \in 1 .. n : i # f => \E j \in 1 .. n - 1 : at(j) = i
    <3> TAKE i \in 1 .. n
    <3> HAVE i # f
    <3>1. CASE i < f
      <4>1. i \in 1 .. n - 1 /\ at(i) = i
        BY <1>1, <1>2, <3>1
      <4> QED BY <4>1
    <3>2. CASE i > f
      <4>1. i - 1 \in 1 .. n - 1 /\ at(i - 1) = i
        BY <1>1, <1>2, <3>2
      <4> QED BY <4>1
    <3> QED BY <1>1, <1>2, <3>1, <3>2
  <2> HIDE DEF at
  <2>6. {lstreams[i] : i \in 1 .. n} = Objects
        /\ \A i, j \in 1 .. n : lstreams[i] = lstreams[j] => i = j
    BY <1>1 DEF Tracked
  <2>7. \A i \in 1 .. n : i # f <=> lstreams[i][1] # s
    <3>1. \A i \in 1 .. n : i # f => lstreams[i][1] # s
      BY <1>2, <1>5
    <3>2. lstreams[f][1] = s
      BY <1>2
    <3> QED BY <3>1, <3>2
  <2>8. Objects' = {p \in Objects : p[1] # s}
    <3>1. Active' = Active \ {s}
      <4>1. s \in Streams
        BY DEF Active
      <4>2. \A t \in Streams : ng[t] \in [state : {"idle", "open", "ended", "closing", "closed"},
                                          local : BOOLEAN]
        BY OfStream
      <4>3. ng \in [Streams -> [state : {"idle", "open", "ended", "closing", "closed"},
                                local : BOOLEAN]]
        BY DEF TypeOK
      <4>4. ng'[s].state = "closed" /\ \A t \in Streams : t # s => ng'[t] = ng[t]
        BY <1>3, <4>1, <4>2, <4>3
      <4> QED BY <4>1, <4>4 DEF Active
    <3> QED BY <3>1 DEF Objects
  <2>9. {q[j] : j \in 1 .. n - 1} = Objects'
    <3>1. \A j \in 1 .. n - 1 : q[j] \in Objects /\ q[j][1] # s
      BY <2>3, <2>6, <2>7
    <3>2. ASSUME NEW p \in Objects, p[1] # s
          PROVE  \E j \in 1 .. n - 1 : q[j] = p
      <4>1. PICK i \in 1 .. n : lstreams[i] = p
        BY <2>6
      <4>2. i # f
        BY <2>7, <3>2, <4>1
      <4>3. PICK j \in 1 .. n - 1 : at(j) = i
        BY <2>5, <4>2
      <4> QED BY <2>3, <4>1, <4>3
    <3> QED BY <2>8, <3>1, <3>2
  <2>10. \A i, j \in 1 .. n - 1 : q[i] = q[j] => i = j
    BY <2>3, <2>4, <2>6
  <2>11. Tracked'
    BY <2>1, <2>2, <2>9, <2>10 DEF Tracked
  <2>12. Ordered'
    <3>1. \A i, j \in 1 .. n - 1 :
             q[i][1] = q[j][1] /\ q[i][2] < q[j][2] => at(i) < at(j)
      BY <1>1, <2>3 DEF Ordered
    <3> QED BY <2>1, <2>2, <2>4, <3>1 DEF Ordered
  <2> QED BY <2>1, <2>2, <2>11, <2>12
<1> QED BY <1>4, <1>5


-----------------------------------------------------------------------------
(* One lemma per action *)

NgType == [state : {"idle", "open", "ended", "closing", "closed"}, local : BOOLEAN]

EzType == [object : 0 .. 2, path : BOOLEAN, recv : Seq(Byte)]

\* IInv with the list's part in the words of the lemmas.
LEMMA Unfolded ==
  ASSUME IInv
  PROVE  TypeOK /\ Ordered /\ Tracked /\ \A s \in Streams : Sound(s)
BY TrackedIs DEF IInv

LEMMA Folded ==
  ASSUME TypeOK', Ordered', Tracked', \A s \in Streams : Sound(s)'
  PROVE  IInv'
BY DEF IInv, StreamsTracked, Tracked, Active, Objects

LEMMA InitInv ==
  ASSUME Init
  PROVE  IInv
<1>1. \A s \in Streams : /\ ez[s] = NoObject /\ ng[s] = [state |-> "idle", local |-> FALSE]
                         /\ events[s] = <<>> /\ wire[s] = <<>> /\ sent[s] = 0
                         /\ eos[s] = FALSE /\ exact[s] = TRUE
  BY DEF Init
<1>2. <<>> \in Seq(Byte) /\ <<>> \in Seq(Event) /\ <<>> \in Seq(Streams \X (1 .. 2))
      /\ Len(<<>>) = 0 /\ DOMAIN <<>> = {}
  OBVIOUS
<1>3. NoObject \in EzType /\ NoObject.recv = <<>> /\ NoObject.object = 0 /\ NoObject.path = FALSE
  BY <1>2 DEF NoObject, EzType
<1>4. TypeOK
  <2>1. Window \in Nat
    BY BaseAssumption
  <2>2. ez \in [Streams -> EzType] /\ \A s \in Streams : Len(ez[s].recv) <= Window
    BY <1>1, <1>2, <1>3, <2>1 DEF Init
  <2>3. ng \in [Streams -> NgType]
    BY DEF Init, NgType
  <2>4. /\ events \in [Streams -> Seq(Event)] /\ sent \in [Streams -> Nat]
        /\ eos \in [Streams -> BOOLEAN] /\ exact \in [Streams -> BOOLEAN]
    BY <1>2 DEF Init
  <2>5. wire \in [Streams -> Seq(Byte)] /\ \A s \in Streams : wire[s] \in Wires[s] \cup {<<>>}
    BY <1>1, <1>2 DEF Init
  <2>6. session = "open" /\ lstreams \in Seq(Streams \X (1 .. 2)) /\ frame = None
    BY <1>2 DEF Init
  <2> QED BY <2>2, <2>3, <2>4, <2>5, <2>6 DEF TypeOK, EzType, NgType
<1>5. Ordered
  <2>1. DOMAIN lstreams = {}
    BY <1>2 DEF Init
  <2> QED BY <2>1 DEF Ordered
<1>6. Tracked
  <2>1. DOMAIN lstreams = {}
    BY <1>2 DEF Init
  <2>2. Active = {}
    BY <1>1 DEF Active
  <2>3. Objects = {}
    BY <2>2 DEF Objects
  <2> QED BY <2>1, <2>3 DEF Tracked
<1>7. ASSUME NEW s \in Streams
      PROVE  Sound(s)
  <2>1. Phase(s)
    <3>1. frame = None /\ frame # s
      BY NoneAssumption DEF Init
    <3> QED BY <1>1, <1>2, <1>3, <3>1 DEF Phase
  <2>2. Buffered(s)
    <3>1. 0 <= Window
      BY BaseAssumption
    <3> QED BY <1>1, <1>2, <1>3, <3>1 DEF Buffered
  <2>3. Delivered(s)
    BY <1>1, <1>2 DEF Delivered
  <2>4. Drained(s)
    BY <1>1 DEF Drained
  <2>5. Ended(s)
    BY <1>1, <1>2 DEF Ended, Finals
  <2> QED BY <2>1, <2>2, <2>3, <2>4, <2>5 DEF Sound
<1> QED BY <1>4, <1>5, <1>6, <1>7, TrackedIs DEF IInv

LEMMA RecvHeadersKeeps ==
  ASSUME IInv, NEW s \in Streams, NEW head \in Fields, NEW e \in BOOLEAN, NEW w \in Wires[s],
         RecvHeaders(s, head, e, w)
  PROVE  IInv'
<1> DEFINE v == IF e THEN <<>> ELSE w
           g == CASE e /\ ~head.grpc -> [state |-> "ended", local |-> TRUE]
                  [] e /\ head.grpc -> [state |-> "closing", local |-> FALSE]
                  [] ~e /\ ~(head.grpc /\ head.others) -> [state |-> "closing", local |-> FALSE]
                  [] ~e /\ head.grpc /\ head.others -> [state |-> "open", local |-> ~head.path]
           o == [object |-> 1, path |-> head.path, recv |-> <<>>]
<1>1. /\ session = "open" /\ frame = None /\ ng[s].state = "idle"
      /\ lstreams' = Append(lstreams, <<s, 1>>)
      /\ ez' = [ez EXCEPT ![s] = o]
      /\ wire' = [wire EXCEPT ![s] = v]
      /\ ng' = [ng EXCEPT ![s] = g]
      /\ session' = session /\ frame' = frame /\ events' = events
      /\ sent' = sent /\ eos' = eos /\ exact' = exact
  BY DEF RecvHeaders
<1>2. TypeOK /\ Ordered /\ Tracked /\ \A t \in Streams : Sound(t)
  BY Unfolded
<1>3. head.grpc \in BOOLEAN /\ head.others \in BOOLEAN /\ head.path \in BOOLEAN
  BY DEF Fields
<1>4. g \in NgType /\ g.state \in {"open", "ended", "closing"}
  <2>1. CASE e
    BY <1>3, <2>1 DEF NgType
  <2>2. CASE ~e /\ head.grpc /\ head.others
    BY <1>3, <2>2 DEF NgType
  <2>3. CASE ~e /\ ~(head.grpc /\ head.others)
    BY <1>3, <2>3 DEF NgType
  <2> QED BY <1>3, <2>1, <2>2, <2>3
<1>5. /\ o \in EzType /\ o.object = 1 /\ o.path \in BOOLEAN /\ o.recv = <<>>
      /\ Len(<<>>) = 0 /\ <<>> \in Seq(Byte) /\ v \in Wires[s] \cup {<<>>}
  <2>1. <<>> \in Seq(Byte) /\ Len(<<>>) = 0
    OBVIOUS
  <2> QED BY <1>3, <2>1 DEF EzType
<1> HIDE DEF g, o, v
<1>6. /\ ez \in [Streams -> EzType] /\ ng \in [Streams -> NgType]
      /\ \A t \in Streams : Len(ez[t].recv) <= Window /\ wire[t] \in Wires[t] \cup {<<>>}
  BY <1>2 DEF TypeOK, EzType, NgType
<1>7. /\ ez'[s] = o /\ ng'[s] = g /\ ez' \in [Streams -> EzType] /\ ng' \in [Streams -> NgType]
      /\ \A t \in Streams \ {s} : ez'[t] = ez[t] /\ ng'[t] = ng[t]
  BY <1>1, <1>4, <1>5, <1>6
<1>8. /\ \A t \in Streams \ {s} : wire'[t] = wire[t]
      /\ \A t \in Streams : wire'[t] \in Wires[t] \cup {<<>>}
      /\ wire'[s] = v /\ v \in Seq(Byte) /\ wire' \in [Streams -> Seq(Byte)]
  <2>1. v \in Seq(Byte)
    BY <1>5, WiresAssumption DEF Byte
  <2>2. wire \in [Streams -> Seq(Byte)]
    BY <1>2 DEF TypeOK
  <2> QED BY <1>1, <1>5, <1>6, <2>1, <2>2
<1>9. Ordered' /\ Tracked' /\ lstreams' \in Seq(Streams \X (1 .. 2))
  <2>1. s \notin Active /\ Active' = Active \cup {s}
    BY <1>1, <1>4, <1>7 DEF Active
  <2>2. Objects' = Objects \cup {<<s, 1>>}
    <3>1. \A k \in 1 .. 2 : k <= 1 <=> k = 1
      OBVIOUS
    <3>2. \A p \in Streams \X (1 .. 2) : p \in Objects' <=> p \in Objects \/ p = <<s, 1>>
      <4> TAKE p \in Streams \X (1 .. 2)
      <4>1. p[1] \in Streams /\ p[2] \in 1 .. 2 /\ p = <<p[1], p[2]>>
        OBVIOUS
      <4>2. CASE p[1] = s
        <5>1. p \notin Objects
          BY <2>1, <4>2 DEF Objects
        <5>2. p \in Objects' <=> p[2] <= 1
          BY <1>5, <1>7, <2>1, <4>2 DEF Objects
        <5> QED BY <3>1, <4>1, <4>2, <5>1, <5>2
      <4>3. CASE p[1] # s
        <5>1. p[1] \in Active' <=> p[1] \in Active
          BY <2>1, <4>3
        <5>2. ez'[p[1]] = ez[p[1]]
          BY <1>7, <4>1, <4>3
        <5>3. p # <<s, 1>>
          BY <4>3
        <5> QED BY <5>1, <5>2, <5>3 DEF Objects
      <4> QED BY <4>2, <4>3
    <3>3. Objects \subseteq Streams \X (1 .. 2) /\ Objects' \subseteq Streams \X (1 .. 2)
          /\ <<s, 1>> \in Streams \X (1 .. 2)
      BY DEF Objects
    <3> QED BY <3>2, <3>3
  <2>3. \A j \in 1 .. 2 : <<s, j>> \notin Objects
    BY <2>1 DEF Objects
  <2>4. 1 \in 1 .. 2
    OBVIOUS
  <2> HIDE DEF Active, Objects
  <2> QED BY <1>1, <1>2, <2>1, <2>2, <2>3, <2>4, ListGrows
<1>10. TypeOK'
  <2>1. \A t \in Streams : Len(ez'[t].recv) <= Window
    <3>1. 0 <= Window
      BY BaseAssumption
    <3> QED BY <1>5, <1>6, <1>7, <3>1
  <2>2. /\ session' \in {"open", "freed", "aborted"} /\ frame' \in Streams \cup {None}
        /\ events' \in [Streams -> Seq(Event)] /\ sent' \in [Streams -> Nat]
        /\ eos' \in [Streams -> BOOLEAN] /\ exact' \in [Streams -> BOOLEAN]
    BY <1>1, <1>2 DEF TypeOK
  <2> QED BY <1>7, <1>8, <1>9, <2>1, <2>2 DEF TypeOK, EzType, NgType
<1>11. ASSUME NEW t \in Streams
       PROVE  Sound(t)'
  <2>1. CASE t # s
    <3>1. Same(t)
      BY <1>1, <1>7, <1>8, <2>1 DEF Same
    <3> QED BY <1>1, <1>2, <3>1, SameKeeps
  <2>2. CASE t = s
    <3>1. Phase(s) /\ Ended(s)
      BY <1>2 DEF Sound
    <3>2. events[s] = <<>> /\ sent[s] = 0 /\ ~eos[s]
      BY <1>1, <3>1 DEF Phase
    <3>3. Len(wire'[s]) \in Nat
      BY <1>8
    <3>4. g.state # "idle" /\ frame' # s
      BY <1>1, <1>4, NoneAssumption
    <3>5. Phase(s)'
      BY <1>1, <1>5, <1>7, <3>2, <3>3, <3>4 DEF Phase
    <3>6. Buffered(s)'
      <4>1. SubSeq(v, 1, 0) = <<>>
        <5>1. 0 + 1 = 1 /\ 0 - 0 = 0 /\ 0 <= Len(v)
          BY <1>8
        <5>2. SubSeq(v, 1, 0) \in Seq(Byte) /\ Len(SubSeq(v, 1, 0)) = 0
          BY <1>8, <5>1, SliceIs
        <5> QED BY <5>2, EmptySeq
      <4>2. 0 <= Window /\ 0 - 0 + 1 = 1
        BY BaseAssumption
      <4>3. ez'[s].recv = <<>> /\ Len(ez'[s].recv) = 0 /\ sent'[s] = 0
        BY <1>1, <1>5, <1>7, <3>2
      <4>4. SubSeq(wire'[s], sent'[s] - Len(ez'[s].recv) + 1, sent'[s]) = <<>>
        BY <1>8, <4>1, <4>2, <4>3
      <4> QED BY <4>2, <4>3, <4>4 DEF Buffered
    <3>7. Delivered(s)'
      <4>1. DOMAIN events'[s] = {}
        BY <1>1, <3>2
      <4> QED BY <4>1 DEF Delivered
    <3>8. Drained(s)'
      <4>1. ~Complete(<<>>, 0)
        BY <1>5 DEF Complete
      <4> QED BY <1>5, <1>7, <4>1 DEF Drained
    <3>9. Ended(s)'
      <4>1. DOMAIN events'[s] = {}
        BY <1>1, <3>2
      <4> QED BY <1>1, <3>2, <4>1 DEF Ended, Finals
    <3> QED BY <2>2, <3>5, <3>6, <3>7, <3>8, <3>9 DEF Sound
  <2> QED BY <2>1, <2>2
<1> QED BY <1>9, <1>10, <1>11, Folded


\* The session is freed and nothing else happens.
LEMMA FreedOnly ==
  ASSUME IInv, FreeSession, ez' = ez, events' = events, wire' = wire,
         eos' = eos, exact' = exact, sent' \in [Streams -> Nat],
         \A s \in Streams : sent'[s] >= sent[s] /\ sent'[s] <= Len(wire[s])
  PROVE  IInv'
<1>1. TypeOK /\ Ordered /\ Tracked /\ \A s \in Streams : Sound(s)
  BY Unfolded
<1>2. session' = "freed" /\ lstreams' = <<>> /\ frame' = None
  BY DEF FreeSession
<1>3. Ordered' /\ Tracked'
  BY <1>1, <1>2, ListGone
<1>4. TypeOK'
  <2>1. ng' \in [Streams -> NgType]
    <3>1. \A s \in Streams : ng[s] \in NgType
      BY <1>1 DEF TypeOK, NgType
    <3>2. \A s \in Streams : [ng[s] EXCEPT !.state = "closed"] \in NgType
      BY <3>1 DEF NgType
    <3> QED BY <3>2 DEF FreeSession
  <2>2. lstreams' \in Seq(Streams \X (1 .. 2))
    BY <1>2
  <2>3. /\ ez' \in [Streams -> EzType]
        /\ \A s \in Streams : Len(ez'[s].recv) <= Window /\ wire'[s] \in Wires[s] \cup {<<>>}
        /\ wire' \in [Streams -> Seq(Byte)] /\ events' \in [Streams -> Seq(Event)]
        /\ eos' \in [Streams -> BOOLEAN] /\ exact' \in [Streams -> BOOLEAN]
    BY <1>1 DEF TypeOK, EzType
  <2> QED BY <1>2, <2>1, <2>2, <2>3 DEF TypeOK, NgType, EzType
<1>5. \A s \in Streams : Sound(s)'
  BY <1>1, FreedKeeps
<1> QED BY <1>3, <1>4, <1>5, Folded

LEMMA WithinWire ==
  ASSUME IInv, NEW s \in Streams
  PROVE  sent[s] \in Nat /\ sent[s] <= Len(wire[s])
<1>1. TypeOK /\ Sound(s)
  BY Unfolded
<1> QED BY <1>1, OfStream DEF Sound, Phase

LEMMA TooManyHeadersKeeps ==
  ASSUME IInv, NEW s \in Streams, TooManyHeaders(s)
  PROVE  IInv'
<1>1. /\ FreeSession /\ ez' = ez /\ events' = events /\ wire' = wire
      /\ eos' = eos /\ exact' = exact /\ sent' = sent
  BY DEF TooManyHeaders, client
<1>2. \A t \in Streams : sent'[t] >= sent[t] /\ sent'[t] <= Len(wire[t])
  BY <1>1, WithinWire
<1>3. sent' \in [Streams -> Nat]
  BY <1>1 DEF IInv, TypeOK
<1> QED BY <1>1, <1>2, <1>3, FreedOnly

LEMMA HangupKeeps ==
  ASSUME IInv, Hangup
  PROVE  IInv'
<1>1. /\ FreeSession /\ ez' = ez /\ events' = events /\ wire' = wire
      /\ eos' = eos /\ exact' = exact /\ sent' = sent
  BY DEF Hangup, client
<1>2. \A t \in Streams : sent'[t] >= sent[t] /\ sent'[t] <= Len(wire[t])
  BY <1>1, WithinWire
<1>3. sent' \in [Streams -> Nat]
  BY <1>1 DEF IInv, TypeOK
<1> QED BY <1>1, <1>2, <1>3, FreedOnly

LEMMA RecvTrailersKeeps ==
  ASSUME IInv, NEW s \in Streams, RecvTrailers(s)
  PROVE  IInv'
<1> DEFINE o == [NoObject EXCEPT !.object = 2]
           g == [state |-> "ended", local |-> TRUE]
<1>1. TypeOK /\ Ordered /\ Tracked /\ \A t \in Streams : Sound(t)
  BY Unfolded
<1>2. /\ Trailers /\ session = "open" /\ frame = None /\ ng[s].state = "open"
      /\ ng' = [ng EXCEPT ![s] = g]
      /\ session' = session /\ frame' = frame /\ events' = events
      /\ wire' = wire /\ sent' = sent /\ eos' = eos /\ exact' = exact
  BY DEF RecvTrailers, client
<1>3. ~eos[s] /\ ez[s].object = 1 /\ sent[s] <= Len(wire[s])
  BY <1>1, <1>2 DEF Sound, Phase
<1>4. lstreams' = Append(lstreams, <<s, 2>>) /\ ez' = [ez EXCEPT ![s] = o]
  <2>1. ez[s].object + 1 = 2
    BY <1>3
  <2> QED BY <2>1 DEF RecvTrailers, BeginHeaders
<1>5. /\ o \in EzType /\ o.object = 2 /\ o.path = FALSE /\ o.recv = <<>> /\ Len(<<>>) = 0
      /\ g \in NgType /\ g.state = "ended"
  <2>1. <<>> \in Seq(Byte) /\ Len(<<>>) = 0
    OBVIOUS
  <2>2. NoObject \in EzType /\ NoObject.path = FALSE /\ NoObject.recv = <<>>
    BY <2>1 DEF NoObject, EzType
  <2>3. g \in NgType /\ g.state = "ended"
    BY DEF NgType
  <2>4. o \in EzType /\ o.object = 2 /\ o.path = FALSE /\ o.recv = <<>>
    BY <2>2 DEF EzType
  <2> QED BY <2>1, <2>3, <2>4
<1> HIDE DEF o, g
<1>6. /\ ez \in [Streams -> EzType] /\ ng \in [Streams -> NgType]
      /\ \A t \in Streams : Len(ez[t].recv) <= Window
  BY <1>1 DEF TypeOK, EzType, NgType
<1>7. /\ ez'[s] = o /\ ng'[s] = g /\ ez' \in [Streams -> EzType] /\ ng' \in [Streams -> NgType]
      /\ \A t \in Streams \ {s} : ez'[t] = ez[t] /\ ng'[t] = ng[t]
  BY <1>2, <1>4, <1>5, <1>6
<1>8. Ordered' /\ Tracked' /\ lstreams' \in Seq(Streams \X (1 .. 2))
  <2>1. s \in Active /\ Active' = Active
    BY <1>2, <1>5, <1>7 DEF Active
  <2>2. Objects' = Objects \cup {<<s, 2>>}
    <3>1. \A k \in 1 .. 2 : k <= 2 /\ (k <= 1 <=> k = 1) /\ (k = 1 \/ k = 2)
      OBVIOUS
    <3>2. \A p \in Streams \X (1 .. 2) : p \in Objects' <=> p \in Objects \/ p = <<s, 2>>
      <4> TAKE p \in Streams \X (1 .. 2)
      <4>1. p[1] \in Streams /\ p[2] \in 1 .. 2 /\ p = <<p[1], p[2]>>
        OBVIOUS
      <4>2. CASE p[1] = s
        <5>1. p \in Objects <=> p[2] <= 1
          BY <1>3, <2>1, <4>2 DEF Objects
        <5>2. p \in Objects' <=> p[2] <= 2
          BY <1>5, <1>7, <2>1, <4>2 DEF Objects
        <5> QED BY <3>1, <4>1, <4>2, <5>1, <5>2
      <4>3. CASE p[1] # s
        <5>1. ez'[p[1]] = ez[p[1]]
          BY <1>7, <4>1, <4>3
        <5>2. p # <<s, 2>>
          BY <4>3
        <5> QED BY <2>1, <5>1, <5>2 DEF Objects
      <4> QED BY <4>2, <4>3
    <3>3. Objects \subseteq Streams \X (1 .. 2) /\ Objects' \subseteq Streams \X (1 .. 2)
          /\ <<s, 2>> \in Streams \X (1 .. 2)
      BY DEF Objects
    <3> QED BY <3>2, <3>3
  <2>3. \A j \in 1 .. 2 : <<s, j>> \in Objects <=> j < 2
    BY <1>3, <2>1 DEF Objects
  <2>4. 2 \in 1 .. 2
    OBVIOUS
  <2> HIDE DEF Active, Objects
  <2> QED BY <1>1, <1>2, <1>4, <2>1, <2>2, <2>3, <2>4, ListGrows
<1>9. TypeOK'
  <2>1. \A t \in Streams : Len(ez'[t].recv) <= Window
    <3>1. 0 <= Window
      BY BaseAssumption
    <3> QED BY <1>5, <1>6, <1>7, <3>1
  <2>2. /\ session' \in {"open", "freed", "aborted"} /\ frame' \in Streams \cup {None}
        /\ events' \in [Streams -> Seq(Event)] /\ sent' \in [Streams -> Nat]
        /\ wire' \in [Streams -> Seq(Byte)]
        /\ \A t \in Streams : wire'[t] \in Wires[t] \cup {<<>>}
        /\ eos' \in [Streams -> BOOLEAN] /\ exact' \in [Streams -> BOOLEAN]
    BY <1>1, <1>2 DEF TypeOK
  <2> QED BY <1>7, <1>8, <2>1, <2>2 DEF TypeOK, EzType, NgType
<1>10. ASSUME NEW t \in Streams
       PROVE  Sound(t)'
  <2>1. CASE t # s
    <3>1. Same(t)
      BY <1>2, <1>7, <2>1 DEF Same
    <3> QED BY <1>1, <1>2, <3>1, SameKeeps
  <2>2. CASE t = s
    <3>1. frame' # s
      BY <1>2, NoneAssumption
    <3>2. Phase(s)'
      BY <1>2, <1>3, <1>5, <1>7, <3>1 DEF Phase
    <3>3. Buffered(s)'
      <4>1. 0 <= Window
        BY BaseAssumption
      <4> QED BY <1>5, <1>7, <4>1 DEF Buffered
    <3>4. Delivered(s)'
      BY <1>1, <1>2 DEF Sound, Delivered
    <3>5. Drained(s)'
      BY <1>5, <1>7 DEF Drained
    <3>6. Ended(s)'
      <4>1. Finals(s) = {}
        BY <1>1, <1>3 DEF Sound, Ended
      <4>2. Finals(s)' = {}
        BY <1>2, <4>1 DEF Finals
      <4> QED BY <1>5, <1>7, <4>2 DEF Ended
    <3> QED BY <2>2, <3>2, <3>3, <3>4, <3>5, <3>6 DEF Sound
  <2> QED BY <2>1, <2>2
<1> QED BY <1>8, <1>9, <1>10, Folded

\* A stream is closed, or the assert ends the program.
LEMMA CloseStreamKeeps ==
  ASSUME IInv, NEW s \in Streams, session = "open",
         ng[s].state \in {"open", "ended", "closing"}, CloseStream(s),
         ez' = ez, frame' = frame, events' = events,
         wire' = wire, sent' = sent, eos' = eos, exact' = exact
  PROVE  IInv' /\ (ez[s].object = 1 => session' = "open")
<1>1. TypeOK /\ Ordered /\ Tracked /\ \A t \in Streams : Sound(t)
  BY Unfolded
<1>2. s \in Active /\ ez[s].object \in 1 .. 2
  <2>1. ez[s].object >= 1
    BY <1>1 DEF Sound, Phase
  <2>2. ez[s].object \in 0 .. 2
    BY <1>1, OfStream
  <2>3. ez[s].object \in 1 .. 2
    BY <2>1, <2>2
  <2> QED BY <2>3 DEF Active
<1>3. /\ Ordered' /\ Tracked' /\ lstreams' \in Seq(Streams \X (1 .. 2))
      /\ session' \in {"open", "aborted"} /\ (ez[s].object = 1 => session' = "open")
  BY <1>1, <1>2, ListShrinks
<1>4. ng' = [ng EXCEPT ![s].state = "closed"] /\ ng \in [Streams -> NgType]
  BY <1>1 DEF CloseStream, TypeOK, NgType
<1>5. ng' \in [Streams -> NgType] /\ ng'[s].state = "closed"
      /\ \A t \in Streams \ {s} : ng'[t] = ng[t]
  <2> DEFINE g == [ng[s] EXCEPT !.state = "closed"]
  <2>1. g \in NgType /\ g.state = "closed"
    <3>1. ng[s] \in NgType
      BY <1>4
    <3> QED BY <3>1 DEF NgType
  <2>2. ng' = [ng EXCEPT ![s] = g]
    BY <1>4
  <2> HIDE DEF g
  <2> QED BY <1>4, <2>1, <2>2
<1>6. TypeOK'
  BY <1>1, <1>3, <1>5 DEF TypeOK, NgType
<1>7. ASSUME NEW t \in Streams
      PROVE  Sound(t)'
  <2>1. Same(t)
    BY <1>5 DEF Same
  <2> QED BY <1>1, <2>1, SameKeeps
<1> QED BY <1>3, <1>6, <1>7, Folded

LEMMA StreamClosedKeeps ==
  ASSUME IInv, NEW s \in Streams, StreamClosed(s)
  PROVE  IInv' /\ (ez[s].object = 1 => session' = "open")
BY CloseStreamKeeps DEF StreamClosed, client

LEMMA ClientResetsKeeps ==
  ASSUME IInv, NEW s \in Streams, ClientResets(s)
  PROVE  IInv' /\ (ez[s].object = 1 => session' = "open")
BY CloseStreamKeeps DEF ClientResets, client

LEMMA AppEndsKeeps ==
  ASSUME IInv, NEW s \in Streams, AppEnds(s)
  PROVE  IInv'
<1>1. TypeOK /\ Ordered /\ Tracked /\ \A t \in Streams : Sound(t)
  BY Unfolded
<1>2. /\ ng' = [ng EXCEPT ![s].local = TRUE] /\ ng \in [Streams -> NgType]
      /\ session' = session /\ lstreams' = lstreams /\ ez' = ez /\ frame' = frame
      /\ events' = events /\ wire' = wire /\ sent' = sent /\ eos' = eos /\ exact' = exact
  BY <1>1 DEF AppEnds, client, TypeOK, NgType
<1>3. ng' \in [Streams -> NgType] /\ \A t \in Streams : ng'[t].state = ng[t].state
  <2> DEFINE g == [ng[s] EXCEPT !.local = TRUE]
  <2>1. g \in NgType /\ g.state = ng[s].state
    <3>1. ng[s] \in NgType
      BY <1>2
    <3> QED BY <3>1 DEF NgType
  <2>2. ng' = [ng EXCEPT ![s] = g]
    BY <1>2
  <2> HIDE DEF g
  <2> QED BY <1>2, <2>1, <2>2
<1>4. Ordered' /\ Tracked'
  <2>1. Active' = Active
    BY <1>3 DEF Active
  <2> QED BY <1>1, <1>2, <2>1, ListStays
<1>5. TypeOK'
  BY <1>1, <1>2, <1>3 DEF TypeOK, NgType
<1>6. ASSUME NEW t \in Streams
      PROVE  Sound(t)'
  <2>1. Same(t)
    BY <1>2, <1>3 DEF Same
  <2> QED BY <1>1, <1>2, <2>1, SameKeeps
<1> QED BY <1>4, <1>5, <1>6, Folded

LEMMA StutterKeeps ==
  ASSUME IInv, UNCHANGED vars
  PROVE  IInv'
<1>1. TypeOK /\ Ordered /\ Tracked /\ \A t \in Streams : Sound(t)
  BY Unfolded
<1>2. /\ session' = session /\ lstreams' = lstreams /\ ez' = ez /\ ng' = ng /\ frame' = frame
      /\ events' = events /\ wire' = wire /\ sent' = sent /\ eos' = eos /\ exact' = exact
  BY DEF vars
<1>3. Ordered' /\ Tracked'
  <2>1. Active' = Active
    BY <1>2 DEF Active
  <2> QED BY <1>1, <1>2, <2>1, ListStays
<1>4. TypeOK'
  BY <1>1, <1>2 DEF TypeOK
<1>5. ASSUME NEW t \in Streams
      PROVE  Sound(t)'
  <2>1. Same(t)
    BY <1>2 DEF Same
  <2> QED BY <1>1, <1>2, <2>1, SameKeeps
<1> QED BY <1>3, <1>4, <1>5, Folded

\* on_data_chunk_recv_callback
LEMMA RecvChunkKeeps ==
  ASSUME IInv, NEW s \in Streams, NEW n \in 1 .. Len(wire[s]) - sent[s], RecvChunk(s, n)
  PROVE  IInv'
<1> DEFINE chunk == SubSeq(wire[s], sent[s] + 1, sent[s] + n)
           b     == ez[s].recv
           w     == wire[s]
           k     == sent[s]
<1>1. TypeOK /\ Ordered /\ Tracked /\ \A t \in Streams : Sound(t)
  BY Unfolded
<1>2. /\ session = "open" /\ frame \in {None, s} /\ ng[s].state = "open"
      /\ sent' = [sent EXCEPT ![s] = k + n]
      /\ events' = events /\ wire' = wire /\ eos' = eos /\ exact' = exact
  BY DEF RecvChunk
<1>3. /\ w \in Seq(Byte) /\ Len(w) \in Nat /\ k \in Nat /\ n \in Nat /\ k + n <= Len(w)
      /\ b \in Seq(Byte) /\ Len(b) \in Nat
  <2>1. w \in Seq(Byte) /\ Len(w) \in Nat /\ k \in Nat /\ b \in Seq(Byte) /\ Len(b) \in Nat
    BY <1>1, OfStream
  <2> HIDE DEF w, k, b
  <2>2. n \in 1 .. Len(w) - k
    BY DEF w, k
  <2> QED BY <2>1, <2>2
<1>4. sent' \in [Streams -> Nat] /\ sent'[s] = k + n /\ \A t \in Streams \ {s} : sent'[t] = sent[t]
  <2>1. sent \in [Streams -> Nat]
    BY <1>1 DEF TypeOK
  <2>2. k + n \in Nat
    BY <1>3
  <2> HIDE DEF k
  <2> QED BY <1>2, <2>1, <2>2
<1>5. CASE Len(b) + n > Window
  <2>1. FreeSession /\ ez' = ez
    BY <1>5 DEF RecvChunk
  <2>2. \A t \in Streams : sent'[t] >= sent[t] /\ sent'[t] <= Len(wire[t])
    <3> TAKE t \in Streams
    <3>1. sent[t] \in Nat /\ sent[t] <= Len(wire[t])
      BY WithinWire
    <3> QED BY <1>3, <1>4, <3>1
  <2> QED BY <1>2, <1>4, <2>1, <2>2, FreedOnly
<1>6. CASE ~(Len(b) + n > Window)
  <2> DEFINE o == [ez[s] EXCEPT !.recv = b \o chunk]
  <2>1. /\ ez' = [ez EXCEPT ![s].recv = b \o chunk]
        /\ frame' = s /\ session' = session /\ lstreams' = lstreams /\ ng' = ng
    BY <1>6 DEF RecvChunk
  <2>2. chunk \in Seq(Byte) /\ Len(chunk) = n
    <3>1. chunk = SubSeq(w, k + 1, k + n)
      OBVIOUS
    <3> HIDE DEF w, k, chunk
    <3>2. (k + n) - k = n /\ k <= k + n /\ k + n \in Nat
      BY <1>3
    <3> QED BY <1>3, <3>1, <3>2, SliceIs
  <2>3. b \o chunk \in Seq(Byte) /\ Len(b \o chunk) = Len(b) + n
    <3> HIDE DEF chunk, b
    <3> QED BY <1>3, <2>2, ConcatProperties
  <2>4. Len(b) + n <= Window
    <3>1. Window \in Nat
      BY BaseAssumption
    <3> HIDE DEF b
    <3> QED BY <1>3, <1>6, <3>1
  <2> DEFINE c == b \o chunk
  <2>5. ez \in [Streams -> EzType] /\ \A t \in Streams : Len(ez[t].recv) <= Window
    BY <1>1 DEF TypeOK, EzType
  <2> HIDE DEF c
  <2>6. /\ ez' = [ez EXCEPT ![s] = [ez[s] EXCEPT !.recv = c]]
        /\ c \in Seq(Byte) /\ Len(c) = Len(b) + n
    BY <2>1, <2>3 DEF c
  <2>7. LET p == [ez[s] EXCEPT !.recv = c]
        IN  p \in EzType /\ p.recv = c /\ p.object = ez[s].object /\ p.path = ez[s].path
    <3>1. ez[s] \in EzType
      BY <2>5
    <3> QED BY <2>6, <3>1 DEF EzType
  <2>8. /\ ez' \in [Streams -> EzType] /\ ez'[s].recv = c
        /\ ez'[s].object = ez[s].object /\ ez'[s].path = ez[s].path
        /\ \A t \in Streams \ {s} : ez'[t] = ez[t]
    <3> DEFINE p == [ez[s] EXCEPT !.recv = c]
    <3>1. ez' = [ez EXCEPT ![s] = p] /\ p \in EzType /\ p.recv = c
          /\ p.object = ez[s].object /\ p.path = ez[s].path
      BY <2>6, <2>7
    <3> HIDE DEF p
    <3> QED BY <2>5, <3>1
  <2>9. TypeOK'
    <3>1. \A t \in Streams : Len(ez'[t].recv) <= Window
      <4>1. Len(ez'[s].recv) <= Window
        BY <2>4, <2>6, <2>8
      <4> QED BY <2>5, <2>8, <4>1
    <3>2. /\ session' \in {"open", "freed", "aborted"} /\ frame' \in Streams \cup {None}
          /\ lstreams' \in Seq(Streams \X (1 .. 2)) /\ ng' \in [Streams -> NgType]
          /\ events' \in [Streams -> Seq(Event)] /\ wire' \in [Streams -> Seq(Byte)]
          /\ \A t \in Streams : wire'[t] \in Wires[t] \cup {<<>>}
          /\ eos' \in [Streams -> BOOLEAN] /\ exact' \in [Streams -> BOOLEAN]
      BY <1>1, <1>2, <2>1 DEF TypeOK, NgType
    <3> QED BY <1>4, <2>8, <3>1, <3>2 DEF TypeOK, EzType, NgType
  <2>10. Ordered' /\ Tracked'
    <3>1. Active' = Active
      BY <2>1 DEF Active
    <3>2. \A t \in Active : ez'[t].object = ez[t].object
      BY <2>8 DEF Active
    <3> QED BY <1>1, <2>1, <3>1, <3>2, ListStays
  <2>11. ASSUME NEW t \in Streams
         PROVE  Sound(t)'
    <3>1. CASE t # s
      <4>1. Same(t)
        BY <1>2, <1>4, <2>1, <2>8, <3>1 DEF Same
      <4>2. frame' # t /\ frame # t
        BY <1>2, <2>1, <3>1, NoneAssumption
      <4> QED BY <1>1, <2>1, <4>1, <4>2, SameKeeps
    <3>2. CASE t = s
      <4>1. Phase(s) /\ Buffered(s) /\ Delivered(s) /\ Ended(s)
        BY <1>1 DEF Sound
      <4>2. ~eos[s] /\ ez[s].object = 1
        BY <1>2, <4>1 DEF Phase
      <4>3. Phase(s)'
        <5>1. /\ ng'[s].state = "open" /\ session' = session /\ eos' = eos
              /\ ez'[s].object = 1 /\ sent'[s] <= Len(wire'[s])
          BY <1>2, <1>3, <1>4, <2>1, <2>8, <4>2
        <5> QED BY <2>1, <4>2, <5>1 DEF Phase
      <4>4. Buffered(s)'
        <5>1. Len(c) <= Window
          BY <2>4, <2>6
        <5>2. ASSUME exact[s]
              PROVE  Len(c) <= k + n /\ c = SubSeq(w, (k + n) - Len(c) + 1, k + n)
          <6>1. Len(b) <= k /\ b = SubSeq(w, k - Len(b) + 1, k)
            BY <1>2, <4>1, <4>2, <5>2 DEF Buffered
          <6> HIDE DEF b, w, k, chunk
          <6>2. SubSeq(w, k - Len(b) + 1, k) \o SubSeq(w, k + 1, k + n)
                  = SubSeq(w, k - Len(b) + 1, k + n)
            <7>1. /\ k - Len(b) + 1 \in 1 .. Len(w) + 1
                  /\ k \in (k - Len(b) + 1) - 1 .. Len(w)
                  /\ k + n \in k .. Len(w)
              BY <1>3, <6>1
            <7> QED BY <1>3, <7>1, ConcatAdjacentSubSeq
          <6>3. chunk = SubSeq(w, k + 1, k + n)
            BY DEF chunk, w, k
          <6>4. c = SubSeq(w, k - Len(b) + 1, k + n)
            BY <6>1, <6>2, <6>3 DEF c
          <6>5. (k + n) - Len(c) + 1 = k - Len(b) + 1 /\ Len(c) <= k + n
            BY <1>3, <2>6, <6>1
          <6> QED BY <6>4, <6>5
        <5>3. wire'[s] = w /\ sent'[s] = k + n /\ exact'[s] = exact[s]
          BY <1>2, <1>4
        <5> HIDE DEF w, k
        <5> QED BY <2>8, <5>1, <5>2, <5>3 DEF Buffered
      <4>5. Delivered(s)'
        <5>1. sent'[s] \in Nat /\ sent'[s] >= sent[s]
          BY <1>3, <1>4
        <5> QED BY <1>1, <1>2, <4>1, <5>1, DeliveredStays
      <4>6. Drained(s)'
        BY <2>1 DEF Drained
      <4>7. Ended(s)'
        BY <1>2, <4>1, <4>2 DEF Ended, Finals
      <4> QED BY <3>2, <4>3, <4>4, <4>5, <4>6, <4>7 DEF Sound
    <3> QED BY <3>1, <3>2
  <2> QED BY <2>9, <2>10, <2>11, Folded
<1> QED BY <1>5, <1>6


\* What a suffix of the buffer starts with is what the buffer has there.
LEMMA SuffixComplete ==
  ASSUME NEW b \in Seq(Byte), NEW l \in 0 .. Len(b), ~Complete(b, l)
  PROVE  ~Complete(SubSeq(b, l + 1, Len(b)), 0)
<1> DEFINE r == SubSeq(b, l + 1, Len(b))
<1>1. l \in Nat /\ Len(b) \in Nat /\ l <= Len(b)
  OBVIOUS
<1>2. r \in Seq(Byte) /\ Len(r) = Len(b) - l /\ \A i \in 1 .. Len(b) - l : r[i] = b[l + i]
  BY <1>1, SliceIs
<1> HIDE DEF r
<1>3. SUFFICES ASSUME Complete(r, 0)
               PROVE  FALSE
  BY DEF r
<1>4. 5 <= Len(r) /\ 5 + MsgLen(r, 0) <= Len(r)
  BY <1>3 DEF Complete
<1>5. MsgLen(r, 0) = MsgLen(b, l)
  <2>1. r[2] = b[l+2] /\ r[3] = b[l+3] /\ r[4] = b[l+4] /\ r[5] = b[l+5]
    BY <1>1, <1>2, <1>4
  <2>2. MsgLen(r, 0) = ((r[2] * Base + r[3]) * Base + r[4]) * Base + r[5]
    BY DEF MsgLen, Ntohl
  <2>3. MsgLen(b, l) = ((b[l+2] * Base + b[l+3]) * Base + b[l+4]) * Base + b[l+5]
    <3>1. (l+1)+1 = l+2 /\ (l+1)+2 = l+3 /\ (l+1)+3 = l+4 /\ (l+1)+4 = l+5
      BY <1>1
    <3>2. MsgLen(b, l) = ((b[(l+1)+1] * Base + b[(l+1)+2]) * Base + b[(l+1)+3]) * Base + b[(l+1)+4]
      BY DEF MsgLen, Ntohl
    <3> QED BY <3>1, <3>2
  <2> QED BY <2>1, <2>2, <2>3
<1>6. MsgLen(r, 0) \in Nat
  BY <1>2, <1>3, MessageIs
<1> DEFINE m == MsgLen(r, 0)
<1>7. m \in Nat /\ m = MsgLen(b, l) /\ 5 <= Len(b) - l /\ 5 + m <= Len(b) - l
  BY <1>2, <1>4, <1>5, <1>6
<1> HIDE DEF m
<1>8. l + 5 <= Len(b) /\ l + 5 + m <= Len(b)
  BY <1>1, <1>7
<1> QED BY <1>7, <1>8 DEF Complete

\* A message of a buffer that holds the last bytes of the wire is a slice of
\* the wire.
LEMMA MessageSent ==
  ASSUME NEW w \in Seq(Byte), NEW k \in Nat, k <= Len(w),
         NEW b \in Seq(Byte), Len(b) <= k, b = SubSeq(w, k - Len(b) + 1, k),
         NEW o \in 0 .. Len(b), Complete(b, o)
  PROVE  SentIn(w, k, Message(b, o))
<1> DEFINE n == MsgLen(b, o)
           f == k - Len(b)
           m == Message(b, o)
<1>1. o \in Nat /\ Len(b) \in Nat /\ f \in Nat /\ f <= k /\ k - f = Len(b)
  OBVIOUS
<1>2. /\ n \in Nat /\ o + 5 + n <= Len(b)
      /\ m \in MessageType /\ m.cflag = b[o + 1]
      /\ m.data = SubSeq(b, o + 6, o + 5 + n) /\ Len(m.data) = n
  BY <1>1, MessageIs
<1>3. SubSeq(b, o + 1, o + 5 + n) = <<m.cflag>> \o BigEndian(n) \o m.data
  BY <1>1, <1>2, MessageIsSlice
<1> HIDE DEF m, n, f
<1>4. SubSeq(b, o + 1, o + 5 + n) = SubSeq(w, f + o + 1, f + (o + 5 + n))
  <2>1. b = SubSeq(w, f + 1, k)
    BY DEF f
  <2>2. o \in Nat /\ o + 5 + n \in Nat /\ o <= o + 5 + n /\ o + 5 + n <= k - f
    BY <1>1, <1>2
  <2>3. w \in Seq(Byte) /\ f \in Nat /\ k \in Nat /\ f <= k /\ k <= Len(w)
    BY <1>1
  <2> DEFINE j == o + 5 + n
  <2>4. SubSeq(SubSeq(w, f + 1, k), o + 1, j) = SubSeq(w, f + o + 1, f + j)
    <3>1. o \in Nat /\ j \in Nat /\ o <= j /\ j <= k - f
      BY <2>2
    <3> HIDE DEF j
    <3> QED BY <2>3, <3>1, SliceOfSlice
  <2> QED BY <2>1, <2>4
<1>5. f + o \in 0 .. k - 5 - n /\ f + (o + 5 + n) = (f + o) + 5 + n
  <2>1. n \in Nat
    BY <1>2, MessageIs DEF n
  <2> DEFINE l == Len(b)
  <2>2. o \in Nat /\ f \in Nat /\ k \in Nat /\ l = k - f /\ o + 5 + n <= l
    BY <1>1, <1>2
  <2> HIDE DEF l
  <2> QED BY <2>1, <2>2
<1>6. SubSeq(w, (f + o) + 1, (f + o) + 5 + n) = <<m.cflag>> \o BigEndian(n) \o m.data
  BY <1>3, <1>4, <1>5
<1>7. \E p \in 0 .. k - 5 - n : SubSeq(w, p + 1, p + 5 + n) = <<m.cflag>> \o BigEndian(n) \o m.data
  BY <1>5, <1>6
<1> QED BY <1>2, <1>7 DEF SentIn, m

\* on_frame_recv_data, for a stream that is served.
LEMMA ServedFrame ==
  ASSUME TypeOK, NEW s \in Streams, Sound(s), session = "open", session' = "open",
         ng[s].state = "open", ng'[s].state \in {"open", "ended"},
         ez[s].path, NEW e \in BOOLEAN, NEW order \in CopyOrders,
         ez'[s].object = ez[s].object, ez'[s].path = ez[s].path,
         ez'[s].recv = Rest(ez[s].recv, order),
         events'[s] = events[s] \o FrameEvents(ez[s].recv, Rest(ez[s].recv, order), e),
         exact'[s] = (exact[s] /\ Rest(ez[s].recv, order)
                        = SubSeq(ez[s].recv, Lseek(ez[s].recv) + 1, Len(ez[s].recv))),
         ng'[s].state = "open" => ~e, eos'[s] = e, frame' # s,
         wire'[s] = wire[s], sent'[s] = sent[s]
  PROVE  Sound(s)'
<1> DEFINE b    == ez[s].recv
           rest == Rest(b, order)
           l    == Lseek(b)
           w    == wire[s]
           k    == sent[s]
           fe   == FrameEvents(b, rest, e)
           v    == events[s]
           n    == Len(v)
<1>1. /\ b \in Seq(Byte) /\ Len(b) \in Nat /\ w \in Seq(Byte) /\ Len(w) \in Nat /\ k \in Nat
      /\ v \in Seq(Event) /\ n \in Nat /\ exact[s] \in BOOLEAN
  BY OfStream
<1>2. Phase(s) /\ Buffered(s) /\ Delivered(s) /\ Ended(s)
  BY DEF Sound
<1>3. ~eos[s] /\ ez[s].object = 1 /\ k <= Len(w) /\ Finals(s) = {}
  BY <1>2 DEF Phase, Ended
<1>4. /\ rest \in Seq(Byte) /\ Len(rest) = Len(b) - l /\ l \in 0 .. Len(b)
  BY <1>1, RestIs
<1>5. l = 0 => rest = b
  BY DEF Rest
<1>6. exact[s] => Len(b) <= k /\ b = SubSeq(w, k - Len(b) + 1, k)
  BY <1>2, <1>3 DEF Buffered
<1>7. /\ fe \in Seq(Event)
      /\ ~e => \A i \in DOMAIN fe : ~Final(fe[i])
      /\ e => /\ Len(fe) \in Nat \ {0}
              /\ \A i \in DOMAIN fe : Final(fe[i]) <=> i = Len(fe)
              /\ fe[Len(fe)].type = IF rest = <<>> THEN "MESSAGE" ELSE "DATALOSS"
  <2>1. Lseek(b) = 0 => rest = b
    BY <1>5
  <2> HIDE DEF b, rest
  <2>2. b \in Seq(Byte) /\ rest \in Seq(Byte)
    BY <1>1, <1>4
  <2> QED BY <2>1, <2>2, FrameFinals
<1>8. \A i \in DOMAIN fe :
        /\ fe[i].type = "MESSAGE" => fe[i].allocated
        /\ \A j \in DOMAIN fe[i].msgs : \E o \in 0 .. Len(b) :
             Complete(b, o) /\ fe[i].msgs[j] = Message(b, o)
  BY <1>1, <1>4, <1>5, FrameMessages
<1>9. /\ v \o fe \in Seq(Event) /\ Len(v \o fe) = n + Len(fe)
      /\ \A i \in 1 .. n + Len(fe) : (v \o fe)[i] = IF i <= n THEN v[i] ELSE fe[i - n]
  <2> HIDE DEF v, fe
  <2> QED BY <1>1, <1>7, ConcatProperties
<1>10. events'[s] = v \o fe /\ ez'[s].recv = rest
       /\ exact'[s] = (exact[s] /\ rest = SubSeq(b, l + 1, Len(b)))
  OBVIOUS
<1> HIDE DEF b, rest, l, w, k, fe, v
<1>11. DOMAIN (v \o fe) = 1 .. n + Len(fe) /\ DOMAIN fe = 1 .. Len(fe) /\ Len(fe) \in Nat
       /\ DOMAIN v = 1 .. n
  BY <1>1, <1>7, <1>9, LenProperties
<1> DEFINE q == v \o fe
<1> HIDE DEF q
<1>12. /\ q \in Seq(Event) /\ Len(q) = n + Len(fe) /\ DOMAIN q = 1 .. n + Len(fe)
       /\ \A i \in 1 .. n + Len(fe) : q[i] = IF i <= n THEN v[i] ELSE fe[i - n]
       /\ events'[s] = q
  BY <1>9, <1>10, <1>11 DEF q
<1> HIDE DEF n
<1>13. \A i \in DOMAIN q : \/ i \in DOMAIN v /\ q[i] = v[i]
                           \/ i - n \in DOMAIN fe /\ q[i] = fe[i - n]
  BY <1>1, <1>11, <1>12 DEF n
<1>14. Phase(s)'
  BY <1>3, <1>2 DEF Phase, w, k
<1>15. Buffered(s)'
  <2>1. Len(rest) <= Window
    <3>1. Len(b) <= Window /\ Window \in Nat
      BY <1>2, BaseAssumption DEF Buffered, b
    <3> QED BY <1>1, <1>4, <3>1
  <2>2. ASSUME exact'[s]
        PROVE  Len(rest) <= k /\ rest = SubSeq(w, k - Len(rest) + 1, k)
    <3>1. exact[s] /\ rest = SubSeq(b, l + 1, Len(b))
      BY <1>10, <2>2
    <3>2. Len(b) <= k /\ b = SubSeq(w, k - Len(b) + 1, k)
      BY <1>6, <3>1
    <3> DEFINE f == k - Len(b)
    <3>3. f \in Nat /\ f <= k /\ b = SubSeq(w, f + 1, k) /\ k - f = Len(b)
      BY <1>1, <3>2
    <3>4. l \in Nat /\ l <= Len(b) /\ Len(b) <= k - f
      BY <1>1, <1>4, <3>3
    <3> HIDE DEF f
    <3>5. SubSeq(SubSeq(w, f + 1, k), l + 1, Len(b)) = SubSeq(w, f + l + 1, f + Len(b))
      BY <1>1, <1>3, <3>3, <3>4, SliceOfSlice
    <3>6. rest = SubSeq(w, f + l + 1, f + Len(b))
      BY <3>1, <3>3, <3>5
    <3>7. f + l + 1 = k - Len(rest) + 1 /\ f + Len(b) = k /\ Len(rest) <= k
      BY <1>1, <1>4, <3>3, <3>4
    <3> QED BY <3>6, <3>7
  <2>3. wire'[s] = w /\ sent'[s] = k
    BY DEF w, k
  <2> QED BY <1>10, <2>1, <2>2, <2>3 DEF Buffered
<1>16. Delivered(s)'
  <2>1. exact'[s] => exact[s]
    BY <1>10
  <2>2. ASSUME NEW i \in DOMAIN v
        PROVE  GoodEvent(w, k, exact'[s], v[i])
    <3>1. GoodEvent(w, k, exact[s], v[i])
      BY <1>2 DEF Delivered, w, k, v
    <3> QED BY <2>1, <3>1 DEF GoodEvent
  <2>3. ASSUME NEW i \in DOMAIN fe
        PROVE  GoodEvent(w, k, exact'[s], fe[i])
    <3>1. ASSUME exact[s], NEW j \in DOMAIN fe[i].msgs
          PROVE  SentIn(w, k, fe[i].msgs[j])
      <4>1. PICK o \in 0 .. Len(b) : Complete(b, o) /\ fe[i].msgs[j] = Message(b, o)
        BY <1>8
      <4> QED BY <1>1, <1>3, <1>6, <3>1, <4>1, MessageSent
    <3> QED BY <1>8, <2>1, <3>1 DEF GoodEvent
  <2>4. \A i \in DOMAIN q : GoodEvent(w, k, exact'[s], q[i])
    BY <1>13, <2>2, <2>3
  <2>5. wire'[s] = w /\ sent'[s] = k /\ events'[s] = q
    BY <1>12 DEF w, k
  <2> QED BY <2>4, <2>5 DEF Delivered
<1>17. Drained(s)'
  <2>1. ASSUME exact'[s]
        PROVE  ~Complete(rest, 0)
    <3>1. rest = SubSeq(b, l + 1, Len(b))
      BY <1>10, <2>1
    <3>2. ~Complete(b, l)
      BY <1>1, ParseStops DEF l
    <3> QED BY <1>1, <1>4, <3>1, <3>2, SuffixComplete
  <2> QED BY <1>10, <2>1 DEF Drained
<1>18. Ended(s)'
  <2>1. \A i \in DOMAIN v : ~Final(v[i])
    BY <1>3 DEF Finals, v
  <2>2. CASE ~e
    <3>1. \A i \in DOMAIN q : ~Final(q[i])
      BY <1>7, <1>13, <2>1, <2>2
    <3>2. Finals(s)' = {}
      BY <1>12, <3>1 DEF Finals
    <3> QED BY <2>2, <3>2 DEF Ended
  <2>3. CASE e
    <3>1. Len(fe) \in Nat \ {0} /\ (\A i \in DOMAIN fe : Final(fe[i]) <=> i = Len(fe))
          /\ fe[Len(fe)].type = IF rest = <<>> THEN "MESSAGE" ELSE "DATALOSS"
      BY <1>7, <2>3
    <3>2. /\ Len(q) \in DOMAIN q /\ q[Len(q)] = fe[Len(fe)] /\ Len(fe) \in DOMAIN fe
      <4>1. n \in Nat
        BY <1>1 DEF n
      <4>2. n + Len(fe) \in 1 .. n + Len(fe) /\ ~(n + Len(fe) <= n) /\ (n + Len(fe)) - n = Len(fe)
        BY <3>1, <4>1
      <4>3. Len(fe) \in 1 .. Len(fe)
        BY <3>1
      <4> QED BY <1>11, <1>12, <4>2, <4>3
    <3>3. ASSUME NEW i \in DOMAIN q
          PROVE  Final(q[i]) <=> i = Len(q)
      <4>1. n \in Nat /\ i \in Nat
        BY <1>1, <1>12 DEF n
      <4>2. CASE i \in DOMAIN v /\ q[i] = v[i]
        <5>1. i <= n
          BY <1>11, <4>2 DEF n
        <5>2. i # Len(q)
          BY <1>12, <3>1, <4>1, <5>1
        <5> QED BY <2>1, <4>2, <5>2
      <4>3. CASE i - n \in DOMAIN fe /\ q[i] = fe[i - n]
        <5>1. i - n = Len(fe) <=> i = Len(q)
          <6>1. Len(q) = n + Len(fe) /\ Len(fe) \in Nat
            BY <1>11, <1>12
          <6> QED BY <4>1, <6>1
        <5> QED BY <3>1, <4>3, <5>1
      <4> QED BY <1>13, <4>2, <4>3
    <3>4. Finals(s)' = {Len(events'[s])}
      <4>1. {i \in DOMAIN q : Final(q[i])} = {Len(q)}
        BY <3>2, <3>3
      <4> QED BY <1>12, <4>1 DEF Finals
    <3>5. events'[s][Len(events'[s])].type = IF ez'[s].recv = <<>> THEN "MESSAGE" ELSE "DATALOSS"
      BY <1>10, <1>12, <3>1, <3>2
    <3> QED BY <2>3, <3>4, <3>5 DEF Ended
  <2> QED BY <2>2, <2>3
<1> QED BY <1>14, <1>15, <1>16, <1>17, <1>18 DEF Sound

LEMMA RecvDataFrameKeeps ==
  ASSUME IInv, NEW s \in Streams, NEW e \in BOOLEAN, RecvDataFrame(s, e)
  PROVE  IInv'
<1>1. TypeOK /\ Ordered /\ Tracked /\ \A t \in Streams : Sound(t)
  BY Unfolded
<1>2. /\ session = "open" /\ frame \in {None, s} /\ ng[s].state = "open" /\ frame' = None
      /\ eos' = [eos EXCEPT ![s] = e]
      /\ ng' = IF e THEN [ng EXCEPT ![s].state = "ended"] ELSE ng
      /\ session' = session /\ lstreams' = lstreams /\ wire' = wire /\ sent' = sent
  BY DEF RecvDataFrame
<1>3. /\ eos \in [Streams -> BOOLEAN] /\ ng \in [Streams -> NgType] /\ ez \in [Streams -> EzType]
      /\ events \in [Streams -> Seq(Event)] /\ exact \in [Streams -> BOOLEAN]
      /\ \A t \in Streams : Len(ez[t].recv) <= Window
  BY <1>1 DEF TypeOK, NgType, EzType
<1>4. /\ eos' \in [Streams -> BOOLEAN] /\ eos'[s] = e
      /\ \A t \in Streams \ {s} : eos'[t] = eos[t]
  BY <1>2, <1>3
<1>5. /\ ng' \in [Streams -> NgType] /\ ng'[s].state = IF e THEN "ended" ELSE "open"
      /\ \A t \in Streams \ {s} : ng'[t] = ng[t]
  <2>1. CASE e
    <3> DEFINE g == [ng[s] EXCEPT !.state = "ended"]
    <3>1. g \in NgType /\ g.state = "ended"
      <4>1. ng[s] \in NgType
        BY <1>3
      <4> QED BY <4>1 DEF NgType
    <3>2. ng' = [ng EXCEPT ![s] = g]
      BY <1>2, <2>1
    <3> HIDE DEF g
    <3> QED BY <1>3, <2>1, <3>1, <3>2
  <2>2. CASE ~e
    BY <1>2, <1>3, <2>2
  <2> QED BY <2>1, <2>2
<1>6. Active' = Active
  <2>1. \A t \in Streams : ng'[t].state \in {"open", "ended", "closing"}
                             <=> ng[t].state \in {"open", "ended", "closing"}
    BY <1>2, <1>5
  <2> QED BY <2>1 DEF Active
<1>7. frame' # s /\ \A t \in Streams \ {s} : frame' # t /\ frame # t
  BY <1>2, NoneAssumption
<1>8. CASE ~ez[s].path
  <2>1. ez' = ez /\ events' = events /\ exact' = exact
    BY <1>8 DEF RecvDataFrame
  <2>2. TypeOK'
    BY <1>1, <1>2, <1>4, <1>5, <2>1 DEF TypeOK, NgType
  <2>3. Ordered' /\ Tracked'
    BY <1>1, <1>2, <1>6, <2>1, ListStays
  <2>4. ASSUME NEW t \in Streams
        PROVE  Sound(t)'
    <3>1. CASE t # s
      <4>1. Same(t)
        BY <1>2, <1>4, <1>5, <2>1, <3>1 DEF Same
      <4> QED BY <1>1, <1>2, <1>7, <3>1, <4>1, SameKeeps
    <3>2. CASE t = s
      <4>1. Phase(s) /\ Buffered(s) /\ Delivered(s) /\ Ended(s)
        BY <1>1 DEF Sound
      <4>2. Phase(s)'
        BY <1>2, <1>4, <1>5, <1>7, <2>1, <4>1 DEF Phase
      <4>3. Buffered(s)'
        BY <1>2, <2>1, <4>1 DEF Buffered
      <4>4. Delivered(s)'
        BY <1>2, <2>1, <4>1 DEF Delivered
      <4>5. Drained(s)'
        BY <1>8, <2>1 DEF Drained
      <4>6. Ended(s)'
        BY <1>8, <2>1, <4>1 DEF Ended, Finals
      <4> QED BY <3>2, <4>2, <4>3, <4>4, <4>5, <4>6 DEF Sound
    <3> QED BY <3>1, <3>2
  <2> QED BY <2>2, <2>3, <2>4, Folded
<1>9. CASE ez[s].path
  <2> DEFINE b == ez[s].recv
  <2>1. PICK order \in CopyOrders :
          /\ ez' = [ez EXCEPT ![s].recv = Rest(b, order)]
          /\ events' = [events EXCEPT ![s] = @ \o FrameEvents(b, Rest(b, order), e)]
          /\ exact' = [exact EXCEPT ![s] =
                         @ /\ Rest(b, order) = SubSeq(b, Lseek(b) + 1, Len(b))]
    BY <1>9 DEF RecvDataFrame, Rest
  <2> DEFINE rest == Rest(b, order)
             evs  == events[s] \o FrameEvents(b, rest, e)
             x    == (exact[s] /\ rest = SubSeq(b, Lseek(b) + 1, Len(b)))
             o    == [ez[s] EXCEPT !.recv = rest]
  <2>2. b \in Seq(Byte) /\ events[s] \in Seq(Event) /\ ez[s] \in EzType /\ Len(b) \in Nat
        /\ Len(b) <= Window
    BY <1>1, <1>3, OfStream DEF EzType
  <2>3. rest \in Seq(Byte) /\ Len(rest) = Len(b) - Lseek(b) /\ Lseek(b) \in 0 .. Len(b)
    <3> HIDE DEF b
    <3> QED BY <2>2, RestIs
  <2>4. Lseek(b) = 0 => rest = b
    BY DEF Rest
  <2>5. evs \in Seq(Event)
    <3>1. FrameEvents(b, rest, e) \in Seq(Event)
      <4> HIDE DEF b, rest
      <4> QED BY <2>2, <2>3, <2>4, FrameFinals
    <3> DEFINE fe == FrameEvents(b, rest, e)
    <3> HIDE DEF fe
    <3>2. events[s] \o fe \in Seq(Event)
      BY <2>2, <3>1, ConcatProperties DEF fe
    <3> QED BY <3>2 DEF fe
  <2>6. x \in BOOLEAN
    BY <1>3
  <2>7. Len(rest) <= Window
    <3>1. Window \in Nat
      BY BaseAssumption
    <3> HIDE DEF b, rest
    <3> QED BY <2>2, <2>3, <3>1
  <2>8. /\ ez' = [ez EXCEPT ![s] = o] /\ events' = [events EXCEPT ![s] = evs]
        /\ exact' = [exact EXCEPT ![s] = x]
    BY <2>1
  <2>9. o \in EzType /\ o.recv = rest /\ o.object = ez[s].object /\ o.path = ez[s].path
    <3> HIDE DEF rest, b
    <3> QED BY <2>2, <2>3 DEF EzType
  <2> HIDE DEF o, evs, x
  <2>10. /\ ez' \in [Streams -> EzType] /\ ez'[s] = o
         /\ \A t \in Streams \ {s} : ez'[t] = ez[t]
    BY <1>3, <2>8, <2>9
  <2>11. /\ events' \in [Streams -> Seq(Event)] /\ events'[s] = evs
         /\ \A t \in Streams \ {s} : events'[t] = events[t]
    BY <1>3, <2>5, <2>8
  <2>12. /\ exact' \in [Streams -> BOOLEAN] /\ exact'[s] = x
         /\ \A t \in Streams \ {s} : exact'[t] = exact[t]
    BY <1>3, <2>6, <2>8
  <2>13. TypeOK'
    <3>1. \A t \in Streams : Len(ez'[t].recv) <= Window
      <4>1. Len(ez'[s].recv) <= Window
        BY <2>7, <2>9, <2>10
      <4> QED BY <1>3, <2>10, <4>1
    <3>2. /\ session' \in {"open", "freed", "aborted"} /\ frame' \in Streams \cup {None}
          /\ lstreams' \in Seq(Streams \X (1 .. 2))
          /\ wire' \in [Streams -> Seq(Byte)] /\ sent' \in [Streams -> Nat]
          /\ \A t \in Streams : wire'[t] \in Wires[t] \cup {<<>>}
      BY <1>1, <1>2 DEF TypeOK
    <3> QED BY <1>4, <1>5, <2>10, <2>11, <2>12, <3>1, <3>2 DEF TypeOK, NgType, EzType
  <2>14. Ordered' /\ Tracked'
    <3>1. \A t \in Active : ez'[t].object = ez[t].object
      BY <2>9, <2>10 DEF Active
    <3> QED BY <1>1, <1>2, <1>6, <3>1, ListStays
  <2>15. ASSUME NEW t \in Streams
         PROVE  Sound(t)'
    <3>1. CASE t # s
      <4>1. Same(t)
        BY <1>2, <1>4, <1>5, <2>10, <2>11, <2>12, <3>1 DEF Same
      <4> QED BY <1>1, <1>2, <1>7, <3>1, <4>1, SameKeeps
    <3>2. CASE t = s
      <4>1. /\ ez'[s].object = ez[s].object /\ ez'[s].path = ez[s].path
            /\ ez'[s].recv = Rest(ez[s].recv, order)
        BY <2>9, <2>10
      <4>2. events'[s] = events[s] \o FrameEvents(ez[s].recv, Rest(ez[s].recv, order), e)
        BY <2>11 DEF evs
      <4>3. exact'[s] = (exact[s] /\ Rest(ez[s].recv, order)
                           = SubSeq(ez[s].recv, Lseek(ez[s].recv) + 1, Len(ez[s].recv)))
        BY <2>12 DEF x
      <4>4. /\ ng'[s].state \in {"open", "ended"} /\ (ng'[s].state = "open" => ~e)
            /\ session' = "open" /\ wire'[s] = wire[s] /\ sent'[s] = sent[s]
        BY <1>2, <1>5
      <4> HIDE DEF b, rest
      <4>5. Sound(s)'
        BY <1>1, <1>2, <1>4, <1>7, <1>9, <4>1, <4>2, <4>3, <4>4, ServedFrame
      <4> QED BY <3>2, <4>5
    <3> QED BY <3>1, <3>2
  <2> QED BY <2>13, <2>14, <2>15, Folded
<1> QED BY <1>8, <1>9

-----------------------------------------------------------------------------
(* Theorems *)

LEMMA StepKeeps ==
  ASSUME IInv, [Next]_vars
  PROVE  IInv'
<1>1. ASSUME NEW s \in Streams, NEW head \in Fields, NEW e \in BOOLEAN, NEW w \in Wires[s],
             RecvHeaders(s, head, e, w)
      PROVE  IInv'
  BY <1>1, RecvHeadersKeeps
<1>2. ASSUME NEW s \in Streams, TooManyHeaders(s)
      PROVE  IInv'
  BY <1>2, TooManyHeadersKeeps
<1>3. ASSUME NEW s \in Streams, RecvTrailers(s)
      PROVE  IInv'
  BY <1>3, RecvTrailersKeeps
<1>4. ASSUME NEW s \in Streams, NEW n \in 1 .. Len(wire[s]) - sent[s], RecvChunk(s, n)
      PROVE  IInv'
  BY <1>4, RecvChunkKeeps
<1>5. ASSUME NEW s \in Streams, NEW e \in BOOLEAN, RecvDataFrame(s, e)
      PROVE  IInv'
  BY <1>5, RecvDataFrameKeeps
<1>6. ASSUME NEW s \in Streams, StreamClosed(s)
      PROVE  IInv'
  BY <1>6, StreamClosedKeeps
<1>7. ASSUME NEW s \in Streams, ClientResets(s)
      PROVE  IInv'
  BY <1>7, ClientResetsKeeps
<1>8. ASSUME NEW s \in Streams, AppEnds(s)
      PROVE  IInv'
  BY <1>8, AppEndsKeeps
<1>9. CASE Hangup
  BY <1>9, HangupKeeps
<1>10. CASE Gone \/ UNCHANGED vars
  BY <1>10, StutterKeeps DEF Gone
<1> QED BY <1>1, <1>2, <1>3, <1>4, <1>5, <1>6, <1>7, <1>8, <1>9, <1>10 DEF Next

\* Every reachable state satisfies the inductive invariant.
THEOREM Invariance == Spec => []IInv
<1>1. Init => IInv
  BY InitInv
<1>2. IInv /\ [Next]_vars => IInv'
  BY StepKeeps
<1> QED BY <1>1, <1>2, PTL DEF Spec


\* The types of the receive path's state.
THEOREM TypeCorrect == Spec => []TypeOK
<1>1. IInv => TypeOK
  BY DEF IInv
<1> QED BY <1>1, Invariance, PTL

\* However frames, chunks, resets and trailers come, on_begin_headers and
\* on_stream_close_callback keep lstreams the list of the objects of the
\* streams nghttp2 has open, each once.
THEOREM ListExact == Spec => []StreamsTracked
<1>1. IInv => StreamsTracked
  BY DEF IInv
<1> QED BY <1>1, Invariance, PTL

\* recv_data holds the last bytes received, and on_data_chunk_recv_callback
\* never writes past its end, for every window and every byte sequence.
THEOREM BufferHoldsLastBytes == Spec => []BufferIsSuffix
<1>1. IInv => BufferIsSuffix
  BY Properties
<1> QED BY <1>1, Invariance, PTL

\* Every message parse_grpc_message pushes is a slice of what the client sent,
\* in a list that has been allocated.
THEOREM MessagesAreVerbatim == Spec => []DeliveredVerbatim
<1>1. IInv => DeliveredVerbatim
  BY Properties
<1> QED BY <1>1, Invariance, PTL

\* on_frame_recv_data leaves no complete message at the front of the buffer.
THEOREM NothingLeftBehind == Spec => []NoCompleteMessageLeft
<1>1. IInv => NoCompleteMessageLeft
  BY Properties
<1> QED BY <1>1, Invariance, PTL

\* on_frame_recv_data writes one final event for a stream the client ended, as
\* the last, and says in it whether every byte was consumed.
THEOREM OneFinalEvent == Spec => []FinalEventOnce
<1>1. IInv => FinalEventOnce
  BY Properties
<1> QED BY <1>1, Invariance, PTL

\* The assert of on_stream_close_callback fails only for a client that ends a
\* stream with trailers.
THEOREM AssertNeedsTrailers == ~Trailers => (Spec => []NoAssertFails)
<1> SUFFICES ASSUME ~Trailers
             PROVE  Spec => []NoAssertFails
  OBVIOUS
<1>1. Init => NoAssertFails
  BY DEF Init, NoAssertFails
<1>2. IInv /\ NoAssertFails /\ [Next]_vars => NoAssertFails'
  <2> SUFFICES ASSUME IInv, NoAssertFails, [Next]_vars
               PROVE  NoAssertFails'
    OBVIOUS
  <2>1. ASSUME NEW s \in Streams, session = "open", ng[s].state # "idle"
        PROVE  ez[s].object = 1
    <3>1. TypeOK /\ Phase(s)
      BY Unfolded DEF Sound
    <3>2. ez[s].object \in 0 .. 2 /\ ez[s].object >= 1 /\ ez[s].object # 2
      BY <2>1, <3>1, OfStream DEF Phase
    <3> QED BY <3>2
  <2>2. ASSUME NEW s \in Streams, StreamClosed(s) \/ ClientResets(s)
        PROVE  session' = "open"
    <3>1. session = "open" /\ ng[s].state # "idle"
      BY <2>2 DEF StreamClosed, ClientResets
    <3> QED BY <2>1, <2>2, <3>1, StreamClosedKeeps, ClientResetsKeeps
  <2>3. ASSUME NEW s \in Streams, NEW head \in Fields, NEW e \in BOOLEAN, NEW w \in Wires[s],
               RecvHeaders(s, head, e, w)
        PROVE  session' = session
    BY <2>3 DEF RecvHeaders
  <2>4. ASSUME NEW s \in Streams,
               TooManyHeaders(s) \/ RecvTrailers(s) \/ AppEnds(s)
               \/ (\E e \in BOOLEAN : RecvDataFrame(s, e))
               \/ (\E n \in 1 .. Len(wire[s]) - sent[s] : RecvChunk(s, n))
        PROVE  session' \in {session, "freed"}
    BY <2>4 DEF TooManyHeaders, RecvTrailers, AppEnds, RecvDataFrame, RecvChunk, FreeSession
  <2>5. CASE Hangup
    BY <2>5 DEF Hangup, FreeSession, NoAssertFails
  <2>6. CASE Gone \/ UNCHANGED vars
    BY <2>6 DEF Gone, vars, NoAssertFails
  <2> QED BY <2>2, <2>3, <2>4, <2>5, <2>6 DEF Next, NoAssertFails
<1> QED BY <1>1, <1>2, Invariance, PTL DEF Spec

\* When memcpy copies upwards, as memmove would, no byte of a buffer is ever
\* out of place, and what the invariants say of exact streams holds of all.
THEOREM CopyingUpIsExact == CopyOrders = {"up"} => (Spec => [](\A s \in Streams : exact[s]))
<1> DEFINE Exact == \A s \in Streams : exact[s]
<1> SUFFICES ASSUME CopyOrders = {"up"}
             PROVE  Spec => []Exact
  OBVIOUS
<1>1. Init => Exact
  BY DEF Init
<1>2. IInv /\ Exact /\ [Next]_vars => Exact'
  <2> SUFFICES ASSUME IInv, Exact, [Next]_vars
               PROVE  Exact'
    OBVIOUS
  <2>1. ASSUME NEW s \in Streams, NEW e \in BOOLEAN, RecvDataFrame(s, e)
        PROVE  Exact'
    <3>1. exact \in [Streams -> BOOLEAN] /\ ez[s].recv \in Seq(Byte)
      <4>1. TypeOK
        BY DEF IInv
      <4> QED BY <4>1, OfStream DEF TypeOK
    <3>2. CASE ~ez[s].path
      BY <2>1, <3>2 DEF RecvDataFrame
    <3>3. CASE ez[s].path
      <4> DEFINE b == ez[s].recv
      <4>1. PICK order \in CopyOrders :
              exact' = [exact EXCEPT ![s] =
                          @ /\ Rest(b, order) = SubSeq(b, Lseek(b) + 1, Len(b))]
        BY <2>1, <3>3 DEF RecvDataFrame, Rest
      <4>2. order = "up"
        OBVIOUS
      <4>3. Rest(b, order) = SubSeq(b, Lseek(b) + 1, Len(b))
        <5>1. CASE Lseek(b) = 0
          <6>1. SubSeq(b, 1, Len(b)) = b /\ Lseek(b) + 1 = 1
            BY <3>1, <5>1, SubSeqFull
          <6> QED BY <5>1, <6>1 DEF Rest
        <5>2. CASE Lseek(b) # 0
          BY <4>2, <5>2 DEF Rest, Copied
        <5> QED BY <5>1, <5>2
      <4> QED BY <3>1, <4>1, <4>3
    <3> QED BY <3>2, <3>3
  <2>2. ASSUME NEW s \in Streams, NEW head \in Fields, NEW e \in BOOLEAN, NEW w \in Wires[s],
               RecvHeaders(s, head, e, w)
        PROVE  exact' = exact
    BY <2>2 DEF RecvHeaders
  <2>3. ASSUME NEW s \in Streams,
               TooManyHeaders(s) \/ RecvTrailers(s) \/ AppEnds(s)
               \/ StreamClosed(s) \/ ClientResets(s)
               \/ (\E n \in 1 .. Len(wire[s]) - sent[s] : RecvChunk(s, n))
        PROVE  exact' = exact
    BY <2>3 DEF TooManyHeaders, RecvTrailers, AppEnds, StreamClosed, ClientResets, RecvChunk,
                client
  <2>4. CASE Hangup
    BY <2>4 DEF Hangup, client
  <2>5. CASE Gone \/ UNCHANGED vars
    BY <2>5 DEF Gone, vars
  <2> QED BY <2>1, <2>2, <2>3, <2>4, <2>5 DEF Next
<1> HIDE DEF Exact
<1>3. Spec => []Exact
  BY <1>1, <1>2, Invariance, PTL DEF Spec
<1> QED BY <1>3 DEF Exact
=============================================================================
