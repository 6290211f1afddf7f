---------------------------- MODULE EventsProofs ----------------------------
(***************************************************************************)
(* Proofs about the event store, for every block size and every set of      *)
(* events: the store is a first-in first-out stream. The second half is     *)
(* about the linked list, which shares nothing with the store: it is a      *)
(* double-ended queue, for any lists, data and size of the heap.            *)
(*                                                                          *)
(* The inductive invariant of the store says which written event every used *)
(* cell holds (CellsHoldUnread); a read then hands out the next BLOCK or    *)
(* windex events of `written`, which is what OutputIsPrefix needs.          *)
(***************************************************************************)
EXTENDS Events, List, Integers, FiniteSetTheorems, SequenceTheorems, WellFoundedInduction, TLAPS

\* Blocks do not overlap: the block after block a starts BLOCK cells later.
LEMMA BlockOffsets ==
  ASSUME NEW a \in Int, NEW b \in Int, NEW d \in Nat, a < b
  PROVE  /\ a * d \in Int /\ b * d \in Int
         /\ a * d + d <= b * d
<1>1. PICK m \in Nat : b = a + 1 + m
    <2>1. b - a - 1 \in Nat /\ b = a + 1 + (b - a - 1)
        OBVIOUS
    <2> QED
        BY <2>1
<1>2. m * d \in Nat
    BY <1>1
<1>3. b * d = a * d + d + m * d
    BY <1>1, SMT
<1>4. a * d \in Int /\ b * d \in Int
    OBVIOUS
<1> DEFINE x == a * d
           y == b * d
           z == m * d
<1> HIDE DEF x, y, z
<1>5. x \in Int /\ y \in Int /\ z \in Nat /\ y = x + d + z
    BY <1>2, <1>3, <1>4 DEF x, y, z
<1>6. x + d <= y
    BY <1>5
<1> QED
    BY <1>4, <1>6 DEF x, y

\* Only ezgrpc2_events_free disposes, and nothing is read after it.
DisposedOnlyByFree == disposed # <<>> => freed

StoreInv ==
    /\ TypeOK
    /\ WindexMeansLastBlock
    /\ CellsHoldUnread
    /\ OutputIsPrefix
    /\ DisposedOnlyByFree

\* A new store is empty.
LEMMA InitStoreInv == Init => StoreInv
<1> SUFFICES ASSUME Init PROVE StoreInv
    OBVIOUS
<1>1. TypeOK
  <2>1. /\ bevents \in Seq(Block) /\ written \in Seq(Event)
        /\ output \in Seq(Event \cup {Garbage}) /\ disposed \in Seq(Event \cup {Garbage})
      BY EmptySeq DEF Init
  <2>2. windex \in 0 .. BLOCK
      BY BLOCKAssumption DEF Init
  <2>3. freed \in BOOLEAN
      BY DEF Init
  <2> QED
      BY <2>1, <2>2, <2>3 DEF TypeOK
<1>2. WindexMeansLastBlock
    BY BLOCKAssumption DEF Init, WindexMeansLastBlock
<1>3. CellsHoldUnread
    BY DEF Init, CellsHoldUnread, HandedOut, UnreadCount
<1>4. OutputIsPrefix /\ DisposedOnlyByFree
    BY DEF Init, OutputIsPrefix, BeginsWith, DisposedOnlyByFree
<1> QED
    BY <1>1, <1>2, <1>3, <1>4 DEF StoreInv

\* A write stores the event in the cell that follows the last used one.
LEMMA WritePreserves ==
  ASSUME StoreInv, NEW e \in Event, Write(e)
  PROVE  StoreInv'
<1> USE DEF StoreInv
<1>0. /\ written \in Seq(Event) /\ output \in Seq(Event \cup {Garbage})
      /\ disposed \in Seq(Event \cup {Garbage}) /\ bevents \in Seq(Block)
      /\ windex \in 0 .. BLOCK /\ BLOCK \in Nat \ {0} /\ freed \in BOOLEAN
    BY BLOCKAssumption DEF TypeOK
<1>1. /\ written' = Append(written, e) /\ output' = output
      /\ disposed' = disposed /\ freed' = freed
    BY DEF Write
<1>2. /\ Len(written') = Len(written) + 1
      /\ written' \in Seq(Event)
      /\ \A i \in 1 .. Len(written) : written'[i] = written[i]
      /\ written'[Len(written) + 1] = e
    BY <1>0, <1>1
<1>3. HandedOut' = HandedOut /\ HandedOut \in Nat
    BY <1>0, <1>1 DEF HandedOut
<1>4. OutputIsPrefix'
  <2>1. output \o disposed \in Seq(Event \cup {Garbage})
      BY <1>0
  <2> QED
      BY <1>0, <1>1, <1>2, <2>1 DEF OutputIsPrefix, BeginsWith
<1>5. DisposedOnlyByFree'
    BY <1>1 DEF DisposedOnlyByFree
<1>6. CASE WriteNewBlock(e)
  <2> DEFINE b == [[c \in Cells |-> Garbage] EXCEPT ![0] = e]
  <2>1. /\ windex = BLOCK /\ windex' = 1 /\ bevents' = Append(bevents, b)
      BY <1>6 DEF WriteNewBlock
  <2>2. b \in Block /\ b[0] = e
      BY <1>0 DEF Block, Cells
  <2> HIDE DEF b
  <2>3. /\ bevents' \in Seq(Block) /\ Len(bevents') = Len(bevents) + 1
        /\ \A k \in 1 .. Len(bevents) : bevents'[k] = bevents[k]
        /\ bevents'[Len(bevents) + 1] = b
        /\ bevents' # <<>>
      BY <1>0, <2>1, <2>2, AppendProperties
  <2>4. TypeOK' /\ WindexMeansLastBlock'
      BY <1>0, <1>1, <1>2, <2>1, <2>3 DEF TypeOK, WindexMeansLastBlock
  <2>5. Len(written) = HandedOut + Len(bevents) * BLOCK
    <3>1. CASE bevents = <<>>
        BY <1>0, <1>3, <3>1 DEF CellsHoldUnread, UnreadCount
    <3>2. CASE bevents # <<>>
      <4>1. Len(written) = HandedOut + (Len(bevents) - 1) * BLOCK + BLOCK
          BY <1>0, <1>3, <2>1, <3>2 DEF CellsHoldUnread, UnreadCount
      <4>2. Len(bevents) \in Nat
          BY <1>0
      <4> QED
          BY <1>0, <1>3, <4>1, <4>2, SMT
    <3> QED
        BY <3>1, <3>2
  <2>6. Len(written') = HandedOut' + UnreadCount'
      BY <1>0, <1>2, <1>3, <2>1, <2>3, <2>5 DEF UnreadCount
  <2>7. ASSUME NEW k \in 1 .. Len(bevents'), NEW c \in Cells,
               k < Len(bevents') \/ c < windex'
        PROVE  bevents'[k][c] = written'[HandedOut' + (k - 1) * BLOCK + c + 1]
    <3>1. CASE k = Len(bevents')
      <4>1. c = 0 /\ k - 1 = Len(bevents)
          BY <1>0, <2>1, <2>3, <2>7, <3>1 DEF Cells
      <4> QED
          BY <1>0, <1>2, <1>3, <2>2, <2>3, <2>5, <3>1, <4>1
    <3>2. CASE k # Len(bevents')
      <4>1. k \in 1 .. Len(bevents) /\ c < windex
          BY <1>0, <2>1, <2>3, <3>2 DEF Cells
      <4>2. bevents[k][c] = written[HandedOut + (k - 1) * BLOCK + c + 1]
          BY <4>1 DEF CellsHoldUnread
      <4>3. HandedOut + (k - 1) * BLOCK + c + 1 \in 1 .. Len(written)
        <5> DEFINE x == (k - 1) * BLOCK
                   y == Len(bevents) * BLOCK
        <5>1. x \in Int /\ y \in Int /\ x + BLOCK <= y
          <6>1. k - 1 \in Int /\ Len(bevents) \in Int /\ k - 1 < Len(bevents)
              BY <1>0, <4>1
          <6> QED
              BY <1>0, <6>1, BlockOffsets
        <5>2. x >= 0
            BY <1>0, <4>1, SMT
        <5>3. Len(written) = HandedOut + y
            BY <2>5
        <5> HIDE DEF y
        <5>4. HandedOut + x + c + 1 \in 1 .. Len(written)
          <6> HIDE DEF x
          <6> QED
              BY <1>0, <1>3, <5>1, <5>2, <5>3 DEF Cells
        <5> QED
            BY <5>4
      <4> QED
          BY <1>2, <1>3, <2>3, <4>1, <4>2, <4>3
    <3> QED
        BY <3>1, <3>2
  <2> QED
      BY <1>4, <1>5, <2>4, <2>6, <2>7 DEF CellsHoldUnread
<1>7. CASE WriteInBlock(e)
  <2>1. /\ windex # BLOCK /\ windex' = windex + 1
        /\ bevents' = [bevents EXCEPT ![Len(bevents)][windex] = e]
      BY <1>7 DEF WriteInBlock
  <2>2. bevents # <<>> /\ windex > 0 /\ windex < BLOCK
      BY <1>0, <2>1 DEF WindexMeansLastBlock
  <2> DEFINE n == Len(bevents)
  <2>3. n \in Nat \ {0} /\ n \in DOMAIN bevents /\ bevents[n] \in Block
      BY <1>0, <2>2
  <2>4. /\ bevents' \in Seq(Block) /\ Len(bevents') = n
        /\ \A k \in 1 .. n - 1 : bevents'[k] = bevents[k]
        /\ bevents'[n] = [bevents[n] EXCEPT ![windex] = e]
        /\ bevents' # <<>>
    <3>1. [bevents[n] EXCEPT ![windex] = e] \in Block
        BY <2>2, <2>3, <1>0 DEF Block, Cells
    <3> QED
        BY <1>0, <2>1, <2>3, <3>1
  <2>5. TypeOK' /\ WindexMeansLastBlock'
      BY <1>0, <1>1, <1>2, <2>1, <2>2, <2>4 DEF TypeOK, WindexMeansLastBlock
  <2>6. Len(written) = HandedOut + (n - 1) * BLOCK + windex
      BY <1>0, <1>3, <2>2 DEF CellsHoldUnread, UnreadCount
  <2>7. Len(written') = HandedOut' + UnreadCount'
    <3> DEFINE x == (n - 1) * BLOCK
    <3>1. x \in Int
        BY <1>0, <2>3
    <3>2. UnreadCount' = x + windex'
        BY <2>4 DEF UnreadCount
    <3>3. Len(written) = HandedOut + x + windex
        BY <2>6
    <3>4. windex' = windex + 1 /\ windex \in Int
        BY <1>0, <2>1
    <3> HIDE DEF x
    <3> QED
        BY <1>2, <1>3, <3>1, <3>2, <3>3, <3>4
  <2>8. ASSUME NEW k \in 1 .. Len(bevents'), NEW c \in Cells,
               k < Len(bevents') \/ c < windex'
        PROVE  bevents'[k][c] = written'[HandedOut' + (k - 1) * BLOCK + c + 1]
    <3> DEFINE x == (k - 1) * BLOCK
    <3>0. x \in Nat /\ k \in 1 .. n
        BY <1>0, <2>3, <2>4, SMT
    <3>1. CASE k = n /\ c = windex
        BY <1>0, <1>2, <1>3, <2>3, <2>4, <2>6, <3>1 DEF Block, Cells
    <3>2. CASE ~(k = n /\ c = windex)
      <4>1. k < n \/ c < windex
          BY <1>0, <2>1, <2>3, <2>4, <2>8, <3>0, <3>2 DEF Cells
      <4>2. bevents[k][c] = written[HandedOut + (k - 1) * BLOCK + c + 1]
          BY <3>0, <4>1 DEF CellsHoldUnread
      <4>3. bevents'[k][c] = bevents[k][c]
        <5>1. CASE k = n
            BY <1>0, <2>3, <2>4, <3>2, <5>1 DEF Block, Cells
        <5>2. CASE k # n
          <6>1. k \in 1 .. n - 1
              BY <2>3, <3>0, <5>2
          <6> QED
              BY <2>4, <6>1
        <5> QED
            BY <5>1, <5>2
      <4>4. HandedOut + x + c + 1 \in 1 .. Len(written)
        <5> DEFINE y == (n - 1) * BLOCK
        <5>1. y \in Int /\ Len(written) = HandedOut + y + windex
            BY <1>0, <2>3, <2>6
        <5>2. CASE k = n
          <6>1. x = y /\ c < windex
              BY <4>1, <5>2
          <6> HIDE DEF x, y
          <6> QED
              BY <1>0, <1>3, <3>0, <5>1, <6>1 DEF Cells
        <5>3. CASE k < n
          <6>1. x + BLOCK <= y
            <7>1. k - 1 \in Int /\ n - 1 \in Int /\ k - 1 < n - 1
                BY <2>3, <3>0, <5>3
            <7> QED
                BY <1>0, <7>1, BlockOffsets
          <6> HIDE DEF x, y
          <6> QED
              BY <1>0, <1>3, <3>0, <5>1, <6>1 DEF Cells
        <5> QED
            BY <2>3, <3>0, <5>2, <5>3
      <4> QED
          BY <1>2, <1>3, <4>2, <4>3, <4>4
    <3> QED
        BY <3>1, <3>2
  <2> QED
      BY <1>4, <1>5, <2>5, <2>7, <2>8 DEF CellsHoldUnread
<1> QED
    BY <1>6, <1>7 DEF Write

\* The cells a read hands out are the oldest events not read yet.
LEMMA PrefixIsNext ==
  ASSUME StoreInv, bevents # <<>>
  PROVE  /\ ReadLen \in 1 .. BLOCK
         /\ Prefix(Head(bevents), ReadLen) \in Seq(Event \cup {Garbage})
         /\ Len(Prefix(Head(bevents), ReadLen)) = ReadLen
         /\ HandedOut + ReadLen <= Len(written)
         /\ \A i \in 1 .. ReadLen :
               Prefix(Head(bevents), ReadLen)[i] = written[HandedOut + i]
<1> USE DEF StoreInv
<1>0. /\ written \in Seq(Event) /\ output \in Seq(Event \cup {Garbage})
      /\ disposed \in Seq(Event \cup {Garbage}) /\ bevents \in Seq(Block)
      /\ windex \in 1 .. BLOCK /\ BLOCK \in Nat \ {0} /\ HandedOut \in Nat
    BY BLOCKAssumption DEF TypeOK, WindexMeansLastBlock, HandedOut
<1> DEFINE n == Len(bevents)
           len == ReadLen
           blk == Head(bevents)
<1>1. n \in Nat \ {0} /\ blk = bevents[1] /\ blk \in Block
    BY <1>0
<1>2. len \in 1 .. BLOCK
    BY <1>0 DEF ReadLen
<1>3. \A i \in 1 .. len : i - 1 \in Cells /\ blk[i - 1] \in Event \cup {Garbage}
    BY <1>0, <1>1, <1>2 DEF Block, Cells
<1>4. /\ Prefix(blk, len) \in Seq(Event \cup {Garbage})
      /\ Len(Prefix(blk, len)) = len
      /\ \A i \in 1 .. len : Prefix(blk, len)[i] = blk[i - 1]
  <2> HIDE DEF blk, len
  <2> QED
      BY <1>2, <1>3 DEF Prefix
<1>5. \A i \in 1 .. len : blk[i - 1] = written[HandedOut + i]
  <2> TAKE i \in 1 .. len
  <2>1. 1 < n \/ i - 1 < windex
    <3>1. CASE n = 1
      <4>1. len = windex
          BY <3>1 DEF ReadLen
      <4> HIDE DEF len
      <4> QED
          BY <1>0, <1>2, <4>1
    <3>2. CASE n # 1
      <4>1. 1 < n
        <5> HIDE DEF n
        <5> QED
            BY <1>1, <3>2
      <4> QED
          BY <4>1
    <3> QED
        BY <3>1, <3>2
  <2>2. bevents[1][i - 1] = written[HandedOut + (1 - 1) * BLOCK + (i - 1) + 1]
      BY <1>1, <1>3, <2>1 DEF CellsHoldUnread
  <2>3. HandedOut + (1 - 1) * BLOCK + (i - 1) + 1 = HandedOut + i
      BY <1>0, <1>2
  <2> QED
      BY <1>1, <2>2, <2>3
<1>6. HandedOut + len <= Len(written)
  <2>1. Len(written) = HandedOut + (n - 1) * BLOCK + windex
      BY <1>0 DEF CellsHoldUnread, UnreadCount
  <2>2. CASE n = 1
      BY <1>0, <2>1, <2>2 DEF ReadLen
  <2>3. CASE n # 1
    <3> DEFINE y == (n - 1) * BLOCK
    <3>1. y \in Int /\ BLOCK <= y
      <4>1. 0 \in Int /\ n - 1 \in Int /\ 0 < n - 1
          BY <1>1, <2>3
      <4>2. y \in Int /\ 0 * BLOCK \in Int /\ 0 * BLOCK + BLOCK <= y
          BY <1>0, <4>1, BlockOffsets
      <4>3. 0 * BLOCK = 0
          BY <1>0
      <4> HIDE DEF y
      <4> QED
          BY <1>0, <4>2, <4>3
    <3>2. len = BLOCK
        BY <2>3 DEF ReadLen
    <3> HIDE DEF y, len
    <3> QED
        BY <1>0, <2>1, <3>1, <3>2 DEF y
  <2> QED
      BY <2>2, <2>3
<1> QED
    BY <1>2, <1>4, <1>5, <1>6

\* What is left after a read is one block less, HandedOut having moved on by
\* the length of the block that was popped.
LEMMA PopPreserves ==
  ASSUME StoreInv, bevents # <<>>,
         bevents' = Tail(bevents), windex' = NextWindex, written' = written,
         HandedOut' = HandedOut + ReadLen
  PROVE  WindexMeansLastBlock' /\ CellsHoldUnread'
         /\ bevents' \in Seq(Block) /\ windex' \in 0 .. BLOCK
<1> USE DEF StoreInv
<1>0. /\ written \in Seq(Event) /\ output \in Seq(Event \cup {Garbage})
      /\ disposed \in Seq(Event \cup {Garbage}) /\ bevents \in Seq(Block)
      /\ windex \in 1 .. BLOCK /\ BLOCK \in Nat \ {0} /\ HandedOut \in Nat
    BY BLOCKAssumption DEF TypeOK, WindexMeansLastBlock, HandedOut
<1> DEFINE n == Len(bevents)
<1>1. n \in Nat \ {0}
    BY <1>0
<1>2. /\ bevents' \in Seq(Block) /\ Len(bevents') = n - 1
      /\ \A k \in 1 .. n - 1 : bevents'[k] = bevents[k + 1]
      /\ (bevents' = <<>>) <=> (n = 1)
  <2>1. /\ bevents' \in Seq(Block) /\ Len(bevents') = n - 1
        /\ \A k \in 1 .. n - 1 : bevents'[k] = bevents[k + 1]
      BY <1>0, <1>1, HeadTailProperties
  <2>2. ASSUME n = 1 PROVE bevents' = <<>>
      BY <2>1, <2>2, EmptySeq
  <2>3. ASSUME bevents' = <<>> PROVE n = 1
    <3>1. Len(bevents') = 0
        BY <2>3, EmptySeq
    <3> QED
        BY <1>1, <2>1, <3>1
  <2> QED
      BY <2>1, <2>2, <2>3
<1>3. windex' \in 1 .. BLOCK /\ WindexMeansLastBlock'
    BY <1>0, <1>2 DEF NextWindex, WindexMeansLastBlock
<1>4. Len(written) = HandedOut + (n - 1) * BLOCK + windex
    BY <1>0 DEF CellsHoldUnread, UnreadCount
<1>5. CASE n = 1
  <2>1. Len(written') = HandedOut' + UnreadCount'
      BY <1>0, <1>2, <1>4, <1>5 DEF UnreadCount, ReadLen
  <2> QED
      BY <1>2, <1>3, <1>5, <2>1 DEF CellsHoldUnread
<1>6. CASE n # 1
  <2>1. ReadLen = BLOCK /\ windex' = windex
      BY <1>6 DEF ReadLen, NextWindex
  <2>2. Len(written') = HandedOut' + UnreadCount'
    <3> DEFINE x == (n - 2) * BLOCK
           y == (n - 1) * BLOCK
    <3>1. x \in Int /\ y = x + BLOCK
        BY <1>0, <1>1, SMT
    <3>2. UnreadCount' = x + windex'
      <4>1. Len(bevents') - 1 = n - 2
          BY <1>1, <1>2
      <4> QED
          BY <1>2, <1>6, <4>1 DEF UnreadCount
    <3>3. Len(written) = HandedOut + y + windex
        BY <1>4
    <3> HIDE DEF x, y
    <3> QED
        BY <1>0, <2>1, <3>1, <3>2, <3>3
  <2>3. ASSUME NEW k \in 1 .. Len(bevents'), NEW c \in Cells,
               k < Len(bevents') \/ c < windex'
        PROVE  bevents'[k][c] = written'[HandedOut' + (k - 1) * BLOCK + c + 1]
    <3>1. k + 1 \in 1 .. n /\ (k + 1 < n \/ c < windex)
        BY <1>1, <1>2, <2>1, <2>3
    <3>2. bevents[k + 1][c] = written[HandedOut + ((k + 1) - 1) * BLOCK + c + 1]
        BY <3>1 DEF CellsHoldUnread
    <3>3. HandedOut + ((k + 1) - 1) * BLOCK + c + 1
            = HandedOut + BLOCK + (k - 1) * BLOCK + c + 1
      <4>1. k \in Int /\ ((k + 1) - 1) * BLOCK = (k - 1) * BLOCK + BLOCK
            /\ (k - 1) * BLOCK \in Int
          BY <1>0, <3>1, SMT
      <4> DEFINE x == (k - 1) * BLOCK
                 y == ((k + 1) - 1) * BLOCK
      <4> HIDE DEF x, y
      <4>2. y = x + BLOCK /\ x \in Int
          BY <4>1 DEF x, y
      <4>3. HandedOut + y + c + 1 = HandedOut + BLOCK + x + c + 1
          BY <1>0, <4>2 DEF Cells
      <4> QED
          BY <4>3 DEF x, y
    <3>4. bevents'[k] = bevents[k + 1]
        BY <1>2, <2>3
    <3> QED
        BY <2>1, <3>2, <3>3, <3>4
  <2> QED
      BY <1>2, <1>3, <2>2, <2>3 DEF CellsHoldUnread
<1> QED
    BY <1>5, <1>6

\* Handing out the events that follow a prefix gives a longer prefix.
LEMMA ExtendPrefix ==
  ASSUME NEW S, NEW s \in Seq(S), NEW t \in Seq(S), NEW w, Len(w) \in Nat,
         BeginsWith(s, w), Len(s) + Len(t) <= Len(w),
         \A i \in 1 .. Len(t) : t[i] = w[Len(s) + i]
  PROVE  BeginsWith(s \o t, w)
<1>1. /\ Len(s \o t) = Len(s) + Len(t)
      /\ \A i \in 1 .. Len(s) + Len(t) :
            (s \o t)[i] = IF i <= Len(s) THEN s[i] ELSE t[i - Len(s)]
    BY ConcatProperties
<1>2. ASSUME NEW i \in 1 .. Len(s \o t) PROVE (s \o t)[i] = w[i]
  <2>1. CASE i <= Len(s)
      BY <1>1, <2>1 DEF BeginsWith
  <2>2. CASE ~(i <= Len(s))
    <3>1. i - Len(s) \in 1 .. Len(t) /\ Len(s) + (i - Len(s)) = i
        BY <1>1, <2>2
    <3> QED
        BY <1>1, <2>2, <3>1
  <2> QED
      BY <2>1, <2>2
<1> QED
    BY <1>1, <1>2 DEF BeginsWith

\* ezgrpc2_events_read.
LEMMA ReadPreserves ==
  ASSUME StoreInv, Read
  PROVE  StoreInv'
<1> USE DEF StoreInv
<1> DEFINE chunk == Prefix(Head(bevents), ReadLen)
<1>0. /\ written \in Seq(Event) /\ output \in Seq(Event \cup {Garbage})
      /\ disposed \in Seq(Event \cup {Garbage}) /\ freed \in BOOLEAN
    BY DEF TypeOK
<1>1. /\ ~freed /\ bevents # <<>> /\ output' = output \o chunk
      /\ bevents' = Tail(bevents) /\ windex' = NextWindex
      /\ freed' = freed /\ written' = written /\ disposed' = disposed
    BY DEF Read
<1>2. /\ ReadLen \in 1 .. BLOCK
      /\ chunk \in Seq(Event \cup {Garbage}) /\ Len(chunk) = ReadLen
      /\ HandedOut + ReadLen <= Len(written)
      /\ \A i \in 1 .. ReadLen : chunk[i] = written[HandedOut + i]
    BY <1>1, PrefixIsNext
<1> HIDE DEF chunk
<1>3. disposed = <<>>
    BY <1>1 DEF DisposedOnlyByFree
<1>4. /\ output' \in Seq(Event \cup {Garbage})
      /\ Len(output') = Len(output) + ReadLen
    BY <1>0, <1>1, <1>2, ConcatProperties
<1>5. HandedOut = Len(output) /\ HandedOut' = HandedOut + ReadLen
    BY <1>0, <1>1, <1>2, <1>3, <1>4, EmptySeq, BLOCKAssumption DEF HandedOut
<1>6. /\ WindexMeansLastBlock' /\ CellsHoldUnread'
      /\ bevents' \in Seq(Block) /\ windex' \in 0 .. BLOCK
    BY <1>1, <1>5, PopPreserves
<1>7. TypeOK'
    BY <1>0, <1>1, <1>4, <1>6 DEF TypeOK
<1>8. OutputIsPrefix'
  <2>1. output \o disposed = output /\ output' \o disposed' = output'
      BY <1>0, <1>1, <1>3, <1>4, ConcatEmptySeq
  <2>2. BeginsWith(output, written)
      BY <2>1 DEF OutputIsPrefix
  <2>3. BeginsWith(output \o chunk, written)
    <3>1. /\ Len(written) \in Nat /\ Len(output) + Len(chunk) <= Len(written)
          /\ \A i \in 1 .. Len(chunk) : chunk[i] = written[Len(output) + i]
        BY <1>0, <1>2, <1>5
    <3> QED
        BY <1>0, <1>2, <2>2, <3>1, ExtendPrefix
  <2> QED
      BY <1>1, <2>1, <2>3 DEF OutputIsPrefix
<1>9. DisposedOnlyByFree'
    BY <1>1 DEF DisposedOnlyByFree
<1> QED
    BY <1>6, <1>7, <1>8, <1>9

\* Appending cells is associative.
LEMMA CellsRegrouped ==
  ASSUME NEW x \in Seq(Event \cup {Garbage}), NEW y \in Seq(Event \cup {Garbage}),
         NEW z \in Seq(Event \cup {Garbage})
  PROVE  (x \o y) \o z = x \o (y \o z)
  BY ConcatAssociative

\* One round of the loop of ezgrpc2_events_free.
LEMMA FreeReadPreserves ==
  ASSUME StoreInv, FreeRead
  PROVE  StoreInv'
<1> USE DEF StoreInv
<1> DEFINE chunk == Prefix(Head(bevents), ReadLen)
           all   == output \o disposed
<1>0. /\ written \in Seq(Event) /\ output \in Seq(Event \cup {Garbage})
      /\ disposed \in Seq(Event \cup {Garbage}) /\ freed \in BOOLEAN
    BY DEF TypeOK
<1>1. /\ freed /\ bevents # <<>> /\ disposed' = disposed \o chunk
      /\ bevents' = Tail(bevents) /\ windex' = NextWindex
      /\ freed' = freed /\ written' = written /\ output' = output
    BY DEF FreeRead
<1>2. /\ ReadLen \in 1 .. BLOCK
      /\ chunk \in Seq(Event \cup {Garbage}) /\ Len(chunk) = ReadLen
      /\ HandedOut + ReadLen <= Len(written)
      /\ \A i \in 1 .. ReadLen : chunk[i] = written[HandedOut + i]
    BY <1>1, PrefixIsNext
<1> HIDE DEF chunk
<1>3. all \in Seq(Event \cup {Garbage}) /\ Len(all) = HandedOut
    BY <1>0, ConcatProperties DEF HandedOut
<1>4. /\ output' \o disposed' = all \o chunk
      /\ disposed' \in Seq(Event \cup {Garbage})
      /\ Len(disposed') = Len(disposed) + ReadLen
  <2>1. (output \o disposed) \o chunk = output \o (disposed \o chunk)
      BY <1>0, <1>2, CellsRegrouped, Zenon
  <2>2. /\ disposed \o chunk \in Seq(Event \cup {Garbage})
        /\ Len(disposed \o chunk) = Len(disposed) + Len(chunk)
      BY <1>0, <1>2, ConcatProperties
  <2>3. output' = output /\ disposed' = disposed \o chunk /\ Len(chunk) = ReadLen
      BY <1>1, <1>2
  <2> QED
      BY <2>1, <2>2, <2>3, Zenon
<1>5. HandedOut' = HandedOut + ReadLen
    BY <1>0, <1>1, <1>2, <1>4, BLOCKAssumption DEF HandedOut
<1>6. /\ WindexMeansLastBlock' /\ CellsHoldUnread'
      /\ bevents' \in Seq(Block) /\ windex' \in 0 .. BLOCK
    BY <1>1, <1>5, PopPreserves
<1>7. TypeOK'
    BY <1>0, <1>1, <1>4, <1>6 DEF TypeOK
<1>8. OutputIsPrefix'
  <2>1. BeginsWith(all \o chunk, written)
    <3>1. BeginsWith(all, written)
        BY DEF OutputIsPrefix
    <3> HIDE DEF all
    <3>2. /\ Len(written) \in Nat /\ Len(all) + Len(chunk) <= Len(written)
          /\ \A i \in 1 .. Len(chunk) : chunk[i] = written[Len(all) + i]
        BY <1>0, <1>2, <1>3
    <3> QED
        BY <1>2, <1>3, <3>1, <3>2, ExtendPrefix
  <2> QED
      BY <1>1, <1>4, <2>1 DEF OutputIsPrefix
<1>9. DisposedOnlyByFree'
    BY <1>1 DEF DisposedOnlyByFree
<1> QED
    BY <1>6, <1>7, <1>8, <1>9

\* Every step of the store, and every stutter, keeps the invariant.
LEMMA NextPreserves == StoreInv /\ [Next]_vars => StoreInv'
<1> SUFFICES ASSUME StoreInv, [Next]_vars PROVE StoreInv'
    OBVIOUS
<1>1. ASSUME NEW e \in Event, Write(e) PROVE StoreInv'
    BY <1>1, WritePreserves
<1>2. CASE UNCHANGED vars
    BY <1>2 DEF vars, StoreInv, TypeOK, WindexMeansLastBlock, CellsHoldUnread,
       HandedOut, UnreadCount, OutputIsPrefix, DisposedOnlyByFree
<1>3. CASE Read
    BY <1>3, ReadPreserves
<1>4. CASE FreeRead
    BY <1>4, FreeReadPreserves
<1>5. CASE Free
  <2>1. /\ bevents' = bevents /\ windex' = windex /\ written' = written
        /\ output' = output /\ disposed' = disposed /\ freed' = TRUE
      BY <1>5 DEF Free
  <2>2. freed' \in BOOLEAN
      BY <2>1
  <2> QED
      BY <2>1, <2>2 DEF StoreInv, TypeOK, WindexMeansLastBlock, CellsHoldUnread,
         HandedOut, UnreadCount, OutputIsPrefix, DisposedOnlyByFree
<1> QED
    BY <1>1, <1>2, <1>3, <1>4, <1>5 DEF Next, WriteFails, Freed

-----------------------------------------------------------------------------

\* The inductive invariant of the store.
THEOREM StoreCorrect == Spec => []StoreInv
<1> QED
    BY InitStoreInv, NextPreserves, PTL DEF Spec

\* For every block size: events come out in the order they were written, none
\* skipped, none twice, and never an unwritten cell of a block.
THEOREM EventsInOrder == Spec => []OutputIsPrefix
<1>1. StoreInv => OutputIsPrefix
    BY DEF StoreInv
<1> QED
    BY <1>1, StoreCorrect, PTL

\* For every block size: a read that finds no block has nothing to miss.
THEOREM NothingLeftBehind == Spec => []EmptyMeansAllRead
<1>1. StoreInv => EmptyMeansAllRead
    BY DEF StoreInv, CellsHoldUnread, UnreadCount, EmptyMeansAllRead, TypeOK,
       HandedOut
<1> QED
    BY <1>1, StoreCorrect, PTL

-----------------------------------------------------------------------------

\* A prefix of a sequence is one of its initial subsequences.
LEMMA PrefixIsSubSeq ==
  ASSUME NEW S, NEW s \in Seq(S), NEW w \in Seq(S), BeginsWith(s, w)
  PROVE  s = SubSeq(w, 1, Len(s))
<1>1. /\ Len(s) \in Nat /\ Len(s) <= Len(w)
      /\ \A i \in 1 .. Len(s) : w[i] \in S /\ s[i] = w[i]
    BY DEF BeginsWith
<1>2. /\ SubSeq(w, 1, Len(s)) \in Seq(S)
      /\ Len(SubSeq(w, 1, Len(s))) = IF 1 <= Len(s) THEN Len(s) - 1 + 1 ELSE 0
      /\ \A i \in 1 .. Len(s) - 1 + 1 : SubSeq(w, 1, Len(s))[i] = w[1 + i - 1]
    BY <1>1, SubSeqProperties
<1>3. Len(SubSeq(w, 1, Len(s))) = Len(s)
    BY <1>1, <1>2
<1>4. \A i \in 1 .. Len(s) : SubSeq(w, 1, Len(s))[i] = s[i]
  <2> TAKE i \in 1 .. Len(s)
  <2>1. i \in 1 .. Len(s) - 1 + 1 /\ 1 + i - 1 = i
      BY <1>1
  <2> QED
      BY <1>1, <1>2, <2>1
<1> QED
    BY <1>2, <1>3, <1>4, SeqEqual

\* A read of the store is a read of the stream.
LEMMA ReadRefines ==
  ASSUME StoreInv, StoreInv', Read \/ FreeRead
  PROVE  Abstract!Read
<1> DEFINE all == output \o disposed
           T   == Event \cup {Garbage}
<1>1. /\ written' = written /\ bevents # <<>>
      /\ output \in Seq(T) /\ disposed \in Seq(T)
      /\ output' \in Seq(T) /\ disposed' \in Seq(T) /\ written \in Seq(T)
    BY SeqMonotonic DEF StoreInv, TypeOK, Read, FreeRead
<1>2. all \in Seq(T) /\ all' \in Seq(T)
    BY <1>1, ConcatProperties
<1>3. BeginsWith(all', written)
    BY <1>1 DEF StoreInv, OutputIsPrefix
<1>4. all' = SubSeq(written, 1, Len(all'))
    BY <1>1, <1>2, <1>3, PrefixIsSubSeq
<1>5. Len(all') <= Len(written)
    BY <1>3 DEF BeginsWith
<1>6. Len(all) < Len(all')
  <2> DEFINE chunk == Prefix(Head(bevents), ReadLen)
  <2>1. chunk \in Seq(T) /\ Len(chunk) = ReadLen /\ ReadLen \in 1 .. BLOCK
      BY <1>1, PrefixIsNext
  <2>2. \/ output' = output \o chunk /\ disposed' = disposed
        \/ output' = output /\ disposed' = disposed \o chunk
      BY DEF Read, FreeRead
  <2> HIDE DEF chunk
  <2>3. Len(output') + Len(disposed') = Len(output) + Len(disposed) + ReadLen
    <3>1. /\ Len(output \o chunk) = Len(output) + Len(chunk)
          /\ Len(disposed \o chunk) = Len(disposed) + Len(chunk)
        BY <1>1, <2>1, ConcatProperties
    <3>2. Len(output) \in Nat /\ Len(disposed) \in Nat /\ ReadLen \in Nat
        BY <1>1, <2>1, BLOCKAssumption
    <3> HIDE DEF T
    <3>3. CASE output' = output \o chunk /\ disposed' = disposed
      <4>1. Len(output') = Len(output) + ReadLen
          BY <2>1, <3>1, <3>3, Zenon
      <4>2. Len(disposed') = Len(disposed)
          BY <3>3, Zenon
      <4> QED
          BY <4>1, <4>2, <3>2
    <3>4. CASE output' = output /\ disposed' = disposed \o chunk
      <4>1. Len(disposed') = Len(disposed) + ReadLen
          BY <2>1, <3>1, <3>4, Zenon
      <4>2. Len(output') = Len(output)
          BY <3>4, Zenon
      <4> QED
          BY <4>1, <4>2, <3>2
    <3> QED
        BY <2>2, <3>3, <3>4
  <2>4. Len(all) = Len(output) + Len(disposed)
      BY <1>1, ConcatProperties
  <2>5. Len(all') = Len(output') + Len(disposed')
      BY <1>1, ConcatProperties
  <2> HIDE DEF all
  <2> QED
      BY <1>1, <2>1, <2>3, <2>4, <2>5, BLOCKAssumption
<1>7. Len(all') \in Len(all) + 1 .. Len(written)
  <2>1. Len(all) \in Nat /\ Len(all') \in Nat /\ Len(written) \in Nat
      BY <1>1, <1>2
  <2> HIDE DEF all
  <2> QED
      BY <1>5, <1>6, <2>1
<1> QED
    BY <1>1, <1>4, <1>7 DEF Abstract!Read

\* For every block size and every set of events, the store implements the
\* plain stream of EventStream.
THEOREM StoreIsStream == Spec => ImplementsEventStream
<1>1. Init => Abstract!Init
  <2> SUFFICES ASSUME Init PROVE Abstract!Init
      OBVIOUS
  <2>1. output = <<>> /\ disposed = <<>> /\ written = <<>>
      BY DEF Init
  <2>2. output \o disposed = <<>>
      BY <2>1, EmptySeq, ConcatEmptySeq
  <2> QED
      BY <2>1, <2>2 DEF Abstract!Init
<1>2. StoreInv /\ StoreInv' /\ [Next]_vars => [Abstract!Next]_(Abstract!vars)
  <2> SUFFICES ASSUME StoreInv, StoreInv', [Next]_vars
               PROVE  [Abstract!Next]_(Abstract!vars)
      OBVIOUS
  <2>1. ASSUME NEW e \in Event, Write(e) PROVE Abstract!Next
    <3>1. /\ written' = Append(written, e) /\ output' = output
          /\ disposed' = disposed
        BY <2>1 DEF Write
    <3> QED
        BY <3>1 DEF Abstract!Next, Abstract!Write
  <2>2. CASE Read \/ FreeRead
      BY <2>2, ReadRefines DEF Abstract!Next
  <2>3. CASE Free
      BY <2>3 DEF Free, Abstract!vars
  <2>4. CASE UNCHANGED vars
      BY <2>4 DEF vars, Abstract!vars
  <2> QED
      BY <2>1, <2>2, <2>3, <2>4 DEF Next, WriteFails, Freed
<1> QED
    BY <1>1, <1>2, StoreCorrect, PTL DEF Spec, ImplementsEventStream, Abstract!Spec

-----------------------------------------------------------------------------
(***************************************************************************)
(* The list of nodes and pointers. w gives, for each list, the nodes it     *)
(* stands for, front first; what it holds are their data.                   *)
(***************************************************************************)

NodeType == [next: Nodes \cup {NULL}, prev: Nodes \cup {NULL}, data: Data \cup {NoData}]
ListType == [front: Nodes \cup {NULL}, back: Nodes \cup {NULL}, count: Nat]

\* Both the heap and the lists are what their declarations say.
ListTypes(nd, ls) == nd \in [Nodes -> NodeType] /\ ls \in [Lists -> ListType]

\* The k-th node of s, and NULL before and behind it.
At(s, k) == IF k \in 1 .. Len(s) THEN s[k] ELSE NULL

\* Each node of s points to its neighbours and holds something.
Linked(nd, s) == \A k \in 1 .. Len(s) :
    nd[s[k]].data \in Data /\ nd[s[k]].next = At(s, k + 1) /\ nd[s[k]].prev = At(s, k - 1)

\* The fields of a list x that stands for s.
Bounded(x, s) == x.front = At(s, 1) /\ x.back = At(s, Len(s)) /\ x.count = Len(s)

Once(s) == \A j, k \in 1 .. Len(s) : s[j] = s[k] => j = k

Disjoint(s, t) == \A j \in 1 .. Len(s), k \in 1 .. Len(t) : s[j] # t[k]

Stands(nd, ls, w) ==
    /\ w \in [Lists -> Seq(Nodes)]
    /\ \A l \in Lists : Linked(nd, w[l]) /\ Bounded(ls[l], w[l]) /\ Once(w[l])
    /\ \A l, m \in Lists : l # m => Disjoint(w[l], w[m])

ListInv == ListTypes(node, list) /\ \E w : Stands(node, list, w)

\* What the nodes of s hold.
DataOf(nd, s) == [k \in 1 .. Len(s) |-> nd[s[k]].data]

\* What every list holds.
Held(nd, w) == [l \in Lists |-> DataOf(nd, w[l])]

\* The heap and the lists hold H.
Holds(nd, ls, H) == \E w : Stands(nd, ls, w) /\ Held(nd, w) = H

\* A set of numbers has a smallest member.
LEMMA SmallestOf ==
  ASSUME NEW T, T \subseteq Nat, T # {}
  PROVE  \E m \in T : \A j \in T : m <= j
<1> DEFINE R == OpToRel(<, Nat)
<1>1. \A x, y \in Nat : x < y => <<x, y>> \in R
  BY DEF OpToRel
<1>2. IsWellFoundedOn(R, Nat)
  BY NatLessThanWellFounded, Zenon
<1> HIDE DEF R
<1>3. PICK m \in T : \A j \in T : <<j, m>> \notin R
  BY <1>2, WFMin
<1>4. \A j \in T : ~(j < m)
  BY <1>1, <1>3
<1> QED BY <1>3, <1>4

\* A list is no longer than the heap is large.
LEMMA NoLongerThanHeap ==
  ASSUME NEW s \in Seq(Nodes), Once(s)
  PROVE  Len(s) \in Nat /\ Len(s) <= MaxNodes
<1>1. Len(s) \in Nat /\ MaxNodes \in Nat
  BY ListAssumption
<1>2. s \in Injection(1 .. Len(s), Nodes)
  <2>1. s \in [1 .. Len(s) -> Nodes]
    OBVIOUS
  <2>2. \A j, k \in 1 .. Len(s) : s[j] = s[k] => j = k
    BY DEF Once
  <2> QED BY <2>1, <2>2 DEF Injection, IsInjective
<1>3. /\ IsFiniteSet(1 .. MaxNodes)
      /\ Cardinality(1 .. MaxNodes) = IF 1 > MaxNodes THEN 0 ELSE MaxNodes - 1 + 1
  BY <1>1, FS_Interval
<1>4. Cardinality(1 .. Len(s)) = IF 1 > Len(s) THEN 0 ELSE Len(s) - 1 + 1
  BY <1>1, FS_Interval
<1>5. Cardinality(1 .. Len(s)) <= Cardinality(Nodes)
  BY <1>2, <1>3, FS_Injection DEF Nodes
<1> QED BY <1>1, <1>3, <1>4, <1>5 DEF Nodes

Walks(nd, n, f) == f = [k \in Nodes |-> IF k = 1 THEN n ELSE Step(nd, f[k - 1])]

\* A loop along next comes to the nodes that a list stands for, and to NULL.
LEMMA WalkIs ==
  ASSUME NEW nd \in [Nodes -> NodeType], NEW s \in Seq(Nodes), Once(s), Linked(nd, s)
  PROVE  \A k \in Nodes : Walk(nd, At(s, 1))[k] = At(s, k)
<1> DEFINE n == At(s, 1)
           p == CHOOSE f : Walks(nd, n, f)
           g == [k \in Nodes |-> At(s, k)]
           T == {k \in Nodes : p[k] # At(s, k)}
<1>0. MaxNodes \in Nat /\ Len(s) \in Nat /\ Nodes \subseteq Nat \ {0} /\ NULL \notin Nodes
  BY ListAssumption DEF Nodes, NULL
<1>1. ASSUME NEW k \in Nodes, k # 1
      PROVE  k - 1 \in Nodes /\ Step(nd, At(s, k - 1)) = At(s, k)
  <2>1. k - 1 \in Nodes /\ (k - 1) + 1 = k
    BY <1>0, <1>1 DEF Nodes
  <2>2. CASE k - 1 \in 1 .. Len(s)
    <3>1. s[k - 1] \in Nodes /\ At(s, k - 1) = s[k - 1]
      BY <2>2 DEF At
    <3>2. nd[s[k - 1]].next = At(s, k)
      BY <2>1, <2>2 DEF Linked
    <3> QED BY <1>0, <2>1, <3>1, <3>2 DEF Step
  <2>3. CASE k - 1 \notin 1 .. Len(s)
    <3>1. k \notin 1 .. Len(s)
      BY <1>0, <1>1, <2>1, <2>3 DEF Nodes
    <3> QED BY <2>1, <2>3, <3>1 DEF Step, At
  <2> QED BY <2>2, <2>3
<1>2. Walks(nd, n, g)
  <2>1. \A k \in Nodes : At(s, k) = IF k = 1 THEN n ELSE Step(nd, g[k - 1])
    BY <1>1
  <2> HIDE DEF n
  <2> QED BY <2>1 DEF Walks
<1>3. Walks(nd, n, p)
  <2> HIDE DEF g, n
  <2> QED BY <1>2
<1>4. p = Walk(nd, n)
  BY DEF Walks, Walk
<1>5. \A k \in Nodes : p[k] = IF k = 1 THEN n ELSE Step(nd, p[k - 1])
  <2> HIDE DEF p, n
  <2> QED BY <1>3 DEF Walks
<1> HIDE DEF p, g
<1>6. T = {}
  <2> SUFFICES ASSUME T # {}
               PROVE  FALSE
    OBVIOUS
  <2>1. T \subseteq Nat
    BY <1>0
  <2>2. PICK m \in T : \A j \in T : m <= j
    <3> HIDE DEF T
    <3> QED BY <2>1, SmallestOf
  <2>3. m # 1
    BY <1>5, <2>2
  <2>4. m - 1 \in Nodes /\ m - 1 \notin T
    BY <1>0, <1>1, <2>2, <2>3
  <2>5. p[m] = At(s, m)
    BY <1>1, <1>5, <2>2, <2>3, <2>4
  <2> QED BY <2>2, <2>5
<1> QED BY <1>4, <1>6

\* What a list holds is what the nodes hold that it stands for.
LEMMA ForwardIs ==
  ASSUME NEW nd \in [Nodes -> NodeType], NEW s \in Seq(Nodes), Once(s), Linked(nd, s),
         NEW x, Bounded(x, s)
  PROVE  Forward(nd, x.front, x.count) = DataOf(nd, s)
<1>1. \A k \in 1 .. Len(s) : k \in Nodes
  BY NoLongerThanHeap, ListAssumption DEF Nodes
<1>2. \A k \in 1 .. Len(s) : Walk(nd, At(s, 1))[k] = s[k]
  BY <1>1, WalkIs DEF At
<1> DEFINE at == Walk(nd, At(s, 1))
<1>3. Forward(nd, x.front, x.count) = [k \in 1 .. Len(s) |-> nd[at[k]].data]
  BY DEF Forward, Bounded
<1> HIDE DEF at
<1>4. \A k \in 1 .. Len(s) : at[k] = s[k]
  BY <1>2 DEF at
<1> QED BY <1>3, <1>4 DEF DataOf

\* f, with t for l.
Put(f, l, t) == [f EXCEPT ![l] = t]

\* The lists other than l have none of the nodes of t, and keep theirs.
Spared(nd, ls, w, nd2, ls2, l, t) == \A m \in Lists : m # l =>
    /\ ls2[m] = ls[m] /\ Disjoint(w[m], t)
    /\ \A j \in 1 .. Len(w[m]) : nd2[w[m][j]] = nd[w[m][j]]

\* What an operation on one list does to all: that list comes to stand for t, and
\* the nodes of the others are left alone.
LEMMA Rewired ==
  ASSUME NEW nd, NEW ls, NEW w, Stands(nd, ls, w), NEW nd2, NEW ls2,
         NEW l \in Lists, NEW t \in Seq(Nodes),
         Linked(nd2, t), Once(t), Bounded(ls2[l], t),
         Spared(nd, ls, w, nd2, ls2, l, t)
  PROVE  /\ Stands(nd2, ls2, Put(w, l, t))
         /\ Held(nd2, Put(w, l, t)) = Put(Held(nd, w), l, DataOf(nd2, t))
<1> DEFINE v == Put(w, l, t)
<1>1. /\ w \in [Lists -> Seq(Nodes)] /\ v \in [Lists -> Seq(Nodes)] /\ v[l] = t
      /\ \A m \in Lists : m # l => v[m] = w[m]
  BY DEF Stands, Put
<1> HIDE DEF v
<1>2. ASSUME NEW m \in Lists, m # l
      PROVE  /\ Linked(nd2, v[m]) /\ Bounded(ls2[m], v[m]) /\ Once(v[m])
             /\ DataOf(nd2, v[m]) = DataOf(nd, w[m])
  <2>1. v[m] = w[m] /\ ls2[m] = ls[m] /\ Linked(nd, w[m]) /\ Bounded(ls[m], w[m]) /\ Once(w[m])
    BY <1>1, <1>2 DEF Stands, Spared
  <2>2. \A j \in 1 .. Len(w[m]) : nd2[w[m][j]] = nd[w[m][j]]
    BY <1>2 DEF Spared
  <2>3. Linked(nd2, w[m])
    BY <2>1, <2>2 DEF Linked
  <2>4. DataOf(nd2, w[m]) = DataOf(nd, w[m])
    BY <2>2 DEF DataOf
  <2> QED BY <2>1, <2>3, <2>4
<1>3. ASSUME NEW m \in Lists, NEW o \in Lists, m # o
      PROVE  Disjoint(v[m], v[o])
  <2>1. CASE m # l /\ o # l
    BY <1>1, <1>3, <2>1 DEF Stands
  <2>2. CASE m = l
    BY <1>1, <1>3, <2>2 DEF Disjoint, Spared
  <2>3. CASE o = l
    BY <1>1, <1>3, <2>3 DEF Spared
  <2> QED BY <2>1, <2>2, <2>3
<1>4. Stands(nd2, ls2, v)
  <2>1. \A m \in Lists : Linked(nd2, v[m]) /\ Bounded(ls2[m], v[m]) /\ Once(v[m])
    <3> TAKE m \in Lists
    <3>1. CASE m = l
      BY <1>1, <3>1
    <3> QED BY <1>2, <3>1
  <2> QED BY <1>1, <1>3, <2>1 DEF Stands
<1>5. Held(nd2, v) = Put(Held(nd, w), l, DataOf(nd2, t))
  <2>1. \A m \in Lists : DataOf(nd2, v[m]) = IF m = l THEN DataOf(nd2, t) ELSE DataOf(nd, w[m])
    BY <1>1, <1>2
  <2> QED BY <2>1 DEF Held, Put
<1> QED BY <1>4, <1>5 DEF v

\* s without its k-th member.
Cut(s, k) == [j \in 1 .. Len(s) - 1 |-> IF j < k THEN s[j] ELSE s[j + 1]]

LEMMA CutIs ==
  ASSUME NEW S, NEW s \in Seq(S), NEW k \in 1 .. Len(s)
  PROVE  /\ Cut(s, k) \in Seq(S) /\ Len(Cut(s, k)) = Len(s) - 1
         /\ \A j \in 1 .. Len(s) - 1 : Cut(s, k)[j] = IF j < k THEN s[j] ELSE s[j + 1]
<1> DEFINE c == Cut(s, k)
<1>1. Len(s) \in Nat /\ Len(s) - 1 \in Nat
  OBVIOUS
<1>2. \A j \in 1 .. Len(s) - 1 : (IF j < k THEN s[j] ELSE s[j + 1]) \in S
  <2> TAKE j \in 1 .. Len(s) - 1
  <2>1. j \in 1 .. Len(s) /\ j + 1 \in 1 .. Len(s)
    BY <1>1
  <2> QED BY <2>1
<1>3. c \in [1 .. Len(s) - 1 -> S] /\ DOMAIN c = 1 .. Len(s) - 1
  BY <1>2 DEF Cut
<1>4. c \in Seq(S) /\ Len(c) = Len(s) - 1
  <2> HIDE DEF c
  <2> QED BY <1>1, <1>3
<1> QED BY <1>4 DEF Cut

\* Pops and removals are cuts.
LEMMA Cuts ==
  ASSUME NEW S, NEW s \in Seq(S), NEW k \in 1 .. Len(s)
  PROVE  /\ Cut(s, 1) = Tail(s) /\ Cut(s, Len(s)) = SubSeq(s, 1, Len(s) - 1)
         /\ Cut(s, k) = SubSeq(s, 1, k - 1) \o SubSeq(s, k + 1, Len(s))
<1> DEFINE n == Len(s)
<1>1. n \in Nat /\ n >= 1 /\ s # <<>> /\ \A i \in 1 .. n : s[i] \in S
  OBVIOUS
<1>2. Cut(s, 1) = Tail(s)
  <2>1. /\ Tail(s) \in Seq(S) /\ Len(Tail(s)) = n - 1
        /\ \A i \in 1 .. n - 1 : Tail(s)[i] = s[i + 1]
    BY <1>1, HeadTailProperties
  <2>2. /\ Cut(s, 1) \in Seq(S) /\ Len(Cut(s, 1)) = n - 1
        /\ \A j \in 1 .. n - 1 : Cut(s, 1)[j] = IF j < 1 THEN s[j] ELSE s[j + 1]
    BY <1>1, CutIs
  <2>3. \A i \in 1 .. n - 1 : Tail(s)[i] = Cut(s, 1)[i]
    BY <1>1, <2>1, <2>2
  <2> QED BY <2>1, <2>2, <2>3, SeqEqual
<1>3. Cut(s, n) = SubSeq(s, 1, n - 1)
  <2>1. /\ SubSeq(s, 1, n - 1) \in Seq(S) /\ Len(SubSeq(s, 1, n - 1)) = n - 1
        /\ \A i \in 1 .. n - 1 : SubSeq(s, 1, n - 1)[i] = s[i]
    <3>1. \A i \in 1 .. n - 1 : s[i] \in S
      BY <1>1
    <3>2. /\ SubSeq(s, 1, n - 1) \in Seq(S)
          /\ Len(SubSeq(s, 1, n - 1)) = IF 1 <= n - 1 THEN (n - 1) - 1 + 1 ELSE 0
          /\ \A i \in 1 .. (n - 1) - 1 + 1 : SubSeq(s, 1, n - 1)[i] = s[1 + i - 1]
      <4>1. 1 \in Int /\ n - 1 \in Int
        BY <1>1
      <4> HIDE DEF n
      <4> QED BY <3>1, <4>1, SubSeqProperties
    <3> HIDE DEF n
    <3> QED BY <1>1, <3>2
  <2>2. /\ Cut(s, n) \in Seq(S) /\ Len(Cut(s, n)) = n - 1
        /\ \A j \in 1 .. n - 1 : Cut(s, n)[j] = IF j < n THEN s[j] ELSE s[j + 1]
    <3>1. n \in 1 .. Len(s)
      BY <1>1
    <3> HIDE DEF n
    <3>2. /\ Cut(s, n) \in Seq(S) /\ Len(Cut(s, n)) = Len(s) - 1
          /\ \A j \in 1 .. Len(s) - 1 : Cut(s, n)[j] = IF j < n THEN s[j] ELSE s[j + 1]
      BY <3>1, CutIs, Zenon
    <3> QED BY <3>2 DEF n
  <2>3. ASSUME NEW i \in 1 .. n - 1
        PROVE  SubSeq(s, 1, n - 1)[i] = Cut(s, n)[i]
    <3> DEFINE c == Cut(s, n)
               t == SubSeq(s, 1, n - 1)
    <3>1. t[i] = s[i]
      BY <2>1
    <3>2. c[i] = IF i < n THEN s[i] ELSE s[i + 1]
      BY <2>2
    <3> HIDE DEF n, c, t
    <3>3. i < n
      BY <1>1
    <3>4. t[i] = c[i]
      BY <3>1, <3>2, <3>3
    <3> QED BY <3>4 DEF t, c
  <2> QED BY <2>1, <2>2, <2>3, SeqEqual
<1>4. Cut(s, k) = SubSeq(s, 1, k - 1) \o SubSeq(s, k + 1, n)
  <2> DEFINE a == SubSeq(s, 1, k - 1)
             b == SubSeq(s, k + 1, n)
  <2>0. k \in 1 .. n /\ 1 \in Int /\ k - 1 \in Int /\ k + 1 \in Int /\ n \in Int
    OBVIOUS
  <2> HIDE DEF n
  <2>1. a \in Seq(S) /\ Len(a) = k - 1 /\ \A i \in 1 .. k - 1 : a[i] = s[i]
    <3>1. \A i \in 1 .. k - 1 : s[i] \in S
      BY <1>1, <2>0
    <3>2. /\ a \in Seq(S) /\ Len(a) = IF 1 <= k - 1 THEN (k - 1) - 1 + 1 ELSE 0
          /\ \A i \in 1 .. (k - 1) - 1 + 1 : a[i] = s[1 + i - 1]
      BY <2>0, <3>1, SubSeqProperties
    <3> HIDE DEF a
    <3> QED BY <1>1, <2>0, <3>2
  <2>2. b \in Seq(S) /\ Len(b) = n - k /\ \A i \in 1 .. n - k : b[i] = s[k + i]
    <3>1. \A i \in k + 1 .. n : s[i] \in S
      BY <1>1, <2>0
    <3>2. /\ b \in Seq(S) /\ Len(b) = IF k + 1 <= n THEN n - (k + 1) + 1 ELSE 0
          /\ \A i \in 1 .. n - (k + 1) + 1 : b[i] = s[(k + 1) + i - 1]
      BY <2>0, <3>1, SubSeqProperties
    <3> HIDE DEF b
    <3>3. n - (k + 1) + 1 = n - k /\ \A i \in Int : (k + 1) + i - 1 = k + i
      BY <1>1, <2>0
    <3> QED BY <1>1, <2>0, <3>2, <3>3
  <2> HIDE DEF a, b
  <2>3. /\ a \o b \in Seq(S) /\ Len(a \o b) = n - 1
        /\ \A i \in 1 .. n - 1 : (a \o b)[i] = IF i <= k - 1 THEN a[i] ELSE b[i - (k - 1)]
    <3>1. /\ a \o b \in Seq(S) /\ Len(a \o b) = Len(a) + Len(b)
          /\ \A i \in 1 .. Len(a) + Len(b) :
               (a \o b)[i] = IF i <= Len(a) THEN a[i] ELSE b[i - Len(a)]
      BY <2>1, <2>2, ConcatProperties
    <3>2. Len(a) + Len(b) = n - 1
      BY <1>1, <2>0, <2>1, <2>2
    <3> QED BY <2>1, <3>1, <3>2
  <2>4. /\ Cut(s, k) \in Seq(S) /\ Len(Cut(s, k)) = n - 1
        /\ \A j \in 1 .. n - 1 : Cut(s, k)[j] = IF j < k THEN s[j] ELSE s[j + 1]
    BY CutIs DEF n
  <2>5. ASSUME NEW i \in 1 .. n - 1
        PROVE  (a \o b)[i] = Cut(s, k)[i]
    <3>1. CASE i < k
      <4>1. i \in 1 .. k - 1 /\ i <= k - 1
        BY <1>1, <2>0, <2>5, <3>1
      <4> QED BY <2>1, <2>3, <2>4, <2>5, <3>1, <4>1
    <3>2. CASE ~(i < k)
      <4>1. i - (k - 1) \in 1 .. n - k /\ ~(i <= k - 1) /\ k + (i - (k - 1)) = i + 1
        BY <1>1, <2>0, <2>5, <3>2
      <4>2. b[i - (k - 1)] = s[i + 1]
        BY <2>2, <4>1
      <4> QED BY <2>3, <2>4, <2>5, <3>2, <4>1, <4>2
    <3> QED BY <3>1, <3>2
  <2>6. Cut(s, k) = a \o b
    BY <2>3, <2>4, <2>5, SeqEqual
  <2> QED BY <2>6 DEF a, b
<1> QED BY <1>2, <1>3, <1>4

\* The links that remove and the pops change are those of the two neighbours of
\* the k-th node.
Untied(nd, nd2, s, k) == \A m \in Nodes : m # s[k] =>
    /\ nd2[m].data = nd[m].data
    /\ nd2[m].next = IF m = At(s, k - 1) THEN At(s, k + 1) ELSE nd[m].next
    /\ nd2[m].prev = IF m = At(s, k + 1) THEN At(s, k - 1) ELSE nd[m].prev
    /\ m # At(s, k - 1) /\ m # At(s, k + 1) => nd2[m] = nd[m]

\* What becomes of the fields of list l.
Shortened(ls, ls2, l, s, k) ==
    /\ \A m \in Lists : m # l => ls2[m] = ls[m]
    /\ ls2[l].front = IF At(s, k - 1) = NULL THEN At(s, k + 1) ELSE ls[l].front
    /\ ls2[l].back = IF At(s, k + 1) = NULL THEN At(s, k - 1) ELSE ls[l].back
    /\ ls2[l].count = ls[l].count - 1

\* The other nodes are still linked.
LEMMA CutLinked ==
  ASSUME NEW nd, NEW nd2, NEW s \in Seq(Nodes), Once(s), Linked(nd, s), NEW k \in 1 .. Len(s),
         Untied(nd, nd2, s, k)
  PROVE  /\ Linked(nd2, Cut(s, k)) /\ Once(Cut(s, k))
         /\ DataOf(nd2, Cut(s, k)) = Cut(DataOf(nd, s), k)
         /\ At(Cut(s, k), 1) = IF k = 1 THEN At(s, 2) ELSE At(s, 1)
         /\ At(Cut(s, k), Len(s) - 1) = IF k = Len(s) THEN At(s, Len(s) - 1) ELSE At(s, Len(s))
<1> DEFINE c == Cut(s, k)
           n == Len(s)
<1>0. /\ n \in Nat /\ k \in Nat /\ 1 <= k /\ k <= n /\ Nodes \subseteq Nat \ {0}
      /\ \A j \in 1 .. n : s[j] \in Nodes /\ s[j] # NULL
  BY ListAssumption DEF Nodes, NULL
<1>1. /\ c \in Seq(Nodes) /\ Len(c) = n - 1
      /\ \A j \in 1 .. n - 1 : c[j] = IF j < k THEN s[j] ELSE s[j + 1]
  BY CutIs
<1> HIDE DEF c, n
<1>2. \A j \in 0 .. n : At(c, j) = IF j < k THEN At(s, j) ELSE At(s, j + 1)
  <2> TAKE j \in 0 .. n
  <2>1. CASE j \in 1 .. n - 1
    <3>1. j \in 1 .. n /\ j + 1 \in 1 .. n /\ At(c, j) = c[j]
      BY <1>0, <1>1, <2>1 DEF At
    <3> QED BY <1>1, <2>1, <3>1 DEF At, n
  <2>2. CASE j = 0
    <3>1. j < k /\ j \notin 1 .. n - 1 /\ j \notin 1 .. n
      BY <1>0, <2>2
    <3> QED BY <1>1, <3>1 DEF At, n
  <2>3. CASE j = n /\ n # 0
    <3>1. ~(j < k) /\ j \notin 1 .. n - 1 /\ j + 1 \notin 1 .. n
      BY <1>0, <2>3
    <3> QED BY <1>1, <3>1 DEF At, n
  <2> QED BY <1>0, <2>1, <2>2, <2>3
<1> DEFINE old(j) == IF j < k THEN j ELSE j + 1
<1>3. ASSUME NEW j \in 1 .. n - 1
      PROVE  /\ old(j) \in 1 .. n /\ old(j) # k /\ c[j] = s[old(j)]
             /\ old(j) = k - 1 <=> j = k - 1
             /\ old(j) = k + 1 <=> j = k
             /\ s[old(j)] \in Nodes /\ s[old(j)] # s[k]
  <2>1. /\ old(j) \in 1 .. n /\ old(j) # k
        /\ old(j) = k - 1 <=> j = k - 1
        /\ old(j) = k + 1 <=> j = k
    BY <1>0, <1>3
  <2>2. c[j] = s[old(j)]
    BY <1>1
  <2> HIDE DEF old
  <2>3. s[old(j)] \in Nodes /\ s[old(j)] # s[k]
    BY <1>0, <2>1 DEF Once, n
  <2> QED BY <2>1, <2>2, <2>3
<1>4. ASSUME NEW i \in 1 .. n, NEW j \in 0 .. n + 1
      PROVE  s[i] = At(s, j) <=> i = j
  <2>1. CASE j \in 1 .. n
    BY <1>0, <1>4, <2>1 DEF At, Once, n
  <2>2. CASE j \notin 1 .. n
    BY <1>0, <1>4, <2>2 DEF At, n
  <2> QED BY <2>1, <2>2
<1>5. ASSUME NEW j \in 1 .. n - 1
      PROVE  /\ nd2[c[j]].data = nd[s[old(j)]].data /\ nd2[c[j]].data \in Data
             /\ nd2[c[j]].next = At(c, j + 1) /\ nd2[c[j]].prev = At(c, j - 1)
  <2> DEFINE o == old(j)
  <2>1. o \in 1 .. n /\ c[j] = s[o] /\ s[o] \in Nodes /\ s[o] # s[k]
    BY <1>3, <1>5
  <2>2. (o = k - 1 <=> j = k - 1) /\ (o = k + 1 <=> j = k) /\ o # k
    BY <1>3, <1>5
  <2>3. o = IF j < k THEN j ELSE j + 1
    OBVIOUS
  <2> HIDE DEF o, old
  <2>4. nd[s[o]].data \in Data /\ nd[s[o]].next = At(s, o + 1) /\ nd[s[o]].prev = At(s, o - 1)
    BY <2>1 DEF Linked, n
  <2>5. (s[o] = At(s, k - 1) <=> o = k - 1) /\ (s[o] = At(s, k + 1) <=> o = k + 1)
    <3>1. k - 1 \in 0 .. n + 1 /\ k + 1 \in 0 .. n + 1
      BY <1>0
    <3> QED BY <1>4, <2>1, <3>1
  <2>6. /\ nd2[s[o]].data = nd[s[o]].data
        /\ nd2[s[o]].next = IF o = k - 1 THEN At(s, k + 1) ELSE At(s, o + 1)
        /\ nd2[s[o]].prev = IF o = k + 1 THEN At(s, k - 1) ELSE At(s, o - 1)
    BY <2>1, <2>4, <2>5 DEF Untied
  <2>7. At(c, j + 1) = IF o = k - 1 THEN At(s, k + 1) ELSE At(s, o + 1)
    <3>1. j + 1 \in 0 .. n
      BY <1>0, <1>5
    <3>2. At(c, j + 1) = IF j + 1 < k THEN At(s, j + 1) ELSE At(s, j + 1 + 1)
      BY <1>2, <3>1
    <3>3. CASE o = k - 1
      <4>1. ~(j + 1 < k) /\ j + 1 + 1 = k + 1
        BY <1>0, <1>5, <2>2, <3>3
      <4> QED BY <3>2, <3>3, <4>1
    <3>4. CASE o # k - 1
      <4>1. o + 1 = IF j + 1 < k THEN j + 1 ELSE j + 1 + 1
        BY <1>0, <1>5, <2>2, <2>3, <3>4
      <4> QED BY <3>2, <3>4, <4>1
    <3> QED BY <3>3, <3>4
  <2>8. At(c, j - 1) = IF o = k + 1 THEN At(s, k - 1) ELSE At(s, o - 1)
    <3>1. j - 1 \in 0 .. n
      BY <1>0, <1>5
    <3>2. At(c, j - 1) = IF j - 1 < k THEN At(s, j - 1) ELSE At(s, j - 1 + 1)
      BY <1>2, <3>1
    <3>3. CASE o = k + 1
      <4>1. j - 1 < k /\ j - 1 = k - 1
        BY <1>0, <1>5, <2>2, <3>3
      <4> QED BY <3>2, <3>3, <4>1
    <3>4. CASE o # k + 1
      <4>1. o - 1 = IF j - 1 < k THEN j - 1 ELSE j - 1 + 1
        BY <1>0, <1>5, <2>2, <2>3, <3>4
      <4> QED BY <3>2, <3>4, <4>1
    <3> QED BY <3>3, <3>4
  <2>9. nd2[c[j]].data = nd[s[o]].data /\ nd2[c[j]].data \in Data
    BY <2>1, <2>4, <2>6
  <2> QED BY <2>1, <2>6, <2>7, <2>8, <2>9 DEF o
<1>6. Linked(nd2, c)
  BY <1>1, <1>5 DEF Linked
<1>7. Once(c)
  <2> SUFFICES ASSUME NEW i \in 1 .. n - 1, NEW j \in 1 .. n - 1, c[i] = c[j]
               PROVE  i = j
    BY <1>1 DEF Once
  <2>1. old(i) = old(j)
    <3>1. s[old(i)] = s[old(j)] /\ old(i) \in 1 .. n /\ old(j) \in 1 .. n
      BY <1>3
    <3> HIDE DEF old
    <3> QED BY <3>1 DEF Once, n
  <2> QED BY <1>0, <2>1
<1>8. DataOf(nd2, c) = Cut(DataOf(nd, s), k)
  <2>1. DataOf(nd, s) = [j \in 1 .. n |-> nd[s[j]].data]
    BY DEF DataOf, n
  <2>2. Len(DataOf(nd, s)) = n
    BY <1>0, <2>1
  <2>3. \A j \in 1 .. n - 1 : (IF j < k THEN DataOf(nd, s)[j] ELSE DataOf(nd, s)[j + 1])
                                = nd[s[old(j)]].data
    <3> TAKE j \in 1 .. n - 1
    <3>1. j \in 1 .. n /\ j + 1 \in 1 .. n
      BY <1>0
    <3> QED BY <2>1, <3>1
  <2>4. Cut(DataOf(nd, s), k) = [j \in 1 .. n - 1 |-> nd[s[old(j)]].data]
    <3> HIDE DEF old
    <3> QED BY <2>2, <2>3 DEF Cut
  <2>5. DataOf(nd2, c) = [j \in 1 .. n - 1 |-> nd2[c[j]].data]
    BY <1>1 DEF DataOf
  <2>6. \A j \in 1 .. n - 1 : nd2[c[j]].data = nd[s[old(j)]].data
    BY <1>5
  <2> HIDE DEF old
  <2> QED BY <2>4, <2>5, <2>6
<1>9. At(c, 1) = IF k = 1 THEN At(s, 2) ELSE At(s, 1)
  <2>1. 1 \in 0 .. n /\ (1 < k <=> k # 1) /\ 1 + 1 = 2
    BY <1>0
  <2> QED BY <1>2, <2>1
<1>10. At(c, n - 1) = IF k = n THEN At(s, n - 1) ELSE At(s, n)
  <2>1. n - 1 \in 0 .. n /\ (n - 1 < k <=> k = n) /\ n - 1 + 1 = n
    BY <1>0
  <2> QED BY <1>2, <2>1
<1> QED BY <1>6, <1>7, <1>8, <1>9, <1>10 DEF c, n

\* A list loses its k-th node, the others nothing.
LEMMA CutKeeps ==
  ASSUME NEW nd, NEW ls, NEW w, Stands(nd, ls, w), NEW nd2, NEW ls2,
         NEW l \in Lists, NEW k \in 1 .. Len(w[l]),
         Untied(nd, nd2, w[l], k), Shortened(ls, ls2, l, w[l], k)
  PROVE  Holds(nd2, ls2, Put(Held(nd, w), l, Cut(DataOf(nd, w[l]), k)))
<1> DEFINE s == w[l]
           n == Len(s)
           c == Cut(s, k)
<1>0. /\ s \in Seq(Nodes) /\ n \in Nat /\ k \in Nat /\ 1 <= k /\ k <= n
      /\ Linked(nd, s) /\ Once(s) /\ Bounded(ls[l], s)
      /\ \A j \in 1 .. n : s[j] \in Nodes /\ s[j] # NULL
  <2>1. s \in Seq(Nodes) /\ Linked(nd, s) /\ Once(s) /\ Bounded(ls[l], s)
    BY DEF Stands
  <2> HIDE DEF s
  <2>2. n \in Nat /\ k \in Nat /\ 1 <= k /\ k <= n
    BY <2>1 DEF s
  <2>3. \A j \in 1 .. n : s[j] \in Nodes /\ s[j] # NULL
    BY <2>1, ListAssumption DEF Nodes, NULL
  <2> QED BY <2>1, <2>2, <2>3
<1>1. c \in Seq(Nodes) /\ Len(c) = n - 1 /\ \A j \in 1 .. n - 1 : c[j] = IF j < k THEN s[j] ELSE s[j + 1]
  BY <1>0, CutIs
<1>2. /\ Linked(nd2, c) /\ Once(c) /\ DataOf(nd2, c) = Cut(DataOf(nd, s), k)
      /\ At(c, 1) = (IF k = 1 THEN At(s, 2) ELSE At(s, 1))
      /\ At(c, n - 1) = IF k = n THEN At(s, n - 1) ELSE At(s, n)
  <2>1. Untied(nd, nd2, s, k)
    OBVIOUS
  <2>2. s \in Seq(Nodes) /\ Once(s) /\ Linked(nd, s) /\ k \in 1 .. Len(s)
    BY <1>0
  <2> HIDE DEF s
  <2> QED BY <2>1, <2>2, CutLinked
<1>3. \A m \in Lists : m # l => Disjoint(w[m], s)
  BY DEF Stands
<1>4. ASSUME NEW m \in Lists, m # l
      PROVE  /\ Disjoint(w[m], c)
             /\ \A j \in 1 .. Len(w[m]) : nd2[w[m][j]] = nd[w[m][j]]
  <2>1. w[m] \in Seq(Nodes)
    BY DEF Stands
  <2>2. \A j \in 1 .. Len(w[m]), i \in 1 .. n : w[m][j] \in Nodes /\ w[m][j] # NULL /\ w[m][j] # s[i]
    BY <1>3, <1>4, <2>1, ListAssumption DEF Disjoint, Nodes, NULL
  <2> HIDE DEF s, c, n
  <2>3. Disjoint(w[m], c)
    <3> SUFFICES ASSUME NEW j \in 1 .. Len(w[m]), NEW i \in 1 .. Len(c)
                 PROVE  w[m][j] # c[i]
      BY DEF Disjoint
    <3>1. i \in 1 .. n - 1 /\ i \in 1 .. n /\ i + 1 \in 1 .. n
      BY <1>0, <1>1
    <3>2. c[i] = s[i] \/ c[i] = s[i + 1]
      BY <1>1, <3>1
    <3> QED BY <2>2, <3>1, <3>2
  <2>4. ASSUME NEW j \in 1 .. Len(w[m])
        PROVE  nd2[w[m][j]] = nd[w[m][j]]
    <3>1. w[m][j] # At(s, k - 1) /\ w[m][j] # At(s, k + 1) /\ w[m][j] # s[k] /\ w[m][j] \in Nodes
      BY <1>0, <2>2, <2>4 DEF At, n
    <3> QED BY <3>1 DEF s, Untied
  <2> QED BY <2>3, <2>4
<1>5. Bounded(ls2[l], c)
  <2>1. ls[l].front = At(s, 1) /\ ls[l].back = At(s, n) /\ ls[l].count = n
    BY <1>0 DEF Bounded
  <2>2. (At(s, k - 1) = NULL <=> k = 1) /\ (At(s, k + 1) = NULL <=> k = n)
    <3>1. (k - 1 \in 1 .. n <=> k # 1) /\ (k + 1 \in 1 .. n <=> k # n)
      BY <1>0
    <3> HIDE DEF s
    <3> QED BY <1>0, <3>1 DEF At
  <2>9. /\ ls2[l].front = IF At(s, k - 1) = NULL THEN At(s, k + 1) ELSE ls[l].front
        /\ ls2[l].back = IF At(s, k + 1) = NULL THEN At(s, k - 1) ELSE ls[l].back
        /\ ls2[l].count = ls[l].count - 1
    BY DEF Shortened
  <2>3. ls2[l].front = At(c, 1)
    <3>1. CASE k = 1
      <4>1. k + 1 = 2
        BY <3>1
      <4> QED BY <1>2, <2>2, <2>9, <3>1, <4>1
    <3>2. CASE k # 1
      BY <1>2, <2>1, <2>2, <2>9, <3>2
    <3> QED BY <3>1, <3>2
  <2>4. ls2[l].back = At(c, n - 1)
    BY <1>2, <2>1, <2>2, <2>9
  <2>5. ls2[l].count = n - 1
    BY <2>1, <2>9
  <2> QED BY <1>1, <2>3, <2>4, <2>5 DEF Bounded
<1>6. /\ Stands(nd2, ls2, Put(w, l, c))
      /\ Held(nd2, Put(w, l, c)) = Put(Held(nd, w), l, DataOf(nd2, c))
  <2>1. Spared(nd, ls, w, nd2, ls2, l, c)
    BY <1>4 DEF Spared, Shortened
  <2>2. c \in Seq(Nodes) /\ Linked(nd2, c) /\ Once(c) /\ Bounded(ls2[l], c)
    BY <1>1, <1>2, <1>5
  <2> HIDE DEF c
  <2> QED BY <2>1, <2>2, Rewired
<1> QED BY <1>2, <1>6 DEF Holds

LEMMA DataOfIs ==
  ASSUME NEW nd, NEW s \in Seq(Nodes), Linked(nd, s)
  PROVE  /\ DataOf(nd, s) \in Seq(Data) /\ Len(DataOf(nd, s)) = Len(s)
         /\ \A k \in 1 .. Len(s) : DataOf(nd, s)[k] = nd[s[k]].data
<1>1. Len(s) \in Nat /\ \A k \in 1 .. Len(s) : nd[s[k]].data \in Data
  BY DEF Linked
<1> DEFINE e == DataOf(nd, s)
<1>2. e \in [1 .. Len(s) -> Data] /\ \A k \in 1 .. Len(s) : e[k] = nd[s[k]].data
  BY <1>1 DEF DataOf
<1> HIDE DEF e
<1>3. e \in Seq(Data) /\ Len(e) = Len(s)
  BY <1>1, <1>2
<1> QED BY <1>2, <1>3 DEF e

\* The links that a push and concat change: the end of s is tied to the beginning
\* of t.
Tied(nd, nd2, s, t) == \A m \in Nodes :
    /\ nd2[m].data = nd[m].data
    /\ nd2[m].next = IF m = At(s, Len(s)) THEN At(t, 1) ELSE nd[m].next
    /\ nd2[m].prev = IF m = At(t, 1) THEN At(s, Len(s)) ELSE nd[m].prev
    /\ m # At(s, Len(s)) /\ m # At(t, 1) => nd2[m] = nd[m]

\* What becomes of the fields of list l.
Joined(ls, ls2, l, s, t) ==
    /\ \A m \in Lists : m # l => ls2[m] = ls[m]
    /\ ls2[l].front = IF s = <<>> THEN At(t, 1) ELSE At(s, 1)
    /\ ls2[l].back = IF t = <<>> THEN At(s, Len(s)) ELSE At(t, Len(t))
    /\ ls2[l].count = Len(s) + Len(t)

\* Two runs of nodes that are tied together are one.
LEMMA JoinLinked ==
  ASSUME NEW nd, NEW nd2, NEW s \in Seq(Nodes), NEW t \in Seq(Nodes),
         Once(s), Once(t), Disjoint(s, t), Linked(nd, s), Linked(nd, t),
         Tied(nd, nd2, s, t)
  PROVE  /\ Linked(nd2, s \o t) /\ Once(s \o t)
         /\ DataOf(nd2, s \o t) = DataOf(nd, s) \o DataOf(nd, t)
         /\ At(s \o t, 1) = IF s = <<>> THEN At(t, 1) ELSE At(s, 1)
         /\ At(s \o t, Len(s \o t)) = IF t = <<>> THEN At(s, Len(s)) ELSE At(t, Len(t))
<1> DEFINE c == s \o t
           p == Len(s)
           q == Len(t)
<1>0. /\ p \in Nat /\ q \in Nat /\ p + q \in Nat
      /\ (s = <<>> <=> p = 0) /\ (t = <<>> <=> q = 0)
      /\ \A j \in 1 .. p : s[j] \in Nodes /\ s[j] # NULL
      /\ \A j \in 1 .. q : t[j] \in Nodes /\ t[j] # NULL
  BY ListAssumption DEF Nodes, NULL
<1>1. /\ c \in Seq(Nodes) /\ Len(c) = p + q
      /\ \A j \in 1 .. p + q : c[j] = IF j <= p THEN s[j] ELSE t[j - p]
  BY ConcatProperties
<1> HIDE DEF c
<1>2. \A j \in 0 .. p + q + 1 : At(c, j) = IF j <= p THEN At(s, j) ELSE At(t, j - p)
  <2> TAKE j \in 0 .. p + q + 1
  <2> HIDE DEF p, q
  <2>1. CASE j \in 1 .. p
    <3>1. j \in 1 .. p + q /\ j <= p
      BY <1>0, <2>1
    <3> QED BY <1>1, <2>1, <3>1 DEF At, p
  <2>2. CASE j = 0
    <3>1. j \notin 1 .. p + q /\ j \notin 1 .. p /\ j <= p
      BY <1>0, <2>2
    <3> QED BY <1>1, <3>1 DEF At, p
  <2>3. CASE j > p /\ j <= p + q
    <3>1. j \in 1 .. p + q /\ ~(j <= p) /\ j - p \in 1 .. q
      BY <1>0, <2>3
    <3> QED BY <1>1, <3>1 DEF At, q
  <2>4. CASE j = p + q + 1
    <3>1. j \notin 1 .. p + q /\ ~(j <= p) /\ j - p \notin 1 .. q
      BY <1>0, <2>4
    <3> QED BY <1>1, <3>1 DEF At, q
  <2> QED BY <1>0, <2>1, <2>2, <2>3, <2>4
<1>3. ASSUME NEW i \in 1 .. p
      PROVE  (s[i] = At(s, p) <=> i = p) /\ s[i] # At(t, 1)
  <2>1. p \in 1 .. p /\ At(s, p) = s[p]
    BY <1>0, <1>3 DEF At
  <2>2. s[i] = s[p] <=> i = p
    BY <1>3, <2>1 DEF Once
  <2>3. s[i] # At(t, 1)
    BY <1>0, <1>3 DEF At, Disjoint
  <2> QED BY <2>1, <2>2, <2>3
<1>4. ASSUME NEW i \in 1 .. q
      PROVE  (t[i] = At(t, 1) <=> i = 1) /\ t[i] # At(s, p)
  <2>1. 1 \in 1 .. q /\ At(t, 1) = t[1]
    BY <1>0, <1>4 DEF At
  <2>2. t[i] = t[1] <=> i = 1
    BY <1>4, <2>1 DEF Once
  <2>3. t[i] # At(s, p)
    BY <1>0, <1>4 DEF At, Disjoint
  <2> QED BY <2>1, <2>2, <2>3
<1>5. ASSUME NEW j \in 1 .. p
      PROVE  /\ c[j] = s[j] /\ nd2[c[j]].data = nd[s[j]].data /\ nd2[c[j]].data \in Data
             /\ nd2[c[j]].next = At(c, j + 1) /\ nd2[c[j]].prev = At(c, j - 1)
  <2>1. c[j] = s[j] /\ s[j] \in Nodes
    <3> HIDE DEF p, q
    <3>1. j \in 1 .. p + q /\ j <= p
      BY <1>0, <1>5
    <3> QED BY <1>0, <1>1, <3>1
  <2>2. nd[s[j]].data \in Data /\ nd[s[j]].next = At(s, j + 1) /\ nd[s[j]].prev = At(s, j - 1)
    BY DEF Linked
  <2>3. /\ nd2[s[j]].data = nd[s[j]].data
        /\ nd2[s[j]].next = IF j = p THEN At(t, 1) ELSE At(s, j + 1)
        /\ nd2[s[j]].prev = At(s, j - 1)
    BY <1>3, <2>1, <2>2 DEF Tied
  <2> HIDE DEF p, q
  <2>4. At(c, j - 1) = At(s, j - 1)
    <3>1. j - 1 \in 0 .. p + q + 1 /\ j - 1 <= p
      BY <1>0, <1>5
    <3> QED BY <1>2, <3>1
  <2>5. At(c, j + 1) = IF j = p THEN At(t, 1) ELSE At(s, j + 1)
    <3>1. j + 1 \in 0 .. p + q + 1 /\ (j + 1 <= p <=> j # p) /\ (j = p => j + 1 - p = 1)
      BY <1>0, <1>5
    <3> QED BY <1>2, <3>1
  <2> QED BY <2>1, <2>2, <2>3, <2>4, <2>5
<1>6. ASSUME NEW i \in 1 .. q
      PROVE  /\ c[i + p] = t[i] /\ nd2[c[i + p]].data = nd[t[i]].data /\ nd2[c[i + p]].data \in Data
             /\ nd2[c[i + p]].next = At(c, i + p + 1) /\ nd2[c[i + p]].prev = At(c, i + p - 1)
  <2>1. c[i + p] = t[i] /\ t[i] \in Nodes
    <3> HIDE DEF p, q
    <3>1. i + p \in 1 .. p + q /\ ~(i + p <= p) /\ i + p - p = i
      BY <1>0, <1>6
    <3> QED BY <1>0, <1>1, <3>1
  <2>2. nd[t[i]].data \in Data /\ nd[t[i]].next = At(t, i + 1) /\ nd[t[i]].prev = At(t, i - 1)
    BY DEF Linked
  <2>3. /\ nd2[t[i]].data = nd[t[i]].data
        /\ nd2[t[i]].next = At(t, i + 1)
        /\ nd2[t[i]].prev = IF i = 1 THEN At(s, p) ELSE At(t, i - 1)
    BY <1>4, <2>1, <2>2 DEF Tied
  <2> HIDE DEF p, q
  <2>4. At(c, i + p + 1) = At(t, i + 1)
    <3> DEFINE j == i + p + 1
    <3>1. j \in 0 .. p + q + 1 /\ ~(j <= p) /\ j - p = i + 1
      BY <1>0, <1>6
    <3> HIDE DEF j
    <3>2. At(c, j) = At(t, i + 1)
      BY <1>2, <3>1
    <3> QED BY <3>2 DEF j
  <2>5. At(c, i + p - 1) = IF i = 1 THEN At(s, p) ELSE At(t, i - 1)
    <3> DEFINE j == i + p - 1
    <3>1. /\ j \in 0 .. p + q + 1 /\ (j <= p <=> i = 1)
          /\ j - p = i - 1 /\ (i = 1 => j = p)
      BY <1>0, <1>6
    <3> HIDE DEF j
    <3>2. At(c, j) = IF i = 1 THEN At(s, p) ELSE At(t, i - 1)
      BY <1>2, <3>1
    <3> QED BY <3>2 DEF j
  <2> QED BY <2>1, <2>2, <2>3, <2>4, <2>5
<1> HIDE DEF p, q
<1>7. ASSUME NEW j \in 1 .. p + q
      PROVE  \/ j \in 1 .. p
             \/ j - p \in 1 .. q /\ (j - p) + p = j
  BY <1>0, <1>7
<1>8. Linked(nd2, c)
  <2> SUFFICES ASSUME NEW j \in 1 .. p + q
               PROVE  nd2[c[j]].data \in Data /\ nd2[c[j]].next = At(c, j + 1) /\ nd2[c[j]].prev = At(c, j - 1)
    BY <1>1 DEF Linked
  <2>1. CASE j \in 1 .. p
    BY <1>5, <2>1
  <2>2. CASE j - p \in 1 .. q /\ (j - p) + p = j
    <3> DEFINE i == j - p
    <3>1. i \in 1 .. q /\ i + p = j
      BY <2>2
    <3> HIDE DEF i
    <3>2. /\ nd2[c[i + p]].data \in Data
          /\ nd2[c[i + p]].next = At(c, i + p + 1) /\ nd2[c[i + p]].prev = At(c, i + p - 1)
      BY <1>6, <3>1
    <3>3. i + p + 1 = j + 1 /\ i + p - 1 = j - 1
      BY <1>0, <3>1
    <3>4. At(c, i + p + 1) = At(c, j + 1) /\ At(c, i + p - 1) = At(c, j - 1) /\ c[i + p] = c[j]
      BY <3>1, <3>3, Zenon
    <3> QED BY <3>2, <3>4, Zenon
  <2> QED BY <1>7, <2>1, <2>2
<1>9. Once(c)
  <2> SUFFICES ASSUME NEW i \in 1 .. p + q, NEW j \in 1 .. p + q, c[i] = c[j]
               PROVE  i = j
    BY <1>1 DEF Once
  <2>1. CASE i \in 1 .. p /\ j \in 1 .. p
    <3>1. s[i] = s[j]
      BY <1>5, <2>1
    <3> QED BY <2>1, <3>1 DEF Once, p
  <2>2. CASE i - p \in 1 .. q /\ j - p \in 1 .. q
    <3>1. t[i - p] = t[j - p]
      <4>1. (i - p) + p = i /\ (j - p) + p = j
        BY <1>0
      <4> QED BY <1>6, <2>2, <4>1
    <3>2. i - p = j - p
      BY <2>2, <3>1 DEF Once, q
    <3> QED BY <1>0, <3>2
  <2>3. ASSUME NEW x \in 1 .. p, NEW y \in 1 .. p + q, y - p \in 1 .. q
        PROVE  c[x] # c[y]
    <3>1. (y - p) + p = y
      BY <1>0
    <3>2. c[x] = s[x] /\ c[y] = t[y - p]
      BY <1>5, <1>6, <2>3, <3>1
    <3> QED BY <2>3, <3>2 DEF Disjoint, p, q
  <2> QED BY <1>7, <2>1, <2>2, <2>3
<1>10. DataOf(nd2, c) = DataOf(nd, s) \o DataOf(nd, t)
  <2> DEFINE a == DataOf(nd, s)
             b == DataOf(nd, t)
             e == DataOf(nd2, c)
  <2>1. /\ a \in Seq(Data) /\ Len(a) = p /\ \A k \in 1 .. p : a[k] = nd[s[k]].data
        /\ b \in Seq(Data) /\ Len(b) = q /\ \A k \in 1 .. q : b[k] = nd[t[k]].data
    BY DataOfIs DEF p, q
  <2>2. e \in Seq(Data) /\ Len(e) = p + q /\ \A k \in 1 .. p + q : e[k] = nd2[c[k]].data
    BY <1>1, <1>8, DataOfIs
  <2> HIDE DEF a, b, e
  <2>3. /\ a \o b \in Seq(Data) /\ Len(a \o b) = p + q
        /\ \A k \in 1 .. p + q : (a \o b)[k] = IF k <= p THEN a[k] ELSE b[k - p]
    <3>1. /\ a \o b \in Seq(Data) /\ Len(a \o b) = Len(a) + Len(b)
          /\ \A k \in 1 .. Len(a) + Len(b) : (a \o b)[k] = IF k <= Len(a) THEN a[k] ELSE b[k - Len(a)]
      BY <2>1, ConcatProperties
    <3> QED BY <2>1, <3>1
  <2>4. ASSUME NEW k \in 1 .. p + q
        PROVE  e[k] = (a \o b)[k]
    <3>1. CASE k \in 1 .. p
      <4>1. k <= p
        BY <1>0, <3>1
      <4>2. e[k] = nd2[c[k]].data /\ nd2[c[k]].data = nd[s[k]].data
        BY <1>5, <2>2, <2>4, <3>1
      <4>3. (a \o b)[k] = a[k] /\ a[k] = nd[s[k]].data
        BY <2>1, <2>3, <2>4, <3>1, <4>1
      <4> QED BY <4>2, <4>3
    <3>2. CASE k - p \in 1 .. q /\ (k - p) + p = k
      <4>1. ~(k <= p)
        BY <1>0, <3>2
      <4>2. nd2[c[(k - p) + p]].data = nd[t[k - p]].data
        BY <1>6, <3>2
      <4>3. e[k] = nd2[c[k]].data /\ c[(k - p) + p] = c[k]
        BY <2>2, <2>4, <3>2
      <4>4. (a \o b)[k] = b[k - p] /\ b[k - p] = nd[t[k - p]].data
        BY <2>1, <2>3, <2>4, <3>2, <4>1
      <4> QED BY <4>2, <4>3, <4>4
    <3> QED BY <1>7, <2>4, <3>1, <3>2
  <2>5. e = a \o b
    BY <2>2, <2>3, <2>4, SeqEqual
  <2> QED BY <2>5 DEF a, b, e
<1>11. At(c, 1) = IF s = <<>> THEN At(t, 1) ELSE At(s, 1)
  <2>1. 1 \in 0 .. p + q + 1 /\ (1 <= p <=> p # 0) /\ (p = 0 => 1 - p = 1)
    BY <1>0
  <2> QED BY <1>0, <1>2, <2>1
<1>12. At(c, p + q) = IF t = <<>> THEN At(s, p) ELSE At(t, q)
  <2>1. /\ p + q \in 0 .. p + q + 1 /\ (p + q <= p <=> q = 0)
        /\ p + q - p = q /\ (q = 0 => p + q = p)
    BY <1>0
  <2> QED BY <1>0, <1>2, <2>1
<1> QED BY <1>1, <1>8, <1>9, <1>10, <1>11, <1>12 DEF c, p, q

\* A list comes to stand for s, followed by t, the others lose nothing.
LEMMA JoinKeeps ==
  ASSUME NEW nd, NEW ls, NEW w, Stands(nd, ls, w), NEW nd2, NEW ls2, NEW l \in Lists,
         NEW s \in Seq(Nodes), NEW t \in Seq(Nodes),
         Once(s), Once(t), Disjoint(s, t), Linked(nd, s), Linked(nd, t),
         Tied(nd, nd2, s, t), Joined(ls, ls2, l, s, t),
         \A m \in Lists : m # l => Disjoint(w[m], s) /\ Disjoint(w[m], t)
  PROVE  Holds(nd2, ls2, Put(Held(nd, w), l, DataOf(nd, s) \o DataOf(nd, t)))
<1> DEFINE c == s \o t
           p == Len(s)
           q == Len(t)
<1>0. /\ p \in Nat /\ q \in Nat
      /\ \A j \in 1 .. p : s[j] \in Nodes
      /\ \A j \in 1 .. q : t[j] \in Nodes
  OBVIOUS
<1>1. /\ c \in Seq(Nodes) /\ Len(c) = p + q
      /\ \A j \in 1 .. p + q : c[j] = IF j <= p THEN s[j] ELSE t[j - p]
  BY ConcatProperties
<1>2. /\ Linked(nd2, c) /\ Once(c) /\ DataOf(nd2, c) = DataOf(nd, s) \o DataOf(nd, t)
      /\ At(c, 1) = (IF s = <<>> THEN At(t, 1) ELSE At(s, 1))
      /\ At(c, Len(c)) = IF t = <<>> THEN At(s, p) ELSE At(t, q)
  <2>1. /\ Linked(nd2, s \o t) /\ Once(s \o t)
        /\ DataOf(nd2, s \o t) = DataOf(nd, s) \o DataOf(nd, t)
        /\ At(s \o t, 1) = IF s = <<>> THEN At(t, 1) ELSE At(s, 1)
        /\ At(s \o t, Len(s \o t)) = IF t = <<>> THEN At(s, Len(s)) ELSE At(t, Len(t))
    BY JoinLinked, Zenon
  <2> QED BY <2>1
<1>3. ASSUME NEW m \in Lists, m # l
      PROVE  /\ Disjoint(w[m], c)
             /\ \A j \in 1 .. Len(w[m]) : nd2[w[m][j]] = nd[w[m][j]]
  <2>1. w[m] \in Seq(Nodes) /\ Disjoint(w[m], s) /\ Disjoint(w[m], t)
    BY <1>3 DEF Stands
  <2>2. \A j \in 1 .. Len(w[m]) : /\ w[m][j] \in Nodes /\ w[m][j] # NULL
                                  /\ \A i \in 1 .. p : w[m][j] # s[i]
                                  /\ \A i \in 1 .. q : w[m][j] # t[i]
    <3> TAKE j \in 1 .. Len(w[m])
    <3>1. w[m][j] \in Nodes
      BY <2>1
    <3>2. w[m][j] # NULL
      BY <3>1, ListAssumption DEF Nodes, NULL
    <3> QED BY <2>1, <3>1, <3>2 DEF Disjoint
  <2>3. Disjoint(w[m], c)
    <3> SUFFICES ASSUME NEW j \in 1 .. Len(w[m]), NEW i \in 1 .. p + q
                 PROVE  w[m][j] # c[i]
      BY <1>1 DEF Disjoint
    <3> HIDE DEF c, p, q
    <3>1. \/ i <= p /\ i \in 1 .. p
          \/ ~(i <= p) /\ i - p \in 1 .. q
      BY <1>0
    <3> QED BY <1>1, <2>2, <3>1
  <2>4. ASSUME NEW j \in 1 .. Len(w[m])
        PROVE  nd2[w[m][j]] = nd[w[m][j]]
    <3>1. w[m][j] \in Nodes /\ w[m][j] # At(s, Len(s)) /\ w[m][j] # At(t, 1)
      BY <2>2, <2>4 DEF At
    <3> QED BY <3>1 DEF Tied
  <2> QED BY <2>3, <2>4
<1>4. Bounded(ls2[l], c)
  BY <1>1, <1>2 DEF Bounded, Joined
<1>5. /\ Stands(nd2, ls2, Put(w, l, c))
      /\ Held(nd2, Put(w, l, c)) = Put(Held(nd, w), l, DataOf(nd2, c))
  <2>1. Spared(nd, ls, w, nd2, ls2, l, c)
    BY <1>3 DEF Spared, Joined
  <2>2. c \in Seq(Nodes) /\ Linked(nd2, c) /\ Once(c) /\ Bounded(ls2[l], c)
    BY <1>1, <1>2, <1>4
  <2> HIDE DEF c
  <2> QED BY <2>1, <2>2, Rewired
<1> QED BY <1>2, <1>5 DEF Holds

\* What a node that is in no list is used for.
LEMMA FreshKeeps ==
  ASSUME ListTypes(node, list), NEW w, Stands(node, list, w), NEW n \in Nodes, Fresh(n),
         NEW d \in Data, NEW nd,
         nd = [node EXCEPT ![n] = [next |-> NULL, prev |-> NULL, data |-> d]]
  PROVE  /\ Stands(nd, list, w) /\ Held(nd, w) = Held(node, w)
         /\ \A l \in Lists : Disjoint(w[l], <<n>>) /\ Disjoint(<<n>>, w[l])
         /\ <<n>> \in Seq(Nodes) /\ Len(<<n>>) = 1 /\ Once(<<n>>) /\ Linked(nd, <<n>>)
         /\ DataOf(nd, <<n>>) = <<d>>
<1>1. \A m \in Nodes : nd[m] = IF m = n THEN [next |-> NULL, prev |-> NULL, data |-> d] ELSE node[m]
  BY DEF ListTypes
<1>2. \A l \in Lists : w[l] \in Seq(Nodes) /\ Linked(node, w[l])
  BY DEF Stands
<1>3. \A l \in Lists : \A k \in 1 .. Len(w[l]) : w[l][k] \in Nodes /\ w[l][k] # n /\ nd[w[l][k]] = node[w[l][k]]
  <2> TAKE l \in Lists
  <2> TAKE k \in 1 .. Len(w[l])
  <2>1. w[l][k] \in Nodes /\ node[w[l][k]].data \in Data
    BY <1>2 DEF Linked
  <2>2. node[n].data = NoData /\ NoData \notin Data
    BY ListAssumption DEF Fresh
  <2>3. w[l][k] # n
    BY <2>1, <2>2
  <2> QED BY <1>1, <2>1, <2>3
<1>4. \A l \in Lists : Linked(nd, w[l])
  BY <1>2, <1>3 DEF Linked
<1>5. Stands(nd, list, w)
  BY <1>4 DEF Stands
<1>6. Held(nd, w) = Held(node, w)
  <2>1. \A l \in Lists : DataOf(nd, w[l]) = DataOf(node, w[l])
    BY <1>3 DEF DataOf
  <2> QED BY <2>1 DEF Held
<1>7. <<n>> \in Seq(Nodes) /\ Len(<<n>>) = 1 /\ <<n>>[1] = n /\ \A k \in 1 .. 1 : k = 1
  OBVIOUS
<1>8. \A l \in Lists : Disjoint(w[l], <<n>>) /\ Disjoint(<<n>>, w[l])
  BY <1>3, <1>7 DEF Disjoint
<1>9. Once(<<n>>)
  BY <1>7 DEF Once
<1>10. Linked(nd, <<n>>)
  <2>1. At(<<n>>, 2) = NULL /\ At(<<n>>, 0) = NULL
    BY <1>7 DEF At
  <2>2. nd[n].data = d /\ nd[n].next = NULL /\ nd[n].prev = NULL
    BY <1>1
  <2>3. nd[<<n>>[1]].data \in Data /\ nd[<<n>>[1]].next = At(<<n>>, 1 + 1) /\ nd[<<n>>[1]].prev = At(<<n>>, 1 - 1)
    BY <1>7, <2>1, <2>2
  <2> QED BY <1>7, <2>3 DEF Linked
<1>11. DataOf(nd, <<n>>) = <<d>>
  <2> DEFINE r == <<n>>
             e == DataOf(nd, r)
  <2>1. r \in Seq(Nodes) /\ Linked(nd, r) /\ Len(r) = 1 /\ r[1] = n
    BY <1>7, <1>10
  <2> HIDE DEF r
  <2>2. e \in Seq(Data) /\ Len(e) = Len(r) /\ \A k \in 1 .. Len(r) : e[k] = nd[r[k]].data
    BY <2>1, DataOfIs
  <2> HIDE DEF e
  <2>3. Len(e) = 1 /\ e[1] = nd[n].data /\ nd[n].data = d
    BY <1>1, <2>1, <2>2
  <2>4. e = <<d>>
    BY <2>2, <2>3
  <2> QED BY <2>4 DEF e, r
<1> QED BY <1>5, <1>6, <1>7, <1>8, <1>9, <1>10, <1>11

LEMMA EndsAre ==
  ASSUME NEW nd, NEW ls, NEW w, Stands(nd, ls, w), NEW l \in Lists
  PROVE  /\ w[l] \in Seq(Nodes) /\ Len(w[l]) \in Nat /\ Linked(nd, w[l]) /\ Once(w[l])
         /\ ls[l].front = At(w[l], 1) /\ ls[l].back = At(w[l], Len(w[l])) /\ ls[l].count = Len(w[l])
         /\ w[l] = <<>> <=> Len(w[l]) = 0
         /\ At(w[l], 1) = NULL <=> w[l] = <<>>
         /\ At(w[l], Len(w[l])) = NULL <=> w[l] = <<>>
         /\ \A k \in Int : At(w[l], k) \in Nodes \cup {NULL}
         /\ \A m \in Lists : m # l => Disjoint(w[m], w[l])
<1> DEFINE s == w[l]
<1>1. s \in Seq(Nodes) /\ Linked(nd, s) /\ Once(s) /\ Bounded(ls[l], s)
      /\ \A m \in Lists : m # l => Disjoint(w[m], s)
  BY DEF Stands
<1> HIDE DEF s
<1>2. Len(s) \in Nat /\ (s = <<>> <=> Len(s) = 0) /\ \A k \in 1 .. Len(s) : s[k] \in Nodes
  BY <1>1
<1>3. NULL \notin Nodes
  BY ListAssumption DEF Nodes, NULL
<1>4. \A k \in Int : At(s, k) \in Nodes \cup {NULL} /\ (At(s, k) = NULL <=> k \notin 1 .. Len(s))
  BY <1>2, <1>3 DEF At
<1>5. (At(s, 1) = NULL <=> s = <<>>) /\ (At(s, Len(s)) = NULL <=> s = <<>>)
  BY <1>2, <1>4
<1> QED BY <1>1, <1>2, <1>4, <1>5 DEF Bounded, s

\* After the step, the heap and the lists are well-formed and hold H.
Becomes(H) == ListTypes(node', list') /\ Holds(node', list', H)

\* ezgrpc2_list_push_back: the last node is tied to a new one.
LEMMA PushBackKeeps ==
  ASSUME ListTypes(node, list), NEW w, Stands(node, list, w),
         NEW l \in Lists, NEW d \in Data, PushBack(l, d)
  PROVE  Becomes(Put(Held(node, w), l, Append(DataOf(node, w[l]), d)))
<1>1. PICK n \in Nodes :
        /\ Fresh(n)
        /\ node' = [m \in Nodes |->
                      IF m = n THEN [next |-> NULL, prev |-> list[l].back, data |-> d]
                      ELSE IF m = list[l].back THEN [node[m] EXCEPT !.next = n]
                      ELSE node[m]]
        /\ list' = [list EXCEPT ![l].back = n, ![l].count = @ + 1,
                                ![l].front = IF list[l].back = NULL THEN n ELSE @]
  BY DEF PushBack
<1> DEFINE nd == [node EXCEPT ![n] = [next |-> NULL, prev |-> NULL, data |-> d]]
           s  == w[l]
           t  == <<n>>
<1>2. /\ s \in Seq(Nodes) /\ Len(s) \in Nat /\ Linked(node, s) /\ Once(s)
      /\ list[l].front = At(s, 1) /\ list[l].back = At(s, Len(s)) /\ list[l].count = Len(s)
      /\ (At(s, Len(s)) = NULL <=> s = <<>>)
      /\ \A m \in Lists : m # l => Disjoint(w[m], s)
  BY EndsAre
<1>3. /\ Stands(nd, list, w) /\ Held(nd, w) = Held(node, w)
      /\ \A m \in Lists : Disjoint(w[m], t) /\ Disjoint(t, w[m])
      /\ t \in Seq(Nodes) /\ Len(t) = 1 /\ Once(t) /\ Linked(nd, t)
      /\ DataOf(nd, t) = <<d>>
  BY <1>1, FreshKeeps
<1>4. /\ \A m \in Nodes : nd[m] = IF m = n THEN [next |-> NULL, prev |-> NULL, data |-> d] ELSE node[m]
      /\ \A m \in Nodes : node[m] \in NodeType
      /\ \A m \in Lists : list[m] \in ListType
  BY DEF ListTypes
<1>5. At(t, 1) = n /\ At(t, Len(t)) = n /\ n # NULL /\ t # <<>>
  BY <1>3, ListAssumption DEF At, Nodes, NULL
<1>6. /\ Linked(nd, s) /\ Disjoint(s, t) /\ DataOf(nd, s) = DataOf(node, s)
      /\ n # At(s, Len(s))
  <2>1. Linked(nd, s)
    BY <1>3, EndsAre
  <2>2. DataOf(nd, s) = DataOf(node, s)
    <3>1. Held(nd, w)[l] = DataOf(nd, s) /\ Held(node, w)[l] = DataOf(node, s)
      BY DEF Held
    <3> QED BY <1>3, <3>1
  <2>3. Disjoint(s, t)
    BY <1>3
  <2>4. n # At(s, Len(s))
    BY <1>3, <1>5, <2>3 DEF At, Disjoint
  <2> QED BY <2>1, <2>2, <2>3, <2>4
<1> HIDE DEF nd, s, t
<1>7. Tied(nd, node', s, t)
  <2> SUFFICES ASSUME NEW m \in Nodes
               PROVE  /\ node'[m].data = nd[m].data
                      /\ node'[m].next = IF m = At(s, Len(s)) THEN At(t, 1) ELSE nd[m].next
                      /\ node'[m].prev = IF m = At(t, 1) THEN At(s, Len(s)) ELSE nd[m].prev
                      /\ m # At(s, Len(s)) /\ m # At(t, 1) => node'[m] = nd[m]
    BY DEF Tied
  <2>1. CASE m = n
    BY <1>1, <1>2, <1>4, <1>5, <1>6, <2>1
  <2>2. CASE m # n /\ m = At(s, Len(s))
    <3>1. node'[m] = [node[m] EXCEPT !.next = n] /\ nd[m] = node[m]
      BY <1>1, <1>2, <1>4, <2>2
    <3> QED BY <1>4, <1>5, <2>2, <3>1 DEF NodeType
  <2>3. CASE m # n /\ m # At(s, Len(s))
    BY <1>1, <1>2, <1>4, <1>5, <2>3
  <2> QED BY <2>1, <2>2, <2>3
<1>9. /\ \A m \in Lists : m # l => list'[m] = list[m]
      /\ list'[l] = [front |-> IF s = <<>> THEN n ELSE At(s, 1), back |-> n, count |-> Len(s) + 1]
  BY <1>1, <1>2, <1>4 DEF ListType, ListTypes
<1>10. ListTypes(node', list')
  <2>1. node' \in [Nodes -> NodeType]
    <3>1. \A m \in Nodes : node'[m] \in NodeType
      BY <1>1, <1>4 DEF NodeType, ListType
    <3> QED BY <1>1, <3>1
  <2>2. list' \in [Lists -> ListType]
    <3>1. list'[l] \in ListType
      BY <1>2, <1>4, <1>9 DEF ListType
    <3>2. \A m \in Lists : list'[m] \in ListType
      BY <1>4, <1>9, <3>1
    <3> QED BY <1>1, <3>2 DEF ListTypes
  <2> QED BY <2>1, <2>2 DEF ListTypes
<1>11. Joined(list, list', l, s, t)
  BY <1>3, <1>5, <1>9 DEF Joined
<1>12. \A m \in Lists : m # l => Disjoint(w[m], s) /\ Disjoint(w[m], t)
  BY <1>2, <1>3
<1>13. Holds(node', list', Put(Held(nd, w), l, DataOf(nd, s) \o DataOf(nd, t)))
  <2>1. /\ s \in Seq(Nodes) /\ t \in Seq(Nodes) /\ Once(s) /\ Once(t) /\ Disjoint(s, t)
        /\ Linked(nd, s) /\ Linked(nd, t) /\ Stands(nd, list, w)
    BY <1>2, <1>3, <1>6
  <2> QED BY <1>7, <1>11, <1>12, <2>1, JoinKeeps
<1>14. DataOf(nd, s) \o DataOf(nd, t) = Append(DataOf(node, s), d)
  <2>1. DataOf(node, s) \in Seq(Data)
    BY <1>2, DataOfIs
  <2>2. \A e \in Seq(Data) : e \o <<d>> = Append(e, d)
    OBVIOUS
  <2> QED BY <1>3, <1>6, <2>1, <2>2
<1> QED BY <1>3, <1>10, <1>13, <1>14 DEF Becomes, s

\* ezgrpc2_list_push_front: a new node is tied to the first one.
LEMMA PushFrontKeeps ==
  ASSUME ListTypes(node, list), NEW w, Stands(node, list, w),
         NEW l \in Lists, NEW d \in Data, PushFront(l, d)
  PROVE  Becomes(Put(Held(node, w), l, <<d>> \o DataOf(node, w[l])))
<1>1. PICK n \in Nodes :
        /\ Fresh(n)
        /\ node' = [m \in Nodes |->
                      IF m = n THEN [next |-> list[l].front, prev |-> NULL, data |-> d]
                      ELSE IF m = list[l].front THEN [node[m] EXCEPT !.prev = n]
                      ELSE node[m]]
        /\ list' = [list EXCEPT ![l].front = n, ![l].count = @ + 1,
                                ![l].back = IF list[l].front = NULL THEN n ELSE @]
  BY DEF PushFront
<1> DEFINE nd == [node EXCEPT ![n] = [next |-> NULL, prev |-> NULL, data |-> d]]
           s  == w[l]
           t  == <<n>>
<1>2. /\ s \in Seq(Nodes) /\ Len(s) \in Nat /\ Linked(node, s) /\ Once(s)
      /\ list[l].front = At(s, 1) /\ list[l].back = At(s, Len(s)) /\ list[l].count = Len(s)
      /\ (At(s, 1) = NULL <=> s = <<>>)
      /\ \A m \in Lists : m # l => Disjoint(w[m], s)
  BY EndsAre
<1>3. /\ Stands(nd, list, w) /\ Held(nd, w) = Held(node, w)
      /\ \A m \in Lists : Disjoint(w[m], t) /\ Disjoint(t, w[m])
      /\ t \in Seq(Nodes) /\ Len(t) = 1 /\ Once(t) /\ Linked(nd, t)
      /\ DataOf(nd, t) = <<d>>
  BY <1>1, FreshKeeps
<1>4. /\ \A m \in Nodes : nd[m] = IF m = n THEN [next |-> NULL, prev |-> NULL, data |-> d] ELSE node[m]
      /\ \A m \in Nodes : node[m] \in NodeType
      /\ \A m \in Lists : list[m] \in ListType
  BY DEF ListTypes
<1>5. At(t, 1) = n /\ At(t, Len(t)) = n /\ n # NULL /\ t # <<>>
  BY <1>3, ListAssumption DEF At, Nodes, NULL
<1>6. /\ Linked(nd, s) /\ Disjoint(t, s) /\ DataOf(nd, s) = DataOf(node, s)
      /\ n # At(s, 1)
  <2>1. Linked(nd, s)
    BY <1>3, EndsAre
  <2>2. DataOf(nd, s) = DataOf(node, s)
    <3>1. Held(nd, w)[l] = DataOf(nd, s) /\ Held(node, w)[l] = DataOf(node, s)
      BY DEF Held
    <3> QED BY <1>3, <3>1
  <2>3. Disjoint(t, s)
    BY <1>3
  <2>4. n # At(s, 1)
    BY <1>3, <1>5, <2>3 DEF At, Disjoint
  <2> QED BY <2>1, <2>2, <2>3, <2>4
<1> HIDE DEF nd, s, t
<1>7. Tied(nd, node', t, s)
  <2> SUFFICES ASSUME NEW m \in Nodes
               PROVE  /\ node'[m].data = nd[m].data
                      /\ node'[m].next = IF m = At(t, Len(t)) THEN At(s, 1) ELSE nd[m].next
                      /\ node'[m].prev = IF m = At(s, 1) THEN At(t, Len(t)) ELSE nd[m].prev
                      /\ m # At(t, Len(t)) /\ m # At(s, 1) => node'[m] = nd[m]
    BY DEF Tied
  <2>1. CASE m = n
    BY <1>1, <1>2, <1>4, <1>5, <1>6, <2>1
  <2>2. CASE m # n /\ m = At(s, 1)
    <3>1. node'[m] = [node[m] EXCEPT !.prev = n] /\ nd[m] = node[m]
      BY <1>1, <1>2, <1>4, <2>2
    <3> QED BY <1>4, <1>5, <2>2, <3>1 DEF NodeType
  <2>3. CASE m # n /\ m # At(s, 1)
    BY <1>1, <1>2, <1>4, <1>5, <2>3
  <2> QED BY <2>1, <2>2, <2>3
<1>9. /\ \A m \in Lists : m # l => list'[m] = list[m]
      /\ list'[l] = [front |-> n, back |-> IF s = <<>> THEN n ELSE At(s, Len(s)), count |-> 1 + Len(s)]
  BY <1>1, <1>2, <1>4 DEF ListType, ListTypes
<1>10. ListTypes(node', list')
  <2>1. node' \in [Nodes -> NodeType]
    <3>1. \A m \in Nodes : node'[m] \in NodeType
      BY <1>1, <1>4 DEF NodeType, ListType
    <3> QED BY <1>1, <3>1
  <2>2. list' \in [Lists -> ListType]
    <3>1. list'[l] \in ListType
      BY <1>2, <1>4, <1>9 DEF ListType
    <3>2. \A m \in Lists : list'[m] \in ListType
      BY <1>4, <1>9, <3>1
    <3> QED BY <1>1, <3>2 DEF ListTypes
  <2> QED BY <2>1, <2>2 DEF ListTypes
<1>11. Joined(list, list', l, t, s)
  BY <1>3, <1>5, <1>9 DEF Joined
<1>12. \A m \in Lists : m # l => Disjoint(w[m], s) /\ Disjoint(w[m], t)
  BY <1>2, <1>3
<1>13. Holds(node', list', Put(Held(nd, w), l, DataOf(nd, t) \o DataOf(nd, s)))
  <2>1. /\ s \in Seq(Nodes) /\ t \in Seq(Nodes) /\ Once(s) /\ Once(t) /\ Disjoint(t, s)
        /\ Linked(nd, s) /\ Linked(nd, t) /\ Stands(nd, list, w)
    BY <1>2, <1>3, <1>6
  <2> QED BY <1>7, <1>11, <1>12, <2>1, JoinKeeps
<1>14. DataOf(nd, t) \o DataOf(nd, s) = <<d>> \o DataOf(node, s)
  BY <1>3, <1>6
<1> QED BY <1>3, <1>10, <1>13, <1>14 DEF Becomes, s

\* ezgrpc2_list_concat_and_empty_src: the nodes of src are tied behind those of dst.
LEMMA ConcatKeeps ==
  ASSUME ListTypes(node, list), NEW w, Stands(node, list, w),
         NEW dst \in Lists, NEW src \in Lists, dst # src, Concat(dst, src)
  PROVE  Becomes(Put(Put(Held(node, w), src, <<>>), dst,
                     DataOf(node, w[dst]) \o DataOf(node, w[src])))
<1> DEFINE s  == w[dst]
           t  == w[src]
           e  == <<>>
           w1 == Put(w, src, e)
           l1 == Put(list, src, Empty)
<1>1. /\ s \in Seq(Nodes) /\ Len(s) \in Nat /\ Linked(node, s) /\ Once(s)
      /\ list[dst].front = At(s, 1) /\ list[dst].back = At(s, Len(s)) /\ list[dst].count = Len(s)
      /\ (At(s, 1) = NULL <=> s = <<>>) /\ (At(s, Len(s)) = NULL <=> s = <<>>)
      /\ \A m \in Lists : m # dst => Disjoint(w[m], s)
  BY EndsAre
<1>2. /\ t \in Seq(Nodes) /\ Len(t) \in Nat /\ Linked(node, t) /\ Once(t)
      /\ list[src].front = At(t, 1) /\ list[src].back = At(t, Len(t)) /\ list[src].count = Len(t)
      /\ (t = <<>> <=> Len(t) = 0) /\ (At(t, 1) = NULL <=> t = <<>>)
      /\ \A m \in Lists : m # src => Disjoint(w[m], t)
  BY EndsAre
<1>3. /\ list[src].count > 0
      /\ node' = [m \in Nodes |->
                  IF m = list[dst].back THEN [node[m] EXCEPT !.next = list[src].front]
                  ELSE IF m = list[src].front /\ list[dst].back # NULL
                       THEN [node[m] EXCEPT !.prev = list[dst].back]
                  ELSE node[m]]
      /\ list' = [list EXCEPT
                  ![dst] = [front |-> IF @.front # NULL THEN @.front ELSE list[src].front,
                            back  |-> list[src].back,
                            count |-> @.count + list[src].count],
                  ![src] = Empty]
  BY DEF Concat
<1>4. /\ \A m \in Nodes : node[m] \in NodeType
      /\ list \in [Lists -> ListType] /\ \A m \in Lists : list[m] \in ListType
  BY DEF ListTypes
<1>5. /\ e \in Seq(Nodes) /\ Linked(node, e) /\ Once(e) /\ Bounded(Empty, e)
      /\ DataOf(node, e) = <<>> /\ \A x : Disjoint(x, e)
  <2>1. e \in Seq(Nodes) /\ Len(e) = 0 /\ 1 .. Len(e) = {} /\ 0 \notin 1 .. Len(e) /\ 1 \notin 1 .. Len(e)
    OBVIOUS
  <2>2. Linked(node, e) /\ Once(e) /\ Bounded(Empty, e) /\ \A x : Disjoint(x, e)
    <3> HIDE DEF e
    <3> QED BY <2>1 DEF Linked, Once, Bounded, Empty, At, Disjoint
  <2>3. DataOf(node, e) = <<>>
    <3> HIDE DEF e
    <3>1. DataOf(node, e) \in Seq(Data) /\ Len(DataOf(node, e)) = 0
      BY <2>1, <2>2, DataOfIs
    <3> QED BY <3>1
  <2> QED BY <2>1, <2>2, <2>3
<1>6. l1[src] = Empty /\ \A m \in Lists : m # src => l1[m] = list[m]
  BY <1>4 DEF Put
<1>7. Stands(node, l1, w1) /\ Held(node, w1) = Put(Held(node, w), src, <<>>)
  <2>1. Spared(node, list, w, node, l1, src, e)
    BY <1>5, <1>6 DEF Spared
  <2> HIDE DEF e, l1
  <2> QED BY <1>5, <1>6, <2>1, Rewired
<1>8. Tied(node, node', s, t)
  <2> HIDE DEF s, t
  <2> SUFFICES ASSUME NEW m \in Nodes
               PROVE  /\ node'[m].data = node[m].data
                      /\ node'[m].next = IF m = At(s, Len(s)) THEN At(t, 1) ELSE node[m].next
                      /\ node'[m].prev = IF m = At(t, 1) THEN At(s, Len(s)) ELSE node[m].prev
                      /\ m # At(s, Len(s)) /\ m # At(t, 1) => node'[m] = node[m]
    BY DEF Tied
  <2>1. m # NULL /\ node[m] \in NodeType
    BY <1>4, ListAssumption DEF Nodes, NULL
  <2>2. ~(m = At(s, Len(s)) /\ m = At(t, 1))
    <3> SUFFICES ASSUME m = At(s, Len(s)), m = At(t, 1)
                 PROVE  FALSE
      OBVIOUS
    <3>1. Len(s) \in 1 .. Len(s) /\ 1 \in 1 .. Len(t) /\ s[Len(s)] = t[1]
      BY <2>1 DEF At
    <3>2. Disjoint(s, t)
      BY <1>2 DEF s, t
    <3> QED BY <3>1, <3>2 DEF Disjoint
  <2>3. CASE m = At(s, Len(s))
    <3>1. node'[m] = [node[m] EXCEPT !.next = At(t, 1)]
      BY <1>1, <1>2, <1>3, <2>3
    <3> QED BY <2>1, <2>2, <2>3, <3>1 DEF NodeType
  <2>4. CASE m = At(t, 1) /\ m # At(s, Len(s)) /\ At(s, Len(s)) # NULL
    <3>1. node'[m] = [node[m] EXCEPT !.prev = At(s, Len(s))]
      BY <1>1, <1>2, <1>3, <2>4
    <3> QED BY <2>1, <2>4, <3>1 DEF NodeType
  <2>5. CASE m = At(t, 1) /\ m # At(s, Len(s)) /\ At(s, Len(s)) = NULL
    <3>1. node'[m] = node[m]
      BY <1>1, <1>2, <1>3, <2>5
    <3>2. 1 \in 1 .. Len(t) /\ m = t[1] /\ 0 \notin 1 .. Len(t)
      BY <1>2, <2>1, <2>5 DEF At
    <3>3. node[m].prev = NULL
      <4>1. node[t[1]].prev = At(t, 1 - 1)
        BY <1>2, <3>2 DEF Linked
      <4> QED BY <3>2, <4>1 DEF At
    <3> QED BY <2>5, <3>1, <3>3
  <2>6. CASE m # At(t, 1) /\ m # At(s, Len(s))
    BY <1>1, <1>2, <1>3, <2>6
  <2> QED BY <2>3, <2>4, <2>5, <2>6
<1>9. /\ \A m \in Lists : m # dst => list'[m] = l1[m]
      /\ list'[dst] = [front |-> IF s = <<>> THEN At(t, 1) ELSE At(s, 1),
                       back |-> At(t, Len(t)), count |-> Len(s) + Len(t)]
  <2> HIDE DEF s, t
  <2>1. /\ \A m \in Lists : m # dst /\ m # src => list'[m] = list[m]
        /\ list'[src] = Empty
        /\ list'[dst] = [front |-> IF list[dst].front # NULL THEN list[dst].front ELSE list[src].front,
                         back |-> list[src].back, count |-> list[dst].count + list[src].count]
    BY <1>3, <1>4
  <2> HIDE DEF l1
  <2> QED BY <1>1, <1>2, <1>6, <2>1
<1>10. Joined(l1, list', dst, s, t)
  <2>1. t # <<>>
    BY <1>2, <1>3
  <2> HIDE DEF l1, s, t
  <2> QED BY <1>9, <2>1 DEF Joined
<1>11. ListTypes(node', list')
  <2>1. node' \in [Nodes -> NodeType]
    <3>1. \A m \in Nodes : node'[m] \in NodeType
      BY <1>3, <1>4 DEF NodeType, ListType
    <3> QED BY <1>3, <3>1
  <2>2. list' \in [Lists -> ListType]
    <3>1. list'[dst] \in ListType
      <4> HIDE DEF s, t
      <4> QED BY <1>1, <1>2, <1>3, <1>4, <1>9 DEF ListType
    <3>2. Empty \in ListType
      BY DEF Empty, ListType
    <3>3. \A m \in Lists : list'[m] \in ListType
      BY <1>4, <1>6, <1>9, <3>1, <3>2
    <3> QED BY <1>3, <1>4, <3>3
  <2> QED BY <2>1, <2>2 DEF ListTypes
<1>12. \A m \in Lists : m # dst => Disjoint(w1[m], s) /\ Disjoint(w1[m], t)
  <2> TAKE m \in Lists
  <2>1. w1[m] = IF m = src THEN e ELSE w[m]
    BY DEF Stands, Put
  <2>2. Disjoint(e, s) /\ Disjoint(e, t)
    BY DEF Disjoint
  <2> QED BY <1>1, <1>2, <2>1, <2>2
<1>13. Disjoint(s, t)
  BY <1>2
<1>14. Holds(node', list', Put(Held(node, w1), dst, DataOf(node, s) \o DataOf(node, t)))
  <2> HIDE DEF s, t, w1, l1
  <2> QED BY <1>1, <1>2, <1>7, <1>8, <1>10, <1>12, <1>13, JoinKeeps
<1> QED BY <1>7, <1>11, <1>14 DEF Becomes

\* The k-th node of a list, and its neighbours.
LEMMA PlaceIs ==
  ASSUME ListTypes(node, list), NEW w, Stands(node, list, w),
         NEW l \in Lists, NEW k \in 1 .. Len(w[l]), NEW x, x = w[l][k]
  PROVE  /\ x \in Nodes /\ x # NULL /\ node[x] \in NodeType
         /\ node[x].prev = At(w[l], k - 1) /\ node[x].next = At(w[l], k + 1)
         /\ node[x].data = DataOf(node, w[l])[k]
<1> DEFINE s == w[l]
<1>1. s \in Seq(Nodes) /\ Len(s) \in Nat /\ Linked(node, s) /\ Once(s)
  BY EndsAre
<1> HIDE DEF s
<1>2. k \in 1 .. Len(s) /\ x = s[k]
  BY DEF s
<1>3. x \in Nodes /\ x # NULL
  <2>1. x \in Nodes
    BY <1>1, <1>2
  <2> QED BY <2>1, ListAssumption DEF Nodes, NULL
<1>4. node[x] \in NodeType
  BY <1>3 DEF ListTypes
<1>5. node[x].prev = At(s, k - 1) /\ node[x].next = At(s, k + 1)
  BY <1>1, <1>2 DEF Linked
<1>6. node[x].data = DataOf(node, s)[k]
  BY <1>1, <1>2, DataOfIs
<1> QED BY <1>3, <1>4, <1>5, <1>6 DEF s

\* ezgrpc2_list_pop_back
LEMMA PopBackKeeps ==
  ASSUME ListTypes(node, list), NEW w, Stands(node, list, w), NEW l \in Lists, PopBack(l)
  PROVE  LET D == DataOf(node, w[l]) IN
         /\ Becomes(Put(Held(node, w), l, Cut(D, Len(w[l]))))
         /\ Len(w[l]) >= 1 /\ returned' = D[Len(w[l])]
<1> DEFINE s    == w[l]
           k    == Len(s)
           back == list[l].back
           prev == node[back].prev
<1>1. /\ s \in Seq(Nodes) /\ k \in Nat
      /\ list[l].front = At(s, 1) /\ back = At(s, k) /\ list[l].count = k
  BY EndsAre
<1>2. /\ list[l].count > 0
      /\ returned' = node[back].data
      /\ list' = [list EXCEPT ![l].back = prev, ![l].count = @ - 1,
                              ![l].front = IF prev = NULL THEN NULL ELSE @]
      /\ node' = [m \in Nodes |-> IF m = prev THEN [node[m] EXCEPT !.next = NULL] ELSE node[m]]
  BY DEF PopBack
<1>3. k \in 1 .. Len(s) /\ back = s[k] /\ At(s, k + 1) = NULL
  BY <1>1, <1>2 DEF At
<1>4. /\ back \in Nodes /\ back # NULL
      /\ prev = At(s, k - 1) /\ node[back].data = DataOf(node, s)[k]
  BY <1>3, PlaceIs
<1>5. /\ \A m \in Nodes : node[m] \in NodeType /\ m # NULL
      /\ list \in [Lists -> ListType] /\ \A m \in Lists : list[m] \in ListType
      /\ prev \in Nodes \cup {NULL}
  BY <1>4, ListAssumption DEF ListTypes, NodeType, Nodes, NULL
<1> HIDE DEF prev, back, k, s
<1>6. Untied(node, node', s, k)
  BY <1>2, <1>3, <1>4, <1>5 DEF Untied, NodeType
<1>7. /\ \A m \in Lists : m # l => list'[m] = list[m]
      /\ list'[l] = [front |-> IF prev = NULL THEN NULL ELSE list[l].front, back |-> prev, count |-> k - 1]
  BY <1>1, <1>2, <1>5 DEF ListType
<1>8. Shortened(list, list', l, s, k)
  BY <1>1, <1>3, <1>4, <1>7 DEF Shortened
<1>9. ListTypes(node', list')
  <2>1. node' \in [Nodes -> NodeType]
    <3>1. \A m \in Nodes : node'[m] \in NodeType
      BY <1>2, <1>5 DEF NodeType
    <3> QED BY <1>2, <3>1
  <2>2. list' \in [Lists -> ListType]
    <3>1. list'[l] \in ListType
      BY <1>1, <1>2, <1>5, <1>7 DEF ListType
    <3>2. \A m \in Lists : list'[m] \in ListType
      BY <1>5, <1>7, <3>1
    <3> QED BY <1>2, <1>5, <3>2
  <2> QED BY <2>1, <2>2 DEF ListTypes
<1>10. Holds(node', list', Put(Held(node, w), l, Cut(DataOf(node, w[l]), k)))
  BY <1>3, <1>6, <1>8, CutKeeps DEF s
<1> QED BY <1>1, <1>2, <1>4, <1>9, <1>10 DEF Becomes, s, k

\* ezgrpc2_list_pop_front
LEMMA PopFrontKeeps ==
  ASSUME ListTypes(node, list), NEW w, Stands(node, list, w), NEW l \in Lists, PopFront(l)
  PROVE  LET D == DataOf(node, w[l]) IN
         /\ Becomes(Put(Held(node, w), l, Cut(D, 1)))
         /\ Len(w[l]) >= 1 /\ returned' = D[1]
<1> DEFINE s     == w[l]
           n     == Len(s)
           front == list[l].front
           next  == node[front].next
<1>1. /\ s \in Seq(Nodes) /\ n \in Nat
      /\ front = At(s, 1) /\ list[l].back = At(s, n) /\ list[l].count = n
  BY EndsAre
<1>2. /\ list[l].count > 0
      /\ returned' = node[front].data
      /\ list' = [list EXCEPT ![l].front = next, ![l].count = @ - 1,
                              ![l].back = IF next = NULL THEN NULL ELSE @]
      /\ node' = [m \in Nodes |-> IF m = next THEN [node[m] EXCEPT !.prev = NULL] ELSE node[m]]
  BY DEF PopFront
<1>3. 1 \in 1 .. Len(s) /\ front = s[1] /\ At(s, 1 - 1) = NULL
  BY <1>1, <1>2 DEF At
<1>4. /\ front \in Nodes /\ front # NULL
      /\ next = At(s, 1 + 1) /\ node[front].data = DataOf(node, s)[1]
  BY <1>3, PlaceIs
<1>5. /\ \A m \in Nodes : node[m] \in NodeType /\ m # NULL
      /\ list \in [Lists -> ListType] /\ \A m \in Lists : list[m] \in ListType
      /\ next \in Nodes \cup {NULL}
  BY <1>4, ListAssumption DEF ListTypes, NodeType, Nodes, NULL
<1> HIDE DEF next, front, n, s
<1>6. Untied(node, node', s, 1)
  BY <1>2, <1>3, <1>4, <1>5 DEF Untied, NodeType
<1>7. /\ \A m \in Lists : m # l => list'[m] = list[m]
      /\ list'[l] = [front |-> next, back |-> IF next = NULL THEN NULL ELSE list[l].back, count |-> n - 1]
  BY <1>1, <1>2, <1>5 DEF ListType
<1>8. Shortened(list, list', l, s, 1)
  BY <1>1, <1>3, <1>4, <1>7 DEF Shortened
<1>9. ListTypes(node', list')
  <2>1. node' \in [Nodes -> NodeType]
    <3>1. \A m \in Nodes : node'[m] \in NodeType
      BY <1>2, <1>5 DEF NodeType
    <3> QED BY <1>2, <3>1
  <2>2. list' \in [Lists -> ListType]
    <3>1. list'[l] \in ListType
      BY <1>1, <1>2, <1>5, <1>7 DEF ListType
    <3>2. \A m \in Lists : list'[m] \in ListType
      BY <1>5, <1>7, <3>1
    <3> QED BY <1>2, <1>5, <3>2
  <2> QED BY <2>1, <2>2 DEF ListTypes
<1>10. Holds(node', list', Put(Held(node, w), l, Cut(DataOf(node, w[l]), 1)))
  BY <1>3, <1>6, <1>8, CutKeeps DEF s
<1> QED BY <1>1, <1>2, <1>4, <1>9, <1>10 DEF Becomes, s, n

\* The loop of find and of remove ends at the first datum that matches, or at NULL.
LEMMA SeekIs ==
  ASSUME ListTypes(node, list), NEW w, Stands(node, list, w), NEW l \in Lists, NEW d \in Data
  PROVE  LET x == Seek(list[l].front, d)
             D == DataOf(node, w[l])
         IN  \/ x = NULL /\ \A j \in 1 .. Len(w[l]) : D[j] # d
             \/ \E k \in 1 .. Len(w[l]) :
                  x = w[l][k] /\ D[k] = d /\ \A j \in 1 .. k - 1 : D[j] # d
<1> DEFINE s    == w[l]
           D    == DataOf(node, s)
           at   == Walk(node, At(s, 1))
           hits == {k \in Nodes : at[k] # NULL /\ node[at[k]].data = d}
           x    == Seek(list[l].front, d)
<1>1. /\ s \in Seq(Nodes) /\ Len(s) \in Nat /\ Linked(node, s) /\ Once(s)
      /\ list[l].front = At(s, 1)
  BY EndsAre
<1>2. x = IF hits = {} THEN NULL ELSE at[CHOOSE k \in hits : \A j \in hits : k <= j]
  BY <1>1 DEF Seek
<1> HIDE DEF x, s
<1>3. \A k \in Nodes : at[k] = At(s, k)
  BY <1>1, WalkIs DEF ListTypes
<1> HIDE DEF at
<1>4. \A k \in 1 .. Len(s) : k \in Nodes /\ s[k] # NULL /\ at[k] = s[k] /\ D[k] = node[s[k]].data
  <2> TAKE k \in 1 .. Len(s)
  <2>1. k \in Nodes
    BY <1>1, NoLongerThanHeap, ListAssumption DEF Nodes
  <2>2. s[k] \in Nodes
    BY <1>1
  <2>3. s[k] # NULL
    BY <2>2, ListAssumption DEF Nodes, NULL
  <2>4. at[k] = s[k]
    BY <1>3, <2>1 DEF At
  <2>5. D[k] = node[s[k]].data
    BY <1>1, DataOfIs
  <2> QED BY <2>1, <2>3, <2>4, <2>5
<1> HIDE DEF D
<1>5. \A k \in Nodes : k \in hits <=> k \in 1 .. Len(s) /\ D[k] = d
  <2> TAKE k \in Nodes
  <2>1. CASE k \in 1 .. Len(s)
    BY <1>4, <2>1
  <2>2. CASE k \notin 1 .. Len(s)
    BY <1>3, <2>2 DEF At
  <2> QED BY <2>1, <2>2
<1>6. hits \subseteq Nodes /\ Nodes \subseteq Nat
  BY ListAssumption DEF Nodes
<1> HIDE DEF hits
<1>7. CASE hits = {}
  <2>1. x = NULL
    BY <1>2, <1>7
  <2>2. \A j \in 1 .. Len(s) : D[j] # d
    BY <1>4, <1>5, <1>7
  <2> QED BY <2>1, <2>2 DEF x, s, D
<1>8. CASE hits # {}
  <2> DEFINE k == CHOOSE k \in hits : \A j \in hits : k <= j
  <2>1. \E i \in hits : \A j \in hits : i <= j
    <3>1. hits \subseteq Nat
      BY <1>6
    <3> QED BY <1>8, <3>1, SmallestOf
  <2>2. k \in hits /\ \A j \in hits : k <= j
    BY <2>1
  <2>3. x = at[k]
    BY <1>2, <1>8
  <2> HIDE DEF k
  <2>4. k \in 1 .. Len(s) /\ D[k] = d /\ x = s[k]
    BY <1>4, <1>5, <1>6, <2>2, <2>3
  <2>5. ASSUME NEW j \in 1 .. k - 1
        PROVE  D[j] # d
    <3>1. j \in 1 .. Len(s) /\ ~(k <= j)
      BY <1>1, <2>4, <2>5
    <3> QED BY <1>4, <1>5, <2>2, <3>1
  <2> QED BY <2>4, <2>5 DEF x, s, D
<1> QED BY <1>7, <1>8

\* ezgrpc2_list_remove, when something matches.
LEMMA RemoveKeeps ==
  ASSUME ListTypes(node, list), NEW w, Stands(node, list, w),
         NEW l \in Lists, NEW d \in Data, Remove(l, d)
  PROVE  LET D == DataOf(node, w[l]) IN
         \E k \in 1 .. Len(w[l]) :
            /\ Becomes(Put(Held(node, w), l, Cut(D, k)))
            /\ D[k] = d /\ returned' = d /\ \A j \in 1 .. k - 1 : D[j] # d
<1> DEFINE s    == w[l]
           x    == Seek(list[l].front, d)
           prev == node[x].prev
           next == node[x].next
<1>1. /\ s \in Seq(Nodes) /\ Len(s) \in Nat /\ Once(s)
      /\ list[l].front = At(s, 1) /\ list[l].back = At(s, Len(s)) /\ list[l].count = Len(s)
  BY EndsAre
<1>2. /\ x # NULL
      /\ returned' = node[x].data
      /\ node' = [m \in Nodes |->
                    IF m = x THEN Blank
                    ELSE IF m = prev THEN [node[m] EXCEPT !.next = next]
                    ELSE IF m = next THEN [node[m] EXCEPT !.prev = prev]
                    ELSE node[m]]
      /\ list' = [list EXCEPT ![l].count = @ - 1,
                              ![l].front = IF prev = NULL THEN next ELSE @,
                              ![l].back  = IF next = NULL THEN prev ELSE @]
  BY DEF Remove
<1>3. PICK k \in 1 .. Len(s) :
        x = s[k] /\ DataOf(node, s)[k] = d /\ \A j \in 1 .. k - 1 : DataOf(node, s)[j] # d
  BY <1>2, SeekIs
<1>4. /\ x \in Nodes /\ prev = At(s, k - 1) /\ next = At(s, k + 1)
      /\ node[x].data = DataOf(node, s)[k]
  BY <1>3, PlaceIs
<1>5. /\ \A m \in Nodes : node[m] \in NodeType /\ m # NULL
      /\ list \in [Lists -> ListType] /\ \A m \in Lists : list[m] \in ListType
      /\ prev \in Nodes \cup {NULL} /\ next \in Nodes \cup {NULL}
  BY <1>4, ListAssumption DEF ListTypes, NodeType, Nodes, NULL
<1> HIDE DEF x, prev, next, s
<1>6. \A m \in Nodes : ~(m = At(s, k - 1) /\ m = At(s, k + 1))
  <2> SUFFICES ASSUME NEW m \in Nodes, m = At(s, k - 1), m = At(s, k + 1)
               PROVE  FALSE
    OBVIOUS
  <2>1. k - 1 \in 1 .. Len(s) /\ k + 1 \in 1 .. Len(s) /\ s[k - 1] = s[k + 1]
    BY <1>5 DEF At
  <2>2. k - 1 = k + 1
    BY <1>1, <2>1 DEF Once
  <2> QED BY <1>1, <2>2
<1>7. Untied(node, node', s, k)
  <2> SUFFICES ASSUME NEW m \in Nodes, m # x
               PROVE  /\ node'[m].data = node[m].data
                      /\ node'[m].next = IF m = prev THEN next ELSE node[m].next
                      /\ node'[m].prev = IF m = next THEN prev ELSE node[m].prev
                      /\ m # prev /\ m # next => node'[m] = node[m]
    BY <1>3, <1>4 DEF Untied
  <2>1. CASE m = prev
    <3>1. node'[m] = [node[m] EXCEPT !.next = next] /\ m # next
      BY <1>2, <1>4, <1>6, <2>1
    <3> QED BY <1>5, <2>1, <3>1 DEF NodeType
  <2>2. CASE m = next /\ m # prev
    <3>1. node'[m] = [node[m] EXCEPT !.prev = prev]
      BY <1>2, <2>2
    <3> QED BY <1>5, <2>2, <3>1 DEF NodeType
  <2>3. CASE m # next /\ m # prev
    BY <1>2, <2>3
  <2> QED BY <2>1, <2>2, <2>3
<1>8. /\ \A m \in Lists : m # l => list'[m] = list[m]
      /\ list'[l] = [front |-> IF prev = NULL THEN next ELSE list[l].front,
                     back |-> IF next = NULL THEN prev ELSE list[l].back, count |-> Len(s) - 1]
  BY <1>1, <1>2, <1>5 DEF ListType
<1>9. Shortened(list, list', l, s, k)
  BY <1>1, <1>4, <1>8 DEF Shortened
<1>10. ListTypes(node', list')
  <2>1. node' \in [Nodes -> NodeType]
    <3>1. Blank \in NodeType
      BY DEF Blank, NodeType
    <3>2. \A m \in Nodes : node'[m] \in NodeType
      BY <1>2, <1>5, <3>1 DEF NodeType
    <3> QED BY <1>2, <3>2
  <2>2. list' \in [Lists -> ListType]
    <3>1. list'[l] \in ListType
      <4>1. Len(s) - 1 \in Nat
        BY <1>1
      <4> QED BY <1>5, <1>8, <4>1 DEF ListType
    <3>2. \A m \in Lists : list'[m] \in ListType
      BY <1>5, <1>8, <3>1
    <3> QED BY <1>2, <1>5, <3>2
  <2> QED BY <2>1, <2>2 DEF ListTypes
<1>11. Holds(node', list', Put(Held(node, w), l, Cut(DataOf(node, w[l]), k)))
  BY <1>7, <1>9, CutKeeps DEF s
<1> QED BY <1>2, <1>3, <1>4, <1>10, <1>11 DEF Becomes, s

LEMMA ListStarts == ListInit => ListInv /\ \A w : Stands(node, list, w) => Held(node, w) = [l \in Lists |-> <<>>]
<1> SUFFICES ASSUME ListInit
             PROVE  ListInv /\ \A w : Stands(node, list, w) => Held(node, w) = [l \in Lists |-> <<>>]
  OBVIOUS
<1>1. node = [n \in Nodes |-> Blank] /\ list = [l \in Lists |-> Empty]
  BY DEF ListInit
<1>2. ListTypes(node, list)
  <2>1. Blank \in NodeType /\ Empty \in ListType
    BY DEF Blank, NodeType, Empty, ListType
  <2> QED BY <1>1, <2>1 DEF ListTypes
<1> DEFINE e == <<>>
           w == [l \in Lists |-> e]
<1>3. e \in Seq(Nodes) /\ Len(e) = 0 /\ 1 .. Len(e) = {} /\ 0 \notin 1 .. Len(e) /\ 1 \notin 1 .. Len(e)
  OBVIOUS
<1>4. /\ Linked(node, e) /\ Once(e) /\ Bounded(Empty, e) /\ Disjoint(e, e)
  <2> HIDE DEF e
  <2> QED BY <1>3 DEF Linked, Once, Bounded, Empty, At, Disjoint
<1>5. Stands(node, list, w)
  <2> HIDE DEF e
  <2> QED BY <1>1, <1>3, <1>4 DEF Stands
<1>6. ASSUME NEW v, Stands(node, list, v)
      PROVE  Held(node, v) = [l \in Lists |-> <<>>]
  <2>1. ASSUME NEW l \in Lists
        PROVE  DataOf(node, v[l]) = <<>>
    <3>1. list[l].count = 0
      BY <1>1 DEF Empty
    <3>2. v[l] \in Seq(Nodes) /\ Linked(node, v[l]) /\ Len(v[l]) = 0
      BY <1>6, <3>1, EndsAre
    <3>3. DataOf(node, v[l]) \in Seq(Data) /\ Len(DataOf(node, v[l])) = 0
      BY <3>2, DataOfIs
    <3> QED BY <3>3
  <2> QED BY <2>1 DEF Held
<1> QED BY <1>2, <1>5, <1>6 DEF ListInv

\* Every operation keeps the heap and the lists well-formed.
LEMMA ListInvKept == ListInv /\ [ListNext]_lvars => ListInv'
<1> SUFFICES ASSUME ListInv, [ListNext]_lvars
             PROVE  ListInv'
  OBVIOUS
<1>1. ListTypes(node, list)
  BY DEF ListInv
<1>2. PICK w : Stands(node, list, w)
  BY DEF ListInv
<1>3. ASSUME NEW H, Becomes(H)
      PROVE  ListInv'
  BY <1>3 DEF Becomes, Holds, ListInv
<1>4. ASSUME UNCHANGED <<node, list>>
      PROVE  ListInv'
  BY <1>1, <1>2, <1>4 DEF ListInv
<1>5. ASSUME NEW l \in Lists, NEW d \in Data,
             PushBack(l, d) \/ PushFront(l, d) \/ Remove(l, d) \/ Find(l, d)
      PROVE  ListInv'
  <2>1. CASE PushBack(l, d)
    BY <1>1, <1>2, <1>3, <2>1, PushBackKeeps
  <2>2. CASE PushFront(l, d)
    BY <1>1, <1>2, <1>3, <2>2, PushFrontKeeps
  <2>3. CASE Remove(l, d)
    BY <1>1, <1>2, <1>3, <2>3, RemoveKeeps
  <2>4. CASE Find(l, d)
    BY <1>4, <2>4 DEF Find
  <2> QED BY <1>5, <2>1, <2>2, <2>3, <2>4
<1>6. ASSUME NEW l \in Lists,
             PopBack(l) \/ PopFront(l) \/ PopNothing(l) \/ PeekFront(l) \/ PeekBack(l)
      PROVE  ListInv'
  <2>1. CASE PopBack(l)
    BY <1>1, <1>2, <1>3, <2>1, PopBackKeeps
  <2>2. CASE PopFront(l)
    BY <1>1, <1>2, <1>3, <2>2, PopFrontKeeps
  <2>3. CASE PopNothing(l) \/ PeekFront(l) \/ PeekBack(l)
    BY <1>4, <2>3 DEF PopNothing, PeekFront, PeekBack
  <2> QED BY <1>6, <2>1, <2>2, <2>3
<1>7. ASSUME NEW dst \in Lists, NEW src \in Lists, dst # src, Concat(dst, src)
      PROVE  ListInv'
  BY <1>1, <1>2, <1>3, <1>7, ConcatKeeps
<1>8. CASE UNCHANGED lvars
  BY <1>4, <1>8 DEF lvars
<1> QED BY <1>5, <1>6, <1>7, <1>8 DEF ListNext

\* Whatever is pushed, popped, removed and concatenated, every list is a chain of
\* nodes of its own, which its three fields describe.
THEOREM ListInvariance == ListSpec => []ListInv
<1>1. ListInit => ListInv
  BY ListStarts
<1> QED BY <1>1, ListInvKept, PTL DEF ListSpec

\* From front to back along next and back along prev, through as many nodes as
\* counted: foreach, find and remove end, on lists of any length.
THEOREM ListsLinked == ListSpec => []WellLinked
<1>1. ListInv => WellLinked
  <2> SUFFICES ASSUME ListInv
               PROVE  WellLinked
    OBVIOUS
  <2>1. ListTypes(node, list)
    BY DEF ListInv
  <2>2. PICK w : Stands(node, list, w)
    BY DEF ListInv
  <2>3. ASSUME NEW l \in Lists
        PROVE  /\ list[l].count = Len(w[l])
               /\ \A k \in 1 .. Len(w[l]) : Walk(node, list[l].front)[k] = w[l][k]
    <3>1. w[l] \in Seq(Nodes) /\ Linked(node, w[l]) /\ Once(w[l]) /\ list[l].front = At(w[l], 1)
          /\ list[l].count = Len(w[l])
      BY <2>2, EndsAre
    <3>2. \A k \in 1 .. Len(w[l]) : k \in Nodes
      BY <3>1, NoLongerThanHeap, ListAssumption DEF Nodes
    <3>3. \A k \in Nodes : Walk(node, At(w[l], 1))[k] = At(w[l], k)
      BY <2>1, <3>1, WalkIs DEF ListTypes
    <3> QED BY <3>1, <3>2, <3>3 DEF At
  <2>4. ASSUME NEW l \in Lists
        PROVE  LET at    == Walk(node, list[l].front)
                   count == list[l].count
               IN  /\ \A k \in 1 .. count :
                         /\ at[k] # NULL /\ node[at[k]].data # NoData
                         /\ node[at[k]].next = (IF k = count THEN NULL ELSE at[k + 1])
                         /\ node[at[k]].prev = (IF k = 1 THEN NULL ELSE at[k - 1])
                   /\ IF count = 0 THEN list[l] = Empty ELSE list[l].back = at[count]
    <3> DEFINE s  == w[l]
               at == Walk(node, list[l].front)
               n  == Len(s)
    <3>1. /\ s \in Seq(Nodes) /\ n \in Nat /\ Linked(node, s) /\ list[l].count = n
          /\ list[l].front = At(s, 1) /\ list[l].back = At(s, n) /\ list[l] \in ListType
      BY <2>1, <2>2, EndsAre DEF ListTypes
    <3>2. \A k \in 1 .. n : at[k] = s[k]
      BY <2>3
    <3> HIDE DEF at, s, n
    <3>3. ASSUME NEW k \in 1 .. n
          PROVE  /\ at[k] # NULL /\ node[at[k]].data # NoData
                 /\ node[at[k]].next = (IF k = n THEN NULL ELSE at[k + 1])
                 /\ node[at[k]].prev = (IF k = 1 THEN NULL ELSE at[k - 1])
      <4>1. s[k] \in Nodes /\ at[k] = s[k]
        BY <3>1, <3>2 DEF n
      <4>2. s[k] # NULL
        BY <4>1, ListAssumption DEF Nodes, NULL
      <4>3. node[s[k]].data \in Data /\ node[s[k]].next = At(s, k + 1) /\ node[s[k]].prev = At(s, k - 1)
        BY <3>1 DEF Linked, n
      <4>4. At(s, k + 1) = IF k = n THEN NULL ELSE at[k + 1]
        <5>1. k + 1 \in 1 .. n <=> k # n
          BY <3>1
        <5> QED BY <3>2, <5>1 DEF At, n
      <4>5. At(s, k - 1) = IF k = 1 THEN NULL ELSE at[k - 1]
        <5>1. k - 1 \in 1 .. n <=> k # 1
          BY <3>1
        <5> QED BY <3>2, <5>1 DEF At, n
      <4> QED BY <4>1, <4>2, <4>3, <4>4, <4>5, ListAssumption
    <3>4. IF n = 0 THEN list[l] = Empty ELSE list[l].back = at[n]
      <4>1. CASE n = 0
        <5>1. 1 \notin 1 .. n /\ n \notin 1 .. n
          BY <4>1
        <5>2. list[l].front = NULL /\ list[l].back = NULL /\ list[l].count = 0
          BY <3>1, <4>1, <5>1 DEF At, n
        <5> QED BY <3>1, <4>1, <5>2 DEF ListType, Empty
      <4>2. CASE n # 0
        <5>1. n \in 1 .. n
          BY <3>1, <4>2
        <5> QED BY <3>1, <3>2, <4>2, <5>1 DEF At, n
      <4> QED BY <4>1, <4>2
    <3> QED BY <3>1, <3>3, <3>4 DEF at
  <2>5. ASSUME NEW l \in Lists, NEW m \in Lists, l # m,
               NEW j \in 1 .. list[l].count, NEW k \in 1 .. list[m].count
        PROVE  Walk(node, list[l].front)[j] # Walk(node, list[m].front)[k]
    <3>1. Disjoint(w[l], w[m])
      BY <2>2, <2>5 DEF Stands
    <3>2. j \in 1 .. Len(w[l]) /\ k \in 1 .. Len(w[m])
      BY <2>3, <2>5
    <3>3. Walk(node, list[l].front)[j] = w[l][j] /\ Walk(node, list[m].front)[k] = w[m][k]
      BY <2>3, <3>2
    <3> QED BY <3>1, <3>2, <3>3 DEF Disjoint
  <2> QED BY <2>4, <2>5 DEF WellLinked
<1> QED BY <1>1, ListInvariance, PTL

\* What a reader who goes from front to back meets in every list.
Contents(nd, ls) == [l \in Lists |-> Forward(nd, ls[l].front, ls[l].count)]

LEMMA ContentsAre ==
  ASSUME NEW nd, NEW ls, ListTypes(nd, ls), NEW H, Holds(nd, ls, H)
  PROVE  Contents(nd, ls) = H
<1>1. PICK w : Stands(nd, ls, w) /\ Held(nd, w) = H
  BY DEF Holds
<1>2. ASSUME NEW l \in Lists
      PROVE  Forward(nd, ls[l].front, ls[l].count) = DataOf(nd, w[l])
  <2>1. w[l] \in Seq(Nodes) /\ Once(w[l]) /\ Linked(nd, w[l]) /\ Bounded(ls[l], w[l])
    BY <1>1 DEF Stands
  <2>2. nd \in [Nodes -> NodeType]
    BY DEF ListTypes
  <2> QED BY <2>1, <2>2, ForwardIs
<1> QED BY <1>1, <1>2 DEF Contents, Held

\* Every step of the list is a step of the deques, or changes nothing in them.
LEMMA ListStepIsDequeStep == ListInv /\ [ListNext]_lvars => [Deques!Next]_(Deques!vars)
<1> SUFFICES ASSUME ListInv, [ListNext]_lvars
             PROVE  [Deques!Next]_(Deques!vars)
  OBVIOUS
<1> DEFINE C  == Contents(node, list)
           C2 == Contents(node', list')
<1>1. ListTypes(node, list)
  BY DEF ListInv
<1>2. PICK w : Stands(node, list, w)
  BY DEF ListInv
<1>3. C = Held(node, w)
  BY <1>1, <1>2, ContentsAre DEF Holds
<1>4. ASSUME NEW H, Becomes(H)
      PROVE  C2 = H
  BY <1>4, ContentsAre DEF Becomes
<1>5. ASSUME UNCHANGED <<node, list>>
      PROVE  C2 = C
  BY <1>5
<1>6. ASSUME NEW l \in Lists
      PROVE  /\ C[l] = DataOf(node, w[l]) /\ C[l] \in Seq(Data) /\ Len(C[l]) = Len(w[l])
             /\ Len(w[l]) \in Nat
             /\ w[l] = <<>> <=> C[l] = <<>>
             /\ Linked(node, w[l])
             /\ list[l].front = At(w[l], 1) /\ list[l].back = At(w[l], Len(w[l]))
             /\ list[l].count = Len(w[l])
  <2>1. C[l] = DataOf(node, w[l])
    BY <1>3 DEF Held
  <2>2. /\ w[l] \in Seq(Nodes) /\ Linked(node, w[l]) /\ Len(w[l]) \in Nat
        /\ list[l].front = At(w[l], 1) /\ list[l].back = At(w[l], Len(w[l]))
        /\ list[l].count = Len(w[l]) /\ (w[l] = <<>> <=> Len(w[l]) = 0)
    BY <1>2, EndsAre
  <2>3. DataOf(node, w[l]) \in Seq(Data) /\ Len(DataOf(node, w[l])) = Len(w[l])
    BY <2>2, DataOfIs
  <2> HIDE DEF C
  <2>4. C[l] = <<>> <=> Len(C[l]) = 0
    BY <2>1, <2>3
  <2> QED BY <2>1, <2>2, <2>3, <2>4
<1>7. ASSUME NEW l \in Lists, NEW d \in Data,
             PushBack(l, d) \/ PushFront(l, d) \/ Remove(l, d) \/ Find(l, d)
      PROVE  Deques!Next
  <2>1. CASE PushBack(l, d)
    <3>1. C2 = [C EXCEPT ![l] = Append(C[l], d)]
      <4>1. Becomes(Put(Held(node, w), l, Append(DataOf(node, w[l]), d)))
        BY <1>1, <1>2, <2>1, PushBackKeeps
      <4>2. C[l] = DataOf(node, w[l])
        BY <1>6
      <4> HIDE DEF C, C2
      <4> QED BY <1>3, <1>4, <4>1, <4>2 DEF Put
    <3>2. UNCHANGED returned
      BY <2>1 DEF PushBack
    <3>3. Deques!PushBack(l, d)
      BY <3>1, <3>2 DEF Deques!PushBack, Deques!Set, Contents
    <3> QED BY <3>3 DEF Deques!Next
  <2>2. CASE PushFront(l, d)
    <3>1. C2 = [C EXCEPT ![l] = <<d>> \o C[l]]
      <4>1. Becomes(Put(Held(node, w), l, <<d>> \o DataOf(node, w[l])))
        BY <1>1, <1>2, <2>2, PushFrontKeeps
      <4>2. C[l] = DataOf(node, w[l])
        BY <1>6
      <4> HIDE DEF C, C2
      <4> QED BY <1>3, <1>4, <4>1, <4>2 DEF Put
    <3>2. UNCHANGED returned
      BY <2>2 DEF PushFront
    <3>3. Deques!PushFront(l, d)
      BY <3>1, <3>2 DEF Deques!PushFront, Deques!Set, Contents
    <3> QED BY <3>3 DEF Deques!Next
  <2>3. CASE Remove(l, d)
    <3>1. PICK k \in 1 .. Len(w[l]) :
             /\ Becomes(Put(Held(node, w), l, Cut(DataOf(node, w[l]), k)))
             /\ DataOf(node, w[l])[k] = d /\ returned' = d
             /\ \A j \in 1 .. k - 1 : DataOf(node, w[l])[j] # d
      BY <1>1, <1>2, <2>3, RemoveKeeps
    <3>2. /\ C[l] \in Seq(Data) /\ k \in 1 .. Len(C[l]) /\ C[l][k] = d
          /\ \A j \in 1 .. k - 1 : C[l][j] # d
      <4> HIDE DEF C
      <4> QED BY <1>6, <3>1
    <3>3. C2 = [C EXCEPT ![l] = Cut(C[l], k)]
      BY <1>3, <1>4, <1>6, <3>1 DEF Put
    <3>4. Cut(C[l], k) = SubSeq(C[l], 1, k - 1) \o SubSeq(C[l], k + 1, Len(C[l]))
      <4> HIDE DEF C
      <4> QED BY <3>2, Cuts
    <3>5. k \in DOMAIN C[l]
      <4> HIDE DEF C
      <4> QED BY <3>2
    <3>6. Deques!Remove(l, d)
      BY <3>1, <3>2, <3>3, <3>4, <3>5 DEF Deques!Remove, Deques!Set, Contents
    <3> QED BY <3>6 DEF Deques!Next
  <2>4. CASE Find(l, d)
    <3> DEFINE x == Seek(list[l].front, d)
    <3>1. /\ returned' = IF x = NULL THEN NoData ELSE node[x].data
          /\ UNCHANGED <<node, list>>
      BY <2>4 DEF Find
    <3>2. C2 = C
      BY <1>5, <3>1
    <3>3. CASE x = NULL /\ \A j \in 1 .. Len(w[l]) : DataOf(node, w[l])[j] # d
      <4>1. returned' = NoData
        BY <3>1, <3>3
      <4>2. \A j \in DOMAIN C[l] : C[l][j] # d
        <5> HIDE DEF C
        <5>1. DOMAIN C[l] = 1 .. Len(w[l])
          BY <1>6
        <5> QED BY <1>6, <3>3, <5>1
      <4>3. Deques!Nothing(l)
        BY <3>2, <4>1, <4>2 DEF Deques!Nothing, Contents
      <4> QED BY <4>3 DEF Deques!Next
    <3>4. ASSUME NEW k \in 1 .. Len(w[l]), x = w[l][k], DataOf(node, w[l])[k] = d
          PROVE  Deques!Next
      <4>1. x # NULL /\ node[x].data = d
        BY <1>1, <1>2, <3>4, PlaceIs
      <4>2. returned' = d
        BY <3>1, <4>1
      <4>3. k \in DOMAIN C[l] /\ C[l][k] = d
        <5> HIDE DEF C
        <5>1. DOMAIN C[l] = 1 .. Len(w[l])
          BY <1>6
        <5> QED BY <1>6, <3>4, <5>1
      <4>4. Deques!Find(l, d)
        BY <3>2, <4>2, <4>3 DEF Deques!Find, Contents
      <4> QED BY <4>4 DEF Deques!Next
    <3>5. \/ x = NULL /\ \A j \in 1 .. Len(w[l]) : DataOf(node, w[l])[j] # d
          \/ \E k \in 1 .. Len(w[l]) : x = w[l][k] /\ DataOf(node, w[l])[k] = d
      BY <1>1, <1>2, SeekIs
    <3> HIDE DEF x
    <3> QED BY <3>3, <3>4, <3>5
  <2> QED BY <1>7, <2>1, <2>2, <2>3, <2>4
<1>8. ASSUME NEW l \in Lists, C[l] = <<>>, returned' = NoData, UNCHANGED <<node, list>>
      PROVE  Deques!Next
  <2>1. C2 = C
    BY <1>5, <1>8
  <2>2. Deques!Nothing(l)
    BY <1>8, <2>1 DEF Deques!Nothing, Contents
  <2> QED BY <2>2 DEF Deques!Next
<1>9. ASSUME NEW l \in Lists,
             PopBack(l) \/ PopFront(l) \/ PopNothing(l) \/ PeekFront(l) \/ PeekBack(l)
      PROVE  Deques!Next
  <2> DEFINE k == Len(w[l])
  <2>1. CASE PopBack(l)
    <3>1. /\ Becomes(Put(Held(node, w), l, Cut(DataOf(node, w[l]), k)))
          /\ k >= 1 /\ returned' = DataOf(node, w[l])[k]
      BY <1>1, <1>2, <2>1, PopBackKeeps
    <3>2. C2 = [C EXCEPT ![l] = Cut(C[l], k)]
      BY <1>3, <1>4, <1>6, <3>1 DEF Put
    <3>3. /\ C[l] # <<>> /\ returned' = C[l][Len(C[l])]
          /\ Cut(C[l], k) = SubSeq(C[l], 1, Len(C[l]) - 1)
      <4> HIDE DEF C
      <4>1. C[l] \in Seq(Data) /\ Len(C[l]) = k /\ C[l] = DataOf(node, w[l]) /\ k \in 1 .. Len(C[l])
        BY <1>6, <3>1
      <4>2. Cut(C[l], Len(C[l])) = SubSeq(C[l], 1, Len(C[l]) - 1)
        BY <4>1, Cuts
      <4>3. C[l] # <<>>
        BY <4>1
      <4> QED BY <3>1, <4>1, <4>2, <4>3
    <3>4. Deques!PopBack(l)
      BY <3>2, <3>3 DEF Deques!PopBack, Deques!Set, Contents
    <3> QED BY <3>4 DEF Deques!Next
  <2>2. CASE PopFront(l)
    <3>1. /\ Becomes(Put(Held(node, w), l, Cut(DataOf(node, w[l]), 1)))
          /\ k >= 1 /\ returned' = DataOf(node, w[l])[1]
      BY <1>1, <1>2, <2>2, PopFrontKeeps
    <3>2. C2 = [C EXCEPT ![l] = Cut(C[l], 1)]
      BY <1>3, <1>4, <1>6, <3>1 DEF Put
    <3>3. C[l] # <<>> /\ returned' = Head(C[l]) /\ Cut(C[l], 1) = Tail(C[l])
      <4> HIDE DEF C
      <4>1. C[l] \in Seq(Data) /\ Len(C[l]) = k /\ C[l] = DataOf(node, w[l]) /\ 1 \in 1 .. Len(C[l])
        BY <1>6, <3>1
      <4>2. Cut(C[l], 1) = Tail(C[l])
        BY <4>1, Cuts
      <4>3. C[l] # <<>> /\ Head(C[l]) = C[l][1]
        BY <4>1
      <4> QED BY <3>1, <4>1, <4>2, <4>3
    <3>4. Deques!PopFront(l)
      BY <3>2, <3>3 DEF Deques!PopFront, Deques!Set, Contents
    <3> QED BY <3>4 DEF Deques!Next
  <2>3. CASE PopNothing(l)
    <3>1. list[l].count = 0 /\ returned' = NoData /\ UNCHANGED <<node, list>>
      BY <2>3 DEF PopNothing
    <3>2. C[l] = <<>>
      <4> HIDE DEF C
      <4> QED BY <1>6, <3>1
    <3> QED BY <1>8, <3>1, <3>2
  <2>4. ASSUME NEW j \in {1, k}, NEW x, x = At(w[l], j),
               returned' = IF x = NULL THEN NoData ELSE node[x].data,
               UNCHANGED <<node, list>>
        PROVE  \/ Deques!Next
               \/ C2 = C /\ C[l] # <<>> /\ returned' = C[l][j]
    <3> HIDE DEF C, C2
    <3>1. C[l] \in Seq(Data) /\ Len(C[l]) = k /\ C[l] = DataOf(node, w[l]) /\ k \in Nat
      BY <1>6
    <3>2. CASE C[l] = <<>>
      <4>1. k = 0
        BY <3>1, <3>2
      <4>2. x = NULL
        BY <2>4, <4>1 DEF At
      <4> QED BY <1>8, <2>4, <3>2, <4>2
    <3>3. CASE C[l] # <<>>
      <4>1. j \in 1 .. Len(w[l])
        BY <3>1, <3>3
      <4>2. x = w[l][j]
        BY <2>4, <4>1 DEF At
      <4>3. x # NULL /\ node[x].data = C[l][j]
        BY <1>1, <1>2, <3>1, <4>1, <4>2, PlaceIs
      <4> QED BY <1>5, <2>4, <3>3, <4>3
    <3> QED BY <3>2, <3>3
  <2>5. CASE PeekFront(l)
    <3>1. /\ returned' = IF list[l].front = NULL THEN NoData ELSE node[list[l].front].data
          /\ UNCHANGED <<node, list>> /\ list[l].front = At(w[l], 1)
      BY <1>6, <2>5 DEF PeekFront
    <3>2. Deques!Next \/ (C2 = C /\ C[l] # <<>> /\ returned' = C[l][1])
      BY <2>4, <3>1
    <3>3. C[l][1] = Head(C[l])
      <4> HIDE DEF C
      <4> QED BY <1>6
    <3>4. ASSUME C2 = C, C[l] # <<>>, returned' = C[l][1]
          PROVE  Deques!PeekFront(l)
      BY <3>3, <3>4 DEF Deques!PeekFront, Contents
    <3> QED BY <3>2, <3>4 DEF Deques!Next
  <2>6. CASE PeekBack(l)
    <3>1. /\ returned' = IF list[l].back = NULL THEN NoData ELSE node[list[l].back].data
          /\ UNCHANGED <<node, list>> /\ list[l].back = At(w[l], k)
      BY <1>6, <2>6 DEF PeekBack
    <3>2. Deques!Next \/ (C2 = C /\ C[l] # <<>> /\ returned' = C[l][k])
      BY <2>4, <3>1
    <3>3. Len(C[l]) = k
      BY <1>6
    <3>4. ASSUME C2 = C, C[l] # <<>>, returned' = C[l][Len(C[l])]
          PROVE  Deques!PeekBack(l)
      BY <3>4 DEF Deques!PeekBack, Contents
    <3>5. Deques!PeekBack(l) => Deques!Next
      BY DEF Deques!Next
    <3> HIDE DEF C, C2
    <3> QED BY <3>2, <3>3, <3>4, <3>5
  <2> QED BY <1>9, <2>1, <2>2, <2>3, <2>5, <2>6
<1>10. ASSUME NEW dst \in Lists, NEW src \in Lists, dst # src, Concat(dst, src)
       PROVE  Deques!Next
  <2>1. C2 = Put(Put(C, src, <<>>), dst, C[dst] \o C[src])
    BY <1>1, <1>2, <1>3, <1>4, <1>6, <1>10, ConcatKeeps
  <2>2. C2 = [C EXCEPT ![dst] = C[dst] \o C[src], ![src] = <<>>]
    <3> HIDE DEF C, C2
    <3> QED BY <1>10, <2>1, <1>3 DEF Put, Held
  <2>3. UNCHANGED returned
    BY <1>10 DEF Concat
  <2>4. Deques!Concat(dst, src)
    BY <2>2, <2>3 DEF Deques!Concat, Contents
  <2> QED BY <1>10, <2>4 DEF Deques!Next
<1>11. CASE UNCHANGED lvars
  <2>1. UNCHANGED <<node, list>> /\ UNCHANGED returned
    BY <1>11 DEF lvars
  <2>2. C2 = C
    BY <1>5, <2>1
  <2>3. UNCHANGED Deques!vars
    BY <2>1, <2>2 DEF Deques!vars, Contents
  <2> QED BY <2>3
<1> QED BY <1>7, <1>9, <1>10, <1>11 DEF ListNext

\* ezgrpc2_list.c implements the deques its callers rely on: what each operation
\* returns and leaves behind is what a sequence would, on lists of any number and length.
THEOREM ListIsDeque == ListSpec => ImplementsDeque
<1>1. ListInit => Deques!Init
  <2> SUFFICES ASSUME ListInit
               PROVE  Deques!Init
    OBVIOUS
  <2>1. ListTypes(node, list) /\ Holds(node, list, [l \in Lists |-> <<>>])
    BY ListStarts DEF ListInv, Holds
  <2>2. Contents(node, list) = [l \in Lists |-> <<>>]
    BY <2>1, ContentsAre
  <2>3. returned = NoData
    BY DEF ListInit
  <2> QED BY <2>2, <2>3 DEF Deques!Init, Contents
<1> QED BY <1>1, ListStepIsDequeStep, ListInvariance, PTL
        DEF ListSpec, ImplementsDeque, Deques!Spec
=============================================================================
