------------------------------- MODULE Events -------------------------------
(***************************************************************************)
(* The event store, src/ezgrpc2_events.c: the server's callbacks write      *)
(* events one at a time into the last block of a list of blocks, and the    *)
(* application reads whole blocks. `windex` counts the cells used in the    *)
(* last block; it is also BLOCK when there is no block at all.              *)
(***************************************************************************)
EXTENDS Naturals, Sequences

CONSTANTS
    BLOCK,              \* EZGRPC2_EVENTS_BLOCK
    Event,              \* the events, told apart by identity
    Garbage             \* the content of a malloc'd cell not yet written

ASSUME BLOCKAssumption   == BLOCK \in Nat \ {0}
ASSUME GarbageAssumption == Garbage \notin Event

VARIABLES
    bevents,            \* events->bevents: the list of blocks
    windex,             \* events->windex
    freed,              \* ezgrpc2_events_free has been called
    \* history
    written,            \* the events for which write returned 0
    output,             \* the cells handed out by reads, in order
    disposed            \* the cells drained by ezgrpc2_events_free

vars == <<bevents, windex, freed, written, output, disposed>>

Cells == 0 .. BLOCK - 1
Block == [Cells -> Event \cup {Garbage}]

TypeOK ==
    /\ bevents \in Seq(Block)
    /\ windex \in 0 .. BLOCK
    /\ freed \in BOOLEAN
    /\ written \in Seq(Event)
    /\ output \in Seq(Event \cup {Garbage})
    /\ disposed \in Seq(Event \cup {Garbage})

-----------------------------------------------------------------------------

\* ezgrpc2_events_new
Init ==
    /\ bevents = <<>>
    /\ windex = BLOCK
    /\ freed = FALSE
    /\ written = <<>> /\ output = <<>> /\ disposed = <<>>

\* Mutant: a new block goes in front.
NewBlockInFront(e) ==
    /\ windex = BLOCK
    /\ bevents' = <<[[c \in Cells |-> Garbage] EXCEPT ![0] = e]>> \o bevents
    /\ windex' = 1

\* ezgrpc2_events_write: a new block when the last one is full, then a store.
WriteNewBlock(e) ==
    /\ windex = BLOCK
    /\ bevents' = Append(bevents, [[c \in Cells |-> Garbage] EXCEPT ![0] = e])
    /\ windex' = 1

WriteInBlock(e) ==
    /\ windex # BLOCK
    /\ bevents' = [bevents EXCEPT ![Len(bevents)][windex] = e]
    /\ windex' = windex + 1

Write(e) ==
    /\ ~freed
    /\ WriteNewBlock(e) \/ WriteInBlock(e)
    /\ written' = Append(written, e)
    /\ UNCHANGED <<freed, output, disposed>>

\* malloc fails: write returns 1 and the event is dropped. No caller in the
\* server looks at the return value.
WriteFails ==
    /\ ~freed /\ windex = BLOCK
    /\ UNCHANGED vars

\* Mutant: the last cell of the last block is missed.
ReadLenShort == IF Len(bevents) = 1 THEN windex - 1 ELSE BLOCK

\* The `*len` of the block a read pops, and the windex it leaves.
ReadLen    == IF Len(bevents) = 1 THEN windex ELSE BLOCK
NextWindex == IF Len(bevents) = 1 THEN BLOCK ELSE windex

\* The first len cells of a block, as the sequence its reader sees.
Prefix(block, len) == [i \in 1 .. len |-> block[i - 1]]

\* ezgrpc2_events_read, when there is a block (else it returns NULL).
Read ==
    /\ ~freed
    /\ bevents # <<>>
    /\ output' = output \o Prefix(Head(bevents), ReadLen)
    /\ bevents' = Tail(bevents)
    /\ windex' = NextWindex
    /\ UNCHANGED <<freed, written, disposed>>

\* ezgrpc2_events_free drains the store with the same reads.
FreeRead ==
    /\ freed
    /\ bevents # <<>>
    /\ disposed' = disposed \o Prefix(Head(bevents), ReadLen)
    /\ bevents' = Tail(bevents)
    /\ windex' = NextWindex
    /\ UNCHANGED <<freed, written, output>>

Free ==
    /\ ~freed
    /\ freed' = TRUE
    /\ UNCHANGED <<bevents, windex, written, output, disposed>>

\* ezgrpc2_events_free has returned. The model ends here. (Both examples free
\* the server next, which writes DISCONNECT events to the store once more; it
\* finds the structure there, since the early return at line 59 leaks it.)
Freed == freed /\ bevents = <<>> /\ UNCHANGED vars

Next ==
    \/ \E e \in Event : Write(e)
    \/ WriteFails
    \/ Read
    \/ Free \/ FreeRead \/ Freed

Spec == Init /\ [][Next]_vars

-----------------------------------------------------------------------------
(* Safety *)

\* windex is in range of the last block whenever a block exists, and is BLOCK
\* when none does; otherwise write would store through a NULL block or read
\* would hand out an empty one.
WindexMeansLastBlock ==
    /\ bevents = <<>> => windex = BLOCK
    /\ windex > 0

\* The cells in use, block after block, are exactly the written events that
\* have not been read yet.
HandedOut == Len(output) + Len(disposed)

UnreadCount == IF bevents = <<>> THEN 0 ELSE (Len(bevents) - 1) * BLOCK + windex

CellsHoldUnread ==
    /\ Len(written) = HandedOut + UnreadCount
    /\ \A k \in 1 .. Len(bevents) : \A c \in Cells :
          k < Len(bevents) \/ c < windex
             => bevents[k][c] = written[HandedOut + (k - 1) * BLOCK + c + 1]

BeginsWith(s, w) == Len(s) <= Len(w) /\ \A i \in 1 .. Len(s) : s[i] = w[i]

\* What readers and the final drain have been handed is what was written, in
\* order, with no cell of a block skipped, repeated or handed out unwritten.
OutputIsPrefix == BeginsWith(output \o disposed, written)

\* A read that returns NULL leaves nothing unread.
EmptyMeansAllRead == bevents = <<>> => HandedOut = Len(written)

-----------------------------------------------------------------------------

\* The store implements a plain first-in first-out stream.
Abstract == INSTANCE EventStream WITH read <- output \o disposed

ImplementsEventStream == Abstract!Spec
=============================================================================
