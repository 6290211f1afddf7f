---------------------------- MODULE EventStream -----------------------------
(***************************************************************************)
(* What the event store between the server and the application promises:    *)
(* events are read in the order they were written, each exactly once, in    *)
(* batches of at least one; a read that finds nothing leaves nothing.       *)
(***************************************************************************)
EXTENDS Naturals, Sequences

CONSTANT Event

VARIABLES
    written,            \* every event accepted by a write
    read                \* every event handed to a reader, in order

vars == <<written, read>>

Init == written = <<>> /\ read = <<>>

Write(e) == written' = Append(written, e) /\ UNCHANGED read

Read == /\ \E n \in Len(read) + 1 .. Len(written) : read' = SubSeq(written, 1, n)
        /\ UNCHANGED written

Next == (\E e \in Event : Write(e)) \/ Read

Spec == Init /\ [][Next]_vars
=============================================================================
