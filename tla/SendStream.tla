----------------------------- MODULE SendStream -----------------------------
(***************************************************************************)
(* The send path of one stream: ezgrpc2_server_session_stream_send queues   *)
(* messages, nghttp2 asks data_source_read_callback2 to fill one DATA frame *)
(* after the other from that queue, and stream_end submits the trailers.    *)
(*                                                                          *)
(* nghttp2 is external. It keeps at most one data source per stream (a      *)
(* second submission is refused), sends HEADERS frames before DATA frames,  *)
(* and drops the data source of a stream whose trailers are out. The size   *)
(* of the buffer it offers is what flow control leaves: any positive value. *)
(* Both calls end by running nghttp2 until it would block; since it may     *)
(* block at once, and go on from the server's loop later, the frames are    *)
(* actions of their own.                                                    *)
(***************************************************************************)
EXTENDS Naturals, Sequences

CONSTANTS
    MsgLens,            \* lengths of the messages an application may send
    BufLens,            \* sizes of the buffers nghttp2 may offer
    MaxMessages         \* bound on the messages sent to the stream

ASSUME LengthsAssumption == MsgLens \subseteq Nat /\ BufLens \subseteq Nat \ {0}
ASSUME BoundAssumption   == MaxMessages \in Nat

HEADER == 5             \* a flag byte and four length bytes

VARIABLES
    lqueue_omessages,   \* the messages queued, as indices of `accepted`
    is_trunc,           \* the header of the first one has been written
    trunc_seek,         \* how much of its payload has been written
    source,             \* nghttp2 holds a data source for the stream
    trailers,           \* "none" | "queued" | "sent"
    stream,             \* "open" | "gone", or "aborted" by an assert
    wire,               \* what has been sent: bytes <<message, position>>
    \* history
    accepted,           \* the lengths of the messages stream_send took
    garbled,            \* a buffer was too small for the callback
    overtaken           \* messages were queued when, or after, the stream was ended

vars == <<lqueue_omessages, is_trunc, trunc_seek, source, trailers, stream,
          wire, accepted, garbled, overtaken>>

Garbage == <<0, 0>>     \* a byte of nghttp2's buffer nobody wrote

\* Byte k of message m on the wire, header included, and a piece of them.
Bytes(m, from, n) == [k \in 1 .. n |-> <<m, from + k>>]

TypeOK ==
    /\ lqueue_omessages \in Seq(1 .. MaxMessages)
    /\ is_trunc \in BOOLEAN /\ trunc_seek \in Nat
    /\ source \in BOOLEAN
    /\ trailers \in {"none", "queued", "sent"}
    /\ stream \in {"open", "gone", "aborted"}
    /\ wire \in Seq(Nat \X Nat)
    /\ accepted \in Seq(MsgLens)
    /\ garbled \in BOOLEAN /\ overtaken \in BOOLEAN

\* stream_new, when the request's headers arrive.
Init ==
    /\ lqueue_omessages = <<>>
    /\ is_trunc = FALSE /\ trunc_seek = 0
    /\ source = FALSE /\ trailers = "none" /\ stream = "open"
    /\ wire = <<>> /\ accepted = <<>>
    /\ garbled = FALSE /\ overtaken = FALSE

-----------------------------------------------------------------------------
(* The application *)

\* ezgrpc2_server_session_stream_send with a list of messages. (When the
\* session or the stream does not exist it returns 1 or 2 and does nothing.)
\* nghttp2_submit_data2 is refused when the stream has a data source already,
\* which serves the same queue; its result is not looked at.
StreamSend(lens) ==
    /\ stream = "open"
    /\ Len(accepted) + Len(lens) <= MaxMessages
    /\ lqueue_omessages' = lqueue_omessages \o [i \in 1 .. Len(lens) |-> Len(accepted) + i]
    /\ accepted' = accepted \o lens
    /\ source' = TRUE
    /\ overtaken' = (overtaken \/ trailers # "none")
    /\ UNCHANGED <<is_trunc, trunc_seek, trailers, stream, wire, garbled>>

\* ezgrpc2_server_session_stream_end: the trailers are submitted whether or
\* not messages are still queued. (A second call has no effect on the wire.)
StreamEnd ==
    /\ stream = "open" /\ trailers = "none"
    /\ trailers' = "queued"
    /\ overtaken' = (lqueue_omessages # <<>>)
    /\ UNCHANGED <<lqueue_omessages, is_trunc, trunc_seek, source, stream, wire,
                   accepted, garbled>>

-----------------------------------------------------------------------------
(* data_source_read_callback2 *)

\* Mutants of the iteration: the seek restarts with each buffer; the header
\* is written wherever the buffer ends; a data source that has filled its
\* buffer says that there is nothing more.
SeekFromBuffer(s, n) == n
HeaderAnywhere(s, b) == Len(s.out) < b
FullIsEof            == {"eof", "full"}

\* char is_fit = msg->len - trunc_seek <= rem
IsFit(msg, s, b) == accepted[msg] - s.seek <= b - Len(s.out)

\* ezstream->trunc_seek += rem
SeekOn(s, n) == s.seek + n

\* if (buf_seek + 5 <= buf_len)
RoomForHeader(s, b) == Len(s.out) + HEADER <= b

\* How the loop ends when NGHTTP2_DATA_FLAG_EOF is set.
Eof == {"eof"}

\* One turn of the loop over the queue, writing to a buffer of b bytes.
Turn(s, b) ==
    LET msg  == Head(s.queue)
        rem  == b - Len(s.out)
        left == accepted[msg] - s.seek
    IN  CASE s.end # "no" -> s
          [] s.end = "no" /\ s.queue = <<>> -> [s EXCEPT !.end = "eof"]
          [] s.end = "no" /\ s.queue # <<>> /\ s.trunc ->
               IF rem = 0 THEN [s EXCEPT !.end = "full"]
               ELSE IF left = 0 THEN [s EXCEPT !.end = "assert"]
               ELSE IF IsFit(msg, s, b)
               THEN [s EXCEPT !.out = @ \o Bytes(msg, HEADER + s.seek, left),
                              !.queue = Tail(@), !.trunc = FALSE, !.seek = 0]
               ELSE [s EXCEPT !.out = @ \o Bytes(msg, HEADER + s.seek, rem),
                              !.seek = SeekOn(s, rem), !.end = "full"]
          [] s.end = "no" /\ s.queue # <<>> /\ ~s.trunc ->
               IF RoomForHeader(s, b)
               THEN [s EXCEPT !.out = @ \o Bytes(msg, 0, HEADER),
                              !.trunc = TRUE, !.seek = 0]
               ELSE [s EXCEPT !.end = "full"]

\* The whole loop: at most two turns per message and one to leave.
Fill(b) ==
    LET turn[n \in 0 .. 2 * Len(lqueue_omessages) + 1] ==
          IF n = 0 THEN [out |-> <<>>, queue |-> lqueue_omessages,
                         trunc |-> is_trunc, seek |-> trunc_seek, end |-> "no"]
          ELSE Turn(turn[n - 1], b)
    IN  turn[2 * Len(lqueue_omessages) + 1]

-----------------------------------------------------------------------------
(* nghttp2 and the peer *)

\* A DATA frame may be sent: HEADERS frames waiting would go first.
MayPack == stream = "open" /\ source /\ trailers = "none"

\* A DATA frame of at most b bytes. `eof` releases the data source.
PackData(b) ==
    /\ MayPack /\ b >= HEADER
    /\ \E s \in {Fill(b)} :
         /\ lqueue_omessages' = s.queue
         /\ is_trunc' = s.trunc /\ trunc_seek' = s.seek
         /\ wire' = IF s.end = "assert" THEN wire ELSE wire \o s.out
         /\ source' = (s.end \notin Eof)
         /\ stream' = IF s.end = "assert" THEN "aborted" ELSE stream
    /\ UNCHANGED <<trailers, accepted, garbled, overtaken>>

\* The callback answers a buffer of less than five bytes with
\* NGHTTP2_INTERNAL_ERROR, which is 2: nghttp2 takes it for a length and sends
\* two bytes nobody wrote, or fails the session when only one would fit. (One
\* such frame is enough: the guard bounds the garbage on the wire.)
PackShort(b) ==
    /\ MayPack /\ b < HEADER /\ ~garbled
    /\ garbled' = TRUE
    /\ IF b < 2 THEN stream' = "gone" /\ wire' = wire
       ELSE stream' = stream /\ wire' = wire \o <<Garbage, Garbage>>
    /\ UNCHANGED <<lqueue_omessages, is_trunc, trunc_seek, source, trailers,
                   accepted, overtaken>>

\* The trailers go out with END_STREAM; a data source still held is dropped.
SendTrailers ==
    /\ stream = "open" /\ trailers = "queued"
    /\ trailers' = "sent"
    /\ source' = FALSE
    /\ UNCHANGED <<lqueue_omessages, is_trunc, trunc_seek, stream, wire,
                   accepted, garbled, overtaken>>

\* on_stream_close: the peer resets the stream, or both sides have ended.
\* stream_free then frees the stream, and forgets the messages still queued.
CloseStream ==
    /\ stream = "open"
    /\ stream' = "gone"
    /\ lqueue_omessages' = <<>> /\ source' = FALSE
    /\ UNCHANGED <<is_trunc, trunc_seek, trailers, wire, accepted, garbled,
                   overtaken>>

Over == stream # "open" /\ UNCHANGED vars

Lists == {<<m>> : m \in MsgLens} \cup {<<m, n>> : m, n \in MsgLens}

Next ==
    \/ \E lens \in Lists : StreamSend(lens)
    \/ StreamEnd
    \/ \E b \in BufLens : PackData(b) \/ PackShort(b)
    \/ SendTrailers \/ CloseStream
    \/ Over

\* The peer reads on: the flow-control window opens again and again.
Fairness == WF_vars(\E b \in BufLens : PackData(b)) /\ WF_vars(SendTrailers)

Spec == Init /\ [][Next]_vars /\ Fairness

-----------------------------------------------------------------------------

\* What the messages taken look like on the wire.
Framed ==
    LET upTo[n \in 0 .. Len(accepted)] ==
          IF n = 0 THEN <<>>
          ELSE upTo[n - 1] \o Bytes(n, 0, HEADER + accepted[n])
    IN  upTo[Len(accepted)]

\* The last n elements of a sequence.
Last(s, n) == SubSeq(s, Len(s) - n + 1, Len(s))

\* How many bytes the queue still stands for.
Unsent ==
    LET from[n \in 0 .. Len(lqueue_omessages)] ==
          IF n = 0 THEN 0
          ELSE from[n - 1] + HEADER + accepted[lqueue_omessages[n]]
    IN  from[Len(lqueue_omessages)] - (IF is_trunc THEN HEADER + trunc_seek ELSE 0)

\* Whatever sizes the buffers have, and however sends and frames interleave,
\* what was sent followed by what the queue stands for is what the messages
\* look like on the wire, no byte lost, repeated or out of place (as long as
\* the callback was not offered a buffer it cannot use).
FramesInOrder ==
    ~garbled /\ stream = "open" =>
        wire \o Last(Framed, Unsent) = Framed

\* Whatever is queued, wherever the last buffer ended and whatever room there
\* is now, the callback writes within its buffer and makes progress; a DATA
\* frame of no bytes would be asked for again and again.
FillsItsBuffer ==
    lqueue_omessages # <<>> =>
        \A b \in BufLens : b >= HEADER => Len(Fill(b).out) \in 1 .. b

\* Messages never wait for a data source that is gone: what is queued is
\* sent in the end, unless the stream ends first (ezgrpc2_session.h:40-48).
EventuallySent ==
    lqueue_omessages # <<>> ~>
        \/ lqueue_omessages = <<>> \/ trailers # "none" \/ stream # "open"

\* assert(msg->len > ezstream->trunc_seek), internal_nghttp2_callbacks.c:95
NoAssertFails == stream # "aborted"
=============================================================================
