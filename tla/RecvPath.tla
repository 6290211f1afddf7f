------------------------------ MODULE RecvPath ------------------------------
(***************************************************************************)
(* The receive path of one session, src/internal_nghttp2_callbacks.c: from  *)
(* the frames nghttp2 reports to the events the application reads.          *)
(*                                                                          *)
(* nghttp2 itself is external. It reports the frames of a session one after *)
(* the other: a HEADERS frame as on_begin_headers, one on_header per field  *)
(* and on_frame_recv; a DATA frame as any number of on_data_chunk_recv and  *)
(* on_frame_recv; and the end of a stream as on_stream_close. Frames are    *)
(* not interleaved, streams are.                                            *)
(***************************************************************************)
EXTENDS Naturals, Sequences

CONSTANTS
    Streams,            \* the stream ids a client may open
    Base,               \* values of a byte; 256 in the program
    Window,             \* http2_settings.initial_window_size
    Wires,              \* the byte sequences a client may send on each stream
    CopyOrders,         \* how memcpy may copy: "up", "down"
    Trailers,           \* the client may end a stream with trailers
    None

ASSUME BaseAssumption   == Base \in Nat \ {0} /\ Window \in Nat
ASSUME WiresAssumption  == Wires \in [Streams -> SUBSET Seq(0 .. Base - 1)]
ASSUME OrdersAssumption == CopyOrders \subseteq {"up", "down"}
ASSUME NoneAssumption   == None \notin Streams /\ Trailers \in BOOLEAN

Byte == 0 .. Base - 1

VARIABLES
    session,            \* "open" | "freed", or "aborted" by an assert
    lstreams,           \* ezsession->lstreams, as pairs <<stream, object>>
    ez,                 \* the ezgrpc2_stream the stream's user data points to
    ng,                 \* nghttp2's state of each stream
    frame,              \* the stream whose DATA frame is being received
    events,             \* the events written for each stream
    \* history
    wire,               \* what the client has to send on each stream
    sent,               \* how much of it has been received
    eos,                \* a DATA frame with END_STREAM was processed
    exact               \* every memcpy of the stream has copied as memmove would

vars == <<session, lstreams, ez, ng, frame, events, wire, sent, eos, exact>>
client == <<wire, sent, eos, exact>>

-----------------------------------------------------------------------------
(* Length-prefixed messages: a flag byte, four length bytes, the payload *)

Word == Base * Base * Base * Base      \* 2^32 for bytes of eight bits

\* ntohl(uread_u32(b + i))
Ntohl(b, i) == ((b[i+1] * Base + b[i+2]) * Base + b[i+3]) * Base + b[i+4]

MsgLen(b, seek) == Ntohl(b, seek + 1)

\* A header, and the payload it announces, lie within the buffer.
Complete(b, seek) == seek + 5 <= Len(b) /\ seek + 5 + MsgLen(b, seek) <= Len(b)

\* Mutant: the payload is taken from one byte too early.
MessageEarly(b, seek) ==
    [cflag |-> b[seek + 1],
     data  |-> SubSeq(b, seek + 5, seek + 4 + MsgLen(b, seek))]

\* ezgrpc2_message_new(cflag, msg_data, msg_len)
Message(b, seek) ==
    [cflag |-> b[seek + 1],
     data  |-> SubSeq(b, seek + 6, seek + 5 + MsgLen(b, seek))]

\* Mutant: only the first message of the buffer is parsed.
ParseFirstOnly(b) == IF Complete(b, 0) THEN <<Message(b, 0)>> ELSE <<>>

\* The messages parse_grpc_message pushes. The loop advances `seek` past the
\* header only, so the next header is read five bytes on.
ParseGrpcMessage(b) ==
    LET from[seek \in 0 .. Len(b)] ==
          IF ~Complete(b, seek) THEN <<>>
          ELSE <<Message(b, seek)>> \o from[seek + 5]
    IN  from[0]

\* Its return value: the offset behind the header of the last message pushed.
Lseek(b) == 5 * Len(ParseGrpcMessage(b))

\* The quick check that allocates *messages; its sum is of 32 bits. (With four
\* bytes it reads one more, but then nothing is pushed.)
ListNew(b) == Len(b) >= 5 /\ Len(b) >= (MsgLen(b, 0) + 5) % Word

\* memcpy(recv_data, recv_data + lseek, n) where the two may overlap. Copying
\* up gives what was meant; copying down overwrites bytes still to be read.
Copied(b, lseek, order) ==
    LET n == Len(b) - lseek
        down[i \in 1 .. n] == IF i + lseek <= n THEN down[i + lseek] ELSE b[i + lseek]
    IN  IF order = "up" THEN SubSeq(b, lseek + 1, Len(b)) ELSE [i \in 1 .. n |-> down[i]]

-----------------------------------------------------------------------------
(* Types *)

MessageType == [cflag : Byte, data : Seq(Byte)]

Event == [type : {"MESSAGE", "DATALOSS"}, msgs : Seq(MessageType),
          end_stream : BOOLEAN, allocated : BOOLEAN]

NoObject == [object |-> 0, path |-> FALSE, recv |-> <<>>]

TypeOK ==
    /\ session \in {"open", "freed", "aborted"}
    /\ lstreams \in Seq(Streams \X (1 .. 2))
    /\ ez \in [Streams -> [object : 0 .. 2, path : BOOLEAN, recv : Seq(Byte)]]
    /\ \A s \in Streams : Len(ez[s].recv) <= Window
    /\ ng \in [Streams -> [state : {"idle", "open", "ended", "closing", "closed"},
                           local : BOOLEAN]]
    /\ frame \in Streams \cup {None}
    /\ events \in [Streams -> Seq(Event)]
    /\ wire \in [Streams -> Seq(Byte)]
    /\ \A s \in Streams : wire[s] \in Wires[s] \cup {<<>>}
    /\ sent \in [Streams -> Nat]
    /\ eos \in [Streams -> BOOLEAN]
    /\ exact \in [Streams -> BOOLEAN]

Init ==
    /\ session = "open" /\ lstreams = <<>> /\ frame = None
    /\ ez = [s \in Streams |-> NoObject]
    /\ ng = [s \in Streams |-> [state |-> "idle", local |-> FALSE]]
    /\ events = [s \in Streams |-> <<>>]
    /\ wire = [s \in Streams |-> <<>>]
    /\ sent = [s \in Streams |-> 0]
    /\ eos = [s \in Streams |-> FALSE]
    /\ exact = [s \in Streams |-> TRUE]

-----------------------------------------------------------------------------
(* HEADERS *)

\* on_begin_headers_callback: a new ezgrpc2_stream becomes the user data of
\* the stream, whether or not the stream has one already.
BeginHeaders(s) ==
    /\ lstreams' = Append(lstreams, <<s, ez[s].object + 1>>)
    /\ ez' = [ez EXCEPT ![s] = [NoObject EXCEPT !.object = ez[s].object + 1]]

\* What the fields of a request say: content-type is application/grpc; method,
\* scheme and te are as required; :path is registered.
Fields == [grpc : BOOLEAN, others : BOOLEAN, path : BOOLEAN]

\* session_free: the application is told, everything of the session goes.
FreeSession ==
    /\ session' = "freed"
    /\ lstreams' = <<>>
    /\ frame' = None
    /\ ng' = [s \in Streams |-> [ng[s] EXCEPT !.state = "closed"]]

\* The frame that opens a stream: on_begin_headers, on_header for each field,
\* on_frame_recv_headers.
RecvHeaders(s, head, endStream, w) ==
    /\ session = "open" /\ frame = None
    /\ ng[s].state = "idle"
    /\ lstreams' = Append(lstreams, <<s, 1>>)
    /\ ez' = [ez EXCEPT ![s] = [object |-> 1, path |-> head.path, recv |-> <<>>]]
    /\ wire' = [wire EXCEPT ![s] = IF endStream THEN <<>> ELSE w]
    /\ ng' = [ng EXCEPT ![s] =
         CASE endStream /\ ~head.grpc ->             \* 415 with END_STREAM
                [state |-> "ended", local |-> TRUE]
           [] endStream /\ head.grpc ->              \* RST_STREAM
                [state |-> "closing", local |-> FALSE]
           [] ~endStream /\ ~(head.grpc /\ head.others) ->
                [state |-> "closing", local |-> FALSE]
           [] ~endStream /\ head.grpc /\ head.others ->
                [state |-> "open", local |-> ~head.path]]   \* UNIMPLEMENTED
    /\ UNCHANGED <<session, frame, events, sent, eos, exact>>

\* More than CONFIG_STREAM_MAX_HEADERS fields: on_header fails, which ends
\* nghttp2_session_recv, session_events, and with them the session.
TooManyHeaders(s) ==
    /\ session = "open" /\ frame = None
    /\ ng[s].state = "idle"
    /\ FreeSession
    /\ UNCHANGED <<ez, events, client>>

\* The client ends a stream with trailers. None of their fields is a
\* content-type, so the new object is answered with 415.
RecvTrailers(s) ==
    /\ Trailers
    /\ session = "open" /\ frame = None
    /\ ng[s].state = "open"
    /\ BeginHeaders(s)
    /\ ng' = [ng EXCEPT ![s] = [state |-> "ended", local |-> TRUE]]
    /\ UNCHANGED <<session, frame, events, client>>

-----------------------------------------------------------------------------
(* DATA *)

\* Mutant of the chunk handler: an oversized chunk is dropped silently.
RecvChunkDropped(s, n) ==
    LET chunk == SubSeq(wire[s], sent[s] + 1, sent[s] + n)
    IN  /\ session = "open" /\ frame \in {None, s}
        /\ ng[s].state = "open"
        /\ sent' = [sent EXCEPT ![s] = @ + n]
        /\ IF Len(ez[s].recv) + n > Window
             THEN ez' = ez
             ELSE ez' = [ez EXCEPT ![s].recv = @ \o chunk]
        /\ frame' = s
        /\ UNCHANGED <<session, lstreams, ng, events, wire, eos,
                       exact>>

\* on_data_chunk_recv_callback: append, unless the buffer would overflow; then
\* RST_STREAM is submitted and the callback fails, which ends the session.
RecvChunk(s, n) ==
    LET chunk == SubSeq(wire[s], sent[s] + 1, sent[s] + n)
    IN  /\ session = "open" /\ frame \in {None, s}
        /\ ng[s].state = "open"
        /\ sent' = [sent EXCEPT ![s] = @ + n]
        /\ IF Len(ez[s].recv) + n > Window
             THEN FreeSession /\ ez' = ez
             ELSE /\ ez' = [ez EXCEPT ![s].recv = @ \o chunk]
                  /\ frame' = s
                  /\ UNCHANGED <<session, lstreams, ng>>
        /\ UNCHANGED <<events, wire, eos, exact>>

\* What the events of a frame hold.
MessageEvent(msgs, end, alloc) ==
    [type |-> "MESSAGE", msgs |-> msgs, end_stream |-> end, allocated |-> alloc]

DatalossEvent ==
    [type |-> "DATALOSS", msgs |-> <<>>, end_stream |-> FALSE, allocated |-> FALSE]

\* Mutant: bytes that are left at the end of the stream are not reported.
FrameEventsLossy(b, rest, endStream) ==
    IF endStream /\ b = <<>> THEN <<MessageEvent(<<>>, TRUE, TRUE)>>
    ELSE IF Lseek(b) = 0 THEN <<>>
    ELSE <<MessageEvent(ParseGrpcMessage(b), endStream /\ rest = <<>>, ListNew(b))>>

\* The events on_frame_recv_data writes when the buffer was b and is rest after
\* the messages are cut off: the empty end, the messages, the truncated end.
FrameEvents(b, rest, endStream) ==
    IF endStream /\ b = <<>> THEN <<MessageEvent(<<>>, TRUE, TRUE)>>
    ELSE (IF Lseek(b) = 0 THEN <<>>
          ELSE <<MessageEvent(ParseGrpcMessage(b), endStream /\ rest = <<>>, ListNew(b))>>)
         \o (IF endStream /\ rest # <<>> THEN <<DatalossEvent>> ELSE <<>>)

\* on_frame_recv_data. A stream without a path is left alone.
RecvDataFrame(s, endStream) ==
    /\ session = "open" /\ frame \in {None, s}
    /\ ng[s].state = "open"
    /\ frame' = None
    /\ eos' = [eos EXCEPT ![s] = endStream]
    /\ ng' = IF endStream THEN [ng EXCEPT ![s].state = "ended"] ELSE ng
    /\ IF ez[s].path
         THEN \E order \in CopyOrders :
                LET b    == ez[s].recv
                    rest == IF Lseek(b) = 0 THEN b ELSE Copied(b, Lseek(b), order)
                IN  /\ ez' = [ez EXCEPT ![s].recv = rest]
                    /\ events' = [events EXCEPT ![s] =
                                    @ \o FrameEvents(b, rest, endStream)]
                    /\ exact' = [exact EXCEPT ![s] =
                                   @ /\ rest = SubSeq(b, Lseek(b) + 1, Len(b))]
         ELSE UNCHANGED <<ez, events, exact>>
    /\ UNCHANGED <<session, lstreams, wire, sent>>

-----------------------------------------------------------------------------
(* The end of streams and sessions *)

\* Mutant: the stream stays in lstreams.
CloseStreamListed(s) ==
    /\ ng' = [ng EXCEPT ![s].state = "closed"]
    /\ UNCHANGED <<session, lstreams>>

\* on_stream_close_callback: the first entry of lstreams with this id must be
\* the object nghttp2 has for the stream, or the assert ends the program.
CloseStream(s) ==
    LET mine  == {i \in DOMAIN lstreams : lstreams[i][1] = s}
        first == CHOOSE i \in mine : \A j \in mine : i <= j
    IN  /\ ng' = [ng EXCEPT ![s].state = "closed"]
        /\ IF lstreams[first] = <<s, ez[s].object>>
             THEN /\ lstreams' = SubSeq(lstreams, 1, first - 1)
                                   \o SubSeq(lstreams, first + 1, Len(lstreams))
                  /\ UNCHANGED session
             ELSE session' = "aborted" /\ UNCHANGED lstreams

\* nghttp2 closes a stream that both sides ended, or that the server reset.
StreamClosed(s) ==
    /\ session = "open"
    /\ \/ ng[s].state = "closing"
       \/ ng[s].state = "ended" /\ ng[s].local
    /\ CloseStream(s)
    /\ UNCHANGED <<ez, frame, events, client>>

\* RST_STREAM from the client: nothing is written to the application.
ClientResets(s) ==
    /\ session = "open" /\ frame = None
    /\ ng[s].state \in {"open", "ended"}
    /\ CloseStream(s)
    /\ UNCHANGED <<ez, frame, events, client>>

\* The application has seen an event of the stream and ends its side with
\* ezgrpc2_server_session_stream_end.
AppEnds(s) ==
    /\ session = "open"
    /\ events[s] # <<>>
    /\ ng[s].state \in {"open", "ended"} /\ ~ng[s].local
    /\ ng' = [ng EXCEPT ![s].local = TRUE]
    /\ UNCHANGED <<session, lstreams, ez, frame, events, client>>

\* The poll loop sees POLLRDHUP or POLLERR, possibly within a DATA frame.
Hangup ==
    /\ session = "open"
    /\ FreeSession
    /\ UNCHANGED <<ez, events, client>>

\* Nothing more happens to the session.
Gone == session # "open" /\ UNCHANGED vars

Next ==
    \/ \E s \in Streams :
         \/ \E head \in Fields, endStream \in BOOLEAN, w \in Wires[s] :
               RecvHeaders(s, head, endStream, w)
         \/ TooManyHeaders(s) \/ RecvTrailers(s)
         \/ \E n \in 1 .. Len(wire[s]) - sent[s] : RecvChunk(s, n)
         \/ \E endStream \in BOOLEAN : RecvDataFrame(s, endStream)
         \/ StreamClosed(s) \/ ClientResets(s) \/ AppEnds(s)
    \/ Hangup \/ Gone

Spec == Init /\ [][Next]_vars

-----------------------------------------------------------------------------
(* Safety *)

Received(s) == SubSeq(wire[s], 1, sent[s])

\* The four length bytes of n.
BigEndian(n) == << n \div (Base * Base * Base), (n \div (Base * Base)) % Base,
                   (n \div Base) % Base, n % Base >>

\* However a client's bytes are cut into frames and chunks, the buffer holds
\* the last bytes received, none lost, repeated or out of place, as long as
\* memcpy copies upwards, and never more of them than the buffer has room for.
\* (A stream that trailers gave a new object starts over.)
BufferIsSuffix == \A s \in Streams :
    LET n == Len(ez[s].recv)
    IN  /\ n <= Window
        /\ ez[s].object = 1 /\ session = "open" /\ exact[s] =>
             n <= sent[s] /\ ez[s].recv = SubSeq(wire[s], sent[s] - n + 1, sent[s])

\* Every message an application is given is, flag, length and payload, a
\* slice of what the client sent on that stream: parse_grpc_message neither
\* reads past the bytes received nor mixes bytes of different places. The list
\* it comes in has been allocated, although it is the quick check with its
\* 32 bit sum that allocates it and the loop, with 64 bits, that fills it.
DeliveredVerbatim == \A s \in Streams : \A k \in DOMAIN events[s] :
    LET e == events[s][k]
        Sent(m) == \E o \in 0 .. sent[s] - 5 - Len(m.data) :
           SubSeq(wire[s], o + 1, o + 5 + Len(m.data))
             = <<m.cflag>> \o BigEndian(Len(m.data)) \o m.data
    IN  /\ e.type = "MESSAGE" => e.allocated
        /\ exact[s] => \A i \in DOMAIN e.msgs : Sent(e.msgs[i])

\* A message is delivered with the frame that completes it: between frames
\* the buffer of a served stream does not start with a complete message.
NoCompleteMessageLeft == \A s \in Streams :
    /\ session = "open" /\ frame # s
    /\ ng[s].state \in {"open", "ended"} /\ ez[s].path /\ exact[s]
    => ~Complete(ez[s].recv, 0)

\* However frames, truncation and END_STREAM combine, a served stream whose
\* client ended it gets exactly one final event, as its last: MESSAGE with
\* end_stream when every byte was consumed, DATALOSS when some are left. No
\* other stream gets one.
Final(e) == e.type = "DATALOSS" \/ e.end_stream

FinalEventOnce == \A s \in Streams :
    LET finals == {k \in DOMAIN events[s] : Final(events[s][k])}
    IN  IF eos[s] /\ ez[s].path
          THEN /\ finals = {Len(events[s])}
               /\ events[s][Len(events[s])].type =
                    IF ez[s].recv = <<>> THEN "MESSAGE" ELSE "DATALOSS"
          ELSE finals = {}

\* lstreams holds exactly the objects of the streams nghttp2 has open, each
\* once: no stream is left behind by a close or freed twice, and without
\* trailers the assert of on_stream_close_callback finds what it looks for.
StreamsTracked ==
    session = "open" =>
      LET active  == {s \in Streams : ng[s].state \in {"open", "ended", "closing"}}
          objects == {p \in Streams \X (1 .. 2) : p[1] \in active /\ p[2] <= ez[p[1]].object}
      IN  /\ {lstreams[i] : i \in DOMAIN lstreams} = objects
          /\ \A i, j \in DOMAIN lstreams : lstreams[i] = lstreams[j] => i = j

-----------------------------------------------------------------------------
(* What the repository says and the code does not do; TLC refutes each when *)
(* it is given as the property of a run.                                    *)

\* The framing of gRPC: the next header follows the payload.
WellFramed(w) ==
    LET from[seek \in 0 .. Len(w)] ==
          \/ seek = Len(w)
          \/ Complete(w, seek) /\ from[seek + 5 + MsgLen(w, seek)]
    IN  from[0]

\* DATALOSS: "an end stream but last message is truncated" (line 509).
DatalossMeansTruncated == \A s \in Streams : \A k \in DOMAIN events[s] :
    events[s][k].type = "DATALOSS" => ~WellFramed(Received(s))

\* "POST data exceeds maximum allowed size, killing stream" (lines 621-624):
\* the session, and its other streams, live on.
OversizeKillsOnlyStream ==
    [][\A s \in Streams : \A n \in 1 .. Len(wire[s]) - sent[s] :
         RecvChunk(s, n) => session' = "open"]_vars

\* The assert of on_stream_close_callback (line 641).
NoAssertFails == session # "aborted"
=============================================================================
