------------------------------- MODULE Service -------------------------------
(***************************************************************************)
(* A service on top of the library, as examples/multi_threaded.c and         *)
(* examples/single_threaded.c write it: one loop polls the server, turns     *)
(* events into tasks of two thread pools, collects what they have finished   *)
(* and sends it. It composes the promises of two components that are         *)
(* modelled in detail elsewhere: the event store (EventStream, implemented   *)
(* by Events) and the pollable pool (TaskPool, implemented by Pthpool).      *)
(*                                                                          *)
(* An event is known by its place in the stream of events, a task by the     *)
(* event it was made for. Tasks have no deadline (add_task passes none), so  *)
(* the branch of handle_thread_pool for is_timeout is never taken.           *)
(***************************************************************************)
EXTENDS Naturals, Sequences, FiniteSets

CONSTANTS
    Unary,              \* the streams on the unary path
    Streaming,          \* and those on the other; all of one session
    MaxEvents           \* bound: events the clients cause

ASSUME StreamsAssumption == Unary \cap Streaming = {} /\ MaxEvents \in Nat

Streams == Unary \cup Streaming
Places  == 1 .. MaxEvents
Pools   == {"ordered", "unordered"}

VARIABLES
    written, read,                              \* the event store
    oPending, oActive, oOutcome, oDone, oDelivered, oDiscarded, oClosed,
    uPending, uActive, uOutcome, uDone, uDelivered, uDiscarded, uClosed,
    threaded,           \* which of the two examples is run
    pc,                 \* where the loop is
    long,               \* timeout == 10000, else 10
    handled,            \* events handled
    results,            \* lresults
    stream,             \* per stream, as nghttp2 has it: [is, closed, out]
    freed,              \* per event, how often its message list was freed
    sigterm             \* sigterm_flag

store  == <<written, read>>
oVars  == <<oPending, oActive, oOutcome, oDone, oDelivered, oDiscarded, oClosed>>
uVars  == <<uPending, uActive, uOutcome, uDone, uDelivered, uDiscarded, uClosed>>
vars   == <<written, read, oPending, oActive, oOutcome, oDone, oDelivered, oDiscarded,
            oClosed, uPending, uActive, uOutcome, uDone, uDelivered, uDiscarded, uClosed,
            threaded, pc, long, handled, results, stream, freed, sigterm>>

E == INSTANCE EventStream WITH Event <- Places
O == INSTANCE TaskPool WITH Tasks <- Places, pending <- oPending, active <- oActive,
       outcome <- oOutcome, done <- oDone, delivered <- oDelivered,
       discarded <- oDiscarded, closed <- oClosed
U == INSTANCE TaskPool WITH Tasks <- Places, pending <- uPending, active <- uActive,
       outcome <- uOutcome, done <- uDone, delivered <- uDelivered,
       discarded <- uDiscarded, closed <- uClosed

Event(s, kind, n, end) == [stream |-> s, kind |-> kind, n |-> n, end |-> end]

\* What the receive path reports of a stream (RecvPath): batches of messages,
\* the last with end_stream set, or a truncated end. How many messages a batch
\* has matters to a unary service only, and there only whether it is one.
Reports(s) ==
    {Event(s, "message", 1, FALSE), Event(s, "message", 1, TRUE), Event(s, "dataloss", 0, TRUE)}
      \cup {Event(s, "message", 2, TRUE) : u \in Unary \cap {s}}

Trailers == 0           \* in `out`; otherwise the place of the event answered

Init ==
    /\ E!Init /\ O!Init /\ U!Init
    /\ threaded \in BOOLEAN
    /\ pc = "top" /\ long = FALSE /\ handled = 0 /\ results = <<>>
    /\ stream = [s \in Streams |-> [is |-> "open", closed |-> FALSE, out |-> <<>>]]
    /\ freed = [i \in Places |-> 0]
    /\ sigterm = FALSE

-----------------------------------------------------------------------------
(* Calls into the library *)

\* A stream that ended on both sides is dropped by nghttp2.
Settled(x) == IF x.is = "open" /\ x.closed /\ Trailers \in {x.out[k] : k \in DOMAIN x.out}
              THEN [x EXCEPT !.is = "finished"] ELSE x

Sends(x, what) ==
    IF Trailers \in {x.out[k] : k \in DOMAIN x.out} THEN x
    ELSE Settled([x EXCEPT !.out = Append(@, what)])

\* ezgrpc2_server_session_stream_send, which may return 3 and leave a broken
\* session, and then ezgrpc2_server_session_stream_end if the event ended the
\* stream. On a stream or session that is gone both do nothing.
Answer(i) ==
    LET e == written[i]
        x == Sends(stream[e.stream], i)
    IN  IF stream[e.stream].is # "open" THEN UNCHANGED stream
        ELSE \/ stream' = [stream EXCEPT ![e.stream] = IF e.end THEN Sends(x, Trailers) ELSE x]
             \/ stream' = [stream EXCEPT ![e.stream].is = "broken"]

\* ezgrpc2_server_session_stream_end
StreamEnd(s) ==
    IF stream[s].is # "open" THEN UNCHANGED stream
    ELSE stream' = [stream EXCEPT ![s] = Sends(@, Trailers)]

-----------------------------------------------------------------------------
(* The loop *)

\* Mutant: only the pool for unary requests is asked.
UnorderedEmpty == uPending = <<>> /\ uActive = {} /\ uDone = <<>>

\* is_pool_empty
PoolsEmpty == /\ uPending = <<>> /\ uActive = {} /\ uDone = <<>>
              /\ oPending = <<>> /\ oActive = {} /\ oDone = <<>>

LoopTop ==
    /\ pc = "top"
    /\ IF threaded /\ sigterm
       THEN pc' = "exit" /\ UNCHANGED long
       ELSE pc' = "polling" /\ long' = (threaded => PoolsEmpty)
    /\ UNCHANGED <<store, oVars, uVars, threaded, handled, results, stream, freed, sigterm>>

\* Mutant: a poll without events goes back to the top.
PollAgain ==
    /\ pc = "polling"
    /\ pc' = IF read = written THEN "top" ELSE "events"
    /\ UNCHANGED <<store, oVars, uVars, threaded, long, handled, results, stream, freed, sigterm>>

\* ezgrpc2_server_poll returns, with events or after the time-out. (It also
\* returns more than 0 without an event: then handle_events finds nothing.)
PollReturns ==
    /\ pc = "polling"
    /\ pc' = IF read # written THEN "events" ELSE IF threaded THEN "ordered" ELSE "top"
    /\ UNCHANGED <<store, oVars, uVars, threaded, long, handled, results, stream, freed, sigterm>>

\* poll(2) fails; nothing was read yet.
PollFails ==
    /\ pc = "polling" /\ read = written
    /\ pc' = "exit"
    /\ UNCHANGED <<store, oVars, uVars, threaded, long, handled, results, stream, freed, sigterm>>

\* handle_events: the next block, or none is left.
EventsRead ==
    /\ pc = "events" /\ handled = Len(read)
    /\ IF read # written
       THEN E!Read /\ UNCHANGED pc
       ELSE pc' = (IF threaded THEN "ordered" ELSE "top") /\ UNCHANGED store
    /\ UNCHANGED <<oVars, uVars, threaded, long, handled, results, stream, freed, sigterm>>

\* More than one message for a unary service, or fewer, or no end of stream.
Refused(e) == e.stream \in Unary /\ e.kind = "message" /\ (~e.end \/ e.n # 1)

\* The pool whose tasks are done in order, and the other.
AddTask(i) ==
    IF written[i].stream \in Unary THEN U!Submit(i) /\ UNCHANGED oVars
    ELSE O!Submit(i) /\ UNCHANGED uVars

\* handle_event_message and handle_event_dataloss of multi_threaded.c; of a
\* refused request the message list is dropped. (Events of sessions that come
\* and go are only logged, and the library never writes a cancel event.)
HandleEvent ==
    /\ pc = "events" /\ handled < Len(read) /\ threaded
    /\ LET i == handled + 1 IN
         /\ handled' = i
         /\ CASE Refused(read[i]) -> StreamEnd(read[i].stream) /\ UNCHANGED <<oVars, uVars>>
              [] ~Refused(read[i]) -> AddTask(i) /\ UNCHANGED stream
    /\ UNCHANGED <<store, threaded, pc, long, results, freed, sigterm>>

\* The same in single_threaded.c, which calls back and answers at once, and
\* frees no message list of a request.
HandleInline ==
    /\ pc = "events" /\ handled < Len(read) /\ ~threaded
    /\ LET i == handled + 1 IN
         /\ handled' = i
         /\ CASE Refused(read[i]) \/ read[i].kind = "dataloss" -> StreamEnd(read[i].stream)
              [] ~Refused(read[i]) /\ read[i].kind = "message" -> Answer(i)
    /\ UNCHANGED <<store, oVars, uVars, threaded, pc, long, results, freed, sigterm>>

\* handle_thread_pool: ezgrpc2_pthpool_poll ...
PollOrdered ==
    /\ pc = "ordered"
    /\ O!Collect /\ results' = oDone
    /\ pc' = "answer ordered"
    /\ UNCHANGED <<store, uVars, threaded, long, handled, stream, freed, sigterm>>

PollUnordered ==
    /\ pc = "unordered"
    /\ U!Collect /\ results' = uDone
    /\ pc' = "answer unordered"
    /\ UNCHANGED <<store, oVars, threaded, long, handled, stream, freed, sigterm>>

\* callback_path1 has freed the list of a good request, and cleared imessages.
FreedByCallback(i) == written[i].stream \in Unary /\ written[i].kind = "message"

\* Mutant: free_userdata frees the input list of every task.
FreeUserdataBoth(i) == freed' = [freed EXCEPT ![i] = @ + 1]

\* free_userdata
FreeUserdata(i) ==
    IF FreedByCallback(i) THEN UNCHANGED freed ELSE freed' = [freed EXCEPT ![i] = @ + 1]

\* ... and then each result of the list is sent and freed.
SendResult ==
    /\ pc \in {"answer ordered", "answer unordered"} /\ results # <<>>
    /\ Answer(Head(results))
    /\ FreeUserdata(Head(results))
    /\ results' = Tail(results)
    /\ UNCHANGED <<store, oVars, uVars, threaded, pc, long, handled, sigterm>>

ResultsDone ==
    /\ pc \in {"answer ordered", "answer unordered"} /\ results = <<>>
    /\ pc' = IF pc = "answer ordered" THEN "unordered" ELSE "top"
    /\ UNCHANGED <<store, oVars, uVars, threaded, long, handled, results, stream, freed, sigterm>>

\* ezgrpc2_events_free and ezgrpc2_server_free: the session is gone.
ServerFree ==
    /\ pc = "exit"
    /\ stream' = [s \in Streams |->
          IF stream[s].is = "open" THEN [stream[s] EXCEPT !.is = "gone"] ELSE stream[s]]
    /\ pc' = IF threaded THEN "free ordered" ELSE "over"
    /\ UNCHANGED <<store, oVars, uVars, threaded, long, handled, results, freed, sigterm>>

\* ezgrpc2_pthpool_free: joins, then drops what is left, with no clean-up.
FreeOrdered ==
    /\ pc = "free ordered" /\ O!Close
    /\ pc' = "free unordered"
    /\ UNCHANGED <<store, uVars, threaded, long, handled, results, stream, freed, sigterm>>

FreeUnordered ==
    /\ pc = "free unordered" /\ U!Close
    /\ pc' = "over"
    /\ UNCHANGED <<store, oVars, threaded, long, handled, results, stream, freed, sigterm>>

MainStep ==
    \/ LoopTop \/ PollReturns \/ EventsRead \/ HandleEvent \/ HandleInline
    \/ PollOrdered \/ PollUnordered \/ SendResult \/ ResultsDone
    \/ ServerFree \/ FreeOrdered \/ FreeUnordered

-----------------------------------------------------------------------------
(* The threads of the pools *)

\* Mutant: the ordered pool gets two threads as well.
TwoWorkers(pool) == 2

\* ezgrpc2_pthpool_new(2, 0) and ezgrpc2_pthpool_new(1, 0)
Workers(pool) == IF pool = "ordered" THEN 1 ELSE 2

OrderedWorker ==
    /\ \/ Cardinality(oActive) < Workers("ordered") /\ O!Start
       \/ \E i \in oActive : O!Settle(i, "executed") \/ O!Complete(i)
    /\ UNCHANGED <<store, uVars, threaded, pc, long, handled, results, stream, freed, sigterm>>

\* callback_path1 frees the list of its messages.
UnorderedWorker ==
    /\ \/ Cardinality(uActive) < Workers("unordered") /\ U!Start /\ UNCHANGED freed
       \/ \E i \in uActive :
            \/ /\ U!Settle(i, "executed")
               /\ IF FreedByCallback(i) THEN freed' = [freed EXCEPT ![i] = @ + 1]
                  ELSE UNCHANGED freed
            \/ U!Complete(i) /\ UNCHANGED freed
    /\ UNCHANGED <<store, oVars, threaded, pc, long, handled, results, stream, sigterm>>

-----------------------------------------------------------------------------
(* Inside ezgrpc2_server_poll, and a signal *)

Arrives(s, e) ==
    /\ pc = "polling" /\ Len(written) < MaxEvents
    /\ stream[s].is = "open" /\ ~stream[s].closed
    /\ E!Write(e)
    /\ stream' = [stream EXCEPT ![s] = Settled([@ EXCEPT !.closed = e.end])]
    /\ UNCHANGED <<oVars, uVars, threaded, pc, long, handled, results, freed, sigterm>>

\* RST_STREAM
Cancels(s) ==
    /\ pc = "polling" /\ stream[s].is = "open"
    /\ stream' = [stream EXCEPT ![s].is = "gone"]
    /\ UNCHANGED <<store, oVars, uVars, threaded, pc, long, handled, results, freed, sigterm>>

SessionLost ==
    /\ pc = "polling" /\ \E s \in Streams : stream[s].is \in {"open", "broken"}
    /\ stream' = [s \in Streams |->
          IF stream[s].is \in {"open", "broken"} THEN [stream[s] EXCEPT !.is = "gone"] ELSE stream[s]]
    /\ UNCHANGED <<store, oVars, uVars, threaded, pc, long, handled, results, freed, sigterm>>

SignalHandler ==
    /\ threaded /\ ~sigterm /\ pc # "over"
    /\ sigterm' = TRUE
    /\ UNCHANGED <<store, oVars, uVars, threaded, pc, long, handled, results, stream, freed>>

Over == pc = "over" /\ UNCHANGED vars

Next ==
    \/ MainStep \/ PollFails
    \/ OrderedWorker \/ UnorderedWorker
    \/ \E s \in Streams : (\E e \in Reports(s) : Arrives(s, e)) \/ Cancels(s)
    \/ SessionLost \/ SignalHandler
    \/ Over

Spec == Init /\ [][Next]_vars

\* Threads are scheduled and callbacks return; a poll ends by its time-out.
FairSpec ==
    Spec /\ WF_vars(MainStep) /\ WF_vars(OrderedWorker) /\ WF_vars(UnorderedWorker)

-----------------------------------------------------------------------------

Elements(q) == {q[k] : k \in DOMAIN q}

\* A stream is answered in the order of its requests, each at most once, by
\* tasks of its own, and nothing follows the trailers; unary requests are done
\* by two threads, but a stream has one good one ("worker must be one for an
\* ordered execution", multi_threaded.c:321).
RepliesInOrder ==
    \A s \in Streams :
      LET out == stream[s].out IN
      \A j, k \in DOMAIN out : j < k =>
        /\ out[j] # Trailers
        /\ out[k] # Trailers => out[j] < out[k] /\ written[out[k]].stream = s

\* The loop waits long only while neither pool has a task in any form: what
\* was submitted while it handled events or finished since is seen within the
\* short time-out (multi_threaded.c:390-396).
NeverSleepsOnWork ==
    threaded /\ pc = "polling" /\ long =>
        O!Accepted \cup U!Accepted \subseteq Elements(oDelivered) \cup Elements(uDelivered)

\* The list of a request is freed once at most, by the callback or with its
\* userdata; and when the loop is over those never freed are of refused
\* requests, and of tasks the pools dropped before the callback freed it.
ListsFreedOnce ==
    /\ \A i \in Places : freed[i] <= 1
    /\ pc = "over" /\ threaded => \A i \in 1 .. handled :
         freed[i] = 0 <=> \/ Refused(read[i])
                          \/ /\ i \in oDiscarded \cup uDiscarded
                             /\ ~(FreedByCallback(i) /\ uOutcome[i] = "executed")

\* Every request is answered and, if it was the last of its stream, the stream
\* is ended; unless the stream or its session goes away, or the server does.
Answered(i) ==
    LET e   == written[i]
        out == Elements(stream[e.stream].out)
    IN  \/ stream[e.stream].is \in {"gone", "broken"}
        \/ pc \in {"exit", "free ordered", "free unordered", "over"}
        \/ ~e.end /\ i \in out
        \/ Trailers \in out /\ (i \in out \/ e.stream \in Unary \/ e.kind = "dataloss")

EveryRequestAnswered ==
    \A i \in Places : (i <= Len(written)) ~> (i <= Len(written) /\ Answered(i))
=============================================================================
