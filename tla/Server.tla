-------------------------------- MODULE Server --------------------------------
(***************************************************************************)
(* The server's poll loop and its table of sessions: ezgrpc2_server.c,      *)
(* the session_* functions of internal_helpers.c and the lookups of         *)
(* ezgrpc2_session.c. One thread runs all of it. What runs beside it is the *)
(* clients, which connect, send, read and hang up between any two of its    *)
(* system calls, also between poll() and the use of what poll() returned.   *)
(*                                                                          *)
(* External: poll(), accept(), close() and the sockets; and of nghttp2 what *)
(* nghttp2_session_want_read and _want_write say and when frames go out.    *)
(* A connection gets at most one session, so that its identity stands for   *)
(* the random part of the session's uuid, and for its descriptor.           *)
(***************************************************************************)
EXTENDS Naturals, Sequences, FiniteSets

CONSTANTS
    MaxConnections,     \* server_settings.max_connections
    Conns,              \* the connections clients ever make
    Listener,           \* the listening socket each of them is made to
    Sends,              \* what the client of each connection may send
    NoConn              \* a descriptor of -1, a uuid of zeros

ASSUME MaxConnectionsAssumption == MaxConnections \in Nat \ {0}
ASSUME ListenerAssumption == Listener \in [Conns -> {0, 1}]
ASSUME SendsAssumption    == Sends \in [Conns -> SUBSET {"request", "ping"}]
ASSUME NoConnAssumption   == NoConn \notin Conns

Listeners == {0, 1}                     \* fds[0] is ipv4, fds[1] ipv6
Last      == MaxConnections + 1         \* nb_fds - 1
Slots     == 2 .. Last

VARIABLES
    fds,                \* server->fds[i].fd
    revents,            \* server->fds[i].revents, as left by poll()
    sessions,           \* server->sessions[i]
    pc,                 \* where the thread is, and the index it works on
    events,             \* the events written, for each session
    backlog,            \* connections each listening socket has to accept
    sockets,            \* the accepted descriptors the process has open
    conn                \* the client's end of each connection

vars == <<fds, revents, sessions, pc, events, backlog, sockets, conn>>
table == <<fds, revents, sessions, events, sockets>>

\* "plain" stands for DATA, SETTINGS, WINDOW_UPDATE and acknowledgements.
Frame == {"plain", "trailers", "goaway"}

\* `id` and `index` are the uuid; `stream`: the client's request is being
\* answered; `goaway`: GOAWAY was sent; `out`: frames nghttp2 has still to send.
Session == [id : Conns \cup {NoConn}, index : Slots \cup {0},
            sockfd : Conns \cup {NoConn}, stream : BOOLEAN, goaway : BOOLEAN,
            out : SUBSET Frame]

Zero == [id |-> NoConn, index |-> 0, sockfd |-> NoConn, stream |-> FALSE,
         goaway |-> FALSE, out |-> {}]

TypeOK ==
    /\ fds \in [Slots -> Conns \cup {NoConn}]
    /\ revents \in [Listeners \cup Slots -> SUBSET {"IN", "HUP"}]
    /\ sessions \in [Slots -> Session]
    /\ \/ pc.at \in {"app", "freed"} /\ pc.ndx = 0
       \/ pc.at = "accept" /\ pc.ndx \in Listeners
       \/ pc.at \in {"slot", "read", "flush", "send"} /\ pc.ndx \in Slots
    /\ events \in [Conns -> Seq([type : {"CONNECT", "MESSAGE", "DISCONNECT"},
                                 index : Slots \cup {0}])]
    /\ backlog \in [Listeners -> Seq(Conns)]
    /\ sockets \subseteq Conns
    /\ conn \in [Conns -> [made : BOOLEAN, inbox : {"none", "request", "ping"},
                           hup : BOOLEAN, full : BOOLEAN]]

-----------------------------------------------------------------------------
(* ezgrpc2_server_new *)

Init ==
    /\ fds = [i \in Slots |-> NoConn]
    /\ revents = [i \in Listeners \cup Slots |-> {}]
    /\ sessions = [i \in Slots |-> Zero]
    /\ pc = [at |-> "app", ndx |-> 0]
    /\ events = [c \in Conns |-> <<>>]
    /\ backlog = [l \in Listeners |-> <<>>]
    /\ sockets = {}
    /\ conn = [c \in Conns |-> [made |-> FALSE, inbox |-> "none", hup |-> FALSE,
                                full |-> FALSE]]

-----------------------------------------------------------------------------
(* Clients *)

Connect(c) ==
    /\ ~conn[c].made
    /\ conn' = [conn EXCEPT ![c].made = TRUE]
    /\ backlog' = [backlog EXCEPT ![Listener[c]] = Append(@, c)]
    /\ UNCHANGED <<table, pc>>

\* The connection waits to be accepted, or has a session. (What a client does
\* with one that the server has closed, the server does not see.)
Connected(c) == pc.at # "freed" /\
    \/ \E k \in DOMAIN backlog[Listener[c]] : backlog[Listener[c]][k] = c
    \/ \E i \in Slots : fds[i] = c

\* "request" makes nghttp2 open a stream, and is told as a MESSAGE; one for each
\* connection, for streams are module Streams. "ping" stands for the frames that
\* nghttp2 answers by itself, PING, SETTINGS, WINDOW_UPDATE: any number of them.
SendBytes(c, what) ==
    /\ Connected(c) /\ ~conn[c].hup /\ conn[c].inbox = "none"
    /\ what = "request" => \A k \in DOMAIN events[c] : events[c][k].type # "MESSAGE"
    /\ conn' = [conn EXCEPT ![c].inbox = what]
    /\ UNCHANGED <<table, pc, backlog>>

\* The client reads what has filled the socket.
Reads(c) ==
    /\ Connected(c) /\ conn[c].full
    /\ conn' = [conn EXCEPT ![c].full = FALSE]
    /\ UNCHANGED <<table, pc, backlog>>

Hangup(c) ==
    /\ Connected(c) /\ ~conn[c].hup
    /\ conn' = [conn EXCEPT ![c].hup = TRUE]
    /\ UNCHANGED <<table, pc, backlog>>

-----------------------------------------------------------------------------
(* Parts of the poll loop *)

\* Mutant: one poll serves one slot.
NextSlotFirst(i) ==
    pc' = IF i < Last /\ revents[i] = {} THEN [at |-> "slot", ndx |-> i + 1]
          ELSE [at |-> "app", ndx |-> 0]

\* for (i = 2; i < nb_fds; i++), then ezgrpc2_server_poll returns.
NextSlot(i) ==
    pc' = IF i < Last THEN [at |-> "slot", ndx |-> i + 1]
          ELSE [at |-> "app", ndx |-> 0]

\* What the client still had to send or to read is lost with the connection.
Lose(c) == conn' = [conn EXCEPT ![c].inbox = "none", ![c].full = FALSE]

Write(c, type, i) == [events EXCEPT ![c] = Append(@, [type |-> type, index |-> i])]

\* Mutant: the session goes without a DISCONNECT.
SessionFreeSilent(i) ==
    /\ sessions' = [sessions EXCEPT ![i] = Zero]
    /\ UNCHANGED events

\* session_free: DISCONNECT is written, and the slot's memory zeroed. (The
\* GOAWAY of nghttp2_session_terminate_session is never sent.)
SessionFree(i) ==
    /\ events' = Write(sessions[i].id, "DISCONNECT", sessions[i].index)
    /\ sessions' = [sessions EXCEPT ![i] = Zero]

\* Mutant: fds[i].fd is not reset.
CloseSlotKept(i) ==
    /\ sockets' = sockets \ {sessions[i].sockfd}
    /\ SessionFree(i)
    /\ Lose(sessions[i].sockfd)
    /\ revents' = [revents EXCEPT ![i] = {}]
    /\ UNCHANGED fds

\* session_events has failed: close(sockfd), fds[i].fd = -1, session_free.
CloseSlot(i) ==
    /\ sockets' = sockets \ {sessions[i].sockfd}
    /\ fds' = [fds EXCEPT ![i] = NoConn]
    /\ SessionFree(i)
    /\ Lose(sessions[i].sockfd)
    /\ revents' = [revents EXCEPT ![i] = {}]

\* nghttp2_session_want_read, nghttp2_session_want_write
WantRead(s)  == ~s.goaway \/ s.stream
WantWrite(s) == s.out # {}

\* All of `out` has been given to the socket.
Sent(s) == [s EXCEPT !.out = {}, !.stream = @ /\ "trailers" \notin s.out,
                     !.goaway = @ \/ "goaway" \in s.out]

-----------------------------------------------------------------------------
(* ezgrpc2_server_poll, which ezgrpc2_server_events_poll repeats line by line *)

\* What poll() reports of a slot.
Ready(i) ==
    IF fds[i] = NoConn THEN {}
    ELSE {e \in {"IN", "HUP"} :
            \/ e = "IN" /\ (conn[fds[i]].inbox # "none" \/ conn[fds[i]].hup)
            \/ e = "HUP" /\ conn[fds[i]].hup}

\* poll() returns something; without, ezgrpc2_server_poll returns at once.
Poll ==
    /\ pc.at = "app"
    /\ revents' = [i \in Listeners \cup Slots |->
                     IF i \in Slots THEN Ready(i)
                     ELSE IF backlog[i] # <<>> THEN {"IN"} ELSE {}]
    /\ \E i \in Listeners \cup Slots : revents'[i] # {}
    /\ pc' = [at |-> "accept", ndx |-> 0]
    /\ UNCHANGED <<fds, sessions, events, backlog, sockets, conn>>

Unused == {i \in Slots : fds[i] = NoConn}

NextListener(l) ==
    pc' = IF l = 0 THEN [at |-> "accept", ndx |-> 1] ELSE [at |-> "slot", ndx |-> 2]

\* session_add with a free slot: session_create, CONNECT, and the descriptor
\* goes to the first slot that get_unused_pollfd_ndx finds. The SETTINGS frame
\* waits for the first session_events.
SessionAdd(c) ==
    LET i == CHOOSE k \in Unused : \A j \in Unused : k <= j
    IN  /\ Unused # {}
        /\ fds' = [fds EXCEPT ![i] = c]
        /\ sessions' = [sessions EXCEPT ![i] =
             [Zero EXCEPT !.id = c, !.index = i, !.sockfd = c, !.out = {"plain"}]]
        /\ sockets' = sockets \cup {c}
        /\ events' = Write(c, "CONNECT", i)
        /\ UNCHANGED conn

\* Mutant: a connection that is turned away is not closed.
TurnAwayOpen(c) ==
    /\ sockets' = sockets \cup {c}
    /\ Lose(c)
    /\ UNCHANGED <<fds, sessions, events>>

\* session_add without one ("max client reached"), or when nghttp2 has no
\* memory for a session: the descriptor is closed again.
TurnAway(c) == Lose(c) /\ UNCHANGED <<fds, sessions, events, sockets>>

\* accept() brings the first connection of the backlog.
Take(l) ==
    /\ backlog' = [backlog EXCEPT ![l] = Tail(@)]
    /\ SessionAdd(Head(backlog[l])) \/ TurnAway(Head(backlog[l]))

\* accept() returns -1, or is not called.
TakeNone == UNCHANGED <<fds, sessions, events, sockets, backlog, conn>>

\* Mutant: only fds[0] is accepted from.
AcceptIPv4(l) ==
    /\ pc = [at |-> "accept", ndx |-> l]
    /\ NextListener(l)
    /\ \/ "IN" \in revents[l] /\ l = 0 /\ Take(l)
       \/ TakeNone
    /\ revents' = [revents EXCEPT ![l] = {}]

\* One accept() for each listening socket that is ready, which may fail and
\* leave the connection where it is: poll() reports the socket again. (Nobody
\* reads its revents any more until poll() has written it anew, so the model
\* clears it.)
Accept(l) ==
    /\ pc = [at |-> "accept", ndx |-> l]
    /\ NextListener(l)
    /\ \/ "IN" \in revents[l] /\ Take(l)
       \/ TakeNone
    /\ revents' = [revents EXCEPT ![l] = {}]

\* A slot poll() said nothing of; the descriptor may be newer than poll().
SkipSlot(i) ==
    /\ pc = [at |-> "slot", ndx |-> i]
    /\ fds[i] = NoConn \/ revents[i] = {}
    /\ NextSlot(i)
    /\ UNCHANGED <<table, backlog, conn>>

\* POLLRDHUP or POLLERR: the session is freed, whatever is still to be read.
\* The descriptor is forgotten without being closed.
HangupSlot(i) ==
    /\ pc = [at |-> "slot", ndx |-> i]
    /\ fds[i] # NoConn /\ "HUP" \in revents[i]
    /\ SessionFree(i)
    /\ Lose(sessions[i].sockfd)
    /\ fds' = [fds EXCEPT ![i] = NoConn]
    /\ revents' = [revents EXCEPT ![i] = {}]
    /\ NextSlot(i)
    /\ UNCHANGED <<backlog, sockets>>

\* POLLIN: session_events is called.
Serving(i) ==
    /\ pc = [at |-> "slot", ndx |-> i]
    /\ fds[i] # NoConn /\ revents[i] = {"IN"}

\* nghttp2_session_recv, called if nghttp2 wants to read, is calling recv().
Reading(i) ==
    \/ pc = [at |-> "read", ndx |-> i]
    \/ Serving(i) /\ WantRead(sessions[i])

\* session_events fails: nghttp2 is done with the session, or reading fails,
\* on what the client sent (any of it may be against the protocol) or on a
\* connection that is gone.
FailSlot(i) ==
    /\ \/ Serving(i) /\ ~WantRead(sessions[i]) /\ ~WantWrite(sessions[i])
       \/ /\ Reading(i)
          /\ conn[sessions[i].sockfd].inbox # "none" \/ conn[sessions[i].sockfd].hup
    /\ CloseSlot(i)
    /\ NextSlot(i)
    /\ UNCHANGED backlog

\* recv() brings something, and is called again: what the client has sent in
\* the meantime is read in the same call. After a GOAWAY nghttp2 ignores new
\* streams.
Receive(i) ==
    LET s == sessions[i]
        c == s.sockfd
    IN  /\ Reading(i)
        /\ \/ /\ conn[c].inbox = "request" /\ ~s.goaway
              /\ sessions' = [sessions EXCEPT ![i].stream = TRUE,
                                              ![i].out = @ \cup {"plain"}]
              /\ events' = Write(s.id, "MESSAGE", s.index)
           \/ /\ conn[c].inbox = "request" /\ s.goaway
              /\ UNCHANGED <<sessions, events>>
           \/ /\ conn[c].inbox = "ping"
              /\ sessions' = [sessions EXCEPT ![i].out = @ \cup {"plain"}]
              /\ UNCHANGED events
        /\ conn' = [conn EXCEPT ![c].inbox = "none"]
        /\ pc' = [at |-> "read", ndx |-> i]
        /\ UNCHANGED <<fds, revents, backlog, sockets>>

\* recv() would block, or nghttp2 does not want to read. Then nghttp2 starts
\* to write, which may fill the socket.
ReadEnds(i) ==
    LET c == sessions[i].sockfd
    IN  /\ \/ Reading(i) /\ conn[c].inbox = "none"
           \/ Serving(i) /\ ~WantRead(sessions[i]) /\ WantWrite(sessions[i])
        /\ \E full \in {TRUE, conn[c].full} :
             conn' = [conn EXCEPT ![c].full = full /\ WantWrite(sessions[i])]
        /\ pc' = [at |-> "flush", ndx |-> i]
        /\ UNCHANGED <<table, backlog>>

\* while (nghttp2_session_want_write(...)) nghttp2_session_send(...);
Flush(i) ==
    /\ pc = [at |-> "flush", ndx |-> i]
    /\ \/ /\ ~WantWrite(sessions[i]) \/ ~conn[sessions[i].sockfd].full
          /\ sessions' = [sessions EXCEPT ![i] = Sent(@)]
          /\ revents' = [revents EXCEPT ![i] = {}]
          /\ UNCHANGED <<fds, events, sockets, conn>>
       \/ /\ WantWrite(sessions[i]) /\ conn[sessions[i].sockfd].hup
          /\ CloseSlot(i)
    /\ NextSlot(i)
    /\ UNCHANGED backlog

\* A socket that is full is no error: the loops of session_events and
\* ezgrpc2_server_session_stream_send try again at once.
Spin ==
    /\ pc.at \in {"flush", "send"}
    /\ WantWrite(sessions[pc.ndx]) /\ conn[sessions[pc.ndx].sockfd].full
    /\ UNCHANGED vars

-----------------------------------------------------------------------------
(* What the application does with the uuids that events gave it *)

Handles == {[id |-> c, index |-> events[c][1].index] :
              c \in {k \in Conns : events[k] # <<>>}}

\* Mutant: only the index is compared.
SessionFindIndex(h) == {i \in Slots : i = h.index /\ sessions[i].id # NoConn}

\* session_find, as the set of the slot found.
SessionFind(h) ==
    {i \in Slots : i = h.index /\ sessions[i].index = h.index /\ sessions[i].id = h.id}

\* ezgrpc2_server_session_stream_send: the message is submitted; the call then
\* writes until nothing is left.
StreamSend(h) ==
    /\ pc.at = "app"
    /\ \E i \in SessionFind(h) :
         /\ sessions[i].stream
         /\ sessions' = [sessions EXCEPT ![i].out = @ \cup {"plain"}]
         /\ \E full \in {TRUE, conn[sessions[i].sockfd].full} :
              conn' = [conn EXCEPT ![sessions[i].sockfd].full = full]
         /\ pc' = [at |-> "send", ndx |-> i]
    /\ UNCHANGED <<fds, revents, events, backlog, sockets>>

\* It returns 0 when all is written, 3 when the connection is gone.
SendReturns(i) ==
    /\ pc = [at |-> "send", ndx |-> i]
    /\ \/ /\ ~conn[sessions[i].sockfd].full
          /\ sessions' = [sessions EXCEPT ![i] = Sent(@)]
       \/ conn[sessions[i].sockfd].hup /\ UNCHANGED sessions
    /\ pc' = [at |-> "app", ndx |-> 0]
    /\ UNCHANGED <<fds, revents, events, backlog, sockets, conn>>

\* ezgrpc2_server_session_stream_end (trailers) and _session_end (goaway) try
\* to write once, and return 0 whatever came of it.
SubmitAndSendOnce(i, frame) ==
    LET c == sessions[i].sockfd
        s == [sessions[i] EXCEPT !.out = @ \cup {frame}]
    IN  \/ /\ ~conn[c].full
           /\ sessions' = [sessions EXCEPT ![i] = Sent(s)]
           /\ UNCHANGED conn
        \/ /\ sessions' = [sessions EXCEPT ![i] = s]
           /\ conn' = [conn EXCEPT ![c].full = @ \/ ~conn[c].hup]

\* (The application ends a stream, and a session, once.)
StreamEnd(h) ==
    /\ pc.at = "app"
    /\ \E i \in SessionFind(h) :
         /\ sessions[i].stream /\ "trailers" \notin sessions[i].out
         /\ SubmitAndSendOnce(i, "trailers")
    /\ UNCHANGED <<fds, revents, pc, events, backlog, sockets>>

SessionEnd(h) ==
    /\ pc.at = "app"
    /\ \E i \in SessionFind(h) :
         /\ ~sessions[i].goaway /\ "goaway" \notin sessions[i].out
         /\ SubmitAndSendOnce(i, "goaway")
    /\ UNCHANGED <<fds, revents, pc, events, backlog, sockets>>

\* ezgrpc2_server_free: every session in a slot is closed and reported.
ServerFree ==
    /\ pc.at = "app"
    /\ sockets' = sockets \ {fds[i] : i \in Slots}
    /\ events' = [c \in Conns |->
         IF c \in {fds[i] : i \in Slots}
           THEN Append(events[c], [type |-> "DISCONNECT",
                  index |-> sessions[CHOOSE i \in Slots : fds[i] = c].index])
           ELSE events[c]]
    /\ sessions' = [i \in Slots |-> Zero]
    /\ fds' = [i \in Slots |-> NoConn]
    /\ pc' = [at |-> "freed", ndx |-> 0]
    /\ UNCHANGED <<revents, backlog, conn>>

-----------------------------------------------------------------------------

ServerStep ==
    \/ \E l \in Listeners : Accept(l)
    \/ \E i \in Slots : \/ SkipSlot(i) \/ HangupSlot(i) \/ FailSlot(i)
                       \/ Receive(i) \/ ReadEnds(i) \/ Flush(i) \/ SendReturns(i)

AppStep == \E h \in Handles : StreamSend(h) \/ StreamEnd(h) \/ SessionEnd(h)

ClientStep(c) ==
    Connect(c) \/ Reads(c) \/ Hangup(c) \/ \E what \in Sends[c] : SendBytes(c, what)

\* poll() times out.
PollTimeout ==
    /\ pc.at = "app"
    /\ \A i \in Slots : Ready(i) = {}
    /\ \A l \in Listeners : backlog[l] = <<>>
    /\ UNCHANGED vars

\* The server is gone.
Freed == pc.at = "freed" /\ UNCHANGED vars

Next ==
    \/ Poll \/ ServerStep \/ Spin \/ AppStep \/ ServerFree
    \/ \E c \in Conns : ClientStep(c)
    \/ PollTimeout \/ Freed

Spec == Init /\ [][Next]_vars

\* The thread runs on, and the application's loop comes back to poll whatever
\* else it calls (every example does).
ServerFairness == WF_vars(ServerStep) /\ SF_vars(Poll)

\* Clients read what they are sent. And no client sends for ever at least as
\* fast as the thread reads: nghttp2_session_recv goes on until recv() would
\* block, and nothing in the code bounds it.
ClientFairness ==
    /\ WF_vars(\E c \in Conns : Reads(c))
    /\ SF_vars(\E i \in Slots : ReadEnds(i))

\* accept() does not fail for ever. (It does in a process that has run out of
\* descriptors, which HangupSlot uses up.)
AcceptFairness == SF_vars(\E l \in Listeners : Accept(l) /\ backlog' # backlog)

ServerFairSpec == Spec /\ ServerFairness
FairSpec       == Spec /\ ServerFairness /\ ClientFairness /\ AcceptFairness

-----------------------------------------------------------------------------
(* Safety *)

\* The two arrays agree at every step of the loop: a slot with a descriptor
\* holds the session made for it, its uuid leads back to the slot, and a slot
\* without one is all zeros, so that poll() and session_find see the same
\* sessions; no connection is in two slots.
SlotsAgree == \A i \in Slots :
    /\ IF fds[i] = NoConn THEN sessions[i] = Zero
       ELSE sessions[i].id = fds[i] /\ sessions[i].sockfd = fds[i] /\ sessions[i].index = i
    /\ \A j \in Slots : i # j /\ fds[i] # NoConn => fds[i] # fds[j]

\* What the application is told of a session is CONNECT, then its messages,
\* then one DISCONNECT, all under the index of CONNECT; and the session is in
\* the table exactly between the two, however it ends (hang-up, failure while
\* reading or writing, the server being freed).
EventsBracketSession == \A c \in Conns :
    LET e == events[c]
        Is(k, type) == e[k].type = type
    IN  /\ \A k \in DOMAIN e :
             /\ Is(k, "CONNECT") <=> k = 1
             /\ Is(k, "DISCONNECT") => k = Len(e)
             /\ e[k].index = e[1].index
        /\ (\E i \in Slots : sessions[i].id = c)
             <=> e # <<>> /\ ~Is(Len(e), "DISCONNECT")

\* Every accepted descriptor is closed, once its session has ended, unless
\* the session ended because the client hung up: ezgrpc2_server_poll frees
\* that session without a close (lines 249-256). So the descriptors open are
\* those in slots, and some whose client is gone.
SocketsAccounted ==
    /\ {fds[i] : i \in Slots} \ {NoConn} \subseteq sockets
    /\ \A c \in sockets : (\A i \in Slots : fds[i] # c) =>
         conn[c].hup /\ events[c] # <<>> /\ events[c][Len(events[c])].type = "DISCONNECT"

\* A uuid is never good for another session: whatever the application kept,
\* and however often slots were reused since, a call with it changes no
\* session but the one the uuid was given out for.
HandleNeverAliases ==
    [][\A h \in Handles :
         StreamSend(h) \/ StreamEnd(h) \/ SessionEnd(h) =>
           \A i \in Slots : sessions'[i] # sessions[i] => sessions[i].id = h.id]_vars

-----------------------------------------------------------------------------
(* Liveness *)

\* No slot is starved: whatever poll() has to report of a client, input or a
\* hang-up, at whatever point of the loop it arises, is dealt with: the input
\* is read or the session ends, though the clients of other slots send again
\* and again, so that their slots are ready at every poll.
NothingStaysReady == \A c \in Conns :
    (\E i \in Slots : fds[i] = c /\ Ready(i) # {})
      ~> (\A i \in Slots : fds[i] = c => Ready(i) = {})

\* A connection is taken from either listening socket and gets a session or
\* is turned away, though accept() may fail many times, and connections come
\* on both sockets.
BacklogIsTaken == \A c \in Conns :
    (\E k \in DOMAIN backlog[Listener[c]] : backlog[Listener[c]][k] = c)
      ~> (\A k \in DOMAIN backlog[Listener[c]] : backlog[Listener[c]][k] # c) \/ pc.at = "freed"

-----------------------------------------------------------------------------
(* What the repository says and the code does not do; TLC refutes each when *)
(* it is given as the property of a run.                                    *)

\* ezgrpc2_server_session_stream_send returns also when "the socket which have
\* been marked as non-blocking returns EWOULDBLOCK" (ezgrpc2_session.h:42-44).
SendReturnsAnyway == pc.at = "send" ~> pc.at # "send"

\* After ezgrpc2_server_session_stream_end has returned 0 "on success", which
\* "ends the stream" (ezgrpc2_session.h:62-65), the trailers reach a client
\* that keeps reading, or the session ends.
EndedStreamEnds == \A c \in Conns :
    (\E i \in Slots : fds[i] = c /\ "trailers" \in sessions[i].out)
      ~> ~(\E i \in Slots : fds[i] = c /\ "trailers" \in sessions[i].out)
=============================================================================
