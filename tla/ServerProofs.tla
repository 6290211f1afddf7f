---------------------------- MODULE ServerProofs -----------------------------
(***************************************************************************)
(* Proofs about the poll loop and the session table, for any number of      *)
(* connections and slots. The two arrays, the events and the      *)
(* descriptors are kept together by one inductive invariant, IInv, which    *)
(* adds to SlotsAgree, EventsBracketSession and SocketsAccounted:           *)
(*   IndexKept   a session is under the index its CONNECT event told;       *)
(*   Polled      what poll() said is still true when it is used;            *)
(*   Backlogged  a connection to accept is new, and waits once;             *)
(*   Working     the slot whose output is being written is in use.          *)
(*                                                                          *)
(* Two parts at the end are about other modules, which share no variable    *)
(* with the loop: ServerLife, whose log keeps every line in its place       *)
(* whatever happens to the server, and PathTable, whose slots agree with    *)
(* what is registered.                                                      *)
(***************************************************************************)
EXTENDS Server, ServerLife, PathTable, Integers, FiniteSetTheorems, SequenceTheorems, WellFoundedInduction, TLAPS

IndexKept == \A i \in Slots :
    fds[i] # NoConn => events[fds[i]] # <<>> /\ events[fds[i]][1].index = i

Polled ==
    /\ pc.at # "freed" => \A i \in Slots : "HUP" \in revents[i] =>
                              fds[i] # NoConn /\ conn[fds[i]].hup
    /\ \A l \in Listeners : "IN" \in revents[l] => backlog[l] # <<>>

Backlogged ==
    /\ \A c \in Conns : ~conn[c].made => events[c] = <<>>
    /\ \A l \in Listeners : \A k \in DOMAIN backlog[l] :
         /\ conn[backlog[l][k]].made /\ events[backlog[l][k]] = <<>>
         /\ Listener[backlog[l][k]] = l
         /\ \A j \in DOMAIN backlog[l] : backlog[l][j] = backlog[l][k] => j = k

Working == pc.at \in {"read", "flush", "send"} => fds[pc.ndx] # NoConn

IInv == TypeOK /\ SlotsAgree /\ EventsBracketSession /\ SocketsAccounted
          /\ IndexKept /\ Polled /\ Backlogged /\ Working

-----------------------------------------------------------------------------
(* Types *)

Event == [type : {"CONNECT", "MESSAGE", "DISCONNECT"}, index : Slots \cup {0}]

Client == [made : BOOLEAN, inbox : {"none", "request", "ping"}, hup : BOOLEAN,
           full : BOOLEAN]

LEMMA SessionFields ==
  ASSUME NEW s \in Session
  PROVE  /\ \A b \in BOOLEAN : [s EXCEPT !.stream = b] \in Session
         /\ \A b \in BOOLEAN : [s EXCEPT !.goaway = b] \in Session
         /\ \A f \in SUBSET Frame : [s EXCEPT !.out = f] \in Session
<1>1. \A b \in BOOLEAN : [s EXCEPT !.stream = b] \in Session
  BY DEF Session
<1>2. \A b \in BOOLEAN : [s EXCEPT !.goaway = b] \in Session
  BY DEF Session
<1>3. \A f \in SUBSET Frame : [s EXCEPT !.out = f] \in Session
  BY DEF Session
<1> QED BY <1>1, <1>2, <1>3

LEMMA ClientFields ==
  ASSUME NEW k \in Client
  PROVE  /\ [k EXCEPT !.made = TRUE] \in Client
         /\ \A b \in {"none", "request", "ping"} : [k EXCEPT !.inbox = b] \in Client
         /\ [k EXCEPT !.hup = TRUE] \in Client
         /\ \A b \in BOOLEAN : [k EXCEPT !.full = b] \in Client
<1>1. [k EXCEPT !.made = TRUE] \in Client /\ [k EXCEPT !.hup = TRUE] \in Client
  BY DEF Client
<1>2. \A b \in {"none", "request", "ping"} : [k EXCEPT !.inbox = b] \in Client
  BY DEF Client
<1>3. \A b \in BOOLEAN : [k EXCEPT !.full = b] \in Client
  BY DEF Client
<1> QED BY <1>1, <1>2, <1>3

\* The name of a session: what find and free go by.
Named(s, r) == s.id = r.id /\ s.index = r.index /\ s.sockfd = r.sockfd

LEMMA SentSession ==
  ASSUME NEW s \in Session
  PROVE  Sent(s) \in Session /\ Named(Sent(s), s)
<1> DEFINE a == [s EXCEPT !.out = {}]
           st == s.stream /\ "trailers" \notin s.out
           ga == s.goaway \/ "goaway" \in s.out
           b == [a EXCEPT !.stream = st]
           c == [b EXCEPT !.goaway = ga]
<1>1. a \in Session /\ Named(a, s)
  BY SessionFields DEF Named, Session
<1>2. st \in BOOLEAN /\ ga \in BOOLEAN
  BY DEF Session
<1> HIDE DEF st, ga, a
<1>3. b \in Session /\ Named(b, s)
  BY <1>1, <1>2, SessionFields DEF Named, Session
<1> HIDE DEF b
<1>4. c \in Session /\ Named(c, s)
  BY <1>2, <1>3, SessionFields DEF Named, Session
<1>5. Sent(s) = c
  BY DEF Sent, a, b, st, ga
<1> QED BY <1>4, <1>5

LEMMA OutSession ==
  ASSUME NEW s \in Session, NEW f \in Frame
  PROVE  /\ [s EXCEPT !.out = @ \cup {f}] \in Session
         /\ Named([s EXCEPT !.out = @ \cup {f}], s)
<1>1. s.out \cup {f} \in SUBSET Frame
  BY DEF Session
<1>2. [s EXCEPT !.out = s.out \cup {f}] \in Session
  BY <1>1, SessionFields
<1> QED BY <1>2 DEF Named, Session

LEMMA RequestSession ==
  ASSUME NEW s \in Session
  PROVE  /\ [s EXCEPT !.stream = TRUE, !.out = @ \cup {"plain"}] \in Session
         /\ Named([s EXCEPT !.stream = TRUE, !.out = @ \cup {"plain"}], s)
<1> DEFINE a == [s EXCEPT !.stream = TRUE]
<1>1. a \in Session /\ Named(a, s) /\ a.out = s.out
  BY SessionFields DEF Named, Session
<1> HIDE DEF a
<1>2. [a EXCEPT !.out = @ \cup {"plain"}] \in Session /\ Named([a EXCEPT !.out = @ \cup {"plain"}], a)
  BY <1>1, OutSession DEF Frame
<1>3. [s EXCEPT !.stream = TRUE, !.out = @ \cup {"plain"}] = [a EXCEPT !.out = @ \cup {"plain"}]
  BY <1>1 DEF a, Session
<1> QED BY <1>1, <1>2, <1>3 DEF Named

LEMMA ZeroSession == Zero \in Session
  BY DEF Zero, Session

LEMMA Apart ==
  /\ 0 \notin Slots /\ 1 \notin Slots /\ Slots \subseteq Nat /\ Last \in Slots /\ 2 \in Slots
  /\ Listeners \cap Slots = {}
  BY MaxConnectionsAssumption DEF Slots, Last, Listeners

-----------------------------------------------------------------------------
(* Events *)

\* What EventsBracketSession says of one session's events, and whether they
\* leave the session open.
WellFormed(e) == \A k \in DOMAIN e :
    /\ e[k].type = "CONNECT" <=> k = 1
    /\ e[k].type = "DISCONNECT" => k = Len(e)
    /\ e[k].index = e[1].index

Open(e) == e # <<>> /\ e[Len(e)].type # "DISCONNECT"

LEMMA FirstEvent ==
  ASSUME NEW ev \in Event, ev.type = "CONNECT", NEW e, e = Append(<<>>, ev)
  PROVE  WellFormed(e) /\ Open(e) /\ e[1] = ev
<1>1. e = <<ev>> /\ Len(e) = 1 /\ e[1] = ev /\ DOMAIN e = {1}
  OBVIOUS
<1> QED BY <1>1 DEF WellFormed, Open

LEMMA NextEvent ==
  ASSUME NEW e \in Seq(Event), WellFormed(e), Open(e),
         NEW ev \in Event, ev.type # "CONNECT", ev.index = e[1].index,
         NEW f, f = Append(e, ev)
  PROVE  WellFormed(f) /\ f[1] = e[1] /\ f # <<>> /\ (Open(f) <=> ev.type # "DISCONNECT")
<1>1. Len(e) \in Nat /\ Len(e) > 0 /\ DOMAIN e = 1 .. Len(e)
  BY DEF Open
<1>2. f \in Seq(Event) /\ Len(f) = Len(e) + 1 /\ DOMAIN f = 1 .. Len(e) + 1
  BY <1>1
<1>3. f[Len(f)] = ev /\ \A k \in 1 .. Len(e) : f[k] = e[k]
  BY <1>1, <1>2
<1>4. \A k \in 1 .. Len(e) : e[k].type # "DISCONNECT"
  BY <1>1 DEF WellFormed, Open
<1>5. ASSUME NEW k \in DOMAIN f
      PROVE  /\ f[k].type = "CONNECT" <=> k = 1
             /\ f[k].type = "DISCONNECT" => k = Len(f)
             /\ f[k].index = f[1].index
  <2>1. CASE k = Len(f)
    BY <1>1, <1>2, <1>3, <2>1
  <2>2. CASE k # Len(f)
    BY <1>1, <1>2, <1>3, <1>4, <2>2 DEF WellFormed
  <2> QED BY <2>1, <2>2
<1> QED BY <1>1, <1>2, <1>3, <1>5 DEF WellFormed, Open

LEMMA WriteEvent ==
  ASSUME TypeOK, NEW c \in Conns, NEW i \in Slots,
         NEW type \in {"CONNECT", "MESSAGE", "DISCONNECT"}
  PROVE  /\ [type |-> type, index |-> i] \in Event
         /\ Write(c, type, i) \in [Conns -> Seq(Event)]
         /\ Write(c, type, i)[c] = Append(events[c], [type |-> type, index |-> i])
         /\ \A d \in Conns \ {c} : Write(c, type, i)[d] = events[d]
<1>1. [type |-> type, index |-> i] \in Event
  BY DEF Event
<1>2. events \in [Conns -> Seq(Event)]
  BY DEF TypeOK, Event
<1>3. Append(events[c], [type |-> type, index |-> i]) \in Seq(Event)
  BY <1>1, <1>2
<1> QED BY <1>1, <1>2, <1>3 DEF Write

\* Slots and sessions name the same connections.
LEMMA SameConns ==
  ASSUME NEW f \in [Slots -> Conns \cup {NoConn}], NEW s,
         \A i \in Slots : IF f[i] = NoConn THEN s[i] = Zero ELSE s[i].id = f[i],
         NEW c \in Conns
  PROVE  (\E i \in Slots : s[i].id = c) <=> (\E i \in Slots : f[i] = c)
  BY NoConnAssumption DEF Zero

\* EventsBracketSession, by what the slots hold.
Bracketed(f, e) == \A c \in Conns :
    WellFormed(e[c]) /\ ((\E i \in Slots : f[i] = c) <=> Open(e[c]))

LEMMA BracketedBefore ==
  ASSUME TypeOK, SlotsAgree
  PROVE  EventsBracketSession <=> Bracketed(fds, events)
<1>1. \A c \in Conns : (\E i \in Slots : sessions[i].id = c) <=> (\E i \in Slots : fds[i] = c)
  <2>1. fds \in [Slots -> Conns \cup {NoConn}]
    BY DEF TypeOK
  <2> QED BY <2>1, SameConns DEF SlotsAgree
<1>2. ASSUME EventsBracketSession
      PROVE  Bracketed(fds, events)
  BY <1>1, <1>2 DEF EventsBracketSession, Bracketed, WellFormed, Open
<1>3. ASSUME Bracketed(fds, events)
      PROVE  EventsBracketSession
  BY <1>1, <1>3 DEF EventsBracketSession, Bracketed, WellFormed, Open
<1> QED BY <1>2, <1>3

LEMMA BracketedAfter ==
  ASSUME fds' \in [Slots -> Conns \cup {NoConn}], SlotsAgree', Bracketed(fds', events')
  PROVE  EventsBracketSession'
<1>1. \A c \in Conns : (\E i \in Slots : sessions'[i].id = c) <=> (\E i \in Slots : fds'[i] = c)
  BY SameConns DEF SlotsAgree
<1> QED BY <1>1 DEF EventsBracketSession, Bracketed, WellFormed, Open

-----------------------------------------------------------------------------
(* What the steps do to the table *)

Table == SlotsAgree /\ EventsBracketSession /\ SocketsAccounted /\ IndexKept

\* Clients stay connected, and once gone stay gone.
ClientsGoOn ==
    /\ conn' \in [Conns -> Client]
    /\ \A c \in Conns : conn'[c].made = conn[c].made /\ (conn[c].hup => conn'[c].hup)

\* Sessions go on, clients too.
Quiet ==
    /\ UNCHANGED <<fds, events, sockets>>
    /\ sessions' \in [Slots -> Session]
    /\ \A i \in Slots : /\ Named(sessions'[i], sessions[i])
                        /\ fds[i] = NoConn => sessions'[i] = sessions[i]
    /\ \A c \in Conns : conn[c].hup => conn'[c].hup

\* The session in slot i has a request.
Request(i) ==
    /\ UNCHANGED <<fds, sockets>>
    /\ events' = Write(fds[i], "MESSAGE", i)
    /\ sessions' \in [Slots -> Session]
    /\ \A k \in Slots : Named(sessions'[k], sessions[k]) /\ (k # i => sessions'[k] = sessions[k])
    /\ \A c \in Conns : conn[c].hup => conn'[c].hup

\* The session in slot i ends. The descriptor is closed, or its client is gone.
End(i) ==
    /\ fds' = [fds EXCEPT ![i] = NoConn]
    /\ events' = Write(fds[i], "DISCONNECT", i)
    /\ sessions' = [sessions EXCEPT ![i] = Zero]
    /\ ClientsGoOn
    /\ sockets' = sockets \ {fds[i]} \/ (UNCHANGED sockets /\ conn[fds[i]].hup)

\* Connection c, of which nothing was told yet, gets slot i.
New(c, i) ==
    /\ fds[i] = NoConn /\ events[c] = <<>>
    /\ fds' = [fds EXCEPT ![i] = c]
    /\ events' = Write(c, "CONNECT", i)
    /\ sessions' \in [Slots -> Session]
    /\ sessions'[i].id = c /\ sessions'[i].index = i /\ sessions'[i].sockfd = c
    /\ \A k \in Slots \ {i} : sessions'[k] = sessions[k]
    /\ sockets' = sockets \cup {c}
    /\ UNCHANGED conn

LEMMA QuietStep ==
  ASSUME TypeOK, Table, Quiet
  PROVE  Table'
<1>1. SlotsAgree'
  BY DEF Table, SlotsAgree, Quiet, Named
<1>2. EventsBracketSession'
  BY <1>1, BracketedBefore, BracketedAfter DEF Table, Quiet, TypeOK
<1>3. SocketsAccounted' /\ IndexKept'
  BY DEF Table, Quiet, SocketsAccounted, IndexKept, TypeOK
<1> QED BY <1>1, <1>2, <1>3 DEF Table

LEMMA RequestStep ==
  ASSUME TypeOK, Table, NEW i \in Slots, fds[i] # NoConn, Request(i)
  PROVE  Table'
<1> DEFINE c == fds[i]
<1>1. c \in Conns /\ fds \in [Slots -> Conns \cup {NoConn}]
  BY DEF TypeOK
<1>2. SlotsAgree'
  BY DEF Table, SlotsAgree, Request, Named
<1>3. Bracketed(fds, events)
  BY BracketedBefore DEF Table
<1>4. events[c] \in Seq(Event) /\ WellFormed(events[c]) /\ Open(events[c]) /\ events[c][1].index = i
  BY <1>1, <1>3 DEF Bracketed, Table, IndexKept, TypeOK, Event
<1>5. /\ WellFormed(events'[c]) /\ Open(events'[c]) /\ events'[c][1] = events[c][1]
      /\ events'[c] # <<>>
      /\ \A d \in Conns \ {c} : events'[d] = events[d]
  <2> DEFINE ev == [type |-> "MESSAGE", index |-> i]
  <2>1. ev \in Event /\ events'[c] = Append(events[c], ev)
    BY <1>1, WriteEvent DEF Request
  <2>2. ev.type = "MESSAGE" /\ ev.index = i
    OBVIOUS
  <2> HIDE DEF ev
  <2>3. WellFormed(events'[c]) /\ Open(events'[c]) /\ events'[c][1] = events[c][1] /\ events'[c] # <<>>
    BY <1>4, <2>1, <2>2, NextEvent
  <2> QED BY <1>1, <2>3, WriteEvent DEF Request
<1>6. Bracketed(fds', events')
  BY <1>1, <1>3, <1>4, <1>5 DEF Bracketed, Request
<1>7. EventsBracketSession'
  BY <1>1, <1>2, <1>6, BracketedAfter DEF Request
<1>8. IndexKept'
  BY <1>1, <1>5 DEF Table, IndexKept, Request
<1>9. SocketsAccounted'
  <2>1. \A d \in Conns : (\A k \in Slots : fds[k] # d) => events'[d] = events[d]
    BY <1>5
  <2> QED BY <2>1 DEF Table, SocketsAccounted, Request, TypeOK
<1> QED BY <1>2, <1>7, <1>8, <1>9 DEF Table

LEMMA EndStep ==
  ASSUME TypeOK, Table, NEW i \in Slots, fds[i] # NoConn, End(i)
  PROVE  Table'
<1> DEFINE c == fds[i]
<1>1. /\ c \in Conns /\ fds \in [Slots -> Conns \cup {NoConn}]
      /\ fds' \in [Slots -> Conns \cup {NoConn}]
      /\ fds'[i] = NoConn /\ \A k \in Slots \ {i} : fds'[k] = fds[k] /\ fds[k] # c
  BY DEF TypeOK, End, Table, SlotsAgree
<1>2. SlotsAgree'
  BY <1>1 DEF Table, SlotsAgree, End, TypeOK
<1>3. Bracketed(fds, events)
  BY BracketedBefore DEF Table
<1>4. events[c] \in Seq(Event) /\ WellFormed(events[c]) /\ Open(events[c]) /\ events[c][1].index = i
  BY <1>1, <1>3 DEF Bracketed, Table, IndexKept, TypeOK, Event
<1>5. /\ WellFormed(events'[c]) /\ ~Open(events'[c]) /\ events'[c] # <<>>
      /\ \A d \in Conns \ {c} : events'[d] = events[d]
  <2> DEFINE ev == [type |-> "DISCONNECT", index |-> i]
  <2>1. ev \in Event /\ events'[c] = Append(events[c], ev)
    <3>1. events' = Write(c, "DISCONNECT", i)
      BY DEF End
    <3>2. c \in Conns
      BY <1>1
    <3> QED BY <3>1, <3>2, WriteEvent
  <2>2. ev.type = "DISCONNECT" /\ ev.index = i
    OBVIOUS
  <2> HIDE DEF ev
  <2>3. WellFormed(events'[c]) /\ ~Open(events'[c]) /\ events'[c] # <<>>
    BY <1>4, <2>1, <2>2, NextEvent
  <2>4. \A d \in Conns \ {c} : events'[d] = events[d]
    <3>1. events' = Write(c, "DISCONNECT", i)
      BY DEF End
    <3>2. c \in Conns
      BY <1>1
    <3> QED BY <3>1, <3>2, WriteEvent
  <2> QED BY <2>3, <2>4
<1>6. Bracketed(fds', events')
  BY <1>1, <1>3, <1>5, NoConnAssumption DEF Bracketed
<1>7. EventsBracketSession'
  BY <1>1, <1>2, <1>6, BracketedAfter
<1>8. IndexKept'
  BY <1>1, <1>5 DEF Table, IndexKept
<1>9. SocketsAccounted'
  <2>1. {fds'[k] : k \in Slots} \ {NoConn} \subseteq sockets'
    BY <1>1 DEF Table, SocketsAccounted, End
  <2>2. ASSUME NEW d \in sockets', \A k \in Slots : fds'[k] # d
        PROVE  conn'[d].hup /\ events'[d] # <<>> /\ events'[d][Len(events'[d])].type = "DISCONNECT"
    <3>1. CASE d = c
      <4>1. sockets' # sockets \ {c} /\ conn[c].hup
        BY <2>2, <3>1 DEF End
      <4>2. conn'[d].hup
        BY <1>1, <3>1, <4>1 DEF End, ClientsGoOn
      <4> QED BY <1>5, <3>1, <4>2 DEF Open
    <3>2. CASE d # c
      <4>1. d \in sockets /\ d \in Conns /\ \A k \in Slots : fds[k] # d
        BY <1>1, <2>2, <3>2 DEF End, TypeOK
      <4>2. events'[d] = events[d] /\ (conn[d].hup => conn'[d].hup)
        BY <1>5, <3>2, <4>1 DEF End, ClientsGoOn
      <4> QED BY <4>1, <4>2 DEF Table, SocketsAccounted
    <3> QED BY <3>1, <3>2
  <2> QED BY <2>1, <2>2 DEF SocketsAccounted
<1> QED BY <1>2, <1>7, <1>8, <1>9 DEF Table

LEMMA NewStep ==
  ASSUME TypeOK, Table, NEW c \in Conns, NEW i \in Slots, New(c, i)
  PROVE  Table'
<1>1. /\ fds \in [Slots -> Conns \cup {NoConn}]
      /\ fds' \in [Slots -> Conns \cup {NoConn}]
      /\ fds'[i] = c /\ \A k \in Slots \ {i} : fds'[k] = fds[k]
  BY DEF TypeOK, New
<1>2. c # NoConn /\ \A k \in Slots : fds[k] # c
  BY NoConnAssumption DEF New, Table, IndexKept
<1>3. SlotsAgree'
  BY <1>1, <1>2 DEF Table, SlotsAgree, New
<1>4. Bracketed(fds, events)
  BY BracketedBefore DEF Table
<1>5. /\ WellFormed(events'[c]) /\ Open(events'[c]) /\ events'[c] # <<>> /\ events'[c][1].index = i
      /\ \A d \in Conns \ {c} : events'[d] = events[d]
  <2> DEFINE ev == [type |-> "CONNECT", index |-> i]
  <2>1. ev \in Event /\ events'[c] = Append(<<>>, ev)
    <3>1. events' = Write(c, "CONNECT", i) /\ events[c] = <<>>
      BY DEF New
    <3>2. ev \in Event /\ Write(c, "CONNECT", i)[c] = Append(events[c], ev)
      BY WriteEvent
    <3> HIDE DEF ev
    <3> QED BY <3>1, <3>2, Zenon
  <2>2. ev.type = "CONNECT" /\ ev.index = i
    OBVIOUS
  <2> HIDE DEF ev
  <2>3. WellFormed(events'[c]) /\ Open(events'[c]) /\ events'[c][1] = ev
    BY <2>1, <2>2, FirstEvent
  <2>4. \A d \in Conns \ {c} : events'[d] = events[d]
    <3>1. events' = Write(c, "CONNECT", i)
      BY DEF New
    <3>2. \A d \in Conns \ {c} : Write(c, "CONNECT", i)[d] = events[d]
      BY WriteEvent
    <3> QED BY <3>1, <3>2, Zenon
  <2> QED BY <2>2, <2>3, <2>4 DEF Open
<1>6. Bracketed(fds', events')
  BY <1>1, <1>2, <1>4, <1>5, NoConnAssumption DEF Bracketed, New
<1>7. EventsBracketSession'
  BY <1>1, <1>3, <1>6, BracketedAfter
<1>8. IndexKept'
  BY <1>1, <1>2, <1>5 DEF Table, IndexKept
<1>9. SocketsAccounted'
  <2>1. {fds'[k] : k \in Slots} \ {NoConn} \subseteq sockets'
    BY <1>1 DEF Table, SocketsAccounted, New
  <2>2. ASSUME NEW d \in sockets', \A k \in Slots : fds'[k] # d
        PROVE  conn'[d].hup /\ events'[d] # <<>> /\ events'[d][Len(events'[d])].type = "DISCONNECT"
    <3>1. d # c /\ d \in sockets /\ d \in Conns /\ \A k \in Slots : fds[k] # d
      <4>1. d # c
        BY <1>1, <2>2
      <4>2. d \in sockets /\ d \in Conns
        BY <4>1 DEF New, TypeOK
      <4>3. \A k \in Slots : fds[k] # d
        BY <1>1, <2>2, <4>2, NoConnAssumption DEF New
      <4> QED BY <4>1, <4>2, <4>3
    <3>2. events'[d] = events[d] /\ conn'[d] = conn[d]
      BY <1>5, <3>1 DEF New
    <3>3. conn[d].hup /\ events[d] # <<>> /\ events[d][Len(events[d])].type = "DISCONNECT"
      BY <3>1 DEF Table, SocketsAccounted
    <3> QED BY <3>2, <3>3
  <2> QED BY <2>1, <2>2 DEF SocketsAccounted
<1> QED BY <1>3, <1>7, <1>8, <1>9 DEF Table

-----------------------------------------------------------------------------
(* Which of these each step is, and what types it leaves *)

PcOK ==
    \/ pc.at \in {"app", "freed"} /\ pc.ndx = 0
    \/ pc.at = "accept" /\ pc.ndx \in Listeners
    \/ pc.at \in {"slot", "read", "flush", "send"} /\ pc.ndx \in Slots

LEMMA TypesAre ==
  TypeOK <=> /\ fds \in [Slots -> Conns \cup {NoConn}]
             /\ revents \in [Listeners \cup Slots -> SUBSET {"IN", "HUP"}]
             /\ sessions \in [Slots -> Session]
             /\ PcOK
             /\ events \in [Conns -> Seq(Event)]
             /\ backlog \in [Listeners -> Seq(Conns)]
             /\ sockets \subseteq Conns
             /\ conn \in [Conns -> Client]
  BY DEF TypeOK, PcOK, Event, Client

LEMMA OneClient ==
  ASSUME TypeOK, NEW c \in Conns, NEW k \in Client, k.made = conn[c].made,
         conn[c].hup => k.hup, conn' = [conn EXCEPT ![c] = k]
  PROVE  ClientsGoOn
<1>1. conn \in [Conns -> Client]
  BY TypesAre
<1> QED BY <1>1 DEF ClientsGoOn

LEMMA ClientsStay ==
  ASSUME TypeOK, UNCHANGED conn
  PROVE  ClientsGoOn
<1>1. conn \in [Conns -> Client]
  BY TypesAre
<1> QED BY <1>1 DEF ClientsGoOn

LEMMA FullClient ==
  ASSUME TypeOK, NEW c \in Conns, NEW b \in BOOLEAN, conn' = [conn EXCEPT ![c].full = b]
  PROVE  ClientsGoOn
<1> DEFINE k == [conn[c] EXCEPT !.full = b]
<1>1. conn \in [Conns -> Client]
  BY TypesAre
<1>2. conn' = [conn EXCEPT ![c] = k]
  BY <1>1
<1>3. k \in Client
  BY <1>1, ClientFields
<1>4. k.made = conn[c].made /\ k.hup = conn[c].hup
  BY <1>1 DEF Client
<1> HIDE DEF k
<1> QED BY <1>2, <1>3, <1>4, OneClient

LEMMA NextSlotTypes ==
  ASSUME NEW i \in Slots, NextSlot(i)
  PROVE  PcOK' /\ pc'.at \in {"slot", "app"}
<1>1. i < Last => i + 1 \in Slots
  BY MaxConnectionsAssumption DEF Slots, Last
<1> QED BY <1>1 DEF NextSlot, PcOK

LEMMA NextListenerTypes ==
  ASSUME NEW l \in Listeners, NextListener(l)
  PROVE  PcOK' /\ pc'.at \in {"accept", "slot"}
  BY Apart DEF NextListener, PcOK, Listeners

\* A session written over another, with the same name.
LEMMA OneSession ==
  ASSUME TypeOK, NEW i \in Slots, fds[i] # NoConn, NEW s \in Session, Named(s, sessions[i]),
         sessions' = [sessions EXCEPT ![i] = s]
  PROVE  /\ sessions' \in [Slots -> Session]
         /\ \A k \in Slots : /\ Named(sessions'[k], sessions[k])
                             /\ k # i => sessions'[k] = sessions[k]
                             /\ fds[k] = NoConn => sessions'[k] = sessions[k]
<1>1. sessions \in [Slots -> Session]
  BY TypesAre
<1> QED BY <1>1 DEF Named

LEMMA EndTypes ==
  ASSUME TypeOK, NEW i \in Slots, fds[i] # NoConn, End(i),
         revents' = [revents EXCEPT ![i] = {}], NextSlot(i), UNCHANGED backlog
  PROVE  TypeOK'
<1> USE TypesAre
<1>1. fds' \in [Slots -> Conns \cup {NoConn}]
  BY DEF End
<1>2. sessions' \in [Slots -> Session]
  BY ZeroSession DEF End
<1>3. events' \in [Conns -> Seq(Event)]
  <2>1. fds[i] \in Conns
    OBVIOUS
  <2> QED BY <2>1, WriteEvent DEF End
<1>4. sockets' \subseteq Conns
  BY DEF End
<1>5. revents' \in [Listeners \cup Slots -> SUBSET {"IN", "HUP"}]
  OBVIOUS
<1>6. PcOK'
  BY NextSlotTypes
<1>7. conn' \in [Conns -> Client]
  BY DEF End, ClientsGoOn
<1> QED BY <1>1, <1>2, <1>3, <1>4, <1>5, <1>6, <1>7 DEF TypeOK, PcOK, Event, Client

LEMMA NamesOf ==
  ASSUME SlotsAgree, NEW i \in Slots, fds[i] # NoConn
  PROVE  sessions[i].id = fds[i] /\ sessions[i].sockfd = fds[i] /\ sessions[i].index = i
  BY DEF SlotsAgree

\* What a client loses with its connection.
LEMMA LoseIs ==
  ASSUME TypeOK, NEW c \in Conns, Lose(c)
  PROVE  ClientsGoOn
<1> DEFINE j == [conn[c] EXCEPT !.inbox = "none"]
           k == [j EXCEPT !.full = FALSE]
<1>1. conn \in [Conns -> Client]
  BY TypesAre
<1>2. conn' = [conn EXCEPT ![c] = k]
  <2> DEFINE m == [conn EXCEPT ![c] = j]
  <2>1. conn' = [m EXCEPT ![c].full = FALSE]
    BY <1>1 DEF Lose
  <2> HIDE DEF j
  <2>2. m[c] = j /\ DOMAIN m = Conns
    BY <1>1
  <2> QED BY <1>1, <2>1, <2>2
<1>3. j \in Client /\ j.made = conn[c].made /\ j.hup = conn[c].hup
  <2>1. j \in Client
    BY <1>1, ClientFields
  <2> QED BY <1>1, <2>1 DEF Client
<1> HIDE DEF j
<1>4. k \in Client
  BY <1>3, ClientFields
<1>5. k.made = conn[c].made /\ k.hup = conn[c].hup
  BY <1>3 DEF Client
<1> HIDE DEF k
<1> QED BY <1>2, <1>4, <1>5, OneClient

LEMMA CloseSlotEnds ==
  ASSUME TypeOK, SlotsAgree, NEW i \in Slots, fds[i] # NoConn, CloseSlot(i)
  PROVE  End(i) /\ revents' = [revents EXCEPT ![i] = {}]
<1>1. sessions[i].id = fds[i] /\ sessions[i].sockfd = fds[i] /\ sessions[i].index = i
  BY NamesOf
<1>2. ClientsGoOn
  <2>1. fds[i] \in Conns
    BY TypesAre
  <2> QED BY <1>1, <2>1, LoseIs DEF CloseSlot
<1> QED BY <1>1, <1>2 DEF CloseSlot, SessionFree, End

LEMMA HangupSlotEnds ==
  ASSUME TypeOK, SlotsAgree, Polled, NEW i \in Slots, HangupSlot(i)
  PROVE  /\ fds[i] # NoConn /\ End(i) /\ revents' = [revents EXCEPT ![i] = {}]
         /\ NextSlot(i) /\ UNCHANGED backlog
<1>1. fds[i] # NoConn /\ conn[fds[i]].hup
  BY DEF HangupSlot, Polled
<1>2. sessions[i].id = fds[i] /\ sessions[i].sockfd = fds[i] /\ sessions[i].index = i
  BY <1>1, NamesOf
<1>3. ClientsGoOn
  <2>1. fds[i] \in Conns
    BY <1>1, TypesAre
  <2> QED BY <1>2, <2>1, LoseIs DEF HangupSlot
<1> QED BY <1>1, <1>2, <1>3 DEF HangupSlot, SessionFree, End

\* session_events is called for a slot in use, and keeps it until it returns.
LEMMA ServedInUse ==
  ASSUME Working, NEW i \in Slots, Serving(i) \/ Reading(i)
  PROVE  fds[i] # NoConn /\ pc.at # "freed"
  BY DEF Serving, Reading, Working

LEMMA FailSlotEnds ==
  ASSUME TypeOK, SlotsAgree, Working, NEW i \in Slots, FailSlot(i)
  PROVE  /\ fds[i] # NoConn /\ End(i) /\ revents' = [revents EXCEPT ![i] = {}]
         /\ NextSlot(i) /\ UNCHANGED backlog
  BY CloseSlotEnds, ServedInUse DEF FailSlot

LEMMA FlushIs ==
  ASSUME TypeOK, SlotsAgree, Working, NEW i \in Slots, Flush(i)
  PROVE  /\ fds[i] # NoConn /\ revents' = [revents EXCEPT ![i] = {}]
         /\ NextSlot(i) /\ UNCHANGED backlog
         /\ End(i) \/ (Quiet /\ UNCHANGED conn)
<1>1. fds[i] # NoConn
  BY DEF Flush, Working
<1>2. CASE CloseSlot(i)
  BY <1>1, <1>2, CloseSlotEnds DEF Flush
<1>3. CASE ~CloseSlot(i)
  <2>1. /\ sessions' = [sessions EXCEPT ![i] = Sent(@)]
        /\ revents' = [revents EXCEPT ![i] = {}]
        /\ UNCHANGED <<fds, events, sockets, conn>>
    BY <1>3 DEF Flush
  <2>2. sessions[i] \in Session /\ sessions' = [sessions EXCEPT ![i] = Sent(sessions[i])]
    BY <2>1, TypesAre
  <2>3. Quiet
    BY <1>1, <2>1, <2>2, SentSession, OneSession DEF Quiet, Flush
  <2> QED BY <1>1, <2>1, <2>3 DEF Flush
<1> QED BY <1>2, <1>3

LEMMA SendReturnsIs ==
  ASSUME TypeOK, SlotsAgree, Working, NEW i \in Slots, SendReturns(i)
  PROVE  Quiet /\ UNCHANGED <<revents, backlog, conn>> /\ pc' = [at |-> "app", ndx |-> 0]
<1>1. fds[i] # NoConn
  BY DEF SendReturns, Working
<1>2. sessions[i] \in Session /\ sessions \in [Slots -> Session]
  BY TypesAre
<1>3. CASE sessions' = [sessions EXCEPT ![i] = Sent(@)]
  <2>1. sessions' = [sessions EXCEPT ![i] = Sent(sessions[i])]
    BY <1>2, <1>3
  <2> QED BY <1>1, <1>2, <2>1, SentSession, OneSession DEF Quiet, SendReturns
<1>4. CASE UNCHANGED sessions
  BY <1>2, <1>4 DEF Quiet, SendReturns, Named
<1> QED BY <1>3, <1>4 DEF SendReturns

LEMMA Found ==
  ASSUME TypeOK, SlotsAgree, NEW h \in Handles, NEW i \in SessionFind(h)
  PROVE  i \in Slots /\ h.id \in Conns /\ fds[i] = h.id /\ sessions[i] \in Session
         /\ sessions[i].id = h.id /\ sessions[i].sockfd = h.id
<1>1. h.id \in Conns
  BY DEF Handles
<1>2. i \in Slots /\ sessions[i].id = h.id
  BY DEF SessionFind
<1>3. fds[i] # NoConn
  BY <1>1, <1>2, NoConnAssumption DEF SlotsAgree, Zero
<1> QED BY <1>1, <1>2, <1>3, NamesOf, TypesAre

LEMMA SubmitIs ==
  ASSUME TypeOK, NEW i \in Slots, fds[i] # NoConn, fds[i] = sessions[i].sockfd,
         NEW frame \in Frame, SubmitAndSendOnce(i, frame), UNCHANGED <<fds, events, sockets>>
  PROVE  Quiet /\ ClientsGoOn
<1> DEFINE c == sessions[i].sockfd
           s == [sessions[i] EXCEPT !.out = @ \cup {frame}]
<1>1. c \in Conns /\ sessions[i] \in Session /\ conn \in [Conns -> Client]
  BY TypesAre
<1>2. s \in Session /\ Named(s, sessions[i])
  BY <1>1, OutSession
<1>3. Sent(s) \in Session /\ Named(Sent(s), sessions[i])
  BY <1>2, SentSession DEF Named
<1>4. CASE sessions' = [sessions EXCEPT ![i] = Sent(s)] /\ UNCHANGED conn
  <2> HIDE DEF s
  <2>1. ClientsGoOn
    BY <1>4, ClientsStay
  <2> QED BY <1>3, <1>4, <2>1, OneSession DEF Quiet, ClientsGoOn
<1>5. CASE /\ sessions' = [sessions EXCEPT ![i] = s]
           /\ conn' = [conn EXCEPT ![c].full = @ \/ ~conn[c].hup]
  <2>1. PICK b \in BOOLEAN : b = (conn[c].full \/ ~conn[c].hup)
    OBVIOUS
  <2>2. conn' = [conn EXCEPT ![c].full = b]
    BY <1>1, <1>5, <2>1
  <2>3. ClientsGoOn
    BY <1>1, <2>2, FullClient
  <2> HIDE DEF s
  <2> QED BY <1>2, <1>5, <2>3, OneSession DEF Quiet, ClientsGoOn
<1> QED BY <1>4, <1>5 DEF SubmitAndSendOnce

LEMMA TableStays ==
  ASSUME TypeOK, UNCHANGED <<fds, sessions, events, sockets>>,
         \A c \in Conns : conn[c].hup => conn'[c].hup
  PROVE  Quiet
<1>1. sessions \in [Slots -> Session]
  BY TypesAre
<1> QED BY <1>1 DEF Quiet, Named

\* recv() brings a request or something else.
LEMMA ReceiveIs ==
  ASSUME TypeOK, SlotsAgree, Working, NEW i \in Slots, Receive(i)
  PROVE  /\ fds[i] # NoConn /\ (Quiet \/ Request(i))
         /\ ClientsGoOn /\ UNCHANGED <<revents, backlog>>
         /\ pc' = [at |-> "read", ndx |-> i]
<1> DEFINE s == sessions[i]
           c == s.sockfd
<1>1. fds[i] # NoConn /\ fds[i] = s.sockfd /\ fds[i] = s.id /\ s.index = i
  BY ServedInUse, NamesOf DEF Receive
<1>2. c \in Conns /\ s \in Session /\ conn \in [Conns -> Client] /\ sessions \in [Slots -> Session]
  BY <1>1, TypesAre
<1>3. /\ UNCHANGED <<fds, revents, backlog, sockets>> /\ pc' = [at |-> "read", ndx |-> i]
      /\ conn' = [conn EXCEPT ![c].inbox = "none"]
  BY DEF Receive
<1>4. ClientsGoOn
  <2> DEFINE k == [conn[c] EXCEPT !.inbox = "none"]
  <2>1. conn' = [conn EXCEPT ![c] = k]
    BY <1>2, <1>3
  <2>2. k \in Client
    BY <1>2, ClientFields
  <2>3. k.made = conn[c].made /\ k.hup = conn[c].hup
    BY <1>2 DEF Client
  <2> HIDE DEF k
  <2> QED BY <1>2, <2>1, <2>2, <2>3, OneClient
<1>5. CASE /\ sessions' = [sessions EXCEPT ![i].stream = TRUE, ![i].out = @ \cup {"plain"}]
           /\ events' = Write(s.id, "MESSAGE", s.index)
  <2> DEFINE r == [s EXCEPT !.stream = TRUE, !.out = @ \cup {"plain"}]
  <2>1. events' = Write(fds[i], "MESSAGE", i)
    BY <1>1, <1>5
  <2>2. sessions' = [sessions EXCEPT ![i] = r]
    BY <1>2, <1>5
  <2>3. r \in Session /\ Named(r, s)
    BY <1>2, RequestSession
  <2> HIDE DEF r
  <2>4. Request(i)
    BY <1>1, <1>3, <1>4, <2>1, <2>2, <2>3, OneSession DEF Request, ClientsGoOn
  <2> QED BY <1>1, <1>3, <1>4, <2>4
<1>6. CASE UNCHANGED <<sessions, events>>
  <2>1. Quiet
    BY <1>3, <1>4, <1>6, TableStays DEF ClientsGoOn
  <2> QED BY <1>1, <1>3, <1>4, <2>1
<1>7. CASE sessions' = [sessions EXCEPT ![i].out = @ \cup {"plain"}] /\ UNCHANGED events
  <2> DEFINE r == [s EXCEPT !.out = @ \cup {"plain"}]
  <2>1. sessions' = [sessions EXCEPT ![i] = r]
    BY <1>2, <1>7
  <2>2. r \in Session /\ Named(r, s)
    BY <1>2, OutSession DEF Frame
  <2> HIDE DEF r
  <2>3. Quiet
    BY <1>1, <1>3, <1>4, <1>7, <2>1, <2>2, OneSession DEF Quiet, ClientsGoOn
  <2> QED BY <1>1, <1>3, <1>4, <2>3
<1> QED BY <1>5, <1>6, <1>7 DEF Receive

LEMMA ReadEndsIs ==
  ASSUME TypeOK, SlotsAgree, Working, NEW i \in Slots, ReadEnds(i)
  PROVE  /\ fds[i] # NoConn /\ Quiet /\ ClientsGoOn /\ UNCHANGED <<fds, revents, backlog>>
         /\ pc' = [at |-> "flush", ndx |-> i]
<1> DEFINE c == sessions[i].sockfd
<1>1. fds[i] # NoConn /\ fds[i] = c
  BY ServedInUse, NamesOf DEF ReadEnds
<1>2. c \in Conns /\ conn \in [Conns -> Client]
  BY <1>1, TypesAre
<1>3. UNCHANGED <<table, backlog>> /\ pc' = [at |-> "flush", ndx |-> i]
  BY DEF ReadEnds
<1>4. ClientsGoOn
  <2>1. PICK full \in {TRUE, conn[c].full} :
          conn' = [conn EXCEPT ![c].full = full /\ WantWrite(sessions[i])]
    BY DEF ReadEnds
  <2>2. (full /\ WantWrite(sessions[i])) \in BOOLEAN
    BY <1>2 DEF Client
  <2> QED BY <1>2, <2>1, <2>2, FullClient
<1>5. Quiet
  BY <1>3, <1>4, TableStays DEF table, ClientsGoOn
<1> QED BY <1>1, <1>3, <1>4, <1>5 DEF table

LEMMA StreamSendIs ==
  ASSUME TypeOK, SlotsAgree, NEW h \in Handles, StreamSend(h)
  PROVE  /\ Quiet /\ ClientsGoOn /\ UNCHANGED <<revents, backlog>>
         /\ \E i \in Slots : fds[i] # NoConn /\ pc' = [at |-> "send", ndx |-> i]
<1>1. PICK i \in SessionFind(h) :
        /\ sessions' = [sessions EXCEPT ![i].out = @ \cup {"plain"}]
        /\ \E full \in {TRUE, conn[sessions[i].sockfd].full} :
             conn' = [conn EXCEPT ![sessions[i].sockfd].full = full]
        /\ pc' = [at |-> "send", ndx |-> i]
  BY DEF StreamSend
<1>2. /\ i \in Slots /\ h.id \in Conns /\ fds[i] = h.id /\ fds[i] # NoConn
      /\ sessions[i] \in Session /\ sessions[i].sockfd = h.id
      /\ conn \in [Conns -> Client] /\ sessions \in [Slots -> Session]
  BY Found, TypesAre, NoConnAssumption
<1>3. UNCHANGED <<fds, events, sockets, revents, backlog>>
  BY DEF StreamSend
<1>4. ClientsGoOn
  <2>1. PICK full \in BOOLEAN : conn' = [conn EXCEPT ![h.id].full = full]
    BY <1>1, <1>2 DEF Client
  <2> QED BY <1>2, <2>1, FullClient
<1>5. sessions' = [sessions EXCEPT ![i] = [sessions[i] EXCEPT !.out = @ \cup {"plain"}]]
  BY <1>1, <1>2
<1>6. /\ [sessions[i] EXCEPT !.out = @ \cup {"plain"}] \in Session
      /\ Named([sessions[i] EXCEPT !.out = @ \cup {"plain"}], sessions[i])
  BY <1>2, OutSession DEF Frame
<1>7. Quiet
  BY <1>2, <1>3, <1>4, <1>5, <1>6, OneSession DEF Quiet, ClientsGoOn
<1> QED BY <1>1, <1>2, <1>3, <1>4, <1>7

LEMMA EndCallIs ==
  ASSUME TypeOK, SlotsAgree, NEW h \in Handles, StreamEnd(h) \/ SessionEnd(h)
  PROVE  Quiet /\ ClientsGoOn /\ UNCHANGED <<revents, pc, backlog>>
<1>1. PICK i \in SessionFind(h), frame \in Frame : SubmitAndSendOnce(i, frame)
  BY DEF StreamEnd, SessionEnd, Frame
<1>2. i \in Slots /\ fds[i] # NoConn /\ fds[i] = sessions[i].sockfd
  BY Found, NoConnAssumption
<1>3. UNCHANGED <<fds, events, sockets, revents, pc, backlog>>
  BY DEF StreamEnd, SessionEnd
<1> QED BY <1>1, <1>2, <1>3, SubmitIs

\* What clients do but Connect.
ClientIs(c) == Reads(c) \/ Hangup(c) \/ \E what \in {"request", "ping"} : SendBytes(c, what)

LEMMA ClientStepIs ==
  ASSUME TypeOK, NEW c \in Conns, ClientIs(c)
  PROVE  Quiet /\ ClientsGoOn /\ UNCHANGED <<revents, pc, backlog>>
<1>1. UNCHANGED <<table, pc, backlog>>
  BY DEF ClientIs, Reads, Hangup, SendBytes
<1>2. conn \in [Conns -> Client]
  BY TypesAre
<1>3. ASSUME Reads(c)
      PROVE  ClientsGoOn
  <2>1. conn' = [conn EXCEPT ![c].full = FALSE]
    BY <1>3 DEF Reads
  <2> QED BY <2>1, FullClient
<1>4. ASSUME Hangup(c)
      PROVE  ClientsGoOn
  <2> DEFINE k == [conn[c] EXCEPT !.hup = TRUE]
  <2>1. conn' = [conn EXCEPT ![c] = k]
    BY <1>2, <1>4 DEF Hangup
  <2>2. k \in Client
    BY <1>2, ClientFields
  <2>3. k.made = conn[c].made /\ k.hup
    BY <1>2 DEF Client
  <2> HIDE DEF k
  <2> QED BY <2>1, <2>2, <2>3, OneClient
<1>5. ASSUME NEW what \in {"request", "ping"}, SendBytes(c, what)
      PROVE  ClientsGoOn
  <2> DEFINE k == [conn[c] EXCEPT !.inbox = what]
  <2>1. conn' = [conn EXCEPT ![c] = k]
    BY <1>2, <1>5 DEF SendBytes
  <2>2. k \in Client
    BY <1>2, ClientFields
  <2>3. k.made = conn[c].made /\ k.hup = conn[c].hup
    BY <1>2 DEF Client
  <2> HIDE DEF k
  <2> QED BY <2>1, <2>2, <2>3, OneClient
<1>6. ClientsGoOn
  BY <1>3, <1>4, <1>5 DEF ClientIs
<1> QED BY <1>1, <1>6, TableStays DEF table, ClientsGoOn

LEMMA PollIs ==
  ASSUME TypeOK, SlotsAgree, Poll
  PROVE  /\ Quiet /\ ClientsGoOn /\ UNCHANGED backlog
         /\ pc' = [at |-> "accept", ndx |-> 0]
         /\ revents' \in [Listeners \cup Slots -> SUBSET {"IN", "HUP"}]
         /\ \A i \in Slots : "HUP" \in revents'[i] => fds[i] # NoConn /\ conn[fds[i]].hup
         /\ \A l \in Listeners : "IN" \in revents'[l] => backlog[l] # <<>>
<1>1. UNCHANGED <<fds, sessions, events, backlog, sockets, conn>> /\ pc' = [at |-> "accept", ndx |-> 0]
  BY DEF Poll
<1>2. \A i \in Slots : /\ Ready(i) \in SUBSET {"IN", "HUP"}
                       /\ "HUP" \in Ready(i) => fds[i] # NoConn /\ conn[fds[i]].hup
  BY DEF Ready
<1>3. revents' = [i \in Listeners \cup Slots |->
                    IF i \in Slots THEN Ready(i) ELSE IF backlog[i] # <<>> THEN {"IN"} ELSE {}]
  BY DEF Poll
<1>4. Quiet /\ ClientsGoOn
  BY <1>1, ClientsStay, TableStays DEF ClientsGoOn
<1>5. \A l \in Listeners : "IN" \in revents'[l] => backlog[l] # <<>>
  BY <1>3, Apart
<1> QED BY <1>1, <1>2, <1>3, <1>4, <1>5

\* A set of slots has a first one, which is what get_unused_pollfd_ndx finds.
LEMMA SmallestOf ==
  ASSUME NEW T, T \subseteq Nat, T # {}
  PROVE  \E m \in T : \A j \in T : m <= j
<1> DEFINE R == OpToRel(<, Nat)
<1>1. \A x, y \in Nat : x < y => <<x, y>> \in R
  BY DEF OpToRel
<1>2. IsWellFoundedOn(R, Nat)
  BY NatLessThanWellFounded, Zenon
<1> HIDE DEF R
<1>3. \E m \in T : \A j \in T : <<j, m>> \notin R
  BY <1>2, WFMin
<1>4. PICK m \in T : \A j \in T : <<j, m>> \notin R
  BY <1>3
<1>5. \A j \in T : ~(j < m)
  BY <1>1, <1>4
<1> QED BY <1>4, <1>5

LEMMA AcceptIs ==
  ASSUME TypeOK, SlotsAgree, Polled, Backlogged, NEW l \in Listeners, Accept(l)
  PROVE  /\ ClientsGoOn /\ NextListener(l) /\ revents' = [revents EXCEPT ![l] = {}]
         /\ \/ Quiet /\ UNCHANGED backlog
            \/ /\ backlog[l] # <<>> /\ backlog' = [backlog EXCEPT ![l] = Tail(@)]
               /\ Quiet \/ \E i \in Slots : New(Head(backlog[l]), i)
<1>1. NextListener(l) /\ revents' = [revents EXCEPT ![l] = {}]
  BY DEF Accept
<1>2. CASE TakeNone
  <2>1. ClientsGoOn /\ UNCHANGED <<fds, sessions, events, sockets, backlog>>
    BY <1>2, ClientsStay DEF TakeNone
  <2> QED BY <1>1, <2>1, TableStays DEF ClientsGoOn
<1>3. CASE "IN" \in revents[l] /\ Take(l)
  <2> DEFINE c == Head(backlog[l])
  <2>1. backlog[l] # <<>> /\ backlog[l] \in Seq(Conns) /\ sessions \in [Slots -> Session]
    BY <1>3, TypesAre DEF Polled
  <2>2. c = backlog[l][1] /\ 1 \in DOMAIN backlog[l] /\ c \in Conns /\ events[c] = <<>>
    BY <2>1 DEF Backlogged
  <2>3. backlog' = [backlog EXCEPT ![l] = Tail(@)] /\ (SessionAdd(c) \/ TurnAway(c))
    BY <1>3 DEF Take
  <2>4. CASE TurnAway(c)
    <3>1. ClientsGoOn
      BY <2>2, <2>4, LoseIs DEF TurnAway
    <3> QED BY <1>1, <2>1, <2>3, <2>4, <3>1, TableStays DEF TurnAway, ClientsGoOn
  <2>5. CASE SessionAdd(c)
    <3> DEFINE i == CHOOSE k \in Unused : \A j \in Unused : k <= j
               z == [Zero EXCEPT !.id = c, !.index = i, !.sockfd = c, !.out = {"plain"}]
    <3>1. i \in Slots /\ fds[i] = NoConn
      <4>1. Unused # {} /\ Unused \subseteq Nat
        BY <2>5, Apart DEF SessionAdd, Unused
      <4>2. PICK m \in Unused : \A j \in Unused : m <= j
        BY <4>1, SmallestOf
      <4> QED BY <4>2 DEF Unused
    <3>2. /\ fds' = [fds EXCEPT ![i] = c]
          /\ sessions' = [sessions EXCEPT ![i] = z]
          /\ sockets' = sockets \cup {c}
          /\ events' = Write(c, "CONNECT", i)
      BY <2>5 DEF SessionAdd
    <3> HIDE DEF i
    <3>3. z \in Session /\ z.id = c /\ z.index = i /\ z.sockfd = c
      <4>1. {"plain"} \subseteq Frame
        BY DEF Frame
      <4> QED BY <2>2, <3>1, <4>1 DEF Zero, Session
    <3> HIDE DEF z
    <3>4. UNCHANGED conn /\ ClientsGoOn
      BY <2>5, ClientsStay DEF SessionAdd
    <3>5. New(c, i)
      BY <2>1, <2>2, <3>1, <3>2, <3>3, <3>4 DEF New
    <3> QED BY <1>1, <2>1, <2>3, <3>1, <3>4, <3>5
  <2> QED BY <2>3, <2>4, <2>5
<1> QED BY <1>2, <1>3 DEF Accept

-----------------------------------------------------------------------------
(* The invariant *)

\* What most steps keep: the server takes up no report, accepts nothing, and
\* is freed or not as before.
Kept ==
    /\ ClientsGoOn /\ UNCHANGED backlog /\ PcOK'
    /\ revents' \in [Listeners \cup Slots -> SUBSET {"IN", "HUP"}]
    /\ \A x \in Listeners \cup Slots : revents'[x] \subseteq revents[x]
    /\ pc'.at = "freed" <=> pc.at = "freed"

\* A step on the table: nothing, a request or an end.
OnTable == \/ Quiet
           \/ \E i \in Slots : /\ fds[i] # NoConn
                               /\ Request(i) \/ (End(i) /\ revents'[i] = {})

LEMMA RunsOn ==
  ASSUME TypeOK, ClientsGoOn, UNCHANGED backlog, PcOK',
         pc.at # "freed", pc'.at # "freed",
         UNCHANGED revents \/ \E i \in Slots : revents' = [revents EXCEPT ![i] = {}]
  PROVE  Kept
<1>1. revents \in [Listeners \cup Slots -> SUBSET {"IN", "HUP"}]
  BY TypesAre
<1> QED BY <1>1 DEF Kept

LEMMA GoesOn ==
  ASSUME TypeOK, ClientsGoOn, UNCHANGED <<backlog, pc, revents>>
  PROVE  Kept
<1>1. revents \in [Listeners \cup Slots -> SUBSET {"IN", "HUP"}] /\ PcOK
  BY TypesAre
<1> QED BY <1>1 DEF Kept, PcOK

LEMMA StepIs ==
  ASSUME IInv, [Next]_vars
  PROVE  \/ Kept /\ Working' /\ OnTable
         \/ Poll
         \/ \E l \in Listeners : Accept(l)
         \/ ServerFree
         \/ \E c \in Conns : Connect(c)
<1> USE DEF IInv
<1>1. ASSUME NEW i \in Slots, SkipSlot(i)
      PROVE  Kept /\ Working' /\ OnTable
  <2>1. PcOK' /\ pc'.at \in {"slot", "app"} /\ pc.at = "slot"
    BY <1>1, NextSlotTypes DEF SkipSlot
  <2>2. Quiet /\ ClientsGoOn /\ UNCHANGED <<revents, backlog>>
    BY <1>1, TableStays, ClientsStay DEF SkipSlot, table
  <2> QED BY <2>1, <2>2, RunsOn DEF Working, OnTable
<1>2. ASSUME NEW i \in Slots, fds[i] # NoConn, End(i), revents' = [revents EXCEPT ![i] = {}],
             NextSlot(i), UNCHANGED backlog, pc.at # "freed"
      PROVE  Kept /\ Working' /\ OnTable
  <2>1. PcOK' /\ pc'.at \in {"slot", "app"}
    BY <1>2, NextSlotTypes
  <2>2. ClientsGoOn
    BY <1>2 DEF End
  <2>3. revents'[i] = {}
    BY <1>2, TypesAre
  <2> QED BY <1>2, <2>1, <2>2, <2>3, RunsOn DEF Working, OnTable
<1>3. ASSUME NEW i \in Slots, HangupSlot(i) \/ FailSlot(i)
      PROVE  Kept /\ Working' /\ OnTable
  <2>1. pc.at # "freed"
    BY <1>3, ServedInUse DEF HangupSlot, FailSlot
  <2> QED BY <1>2, <1>3, <2>1, HangupSlotEnds, FailSlotEnds
<1>4. ASSUME NEW i \in Slots, Flush(i)
      PROVE  Kept /\ Working' /\ OnTable
  <2>1. pc.at # "freed"
    BY <1>4 DEF Flush
  <2>2. /\ fds[i] # NoConn /\ revents' = [revents EXCEPT ![i] = {}] /\ NextSlot(i)
        /\ UNCHANGED backlog /\ (End(i) \/ (Quiet /\ UNCHANGED conn))
    BY <1>4, FlushIs
  <2>3. CASE Quiet /\ UNCHANGED conn
    <3>1. PcOK' /\ pc'.at \in {"slot", "app"}
      BY <2>2, NextSlotTypes
    <3> QED BY <2>1, <2>2, <2>3, <3>1, RunsOn, ClientsStay DEF Working, OnTable
  <2> QED BY <1>2, <2>1, <2>2, <2>3
<1>5. ASSUME NEW i \in Slots, Receive(i) \/ ReadEnds(i)
      PROVE  Kept /\ Working' /\ OnTable
  <2>1. pc.at # "freed" /\ UNCHANGED fds
    BY <1>5, ServedInUse DEF Receive, ReadEnds, table
  <2>2. /\ fds[i] # NoConn /\ (Quiet \/ Request(i)) /\ ClientsGoOn /\ UNCHANGED <<revents, backlog>>
        /\ pc'.at \in {"read", "flush"} /\ pc'.ndx = i
    BY <1>5, ReceiveIs, ReadEndsIs
  <2>3. Kept
    BY <2>1, <2>2, RunsOn DEF PcOK
  <2>4. Working'
    BY <2>1, <2>2 DEF Working
  <2> QED BY <2>2, <2>3, <2>4 DEF OnTable
<1>6. ASSUME NEW i \in Slots, SendReturns(i)
      PROVE  Kept /\ Working' /\ OnTable
  <2>1. pc.at # "freed"
    BY <1>6 DEF SendReturns
  <2>2. Quiet /\ UNCHANGED <<revents, backlog, conn>> /\ pc'.at = "app" /\ pc'.ndx = 0
    BY <1>6, SendReturnsIs
  <2> QED BY <2>1, <2>2, RunsOn, ClientsStay DEF Working, OnTable, PcOK
<1>7. ASSUME NEW h \in Handles, StreamSend(h)
      PROVE  Kept /\ Working' /\ OnTable
  <2>1. pc.at # "freed" /\ UNCHANGED fds
    BY <1>7 DEF StreamSend
  <2>2. /\ Quiet /\ ClientsGoOn /\ UNCHANGED <<revents, backlog>>
        /\ pc'.at = "send" /\ pc'.ndx \in Slots /\ fds[pc'.ndx] # NoConn
    BY <1>7, StreamSendIs
  <2> QED BY <2>1, <2>2, RunsOn DEF Working, OnTable, PcOK
<1>8. ASSUME Quiet, ClientsGoOn, UNCHANGED <<revents, pc, backlog>>
      PROVE  Kept /\ Working' /\ OnTable
  BY <1>8, GoesOn DEF Working, OnTable, Quiet
<1>9. ASSUME NEW h \in Handles, StreamEnd(h) \/ SessionEnd(h)
      PROVE  Kept /\ Working' /\ OnTable
  BY <1>8, <1>9, EndCallIs
<1>10. ASSUME NEW c \in Conns, ClientIs(c)
       PROVE  Kept /\ Working' /\ OnTable
  BY <1>8, <1>10, ClientStepIs
<1>11. CASE UNCHANGED vars
  <2>1. Quiet /\ ClientsGoOn
    BY <1>11, TableStays, ClientsStay DEF vars
  <2> QED BY <1>8, <1>11, <2>1 DEF vars
<1>12. CASE ServerStep
  BY <1>1, <1>3, <1>4, <1>5, <1>6, <1>12 DEF ServerStep
<1>13. CASE AppStep
  BY <1>7, <1>9, <1>13 DEF AppStep
<1>14. CASE Spin \/ PollTimeout \/ Freed
  BY <1>11, <1>14 DEF Spin, PollTimeout, Freed
<1>15. ASSUME NEW c \in Conns, ClientStep(c)
       PROVE  Connect(c) \/ ClientIs(c)
  BY <1>15, SendsAssumption DEF ClientStep, ClientIs
<1> QED BY <1>10, <1>11, <1>12, <1>13, <1>14, <1>15 DEF Next

LEMMA OnTableStep ==
  ASSUME TypeOK, Table, OnTable
  PROVE  /\ Table'
         /\ fds' \in [Slots -> Conns \cup {NoConn}]
         /\ sessions' \in [Slots -> Session]
         /\ events' \in [Conns -> Seq(Event)]
         /\ sockets' \subseteq Conns
         /\ \A c \in Conns : events[c] = <<>> => events'[c] = <<>>
<1>1. /\ fds \in [Slots -> Conns \cup {NoConn}] /\ sessions \in [Slots -> Session]
      /\ events \in [Conns -> Seq(Event)] /\ sockets \subseteq Conns
  BY TypesAre
<1>2. CASE Quiet
  BY <1>1, <1>2, QuietStep DEF Quiet
<1>3. ASSUME NEW i \in Slots, fds[i] # NoConn, Request(i)
      PROVE  /\ Table' /\ UNCHANGED fds /\ sessions' \in [Slots -> Session]
             /\ events' \in [Conns -> Seq(Event)] /\ UNCHANGED sockets
             /\ \A c \in Conns : events[c] = <<>> => events'[c] = <<>>
  <2>1. fds[i] \in Conns /\ events[fds[i]] # <<>> /\ events' = Write(fds[i], "MESSAGE", i)
    BY <1>1, <1>3 DEF Table, IndexKept, Request
  <2>2. /\ events' \in [Conns -> Seq(Event)]
        /\ \A c \in Conns \ {fds[i]} : events'[c] = events[c]
    BY <2>1, WriteEvent
  <2> QED BY <1>3, <2>1, <2>2, RequestStep DEF Request
<1>4. ASSUME NEW i \in Slots, fds[i] # NoConn, End(i)
      PROVE  /\ Table' /\ fds' \in [Slots -> Conns \cup {NoConn}]
             /\ sessions' \in [Slots -> Session]
             /\ events' \in [Conns -> Seq(Event)] /\ sockets' \subseteq sockets
             /\ \A c \in Conns : events[c] = <<>> => events'[c] = <<>>
  <2>1. fds[i] \in Conns /\ events[fds[i]] # <<>> /\ events' = Write(fds[i], "DISCONNECT", i)
    BY <1>1, <1>4 DEF Table, IndexKept, End
  <2>2. /\ events' \in [Conns -> Seq(Event)]
        /\ \A c \in Conns \ {fds[i]} : events'[c] = events[c]
    BY <2>1, WriteEvent
  <2>3. fds' \in [Slots -> Conns \cup {NoConn}] /\ sessions' \in [Slots -> Session]
    BY <1>1, <1>4, ZeroSession DEF End
  <2>4. sockets' \subseteq sockets
    BY <1>4 DEF End
  <2> QED BY <1>4, <2>1, <2>2, <2>3, <2>4, EndStep
<1> QED BY <1>1, <1>2, <1>3, <1>4 DEF OnTable

\* ezgrpc2_server_free: all sessions at once.
LEMMA FreeStep ==
  ASSUME TypeOK, Table, ServerFree
  PROVE  /\ Table'
         /\ fds' = [i \in Slots |-> NoConn]
         /\ sessions' \in [Slots -> Session]
         /\ events' \in [Conns -> Seq(Event)]
         /\ sockets' \subseteq Conns
         /\ \A c \in Conns : events[c] = <<>> => events'[c] = <<>>
<1>1. /\ fds \in [Slots -> Conns \cup {NoConn}] /\ sessions \in [Slots -> Session]
      /\ events \in [Conns -> Seq(Event)] /\ sockets \subseteq Conns
  BY TypesAre
<1>2. /\ fds' = [i \in Slots |-> NoConn] /\ sessions' = [i \in Slots |-> Zero]
      /\ sockets' = sockets \ {fds[i] : i \in Slots} /\ UNCHANGED conn
  BY DEF ServerFree
<1>3. SlotsAgree'
  BY <1>2 DEF SlotsAgree
<1>4. Bracketed(fds, events)
  BY BracketedBefore DEF Table
<1>5. ASSUME NEW i \in Slots, fds[i] # NoConn
      PROVE  /\ events'[fds[i]] \in Seq(Event) /\ events[fds[i]] # <<>>
             /\ WellFormed(events'[fds[i]]) /\ ~Open(events'[fds[i]]) /\ events'[fds[i]] # <<>>
  <2> DEFINE c == fds[i]
             ev == [type |-> "DISCONNECT", index |-> i]
             j  == CHOOSE k \in Slots : fds[k] = c
  <2>1. c \in Conns /\ events[c] \in Seq(Event)
    BY <1>1, <1>5
  <2>2. WellFormed(events[c]) /\ Open(events[c]) /\ events[c][1].index = i
    BY <1>4, <1>5, <2>1 DEF Bracketed, Table, IndexKept
  <2>3. sessions[j].index = i
    <3>1. j \in Slots /\ fds[j] = fds[i]
      OBVIOUS
    <3> HIDE DEF j
    <3>2. j = i
      BY <1>5, <3>1 DEF Table, SlotsAgree
    <3> QED BY <1>5, <3>2, NamesOf DEF Table
  <2>4. events'[c] = Append(events[c], [type |-> "DISCONNECT", index |-> sessions[j].index])
    BY <2>1 DEF ServerFree
  <2> HIDE DEF j
  <2>5. ev \in Event /\ ev.type = "DISCONNECT" /\ ev.index = i
    BY DEF Event
  <2>6. events'[c] = Append(events[c], ev)
    BY <2>3, <2>4
  <2> HIDE DEF ev
  <2>7. WellFormed(events'[c]) /\ ~Open(events'[c]) /\ events'[c] # <<>>
    BY <2>1, <2>2, <2>5, <2>6, NextEvent
  <2>8. events'[c] \in Seq(Event)
    BY <2>1, <2>5, <2>6
  <2> QED BY <2>2, <2>7, <2>8 DEF Open
<1>6. ASSUME NEW c \in Conns, \A i \in Slots : fds[i] # c
      PROVE  events'[c] = events[c]
  BY <1>6 DEF ServerFree
<1>7. DOMAIN events' = Conns /\ events' = [c \in Conns |-> events'[c]]
  BY DEF ServerFree
<1>8. events' \in [Conns -> Seq(Event)]
  <2>1. \A c \in Conns : events'[c] \in Seq(Event)
    BY <1>1, <1>5, <1>6, NoConnAssumption
  <2> QED BY <1>7, <2>1
<1>9. Bracketed(fds', events')
  <2>1. ASSUME NEW c \in Conns
        PROVE  WellFormed(events'[c]) /\ ~Open(events'[c]) /\ \A i \in Slots : fds'[i] # c
    <3>1. \A i \in Slots : fds'[i] # c
      BY <1>2, NoConnAssumption
    <3>2. CASE \E i \in Slots : fds[i] = c
      BY <1>5, <3>1, <3>2, NoConnAssumption
    <3>3. CASE \A i \in Slots : fds[i] # c
      BY <1>4, <1>6, <3>1, <3>3 DEF Bracketed
    <3> QED BY <3>2, <3>3
  <2> QED BY <2>1 DEF Bracketed
<1>10. EventsBracketSession'
  BY <1>2, <1>3, <1>9, BracketedAfter
<1>11. SocketsAccounted'
  <2>1. {fds'[k] : k \in Slots} \ {NoConn} \subseteq sockets'
    BY <1>2
  <2>2. ASSUME NEW d \in sockets'
        PROVE  conn'[d].hup /\ events'[d] # <<>> /\ events'[d][Len(events'[d])].type = "DISCONNECT"
    <3>1. d \in sockets /\ d \in Conns /\ \A k \in Slots : fds[k] # d
      BY <1>1, <1>2
    <3>2. events'[d] = events[d] /\ conn'[d] = conn[d]
      BY <1>2, <1>6, <3>1
    <3>3. conn[d].hup /\ events[d] # <<>> /\ events[d][Len(events[d])].type = "DISCONNECT"
      BY <3>1 DEF Table, SocketsAccounted
    <3> QED BY <3>2, <3>3
  <2> QED BY <2>1, <2>2 DEF SocketsAccounted
<1>12. IndexKept'
  BY <1>2 DEF IndexKept
<1>13. \A c \in Conns : events[c] = <<>> => events'[c] = <<>>
  BY <1>5, <1>6, NoConnAssumption
<1> QED BY <1>1, <1>2, <1>3, <1>8, <1>10, <1>11, <1>12, <1>13, ZeroSession DEF Table

\* A connection in a backlog.
LEMMA WaitsOnce ==
  ASSUME Backlogged, NEW l \in Listeners, NEW n \in DOMAIN backlog[l]
  PROVE  /\ conn[backlog[l][n]].made /\ events[backlog[l][n]] = <<>>
         /\ Listener[backlog[l][n]] = l
         /\ \A j \in DOMAIN backlog[l] : backlog[l][j] = backlog[l][n] => j = n
  BY DEF Backlogged

LEMMA AcceptTakes ==
  ASSUME TypeOK, Backlogged, NEW l \in Listeners, backlog[l] # <<>>,
         backlog' = [backlog EXCEPT ![l] = Tail(@)],
         \A c \in Conns : conn'[c].made = conn[c].made,
         \A c \in Conns : events[c] = <<>> /\ c # Head(backlog[l]) => events'[c] = <<>>,
         \A c \in Conns : events[c] # <<>> => events'[c] # <<>>
  PROVE  backlog' \in [Listeners -> Seq(Conns)] /\ Backlogged'
<1> DEFINE b == backlog[l]
<1>1. backlog \in [Listeners -> Seq(Conns)] /\ b \in Seq(Conns) /\ b # <<>>
  BY TypesAre
<1>2. /\ Tail(b) \in Seq(Conns) /\ Len(b) \in Nat /\ Len(b) > 0 /\ Head(b) = b[1]
      /\ DOMAIN b = 1 .. Len(b) /\ DOMAIN Tail(b) = 1 .. Len(b) - 1
      /\ \A k \in DOMAIN Tail(b) : Tail(b)[k] = b[k + 1] /\ k + 1 \in DOMAIN b
  BY <1>1
<1>3. backlog' \in [Listeners -> Seq(Conns)] /\ backlog'[l] = Tail(b)
      /\ \A m \in Listeners \ {l} : backlog'[m] = backlog[m]
  BY <1>1, <1>2
<1>4. ASSUME NEW m \in Listeners, NEW k \in DOMAIN backlog'[m]
      PROVE  /\ backlog'[m][k] \in Conns /\ conn'[backlog'[m][k]].made
             /\ events'[backlog'[m][k]] = <<>> /\ Listener[backlog'[m][k]] = m
             /\ \A j \in DOMAIN backlog'[m] : backlog'[m][j] = backlog'[m][k] => j = k
  <2>1. CASE m = l
    <3>1. backlog'[m] = Tail(b) /\ b[k + 1] = Tail(b)[k] /\ k + 1 \in DOMAIN b /\ k + 1 # 1
      BY <1>2, <1>3, <1>4, <2>1
    <3>2. /\ conn[b[k + 1]].made /\ events[b[k + 1]] = <<>> /\ Listener[b[k + 1]] = l
          /\ \A j \in DOMAIN b : b[j] = b[k + 1] => j = k + 1
      BY <3>1, WaitsOnce
    <3>3. b[k + 1] \in Conns /\ b[k + 1] # Head(b)
      <4>1. b[k + 1] \in Conns
        BY <1>1, <3>1
      <4>2. 1 \in DOMAIN b /\ k + 1 # 1
        BY <1>2, <3>1
      <4>3. b[1] # b[k + 1]
        BY <3>2, <4>2
      <4> QED BY <1>2, <4>1, <4>3
    <3>4. ASSUME NEW j \in DOMAIN Tail(b), Tail(b)[j] = Tail(b)[k]
          PROVE  j = k
      <4>1. j \in Int /\ k \in Int /\ j + 1 \in DOMAIN b /\ b[j + 1] = b[k + 1]
        BY <1>2, <1>3, <1>4, <2>1, <3>1, <3>4
      <4>2. j + 1 = k + 1
        BY <3>2, <4>1
      <4> QED BY <4>1, <4>2
    <3> QED BY <2>1, <3>1, <3>2, <3>3, <3>4
  <2>2. CASE m # l
    <3>1. backlog'[m] = backlog[m] /\ k \in DOMAIN backlog[m] /\ backlog[m] \in Seq(Conns)
      BY <1>1, <1>3, <1>4, <2>2
    <3>2. /\ conn[backlog[m][k]].made /\ events[backlog[m][k]] = <<>> /\ Listener[backlog[m][k]] = m
          /\ \A j \in DOMAIN backlog[m] : backlog[m][j] = backlog[m][k] => j = k
      BY <3>1 DEF Backlogged
    <3>3. backlog[m][k] \in Conns
      BY <3>1
    <3>4. backlog[m][k] # Head(b)
      BY <1>2, <2>2, <3>2 DEF Backlogged
    <3> QED BY <3>1, <3>2, <3>3, <3>4
  <2> QED BY <2>1, <2>2
<1>5. \A c \in Conns : ~conn'[c].made => events'[c] = <<>>
  <2>1. 1 \in DOMAIN b
    BY <1>2
  <2>2. conn[Head(b)].made
    BY <1>2, <2>1 DEF Backlogged
  <2> QED BY <2>2 DEF Backlogged
<1> QED BY <1>3, <1>4, <1>5 DEF Backlogged

LEMMA BackloggedStays ==
  ASSUME TypeOK, Backlogged, UNCHANGED backlog,
         \A c \in Conns : conn'[c].made = conn[c].made,
         \A c \in Conns : events[c] = <<>> => events'[c] = <<>>
  PROVE  Backlogged'
<1>1. \A l \in Listeners : \A k \in DOMAIN backlog[l] : backlog[l][k] \in Conns
  BY TypesAre
<1> QED BY <1>1 DEF Backlogged

LEMMA ConnectIs ==
  ASSUME TypeOK, Backlogged, NEW c \in Conns, Connect(c)
  PROVE  /\ Quiet /\ UNCHANGED <<pc, revents>>
         /\ backlog' \in [Listeners -> Seq(Conns)] /\ conn' \in [Conns -> Client]
         /\ \A l \in Listeners : backlog[l] # <<>> => backlog'[l] # <<>>
         /\ Backlogged'
<1> DEFINE l == Listener[c]
           b == backlog[l]
           k == [conn[c] EXCEPT !.made = TRUE]
<1>1. /\ backlog \in [Listeners -> Seq(Conns)] /\ conn \in [Conns -> Client]
      /\ l \in Listeners /\ b \in Seq(Conns)
  BY ListenerAssumption, TypesAre DEF Listeners
<1>2. ~conn[c].made /\ UNCHANGED <<fds, revents, sessions, events, sockets, pc>>
  BY DEF Connect, table
<1>3. k \in Client /\ k.made /\ k.hup = conn[c].hup
  <2>1. k \in Client
    BY <1>1, ClientFields
  <2> QED BY <1>1, <2>1 DEF Client
<1>4. conn' = [conn EXCEPT ![c] = k]
  BY <1>1 DEF Connect
<1> HIDE DEF k
<1>5. /\ conn' \in [Conns -> Client]
      /\ conn'[c].made /\ conn'[c].hup = conn[c].hup /\ \A d \in Conns \ {c} : conn'[d] = conn[d]
  BY <1>1, <1>3, <1>4
<1>6. Quiet
  BY <1>2, <1>5, TableStays
<1>7. /\ backlog' = [backlog EXCEPT ![l] = Append(b, c)]
      /\ Append(b, c) \in Seq(Conns) /\ Append(b, c) # <<>>
  BY <1>1 DEF Connect
<1>8. /\ backlog' \in [Listeners -> Seq(Conns)] /\ backlog'[l] = Append(b, c)
      /\ \A m \in Listeners \ {l} : backlog'[m] = backlog[m]
  BY <1>1, <1>7
<1>9. \A m \in Listeners : \A j \in DOMAIN backlog[m] : backlog[m][j] \in Conns \ {c}
  BY <1>1, <1>2 DEF Backlogged
<1>10. ASSUME NEW m \in Listeners, NEW j \in DOMAIN backlog'[m]
       PROVE  /\ conn'[backlog'[m][j]].made /\ events[backlog'[m][j]] = <<>>
              /\ Listener[backlog'[m][j]] = m
              /\ \A n \in DOMAIN backlog'[m] : backlog'[m][n] = backlog'[m][j] => n = j
  <2>1. CASE m # l
    <3>1. backlog'[m] = backlog[m] /\ backlog[m][j] \in Conns \ {c}
      BY <1>8, <1>9, <1>10, <2>1
    <3> QED BY <1>5, <1>10, <3>1 DEF Backlogged
  <2>2. CASE m = l
    <3>1. /\ DOMAIN b = 1 .. Len(b) /\ Len(b) \in Nat
          /\ DOMAIN backlog'[l] = 1 .. Len(b) + 1 /\ backlog'[l][Len(b) + 1] = c
          /\ \A n \in DOMAIN b : backlog'[l][n] = b[n]
      BY <1>1, <1>8
    <3>2. CASE j = Len(b) + 1
      <4>1. \A n \in DOMAIN b : b[n] # c
        BY <1>1, <1>9
      <4>2. events[c] = <<>>
        BY <1>2 DEF Backlogged
      <4> QED BY <1>5, <2>2, <3>1, <3>2, <4>1, <4>2
    <3>3. CASE j # Len(b) + 1
      <4>1. j \in DOMAIN b /\ backlog'[l][j] = b[j] /\ b[j] \in Conns \ {c}
        BY <1>1, <1>9, <1>10, <2>2, <3>1, <3>3
      <4>2. /\ conn[b[j]].made /\ events[b[j]] = <<>> /\ Listener[b[j]] = l
            /\ \A n \in DOMAIN b : b[n] = b[j] => n = j
        BY <1>1, <4>1 DEF Backlogged
      <4> QED BY <1>5, <2>2, <3>1, <4>1, <4>2
    <3> QED BY <3>2, <3>3
  <2> QED BY <2>1, <2>2
<1>11. \A d \in Conns : ~conn'[d].made => events'[d] = <<>>
  BY <1>2, <1>5 DEF Backlogged
<1>12. Backlogged'
  BY <1>2, <1>10, <1>11 DEF Backlogged
<1> QED BY <1>2, <1>5, <1>6, <1>7, <1>8, <1>12

\* What accept() brings leaves the rest as it was.
LEMMA AcceptStep ==
  ASSUME TypeOK, Table, Polled, Backlogged, Working, NEW l \in Listeners, Accept(l)
  PROVE  TypeOK' /\ Table' /\ Polled' /\ Backlogged' /\ Working'
<1> DEFINE c == Head(backlog[l])
<1>1. /\ ClientsGoOn /\ NextListener(l) /\ revents' = [revents EXCEPT ![l] = {}]
      /\ \/ Quiet /\ UNCHANGED backlog
         \/ /\ backlog[l] # <<>> /\ backlog' = [backlog EXCEPT ![l] = Tail(@)]
            /\ Quiet \/ \E i \in Slots : New(c, i)
  BY AcceptIs DEF Table
<1>2. PcOK' /\ pc'.at \in {"accept", "slot"} /\ pc.at = "accept"
  BY <1>1, NextListenerTypes DEF Accept
<1>3. /\ fds \in [Slots -> Conns \cup {NoConn}] /\ sessions \in [Slots -> Session]
      /\ events \in [Conns -> Seq(Event)] /\ sockets \subseteq Conns
      /\ backlog \in [Listeners -> Seq(Conns)] /\ conn \in [Conns -> Client]
      /\ revents \in [Listeners \cup Slots -> SUBSET {"IN", "HUP"}]
  BY TypesAre
<1>4. /\ revents' \in [Listeners \cup Slots -> SUBSET {"IN", "HUP"}] /\ revents'[l] = {}
      /\ \A x \in Listeners \cup Slots : x # l => revents'[x] = revents[x]
  BY <1>1, <1>3
<1>5. \/ UNCHANGED backlog
      \/ backlog[l] # <<>> /\ backlog' = [backlog EXCEPT ![l] = Tail(@)]
  BY <1>1
<1>6. \A m \in Listeners : m # l => backlog'[m] = backlog[m]
  BY <1>3, <1>5
<1>7. Working'
  BY <1>2 DEF Working
<1>8. ASSUME \A i \in Slots : fds[i] # NoConn => fds'[i] = fds[i]
      PROVE  Polled'
  <2>1. \A m \in Listeners : "IN" \in revents'[m] => backlog'[m] # <<>>
    BY <1>4, <1>6 DEF Polled
  <2>2. \A i \in Slots : "HUP" \in revents'[i] => fds'[i] # NoConn /\ conn'[fds'[i]].hup
    <3>1. \A i \in Slots : "HUP" \in revents'[i] =>
            fds[i] # NoConn /\ fds[i] \in Conns /\ conn[fds[i]].hup
      BY <1>2, <1>3, <1>4, Apart DEF Polled
    <3> QED BY <1>1, <1>8, <3>1 DEF ClientsGoOn
  <2> QED BY <2>1, <2>2 DEF Polled
<1>9. CASE Quiet
  <2>1. Table' /\ Polled'
    BY <1>8, <1>9, QuietStep DEF Quiet
  <2>2. backlog' \in [Listeners -> Seq(Conns)] /\ Backlogged'
    <3>1. UNCHANGED events /\ \A d \in Conns : conn'[d].made = conn[d].made
      BY <1>1, <1>9 DEF Quiet, ClientsGoOn
    <3> QED BY <1>3, <1>5, <3>1, AcceptTakes, BackloggedStays
  <2>3. /\ fds' \in [Slots -> Conns \cup {NoConn}] /\ sessions' \in [Slots -> Session]
        /\ events' \in [Conns -> Seq(Event)] /\ sockets' \subseteq Conns
    BY <1>3, <1>9 DEF Quiet
  <2>4. TypeOK'
    BY <1>1, <1>2, <1>3, <1>4, <2>2, <2>3 DEF ClientsGoOn, TypeOK, PcOK, Event, Client
  <2> QED BY <1>7, <2>1, <2>2, <2>4
<1>10. ASSUME NEW i \in Slots, New(c, i), backlog[l] # <<>>,
              backlog' = [backlog EXCEPT ![l] = Tail(@)]
       PROVE  TypeOK' /\ Table' /\ Polled' /\ Backlogged' /\ Working'
  <2>1. c \in Conns
    BY <1>3, <1>10
  <2>2. Table'
    BY <1>10, <2>1, NewStep
  <2>3. Polled'
    BY <1>3, <1>8, <1>10 DEF New
  <2>4. /\ events' = Write(c, "CONNECT", i) /\ events' \in [Conns -> Seq(Event)]
        /\ events'[c] # <<>> /\ \A d \in Conns \ {c} : events'[d] = events[d]
    <3>1. events' = Write(c, "CONNECT", i)
      BY <1>10 DEF New
    <3>2. /\ events' \in [Conns -> Seq(Event)]
          /\ events'[c] = Append(events[c], [type |-> "CONNECT", index |-> i])
          /\ \A d \in Conns \ {c} : events'[d] = events[d]
      BY <2>1, <3>1, WriteEvent
    <3>3. events'[c] # <<>>
      <4>1. events[c] = <<>>
        BY <1>10 DEF New
      <4> QED BY <3>2, <4>1
    <3> QED BY <3>1, <3>2, <3>3
  <2>5. backlog' \in [Listeners -> Seq(Conns)] /\ Backlogged'
    <3>1. \A d \in Conns : conn'[d].made = conn[d].made
      BY <1>1 DEF ClientsGoOn
    <3> QED BY <1>10, <2>4, <3>1, AcceptTakes
  <2>6. /\ fds' \in [Slots -> Conns \cup {NoConn}] /\ sessions' \in [Slots -> Session]
        /\ sockets' \subseteq Conns
    BY <1>3, <1>10, <2>1 DEF New
  <2>7. TypeOK'
    BY <1>1, <1>2, <1>3, <1>4, <2>4, <2>5, <2>6 DEF ClientsGoOn, TypeOK, PcOK, Event, Client
  <2> QED BY <1>7, <2>2, <2>3, <2>5, <2>7
<1> QED BY <1>1, <1>9, <1>10

LEMMA IInvStep ==
  ASSUME IInv, [Next]_vars
  PROVE  IInv'
<1>1. TypeOK /\ Table /\ Polled /\ Backlogged /\ Working
  BY DEF IInv, Table
<1>2. /\ fds \in [Slots -> Conns \cup {NoConn}] /\ sessions \in [Slots -> Session]
      /\ events \in [Conns -> Seq(Event)] /\ sockets \subseteq Conns
      /\ backlog \in [Listeners -> Seq(Conns)] /\ conn \in [Conns -> Client]
      /\ revents \in [Listeners \cup Slots -> SUBSET {"IN", "HUP"}] /\ PcOK
  BY <1>1, TypesAre
<1>3. CASE Kept /\ Working' /\ OnTable
  <2>1. /\ Table' /\ fds' \in [Slots -> Conns \cup {NoConn}] /\ sessions' \in [Slots -> Session]
        /\ events' \in [Conns -> Seq(Event)] /\ sockets' \subseteq Conns
        /\ \A c \in Conns : events[c] = <<>> => events'[c] = <<>>
    BY <1>1, <1>3, OnTableStep
  <2>2. TypeOK'
    BY <1>2, <1>3, <2>1 DEF Kept, ClientsGoOn, TypeOK, PcOK, Event, Client
  <2>3. Backlogged'
    BY <1>1, <1>3, <2>1, BackloggedStays DEF Kept, ClientsGoOn
  <2>4. \A i \in Slots : "HUP" \in revents'[i] /\ fds[i] # NoConn => fds'[i] = fds[i]
    BY <1>2, <1>3 DEF OnTable, Quiet, Request, End
  <2>5. \A i \in Slots : pc'.at # "freed" /\ "HUP" \in revents'[i] =>
          fds'[i] # NoConn /\ conn'[fds'[i]].hup
    <3>1. \A i \in Slots : pc'.at # "freed" /\ "HUP" \in revents'[i] =>
            fds[i] # NoConn /\ fds[i] \in Conns /\ conn[fds[i]].hup
      BY <1>1, <1>2, <1>3 DEF Kept, Polled
    <3> QED BY <1>3, <2>4, <3>1 DEF Kept, ClientsGoOn
  <2>6. \A l \in Listeners : "IN" \in revents'[l] => backlog'[l] # <<>>
    BY <1>1, <1>3 DEF Kept, Polled
  <2>7. Polled'
    BY <2>5, <2>6 DEF Polled
  <2> QED BY <1>3, <2>1, <2>2, <2>3, <2>7 DEF IInv, Table
<1>4. CASE Poll
  <2>1. /\ Quiet /\ ClientsGoOn /\ UNCHANGED backlog
        /\ pc'.at = "accept" /\ pc'.ndx = 0
        /\ revents' \in [Listeners \cup Slots -> SUBSET {"IN", "HUP"}]
        /\ \A i \in Slots : "HUP" \in revents'[i] => fds[i] # NoConn /\ conn[fds[i]].hup
        /\ \A l \in Listeners : "IN" \in revents'[l] => backlog[l] # <<>>
    BY <1>1, <1>4, PollIs DEF Table
  <2>2. Table'
    BY <1>1, <2>1, QuietStep
  <2>3. PcOK' /\ Working'
    BY <2>1 DEF PcOK, Working, Listeners
  <2>4. TypeOK'
    BY <1>2, <2>1, <2>3 DEF Quiet, ClientsGoOn, TypeOK, PcOK, Event, Client
  <2>5. Backlogged'
    BY <1>1, <2>1, BackloggedStays DEF Quiet, ClientsGoOn
  <2>6. Polled'
    BY <1>2, <2>1 DEF Polled, Quiet, ClientsGoOn
  <2> QED BY <2>2, <2>3, <2>4, <2>5, <2>6 DEF IInv, Table
<1>5. ASSUME NEW l \in Listeners, Accept(l)
      PROVE  IInv'
  BY <1>1, <1>5, AcceptStep DEF IInv, Table
<1>6. CASE ServerFree
  <2>1. /\ Table' /\ fds' = [i \in Slots |-> NoConn]
        /\ sessions' \in [Slots -> Session] /\ events' \in [Conns -> Seq(Event)]
        /\ sockets' \subseteq Conns /\ \A c \in Conns : events[c] = <<>> => events'[c] = <<>>
    BY <1>1, <1>6, FreeStep
  <2>2. UNCHANGED <<revents, backlog, conn>> /\ pc'.at = "freed" /\ pc'.ndx = 0
    BY <1>6 DEF ServerFree
  <2>3. PcOK' /\ Working'
    BY <2>2 DEF PcOK, Working
  <2>4. fds' \in [Slots -> Conns \cup {NoConn}]
    BY <2>1
  <2>5. TypeOK'
    BY <1>2, <2>1, <2>2, <2>3, <2>4 DEF TypeOK, PcOK, Event, Client
  <2>6. Backlogged'
    BY <1>1, <2>1, <2>2, BackloggedStays
  <2>7. Polled'
    BY <1>1, <2>2 DEF Polled
  <2> QED BY <2>1, <2>3, <2>5, <2>6, <2>7 DEF IInv, Table
<1>7. ASSUME NEW c \in Conns, Connect(c)
      PROVE  IInv'
  <2>1. /\ Quiet /\ UNCHANGED <<pc, revents>>
        /\ backlog' \in [Listeners -> Seq(Conns)] /\ conn' \in [Conns -> Client]
        /\ \A l \in Listeners : backlog[l] # <<>> => backlog'[l] # <<>>
        /\ Backlogged'
    BY <1>1, <1>7, ConnectIs
  <2>2. Table'
    BY <1>1, <2>1, QuietStep
  <2>3. TypeOK'
    BY <1>2, <2>1 DEF Quiet, TypeOK, PcOK, Event, Client
  <2>4. Polled'
    BY <1>1, <1>2, <2>1 DEF Polled, Quiet
  <2>5. Working'
    BY <1>1, <2>1 DEF Working, Quiet
  <2> QED BY <2>1, <2>2, <2>3, <2>4, <2>5 DEF IInv, Table
<1> QED BY <1>3, <1>4, <1>5, <1>6, <1>7, StepIs

LEMMA IInvInit ==
  ASSUME Init
  PROVE  IInv
<1>1. /\ fds = [i \in Slots |-> NoConn] /\ sessions = [i \in Slots |-> Zero]
      /\ events = [c \in Conns |-> <<>>] /\ backlog = [l \in Listeners |-> <<>>]
      /\ revents = [i \in Listeners \cup Slots |-> {}] /\ sockets = {}
      /\ pc.at = "app" /\ pc.ndx = 0
  BY DEF Init
<1>2. /\ backlog \in [Listeners -> Seq(Conns)] /\ events \in [Conns -> Seq(Event)]
      /\ conn \in [Conns -> Client] /\ PcOK
  BY <1>1 DEF Init, Client, PcOK
<1>3. TypeOK
  BY <1>1, <1>2, ZeroSession DEF TypeOK, PcOK, Event, Client
<1>4. SlotsAgree /\ IndexKept /\ SocketsAccounted
  BY <1>1 DEF SlotsAgree, IndexKept, SocketsAccounted
<1>5. EventsBracketSession
  <2>1. \A c \in Conns : events[c] = <<>> /\ DOMAIN events[c] = {}
    BY <1>1
  <2>2. Bracketed(fds, events)
    BY <1>1, <2>1, NoConnAssumption DEF Bracketed, WellFormed, Open
  <2> QED BY <1>3, <1>4, <2>2, BracketedBefore
<1>6. Polled /\ Backlogged /\ Working
  <2>1. \A l \in Listeners : DOMAIN backlog[l] = {}
    BY <1>1
  <2> QED BY <1>1, <2>1 DEF Polled, Backlogged, Working
<1> QED BY <1>3, <1>4, <1>5, <1>6 DEF IInv

-----------------------------------------------------------------------------
(* Theorems *)

\* The inductive invariant, whatever clients do between the system calls of
\* the loop, and whatever the application calls between two polls.
THEOREM Invariance == Spec => []IInv
<1>1. Init => IInv
  BY IInvInit
<1>2. IInv /\ [Next]_vars => IInv'
  BY IInvStep
<1> QED BY <1>1, <1>2, PTL DEF Spec

\* Every variable keeps its type.
THEOREM TypeCorrect == Spec => []TypeOK
<1>1. IInv => TypeOK
  BY DEF IInv
<1> QED BY <1>1, Invariance, PTL

\* server->fds and server->sessions agree between any two statements that the
\* model tells apart: a slot in use holds the session made for its descriptor,
\* under its own index, and a free slot is zeroed; so what session_find finds
\* is a session that poll() watches.
THEOREM TableConsistent == Spec => []SlotsAgree
<1>1. IInv => SlotsAgree
  BY DEF IInv
<1> QED BY <1>1, Invariance, PTL

\* The application is told of a session once that it begins and once that it
\* ends, and the session is in the table exactly in between, though four
\* places in the code end sessions: the hang-up in ezgrpc2_server_poll, failure
\* while reading, failure while writing, and ezgrpc2_server_free.
THEOREM SessionsBracketed == Spec => []EventsBracketSession
<1>1. IInv => EventsBracketSession
  BY DEF IInv
<1> QED BY <1>1, Invariance, PTL

\* A descriptor in a slot is open, and one that is open and in no slot is that
\* of a client that hung up (lines 249-256 of ezgrpc2_server.c): whatever else
\* ends a session closes its descriptor.
THEOREM DescriptorsAccounted == Spec => []SocketsAccounted
<1>1. IInv => SocketsAccounted
  BY DEF IInv
<1> QED BY <1>1, Invariance, PTL

LEMMA CallsOneSession ==
  ASSUME TypeOK, NEW h \in Handles, StreamSend(h) \/ StreamEnd(h) \/ SessionEnd(h),
         NEW k \in Slots, sessions'[k] # sessions[k]
  PROVE  sessions[k].id = h.id
<1>1. sessions \in [Slots -> Session]
  BY TypesAre
<1>2. \A i \in SessionFind(h) : i \in Slots /\ sessions[i].id = h.id
  BY DEF SessionFind
<1>3. CASE StreamSend(h)
  <2>1. PICK i \in SessionFind(h) : sessions' = [sessions EXCEPT ![i].out = @ \cup {"plain"}]
    BY <1>3 DEF StreamSend
  <2> QED BY <1>1, <1>2, <2>1
<1>4. CASE StreamEnd(h) \/ SessionEnd(h)
  <2>1. PICK i \in SessionFind(h), frame \in Frame : SubmitAndSendOnce(i, frame)
    BY <1>4 DEF StreamEnd, SessionEnd, Frame
  <2>2. PICK s : sessions' = [sessions EXCEPT ![i] = s]
    BY <2>1 DEF SubmitAndSendOnce
  <2> QED BY <1>1, <1>2, <2>2
<1> QED BY <1>3, <1>4

\* A uuid kept after its session ended finds nothing, though the slot may be
\* in use again: session_find compares the random part as well as the index.
THEOREM UuidsAreNotReused == Spec => HandleNeverAliases
<1>1. TypeOK /\ [Next]_vars =>
        [\A h \in Handles : StreamSend(h) \/ StreamEnd(h) \/ SessionEnd(h) =>
           \A i \in Slots : sessions'[i] # sessions[i] => sessions[i].id = h.id]_vars
  BY CallsOneSession
<1> QED BY <1>1, TypeCorrect, PTL DEF Spec, HandleNeverAliases

-----------------------------------------------------------------------------
(* The log, for any number of lines *)

\* The lines the logger thread holds: one or none.
Held == IF thread.line = 0 THEN 0 ELSE 1

LifeTypes ==
    /\ logged \in Nat /\ queue \in Seq(Nat) /\ printed \in Seq(Nat)
    /\ thread \in [pc : {"created", "awake", "waiting", "logger", "exited"}, line : Nat]
    /\ thread.line # 0 <=> thread.pc = "logger"

\* Lines are numbered as they were logged: those printed, the one held, those
\* queued.
LinesNumbered ==
    /\ \A k \in 1 .. Len(printed) : printed[k] = k
    /\ thread.line # 0 => thread.line = Len(printed) + 1
    /\ \A k \in 1 .. Len(queue) : queue[k] = Len(printed) + Held + k

\* After the thread was joined the queue is what was dropped.
Drained == at \in {"free pool", "invalid free"}

LinesCounted ==
    IF Drained
    THEN /\ thread.pc = "exited" /\ queue = <<>>
         /\ dropped = Len(printed) + Held + 1 .. logged
         /\ Len(printed) + Held <= logged
    ELSE dropped = {} /\ logged = Len(printed) + Held + Len(queue)

LifeInv == LifeTypes /\ LinesNumbered /\ LinesCounted

-----------------------------------------------------------------------------

LEMMA Lengths ==
  ASSUME LifeTypes
  PROVE  /\ Len(printed) \in Nat /\ Len(queue) \in Nat /\ logged \in Nat
         /\ Held \in {0, 1} /\ thread.line \in Nat
  BY DEF LifeTypes, Held

\* Lines and threads as they were.
LEMMA SameLines ==
  ASSUME LifeInv, UNCHANGED <<logged, queue, printed, dropped>>,
         thread' \in [pc : {"created", "awake", "waiting", "logger", "exited"}, line : Nat],
         thread'.line = thread.line, thread'.line # 0 <=> thread'.pc = "logger",
         (Drained' <=> Drained), Drained => thread'.pc = "exited"
  PROVE  LifeInv'
<1>1. Held' = Held
  BY DEF Held
<1>2. LifeTypes'
  BY DEF LifeInv, LifeTypes
<1>3. LinesNumbered'
  BY <1>1 DEF LifeInv, LinesNumbered
<1>4. LinesCounted'
  BY <1>1 DEF LifeInv, LinesCounted
<1> QED BY <1>2, <1>3, <1>4 DEF LifeInv

LEMMA WokenIs ==
  ASSUME LifeTypes
  PROVE  /\ Woken \in [pc : {"created", "awake", "waiting", "logger", "exited"}, line : Nat]
         /\ Woken.line = thread.line
         /\ Woken.line # 0 <=> Woken.pc = "logger"
         /\ thread.pc = "exited" => Woken.pc = "exited"
  BY DEF LifeTypes, Woken

\* A line is logged while the pool is served.
LEMMA LogKeeps ==
  ASSUME LifeInv, Log, ~Drained, ~Drained'
  PROVE  LifeInv'
<1>1. /\ queue' = Append(queue, logged + 1) /\ logged' = logged + 1
      /\ thread' = Woken /\ printed' = printed /\ dropped' = dropped
  BY DEF Log, AddTask
<1>2. /\ LifeTypes /\ LinesNumbered /\ dropped = {} /\ logged = Len(printed) + Held + Len(queue)
      /\ queue \in Seq(Nat)
  BY DEF LifeInv, LinesCounted, LifeTypes
<1>3. /\ Len(printed) \in Nat /\ Len(queue) \in Nat /\ logged \in Nat
      /\ Held \in {0, 1} /\ logged + 1 \in Nat
  BY <1>2, Lengths
<1>4. /\ queue' \in Seq(Nat) /\ Len(queue') = Len(queue) + 1
      /\ \A k \in 1 .. Len(queue) : queue'[k] = queue[k]
      /\ queue'[Len(queue) + 1] = logged + 1
  BY <1>1, <1>2, <1>3, AppendProperties
<1>5. Held' = Held /\ thread'.line = thread.line
  BY <1>1, <1>2, WokenIs DEF Held
<1>6. LifeTypes'
  BY <1>1, <1>2, <1>3, <1>4, WokenIs DEF LifeTypes
<1>7. LinesNumbered'
  <2>1. \A k \in 1 .. Len(queue') : queue'[k] = Len(printed') + Held' + k
    <3> SUFFICES ASSUME NEW k \in 1 .. Len(queue')
                 PROVE  queue'[k] = Len(printed) + Held + k
      BY <1>1, <1>5
    <3>1. CASE k \in 1 .. Len(queue)
      BY <1>2, <1>4, <3>1 DEF LinesNumbered
    <3>2. CASE k = Len(queue) + 1
      BY <1>2, <1>3, <1>4, <3>2
    <3> QED BY <1>3, <1>4, <3>1, <3>2
  <2> QED BY <1>1, <1>2, <1>5, <2>1 DEF LinesNumbered
<1>8. LinesCounted'
  BY <1>1, <1>2, <1>3, <1>4, <1>5 DEF LinesCounted
<1> QED BY <1>6, <1>7, <1>8 DEF LifeInv

\* The thread takes the oldest line ...
LEMMA TakesKeeps ==
  ASSUME LifeInv, WorkerTakes
  PROVE  LifeInv'
<1>1. /\ thread.pc = "awake" /\ queue # <<>>
      /\ thread' = [pc |-> "logger", line |-> Head(queue)] /\ queue' = Tail(queue)
      /\ UNCHANGED <<at, logged, printed, dropped>>
  BY DEF WorkerTakes, server
<1>2. /\ LifeTypes /\ LinesNumbered /\ queue \in Seq(Nat) /\ thread.line = 0 /\ Held = 0
  BY <1>1 DEF LifeInv, LifeTypes, Held
<1>3. /\ Len(printed) \in Nat /\ Len(queue) \in Nat /\ logged \in Nat
  BY <1>2, Lengths
<1>4. /\ queue' \in Seq(Nat) /\ Len(queue') = Len(queue) - 1 /\ Len(queue) >= 1
      /\ Head(queue) = queue[1]
      /\ \A k \in 1 .. Len(queue') : queue'[k] = queue[k + 1]
  BY <1>1, <1>2, HeadTailProperties, EmptySeq
<1>5. ~Drained /\ ~Drained' /\ dropped = {} /\ logged = Len(printed) + Len(queue)
  <2>1. ~Drained
    BY <1>1 DEF LifeInv, LinesCounted
  <2>2. dropped = {} /\ logged = Len(printed) + Held + Len(queue)
    BY <2>1 DEF LifeInv, LinesCounted
  <2>3. ~Drained'
    BY <1>1, <2>1 DEF Drained
  <2> QED BY <1>2, <1>3, <2>1, <2>2, <2>3
<1>6. Head(queue) = Len(printed) + 1 /\ thread'.line = Len(printed) + 1
  BY <1>1, <1>2, <1>3, <1>4 DEF LinesNumbered
<1>7. Held' = 1
  BY <1>3, <1>6 DEF Held
<1>8. LifeTypes'
  BY <1>1, <1>2, <1>3, <1>4, <1>6 DEF LifeTypes
<1>9. LinesNumbered'
  <2>1. \A k \in 1 .. Len(queue') : queue'[k] = Len(printed') + Held' + k
    <3> SUFFICES ASSUME NEW k \in 1 .. Len(queue')
                 PROVE  queue'[k] = Len(printed) + 1 + k
      BY <1>1, <1>7
    <3>1. k \in Nat /\ k + 1 \in 1 .. Len(queue)
      BY <1>3, <1>4
    <3>2. queue[k + 1] = Len(printed) + (k + 1)
      BY <1>2, <1>3, <3>1 DEF LinesNumbered
    <3> QED BY <1>3, <1>4, <3>1, <3>2
  <2> QED BY <1>1, <1>2, <1>6, <2>1 DEF LinesNumbered
<1>10. LinesCounted'
  BY <1>1, <1>3, <1>4, <1>5, <1>7 DEF LinesCounted
<1> QED BY <1>8, <1>9, <1>10 DEF LifeInv

\* ... and writes it.
LEMMA WritesKeeps ==
  ASSUME LifeInv, WorkerWrites
  PROVE  LifeInv'
<1>1. /\ thread.pc = "logger" /\ printed' = Append(printed, thread.line)
      /\ thread' = [pc |-> "awake", line |-> 0]
      /\ UNCHANGED <<at, logged, queue, dropped>>
  BY DEF WorkerWrites, server, pool
<1>2. /\ LifeTypes /\ LinesNumbered /\ thread.line # 0 /\ Held = 1 /\ thread.line = Len(printed) + 1
      /\ printed \in Seq(Nat) /\ thread.line \in Nat
  BY <1>1, Lengths DEF LifeInv, LifeTypes, Held, LinesNumbered
<1>3. /\ Len(printed) \in Nat /\ Len(queue) \in Nat /\ logged \in Nat
  BY <1>2, Lengths
<1>4. /\ printed' \in Seq(Nat) /\ Len(printed') = Len(printed) + 1
      /\ \A k \in 1 .. Len(printed) : printed'[k] = printed[k]
      /\ printed'[Len(printed) + 1] = Len(printed) + 1
  BY <1>1, <1>2, AppendProperties
<1>5. Held' = 0 /\ thread'.line = 0 /\ thread'.pc = "awake"
  BY <1>1 DEF Held
<1>6. ~Drained /\ ~Drained' /\ dropped = {} /\ logged = Len(printed) + 1 + Len(queue)
  BY <1>1, <1>2, <1>3 DEF LifeInv, LinesCounted, Drained
<1>7. LifeTypes'
  BY <1>1, <1>2, <1>4 DEF LifeTypes
<1>8. LinesNumbered'
  <2>1. \A k \in 1 .. Len(printed') : printed'[k] = k
    <3> SUFFICES ASSUME NEW k \in 1 .. Len(printed')
                 PROVE  printed'[k] = k
      OBVIOUS
    <3>1. k \in 1 .. Len(printed) \/ k = Len(printed) + 1
      BY <1>3, <1>4
    <3> QED BY <1>2, <1>4, <3>1 DEF LinesNumbered
  <2>2. \A k \in 1 .. Len(queue) : queue[k] = Len(printed') + 0 + k
    BY <1>2, <1>3, <1>4 DEF LinesNumbered
  <2> QED BY <1>1, <1>5, <2>1, <2>2 DEF LinesNumbered
<1>9. LinesCounted'
  BY <1>1, <1>3, <1>4, <1>5, <1>6 DEF LinesCounted
<1> QED BY <1>7, <1>8, <1>9 DEF LifeInv

\* With the thread gone, what is left is dropped.
LEMMA DrainKeeps ==
  ASSUME LifeInv, Drain
  PROVE  LifeInv'
<1>1. /\ at = "join" /\ at' = "free pool" /\ thread.pc = "exited"
      /\ dropped' = dropped \cup {queue[k] : k \in DOMAIN queue} /\ queue' = <<>>
      /\ UNCHANGED <<logged, thread, printed>>
  BY DEF Drain, Joined
<1>2. /\ LifeTypes /\ LinesNumbered /\ queue \in Seq(Nat) /\ Held = 0 /\ thread.line = 0
      /\ dropped = {} /\ logged = Len(printed) + Held + Len(queue)
  BY <1>1 DEF LifeInv, LifeTypes, Held, LinesCounted, Drained
<1>3. /\ Len(printed) \in Nat /\ Len(queue) \in Nat /\ logged \in Nat
  BY <1>2, Lengths
<1>4. Held' = 0 /\ queue' \in Seq(Nat) /\ Len(queue') = 0 /\ Drained'
  <2>1. <<>> \in Seq(Nat) /\ Len(<<>>) = 0
    OBVIOUS
  <2>2. Held' = 0
    BY <1>1, <1>2 DEF Held
  <2>3. Drained'
    BY <1>1 DEF Drained
  <2> QED BY <1>1, <2>1, <2>2, <2>3
<1>5. {queue[k] : k \in DOMAIN queue} = Len(printed) + 1 .. logged
  <2>1. DOMAIN queue = 1 .. Len(queue)
    BY <1>2
  <2>2. \A k \in 1 .. Len(queue) : queue[k] = Len(printed) + k
    BY <1>2, <1>3 DEF LinesNumbered
  <2>3. ASSUME NEW n \in Len(printed) + 1 .. logged
        PROVE  \E k \in DOMAIN queue : n = queue[k]
    <3>1. n - Len(printed) \in 1 .. Len(queue)
      BY <1>2, <1>3
    <3>2. queue[n - Len(printed)] = n
      BY <1>3, <2>2, <3>1
    <3> QED BY <2>1, <3>1, <3>2
  <2>4. ASSUME NEW k \in DOMAIN queue
        PROVE  queue[k] \in Len(printed) + 1 .. logged
    BY <1>2, <1>3, <2>1, <2>2
  <2> QED BY <2>3, <2>4
<1>6. LifeTypes'
  <2>1. thread' \in [pc : {"created", "awake", "waiting", "logger", "exited"}, line : Nat]
    BY <1>1, <1>2 DEF LifeTypes
  <2>2. logged' \in Nat /\ printed' \in Seq(Nat) /\ (thread'.line # 0 <=> thread'.pc = "logger")
    BY <1>1, <1>2 DEF LifeTypes
  <2> QED BY <1>4, <2>1, <2>2 DEF LifeTypes
<1>7. LinesNumbered'
  <2>1. \A k \in 1 .. Len(queue') : queue'[k] = Len(printed') + Held' + k
    BY <1>4
  <2>2. \A k \in 1 .. Len(printed) : printed[k] = k
    BY <1>2 DEF LinesNumbered
  <2> QED BY <1>1, <1>2, <2>1, <2>2 DEF LinesNumbered
<1>8. LinesCounted'
  <2>1. dropped' = Len(printed) + 0 + 1 .. logged
    <3>1. Len(printed) + 0 + 1 = Len(printed) + 1
      BY <1>3
    <3> QED BY <1>1, <1>2, <1>5, <3>1
  <2>2. Len(printed) + 0 <= logged
    BY <1>2, <1>3
  <2> QED BY <1>1, <1>4, <2>1, <2>2 DEF LinesCounted
<1> QED BY <1>6, <1>7, <1>8 DEF LifeInv

\* The thread moves on, and holds what it held.
LEMMA ThreadMoves ==
  ASSUME LifeInv, NEW p \in {"awake", "waiting", "exited"},
         thread.pc \notin {"logger", "exited"}, thread' = [thread EXCEPT !.pc = p],
         UNCHANGED <<at, logged, queue, printed, dropped>>
  PROVE  LifeInv'
<1>1. /\ thread' \in [pc : {"created", "awake", "waiting", "logger", "exited"}, line : Nat]
      /\ thread'.line = thread.line
      /\ thread'.line # 0 <=> thread'.pc = "logger"
  BY DEF LifeInv, LifeTypes
<1>2. (Drained' <=> Drained)
  BY DEF Drained
<1>3. ~Drained
  BY DEF LifeInv, LinesCounted
<1> QED BY <1>1, <1>2, <1>3, SameLines

\* The thread of the server does, and logs nothing.
LEMMA ServerMoves ==
  ASSUME LifeInv, UNCHANGED <<logged, queue, printed, dropped, thread>>, (Drained' <=> Drained)
  PROVE  LifeInv'
<1>1. /\ thread' \in [pc : {"created", "awake", "waiting", "logger", "exited"}, line : Nat]
      /\ thread'.line = thread.line
      /\ thread'.line # 0 <=> thread'.pc = "logger"
  BY DEF LifeInv, LifeTypes
<1>2. Drained => thread'.pc = "exited"
  BY DEF LifeInv, LinesCounted
<1> QED BY <1>1, <1>2, SameLines

LEMMA StopKeeps ==
  ASSUME LifeInv, Stop
  PROVE  LifeInv'
<1>1. (Drained' <=> Drained) /\ ~Drained /\ thread' = Woken
      /\ UNCHANGED <<logged, queue, printed, dropped>>
  BY DEF Stop, Drained
<1> QED BY <1>1, WokenIs, SameLines DEF LifeInv

\* A step of opening a socket, or its failure.
LEMMA OpeningKeeps ==
  ASSUME LifeInv, NEW a \in {"ipv4", "ipv6"}, OpenStep(a) \/ OpenFails(a)
  PROVE  LifeInv'
<1>1. at = a /\ at' \in {"ipv4", "ipv6", "tables", "err"}
  BY DEF OpenStep, OpenFails, NextAddress
<1>2. ~Drained /\ ~Drained'
  BY <1>1 DEF Drained
<1>3. Log \/ UNCHANGED <<logged, pool, thread, printed, dropped>>
  BY DEF OpenStep, OpenFails
<1>4. CASE Log
  BY <1>2, <1>4, LogKeeps
<1>5. CASE UNCHANGED <<logged, pool, thread, printed, dropped>>
  <2>1. UNCHANGED <<logged, queue, printed, dropped, thread>>
    BY <1>5 DEF pool
  <2> QED BY <1>2, <2>1, ServerMoves
<1> QED BY <1>3, <1>4, <1>5

LEMMA InitInv ==
  ASSUME LifeInit
  PROVE  LifeInv
<1>1. /\ at = "thpool_init" /\ logged = 0 /\ queue = <<>> /\ printed = <<>> /\ dropped = {}
      /\ thread = [pc |-> "created", line |-> 0]
  BY DEF LifeInit
<1>2. <<>> \in Seq(Nat) /\ Len(<<>>) = 0
  OBVIOUS
<1>3. LifeTypes
  BY <1>1, <1>2 DEF LifeTypes
<1>4. LinesNumbered /\ Held = 0
  BY <1>1, <1>2 DEF LinesNumbered, Held
<1>5. LinesCounted
  BY <1>1, <1>2, <1>4 DEF LinesCounted, Drained
<1> QED BY <1>3, <1>4, <1>5 DEF LifeInv

LEMMA StepKeeps ==
  ASSUME LifeInv, [LifeNext]_lifeVars
  PROVE  LifeInv'
<1>1. CASE WorkerStarts
  BY <1>1, ThreadMoves DEF WorkerStarts, server
<1>2. CASE WorkerWaits
  BY <1>2, ThreadMoves DEF WorkerWaits, server, pool
<1>3. CASE SpuriousWakeup
  BY <1>3, ThreadMoves DEF SpuriousWakeup, server, pool
<1>4. CASE WorkerTakes
  BY <1>4, TakesKeeps
<1>5. CASE WorkerWrites
  BY <1>5, WritesKeeps
<1>6. CASE WorkerExits
  BY <1>6, ThreadMoves DEF WorkerExits, server
<1>7. CASE InitReturns
  <2>1. UNCHANGED <<logged, queue, printed, dropped, thread>> /\ (Drained' <=> Drained)
    BY <1>7 DEF InitReturns, pool, Drained
  <2> QED BY <2>1, ServerMoves
<1>8. CASE MakeTables
  <2>1. UNCHANGED <<logged, queue, printed, dropped, thread>> /\ (Drained' <=> Drained)
    BY <1>8 DEF MakeTables, pool, Drained
  <2> QED BY <2>1, ServerMoves
<1>9. CASE Serve
  BY <1>9, LogKeeps DEF Serve, server, Drained
<1>10. ASSUME NEW a \in {"ipv4", "ipv6"}, OpenStep(a) \/ OpenFails(a)
       PROVE  LifeInv'
  BY <1>10, OpeningKeeps
<1>11. CASE BeginFree
  <2>1. UNCHANGED <<logged, queue, printed, dropped, thread>> /\ (Drained' <=> Drained)
    BY <1>11 DEF BeginFree, pool, Drained
  <2> QED BY <2>1, ServerMoves
<1>12. CASE Stop
  BY <1>12, StopKeeps
<1>13. CASE Drain
  BY <1>13, DrainKeeps
<1>14. CASE FreePool
  <2>1. UNCHANGED <<logged, queue, printed, dropped, thread>> /\ (Drained' <=> Drained)
    BY <1>14 DEF FreePool, pool, Drained
  <2> QED BY <2>1, ServerMoves
<1>15. CASE UNCHANGED lifeVars
  BY <1>15, ServerMoves DEF lifeVars, server, pool, Drained
<1> QED BY <1>1, <1>2, <1>3, <1>4, <1>5, <1>6, <1>7, <1>8, <1>9, <1>10, <1>11, <1>12,
           <1>13, <1>14, <1>15 DEF LifeNext, Over

-----------------------------------------------------------------------------
(* Theorems on the log *)

\* Lines printed, held and queued are numbered as they were logged, and nothing
\* is dropped before the logger thread is gone.
THEOREM LifeInvariance == LifeSpec => []LifeInv
<1>1. LifeInit => LifeInv
  BY InitInv
<1>2. LifeInv /\ [LifeNext]_lifeVars => LifeInv'
  BY StepKeeps
<1> QED BY <1>1, <1>2, PTL DEF LifeSpec

\* However many lines are logged and wherever opening fails: thread and queue
\* of the log keep every line in its place, and server_free drops the last ones
\* only, after the thread has gone.
THEOREM LinesKept == LifeSpec => []LinesInOrder
<1>1. LifeInv => LinesInOrder
  <2> SUFFICES ASSUME LifeInv
               PROVE  LinesInOrder
    OBVIOUS
  <2>1. LifeTypes /\ LinesNumbered /\ LinesCounted /\ printed \in Seq(Nat) /\ queue \in Seq(Nat)
    BY DEF LifeInv, LifeTypes
  <2>2. /\ Len(printed) \in Nat /\ Len(queue) \in Nat /\ logged \in Nat
        /\ Held \in {0, 1} /\ thread.line \in Nat
    BY <2>1, Lengths
  <2> DEFINE h == IF thread.line = 0 THEN <<>> ELSE <<thread.line>>
             kept == printed \o h \o queue
  <2>3. h \in Seq(Nat) /\ Len(h) = Held /\ (Held = 1 => h[1] = Len(printed) + 1)
    BY <2>1, <2>2 DEF Held, LinesNumbered
  <2> HIDE DEF h
  <2> DEFINE w == printed \o h
  <2>4. /\ w \in Seq(Nat) /\ Len(w) = Len(printed) + Held
        /\ \A k \in 1 .. Len(w) : w[k] = k
    <3>1. /\ w \in Seq(Nat) /\ Len(w) = Len(printed) + Held
          /\ \A k \in 1 .. Len(w) : w[k] = IF k <= Len(printed) THEN printed[k] ELSE h[k - Len(printed)]
      BY <2>1, <2>2, <2>3, ConcatProperties
    <3> HIDE DEF w
    <3>2. ASSUME NEW k \in 1 .. Len(w)
          PROVE  w[k] = k
      <4>1. CASE k <= Len(printed)
        <5>1. k \in 1 .. Len(printed) /\ w[k] = printed[k]
          BY <2>2, <3>1, <4>1
        <5> QED BY <2>1, <5>1 DEF LinesNumbered
      <4>2. CASE ~(k <= Len(printed))
        <5>1. Held = 1 /\ k = Len(printed) + 1 /\ k - Len(printed) = 1
          BY <2>2, <3>1, <4>2
        <5> QED BY <2>3, <3>1, <4>2, <5>1
      <4> QED BY <4>1, <4>2
    <3> QED BY <3>1, <3>2
  <2> HIDE DEF w
  <2>5. /\ kept \in Seq(Nat) /\ Len(kept) = Len(printed) + Held + Len(queue)
        /\ \A k \in 1 .. Len(kept) : kept[k] = k
    <3>1. kept = w \o queue
      BY DEF w
    <3> HIDE DEF kept
    <3>2. /\ kept \in Seq(Nat) /\ Len(kept) = Len(w) + Len(queue)
          /\ \A k \in 1 .. Len(kept) : kept[k] = IF k <= Len(w) THEN w[k] ELSE queue[k - Len(w)]
      <4>1. w \in Seq(Nat) /\ queue \in Seq(Nat)
        BY <2>1, <2>4
      <4>2. w \o queue \in Seq(Nat) /\ Len(w \o queue) = Len(w) + Len(queue)
        BY <4>1, ConcatProperties
      <4>3. \A k \in 1 .. Len(w) + Len(queue) :
              (w \o queue)[k] = IF k <= Len(w) THEN w[k] ELSE queue[k - Len(w)]
        BY <4>1, ConcatProperties
      <4> QED BY <3>1, <4>2, <4>3
    <3>3. ASSUME NEW k \in 1 .. Len(kept)
          PROVE  kept[k] = k
      <4>1. CASE k <= Len(w)
        BY <2>2, <2>4, <3>2, <4>1
      <4>2. CASE ~(k <= Len(w))
        <5>1. k - Len(w) \in 1 .. Len(queue) /\ Len(w) \in Nat /\ k \in Nat
          BY <2>2, <2>4, <3>2, <4>2
        <5>2. queue[k - Len(w)] = Len(w) + (k - Len(w))
          BY <2>1, <2>4, <5>1 DEF LinesNumbered
        <5> QED BY <3>2, <4>2, <5>1, <5>2
      <4> QED BY <4>1, <4>2
    <3> QED BY <2>4, <3>2, <3>3
  <2>6. kept = [k \in 1 .. Len(kept) |-> k]
    <3> HIDE DEF kept
    <3>1. kept = [k \in 1 .. Len(kept) |-> kept[k]]
      BY <2>5
    <3> QED BY <2>5, <3>1
  <2>7. dropped = Len(kept) + 1 .. logged
    <3> HIDE DEF kept
    <3>1. CASE Drained
      BY <2>1, <2>2, <2>5, <3>1 DEF LinesCounted
    <3>2. CASE ~Drained
      <4>1. dropped = {} /\ Len(kept) = logged
        BY <2>1, <2>5, <3>2 DEF LinesCounted
      <4>2. logged + 1 .. logged = {}
        BY <2>2
      <4> QED BY <4>1, <4>2
    <3> QED BY <3>1, <3>2
  <2>8. at \in {"free pool", "invalid free"} => thread.pc = "exited" /\ queue = <<>>
    BY <2>1 DEF LinesCounted, Drained
  <2> QED BY <2>6, <2>7, <2>8 DEF LinesInOrder, h
<1> QED BY <1>1, LifeInvariance, PTL

-----------------------------------------------------------------------------
(* The service paths (module PathTable), for any number of paths and slots *)

InUse == {i \in PathSlots : paths[i] # NoPath}

PathInv ==
    /\ paths \in [PathSlots -> Paths \cup {NoPath}]
    /\ nb_paths \in 0 .. MaxPaths /\ newestFirst \in BOOLEAN
    /\ nb_paths >= Cardinality(InUse)
    /\ newestFirst =>
         /\ registered \in Seq(Paths) /\ Len(registered) = nb_paths
         /\ \A i \in PathSlots : paths[i] = IF i < nb_paths THEN registered[i + 1] ELSE NoPath

LEMMA InUseIs ==
  IsFiniteSet(InUse) /\ Cardinality(InUse) \in Nat
<1>1. IsFiniteSet(PathSlots)
  BY PathsAssumption, FS_Interval DEF PathSlots
<1>2. InUse \subseteq PathSlots
  BY DEF InUse
<1>3. IsFiniteSet(InUse)
  BY <1>1, <1>2, FS_Subset
<1> QED BY <1>3, FS_CardinalityType

\* One slot more is in use.
LEMMA RegisterKeeps ==
  ASSUME PathInv, NEW p \in Paths, Register(p)
  PROVE  PathInv'
<1>1. /\ nb_paths + 1 <= MaxPaths /\ paths' = [paths EXCEPT ![nb_paths] = p]
      /\ nb_paths' = nb_paths + 1 /\ registered' = Append(registered, p)
      /\ newestFirst' = newestFirst
  BY DEF Register
<1>2. /\ paths \in [PathSlots -> Paths \cup {NoPath}]
      /\ nb_paths \in 0 .. MaxPaths /\ newestFirst \in BOOLEAN
      /\ nb_paths >= Cardinality(InUse) /\ MaxPaths \in Nat /\ p # NoPath
  BY PathsAssumption DEF PathInv
<1>3. nb_paths \in PathSlots /\ nb_paths' \in 0 .. MaxPaths /\ nb_paths \in Nat
  BY <1>1, <1>2 DEF PathSlots
<1>4. /\ paths' \in [PathSlots -> Paths \cup {NoPath}] /\ paths'[nb_paths] = p
      /\ \A i \in PathSlots : i # nb_paths => paths'[i] = paths[i]
  BY <1>1, <1>2, <1>3
<1>5. nb_paths' >= Cardinality(InUse')
  <2>1. PICK U : U = InUse
    OBVIOUS
  <2>2. InUse' = U \cup {nb_paths}
    BY <1>2, <1>3, <1>4, <2>1 DEF InUse
  <2>3. IsFiniteSet(U) /\ Cardinality(U) \in Nat
    BY <2>1, InUseIs
  <2>4. Cardinality(U \cup {nb_paths}) <= Cardinality(U) + 1
    BY <2>3, FS_AddElement
  <2>5. Cardinality(InUse') <= Cardinality(U) + 1 /\ Cardinality(U \cup {nb_paths}) \in Nat
    BY <2>2, <2>3, <2>4, FS_AddElement, FS_CardinalityType
  <2> QED BY <1>1, <1>2, <1>3, <2>1, <2>2, <2>3, <2>5
<1>6. ASSUME newestFirst'
      PROVE  /\ registered' \in Seq(Paths) /\ Len(registered') = nb_paths'
             /\ \A i \in PathSlots :
                  paths'[i] = IF i < nb_paths' THEN registered'[i + 1] ELSE NoPath
  <2>1. /\ registered \in Seq(Paths) /\ Len(registered) = nb_paths
        /\ \A i \in PathSlots : paths[i] = IF i < nb_paths THEN registered[i + 1] ELSE NoPath
    BY <1>1, <1>6 DEF PathInv
  <2>2. /\ registered' \in Seq(Paths) /\ Len(registered') = nb_paths + 1
        /\ \A k \in 1 .. nb_paths : registered'[k] = registered[k]
        /\ registered'[nb_paths + 1] = p
    BY <1>1, <2>1, AppendProperties
  <2>3. ASSUME NEW i \in PathSlots
        PROVE  paths'[i] = IF i < nb_paths' THEN registered'[i + 1] ELSE NoPath
    <3>1. i \in Nat
      BY <1>2 DEF PathSlots
    <3>2. CASE i < nb_paths
      <4>1. i + 1 \in 1 .. nb_paths /\ i # nb_paths /\ i < nb_paths'
        BY <1>1, <1>3, <3>1, <3>2
      <4>2. registered'[i + 1] = registered[i + 1] /\ paths'[i] = registered[i + 1]
        BY <1>4, <2>1, <2>2, <3>2, <4>1
      <4> QED BY <4>1, <4>2
    <3>3. CASE i = nb_paths
      BY <1>1, <1>3, <1>4, <2>2, <3>3
    <3>4. CASE i > nb_paths
      <4>1. i # nb_paths /\ ~(i < nb_paths) /\ ~(i < nb_paths')
        BY <1>1, <1>3, <3>1, <3>4
      <4> QED BY <1>4, <2>1, <4>1
    <3> QED BY <1>3, <3>1, <3>2, <3>3, <3>4
  <2> QED BY <1>1, <2>2, <2>3
<1> QED BY <1>1, <1>2, <1>3, <1>4, <1>5, <1>6 DEF PathInv

\* One slot less is in use; if it is that of the newest path, the rest is as
\* if that had never come.
LEMMA UnregisterKeeps ==
  ASSUME PathInv, NEW p \in Paths, Unregister(p)
  PROVE  PathInv'
<1>1. PICK i \in PathSlots :
         /\ paths[i] = p /\ \A j \in 0 .. i - 1 : paths[j] # p
         /\ paths' = [paths EXCEPT ![i] = Cleared(p)]
         /\ newestFirst' = (newestFirst /\ i + 1 = Len(registered))
  BY DEF Unregister
<1>2. /\ nb_paths' = nb_paths - 1
      /\ registered' =
           LET k == CHOOSE k \in DOMAIN registered :
                       registered[k] = p /\ \A j \in 1 .. k - 1 : registered[j] # p
           IN  [j \in 1 .. Len(registered) - 1 |-> registered[IF j < k THEN j ELSE j + 1]]
  BY DEF Unregister
<1>3. /\ paths \in [PathSlots -> Paths \cup {NoPath}]
      /\ nb_paths \in 0 .. MaxPaths /\ newestFirst \in BOOLEAN
      /\ nb_paths >= Cardinality(InUse) /\ MaxPaths \in Nat /\ p # NoPath
  BY PathsAssumption DEF PathInv
<1>4. /\ paths' \in [PathSlots -> Paths \cup {NoPath}] /\ paths'[i] = NoPath
      /\ \A j \in PathSlots : j # i => paths'[j] = paths[j]
  BY <1>1, <1>3 DEF Cleared
<1>5. nb_paths' \in 0 .. MaxPaths /\ nb_paths' >= Cardinality(InUse')
  <2>1. PICK U : U = InUse
    OBVIOUS
  <2>2. InUse' = U \ {i} /\ i \in U
    BY <1>1, <1>3, <1>4, <2>1 DEF InUse
  <2>3. IsFiniteSet(U) /\ Cardinality(U) \in Nat
    BY <2>1, InUseIs
  <2>4. Cardinality(U \ {i}) = Cardinality(U) - 1
    BY <2>2, <2>3, FS_RemoveElement
  <2>5. Cardinality(U) # 0
    BY <2>2, <2>3, FS_EmptySet
  <2>6. nb_paths >= Cardinality(U) /\ Cardinality(InUse') = Cardinality(U) - 1
    BY <1>3, <2>1, <2>2, <2>4
  <2> QED BY <1>2, <1>3, <2>3, <2>5, <2>6
<1>6. newestFirst' \in BOOLEAN
  BY <1>1, <1>3
<1>7. ASSUME newestFirst'
      PROVE  /\ registered' \in Seq(Paths) /\ Len(registered') = nb_paths'
             /\ \A j \in PathSlots :
                  paths'[j] = IF j < nb_paths' THEN registered'[j + 1] ELSE NoPath
  <2>1. newestFirst /\ i + 1 = Len(registered)
    BY <1>1, <1>7
  <2>2. /\ registered \in Seq(Paths) /\ Len(registered) = nb_paths
        /\ \A j \in PathSlots : paths[j] = IF j < nb_paths THEN registered[j + 1] ELSE NoPath
    BY <2>1 DEF PathInv
  <2>3. i \in Nat /\ i + 1 = nb_paths /\ i < nb_paths /\ nb_paths' = i
    BY <1>2, <1>3, <2>1, <2>2 DEF PathSlots
  <2>4. registered[i + 1] = p /\ \A j \in 1 .. i : registered[j] # p
    <3>1. registered[i + 1] = p
      BY <1>1, <2>2, <2>3
    <3>2. ASSUME NEW j \in 1 .. i
          PROVE  registered[j] # p
      <4>1. j - 1 \in PathSlots /\ j - 1 < nb_paths /\ j - 1 \in 0 .. i - 1 /\ (j - 1) + 1 = j
        BY <1>3, <2>3 DEF PathSlots
      <4>2. paths[j - 1] # p /\ paths[j - 1] = registered[j]
        BY <1>1, <2>2, <4>1
      <4> QED BY <4>2
    <3> QED BY <3>1, <3>2
  <2> DEFINE k == CHOOSE k \in DOMAIN registered :
                     registered[k] = p /\ \A j \in 1 .. k - 1 : registered[j] # p
  <2>5. k = i + 1
    <3>1. i + 1 \in DOMAIN registered /\ (i + 1) - 1 = i
      BY <2>2, <2>3
    <3>2. k \in DOMAIN registered /\ registered[k] = p /\ \A j \in 1 .. k - 1 : registered[j] # p
      BY <2>4, <3>1
    <3> HIDE DEF k
    <3>3. k \in 1 .. i + 1
      BY <2>2, <2>3, <3>2
    <3>4. ~(k \in 1 .. i)
      BY <2>4, <3>2
    <3> QED BY <2>3, <3>3, <3>4
  <2>6. registered' = [j \in 1 .. i |-> registered[IF j < k THEN j ELSE j + 1]]
    <3>1. Len(registered) - 1 = i
      BY <2>1, <2>3
    <3> QED BY <1>2, <3>1
  <2> HIDE DEF k
  <2>7. \A j \in 1 .. i : registered'[j] = registered[j] /\ registered[j] \in Paths
    <3> SUFFICES ASSUME NEW j \in 1 .. i
                 PROVE  registered'[j] = registered[j] /\ registered[j] \in Paths
      OBVIOUS
    <3>1. j < k /\ j \in 1 .. Len(registered)
      BY <2>1, <2>3, <2>5
    <3>2. registered'[j] = registered[j]
      BY <2>6, <3>1
    <3> QED BY <2>2, <3>1, <3>2
  <2>8. registered' \in Seq(Paths) /\ Len(registered') = i
    <3>1. registered' \in [1 .. i -> Paths]
      BY <2>6, <2>7
    <3> QED BY <2>3, <3>1
  <2>9. ASSUME NEW j \in PathSlots
        PROVE  paths'[j] = IF j < nb_paths' THEN registered'[j + 1] ELSE NoPath
    <3>1. j \in Nat
      BY <1>3 DEF PathSlots
    <3>2. CASE j < i
      <4>1. j # i /\ j + 1 \in 1 .. i /\ j < nb_paths
        BY <2>3, <3>1, <3>2
      <4> QED BY <1>4, <2>2, <2>3, <2>7, <3>2, <4>1
    <3>3. CASE j = i
      BY <1>4, <2>3, <3>3
    <3>4. CASE j > i
      <4>1. j # i /\ ~(j < nb_paths) /\ ~(j < nb_paths')
        BY <2>3, <3>1, <3>4
      <4> QED BY <1>4, <2>2, <4>1
    <3> QED BY <2>3, <3>1, <3>2, <3>3, <3>4
  <2> QED BY <2>3, <2>8, <2>9
<1> QED BY <1>4, <1>5, <1>6, <1>7 DEF PathInv

LEMMA PathSame ==
  ASSUME PathInv, UNCHANGED pvars
  PROVE  PathInv'
<1>1. InUse' = InUse
  BY DEF pvars, InUse
<1> QED BY <1>1 DEF pvars, PathInv

LEMMA PathInit0 ==
  ASSUME PathInit
  PROVE  PathInv
<1>1. /\ paths = [i \in PathSlots |-> NoPath] /\ nb_paths = 0
      /\ registered = <<>> /\ newestFirst = TRUE
  BY DEF PathInit
<1>2. Cardinality(InUse) = 0
  <2>1. InUse = {}
    BY <1>1 DEF InUse
  <2> QED BY <2>1, FS_EmptySet
<1>3. 0 \in 0 .. MaxPaths /\ \A i \in PathSlots : ~(i < 0)
  BY PathsAssumption DEF PathSlots
<1>4. registered \in Seq(Paths) /\ Len(registered) = nb_paths
  BY <1>1
<1> QED BY <1>1, <1>2, <1>3, <1>4 DEF PathInv

\* Slots and what is registered agree while paths leave newest first, and the
\* count is never below the slots in use: register_path, unregister_path.
THEOREM PathInvariance == PathSpec => []PathInv
<1>1. PathInit => PathInv
  BY PathInit0
<1>2. PathInv /\ [PathNext]_pvars => PathInv'
  BY RegisterKeeps, UnregisterKeeps, PathSame DEF PathNext, Refused
<1> QED BY <1>1, <1>2, PTL DEF PathSpec

\* on_header_callback finds a path exactly when it is registered, for any
\* number of paths and slots, if they are unregistered newest first; nb_paths
\* does not wrap around in whatever order they are.
THEOREM PathsFound == PathSpec => []LookupExact
<1>1. PathInv => LookupExact
  <2> SUFFICES ASSUME PathInv
               PROVE  LookupExact
    OBVIOUS
  <2>1. nb_paths \in 0 .. MaxPaths /\ MaxPaths \in Nat /\ nb_paths >= Cardinality(InUse)
    BY PathsAssumption DEF PathInv
  <2>2. ASSUME newestFirst, NEW p \in Paths
        PROVE  PathFound(p) <=> \E k \in DOMAIN registered : registered[k] = p
    <3>1. /\ registered \in Seq(Paths) /\ Len(registered) = nb_paths
          /\ \A i \in PathSlots : paths[i] = IF i < nb_paths THEN registered[i + 1] ELSE NoPath
      BY <2>2 DEF PathInv
    <3>2. DOMAIN registered = 1 .. nb_paths
      BY <3>1
    <3>3. ASSUME NEW i \in 0 .. nb_paths - 1
          PROVE  i + 1 \in DOMAIN registered /\ paths[i] = registered[i + 1]
      <4>1. i \in PathSlots /\ i < nb_paths /\ i + 1 \in 1 .. nb_paths
        BY <2>1 DEF PathSlots
      <4> QED BY <3>1, <3>2, <4>1
    <3>4. ASSUME NEW k \in DOMAIN registered
          PROVE  k - 1 \in 0 .. nb_paths - 1 /\ paths[k - 1] = registered[k]
      <4>1. k - 1 \in 0 .. nb_paths - 1 /\ (k - 1) + 1 = k
        BY <2>1, <3>2
      <4> QED BY <3>3, <4>1
    <3> QED BY <3>3, <3>4 DEF PathFound
  <2>3. nb_paths >= Cardinality({i \in PathSlots : paths[i] # NoPath})
    BY <2>1 DEF InUse
  <2> QED BY <2>2, <2>3 DEF LookupExact
<1> QED BY <1>1, PathInvariance, PTL
=============================================================================
