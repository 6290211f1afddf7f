------------------------------- MODULE Wepoll --------------------------------
(***************************************************************************)
(* One epoll port of src/wepoll.c, the epoll of the server on Windows:      *)
(* threads add, change and delete sockets and wait for events, while the    *)
(* kernel (AFD) watches sockets one poll request at a time and posts a      *)
(* completion packet to the port's IOCP for each request that ends. The     *)
(* state of the port is changed with its lock held only, so a critical      *)
(* section is one action; the lock is free while a thread waits in          *)
(* GetQueuedCompletionStatusEx and until it has taken the lock again.       *)
(*                                                                          *)
(* An event mask is a set of names: "in" and "out" stand for what may be    *)
(* asked for, "err" for EPOLLERR and EPOLLHUP. Who may still use the port   *)
(* when it is closed is module HandleTable: here port_delete waits for the  *)
(* threads that have a reference.                                           *)
(***************************************************************************)
EXTENDS Naturals, Sequences, FiniteSets

CONSTANTS
    Threads,
    Sockets,
    MayBeClosed,        \* the sockets the application may close in the set
    Objects,            \* the sock_state_t objects, 1 .. n
    MaxGroupSize,       \* POLL_GROUP__MAX_GROUP_SIZE
    MaxEvents,          \* maxevents of epoll_wait
    Masks,              \* the event masks an application asks for
    AfdMayFail          \* afd_poll, afd_cancel_poll may fail for want of resources

ASSUME ThreadsAssumption == IsFiniteSet(Threads)
ASSUME ObjectsAssumption == IsFiniteSet(Objects) /\ Objects = 1 .. Cardinality(Objects)
ASSUME SizesAssumption == MaxGroupSize \in Nat \ {0} /\ MaxEvents \in Nat \ {0}
ASSUME MasksAssumption == \A m \in Masks : m \subseteq {"in", "out", "oneshot"}
ASSUME FlagsAssumption == AfdMayFail \in BOOLEAN

VARIABLES
    sock,               \* the fields of each sock_state_t, and the result of its
                        \* poll request; `used` when allocated
    update, deleted,    \* sock_update_queue, sock_deleted_queue
    groups,             \* poll_group_queue, of groups [id, size]
    packets,            \* the kernel: objects whose completion is in the IOCP
    refused,            \* history: the last port__update_events failed
    active,             \* active_poll_count
    open,               \* the sockets the application has not closed
    phase,              \* "open" | "unlisted" | "closed" | "deleted" | "aborted"
    th                  \* where each thread is, and the packets in its hands

port == <<sock, update, deleted, groups, packets, refused>>
vars == <<sock, update, deleted, groups, packets, refused, active, open, phase, th>>

Known == {"in", "out", "err"}           \* SOCK__KNOWN_EPOLL_EVENTS
Unused == [used |-> FALSE, socket |-> 0, user |-> {}, pending |-> {},
           status |-> "idle", delete |-> FALSE, group |-> 0, io |-> {}]

\* Critical sections are written as functions of the port's state.
State == [sock |-> sock, update |-> update, deleted |-> deleted,
          groups |-> groups, packets |-> packets, refused |-> refused]

Becomes(s) ==
    /\ sock' = s.sock /\ update' = s.update /\ deleted' = s.deleted
    /\ groups' = s.groups /\ packets' = s.packets /\ refused' = s.refused

InQueue(q, o) == \E k \in DOMAIN q : q[k] = o

\* A queue without its k-th node, and without the node of o.
Without(q, k) == [i \in 1 .. Len(q) - 1 |-> q[IF i < k THEN i ELSE i + 1]]
Drop(q, o) ==
    IF InQueue(q, o) THEN Without(q, CHOOSE k \in DOMAIN q : q[k] = o) ELSE q

TypeOK ==
    /\ sock \in [Objects -> [used : BOOLEAN, socket : Sockets \cup {0},
                             user : SUBSET (Known \cup {"oneshot"}), pending : SUBSET (Known \cup {"oneshot"}),
                             status : {"idle", "pending", "cancelled"}, delete : BOOLEAN,
                             group : Nat, io : SUBSET (Known \cup {"pending", "cancelled", "closed"})]]
    /\ update \in Seq(Objects) /\ deleted \in Seq(Objects)
    /\ packets \subseteq Objects /\ refused \in BOOLEAN /\ open \subseteq Sockets
    /\ active \in 0 .. Cardinality(Threads)
    /\ phase \in {"open", "unlisted", "closed", "deleted", "aborted"}
    /\ th \in [Threads -> [pc : {"idle", "entering", "polling", "back"},
                           hand : SUBSET Objects, fails : BOOLEAN]]

\* port_new
Init ==
    /\ sock = [o \in Objects |-> Unused]
    /\ update = <<>> /\ deleted = <<>> /\ groups = <<>>
    /\ packets = {} /\ refused = FALSE /\ active = 0 /\ open = Sockets /\ phase = "open"
    /\ th = [t \in Threads |-> [pc |-> "idle", hand |-> {}, fails |-> FALSE]]

-----------------------------------------------------------------------------
(* Queues. One node per socket serves both queues, so queue_is_enqueued is  *)
(* true of a socket in either.                                              *)

Enqueued(s, o) == InQueue(s.update, o) \/ InQueue(s.deleted, o)

RequestUpdate(s, o) == IF Enqueued(s, o) THEN s ELSE [s EXCEPT !.update = Append(@, o)]
AddDeleted(s, o)    == IF Enqueued(s, o) THEN s ELSE [s EXCEPT !.deleted = Append(@, o)]
Dequeue(s, o)       == [s EXCEPT !.update = Drop(@, o), !.deleted = Drop(@, o)]

-----------------------------------------------------------------------------
(* Poll groups: full ones at the start of the queue, others at the end      *)

LastGroup(s) == s.groups[Len(s.groups)]
NeedsGroup(s) == s.groups # <<>> => LastGroup(s).size >= MaxGroupSize

PlaceOf(s, id) == CHOOSE k \in DOMAIN s.groups : s.groups[k].id = id
Others(s, id)  == Without(s.groups, PlaceOf(s, id))
SizeOf(s, id)  == s.groups[PlaceOf(s, id)].size

\* poll_group_acquire: the state, and the group one larger.
Acquire(s) ==
    LET new == NeedsGroup(s)
        id  == IF new THEN Len(s.groups) + 1 ELSE LastGroup(s).id
        g   == [id |-> id, size |-> 1 + (IF new THEN 0 ELSE LastGroup(s).size)]
        old == IF new THEN s.groups ELSE Others(s, id)
    IN  [id |-> id,
         s  |-> [s EXCEPT !.groups = IF g.size = MaxGroupSize THEN <<g>> \o old
                                     ELSE Append(old, g)]]

\* Mutant: a released group stays where it is.
ReleaseInPlace(s, id) ==
    [s EXCEPT !.groups = [k \in DOMAIN s.groups |->
        IF s.groups[k].id = id THEN [id |-> id, size |-> s.groups[k].size - 1]
        ELSE s.groups[k]]]

\* poll_group_release
Release(s, id) ==
    [s EXCEPT !.groups = Append(Others(s, id), [id |-> id, size |-> SizeOf(s, id) - 1])]

-----------------------------------------------------------------------------
(* Sockets *)

\* The request of an object ends: a packet, unless nobody can receive it.
Complete(s, o, result) ==
    [s EXCEPT !.sock[o].io = result,
              !.packets = IF phase = "closed" THEN @ ELSE @ \cup {o}]

\* sock__cancel_poll succeeds. A request that has ended already is left alone ...
CancelPoll(s, o) ==
    LET s1 == IF s.sock[o].io = {"pending"} THEN Complete(s, o, {"cancelled"}) ELSE s
    IN  [s1 EXCEPT !.sock[o].status = "cancelled", !.sock[o].pending = {}]

\* ... and NtCancelIoFileEx may fail only for one that has not.
MayNotCancel(s, o) ==
    AfdMayFail /\ s.sock[o].status = "pending" /\ s.sock[o].io = {"pending"}

\* Mutant: a deleted object is freed at once.
FreeNow(s, o) == TRUE

\* The kernel has no request of the object.
MayFree(s, o) == s.sock[o].status = "idle"

\* The object is deleted. Nothing reads its masks again, so the model forgets them.
Mark(s, o) ==
    [s EXCEPT !.sock[o] = [@ EXCEPT !.delete = TRUE, !.user = {}, !.pending = {}]]

\* sock__delete, the request cancelled if there is one. (When the cancel fails and
\* the object is freed by force, nothing differs that the port can see.)
Delete(s, o, force) ==
    LET s1 == IF s.sock[o].delete THEN s
              ELSE Mark(Dequeue(IF s.sock[o].status = "pending" THEN CancelPoll(s, o) ELSE s, o), o)
    IN  IF force \/ MayFree(s1, o)
        THEN [Release(Dequeue(s1, o), s1.sock[o].group) EXCEPT !.sock[o] = Unused]
        ELSE AddDeleted(s1, o)

\* The same, not forced, where the cancel fails: the result of sock__cancel_poll
\* is ignored, and the object waits for the kernel as long as that takes.
DeleteUncancelled(s, o) ==
    AddDeleted(Mark(Dequeue(s, o), o), o)

\* events & SOCK__KNOWN_EPOLL_EVENTS & ~pending_events
Uncovered(x) == (x.user \cap Known) \ x.pending # {}

\* sock_set_event; EPOLLERR and EPOLLHUP are always asked for.
SetEvent(s, o, mask) ==
    LET s1 == [s EXCEPT !.sock[o].user = mask \cup {"err"}]
    IN  IF Uncovered(s1.sock[o]) THEN RequestUpdate(s1, o) ELSE s1

\* sock_update: the states it may lead to, each with its return value.
Ok(s)    == [s |-> [s EXCEPT !.refused = FALSE], ok |-> TRUE]
Error(s) == [s |-> [s EXCEPT !.refused = TRUE], ok |-> FALSE]

SockUpdate(s, o) ==
    LET x == s.sock[o]
        submitted == [s EXCEPT !.sock[o].io = {"pending"}, !.sock[o].status = "pending",
                               !.sock[o].pending = x.user]
    IN  CASE x.status = "pending" /\ ~Uncovered(x) -> {Ok(Dequeue(s, o))}
          [] x.status = "pending" /\ Uncovered(x)  ->
               {Ok(Dequeue(CancelPoll(s, o), o))}
                 \cup (IF MayNotCancel(s, o) THEN {Error(s)} ELSE {})
          [] x.status = "cancelled"                -> {Ok(Dequeue(s, o))}
          [] x.status = "idle" /\ x.socket \notin open -> {Ok(Delete(s, o, FALSE))}
          [] x.status = "idle" /\ x.socket \in open ->
               {Ok(Dequeue(submitted, o))} \cup (IF AfdMayFail THEN {Error(s)} ELSE {})

\* port__update_events: from the head of the queue until one fails.
UpdateEvents(s) ==
    LET after[n \in 0 .. Len(s.update)] ==
          IF n = 0 THEN {Ok(s)}
          ELSE UNION {IF r.ok THEN SockUpdate(r.s, Head(r.s.update)) ELSE {r} : r \in after[n - 1]}
    IN  after[Len(s.update)]

\* Mutant: nothing is updated for those who poll already.
NotUpdated(s, polling) == {[s |-> s, ok |-> TRUE]}

\* port__update_events_if_polling; its callers ignore a failure.
UpdateIfPolling(s, polling) == IF polling > 0 THEN UpdateEvents(s) ELSE {[s |-> s, ok |-> TRUE]}

\* sock__afd_events_to_epoll_events: a failed connect is reported as all.
\* (A request that fails is reported as EPOLLERR, which its user has as well.)
EpollEvents(afd) == IF "err" \in afd THEN Known ELSE afd

\* sock_feed_event: the state, and how many events it reports.
Feed(s, o) ==
    LET x  == s.sock[o]
        s1 == [s EXCEPT !.sock[o].status = "idle", !.sock[o].pending = {}, !.sock[o].io = {}]
        ev == x.user \cap (IF x.io = {"cancelled"} THEN {} ELSE EpollEvents(x.io))
        s2 == RequestUpdate(s1, o)
    IN  IF x.delete \/ x.io = {"closed"} THEN [s |-> Delete(s1, o, FALSE), n |-> 0]
        ELSE IF ev = {} THEN [s |-> s2, n |-> 0]
        ELSE [s |-> IF "oneshot" \in x.user THEN [s2 EXCEPT !.sock[o].user = {}] ELSE s2,
              n |-> 1]

\* port__feed_events
FeedEvents(s, hand) ==
    LET upTo[o \in {0} \cup Objects] ==
          IF o = 0 THEN [s |-> s, n |-> 0]
          ELSE IF o \notin hand THEN upTo[o - 1]
          ELSE LET f == Feed(upTo[o - 1].s, o) IN [s |-> f.s, n |-> upTo[o - 1].n + f.n]
    IN  upTo[Cardinality(Objects)]

-----------------------------------------------------------------------------
(* epoll_ctl *)

Goto(t, pc) == th' = [th EXCEPT ![t] = [pc |-> pc, hand |-> {}, fails |-> FALSE]]

\* The port is found in the tree and referenced; its lock not yet taken.
EnterPort(t) ==
    /\ th[t].pc = "idle" /\ phase = "open"
    /\ Goto(t, "entering")
    /\ UNCHANGED <<port, active, open, phase>>

\* May this thread take the lock now? (A port being closed can be entered by
\* those who found it before.)
Inside(t) == th[t].pc = "entering" /\ phase \in {"open", "unlisted", "closed"}

Registered(o, x) == sock[o].used /\ ~sock[o].delete /\ sock[o].socket = x

\* sock_new: the state, and whether the socket could be registered.
NewSock(s, o, x) ==
    LET a == Acquire(s)
    IN  IF \E p \in Objects : Registered(p, x)
        THEN [s |-> Release(a.s, a.id), ok |-> FALSE]
        ELSE [s |-> [a.s EXCEPT !.sock[o] = [Unused EXCEPT !.used = TRUE, !.socket = x,
                                                           !.group = a.id]],
              ok |-> TRUE]

\* port__ctl_add
CtlAdd(t, x, mask) ==
    /\ Inside(t) /\ x \in open
    /\ phase = "closed" => ~NeedsGroup(State)
    /\ \E o \in Objects :
         /\ ~sock[o].used /\ \A p \in 1 .. o - 1 : sock[p].used
         /\ \E n \in {NewSock(State, o, x)} :
              \E r \in (IF n.ok THEN UpdateIfPolling(SetEvent(n.s, o, mask), active) ELSE {n}) :
                   Becomes(r.s)
    /\ Goto(t, "idle")
    /\ UNCHANGED <<active, open, phase>>

\* The same where a poll group is needed and the IOCP is closed: the assert in
\* port_get_iocp_handle fails.
CtlAddAsserts(t) ==
    /\ Inside(t) /\ open # {}
    /\ phase = "closed" /\ NeedsGroup(State)
    /\ phase' = "aborted"
    /\ UNCHANGED <<port, active, open, th>>

CtlMod(t, x, mask) ==
    /\ Inside(t)
    /\ \E o \in Objects :
         /\ Registered(o, x)
         /\ \E r \in UpdateIfPolling(SetEvent(State, o, mask), active) : Becomes(r.s)
    /\ Goto(t, "idle")
    /\ UNCHANGED <<active, open, phase>>

CtlDel(t, x) ==
    /\ Inside(t)
    /\ \E o \in Objects :
         /\ Registered(o, x)
         /\ \/ Becomes(Delete(State, o, FALSE))
            \/ MayNotCancel(State, o) /\ Becomes(DeleteUncancelled(State, o))
    /\ Goto(t, "idle")
    /\ UNCHANGED <<active, open, phase>>

\* The socket is closed (ADD) or not registered (MOD, DEL), or memory is short.
CtlFails(t) ==
    /\ Inside(t)
    /\ Goto(t, "idle")
    /\ UNCHANGED <<port, active, open, phase>>

-----------------------------------------------------------------------------
(* epoll_wait *)

\* port__poll from state s with `others` threads polling: on success this one
\* joins them, else port_wait returns -1.
Poll(t, s, others) ==
    \E r \in UpdateEvents(s) :
        IF r.ok THEN /\ Becomes(r.s) /\ active' = others + 1
                     /\ Goto(t, "polling")
        ELSE \E q \in UpdateIfPolling(r.s, others) :
             /\ Becomes(q.s) /\ active' = others
             /\ Goto(t, "idle")

Wait(t) ==
    /\ Inside(t)
    /\ Poll(t, State, active)
    /\ UNCHANGED <<open, phase>>

\* GetQueuedCompletionStatusEx returns with packets ...
Dequeued(t) ==
    /\ th[t].pc = "polling" /\ phase # "closed"
    /\ \E hand \in SUBSET packets :
         /\ hand # {} /\ Cardinality(hand) <= MaxEvents
         /\ packets' = packets \ hand
         /\ th' = [th EXCEPT ![t] = [pc |-> "back", hand |-> hand, fails |-> FALSE]]
    /\ UNCHANGED <<sock, update, deleted, groups, refused, active, open, phase>>

\* ... or after the time-out, or because the IOCP was closed.
TimedOut(t) ==
    /\ th[t].pc = "polling"
    /\ th' = [th EXCEPT ![t] = [pc |-> "back", hand |-> {}, fails |-> TRUE]]
    /\ UNCHANGED <<port, active, open, phase>>

\* The lock is taken again, and port_wait returns ...
WaitReturns(t) ==
    /\ th[t].pc = "back"
    /\ active' = active - 1
    /\ LET f == FeedEvents(State, th[t].hand)
       IN  \E r \in UpdateIfPolling(f.s, active - 1) : Becomes(r.s)
    /\ Goto(t, "idle")
    /\ UNCHANGED <<open, phase>>

\* ... or, when the packets held nothing to report, polls again.
PollsAgain(t) ==
    /\ th[t].pc = "back" /\ ~th[t].fails
    /\ LET f == FeedEvents(State, th[t].hand)
       IN  f.n = 0 /\ Poll(t, f.s, active - 1)
    /\ UNCHANGED <<open, phase>>

-----------------------------------------------------------------------------
(* epoll_close *)

\* ts_tree_del_and_ref: nobody finds the port from now on.
Unlist ==
    /\ phase = "open"
    /\ phase' = "unlisted"
    /\ UNCHANGED <<port, active, open, th>>

\* port_close: the IOCP is gone, with the packets in it.
PortClose ==
    /\ phase = "unlisted"
    /\ phase' = "closed" /\ packets' = {}
    /\ UNCHANGED <<sock, update, deleted, groups, refused, active, open, th>>

\* port_delete, when the last reference is dropped.
PortDelete ==
    /\ phase = "closed" /\ \A t \in Threads : th[t].pc = "idle"
    /\ phase' = "deleted"
    /\ LET upTo[o \in {0} \cup Objects] ==
             IF o = 0 THEN State
             ELSE IF sock[o].used THEN Delete(upTo[o - 1], o, TRUE) ELSE upTo[o - 1]
       IN  Becomes(upTo[Cardinality(Objects)])
    /\ UNCHANGED <<active, open, th>>

-----------------------------------------------------------------------------
(* The kernel and the application *)

\* A request ends: one of the events it watches has happened, or it fails.
SocketReady(o) ==
    /\ sock[o].io = {"pending"}
    /\ \E e \in (sock[o].pending \cap Known) \cup {"err"} :
          Becomes(Complete(State, o, {e}))
    /\ UNCHANGED <<active, open, phase, th>>

\* closesocket: requests on the socket end, later ones are refused.
CloseSocket(x) ==
    /\ x \in open \cap MayBeClosed
    /\ open' = open \ {x}
    /\ LET hit == {o \in Objects : sock[o].socket = x /\ sock[o].io = {"pending"}}
       IN  Becomes([State EXCEPT
               !.sock = [o \in Objects |-> IF o \in hit THEN [sock[o] EXCEPT !.io = {"closed"}]
                                          ELSE sock[o]],
               !.packets = IF phase = "closed" THEN @ ELSE @ \cup hit])
    /\ UNCHANGED <<active, phase, th>>

Over == phase \in {"deleted", "aborted"} /\ UNCHANGED vars

Alive == phase \in {"open", "unlisted", "closed"}

Next ==
    \/ /\ Alive
       /\ \/ \E t \in Threads :
               \/ EnterPort(t) \/ Wait(t) \/ Dequeued(t) \/ TimedOut(t)
               \/ WaitReturns(t) \/ PollsAgain(t) \/ CtlAddAsserts(t) \/ CtlFails(t)
               \/ \E x \in Sockets : CtlDel(t, x)
               \/ \E x \in Sockets, m \in Masks : CtlAdd(t, x, m) \/ CtlMod(t, x, m)
          \/ Unlist \/ PortClose \/ PortDelete
          \/ \E o \in Objects : SocketReady(o)
          \/ \E x \in Sockets : CloseSocket(x)
    \/ Over

Spec == Init /\ [][Next]_vars

-----------------------------------------------------------------------------

\* The completion of an object's request is on its way to a thread.
OnItsWay(o) == o \in packets \/ \E t \in Threads : o \in th[t].hand

\* No event gets lost: whoever adds, changes or deletes sockets, and whatever
\* completes meanwhile, a socket of the set is watched by the kernel for all
\* its user asks, or its completion is on its way to a thread, or it waits in
\* the update queue; and while a thread polls nothing waits in that queue,
\* unless the kernel has refused a request.
Watched ==
    phase \in {"open", "unlisted"} =>
      /\ \A o \in Objects : sock[o].used /\ ~sock[o].delete =>
           \/ InQueue(update, o)
           \/ sock[o].io = {"pending"} /\ sock[o].status = "pending" /\ ~Uncovered(sock[o])
           \/ OnItsWay(o)
      /\ active > 0 /\ ~refused => update = <<>>

\* An object lives exactly as long as it is needed: a completion never refers
\* to one that was freed, it is in one place, a deleted object waits in the
\* deleted queue for its completion, and port_delete leaves none behind (the
\* asserts at wepoll.c:980, 1019, 1159 and 1773).
ObjectsLive ==
    /\ \A o \in Objects : sock[o].io # {} \/ OnItsWay(o) => sock[o].used
    /\ \A t, u \in Threads : th[t].hand \cap packets = {} /\ (t # u => th[t].hand \cap th[u].hand = {})
    /\ \A o \in Objects : sock[o].used /\ sock[o].delete =>
         InQueue(deleted, o) /\ ~InQueue(update, o) /\ sock[o].status # "idle"
    /\ \A o \in Objects : InQueue(update, o) => sock[o].used /\ ~sock[o].delete
    /\ \A k \in DOMAIN groups : groups[k].size =
         Cardinality({o \in Objects : sock[o].used /\ sock[o].group = groups[k].id})
    /\ phase = "deleted" => \A o \in Objects : sock[o] = Unused

\* As few poll groups as possible: a full group is never in the way of one
\* with room, so that a group is created only when all are full.
GroupsPacked ==
    /\ \A j, k \in DOMAIN groups : j < k /\ groups[k].size = MaxGroupSize
                                     => groups[j].size = MaxGroupSize
    /\ \A k \in DOMAIN groups : groups[k].size <= MaxGroupSize

\* assert(port_state->iocp_handle != NULL), wepoll.c:1445
NoAssertFails == phase # "aborted"
=============================================================================
