----------------------------- MODULE HandleTable -----------------------------
(***************************************************************************)
(* Who may touch an epoll port of src/wepoll.c, and when it is freed: the   *)
(* table of handles (ts_tree), the reference lock in each port (reflock),   *)
(* and epoll_create, epoll_ctl, epoll_wait and epoll_close around them.     *)
(* What they do inside a port is module Wepoll.                             *)
(*                                                                          *)
(* A handle is the value the kernel gives a completion port (IOCP). Once    *)
(* the IOCP is closed the value may be given to another one. A keyed event  *)
(* is a rendezvous: NtReleaseKeyedEvent waits for NtWaitForKeyedEvent and   *)
(* the other way round.                                                     *)
(***************************************************************************)
EXTENDS Naturals, FiniteSets

CONSTANTS
    Threads,
    Ports,              \* the port_state_t objects ever allocated
    Handles,            \* the values the kernel may give
    None

ASSUME NoneAssumption    == None \notin Ports \cup Handles
ASSUME ThreadsAssumption == IsFiniteSet(Threads)

VARIABLES
    port,               \* the objects; refs and destroy are its reflock
    tree,               \* epoll__handle_tree
    iocp,               \* the kernel: which port's IOCP has a handle value
    th,                 \* where each thread is, with which port and handle, and
                        \* the port on whose IOCP it waits
    addFailed           \* history: ts_tree_add has returned -1

vars == <<port, tree, iocp, th, addFailed>>

Idle  == [pc |-> "idle", port |-> None, handle |-> None, on |-> None]
Fresh == [life |-> "none", handle |-> None, refs |-> 0, destroy |-> FALSE]

\* What a thread does after a reference was taken and before it is dropped.
Using   == {"ctl", "wait", "read", "waiting", "unref"}
Closing == {"port_close", "destroy", "await", "exchange", "delete"}

TypeOK ==
    /\ port \in [Ports -> [life : {"none", "open", "closed", "freed"},
                           handle : Handles \cup {None},
                           refs : 0 .. Cardinality(Threads), destroy : BOOLEAN]]
    /\ tree \in [Handles -> Ports \cup {None}]
    /\ iocp \in [Handles -> Ports \cup {None}]
    /\ th \in [Threads -> [pc : {"idle", "add", "signal"} \cup Using \cup Closing,
                           port : Ports \cup {None}, handle : Handles \cup {None},
                           on : Ports \cup {None}]]
    /\ addFailed \in BOOLEAN

Init ==
    /\ port = [p \in Ports |-> Fresh]
    /\ tree = [h \in Handles |-> None] /\ iocp = [h \in Handles |-> None]
    /\ th = [t \in Threads |-> Idle]
    /\ addFailed = FALSE

Goto(t, pc) == th' = [th EXCEPT ![t].pc = pc]
At(t, pc)   == th[t].pc = pc
Return(t)   == th' = [th EXCEPT ![t] = Idle]

-----------------------------------------------------------------------------
(* epoll_create: port_new, then ts_tree_add *)

PortNew(t, p, h) ==
    /\ At(t, "idle") /\ port[p].life = "none" /\ iocp[h] = None
    /\ port' = [port EXCEPT ![p] = [Fresh EXCEPT !.life = "open", !.handle = h]]
    /\ iocp' = [iocp EXCEPT ![h] = p]
    /\ th' = [th EXCEPT ![t] = [Idle EXCEPT !.pc = "add", !.port = p, !.handle = h]]
    /\ UNCHANGED <<tree, addFailed>>

TsTreeAdd(t) ==
    /\ At(t, "add")
    /\ IF tree[th[t].handle] = None
       THEN tree' = [tree EXCEPT ![th[t].handle] = th[t].port] /\ UNCHANGED addFailed
       ELSE addFailed' = TRUE /\ UNCHANGED tree
    /\ Return(t)
    /\ UNCHANGED <<port, iocp>>

-----------------------------------------------------------------------------
(* epoll_ctl and epoll_wait *)

\* ts_tree_find_and_ref, under the shared lock of the tree. (Both calls
\* return -1 when the handle is not there.)
FindAndRef(t, h, call) ==
    /\ At(t, "idle") /\ tree[h] # None
    /\ port' = [port EXCEPT ![tree[h]].refs = @ + 1]
    /\ th' = [th EXCEPT ![t] = [Idle EXCEPT !.pc = call, !.port = tree[h]]]
    /\ UNCHANGED <<tree, iocp, addFailed>>

\* port_ctl, one critical section of the port.
PortCtl(t) ==
    /\ At(t, "ctl")
    /\ Goto(t, "unref")
    /\ UNCHANGED <<port, tree, iocp, addFailed>>

\* port__poll leaves the critical section, then reads iocp_handle.
ReadHandle(t) ==
    /\ At(t, "wait")
    /\ th' = [th EXCEPT ![t].pc = "read", ![t].handle = port[th[t].port].handle]
    /\ UNCHANGED <<port, tree, iocp, addFailed>>

\* GetQueuedCompletionStatusEx: the value means whatever it means now.
EnterWait(t) ==
    /\ At(t, "read")
    /\ IF th[t].handle = None \/ iocp[th[t].handle] = None
       THEN Goto(t, "unref")
       ELSE th' = [th EXCEPT ![t].pc = "waiting", ![t].on = iocp[th[t].handle]]
    /\ UNCHANGED <<port, tree, iocp, addFailed>>

\* It returns when the IOCP is closed ...
Abandoned(t) ==
    /\ At(t, "waiting") /\ th[t].on = None
    /\ Goto(t, "unref")
    /\ UNCHANGED <<port, tree, iocp, addFailed>>

\* ... or with completions, or after the time-out; port_wait returns or polls
\* again.
Completed(t) ==
    /\ At(t, "waiting") /\ th[t].on # None
    /\ \E pc \in {"unref", "wait"} :
          th' = [th EXCEPT ![t].pc = pc, ![t].on = None]
    /\ UNCHANGED <<port, tree, iocp, addFailed>>

\* state == REFLOCK__DESTROY after the subtraction.
LastUser(p) == port[p].refs = 1 /\ port[p].destroy

\* reflock_unref
Unref(t) ==
    /\ At(t, "unref")
    /\ port' = [port EXCEPT ![th[t].port].refs = @ - 1]
    /\ IF LastUser(th[t].port) THEN Goto(t, "signal") ELSE Return(t)
    /\ UNCHANGED <<tree, iocp, addFailed>>

-----------------------------------------------------------------------------
(* epoll_close *)

\* Mutant: the handle is only found, and stays in the tree.
FindOnly(t, h) ==
    /\ At(t, "idle") /\ tree[h] # None
    /\ port' = [port EXCEPT ![tree[h]].refs = @ + 1]
    /\ th' = [th EXCEPT ![t] = [Idle EXCEPT !.pc = "port_close", !.port = tree[h]]]
    /\ UNCHANGED <<tree, iocp, addFailed>>

\* ts_tree_del_and_ref, under the exclusive lock. (A second close of the
\* handle returns -1.)
DelAndRef(t, h) ==
    /\ At(t, "idle") /\ tree[h] # None
    /\ port' = [port EXCEPT ![tree[h]].refs = @ + 1]
    /\ th' = [th EXCEPT ![t] = [Idle EXCEPT !.pc = "port_close", !.port = tree[h]]]
    /\ tree' = [tree EXCEPT ![h] = None]
    /\ UNCHANGED <<iocp, addFailed>>

\* Mutant: the IOCP is left open for now, so nobody wakes.
PortCloseLater(t) ==
    /\ At(t, "port_close")
    /\ port' = [port EXCEPT ![th[t].port].life = "closed", ![th[t].port].handle = None]
    /\ Goto(t, "destroy")
    /\ UNCHANGED <<tree, iocp, addFailed>>

\* port_close: CloseHandle wakes the waiters, and the value is free again.
PortClose(t) ==
    /\ At(t, "port_close")
    /\ LET p == th[t].port IN
         /\ iocp' = [iocp EXCEPT ![port[p].handle] = None]
         /\ port' = [port EXCEPT ![p].life = "closed", ![p].handle = None]
         /\ th' = [u \in Threads |->
                     IF u = t THEN [th[t] EXCEPT !.pc = "destroy"]
                     ELSE IF At(u, "waiting") /\ th[u].on = p THEN [th[u] EXCEPT !.on = None]
                     ELSE th[u]]
    /\ UNCHANGED <<tree, addFailed>>

\* Mutant: the reference count is not looked at.
DestroyAtOnce(p) == "exchange"

\* if (ref_count != 0) reflock__await_event
AwaitUsers(p) == IF port[p].refs = 1 THEN "exchange" ELSE "await"

\* reflock_unref_and_destroy, up to the wait.
UnrefAndDestroy(t) ==
    /\ At(t, "destroy")
    /\ port' = [port EXCEPT ![th[t].port].refs = @ - 1, ![th[t].port].destroy = TRUE]
    /\ Goto(t, AwaitUsers(th[t].port))
    /\ UNCHANGED <<tree, iocp, addFailed>>

\* The keyed event: t, the last user, meets u, who destroys the port.
Rendezvous(t, u) ==
    /\ At(t, "signal") /\ At(u, "await") /\ th[t].port = th[u].port
    /\ th' = [th EXCEPT ![t] = Idle, ![u].pc = "exchange"]
    /\ UNCHANGED <<port, tree, iocp, addFailed>>

\* InterlockedExchange(state, REFLOCK__POISON)
Exchange(t) ==
    /\ At(t, "exchange")
    /\ Goto(t, "delete")
    /\ UNCHANGED <<port, tree, iocp, addFailed>>

\* port_delete
PortDelete(t) ==
    /\ At(t, "delete")
    /\ port' = [port EXCEPT ![th[t].port].life = "freed"]
    /\ Return(t)
    /\ UNCHANGED <<tree, iocp, addFailed>>

-----------------------------------------------------------------------------

\* What a thread does once it has entered a call.
Step(t) ==
    \/ TsTreeAdd(t) \/ PortCtl(t) \/ ReadHandle(t) \/ EnterWait(t)
    \/ Abandoned(t) \/ Unref(t)
    \/ PortClose(t) \/ UnrefAndDestroy(t) \/ Exchange(t) \/ PortDelete(t)
    \/ \E u \in Threads : Rendezvous(t, u)

Call(t) ==
    \/ \E p \in Ports, h \in Handles : PortNew(t, p, h)
    \/ \E h \in Handles, call \in {"ctl", "wait"} : FindAndRef(t, h, call)
    \/ \E h \in Handles : DelAndRef(t, h)

\* Every port was used up and every thread is back: the bound of the model.
Done == (\A t \in Threads : At(t, "idle")) /\ UNCHANGED vars

Next ==
    \/ \E t \in Threads : Call(t) \/ Step(t) \/ Completed(t)
    \/ Done

\* Threads are scheduled. Nothing makes completions arrive, or callers call.
Spec == Init /\ [][Next]_vars /\ \A t \in Threads : WF_vars(Step(t))

-----------------------------------------------------------------------------

\* References counted by reflock are those held.
Holds(t, p) == th[t].port = p /\ th[t].pc \in Using \cup {"port_close", "destroy"}

RefsExact ==
    \A p \in Ports : port[p].refs = Cardinality({t \in Threads : Holds(t, p)})

\* A port is neither freed nor past its reference lock while a thread that
\* found it is still using it, whatever users and closers do at the same
\* time; one thread at most destroys it; and whoever finds it in the tree
\* finds it open (the asserts of reflock_ref, reflock_unref and
\* reflock_unref_and_destroy, wepoll.c:1558-1587).
RefsProtect ==
    /\ \A t \in Threads : th[t].pc \in Using \cup Closing =>
         port[th[t].port].life \in {"open", "closed"}
    /\ \A t, u \in Threads :
         th[t].pc \in {"exchange", "delete"} /\ u # t /\ th[u].port = th[t].port
            => th[u].pc \in {"idle", "add"}
    /\ \A h \in Handles : tree[h] # None =>
         port[tree[h]].life = "open" /\ ~port[tree[h]].destroy

\* "This should never happen" (wepoll.c:569): the kernel does not hand out a
\* value that is still in the tree, because epoll_close takes it out first.
HandleNotInTree == ~addFailed

\* A thread that waits on the IOCP of another port than its own: the value it
\* had read was closed and given out again before it could wait.
Strayed(t) == At(t, "waiting") /\ th[t].on \notin {th[t].port, None}

\* epoll_close returns: it waits for every user of the port, and closing the
\* IOCP makes them leave, except one that has strayed.
CloseReturns ==
    \A t \in Threads :
        th[t].pc \in Closing ~> (At(t, "idle") \/ \E u \in Threads : Strayed(u))
=============================================================================
