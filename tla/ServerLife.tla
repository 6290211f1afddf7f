----------------------------- MODULE ServerLife ------------------------------
(***************************************************************************)
(* The life of a server beside its poll loop (which is module Server):      *)
(* ezgrpc2_server_new opens up to two listening sockets step by step, with  *)
(* one way out when any step fails; ezgrpc2_server_log hands lines to a     *)
(* thread pool of one thread (src/thpool.c), which writes them; and         *)
(* ezgrpc2_server_free takes everything down, on failure as well.           *)
(*                                                                          *)
(* Its names are not those of Server or of the containers, so that one      *)
(* module may extend both.                                                  *)
(* The mutex of the pool is held within one action. A line is known by the  *)
(* order in which it was logged.                                            *)
(***************************************************************************)
EXTENDS Naturals, Sequences

CONSTANTS
    Configured,         \* the addresses given to ezgrpc2_server_new
    MaxLines            \* bound: lines logged

ASSUME ConfiguredAssumption == Configured \in SUBSET {"ipv4", "ipv6"} \ {{}}
ASSUME LinesAssumption      == MaxLines \in Nat

VARIABLES
    at,                 \* where the thread of the server is
    step,               \* the steps of opening done for the present address
    socket,             \* the two listening sockets
    descriptors,        \* server->fds: "null", or allocated, with the sockets
    logged,             \* lines logged so far
    queue, stop, live,  \* the fields of the thread pool
    thread,             \* the logger thread, and the line it holds (0: none)
    printed, dropped    \* lines logger wrote, lines log_free freed unwritten

server   == <<at, step, socket, descriptors>>
pool     == <<queue, stop, live>>
lifeVars == <<at, step, socket, descriptors, logged, queue, stop, live, thread, printed, dropped>>

\* What is done to open a socket, in this order; each step may fail.
Steps(address) ==
    IF address = "ipv4"
    THEN <<"socket", "reuseaddr", "bind", "listen", "nonblock">>
    ELSE <<"inet_pton", "socket", "reuseaddr", "v6only", "bind", "listen", "nonblock">>

\* After the addresses are checked; the thread has been created by thpool_init
\* but may not have started.
LifeInit ==
    /\ at = "thpool_init" /\ step = 0
    /\ socket = [a \in {"ipv4", "ipv6"} |-> "none"]
    /\ descriptors = "null" /\ logged = 0
    /\ queue = <<>> /\ stop = FALSE /\ live = 0
    /\ thread = [pc |-> "created", line |-> 0]
    /\ printed = <<>> /\ dropped = {}

-----------------------------------------------------------------------------
(* The pool *)

\* ezgrpc2_server_log and thpool_add_task, with its broadcast.
AddTask == queue' = Append(queue, logged + 1) /\ logged' = logged + 1

Woken == IF thread.pc = "waiting" THEN [thread EXCEPT !.pc = "awake"] ELSE thread

Log == AddTask /\ thread' = Woken /\ UNCHANGED <<stop, live, printed, dropped>>

WorkerStarts ==
    /\ thread.pc = "created"
    /\ live' = live + 1
    /\ thread' = [thread EXCEPT !.pc = "awake"]
    /\ UNCHANGED <<server, logged, queue, stop, printed, dropped>>

WorkerWaits ==
    /\ thread.pc = "awake" /\ ~stop /\ queue = <<>>
    /\ thread' = [thread EXCEPT !.pc = "waiting"]
    /\ UNCHANGED <<server, logged, pool, printed, dropped>>

\* pthread_cond_wait may return for no reason.
SpuriousWakeup ==
    /\ thread.pc = "waiting"
    /\ thread' = [thread EXCEPT !.pc = "awake"]
    /\ UNCHANGED <<server, logged, pool, printed, dropped>>

WorkerTakes ==
    /\ thread.pc = "awake" /\ ~stop /\ queue # <<>>
    /\ thread' = [pc |-> "logger", line |-> Head(queue)]
    /\ queue' = Tail(queue)
    /\ UNCHANGED <<server, logged, stop, live, printed, dropped>>

\* logger, which frees the line; then the task is freed.
WorkerWrites ==
    /\ thread.pc = "logger"
    /\ printed' = Append(printed, thread.line)
    /\ thread' = [pc |-> "awake", line |-> 0]
    /\ UNCHANGED <<server, logged, pool, dropped>>

WorkerExits ==
    /\ thread.pc = "awake" /\ stop
    /\ live' = live - 1
    /\ thread' = [thread EXCEPT !.pc = "exited"]
    /\ UNCHANGED <<server, logged, queue, stop, printed, dropped>>

-----------------------------------------------------------------------------
(* ezgrpc2_server_new *)

NextAddress(a) == IF a = "ipv4" /\ "ipv6" \in Configured THEN "ipv6" ELSE "tables"

\* while (pool->live != workers);
InitReturns ==
    /\ at = "thpool_init" /\ live = 1
    /\ at' = IF "ipv4" \in Configured THEN "ipv4" ELSE "ipv6"
    /\ UNCHANGED <<step, socket, descriptors, logged, pool, thread, printed, dropped>>

\* The next step of opening succeeds; the last one logs a line.
OpenStep(a) ==
    /\ at = a /\ step < Len(Steps(a))
    /\ socket' = [socket EXCEPT ![a] = IF Steps(a)[step + 1] = "socket" THEN "open" ELSE @]
    /\ IF step + 1 = Len(Steps(a))
       THEN at' = NextAddress(a) /\ step' = 0 /\ Log
       ELSE step' = step + 1 /\ UNCHANGED <<at, logged, pool, thread, printed, dropped>>
    /\ UNCHANGED descriptors

\* It fails: goto err. Only the failure of makenonblock is logged, and that
\* only if logging_level has errors.
OpenFails(a) ==
    /\ at = a
    /\ at' = "err"
    /\ \/ Steps(a)[step + 1] = "nonblock" /\ Log
       \/ UNCHANGED <<logged, pool, thread, printed, dropped>>
    /\ UNCHANGED <<step, socket, descriptors>>

\* calloc of the descriptors, which keep the two sockets; may fail.
MakeTables ==
    /\ at = "tables"
    /\ \/ at' = "serving" /\ descriptors' = "listening"
       \/ at' = "err" /\ UNCHANGED descriptors
    /\ UNCHANGED <<step, socket, logged, pool, thread, printed, dropped>>

\* Any call into the server may log.
Serve ==
    /\ at = "serving" /\ logged < MaxLines
    /\ Log
    /\ UNCHANGED server

-----------------------------------------------------------------------------
(* ezgrpc2_server_free *)

\* The sockets are closed by way of fds. After a failure fds is NULL, and a
\* socket that was opened stays open.
BeginFree ==
    /\ at \in {"serving", "err"}
    /\ at' = "thpool_free"
    /\ socket' = [a \in DOMAIN socket |->
          IF descriptors # "null" /\ socket[a] = "open" THEN "closed" ELSE socket[a]]
    /\ UNCHANGED <<step, descriptors, logged, pool, thread, printed, dropped>>

\* thpool_free: stop, broadcast ...
Stop ==
    /\ at = "thpool_free"
    /\ at' = "join" /\ stop' = TRUE /\ thread' = Woken
    /\ UNCHANGED <<step, socket, descriptors, logged, queue, live, printed, dropped>>

\* Mutant: the thread is not waited for.
NoJoin == TRUE

Joined == thread.pc = "exited"

\* ... join, and the clean-up of what is queued, log_free ...
Drain ==
    /\ at = "join" /\ Joined
    /\ dropped' = dropped \cup {queue[k] : k \in DOMAIN queue}
    /\ queue' = <<>>
    /\ at' = "free pool"
    /\ UNCHANGED <<step, socket, descriptors, logged, stop, live, thread, printed>>

\* ... and free(pool). But this pool is a member of the server: not a pointer
\* that malloc has returned.
FreePool ==
    /\ at = "free pool"
    /\ at' = "invalid free"
    /\ UNCHANGED <<step, socket, descriptors, logged, pool, thread, printed, dropped>>

Over == at = "invalid free" /\ UNCHANGED lifeVars

LifeNext ==
    \/ WorkerStarts \/ WorkerWaits \/ SpuriousWakeup \/ WorkerTakes
    \/ WorkerWrites \/ WorkerExits
    \/ InitReturns \/ MakeTables \/ Serve
    \/ \E a \in {"ipv4", "ipv6"} : OpenStep(a) \/ OpenFails(a)
    \/ BeginFree \/ Stop \/ Drain \/ FreePool
    \/ Over

LifeSpec == LifeInit /\ [][LifeNext]_lifeVars

-----------------------------------------------------------------------------

\* Every line logged is in one place: written, in the order of logging; or in
\* the hands of the thread; or queued, in order; or dropped when the server
\* went down, and then all lines after it were dropped too. Once the pool is
\* to be freed the thread is gone and no line is left.
LinesInOrder ==
    LET kept == printed \o (IF thread.line = 0 THEN <<>> ELSE <<thread.line>>) \o queue
    IN  /\ kept = [k \in 1 .. Len(kept) |-> k]
        /\ dropped = Len(kept) + 1 .. logged
        /\ at \in {"free pool", "invalid free"} => thread.pc = "exited" /\ queue = <<>>

\* What README.md:143-145 promises to be called "when you're done using the
\* server" frees only what malloc has returned.
NoInvalidFree == at # "invalid free"
=============================================================================
