------------------------------- MODULE Pthpool -------------------------------
(***************************************************************************)
(* The pollable thread pool, src/ezgrpc2_pthpool.c: NbThreads workers share *)
(* a queue and a list of finished tasks under one mutex and one condition   *)
(* variable; an owner adds tasks, polls for finished ones, and finally      *)
(* stops, joins and frees.                                                  *)
(*                                                                          *)
(* Every access to the shared state is made with the mutex held (the one    *)
(* exception is the read of `live` in ezgrpc2_pthpool_new), so each         *)
(* critical section is one action; what runs outside the mutex (a task's    *)
(* function, the joins, the clean-up) is made of actions of its own.        *)
(***************************************************************************)
EXTENDS Naturals, Sequences, FiniteSets

CONSTANTS
    NbThreads,          \* pool->nb_threads
    Tasks,              \* identities of the task_t objects ever allocated
    Timeouts,           \* values given as `timeout`; 0 means none
    MaxTime,            \* bound on time(NULL)
    CreateMayFail,      \* pthread_create may fail
    StopFirst,          \* the owner may call stop_and_join before free
    NoTask              \* a worker's `task == NULL`

ASSUME NbThreadsAssumption == NbThreads \in Nat \ {0}
ASSUME TimeoutsAssumption  == Timeouts \subseteq Nat /\ MaxTime \in Nat
ASSUME FlagsAssumption     == CreateMayFail \in BOOLEAN /\ StopFirst \in BOOLEAN
ASSUME NoTaskAssumption    == NoTask \notin Tasks

Workers == 0 .. NbThreads - 1

VARIABLES
    queue, finished,    \* pool->queue, pool->finished
    running, live,      \* pool->running, pool->live
    stop,               \* pool->stop
    pc,                 \* where each worker thread is
    held,               \* each worker's local `task`
    task,               \* the fields of each task_t
    results,            \* the list the owner passes to poll
    owner,              \* which call the owner is in
    ji,                 \* loop index of pthread_create and pthread_join
    now,                \* time(NULL)
    \* history
    submitted, taken,   \* tasks in the order they were added / popped
    ran,                \* how often each task's function was called
    joins,              \* how often each thread was joined
    cleaned             \* cleanup handlers called by free, per task

pool    == <<queue, finished, running, live, stop>>
threads == <<pc, held>>
history == <<submitted, taken, ran, joins, cleaned>>
vars == <<queue, finished, running, live, stop, pc, held, task, results,
          owner, ji, now, submitted, taken, ran, joins, cleaned>>

Image(s) == {s[i] : i \in DOMAIN s}

\* Workers between the pop of a task and the push of its result.
BusyPc == {"popped", "exec", "finish"}
Busy == {w \in Workers : pc[w] \in BusyPc}

TypeOK ==
    /\ queue \in Seq(Tasks) /\ finished \in Seq(Tasks) /\ results \in Seq(Tasks)
    /\ running \in 0 .. NbThreads /\ live \in 0 .. NbThreads
    /\ stop \in BOOLEAN
    /\ pc \in [Workers -> {"none", "failed", "start", "idle", "waiting",
                           "exited"} \cup BusyPc]
    /\ held \in [Workers -> Tasks \cup {NoTask}]
    /\ task \in [Tasks -> [timeout : Timeouts \cup {0}, is_timeout : BOOLEAN,
                           ret : {"NULL", "value"}]]
    /\ owner \in {"new", "open", "joining", "stopped", "freeing", "freed"}
    /\ ji \in 0 .. NbThreads
    /\ now \in 0 .. MaxTime
    /\ submitted \in Seq(Tasks) /\ taken \in Seq(Tasks)
    /\ ran \in [Tasks -> Nat]
    /\ joins \in [Workers -> Nat]
    /\ cleaned \in [Tasks -> [userdata : Nat, ret : Nat]]

-----------------------------------------------------------------------------
(* ezgrpc2_pthpool_new *)

Init ==
    /\ queue = <<>> /\ finished = <<>> /\ results = <<>>
    /\ running = 0 /\ live = 0 /\ stop = FALSE
    /\ pc = [w \in Workers |-> "none"]
    /\ held = [w \in Workers |-> NoTask]
    /\ task = [t \in Tasks |-> [timeout |-> 0, is_timeout |-> FALSE, ret |-> "NULL"]]
    /\ owner = "new" /\ ji = 0 /\ now = 0
    /\ submitted = <<>> /\ taken = <<>>
    /\ ran = [t \in Tasks |-> 0]
    /\ joins = [w \in Workers |-> 0]
    /\ cleaned = [t \in Tasks |-> [userdata |-> 0, ret |-> 0]]

\* pthread_create(threads + i, ...): its return value is not looked at.
CreateThread ==
    /\ owner = "new" /\ ji < NbThreads
    /\ \/ pc' = [pc EXCEPT ![ji] = "start"]
       \/ CreateMayFail /\ pc' = [pc EXCEPT ![ji] = "failed"]
    /\ ji' = ji + 1
    /\ UNCHANGED <<pool, held, task, results, owner, now, history>>

\* while (pool->live != workers);  return pool;
NewReturns ==
    /\ owner = "new" /\ ji = NbThreads
    /\ live = NbThreads
    /\ owner' = "open"
    /\ UNCHANGED <<pool, threads, task, results, ji, now, history>>

\* The loop polls for as long as threads are missing.
NewSpins ==
    /\ owner = "new" /\ ji = NbThreads
    /\ live # NbThreads
    /\ UNCHANGED vars

-----------------------------------------------------------------------------
(* worker *)

\* The first critical section: live++.
StartWorker(w) ==
    /\ pc[w] = "start"
    /\ live' = live + 1
    /\ pc' = [pc EXCEPT ![w] = "idle"]
    /\ UNCHANGED <<queue, finished, running, stop, held, task, results, owner,
                   ji, now, history>>

\* The queue is empty: pthread_cond_wait releases the mutex and sleeps.
Wait(w) ==
    /\ pc[w] = "idle" /\ ~stop /\ queue = <<>>
    /\ pc' = [pc EXCEPT ![w] = "waiting"]
    /\ UNCHANGED <<pool, held, task, results, owner, ji, now, history>>

\* POSIX allows pthread_cond_wait to return although nobody signalled.
SpuriousWakeup(w) ==
    /\ pc[w] = "waiting"
    /\ pc' = [pc EXCEPT ![w] = "idle"]
    /\ UNCHANGED <<pool, held, task, results, owner, ji, now, history>>

\* Mutant of Take: the task is published before it is executed.
TakePublishes(w) ==
    /\ pc[w] = "idle" /\ ~stop /\ queue # <<>>
    /\ held' = [held EXCEPT ![w] = Head(queue)]
    /\ queue' = Tail(queue)
    /\ finished' = Append(finished, Head(queue))
    /\ running' = running + 1
    /\ pc' = [pc EXCEPT ![w] = "popped"]
    /\ taken' = Append(taken, Head(queue))
    /\ UNCHANGED <<live, stop, task, results, owner, ji, now,
                   submitted, ran, joins, cleaned>>

\* Pop the oldest task and count this worker as running.
Take(w) ==
    /\ pc[w] = "idle" /\ ~stop /\ queue # <<>>
    /\ held' = [held EXCEPT ![w] = Head(queue)]
    /\ queue' = Tail(queue)
    /\ running' = running + 1
    /\ pc' = [pc EXCEPT ![w] = "popped"]
    /\ taken' = Append(taken, Head(queue))
    /\ UNCHANGED <<finished, live, stop, task, results, owner, ji, now,
                   submitted, ran, joins, cleaned>>

Expired(t) == task[t].timeout # 0 /\ now > task[t].timeout

\* Mutant: the function of an expired task is called all the same.
ExpireAndCall(w) ==
    /\ pc[w] = "popped" /\ Expired(held[w])
    /\ task' = [task EXCEPT ![held[w]].is_timeout = TRUE]
    /\ ran' = [ran EXCEPT ![held[w]] = @ + 1]
    /\ pc' = [pc EXCEPT ![w] = "exec"]
    /\ UNCHANGED <<pool, held, results, owner, ji, now, submitted, taken, joins,
                   cleaned>>

\* Outside the mutex: a task past its deadline is only marked.
Expire(w) ==
    /\ pc[w] = "popped" /\ Expired(held[w])
    /\ task' = [task EXCEPT ![held[w]].is_timeout = TRUE]
    /\ pc' = [pc EXCEPT ![w] = "finish"]
    /\ UNCHANGED <<pool, held, results, owner, ji, now, history>>

\* Outside the mutex: task->func(task->userdata) is entered ...
Call(w) ==
    /\ pc[w] = "popped" /\ ~Expired(held[w])
    /\ ran' = [ran EXCEPT ![held[w]] = @ + 1]
    /\ pc' = [pc EXCEPT ![w] = "exec"]
    /\ UNCHANGED <<pool, held, task, results, owner, ji, now, submitted, taken,
                   joins, cleaned>>

\* ... and returns.
Return(w) ==
    /\ pc[w] = "exec"
    /\ task' = [task EXCEPT ![held[w]].ret = "value"]
    /\ pc' = [pc EXCEPT ![w] = "finish"]
    /\ UNCHANGED <<pool, held, results, owner, ji, now, history>>

\* Mutant: results are pushed at the front.
FinishAtFront(w) ==
    /\ pc[w] = "finish"
    /\ finished' = <<held[w]>> \o finished
    /\ running' = running - 1
    /\ held' = [held EXCEPT ![w] = NoTask]
    /\ pc' = [pc EXCEPT ![w] = "idle"]
    /\ UNCHANGED <<queue, live, stop, task, results, owner, ji, now, history>>

\* The last critical section of a round: publish the result.
Finish(w) ==
    /\ pc[w] = "finish"
    /\ finished' = Append(finished, held[w])
    /\ running' = running - 1
    /\ held' = [held EXCEPT ![w] = NoTask]
    /\ pc' = [pc EXCEPT ![w] = "idle"]
    /\ UNCHANGED <<queue, live, stop, task, results, owner, ji, now, history>>

\* pool->stop was seen: leave the loop, live--.
Exit(w) ==
    /\ pc[w] = "idle" /\ stop
    /\ live' = live - 1
    /\ pc' = [pc EXCEPT ![w] = "exited"]
    /\ UNCHANGED <<queue, finished, running, stop, held, task, results, owner,
                   ji, now, history>>

-----------------------------------------------------------------------------
(* The operations of the owner, and of a task's function that adds tasks *)

\* Mutant: nobody is woken.
BroadcastForgotten == pc' = pc

\* pthread_cond_broadcast: every waiter goes back to re-test its condition.
Broadcast ==
    pc' = [w \in Workers |-> IF pc[w] = "waiting" THEN "idle" ELSE pc[w]]

\* The pool may be used by its owner, and by the tasks it is executing.
MayAdd == owner \in {"open", "stopped"} \/ \E w \in Workers : pc[w] = "exec"

\* ezgrpc2_pthpool_add_task, ezgrpc2_pthpool_add_task2: push, then wake every
\* waiter. (A failed malloc returns 1 and leaves everything as it was.)
AddTask(t, timeout) ==
    /\ MayAdd
    /\ t \notin Image(submitted)
    /\ task' = [task EXCEPT ![t].timeout = timeout]
    /\ queue' = Append(queue, t)
    /\ submitted' = Append(submitted, t)
    /\ Broadcast
    /\ UNCHANGED <<finished, running, live, stop, held, results, owner, ji, now,
                   taken, ran, joins, cleaned>>

\* Mutants of Poll: the source is not emptied; the results go in front.
PollKeeps ==
    /\ owner \in {"open", "stopped"}
    /\ results' = results \o finished
    /\ UNCHANGED <<pool, threads, task, owner, ji, now, history>>

PollInFront ==
    /\ owner \in {"open", "stopped"}
    /\ results' = finished \o results
    /\ finished' = <<>>
    /\ UNCHANGED <<queue, running, live, stop, threads, task, owner, ji, now,
                   history>>

\* ezgrpc2_pthpool_poll: the finished tasks move to the owner's list.
Poll ==
    /\ owner \in {"open", "stopped"}
    /\ results' = results \o finished
    /\ finished' = <<>>
    /\ UNCHANGED <<queue, running, live, stop, threads, task, owner, ji, now,
                   history>>

\* Mutant: tasks in execution are not looked at.
IsEmptyLists == finished = <<>> /\ queue = <<>>

\* ezgrpc2_pthpool_is_empty.
IsEmpty == running = 0 /\ finished = <<>> /\ queue = <<>>

\* The critical section shared by stop_and_join and free, then their joins.
BeginStop(call) ==
    /\ \/ call = "joining" /\ owner = "open" /\ StopFirst
       \/ call = "freeing" /\ owner \in {"open", "stopped"}
    /\ stop' = TRUE
    /\ Broadcast
    /\ owner' = call
    /\ ji' = 0
    /\ UNCHANGED <<queue, finished, running, live, held, task, results, now,
                   history>>

\* pthread_join(pool->threads[i], NULL). Joining a thread twice is undefined;
\* the model lets the second call return.
Join ==
    /\ owner \in {"joining", "freeing"} /\ ji < NbThreads
    /\ pc[ji] = "exited"
    /\ joins' = [joins EXCEPT ![ji] = @ + 1]
    /\ ji' = ji + 1
    /\ UNCHANGED <<pool, threads, task, results, owner, now, submitted, taken,
                   ran, cleaned>>

StopReturns ==
    /\ owner = "joining" /\ ji = NbThreads
    /\ owner' = "stopped"
    /\ UNCHANGED <<pool, threads, task, results, ji, now, history>>

\* Mutant: free forgets what is still queued.
CleanupFinishedOnly ==
    /\ owner = "freeing" /\ ji = NbThreads
    /\ cleaned' = [t \in Tasks |->
         [userdata |-> cleaned[t].userdata
                         + Cardinality({i \in DOMAIN finished : finished[i] = t}),
          ret      |-> cleaned[t].ret
                         + Cardinality({i \in DOMAIN finished : finished[i] = t})]]
    /\ finished' = <<>> /\ queue' = <<>>
    /\ owner' = "freed"
    /\ UNCHANGED <<running, live, stop, threads, task, results, ji, now,
                   submitted, taken, ran, joins>>

\* The clean-up loops at the end of ezgrpc2_pthpool_free: both handlers for a
\* finished task, the userdata handler for a queued one. No thread is left to
\* interfere, so the loops are one action.
Cleanup ==
    /\ owner = "freeing" /\ ji = NbThreads
    /\ cleaned' = [t \in Tasks |->
         [userdata |-> cleaned[t].userdata
                         + Cardinality({i \in DOMAIN finished : finished[i] = t})
                         + Cardinality({i \in DOMAIN queue : queue[i] = t}),
          ret      |-> cleaned[t].ret
                         + Cardinality({i \in DOMAIN finished : finished[i] = t})]]
    /\ finished' = <<>> /\ queue' = <<>>
    /\ owner' = "freed"
    /\ UNCHANGED <<running, live, stop, threads, task, results, ji, now,
                   submitted, taken, ran, joins>>

\* The clock advances; MaxTime bounds it.
Tick ==
    /\ now < MaxTime
    /\ now' = now + 1
    /\ UNCHANGED <<pool, threads, task, results, owner, ji, history>>

\* The pool is gone: nothing more happens.
Freed == owner = "freed" /\ UNCHANGED vars

-----------------------------------------------------------------------------

WorkerStep(w) ==
    \/ StartWorker(w) \/ Wait(w) \/ Take(w) \/ Expire(w) \/ Call(w)
    \/ Return(w) \/ Finish(w) \/ Exit(w)

OwnerStep ==
    \/ CreateThread \/ NewReturns \/ NewSpins \/ Poll
    \/ \E call \in {"joining", "freeing"} : BeginStop(call)
    \/ Join \/ StopReturns \/ Cleanup \/ Freed

Next ==
    \/ \E w \in Workers : WorkerStep(w) \/ SpuriousWakeup(w)
    \/ \E t \in Tasks, timeout \in Timeouts : AddTask(t, timeout)
    \/ OwnerStep
    \/ Tick

\* Threads are scheduled, task functions return, and a call the owner has
\* entered runs on; whether the owner makes another call is its own choice.
Fairness ==
    /\ \A w \in Workers : WF_vars(WorkerStep(w))
    /\ WF_vars(CreateThread \/ NewReturns)
    /\ WF_vars(Join \/ StopReturns \/ Cleanup)

Spec     == Init /\ [][Next]_vars
FairSpec == Spec /\ Fairness

-----------------------------------------------------------------------------
(* Safety *)

\* running and live count what worker says they count, at every step of
\* every interleaving: live the threads between live++ and live--, running
\* the threads that hold a task (worker, lines 46, 61, 76 and 80).
CountersExact ==
    /\ running = Cardinality(Busy)
    /\ live = Cardinality({w \in Workers : pc[w] \in {"idle", "waiting"} \cup BusyPc})

\* No task is lost, repeated or overtaken on its way to a worker: what the
\* workers popped, followed by what is still queued, is what was added.
SubmissionOrder == owner # "freed" => submitted = taken \o queue

\* ezgrpc2_pthpool_new hands out a pool only when every thread it asked for
\* exists and has registered itself, in whatever order they start and
\* whichever pthread_create fails (ezgrpc2_pthpool.c:111).
HandedOutComplete ==
    owner # "new" => \A w \in Workers : pc[w] \notin {"none", "failed", "start"}

\* A submitted task is in exactly one place: queued, held by exactly one
\* worker, finished, in the owner's list, or cleaned up by free.
Places(t) == {i \in DOMAIN queue : queue[i] = t} \X {"queue"}
        \cup {i \in DOMAIN finished : finished[i] = t} \X {"finished"}
        \cup {i \in DOMAIN results : results[i] = t} \X {"results"}
        \cup {w \in Workers : held[w] = t} \X {"held"}
        \cup (1 .. cleaned[t].userdata) \X {"cleaned"}

OnePlace == \A t \in Tasks :
    Cardinality(Places(t)) = IF t \in Image(submitted) THEN 1 ELSE 0

\* An answer 1 of ezgrpc2_pthpool_is_empty means that nothing is in flight:
\* the owner has collected every task it ever added, or free released it.
EmptyMeansCollected ==
    IsEmpty => \A t \in Image(submitted) :
                  t \in Image(results) \/ cleaned[t].userdata > 0

\* What the owner reads in a result: either the function ran, once, and ret
\* is what it returned, or the deadline had passed, it never ran and ret is
\* NULL (the contract examples/multi_threaded.c:215-219 relies on).
OutcomeExact ==
    \A t \in Image(finished) \cup Image(results) :
       IF task[t].is_timeout
         THEN ran[t] = 0 /\ task[t].ret = "NULL" /\ Expired(t)
         ELSE ran[t] = 1 /\ task[t].ret = "value"

\* A thread never sleeps on wcond while there is something for it to do: no
\* wake-up is lost between the test of the condition and pthread_cond_wait.
NoLostWakeup ==
    queue # <<>> \/ stop => \A w \in Workers : pc[w] # "waiting"

\* Results come out almost in the order tasks were added: when a task is
\* published, at most NbThreads - 1 tasks added before it are still out. With
\* one worker that is exact order ("worker must be one for an ordered
\* execution", examples/multi_threaded.c:321).
BoundedReordering ==
    LET out == results \o finished
        Earlier(t) == {submitted[i] : i \in 1 .. CHOOSE k \in DOMAIN submitted : submitted[k] = t}
    IN  \A i \in DOMAIN out :
          Cardinality(Earlier(out[i]) \ {out[j] : j \in 1 .. i}) < NbThreads

\* When ezgrpc2_pthpool_free releases the pool every thread has been joined
\* and none can touch it any more; of a task the owner did not collect,
\* userdata_cleanup has been called once, and ret_cleanup once if the function
\* was executed and not at all if no worker took the task; of a collected task,
\* neither (ezgrpc2_pthpool.h:60-74, 153-158). Of a task that expired nothing
\* is required of ret_cleanup here: see RetCleanupOnlyAfterRun.
FreedClean ==
    owner = "freed" =>
      /\ \A w \in Workers : pc[w] = "exited" /\ joins[w] > 0
      /\ \A t \in Image(submitted) :
           IF t \in Image(results)
             THEN cleaned[t] = [userdata |-> 0, ret |-> 0]
             ELSE /\ cleaned[t].userdata = 1
                  /\ ran[t] > 0 => cleaned[t].ret = 1
                  /\ t \notin Image(taken) => cleaned[t].ret = 0

\* A result that can be seen is final: from the moment a task is in finished
\* no thread writes to it or calls its function, so that the owner may read
\* and free it without the mutex.
PublishedIsFrozen ==
    [][\A t \in Image(finished) \cup Image(results) :
          task'[t] = task[t] /\ ran'[t] = ran[t]]_vars

-----------------------------------------------------------------------------
(* Liveness, under Fairness *)

\* A queued task is eventually executed (or expired) and published, unless
\* the pool is stopped first.
QueuedIsServed == \A t \in Tasks :
    t \in Image(queue) ~> (t \in Image(finished) \cup Image(results) \/ stop)

\* ezgrpc2_pthpool_free returns: stop reaches every worker, sleeping or not.
FreeTerminates == owner = "freeing" ~> owner = "freed"

-----------------------------------------------------------------------------
(* What the repository says and the code does not do; TLC refutes each when *)
(* it is given as the property of a run.                                    *)

\* ezgrpc2_pthpool_new returns (ezgrpc2_pthpool.h:32-36): not when a
\* pthread_create fails.
NewTerminates == <>(owner # "new")

\* POSIX allows one join per thread; the test calls stop_and_join and then
\* free (tests/pthpool.c:31-32), which joins again.
JoinedOnce == \A w \in Workers : joins[w] <= 1

\* ret_cleanup is "for the value returned by func", called when there are
\* "executed tasks not popped" (ezgrpc2_pthpool.h:60-66, 156-158): the code calls
\* it, with NULL, for tasks that expired and never ran as well
\* (ezgrpc2_pthpool.c:208-212).
RetCleanupOnlyAfterRun ==
    \A t \in Tasks : cleaned[t].ret > 0 => ran[t] > 0

-----------------------------------------------------------------------------
(* Refinement *)

\* The pool of ezgrpc2_pthpool.h, read off the threads and lists.
Abstract == INSTANCE TaskPool WITH
    pending   <- queue,
    active    <- {held[w] : w \in Busy},
    outcome   <- [t \in Tasks |-> IF task[t].is_timeout THEN "expired"
                                  ELSE IF ran[t] > 0 THEN "executed" ELSE "none"],
    done      <- finished,
    delivered <- results,
    discarded <- {t \in Tasks : cleaned[t].userdata > 0},
    closed    <- owner = "freed"

\* Every behaviour of the pool is one the header promises.
ImplementsTaskPool == Abstract!Spec
=============================================================================
