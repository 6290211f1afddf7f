---------------------------- MODULE PthpoolProofs ----------------------------
(***************************************************************************)
(* Proofs about the thread pool, for any number of threads, tasks and       *)
(* deadlines. One inductive invariant, IInv, carries them all:              *)
(*   CountersExact, NoLostWakeup, Lifecycle                                 *)
(*             counters, sleeping threads, created and joined threads;        *)
(*   Order     what was popped and what is queued is what was added;        *)
(*   Apart     a task taken from the queue is held by one worker, or        *)
(*             published, and never both;                                   *)
(*   Outcomes  what has been done to a task at each of these stages;        *)
(*   Collected what free did with the tasks nobody collected.               *)
(***************************************************************************)
EXTENDS Pthpool, SequenceTheorems, FiniteSetTheorems, TLAPS

Inj(s) == \A i, j \in DOMAIN s : s[i] = s[j] => i = j

Published == Image(finished) \cup Image(results)

Fresh(t) == ran[t] = 0 /\ task[t].is_timeout = FALSE /\ task[t].ret = "NULL"

Final(t) == IF task[t].is_timeout
              THEN ran[t] = 0 /\ task[t].ret = "NULL" /\ Expired(t)
              ELSE ran[t] = 1 /\ task[t].ret = "value"

\* TypeOK but for the ranges of the counters, which follow from CountersExact.
Types ==
    /\ queue \in Seq(Tasks) /\ finished \in Seq(Tasks) /\ results \in Seq(Tasks)
    /\ running \in Int /\ live \in Int
    /\ stop \in BOOLEAN
    /\ pc \in [Workers -> {"none", "failed", "start", "idle", "waiting",
                           "exited"} \cup BusyPc]
    /\ held \in [Workers -> Tasks \cup {NoTask}]
    /\ task \in [Tasks -> [timeout : Timeouts \cup {0}, is_timeout : BOOLEAN,
                           ret : {"NULL", "value"}]]
    /\ owner \in {"new", "open", "joining", "stopped", "freeing", "freed"}
    /\ ji \in 0 .. NbThreads
    /\ now \in 0 .. MaxTime
    /\ submitted \in Seq(Tasks) /\ taken \in Seq(Tasks)
    /\ ran \in [Tasks -> Nat]
    /\ joins \in [Workers -> Nat]
    /\ cleaned \in [Tasks -> [userdata : Nat, ret : Nat]]
    /\ \A w \in Workers : pc[w] \in BusyPc <=> held[w] # NoTask

\* Threads are created one after the other, and joined ones have exited.
Lifecycle ==
    /\ owner = "new" => \A k \in ji .. NbThreads - 1 : pc[k] = "none"
    /\ owner \in {"joining", "freeing"} => \A k \in 0 .. ji - 1 : pc[k] = "exited"
    /\ owner \in {"stopped", "freed"} => \A w \in Workers : pc[w] = "exited"

Order == SubmissionOrder /\ Inj(submitted)

Apart ==
    /\ \A w \in Busy : held[w] \in Image(taken) \ Published
    /\ \A v, w \in Busy : held[v] = held[w] => v = w
    /\ Published \subseteq Image(taken)
    /\ owner # "freed" => Image(taken) \subseteq Published \cup {held[w] : w \in Busy}

Outcomes ==
    /\ \A t \in Tasks \ Image(taken) : Fresh(t)
    /\ \A w \in Workers :
         /\ pc[w] = "popped" => Fresh(held[w])
         /\ pc[w] = "exec" => ran[held[w]] = 1 /\ task[held[w]].is_timeout = FALSE
         /\ pc[w] = "finish" => Final(held[w])
    /\ \A t \in Published : Final(t)

Collected ==
    owner = "freed" => \A t \in Image(submitted) :
                          t \in Image(results) \/ cleaned[t].userdata > 0

IInv == Types /\ CountersExact /\ NoLostWakeup /\ Lifecycle /\ Order /\ Apart
          /\ Outcomes /\ Collected

-----------------------------------------------------------------------------
(* The elements of sequences *)

LEMMA ImageEmpty == Image(<<>>) = {}
  BY DEF Image

LEMMA ImageIn ==
  ASSUME NEW S, NEW s \in Seq(S)
  PROVE  Image(s) \subseteq S
  BY DEF Image

LEMMA ImageAppend ==
  ASSUME NEW S, NEW s \in Seq(S), NEW e \in S
  PROVE  Image(Append(s, e)) = Image(s) \cup {e}
  BY AppendProperties DEF Image

LEMMA ImageConcat ==
  ASSUME NEW S, NEW s \in Seq(S), NEW t \in Seq(S)
  PROVE  Image(s \o t) = Image(s) \cup Image(t)
<1>1. /\ s \o t \in Seq(S) /\ Len(s \o t) = Len(s) + Len(t)
      /\ \A i \in 1 .. Len(s) + Len(t) :
           (s \o t)[i] = IF i <= Len(s) THEN s[i] ELSE t[i - Len(s)]
  BY ConcatProperties
<1>2. \A i \in DOMAIN s : i \in DOMAIN (s \o t) /\ (s \o t)[i] = s[i]
  BY <1>1
<1>3. \A i \in DOMAIN t : i + Len(s) \in DOMAIN (s \o t) /\ (s \o t)[i + Len(s)] = t[i]
  BY <1>1
<1>4. \A i \in DOMAIN (s \o t) : (s \o t)[i] \in Image(s) \cup Image(t)
  BY <1>1 DEF Image
<1>5. Image(s) \subseteq Image(s \o t)
  BY <1>2 DEF Image
<1>6. Image(t) \subseteq Image(s \o t)
  BY <1>3 DEF Image
<1>7. Image(s \o t) \subseteq Image(s) \cup Image(t)
  BY <1>4 DEF Image
<1> QED BY <1>5, <1>6, <1>7

LEMMA ImageHeadTail ==
  ASSUME NEW S, NEW s \in Seq(S), s # <<>>
  PROVE  /\ Head(s) \in S /\ Tail(s) \in Seq(S)
         /\ Image(s) = {Head(s)} \cup Image(Tail(s))
<1>1. /\ Head(s) \in S /\ Tail(s) \in Seq(S) /\ Len(Tail(s)) = Len(s) - 1 /\ Len(s) >= 1
      /\ \A i \in 1 .. Len(Tail(s)) : Tail(s)[i] = s[i + 1]
  BY HeadTailProperties, EmptySeq
<1>2. \A i \in DOMAIN s : s[i] = Head(s) \/ (i - 1 \in DOMAIN Tail(s) /\ Tail(s)[i - 1] = s[i])
  BY <1>1
<1>3. \A i \in DOMAIN Tail(s) : i + 1 \in DOMAIN s /\ Tail(s)[i] = s[i + 1]
  BY <1>1
<1>4. 1 \in DOMAIN s /\ Head(s) = s[1]
  BY <1>1
<1> QED BY <1>1, <1>2, <1>3, <1>4 DEF Image

LEMMA InjAppend ==
  ASSUME NEW S, NEW s \in Seq(S), NEW e \in S, Inj(s), e \notin Image(s)
  PROVE  Inj(Append(s, e))
  BY AppendProperties DEF Inj, Image

LEMMA InjConcat ==
  ASSUME NEW S, NEW s \in Seq(S), NEW t \in Seq(S), Inj(s \o t)
  PROVE  Image(s) \cap Image(t) = {}
<1>1. /\ s \o t \in Seq(S) /\ Len(s \o t) = Len(s) + Len(t)
      /\ \A i \in 1 .. Len(s) + Len(t) :
           (s \o t)[i] = IF i <= Len(s) THEN s[i] ELSE t[i - Len(s)]
  BY ConcatProperties
<1>2. \A i \in DOMAIN s : i \in DOMAIN (s \o t) /\ (s \o t)[i] = s[i]
  BY <1>1
<1>3. \A i \in DOMAIN t : i + Len(s) \in DOMAIN (s \o t) /\ (s \o t)[i + Len(s)] = t[i]
  BY <1>1
<1>4. ASSUME NEW i \in DOMAIN s, NEW j \in DOMAIN t, s[i] = t[j]
      PROVE  FALSE
  <2>1. i = j + Len(s)
    BY <1>2, <1>3, <1>4 DEF Inj
  <2> QED BY <2>1
<1> QED BY <1>4 DEF Image

\* Popping the head of the queue moves it to the end of what was taken.
LEMMA TakeMoves ==
  ASSUME NEW S, NEW s \in Seq(S), NEW q \in Seq(S), q # <<>>
  PROVE  Append(s, Head(q)) \o Tail(q) = s \o q
<1>1. /\ Head(q) \in S /\ Tail(q) \in Seq(S) /\ Len(Tail(q)) = Len(q) - 1 /\ Len(q) >= 1
      /\ \A i \in 1 .. Len(Tail(q)) : Tail(q)[i] = q[i + 1] 
      /\ Head(q) = q[1]
  BY HeadTailProperties, EmptySeq
<1>2. /\ Append(s, Head(q)) \in Seq(S) /\ Len(Append(s, Head(q))) = Len(s) + 1
      /\ \A i \in 1 .. Len(s) : Append(s, Head(q))[i] = s[i]
      /\ Append(s, Head(q))[Len(s) + 1] = Head(q)
  BY <1>1, AppendProperties
<1> DEFINE a == Append(s, Head(q))  b == a \o Tail(q)  c == s \o q
<1>3. /\ b \in Seq(S) /\ Len(b) = Len(a) + Len(Tail(q))
      /\ \A i \in 1 .. Len(a) + Len(Tail(q)) :
           b[i] = IF i <= Len(a) THEN a[i] ELSE Tail(q)[i - Len(a)]
  BY <1>1, <1>2, ConcatProperties
<1>4. /\ c \in Seq(S) /\ Len(c) = Len(s) + Len(q)
      /\ \A i \in 1 .. Len(s) + Len(q) : c[i] = IF i <= Len(s) THEN s[i] ELSE q[i - Len(s)]
  BY ConcatProperties
<1>5. Len(s) \in Nat /\ Len(q) \in Nat
  OBVIOUS
<1> HIDE DEF a, b, c
<1>6. a = Append(s, Head(q))
  BY DEF a
<1>7. Len(b) = Len(c)
  <2>1. Len(b) = (Len(s) + 1) + (Len(q) - 1)
    BY <1>1, <1>2, <1>3, <1>6, Zenon
  <2> QED BY <1>4, <1>5, <2>1
<1>8. ASSUME NEW i \in 1 .. Len(b)
      PROVE  b[i] = c[i]
  <2>0. Len(a) = Len(s) + 1 /\ i \in 1 .. Len(s) + Len(q) /\ i \in 1 .. Len(a) + Len(Tail(q))
    BY <1>1, <1>2, <1>3, <1>4, <1>6, <1>7
  <2>1. CASE i <= Len(s)
    <3>1. i <= Len(a) /\ i \in 1 .. Len(s)
      BY <1>5, <2>0, <2>1
    <3>2. b[i] = a[i] /\ c[i] = s[i] /\ a[i] = s[i]
      BY <1>2, <1>3, <1>4, <1>6, <2>0, <2>1, <3>1
    <3> QED BY <3>2
  <2>2. CASE i = Len(s) + 1
    <3>1. i <= Len(a) /\ ~(i <= Len(s)) /\ i - Len(s) = 1
      BY <1>5, <2>0, <2>2
    <3>2. b[i] = a[i] /\ c[i] = q[1] /\ a[i] = Head(q)
      BY <1>2, <1>3, <1>4, <1>6, <2>0, <2>2, <3>1
    <3> QED BY <1>1, <3>2
  <2>3. CASE i > Len(s) + 1
    <3>1. Len(a) = Len(s) + 1
      BY <1>2, <1>6
    <3>2. i - Len(a) \in 1 .. Len(Tail(q)) /\ i - Len(a) + 1 = i - Len(s)
      BY <2>3, <3>1, <1>1, <1>3, <1>5
    <3>3. b[i] = Tail(q)[i - Len(a)]
      BY <2>3, <3>1, <1>3, <1>5
    <3>4. c[i] = q[i - Len(s)]
      BY <2>3, <1>4, <1>5, <1>7
    <3> QED BY <3>2, <3>3, <3>4, <1>1
  <2> QED BY <2>1, <2>2, <2>3, <1>5
<1>9. b = c
  BY <1>3, <1>4, <1>7, <1>8, SeqEqual
<1> QED BY <1>9 DEF a, b, c

LEMMA OccurrencesFinite ==
  ASSUME NEW S, NEW s \in Seq(S), NEW t
  PROVE  IsFiniteSet({i \in DOMAIN s : s[i] = t})
<1>1. IsFiniteSet(1 .. Len(s))
  BY FS_Interval
<1>2. {i \in DOMAIN s : s[i] = t} \subseteq 1 .. Len(s)
  OBVIOUS
<1> QED BY <1>1, <1>2, FS_Subset

-----------------------------------------------------------------------------
(* Types and threads *)

\* Every action leaves the variables in their types.
LEMMA TypesStep ==
  ASSUME Types, Lifecycle, [Next]_vars
  PROVE  Types'
<1>1. ASSUME NEW w \in Workers, StartWorker(w)
      PROVE  Types'
  BY <1>1 DEF StartWorker, Types, BusyPc, pool, threads, history
<1>2. ASSUME NEW w \in Workers, Wait(w)
      PROVE  Types'
  BY <1>2 DEF Wait, Types, BusyPc, pool, threads, history
<1>3. ASSUME NEW w \in Workers, Take(w)
      PROVE  Types'
  <2>1. Head(queue) \in Tasks /\ Tail(queue) \in Seq(Tasks)
    BY <1>3, HeadTailProperties DEF Take, Types
  <2>2. Head(queue) # NoTask
    BY <2>1, NoTaskAssumption
  <2>3. Append(taken, Head(queue)) \in Seq(Tasks)
    BY <2>1, AppendProperties DEF Types
  <2>4. held' \in [Workers -> Tasks \cup {NoTask}]
    BY <1>3, <2>1 DEF Take, Types
  <2>5. \A v \in Workers : pc'[v] \in BusyPc <=> held'[v] # NoTask
    BY <1>3, <2>2 DEF Take, Types, BusyPc
  <2>6. pc' \in [Workers -> {"none", "failed", "start", "idle", "waiting",
                             "exited"} \cup BusyPc]
    BY <1>3 DEF Take, Types, BusyPc
  <2>7. /\ running' \in Int /\ ji' \in 0 .. NbThreads /\ now' \in 0 .. MaxTime
        /\ queue' \in Seq(Tasks) /\ taken' \in Seq(Tasks)
    BY <1>3, <2>1, <2>3 DEF Take, Types
  <2>8. /\ finished' = finished /\ results' = results /\ live' = live /\ stop' = stop
        /\ task' = task /\ owner' = owner /\ submitted' = submitted /\ ran' = ran
        /\ joins' = joins /\ cleaned' = cleaned
    BY <1>3 DEF Take
  <2> QED BY <2>4, <2>5, <2>6, <2>7, <2>8 DEF Types
<1>4. ASSUME NEW w \in Workers, Expire(w)
      PROVE  Types'
  <2>1. held[w] \in Tasks
    BY <1>4 DEF Expire, Types, BusyPc
  <2>2. task' \in [Tasks -> [timeout : Timeouts \cup {0}, is_timeout : BOOLEAN,
                         ret : {"NULL", "value"}]] /\ ran' \in [Tasks -> Nat]
    <3>1. ran' = ran /\ task' = [task EXCEPT ![held[w]].is_timeout = TRUE]
      BY <1>4 DEF Expire, history
    <3>2. /\ ran \in [Tasks -> Nat]
          /\ task \in [Tasks -> [timeout : Timeouts \cup {0}, is_timeout : BOOLEAN,
                                 ret : {"NULL", "value"}]]
      BY DEF Types
    <3> QED BY <2>1, <3>1, <3>2
  <2>3. pc' \in [Workers -> {"none", "failed", "start", "idle", "waiting",
                             "exited"} \cup BusyPc]
    BY <1>4 DEF Expire, Types, BusyPc
  <2>4. \A v \in Workers : pc'[v] \in BusyPc <=> held'[v] # NoTask
    BY <1>4 DEF Expire, Types, BusyPc
  <2>5. UNCHANGED <<pool, held, results, owner, ji, now, submitted, taken, joins, cleaned>>
    BY <1>4 DEF Expire, history
  <2> QED BY <2>2, <2>3, <2>4, <2>5 DEF Types, pool
<1>5. ASSUME NEW w \in Workers, Call(w)
      PROVE  Types'
  <2>1. held[w] \in Tasks
    BY <1>5 DEF Call, Types, BusyPc
  <2>2. task' \in [Tasks -> [timeout : Timeouts \cup {0}, is_timeout : BOOLEAN,
                         ret : {"NULL", "value"}]] /\ ran' \in [Tasks -> Nat]
    BY <1>5, <2>1 DEF Call, Types, history
  <2>3. pc' \in [Workers -> {"none", "failed", "start", "idle", "waiting",
                             "exited"} \cup BusyPc]
    BY <1>5 DEF Call, Types, BusyPc
  <2>4. \A v \in Workers : pc'[v] \in BusyPc <=> held'[v] # NoTask
    BY <1>5 DEF Call, Types, BusyPc
  <2>5. UNCHANGED <<pool, held, results, owner, ji, now, submitted, taken, joins, cleaned>>
    BY <1>5 DEF Call, history
  <2> QED BY <2>2, <2>3, <2>4, <2>5 DEF Types, pool
<1>6. ASSUME NEW w \in Workers, Return(w)
      PROVE  Types'
  <2>1. held[w] \in Tasks
    BY <1>6 DEF Return, Types, BusyPc
  <2>2. task' \in [Tasks -> [timeout : Timeouts \cup {0}, is_timeout : BOOLEAN,
                         ret : {"NULL", "value"}]] /\ ran' \in [Tasks -> Nat]
    <3>1. ran' = ran /\ task' = [task EXCEPT ![held[w]].ret = "value"]
      BY <1>6 DEF Return, history
    <3>2. /\ ran \in [Tasks -> Nat]
          /\ task \in [Tasks -> [timeout : Timeouts \cup {0}, is_timeout : BOOLEAN,
                                 ret : {"NULL", "value"}]]
      BY DEF Types
    <3> QED BY <2>1, <3>1, <3>2
  <2>3. pc' \in [Workers -> {"none", "failed", "start", "idle", "waiting",
                             "exited"} \cup BusyPc]
    BY <1>6 DEF Return, Types, BusyPc
  <2>4. \A v \in Workers : pc'[v] \in BusyPc <=> held'[v] # NoTask
    BY <1>6 DEF Return, Types, BusyPc
  <2>5. UNCHANGED <<pool, held, results, owner, ji, now, submitted, taken, joins, cleaned>>
    BY <1>6 DEF Return, history
  <2> QED BY <2>2, <2>3, <2>4, <2>5 DEF Types, pool
<1>7. ASSUME NEW w \in Workers, Finish(w)
      PROVE  Types'
  <2>1. held[w] \in Tasks
    BY <1>7 DEF Finish, Types, BusyPc
  <2>2. Append(finished, held[w]) \in Seq(Tasks)
    BY <2>1, AppendProperties DEF Types
  <2>3. held' \in [Workers -> Tasks \cup {NoTask}]
    BY <1>7 DEF Finish, Types
  <2>4. \A v \in Workers : pc'[v] \in BusyPc <=> held'[v] # NoTask
    BY <1>7 DEF Finish, Types, BusyPc
  <2>5. pc' \in [Workers -> {"none", "failed", "start", "idle", "waiting",
                             "exited"} \cup BusyPc]
    BY <1>7 DEF Finish, Types
  <2>6. /\ running' \in Int /\ finished' \in Seq(Tasks)
        /\ queue' = queue /\ results' = results /\ live' = live /\ stop' = stop
        /\ task' = task /\ owner' = owner /\ ji' = ji /\ now' = now
        /\ submitted' = submitted /\ taken' = taken /\ ran' = ran
        /\ joins' = joins /\ cleaned' = cleaned
    BY <1>7, <2>2 DEF Finish, Types, history
  <2> QED BY <2>3, <2>4, <2>5, <2>6 DEF Types
<1>8. ASSUME NEW w \in Workers, Exit(w)
      PROVE  Types'
  <2>1. /\ pc' \in [Workers -> {"none", "failed", "start", "idle", "waiting",
                                "exited"} \cup BusyPc]
        /\ live' \in Int
    BY <1>8 DEF Exit, Types
  <2>2. \A v \in Workers : pc'[v] \in BusyPc <=> held'[v] # NoTask
    BY <1>8 DEF Exit, Types, BusyPc
  <2>3. UNCHANGED <<queue, finished, running, stop, held, task, results, owner,
                    ji, now, history>>
    BY <1>8 DEF Exit
  <2> QED BY <2>1, <2>2, <2>3 DEF Types, history
<1>9. ASSUME NEW w \in Workers, SpuriousWakeup(w)
      PROVE  Types'
  BY <1>9 DEF SpuriousWakeup, Types, BusyPc, pool, threads, history
<1>10. ASSUME NEW t \in Tasks, NEW timeout \in Timeouts, AddTask(t, timeout)
      PROVE  Types'
  <2>1. Append(queue, t) \in Seq(Tasks) /\ Append(submitted, t) \in Seq(Tasks)
    BY AppendProperties DEF Types
  <2>2. /\ pc' \in [Workers -> {"none", "failed", "start", "idle", "waiting",
                                "exited"} \cup BusyPc]
        /\ held' = held /\ \A v \in Workers : pc'[v] \in BusyPc <=> pc[v] \in BusyPc
    BY <1>10 DEF AddTask, Broadcast, Types, BusyPc
  <2>3. task' \in [Tasks -> [timeout : Timeouts \cup {0}, is_timeout : BOOLEAN,
                             ret : {"NULL", "value"}]]
    <3>1. /\ t \in Tasks /\ timeout \in Timeouts \cup {0}
          /\ task' = [task EXCEPT ![t].timeout = timeout]
      BY <1>10 DEF AddTask
    <3>2. task \in [Tasks -> [timeout : Timeouts \cup {0}, is_timeout : BOOLEAN,
                             ret : {"NULL", "value"}]]
      BY DEF Types
    <3> QED BY <3>1, <3>2
  <2>4. /\ queue' = Append(queue, t) /\ submitted' = Append(submitted, t)
        /\ UNCHANGED <<finished, running, live, stop, results, owner, ji, now,
                       taken, ran, joins, cleaned>>
    BY <1>10 DEF AddTask
  <2> QED BY <2>1, <2>2, <2>3, <2>4 DEF Types
<1>11. CASE CreateThread
  <2>1. ji \in Workers /\ ji + 1 \in 0 .. NbThreads
    BY <1>11, NbThreadsAssumption DEF CreateThread, Workers, Types
  <2>2. pc[ji] = "none"
    BY <1>11, <2>1 DEF CreateThread, Lifecycle, Workers
  <2> QED BY <1>11, <2>1, <2>2 DEF CreateThread, Types, BusyPc, pool, history
<1>12. CASE NewReturns
  BY <1>12 DEF NewReturns, Types, BusyPc, pool, threads, history
<1>13. CASE NewSpins
  BY <1>13 DEF NewSpins, vars, Types, BusyPc, pool, threads, history
<1>14. CASE Poll
  <2>1. results \o finished \in Seq(Tasks)
    BY ConcatProperties DEF Types
  <2> QED BY <1>14, <2>1, EmptySeq DEF Poll, Types, BusyPc, pool, threads, history
<1>15. ASSUME NEW call \in {"joining", "freeing"}, BeginStop(call)
      PROVE  Types'
  BY <1>15, NbThreadsAssumption DEF BeginStop, Broadcast, Types, BusyPc, pool, threads, history
<1>16. CASE Join
  <2>1. ji \in Workers /\ ji + 1 \in 0 .. NbThreads
    BY <1>16, NbThreadsAssumption DEF Join, Workers, Types
  <2>2. joins' \in [Workers -> Nat]
    BY <1>16, <2>1 DEF Join, Types
  <2> QED BY <1>16, <2>1, <2>2 DEF Join, Types, BusyPc, pool, threads
<1>17. CASE StopReturns
  BY <1>17 DEF StopReturns, Types, BusyPc, pool, threads, history
<1>18. CASE Cleanup
  <2> DEFINE F(t) == Cardinality({i \in DOMAIN finished : finished[i] = t})
             Q(t) == Cardinality({i \in DOMAIN queue : queue[i] = t})
  <2>1. ASSUME NEW t \in Tasks PROVE F(t) \in Nat /\ Q(t) \in Nat
    <3> finished \in Seq(Tasks) /\ queue \in Seq(Tasks)
      BY DEF Types
    <3>1. IsFiniteSet({i \in DOMAIN finished : finished[i] = t})
      BY OccurrencesFinite
    <3>2. IsFiniteSet({i \in DOMAIN queue : queue[i] = t})
      BY OccurrencesFinite
    <3> QED BY <3>1, <3>2, FS_CardinalityType
  <2>2. cleaned' = [t \in Tasks |-> [userdata |-> cleaned[t].userdata + F(t) + Q(t),
                                     ret |-> cleaned[t].ret + F(t)]]
    BY <1>18 DEF Cleanup
  <2> HIDE DEF F, Q
  <2>3. cleaned' \in [Tasks -> [userdata : Nat, ret : Nat]]
    BY <2>1, <2>2 DEF Types
  <2> QED BY <1>18, <2>3, EmptySeq DEF Cleanup, Types, BusyPc, pool, threads, history
<1>19. CASE Freed
  BY <1>19 DEF Freed, vars, Types, BusyPc, pool, threads, history
<1>20. CASE Tick
  BY <1>20, TimeoutsAssumption DEF Tick, Types, BusyPc, pool, threads, history
<1>21. CASE UNCHANGED vars
  BY <1>21 DEF vars, Types, BusyPc, pool, threads, history
<1> QED
  BY <1>1, <1>2, <1>3, <1>4, <1>5, <1>6, <1>7, <1>8, <1>9, <1>10, <1>11, <1>12,
     <1>13, <1>14, <1>15, <1>16, <1>17, <1>18, <1>19, <1>20, <1>21
  DEF Next, WorkerStep, OwnerStep

\* A thread that has exited stays so, and Join only passes those.
\* Steps of threads that are created and have not exited.
LEMMA LifecycleKept ==
  ASSUME Types, Lifecycle, owner' = owner, ji' = ji,
         \A v \in Workers : pc[v] \in {"exited", "none"} => pc'[v] = pc[v]
  PROVE  Lifecycle'
<1>1. 0 .. ji - 1 \subseteq Workers /\ ji .. NbThreads - 1 \subseteq Workers
  BY NbThreadsAssumption DEF Types, Workers
<1> QED BY <1>1 DEF Lifecycle

LEMMA LifecycleStep ==
  ASSUME Types, Lifecycle, [Next]_vars
  PROVE  Lifecycle'
<1>1. ASSUME NEW w \in Workers, StartWorker(w)
      PROVE  Lifecycle'
  <2>1. owner' = owner /\ ji' = ji
    BY <1>1 DEF StartWorker
  <2>2. \A v \in Workers : pc[v] \in {"exited", "none"} => pc'[v] = pc[v]
    BY <1>1 DEF StartWorker, Types
  <2> QED BY <2>1, <2>2, LifecycleKept
<1>2. ASSUME NEW w \in Workers, Wait(w)
      PROVE  Lifecycle'
  <2>1. owner' = owner /\ ji' = ji
    BY <1>2 DEF Wait
  <2>2. \A v \in Workers : pc[v] \in {"exited", "none"} => pc'[v] = pc[v]
    BY <1>2 DEF Wait, Types
  <2> QED BY <2>1, <2>2, LifecycleKept
<1>3. ASSUME NEW w \in Workers, Take(w)
      PROVE  Lifecycle'
  <2>1. owner' = owner /\ ji' = ji
    BY <1>3 DEF Take
  <2>2. \A v \in Workers : pc[v] \in {"exited", "none"} => pc'[v] = pc[v]
    BY <1>3 DEF Take, Types
  <2> QED BY <2>1, <2>2, LifecycleKept
<1>4. ASSUME NEW w \in Workers, Expire(w)
      PROVE  Lifecycle'
  <2>1. owner' = owner /\ ji' = ji
    BY <1>4 DEF Expire
  <2>2. \A v \in Workers : pc[v] \in {"exited", "none"} => pc'[v] = pc[v]
    BY <1>4 DEF Expire, Types
  <2> QED BY <2>1, <2>2, LifecycleKept
<1>5. ASSUME NEW w \in Workers, Call(w)
      PROVE  Lifecycle'
  <2>1. owner' = owner /\ ji' = ji
    BY <1>5 DEF Call
  <2>2. \A v \in Workers : pc[v] \in {"exited", "none"} => pc'[v] = pc[v]
    BY <1>5 DEF Call, Types
  <2> QED BY <2>1, <2>2, LifecycleKept
<1>6. ASSUME NEW w \in Workers, Return(w)
      PROVE  Lifecycle'
  <2>1. owner' = owner /\ ji' = ji
    BY <1>6 DEF Return
  <2>2. \A v \in Workers : pc[v] \in {"exited", "none"} => pc'[v] = pc[v]
    BY <1>6 DEF Return, Types
  <2> QED BY <2>1, <2>2, LifecycleKept
<1>7. ASSUME NEW w \in Workers, Finish(w)
      PROVE  Lifecycle'
  <2>1. owner' = owner /\ ji' = ji
    BY <1>7 DEF Finish
  <2>2. \A v \in Workers : pc[v] \in {"exited", "none"} => pc'[v] = pc[v]
    BY <1>7 DEF Finish, Types
  <2> QED BY <2>1, <2>2, LifecycleKept
<1>8. ASSUME NEW w \in Workers, Exit(w)
      PROVE  Lifecycle'
  <2>1. owner' = owner /\ ji' = ji
    BY <1>8 DEF Exit
  <2>2. \A v \in Workers : pc[v] \in {"exited", "none"} => pc'[v] = pc[v]
    BY <1>8 DEF Exit, Types
  <2> QED BY <2>1, <2>2, LifecycleKept
<1>9. ASSUME NEW w \in Workers, SpuriousWakeup(w)
      PROVE  Lifecycle'
  <2>1. owner' = owner /\ ji' = ji
    BY <1>9 DEF SpuriousWakeup
  <2>2. \A v \in Workers : pc[v] \in {"exited", "none"} => pc'[v] = pc[v]
    BY <1>9 DEF SpuriousWakeup, Types
  <2> QED BY <2>1, <2>2, LifecycleKept
<1>10. ASSUME NEW t \in Tasks, NEW timeout \in Timeouts, AddTask(t, timeout)
      PROVE  Lifecycle'
  <2>1. owner' = owner /\ ji' = ji
    BY <1>10 DEF AddTask
  <2>2. \A w \in Workers : pc[w] \in {"exited", "none"} => pc'[w] = pc[w]
    BY <1>10 DEF AddTask, Broadcast
  <2>3. 0 .. ji - 1 \subseteq Workers /\ ji .. NbThreads - 1 \subseteq Workers
    BY NbThreadsAssumption DEF Types, Workers
  <2> QED BY <2>1, <2>2, <2>3 DEF Lifecycle
<1>11. CASE CreateThread
  BY <1>11, NbThreadsAssumption DEF CreateThread, Workers, Lifecycle, Types, pool, threads, history
<1>12. CASE NewReturns
  BY <1>12, NbThreadsAssumption DEF NewReturns, Workers, Lifecycle, Types, pool, threads, history
<1>13. CASE NewSpins
  BY <1>13 DEF NewSpins, vars, Lifecycle, Types, pool, threads, history
<1>14. CASE Poll
  BY <1>14, NbThreadsAssumption DEF Poll, Workers, Lifecycle, Types, pool, threads, history
<1>15. ASSUME NEW call \in {"joining", "freeing"}, BeginStop(call)
      PROVE  Lifecycle'
  BY <1>15, NbThreadsAssumption DEF BeginStop, Broadcast, Workers, Lifecycle, Types, pool, threads, history
<1>16. CASE Join
  BY <1>16, NbThreadsAssumption DEF Join, Workers, Lifecycle, Types, pool, threads, history
<1>17. CASE StopReturns
  BY <1>17, NbThreadsAssumption DEF StopReturns, Workers, Lifecycle, Types, pool, threads, history
<1>18. CASE Cleanup
  BY <1>18, NbThreadsAssumption DEF Cleanup, Workers, Lifecycle, Types, pool, threads, history
<1>19. CASE Freed
  BY <1>19 DEF Freed, vars, Lifecycle, Types, pool, threads, history
<1>20. CASE Tick
  BY <1>20, NbThreadsAssumption DEF Tick, Workers, Lifecycle, Types, pool, threads, history
<1>21. CASE UNCHANGED vars
  BY <1>21 DEF vars, Lifecycle, Types, pool, threads, history
<1> QED
  BY <1>1, <1>2, <1>3, <1>4, <1>5, <1>6, <1>7, <1>8, <1>9, <1>10, <1>11, <1>12,
     <1>13, <1>14, <1>15, <1>16, <1>17, <1>18, <1>19, <1>20, <1>21
  DEF Next, WorkerStep, OwnerStep

\* Only AddTask and BeginStop give sleeping threads something to do, and both wake them all.
LEMMA NoLostWakeupStep ==
  ASSUME Types, NoLostWakeup, [Next]_vars
  PROVE  NoLostWakeup'
<1>1. ASSUME NEW w \in Workers, StartWorker(w)
      PROVE  NoLostWakeup'
  BY <1>1 DEF StartWorker, NoLostWakeup, Types, pool, threads, history
<1>2. ASSUME NEW w \in Workers, Wait(w)
      PROVE  NoLostWakeup'
  BY <1>2 DEF Wait, NoLostWakeup, Types, pool, threads, history
<1>3. ASSUME NEW w \in Workers, Take(w)
      PROVE  NoLostWakeup'
  BY <1>3 DEF Take, NoLostWakeup, Types, pool, threads, history
<1>4. ASSUME NEW w \in Workers, Expire(w)
      PROVE  NoLostWakeup'
  BY <1>4 DEF Expire, NoLostWakeup, Types, pool, threads, history
<1>5. ASSUME NEW w \in Workers, Call(w)
      PROVE  NoLostWakeup'
  BY <1>5 DEF Call, NoLostWakeup, Types, pool, threads, history
<1>6. ASSUME NEW w \in Workers, Return(w)
      PROVE  NoLostWakeup'
  BY <1>6 DEF Return, NoLostWakeup, Types, pool, threads, history
<1>7. ASSUME NEW w \in Workers, Finish(w)
      PROVE  NoLostWakeup'
  BY <1>7 DEF Finish, NoLostWakeup, Types, pool, threads, history
<1>8. ASSUME NEW w \in Workers, Exit(w)
      PROVE  NoLostWakeup'
  BY <1>8 DEF Exit, NoLostWakeup, Types, pool, threads, history
<1>9. ASSUME NEW w \in Workers, SpuriousWakeup(w)
      PROVE  NoLostWakeup'
  BY <1>9 DEF SpuriousWakeup, NoLostWakeup, Types, pool, threads, history
<1>10. ASSUME NEW t \in Tasks, NEW timeout \in Timeouts, AddTask(t, timeout)
      PROVE  NoLostWakeup'
  BY <1>10 DEF AddTask, Broadcast, NoLostWakeup, Types, pool, threads, history
<1>11. CASE CreateThread
  BY <1>11 DEF CreateThread, NoLostWakeup, Types, pool, threads, history
<1>12. CASE NewReturns
  BY <1>12 DEF NewReturns, NoLostWakeup, Types, pool, threads, history
<1>13. CASE NewSpins
  BY <1>13 DEF NewSpins, vars, NoLostWakeup, Types, pool, threads, history
<1>14. CASE Poll
  BY <1>14 DEF Poll, NoLostWakeup, Types, pool, threads, history
<1>15. ASSUME NEW call \in {"joining", "freeing"}, BeginStop(call)
      PROVE  NoLostWakeup'
  BY <1>15 DEF BeginStop, Broadcast, NoLostWakeup, Types, pool, threads, history
<1>16. CASE Join
  BY <1>16 DEF Join, NoLostWakeup, Types, pool, threads, history
<1>17. CASE StopReturns
  BY <1>17 DEF StopReturns, NoLostWakeup, Types, pool, threads, history
<1>18. CASE Cleanup
  BY <1>18 DEF Cleanup, NoLostWakeup, Types, pool, threads, history
<1>19. CASE Freed
  BY <1>19 DEF Freed, vars, NoLostWakeup, Types, pool, threads, history
<1>20. CASE Tick
  BY <1>20 DEF Tick, NoLostWakeup, Types, pool, threads, history
<1>21. CASE UNCHANGED vars
  BY <1>21 DEF vars, NoLostWakeup, Types, pool, threads, history
<1> QED
  BY <1>1, <1>2, <1>3, <1>4, <1>5, <1>6, <1>7, <1>8, <1>9, <1>10, <1>11, <1>12,
     <1>13, <1>14, <1>15, <1>16, <1>17, <1>18, <1>19, <1>20, <1>21
  DEF Next, WorkerStep, OwnerStep

-----------------------------------------------------------------------------
(* Counters *)

Registered == {w \in Workers : pc[w] \in {"idle", "waiting"} \cup BusyPc}

LEMMA WorkerSets ==
  /\ IsFiniteSet(Workers) /\ Cardinality(Workers) = NbThreads
  /\ IsFiniteSet(Busy) /\ IsFiniteSet(Registered)
  /\ Cardinality(Busy) \in 0 .. NbThreads /\ Cardinality(Registered) \in 0 .. NbThreads
<1>1. IsFiniteSet(Workers) /\ Cardinality(Workers) = NbThreads
  BY FS_Interval, NbThreadsAssumption DEF Workers
<1>2. Busy \subseteq Workers /\ Registered \subseteq Workers
  BY DEF Busy, Registered
<1>3. /\ IsFiniteSet(Busy) /\ IsFiniteSet(Registered)
      /\ Cardinality(Busy) <= NbThreads /\ Cardinality(Registered) <= NbThreads
  BY <1>1, <1>2, FS_Subset
<1>4. Cardinality(Busy) \in Nat /\ Cardinality(Registered) \in Nat
  BY <1>3, FS_CardinalityType
<1> QED BY <1>1, <1>3, <1>4, NbThreadsAssumption

\* live and running follow the threads that are registered and busy.
LEMMA CountersStep ==
  ASSUME Types, Lifecycle, CountersExact, [Next]_vars
  PROVE  CountersExact'
<1>1. ASSUME NEW w \in Workers, StartWorker(w)
      PROVE  CountersExact'
  <2>1. Registered' = Registered \cup {w} /\ w \notin Registered /\ Busy' = Busy
    BY <1>1 DEF StartWorker, Busy, Registered, BusyPc, Types
  <2>2. Cardinality(Registered \cup {w}) = Cardinality(Registered) + 1
    BY <2>1, WorkerSets, FS_AddElement
  <2>3. live' = live + 1 /\ running' = running
    BY <1>1 DEF StartWorker
  <2> QED BY <2>1, <2>2, <2>3 DEF CountersExact, Registered
<1>2. ASSUME NEW w \in Workers, Wait(w)
      PROVE  CountersExact'
  <2>1. Registered' = Registered /\ Busy' = Busy
    BY <1>2 DEF Wait, pool, threads, history, Busy, Registered, BusyPc, Types
  <2>2. live' = live /\ running' = running
    BY <1>2 DEF Wait, pool, threads, history
  <2> QED BY <2>1, <2>2 DEF CountersExact, Registered
<1>3. ASSUME NEW w \in Workers, Take(w)
      PROVE  CountersExact'
  <2>0. /\ pc[w] = "idle" /\ pc'[w] = "popped"
        /\ \A v \in Workers \ {w} : pc'[v] = pc[v]
    BY <1>3 DEF Take, Types
  <2>1. Busy' = Busy \cup {w} /\ w \notin Busy /\ Registered' = Registered
    BY <2>0 DEF Busy, Registered, BusyPc
  <2>2. Cardinality(Busy \cup {w}) = Cardinality(Busy) + 1
    BY <2>1, WorkerSets, FS_AddElement
  <2>3. running' = running + 1 /\ live' = live
    BY <1>3 DEF Take
  <2> QED BY <2>1, <2>2, <2>3 DEF CountersExact, Registered
<1>4. ASSUME NEW w \in Workers, Expire(w)
      PROVE  CountersExact'
  <2>1. Registered' = Registered /\ Busy' = Busy
    BY <1>4 DEF Expire, pool, threads, history, Busy, Registered, BusyPc, Types
  <2>2. live' = live /\ running' = running
    BY <1>4 DEF Expire, pool, threads, history
  <2> QED BY <2>1, <2>2 DEF CountersExact, Registered
<1>5. ASSUME NEW w \in Workers, Call(w)
      PROVE  CountersExact'
  <2>1. Registered' = Registered /\ Busy' = Busy
    BY <1>5 DEF Call, pool, threads, history, Busy, Registered, BusyPc, Types
  <2>2. live' = live /\ running' = running
    BY <1>5 DEF Call, pool, threads, history
  <2> QED BY <2>1, <2>2 DEF CountersExact, Registered
<1>6. ASSUME NEW w \in Workers, Return(w)
      PROVE  CountersExact'
  <2>1. Registered' = Registered /\ Busy' = Busy
    BY <1>6 DEF Return, pool, threads, history, Busy, Registered, BusyPc, Types
  <2>2. live' = live /\ running' = running
    BY <1>6 DEF Return, pool, threads, history
  <2> QED BY <2>1, <2>2 DEF CountersExact, Registered
<1>7. ASSUME NEW w \in Workers, Finish(w)
      PROVE  CountersExact'
  <2>1. Busy' = Busy \ {w} /\ w \in Busy /\ Registered' = Registered
    BY <1>7 DEF Finish, Busy, Registered, BusyPc, Types
  <2>2. Cardinality(Busy \ {w}) = Cardinality(Busy) - 1
    BY <2>1, WorkerSets, FS_RemoveElement
  <2>3. running' = running - 1 /\ live' = live
    BY <1>7 DEF Finish
  <2> QED BY <2>1, <2>2, <2>3 DEF CountersExact, Registered
<1>8. ASSUME NEW w \in Workers, Exit(w)
      PROVE  CountersExact'
  <2>1. Registered' = Registered \ {w} /\ w \in Registered /\ Busy' = Busy
    BY <1>8 DEF Exit, Busy, Registered, BusyPc, Types
  <2>2. Cardinality(Registered \ {w}) = Cardinality(Registered) - 1
    BY <2>1, WorkerSets, FS_RemoveElement
  <2>3. live' = live - 1 /\ running' = running
    BY <1>8 DEF Exit
  <2> QED BY <2>1, <2>2, <2>3 DEF CountersExact, Registered
<1>9. ASSUME NEW w \in Workers, SpuriousWakeup(w)
      PROVE  CountersExact'
  <2>1. Registered' = Registered /\ Busy' = Busy
    BY <1>9 DEF SpuriousWakeup, pool, threads, history, Busy, Registered, BusyPc, Types
  <2>2. live' = live /\ running' = running
    BY <1>9 DEF SpuriousWakeup, pool, threads, history
  <2> QED BY <2>1, <2>2 DEF CountersExact, Registered
<1>10. ASSUME NEW t \in Tasks, NEW timeout \in Timeouts, AddTask(t, timeout)
      PROVE  CountersExact'
  <2>1. Registered' = Registered /\ Busy' = Busy
    BY <1>10 DEF AddTask, Broadcast, pool, threads, history, Busy, Registered, BusyPc, Types
  <2>2. live' = live /\ running' = running
    BY <1>10 DEF AddTask, Broadcast, pool, threads, history
  <2> QED BY <2>1, <2>2 DEF CountersExact, Registered
<1>11. CASE CreateThread
  <2>1. ji \in Workers
    BY <1>11, NbThreadsAssumption DEF CreateThread, Workers, Types
  <2>2. pc[ji] = "none"
    BY <1>11, <2>1 DEF CreateThread, Lifecycle, Workers
  <2>3. Registered' = Registered /\ Busy' = Busy
    BY <1>11, <2>1, <2>2 DEF CreateThread, Busy, Registered, BusyPc, Types
  <2>4. live' = live /\ running' = running
    BY <1>11 DEF CreateThread, pool
  <2> QED BY <2>3, <2>4 DEF CountersExact, Registered
<1>12. CASE NewReturns
  <2>1. Registered' = Registered /\ Busy' = Busy
    BY <1>12 DEF NewReturns, pool, threads, history, Busy, Registered, BusyPc, Types
  <2>2. live' = live /\ running' = running
    BY <1>12 DEF NewReturns, pool, threads, history
  <2> QED BY <2>1, <2>2 DEF CountersExact, Registered
<1>13. CASE NewSpins
  <2>1. Registered' = Registered /\ Busy' = Busy
    BY <1>13 DEF NewSpins, vars, pool, threads, history, Busy, Registered, BusyPc, Types
  <2>2. live' = live /\ running' = running
    BY <1>13 DEF NewSpins, vars, pool, threads, history
  <2> QED BY <2>1, <2>2 DEF CountersExact, Registered
<1>14. CASE Poll
  <2>1. Registered' = Registered /\ Busy' = Busy
    BY <1>14 DEF Poll, pool, threads, history, Busy, Registered, BusyPc, Types
  <2>2. live' = live /\ running' = running
    BY <1>14 DEF Poll, pool, threads, history
  <2> QED BY <2>1, <2>2 DEF CountersExact, Registered
<1>15. ASSUME NEW call \in {"joining", "freeing"}, BeginStop(call)
      PROVE  CountersExact'
  <2>1. Registered' = Registered /\ Busy' = Busy
    BY <1>15 DEF BeginStop, Broadcast, pool, threads, history, Busy, Registered, BusyPc, Types
  <2>2. live' = live /\ running' = running
    BY <1>15 DEF BeginStop, Broadcast, pool, threads, history
  <2> QED BY <2>1, <2>2 DEF CountersExact, Registered
<1>16. CASE Join
  <2>1. Registered' = Registered /\ Busy' = Busy
    BY <1>16 DEF Join, pool, threads, history, Busy, Registered, BusyPc, Types
  <2>2. live' = live /\ running' = running
    BY <1>16 DEF Join, pool, threads, history
  <2> QED BY <2>1, <2>2 DEF CountersExact, Registered
<1>17. CASE StopReturns
  <2>1. Registered' = Registered /\ Busy' = Busy
    BY <1>17 DEF StopReturns, pool, threads, history, Busy, Registered, BusyPc, Types
  <2>2. live' = live /\ running' = running
    BY <1>17 DEF StopReturns, pool, threads, history
  <2> QED BY <2>1, <2>2 DEF CountersExact, Registered
<1>18. CASE Cleanup
  <2>1. Registered' = Registered /\ Busy' = Busy
    BY <1>18 DEF Cleanup, pool, threads, history, Busy, Registered, BusyPc, Types
  <2>2. live' = live /\ running' = running
    BY <1>18 DEF Cleanup, pool, threads, history
  <2> QED BY <2>1, <2>2 DEF CountersExact, Registered
<1>19. CASE Freed
  <2>1. Registered' = Registered /\ Busy' = Busy
    BY <1>19 DEF Freed, vars, pool, threads, history, Busy, Registered, BusyPc, Types
  <2>2. live' = live /\ running' = running
    BY <1>19 DEF Freed, vars, pool, threads, history
  <2> QED BY <2>1, <2>2 DEF CountersExact, Registered
<1>20. CASE Tick
  <2>1. Registered' = Registered /\ Busy' = Busy
    BY <1>20 DEF Tick, pool, threads, history, Busy, Registered, BusyPc, Types
  <2>2. live' = live /\ running' = running
    BY <1>20 DEF Tick, pool, threads, history
  <2> QED BY <2>1, <2>2 DEF CountersExact, Registered
<1>21. CASE UNCHANGED vars
  <2>1. Registered' = Registered /\ Busy' = Busy
    BY <1>21 DEF vars, pool, threads, history, Busy, Registered, BusyPc, Types
  <2>2. live' = live /\ running' = running
    BY <1>21 DEF vars, pool, threads, history
  <2> QED BY <2>1, <2>2 DEF CountersExact, Registered
<1> QED
  BY <1>1, <1>2, <1>3, <1>4, <1>5, <1>6, <1>7, <1>8, <1>9, <1>10, <1>11, <1>12,
     <1>13, <1>14, <1>15, <1>16, <1>17, <1>18, <1>19, <1>20, <1>21
  DEF Next, WorkerStep, OwnerStep

-----------------------------------------------------------------------------
(* Order *)

LEMMA AppendConcat ==
  ASSUME NEW S, NEW s \in Seq(S), NEW q \in Seq(S), NEW e \in S
  PROVE  s \o Append(q, e) = Append(s \o q, e)
<1> DEFINE a == Append(q, e)  b == s \o a  c == s \o q  d == Append(c, e)
<1>1. a \in Seq(S) /\ Len(a) = Len(q) + 1 /\ a[Len(q) + 1] = e
      /\ \A i \in 1 .. Len(q) : a[i] = q[i]
  BY AppendProperties
<1>2. c \in Seq(S) /\ Len(c) = Len(s) + Len(q)
      /\ \A i \in 1 .. Len(s) + Len(q) : c[i] = IF i <= Len(s) THEN s[i] ELSE q[i - Len(s)]
  BY ConcatProperties
<1>3. b \in Seq(S) /\ Len(b) = Len(s) + Len(a)
      /\ \A i \in 1 .. Len(s) + Len(a) : b[i] = IF i <= Len(s) THEN s[i] ELSE a[i - Len(s)]
  BY <1>1, ConcatProperties
<1>4. d \in Seq(S) /\ Len(d) = Len(c) + 1 /\ d[Len(c) + 1] = e
      /\ \A i \in 1 .. Len(c) : d[i] = c[i]
  BY <1>2, AppendProperties
<1>5. Len(s) \in Nat /\ Len(q) \in Nat
  OBVIOUS
<1> HIDE DEF a, b, c, d
<1>6. Len(b) = Len(d)
  <2>1. Len(b) = Len(s) + (Len(q) + 1) /\ Len(d) = (Len(s) + Len(q)) + 1
    BY <1>1, <1>2, <1>3, <1>4, Zenon
  <2> QED BY <1>5, <2>1
<1>7. ASSUME NEW i \in 1 .. Len(b) PROVE b[i] = d[i]
  <2>0. i \in 1 .. Len(s) + Len(a) /\ i \in 1 .. Len(s) + Len(q) + 1
    BY <1>1, <1>3, <1>5
  <2>1. CASE i <= Len(s)
    <3>1. i \in 1 .. Len(s) + Len(q) /\ i \in 1 .. Len(c)
      BY <1>2, <1>5, <2>0, <2>1
    <3>2. b[i] = s[i] /\ c[i] = s[i] /\ d[i] = c[i]
      BY <1>2, <1>3, <1>4, <2>0, <2>1, <3>1
    <3> QED BY <3>2
  <2>2. CASE i = Len(s) + Len(q) + 1
    <3>1. ~(i <= Len(s)) /\ i - Len(s) = Len(q) + 1 /\ i = Len(c) + 1
      BY <1>2, <1>5, <2>2
    <3>2. b[i] = a[Len(q) + 1] /\ d[i] = e
      BY <1>3, <1>4, <2>0, <3>1
    <3> QED BY <1>1, <3>2
  <2>3. CASE i > Len(s) /\ i <= Len(s) + Len(q)
    <3>1. i - Len(s) \in 1 .. Len(q)
      BY <2>3, <1>5
    <3>2. b[i] = a[i - Len(s)] /\ a[i - Len(s)] = q[i - Len(s)]
      <4>1. ~(i <= Len(s))
        BY <1>5, <2>3
      <4> QED BY <1>1, <1>3, <2>0, <3>1, <4>1
    <3>3. d[i] = c[i] /\ c[i] = q[i - Len(s)]
      BY <2>3, <1>2, <1>4, <1>5
    <3> QED BY <3>2, <3>3
  <2> QED BY <2>1, <2>2, <2>3, <1>1, <1>3, <1>5
<1>8. b = d
  BY <1>3, <1>4, <1>6, <1>7, SeqEqual
<1> QED BY <1>8 DEF a, b, c, d

\* A task leaves the queue only at its head and enters it only at its end.
LEMMA OrderStep ==
  ASSUME Types, Order, [Next]_vars
  PROVE  Order'
<1>1. ASSUME NEW w \in Workers, StartWorker(w)
      PROVE  Order'
  <2>1. submitted' = submitted /\ (owner' # "freed" => owner # "freed" /\ UNCHANGED <<taken, queue>>)
    BY <1>1 DEF StartWorker, pool, threads, history
  <2> QED BY <2>1 DEF Order, SubmissionOrder, Inj
<1>2. ASSUME NEW w \in Workers, Wait(w)
      PROVE  Order'
  <2>1. submitted' = submitted /\ (owner' # "freed" => owner # "freed" /\ UNCHANGED <<taken, queue>>)
    BY <1>2 DEF Wait, pool, threads, history
  <2> QED BY <2>1 DEF Order, SubmissionOrder, Inj
<1>3. ASSUME NEW w \in Workers, Take(w)
      PROVE  Order'
  <2>1. Append(taken, Head(queue)) \o Tail(queue) = taken \o queue
    BY <1>3, TakeMoves DEF Take, Types
  <2>2. /\ submitted' = submitted /\ owner' = owner
        /\ taken' = Append(taken, Head(queue)) /\ queue' = Tail(queue)
    BY <1>3 DEF Take
  <2> QED BY <2>1, <2>2 DEF Order, SubmissionOrder, Inj
<1>4. ASSUME NEW w \in Workers, Expire(w)
      PROVE  Order'
  <2>1. submitted' = submitted /\ (owner' # "freed" => owner # "freed" /\ UNCHANGED <<taken, queue>>)
    BY <1>4 DEF Expire, pool, threads, history
  <2> QED BY <2>1 DEF Order, SubmissionOrder, Inj
<1>5. ASSUME NEW w \in Workers, Call(w)
      PROVE  Order'
  <2>1. submitted' = submitted /\ (owner' # "freed" => owner # "freed" /\ UNCHANGED <<taken, queue>>)
    BY <1>5 DEF Call, pool, threads, history
  <2> QED BY <2>1 DEF Order, SubmissionOrder, Inj
<1>6. ASSUME NEW w \in Workers, Return(w)
      PROVE  Order'
  <2>1. submitted' = submitted /\ (owner' # "freed" => owner # "freed" /\ UNCHANGED <<taken, queue>>)
    BY <1>6 DEF Return, pool, threads, history
  <2> QED BY <2>1 DEF Order, SubmissionOrder, Inj
<1>7. ASSUME NEW w \in Workers, Finish(w)
      PROVE  Order'
  <2>1. submitted' = submitted /\ (owner' # "freed" => owner # "freed" /\ UNCHANGED <<taken, queue>>)
    BY <1>7 DEF Finish, pool, threads, history
  <2> QED BY <2>1 DEF Order, SubmissionOrder, Inj
<1>8. ASSUME NEW w \in Workers, Exit(w)
      PROVE  Order'
  <2>1. submitted' = submitted /\ (owner' # "freed" => owner # "freed" /\ UNCHANGED <<taken, queue>>)
    BY <1>8 DEF Exit, pool, threads, history
  <2> QED BY <2>1 DEF Order, SubmissionOrder, Inj
<1>9. ASSUME NEW w \in Workers, SpuriousWakeup(w)
      PROVE  Order'
  <2>1. submitted' = submitted /\ (owner' # "freed" => owner # "freed" /\ UNCHANGED <<taken, queue>>)
    BY <1>9 DEF SpuriousWakeup, pool, threads, history
  <2> QED BY <2>1 DEF Order, SubmissionOrder, Inj
<1>10. ASSUME NEW t \in Tasks, NEW timeout \in Timeouts, AddTask(t, timeout)
      PROVE  Order'
  <2>1. taken \o Append(queue, t) = Append(taken \o queue, t)
    <3> taken \in Seq(Tasks) /\ queue \in Seq(Tasks)
      BY DEF Types
    <3> QED BY AppendConcat
  <2>2. /\ submitted' = Append(submitted, t) /\ owner' = owner
        /\ taken' = taken /\ queue' = Append(queue, t) /\ t \notin Image(submitted)
    BY <1>10 DEF AddTask
  <2>3. Inj(Append(submitted, t))
    BY <2>2, InjAppend DEF Types, Order
  <2> QED BY <2>1, <2>2, <2>3 DEF Order, SubmissionOrder, Inj
<1>11. CASE CreateThread
  <2>1. submitted' = submitted /\ (owner' # "freed" => owner # "freed" /\ UNCHANGED <<taken, queue>>)
    BY <1>11 DEF CreateThread, pool, threads, history
  <2> QED BY <2>1 DEF Order, SubmissionOrder, Inj
<1>12. CASE NewReturns
  BY <1>12 DEF NewReturns, pool, threads, history, Order, SubmissionOrder, Inj
<1>13. CASE NewSpins
  <2>1. submitted' = submitted /\ (owner' # "freed" => owner # "freed" /\ UNCHANGED <<taken, queue>>)
    BY <1>13 DEF NewSpins, vars, pool, threads, history
  <2> QED BY <2>1 DEF Order, SubmissionOrder, Inj
<1>14. CASE Poll
  <2>1. submitted' = submitted /\ (owner' # "freed" => owner # "freed" /\ UNCHANGED <<taken, queue>>)
    BY <1>14 DEF Poll, pool, threads, history
  <2> QED BY <2>1 DEF Order, SubmissionOrder, Inj
<1>15. ASSUME NEW call \in {"joining", "freeing"}, BeginStop(call)
      PROVE  Order'
  BY <1>15 DEF BeginStop, Broadcast, pool, threads, history, Order, SubmissionOrder, Inj
<1>16. CASE Join
  <2>1. submitted' = submitted /\ (owner' # "freed" => owner # "freed" /\ UNCHANGED <<taken, queue>>)
    BY <1>16 DEF Join, pool, threads, history
  <2> QED BY <2>1 DEF Order, SubmissionOrder, Inj
<1>17. CASE StopReturns
  BY <1>17 DEF StopReturns, pool, threads, history, Order, SubmissionOrder, Inj
<1>18. CASE Cleanup
  <2>1. submitted' = submitted /\ (owner' # "freed" => owner # "freed" /\ UNCHANGED <<taken, queue>>)
    BY <1>18 DEF Cleanup, pool, threads, history
  <2> QED BY <2>1 DEF Order, SubmissionOrder, Inj
<1>19. CASE Freed
  <2>1. submitted' = submitted /\ (owner' # "freed" => owner # "freed" /\ UNCHANGED <<taken, queue>>)
    BY <1>19 DEF Freed, vars, pool, threads, history
  <2> QED BY <2>1 DEF Order, SubmissionOrder, Inj
<1>20. CASE Tick
  <2>1. submitted' = submitted /\ (owner' # "freed" => owner # "freed" /\ UNCHANGED <<taken, queue>>)
    BY <1>20 DEF Tick, pool, threads, history
  <2> QED BY <2>1 DEF Order, SubmissionOrder, Inj
<1>21. CASE UNCHANGED vars
  <2>1. submitted' = submitted /\ (owner' # "freed" => owner # "freed" /\ UNCHANGED <<taken, queue>>)
    BY <1>21 DEF vars, pool, threads, history
  <2> QED BY <2>1 DEF Order, SubmissionOrder, Inj
<1> QED
  BY <1>1, <1>2, <1>3, <1>4, <1>5, <1>6, <1>7, <1>8, <1>9, <1>10, <1>11, <1>12,
     <1>13, <1>14, <1>15, <1>16, <1>17, <1>18, <1>19, <1>20, <1>21
  DEF Next, WorkerStep, OwnerStep

-----------------------------------------------------------------------------
(* Apart *)

\* Before free, what was taken and what is queued have nothing in common.
LEMMA QueuedNotTaken ==
  ASSUME Types, Order, owner # "freed"
  PROVE  Image(taken) \cap Image(queue) = {} /\ Image(submitted) = Image(taken) \cup Image(queue)
<1> taken \in Seq(Tasks) /\ queue \in Seq(Tasks)
  BY DEF Types
<1>1. submitted = taken \o queue /\ Inj(taken \o queue)
  BY DEF Order, SubmissionOrder
<1> QED BY <1>1, InjConcat, ImageConcat

LEMMA HeadIsNew ==
  ASSUME Types, Order, Lifecycle, NEW w \in Workers, Take(w)
  PROVE  /\ Head(queue) \in Tasks \ Image(taken)
         /\ Image(taken') = Image(taken) \cup {Head(queue)}
<1>1. owner # "freed"
  BY DEF Take, Lifecycle
<1>2. Head(queue) \in Tasks /\ Head(queue) \in Image(queue)
  BY ImageHeadTail DEF Take, Types
<1>3. Head(queue) \notin Image(taken)
  BY <1>1, <1>2, QueuedNotTaken
<1>4. taken \in Seq(Tasks) /\ taken' = Append(taken, Head(queue))
  BY DEF Take, Types
<1>5. Image(Append(taken, Head(queue))) = Image(taken) \cup {Head(queue)}
  BY <1>2, <1>4, ImageAppend
<1> QED BY <1>2, <1>3, <1>4, <1>5

LEMMA FinishPublishes ==
  ASSUME Types, NEW w \in Workers, Finish(w)
  PROVE  held[w] \in Tasks /\ Published' = Published \cup {held[w]}
<1>1. held[w] \in Tasks
  BY DEF Finish, Types, BusyPc
<1>2. finished \in Seq(Tasks) /\ finished' = Append(finished, held[w]) /\ results' = results
  BY DEF Finish, Types
<1>3. Image(Append(finished, held[w])) = Image(finished) \cup {held[w]}
  BY <1>1, <1>2, ImageAppend
<1> QED BY <1>1, <1>2, <1>3 DEF Published, Image

LEMMA PollPublishesNothing ==
  ASSUME Types, Poll
  PROVE  Published' = Published
<1>1. /\ finished \in Seq(Tasks) /\ results \in Seq(Tasks)
      /\ results' = results \o finished /\ finished' = <<>>
  BY DEF Poll, Types
<1>2. Image(results \o finished) = Image(results) \cup Image(finished)
  BY <1>1, ImageConcat
<1>3. Image(finished)' = {} /\ Image(results)' = Image(results \o finished)
  BY <1>1, ImageEmpty DEF Image
<1> QED BY <1>2, <1>3 DEF Published

LEMMA CleanupUnpublishes ==
  ASSUME Types, Cleanup
  PROVE  Published' = Image(results)
<1>1. finished' = <<>> /\ results' = results
  BY DEF Cleanup
<1>2. Image(finished)' = {} /\ Image(results)' = Image(results)
  BY <1>1, ImageEmpty DEF Image
<1> QED BY <1>2 DEF Published

\* When all threads are joined none of them holds a task.
LEMMA NobodyBusy ==
  ASSUME Types, Lifecycle, owner = "freeing", ji = NbThreads
  PROVE  \A w \in Workers : pc[w] \notin BusyPc
  BY NbThreadsAssumption DEF Lifecycle, Workers, BusyPc

\* Steps that touch neither the tasks in the workers' hands nor the lists.
LEMMA ApartFrame ==
  ASSUME Apart, Busy' = Busy, Published' = Published, taken' = taken,
         \A w \in Busy : held'[w] = held[w], owner' # "freed" => owner # "freed"
  PROVE  Apart'
<1>1. Image(taken)' = Image(taken)
  BY DEF Image
<1> QED BY <1>1 DEF Apart

\* Take gives a worker a task nobody has; Finish moves it from the worker to finished.
LEMMA ApartStep ==
  ASSUME Types, Lifecycle, Order, Apart, [Next]_vars
  PROVE  Apart'
<1>1. ASSUME NEW w \in Workers, StartWorker(w)
      PROVE  Apart'
  <2>3. Busy' = Busy
    BY <1>1 DEF StartWorker, pool, threads, history, Busy, BusyPc, Types
  <2>4. Published' = Published
    BY <1>1 DEF StartWorker, pool, threads, history, Published, Image
  <2>5. /\ taken' = taken /\ \A v \in Busy : held'[v] = held[v]
        /\ owner' # "freed" => owner # "freed"
    BY <1>1 DEF StartWorker, pool, threads, history
  <2> QED BY <2>3, <2>4, <2>5, ApartFrame
<1>2. ASSUME NEW w \in Workers, Wait(w)
      PROVE  Apart'
  <2>3. Busy' = Busy
    BY <1>2 DEF Wait, pool, threads, history, Busy, BusyPc, Types
  <2>4. Published' = Published
    BY <1>2 DEF Wait, pool, threads, history, Published, Image
  <2>5. /\ taken' = taken /\ \A v \in Busy : held'[v] = held[v]
        /\ owner' # "freed" => owner # "freed"
    BY <1>2 DEF Wait, pool, threads, history
  <2> QED BY <2>3, <2>4, <2>5, ApartFrame
<1>3. ASSUME NEW w \in Workers, Take(w)
      PROVE  Apart'
  <2>1. Head(queue) \in Tasks \ Image(taken) /\ Image(taken)' = Image(taken) \cup {Head(queue)}
    BY <1>3, HeadIsNew DEF Image
  <2>2. Busy' = Busy \cup {w} /\ w \notin Busy
    BY <1>3 DEF Take, Busy, BusyPc, Types
  <2>3. held'[w] = Head(queue) /\ \A v \in Busy : held'[v] = held[v]
    BY <1>3, <2>2 DEF Take, Types, Busy
  <2>4. Published' = Published /\ owner' = owner
    BY <1>3 DEF Take, Published, Image
  <2> QED BY <2>1, <2>2, <2>3, <2>4 DEF Apart
<1>4. ASSUME NEW w \in Workers, Expire(w)
      PROVE  Apart'
  <2>3. Busy' = Busy
    BY <1>4 DEF Expire, pool, threads, history, Busy, BusyPc, Types
  <2>4. Published' = Published
    BY <1>4 DEF Expire, pool, threads, history, Published, Image
  <2>5. /\ taken' = taken /\ \A v \in Busy : held'[v] = held[v]
        /\ owner' # "freed" => owner # "freed"
    BY <1>4 DEF Expire, pool, threads, history
  <2> QED BY <2>3, <2>4, <2>5, ApartFrame
<1>5. ASSUME NEW w \in Workers, Call(w)
      PROVE  Apart'
  <2>3. Busy' = Busy
    BY <1>5 DEF Call, pool, threads, history, Busy, BusyPc, Types
  <2>4. Published' = Published
    BY <1>5 DEF Call, pool, threads, history, Published, Image
  <2>5. /\ taken' = taken /\ \A v \in Busy : held'[v] = held[v]
        /\ owner' # "freed" => owner # "freed"
    BY <1>5 DEF Call, pool, threads, history
  <2> QED BY <2>3, <2>4, <2>5, ApartFrame
<1>6. ASSUME NEW w \in Workers, Return(w)
      PROVE  Apart'
  <2>3. Busy' = Busy
    BY <1>6 DEF Return, pool, threads, history, Busy, BusyPc, Types
  <2>4. Published' = Published
    BY <1>6 DEF Return, pool, threads, history, Published, Image
  <2>5. /\ taken' = taken /\ \A v \in Busy : held'[v] = held[v]
        /\ owner' # "freed" => owner # "freed"
    BY <1>6 DEF Return, pool, threads, history
  <2> QED BY <2>3, <2>4, <2>5, ApartFrame
<1>7. ASSUME NEW w \in Workers, Finish(w)
      PROVE  Apart'
  <2>1. Published' = Published \cup {held[w]}
    BY <1>7, FinishPublishes
  <2>2. Busy' = Busy \ {w} /\ w \in Busy
    BY <1>7 DEF Finish, Busy, BusyPc, Types
  <2>3. \A v \in Busy' : held'[v] = held[v]
    BY <1>7, <2>2 DEF Finish, Types, Busy
  <2>4. Image(taken)' = Image(taken) /\ owner' = owner
    BY <1>7 DEF Finish, history, Image
  <2> QED BY <2>1, <2>2, <2>3, <2>4 DEF Apart
<1>8. ASSUME NEW w \in Workers, Exit(w)
      PROVE  Apart'
  <2>3. Busy' = Busy
    BY <1>8 DEF Exit, pool, threads, history, Busy, BusyPc, Types
  <2>4. Published' = Published
    BY <1>8 DEF Exit, pool, threads, history, Published, Image
  <2>5. /\ taken' = taken /\ \A v \in Busy : held'[v] = held[v]
        /\ owner' # "freed" => owner # "freed"
    BY <1>8 DEF Exit, pool, threads, history
  <2> QED BY <2>3, <2>4, <2>5, ApartFrame
<1>9. ASSUME NEW w \in Workers, SpuriousWakeup(w)
      PROVE  Apart'
  <2>3. Busy' = Busy
    BY <1>9 DEF SpuriousWakeup, pool, threads, history, Busy, BusyPc, Types
  <2>4. Published' = Published
    BY <1>9 DEF SpuriousWakeup, pool, threads, history, Published, Image
  <2>5. /\ taken' = taken /\ \A v \in Busy : held'[v] = held[v]
        /\ owner' # "freed" => owner # "freed"
    BY <1>9 DEF SpuriousWakeup, pool, threads, history
  <2> QED BY <2>3, <2>4, <2>5, ApartFrame
<1>10. ASSUME NEW t \in Tasks, NEW timeout \in Timeouts, AddTask(t, timeout)
      PROVE  Apart'
  <2>3. Busy' = Busy
    BY <1>10 DEF AddTask, Broadcast, pool, threads, history, Busy, BusyPc, Types
  <2>4. Published' = Published
    BY <1>10 DEF AddTask, Broadcast, pool, threads, history, Published, Image
  <2>5. /\ taken' = taken /\ \A v \in Busy : held'[v] = held[v]
        /\ owner' # "freed" => owner # "freed"
    BY <1>10 DEF AddTask, Broadcast, pool, threads, history
  <2> QED BY <2>3, <2>4, <2>5, ApartFrame
<1>11. CASE CreateThread
  <2>1. ji \in Workers
    BY <1>11, NbThreadsAssumption DEF CreateThread, Workers, Types
  <2>2. pc[ji] = "none"
    BY <1>11, <2>1 DEF CreateThread, Lifecycle, Workers
  <2>3. Busy' = Busy
    BY <1>11, <2>1, <2>2 DEF CreateThread, Busy, BusyPc, Types
  <2>4. Published' = Published
    BY <1>11 DEF CreateThread, pool, threads, history, Published, Image
  <2>5. /\ taken' = taken /\ \A v \in Busy : held'[v] = held[v]
        /\ owner' # "freed" => owner # "freed"
    BY <1>11 DEF CreateThread, pool, threads, history
  <2> QED BY <2>3, <2>4, <2>5, ApartFrame
<1>12. CASE NewReturns
  <2>3. Busy' = Busy
    BY <1>12 DEF NewReturns, pool, threads, history, Busy, BusyPc, Types
  <2>4. Published' = Published
    BY <1>12 DEF NewReturns, pool, threads, history, Published, Image
  <2>5. /\ taken' = taken /\ \A v \in Busy : held'[v] = held[v]
        /\ owner' # "freed" => owner # "freed"
    BY <1>12 DEF NewReturns, pool, threads, history
  <2> QED BY <2>3, <2>4, <2>5, ApartFrame
<1>13. CASE NewSpins
  <2>3. Busy' = Busy
    BY <1>13 DEF NewSpins, vars, pool, threads, history, Busy, BusyPc, Types
  <2>4. Published' = Published
    BY <1>13 DEF NewSpins, vars, pool, threads, history, Published, Image
  <2>5. /\ taken' = taken /\ \A v \in Busy : held'[v] = held[v]
        /\ owner' # "freed" => owner # "freed"
    BY <1>13 DEF NewSpins, vars, pool, threads, history
  <2> QED BY <2>3, <2>4, <2>5, ApartFrame
<1>14. CASE Poll
  <2>3. Busy' = Busy
    BY <1>14 DEF Poll, pool, threads, history, Busy, BusyPc, Types
  <2>4. Published' = Published
    BY <1>14, PollPublishesNothing
  <2>5. /\ taken' = taken /\ \A v \in Busy : held'[v] = held[v]
        /\ owner' # "freed" => owner # "freed"
    BY <1>14 DEF Poll, pool, threads, history
  <2> QED BY <2>3, <2>4, <2>5, ApartFrame
<1>15. ASSUME NEW call \in {"joining", "freeing"}, BeginStop(call)
      PROVE  Apart'
  <2>3. Busy' = Busy
    BY <1>15 DEF BeginStop, Broadcast, pool, threads, history, Busy, BusyPc, Types
  <2>4. Published' = Published
    BY <1>15 DEF BeginStop, Broadcast, pool, threads, history, Published, Image
  <2>5. /\ taken' = taken /\ \A v \in Busy : held'[v] = held[v]
        /\ owner' # "freed" => owner # "freed"
    BY <1>15 DEF BeginStop, Broadcast, pool, threads, history
  <2> QED BY <2>3, <2>4, <2>5, ApartFrame
<1>16. CASE Join
  <2>3. Busy' = Busy
    BY <1>16 DEF Join, pool, threads, history, Busy, BusyPc, Types
  <2>4. Published' = Published
    BY <1>16 DEF Join, pool, threads, history, Published, Image
  <2>5. /\ taken' = taken /\ \A v \in Busy : held'[v] = held[v]
        /\ owner' # "freed" => owner # "freed"
    BY <1>16 DEF Join, pool, threads, history
  <2> QED BY <2>3, <2>4, <2>5, ApartFrame
<1>17. CASE StopReturns
  <2>3. Busy' = Busy
    BY <1>17 DEF StopReturns, pool, threads, history, Busy, BusyPc, Types
  <2>4. Published' = Published
    BY <1>17 DEF StopReturns, pool, threads, history, Published, Image
  <2>5. /\ taken' = taken /\ \A v \in Busy : held'[v] = held[v]
        /\ owner' # "freed" => owner # "freed"
    BY <1>17 DEF StopReturns, pool, threads, history
  <2> QED BY <2>3, <2>4, <2>5, ApartFrame
<1>18. CASE Cleanup
  <2>1. Busy' = {} /\ owner' = "freed"
    BY <1>18, NobodyBusy DEF Cleanup, threads, Busy
  <2>2. Published' \subseteq Published /\ Image(taken)' = Image(taken)
    BY <1>18, CleanupUnpublishes DEF Cleanup, Published, Image
  <2> QED BY <2>1, <2>2 DEF Apart
<1>19. CASE Freed
  <2>3. Busy' = Busy
    BY <1>19 DEF Freed, vars, pool, threads, history, Busy, BusyPc, Types
  <2>4. Published' = Published
    BY <1>19 DEF Freed, vars, pool, threads, history, Published, Image
  <2>5. /\ taken' = taken /\ \A v \in Busy : held'[v] = held[v]
        /\ owner' # "freed" => owner # "freed"
    BY <1>19 DEF Freed, vars, pool, threads, history
  <2> QED BY <2>3, <2>4, <2>5, ApartFrame
<1>20. CASE Tick
  <2>3. Busy' = Busy
    BY <1>20 DEF Tick, pool, threads, history, Busy, BusyPc, Types
  <2>4. Published' = Published
    BY <1>20 DEF Tick, pool, threads, history, Published, Image
  <2>5. /\ taken' = taken /\ \A v \in Busy : held'[v] = held[v]
        /\ owner' # "freed" => owner # "freed"
    BY <1>20 DEF Tick, pool, threads, history
  <2> QED BY <2>3, <2>4, <2>5, ApartFrame
<1>21. CASE UNCHANGED vars
  <2>3. Busy' = Busy
    BY <1>21 DEF vars, pool, threads, history, Busy, BusyPc, Types
  <2>4. Published' = Published
    BY <1>21 DEF vars, pool, threads, history, Published, Image
  <2>5. /\ taken' = taken /\ \A v \in Busy : held'[v] = held[v]
        /\ owner' # "freed" => owner # "freed"
    BY <1>21 DEF vars, pool, threads, history
  <2> QED BY <2>3, <2>4, <2>5, ApartFrame
<1> QED
  BY <1>1, <1>2, <1>3, <1>4, <1>5, <1>6, <1>7, <1>8, <1>9, <1>10, <1>11, <1>12,
     <1>13, <1>14, <1>15, <1>16, <1>17, <1>18, <1>19, <1>20, <1>21
  DEF Next, WorkerStep, OwnerStep

-----------------------------------------------------------------------------
(* Outcomes *)

LEMMA PublishedAreTasks ==
  ASSUME Types
  PROVE  Published \subseteq Tasks
<1>1. finished \in Seq(Tasks) /\ results \in Seq(Tasks)
  BY DEF Types
<1>2. Image(finished) \subseteq Tasks
  BY <1>1, ImageIn
<1>3. Image(results) \subseteq Tasks
  BY <1>1, ImageIn
<1> QED BY <1>2, <1>3 DEF Published

\* Steps that change nothing of a task but, perhaps, let time pass.
LEMMA OutcomesFrame ==
  ASSUME Types, Outcomes, task' = task, ran' = ran, taken' = taken,
         now' \in Nat, now <= now', Published' \subseteq Published,
         \A w \in Workers : pc'[w] \in {"popped", "exec", "finish"} =>
                              pc'[w] = pc[w] /\ held'[w] = held[w]
  PROVE  Outcomes'
<1>1. \A t : Fresh(t)' = Fresh(t)
  BY DEF Fresh
<1>2. ASSUME NEW t \in Tasks, Final(t) PROVE Final(t)'
  <2>1. now \in Nat
    BY TimeoutsAssumption DEF Types
  <2> task[t].timeout \in Nat
    <3>1. task[t].timeout \in Timeouts \cup {0}
      BY DEF Types
    <3>2. \A x \in Timeouts : x \in Nat
      BY TimeoutsAssumption
    <3>3. CASE task[t].timeout \in Timeouts
      BY <3>2, <3>3
    <3>4. CASE task[t].timeout = 0
      BY <3>4
    <3> QED BY <3>1, <3>3, <3>4
  <2>2. ASSUME NEW d \in Nat, now > d PROVE now' > d
    BY <2>1, <2>2
  <2>3. task'[t].timeout = task[t].timeout
    OBVIOUS
  <2>4. Expired(t) => Expired(t)'
    BY <2>2, <2>3 DEF Expired
  <2> QED BY <1>2, <2>4 DEF Final
<1>3. \A w \in Workers : pc[w] = "finish" => held[w] \in Tasks
  BY DEF Types, BusyPc
<1>4. Published \subseteq Tasks
  BY PublishedAreTasks
<1>5. Image(taken)' = Image(taken)
  BY DEF Image
<1> QED BY <1>1, <1>2, <1>3, <1>4, <1>5 DEF Outcomes

\* Steps of one worker on the task it holds, and on nothing else.
LEMMA OutcomesOfOne ==
  ASSUME Types, Apart, Outcomes, NEW w \in Busy,
         taken' = taken, now' = now, held' = held, Published' = Published,
         \A v \in Workers \ {w} : pc'[v] = pc[v],
         \A t \in Tasks \ {held[w]} : task'[t] = task[t] /\ ran'[t] = ran[t],
         pc'[w] = "exec" => ran'[held[w]] = 1 /\ task'[held[w]].is_timeout = FALSE,
         pc'[w] = "finish" => Final(held[w])',
         pc'[w] # "popped"
  PROVE  Outcomes'
<1>1. held[w] \in Tasks /\ held[w] \in Image(taken) \ Published
  BY DEF Types, Busy, Apart
<1>2. \A t \in Tasks \ {held[w]} : Fresh(t)' = Fresh(t) /\ Final(t)' = Final(t)
  BY DEF Fresh, Final, Expired
<1>3. \A v \in Workers \ {w} : pc[v] \in BusyPc => held[v] \in Tasks \ {held[w]}
  BY DEF Types, Apart, Busy
<1>4. Published \subseteq Tasks
  BY PublishedAreTasks
<1>5. Image(taken)' = Image(taken)
  BY DEF Image
<1>6. \A t \in Tasks \ Image(taken') : Fresh(t)'
  BY <1>1, <1>2, <1>5 DEF Outcomes, Image
<1>7. \A t \in Published' : Final(t)'
  BY <1>1, <1>2, <1>4 DEF Outcomes
<1>8. ASSUME NEW v \in Workers
      PROVE  /\ pc'[v] = "popped" => Fresh(held[v])'
             /\ pc'[v] = "exec" => ran'[held'[v]] = 1 /\ task'[held'[v]].is_timeout = FALSE
             /\ pc'[v] = "finish" => Final(held[v])'
  <2>1. CASE v = w
    BY <2>1
  <2>2. CASE v # w
    BY <2>2, <1>2, <1>3 DEF Outcomes, BusyPc
  <2> QED BY <2>1, <2>2
<1> QED BY <1>6, <1>7, <1>8 DEF Outcomes

\* A worker changes only the task it holds, and only before it publishes it.
LEMMA OutcomesStep ==
  ASSUME Types, Lifecycle, Order, Apart, Outcomes, [Next]_vars
  PROVE  Outcomes'
<1>1. ASSUME NEW w \in Workers, StartWorker(w)
      PROVE  Outcomes'
  <2>1. task' = task /\ ran' = ran /\ taken' = taken
    BY <1>1 DEF StartWorker, pool, threads, history
  <2>2. now' \in Nat /\ now <= now'
    BY <1>1, TimeoutsAssumption DEF StartWorker, pool, threads, history, Types
  <2>3. Published' \subseteq Published
    BY <1>1 DEF StartWorker, pool, threads, history, Published, Image
  <2>4. \A v \in Workers : pc'[v] \in {"popped", "exec", "finish"} =>
                            pc'[v] = pc[v] /\ held'[v] = held[v]
    BY <1>1 DEF StartWorker, pool, threads, history, Types
  <2> QED BY <2>1, <2>2, <2>3, <2>4, OutcomesFrame
<1>2. ASSUME NEW w \in Workers, Wait(w)
      PROVE  Outcomes'
  <2>1. task' = task /\ ran' = ran /\ taken' = taken
    BY <1>2 DEF Wait, pool, threads, history
  <2>2. now' \in Nat /\ now <= now'
    BY <1>2, TimeoutsAssumption DEF Wait, pool, threads, history, Types
  <2>3. Published' \subseteq Published
    BY <1>2 DEF Wait, pool, threads, history, Published, Image
  <2>4. \A v \in Workers : pc'[v] \in {"popped", "exec", "finish"} =>
                            pc'[v] = pc[v] /\ held'[v] = held[v]
    BY <1>2 DEF Wait, pool, threads, history, Types
  <2> QED BY <2>1, <2>2, <2>3, <2>4, OutcomesFrame
<1>3. ASSUME NEW w \in Workers, Take(w)
      PROVE  Outcomes'
  <2>1. Head(queue) \in Tasks \ Image(taken) /\ Image(taken)' = Image(taken) \cup {Head(queue)}
    BY <1>3, HeadIsNew DEF Image
  <2>2. /\ task' = task /\ ran' = ran /\ now' = now
    BY <1>3 DEF Take
  <2>3. \A t : Fresh(t)' = Fresh(t) /\ Final(t)' = Final(t)
    BY <2>2 DEF Fresh, Final, Expired
  <2>4. Published' = Published
    BY <1>3 DEF Take, Published, Image
  <2>5. pc'[w] = "popped" /\ held'[w] = Head(queue) /\ Fresh(Head(queue))
    BY <1>3, <2>1 DEF Take, Types, Outcomes
  <2>6. \A v \in Workers \ {w} : pc'[v] = pc[v] /\ held'[v] = held[v]
    BY <1>3 DEF Take, Types
  <2>7. ASSUME NEW v \in Workers
        PROVE  /\ pc'[v] = "popped" => Fresh(held[v])'
               /\ pc'[v] = "exec" => ran'[held'[v]] = 1 /\ task'[held'[v]].is_timeout = FALSE
               /\ pc'[v] = "finish" => Final(held[v])'
    BY <2>2, <2>3, <2>5, <2>6, <2>7 DEF Outcomes
  <2> QED BY <2>1, <2>2, <2>3, <2>4, <2>7 DEF Outcomes
<1>4. ASSUME NEW w \in Workers, Expire(w)
      PROVE  Outcomes'
  <2>1. w \in Busy /\ held[w] \in Tasks
    BY <1>4 DEF Expire, Busy, BusyPc, Types
  <2>2. Fresh(held[w]) /\ Expired(held[w])
    BY <1>4 DEF Expire, Outcomes
  <2>3. pc'[w] = "finish" /\ ran' = ran
    BY <1>4 DEF Expire, Types, history
  <2>4. task'[held[w]] = [task[held[w]] EXCEPT !.is_timeout = TRUE]
    BY <1>4, <2>1 DEF Expire, Types
  <2>5. /\ task'[held[w]].is_timeout = TRUE
        /\ task'[held[w]].ret = task[held[w]].ret /\ task'[held[w]].timeout = task[held[w]].timeout
    BY <2>1, <2>4 DEF Types
  <2>6. held' = held /\ now' = now
    BY <1>4 DEF Expire
  <2>7. Final(held[w])'
    BY <2>2, <2>3, <2>5, <2>6 DEF Fresh, Final, Expired
  <2>8. Published' = Published
    BY <1>4 DEF Expire, pool, Published, Image
  <2>9. /\ taken' = taken /\ now' = now /\ held' = held
        /\ \A v \in Workers \ {w} : pc'[v] = pc[v]
        /\ \A t \in Tasks \ {held[w]} : task'[t] = task[t] /\ ran'[t] = ran[t]
    BY <1>4, <2>1 DEF Expire, Types, history
  <2> QED BY <2>1, <2>3, <2>7, <2>8, <2>9, OutcomesOfOne
<1>5. ASSUME NEW w \in Workers, Call(w)
      PROVE  Outcomes'
  <2>1. w \in Busy /\ held[w] \in Tasks
    BY <1>5 DEF Call, Busy, BusyPc, Types
  <2>2. Fresh(held[w])
    BY <1>5 DEF Call, Outcomes
  <2>3. pc'[w] = "exec" /\ task' = task
    BY <1>5 DEF Call, Types
  <2>4. ran'[held[w]] = 1
    BY <1>5, <2>1, <2>2 DEF Call, Types, Fresh
  <2>5. task'[held[w]].is_timeout = FALSE
    BY <2>2, <2>3 DEF Fresh
  <2>8. Published' = Published
    BY <1>5 DEF Call, pool, Published, Image
  <2>9. /\ taken' = taken /\ now' = now /\ held' = held
        /\ \A v \in Workers \ {w} : pc'[v] = pc[v]
        /\ \A t \in Tasks \ {held[w]} : task'[t] = task[t] /\ ran'[t] = ran[t]
    BY <1>5, <2>1 DEF Call, Types, history
  <2> QED BY <2>1, <2>3, <2>4, <2>5, <2>8, <2>9, OutcomesOfOne
<1>6. ASSUME NEW w \in Workers, Return(w)
      PROVE  Outcomes'
  <2>1. w \in Busy /\ held[w] \in Tasks
    BY <1>6 DEF Return, Busy, BusyPc, Types
  <2>2. ran[held[w]] = 1 /\ task[held[w]].is_timeout = FALSE
    BY <1>6 DEF Return, Outcomes
  <2>3. pc'[w] = "finish" /\ ran' = ran
    BY <1>6 DEF Return, Types, history
  <2>4. task'[held[w]] = [task[held[w]] EXCEPT !.ret = "value"]
    BY <1>6, <2>1 DEF Return, Types
  <2>5. task'[held[w]].is_timeout = FALSE /\ task'[held[w]].ret = "value"
    BY <2>1, <2>2, <2>4 DEF Types
  <2>6. held' = held
    BY <1>6 DEF Return
  <2>7. Final(held[w])'
    BY <2>2, <2>3, <2>5, <2>6 DEF Final
  <2>8. Published' = Published
    BY <1>6 DEF Return, pool, Published, Image
  <2>9. /\ taken' = taken /\ now' = now /\ held' = held
        /\ \A v \in Workers \ {w} : pc'[v] = pc[v]
        /\ \A t \in Tasks \ {held[w]} : task'[t] = task[t] /\ ran'[t] = ran[t]
    BY <1>6, <2>1 DEF Return, Types, history
  <2> QED BY <2>1, <2>3, <2>7, <2>8, <2>9, OutcomesOfOne
<1>7. ASSUME NEW w \in Workers, Finish(w)
      PROVE  Outcomes'
  <2>1. held[w] \in Tasks /\ Published' = Published \cup {held[w]}
    BY <1>7, FinishPublishes
  <2>2. Final(held[w])
    BY <1>7 DEF Finish, Outcomes
  <2>3. task' = task /\ ran' = ran /\ now' = now /\ taken' = taken
    BY <1>7 DEF Finish, history
  <2>4. \A t : Fresh(t)' = Fresh(t) /\ Final(t)' = Final(t)
    BY <2>3 DEF Fresh, Final, Expired
  <2>5. /\ pc'[w] = "idle"
        /\ \A v \in Workers \ {w} : pc'[v] = pc[v] /\ held'[v] = held[v]
    BY <1>7 DEF Finish, Types
  <2>6. Image(taken)' = Image(taken)
    BY <2>3 DEF Image
  <2>7. ASSUME NEW v \in Workers
        PROVE  /\ pc'[v] = "popped" => Fresh(held[v])'
               /\ pc'[v] = "exec" => ran'[held'[v]] = 1 /\ task'[held'[v]].is_timeout = FALSE
               /\ pc'[v] = "finish" => Final(held[v])'
    BY <2>3, <2>4, <2>5, <2>7 DEF Outcomes
  <2> QED BY <2>1, <2>2, <2>4, <2>6, <2>7 DEF Outcomes
<1>8. ASSUME NEW w \in Workers, Exit(w)
      PROVE  Outcomes'
  <2>1. task' = task /\ ran' = ran /\ taken' = taken
    BY <1>8 DEF Exit, pool, threads, history
  <2>2. now' \in Nat /\ now <= now'
    BY <1>8, TimeoutsAssumption DEF Exit, pool, threads, history, Types
  <2>3. Published' \subseteq Published
    BY <1>8 DEF Exit, pool, threads, history, Published, Image
  <2>4. \A v \in Workers : pc'[v] \in {"popped", "exec", "finish"} =>
                            pc'[v] = pc[v] /\ held'[v] = held[v]
    BY <1>8 DEF Exit, pool, threads, history, Types
  <2> QED BY <2>1, <2>2, <2>3, <2>4, OutcomesFrame
<1>9. ASSUME NEW w \in Workers, SpuriousWakeup(w)
      PROVE  Outcomes'
  <2>1. task' = task /\ ran' = ran /\ taken' = taken
    BY <1>9 DEF SpuriousWakeup, pool, threads, history
  <2>2. now' \in Nat /\ now <= now'
    BY <1>9, TimeoutsAssumption DEF SpuriousWakeup, pool, threads, history, Types
  <2>3. Published' \subseteq Published
    BY <1>9 DEF SpuriousWakeup, pool, threads, history, Published, Image
  <2>4. \A v \in Workers : pc'[v] \in {"popped", "exec", "finish"} =>
                            pc'[v] = pc[v] /\ held'[v] = held[v]
    BY <1>9 DEF SpuriousWakeup, pool, threads, history, Types
  <2> QED BY <2>1, <2>2, <2>3, <2>4, OutcomesFrame
<1>10. ASSUME NEW t \in Tasks, NEW timeout \in Timeouts, AddTask(t, timeout)
      PROVE  Outcomes'
  <2>1. owner # "freed" /\ t \notin Image(submitted)
    BY <1>10 DEF AddTask, MayAdd, Lifecycle
  <2>2. t \notin Image(taken)
    BY <2>1, QueuedNotTaken
  <2>3. /\ \A u \in Tasks \ {t} : task'[u] = task[u]
        /\ task'[t] = [task[t] EXCEPT !.timeout = timeout]
        /\ ran' = ran /\ now' = now /\ taken' = taken /\ held' = held
    BY <1>10 DEF AddTask, Types
  <2>4. task'[t].is_timeout = task[t].is_timeout /\ task'[t].ret = task[t].ret
    BY <2>3 DEF Types
  <2>5. \A u \in Tasks : Fresh(u)' = Fresh(u)
    BY <2>3, <2>4 DEF Fresh
  <2>6. \A u \in Tasks \ {t} : Final(u)' = Final(u)
    BY <2>3 DEF Final, Expired
  <2>7. Published' = Published /\ Image(taken)' = Image(taken)
    BY <1>10 DEF AddTask, Published, Image
  <2>8. Published \subseteq Tasks \ {t} /\ \A v \in Busy : held[v] \in Tasks \ {t}
    <3>1. \A v \in Busy : held[v] \in Tasks
      BY DEF Busy, Types
    <3> QED BY <2>2, <3>1, PublishedAreTasks DEF Apart
  <2>9. \A v \in Workers : pc'[v] \in BusyPc => pc'[v] = pc[v]
    BY <1>10 DEF AddTask, Broadcast, BusyPc, Types
  <2>10. ASSUME NEW v \in Workers
         PROVE  /\ pc'[v] = "popped" => Fresh(held[v])'
                /\ pc'[v] = "exec" => ran'[held'[v]] = 1 /\ task'[held'[v]].is_timeout = FALSE
                /\ pc'[v] = "finish" => Final(held[v])'
    <3>1. pc'[v] \in BusyPc => v \in Busy /\ held'[v] = held[v] /\ held[v] \in Tasks \ {t}
      BY <2>3, <2>8, <2>9 DEF Busy
    <3> QED BY <2>3, <2>5, <2>6, <2>9, <3>1 DEF Outcomes, BusyPc
  <2> QED BY <2>5, <2>6, <2>7, <2>8, <2>10 DEF Outcomes
<1>11. CASE CreateThread
  <2>1. task' = task /\ ran' = ran /\ taken' = taken
    BY <1>11 DEF CreateThread, pool, threads, history
  <2>2. now' \in Nat /\ now <= now'
    BY <1>11, TimeoutsAssumption DEF CreateThread, pool, threads, history, Types
  <2>3. Published' \subseteq Published
    BY <1>11 DEF CreateThread, pool, threads, history, Published, Image
  <2>4. \A v \in Workers : pc'[v] \in {"popped", "exec", "finish"} =>
                            pc'[v] = pc[v] /\ held'[v] = held[v]
    BY <1>11 DEF CreateThread, pool, threads, history, Types
  <2> QED BY <2>1, <2>2, <2>3, <2>4, OutcomesFrame
<1>12. CASE NewReturns
  <2>1. task' = task /\ ran' = ran /\ taken' = taken
    BY <1>12 DEF NewReturns, pool, threads, history
  <2>2. now' \in Nat /\ now <= now'
    BY <1>12, TimeoutsAssumption DEF NewReturns, pool, threads, history, Types
  <2>3. Published' \subseteq Published
    BY <1>12 DEF NewReturns, pool, threads, history, Published, Image
  <2>4. \A v \in Workers : pc'[v] \in {"popped", "exec", "finish"} =>
                            pc'[v] = pc[v] /\ held'[v] = held[v]
    BY <1>12 DEF NewReturns, pool, threads, history, Types
  <2> QED BY <2>1, <2>2, <2>3, <2>4, OutcomesFrame
<1>13. CASE NewSpins
  <2>1. task' = task /\ ran' = ran /\ taken' = taken
    BY <1>13 DEF NewSpins, vars, pool, threads, history
  <2>2. now' \in Nat /\ now <= now'
    BY <1>13, TimeoutsAssumption DEF NewSpins, vars, pool, threads, history, Types
  <2>3. Published' \subseteq Published
    BY <1>13 DEF NewSpins, vars, pool, threads, history, Published, Image
  <2>4. \A v \in Workers : pc'[v] \in {"popped", "exec", "finish"} =>
                            pc'[v] = pc[v] /\ held'[v] = held[v]
    BY <1>13 DEF NewSpins, vars, pool, threads, history, Types
  <2> QED BY <2>1, <2>2, <2>3, <2>4, OutcomesFrame
<1>14. CASE Poll
  <2>1. task' = task /\ ran' = ran /\ taken' = taken
    BY <1>14 DEF Poll, pool, threads, history
  <2>2. now' \in Nat /\ now <= now'
    BY <1>14, TimeoutsAssumption DEF Poll, pool, threads, history, Types
  <2>3. Published' \subseteq Published
    BY <1>14, PollPublishesNothing DEF Published
  <2>4. \A v \in Workers : pc'[v] \in {"popped", "exec", "finish"} =>
                            pc'[v] = pc[v] /\ held'[v] = held[v]
    BY <1>14 DEF Poll, pool, threads, history, Types
  <2> QED BY <2>1, <2>2, <2>3, <2>4, OutcomesFrame
<1>15. ASSUME NEW call \in {"joining", "freeing"}, BeginStop(call)
      PROVE  Outcomes'
  <2>1. task' = task /\ ran' = ran /\ taken' = taken
    BY <1>15 DEF BeginStop, Broadcast, pool, threads, history
  <2>2. now' \in Nat /\ now <= now'
    BY <1>15, TimeoutsAssumption DEF BeginStop, Broadcast, pool, threads, history, Types
  <2>3. Published' \subseteq Published
    BY <1>15 DEF BeginStop, Broadcast, pool, threads, history, Published, Image
  <2>4. \A v \in Workers : pc'[v] \in {"popped", "exec", "finish"} =>
                            pc'[v] = pc[v] /\ held'[v] = held[v]
    BY <1>15 DEF BeginStop, Broadcast, pool, threads, history, Types
  <2> QED BY <2>1, <2>2, <2>3, <2>4, OutcomesFrame
<1>16. CASE Join
  <2>1. task' = task /\ ran' = ran /\ taken' = taken
    BY <1>16 DEF Join, pool, threads, history
  <2>2. now' \in Nat /\ now <= now'
    BY <1>16, TimeoutsAssumption DEF Join, pool, threads, history, Types
  <2>3. Published' \subseteq Published
    BY <1>16 DEF Join, pool, threads, history, Published, Image
  <2>4. \A v \in Workers : pc'[v] \in {"popped", "exec", "finish"} =>
                            pc'[v] = pc[v] /\ held'[v] = held[v]
    BY <1>16 DEF Join, pool, threads, history, Types
  <2> QED BY <2>1, <2>2, <2>3, <2>4, OutcomesFrame
<1>17. CASE StopReturns
  <2>1. task' = task /\ ran' = ran /\ taken' = taken
    BY <1>17 DEF StopReturns, pool, threads, history
  <2>2. now' \in Nat /\ now <= now'
    BY <1>17, TimeoutsAssumption DEF StopReturns, pool, threads, history, Types
  <2>3. Published' \subseteq Published
    BY <1>17 DEF StopReturns, pool, threads, history, Published, Image
  <2>4. \A v \in Workers : pc'[v] \in {"popped", "exec", "finish"} =>
                            pc'[v] = pc[v] /\ held'[v] = held[v]
    BY <1>17 DEF StopReturns, pool, threads, history, Types
  <2> QED BY <2>1, <2>2, <2>3, <2>4, OutcomesFrame
<1>18. CASE Cleanup
  <2>1. task' = task /\ ran' = ran /\ taken' = taken
    BY <1>18 DEF Cleanup, pool, threads, history
  <2>2. now' \in Nat /\ now <= now'
    BY <1>18, TimeoutsAssumption DEF Cleanup, pool, threads, history, Types
  <2>3. Published' \subseteq Published
    BY <1>18, CleanupUnpublishes DEF Published
  <2>4. \A v \in Workers : pc'[v] \in {"popped", "exec", "finish"} =>
                            pc'[v] = pc[v] /\ held'[v] = held[v]
    BY <1>18 DEF Cleanup, pool, threads, history, Types
  <2> QED BY <2>1, <2>2, <2>3, <2>4, OutcomesFrame
<1>19. CASE Freed
  <2>1. task' = task /\ ran' = ran /\ taken' = taken
    BY <1>19 DEF Freed, vars, pool, threads, history
  <2>2. now' \in Nat /\ now <= now'
    BY <1>19, TimeoutsAssumption DEF Freed, vars, pool, threads, history, Types
  <2>3. Published' \subseteq Published
    BY <1>19 DEF Freed, vars, pool, threads, history, Published, Image
  <2>4. \A v \in Workers : pc'[v] \in {"popped", "exec", "finish"} =>
                            pc'[v] = pc[v] /\ held'[v] = held[v]
    BY <1>19 DEF Freed, vars, pool, threads, history, Types
  <2> QED BY <2>1, <2>2, <2>3, <2>4, OutcomesFrame
<1>20. CASE Tick
  <2>1. task' = task /\ ran' = ran /\ taken' = taken
    BY <1>20 DEF Tick, pool, threads, history
  <2>2. now' \in Nat /\ now <= now'
    BY <1>20, TimeoutsAssumption DEF Tick, pool, threads, history, Types
  <2>3. Published' \subseteq Published
    BY <1>20 DEF Tick, pool, threads, history, Published, Image
  <2>4. \A v \in Workers : pc'[v] \in {"popped", "exec", "finish"} =>
                            pc'[v] = pc[v] /\ held'[v] = held[v]
    BY <1>20 DEF Tick, pool, threads, history, Types
  <2> QED BY <2>1, <2>2, <2>3, <2>4, OutcomesFrame
<1>21. CASE UNCHANGED vars
  <2>1. task' = task /\ ran' = ran /\ taken' = taken
    BY <1>21 DEF vars, pool, threads, history
  <2>2. now' \in Nat /\ now <= now'
    BY <1>21, TimeoutsAssumption DEF vars, pool, threads, history, Types
  <2>3. Published' \subseteq Published
    BY <1>21 DEF vars, pool, threads, history, Published, Image
  <2>4. \A v \in Workers : pc'[v] \in {"popped", "exec", "finish"} =>
                            pc'[v] = pc[v] /\ held'[v] = held[v]
    BY <1>21 DEF vars, pool, threads, history, Types
  <2> QED BY <2>1, <2>2, <2>3, <2>4, OutcomesFrame
<1> QED
  BY <1>1, <1>2, <1>3, <1>4, <1>5, <1>6, <1>7, <1>8, <1>9, <1>10, <1>11, <1>12,
     <1>13, <1>14, <1>15, <1>16, <1>17, <1>18, <1>19, <1>20, <1>21
  DEF Next, WorkerStep, OwnerStep

-----------------------------------------------------------------------------
(* Collected *)

LEMMA OccursOnce ==
  ASSUME NEW S, NEW s \in Seq(S), NEW t \in Image(s)
  PROVE  Cardinality({i \in DOMAIN s : s[i] = t}) > 0
<1> DEFINE O == {i \in DOMAIN s : s[i] = t}
<1>1. IsFiniteSet(O)
  BY OccurrencesFinite
<1>2. O # {}
  BY DEF Image
<1>3. Cardinality(O) \in Nat /\ Cardinality(O) # 0
  BY <1>1, <1>2, FS_CardinalityType, FS_EmptySet
<1> QED BY <1>3

LEMMA CleanupCollects ==
  ASSUME Types, Lifecycle, Order, Apart, Cleanup
  PROVE  Collected'
<1> finished \in Seq(Tasks) /\ queue \in Seq(Tasks)
  BY DEF Types
<1>1. owner = "freeing" /\ ji = NbThreads /\ submitted' = submitted /\ results' = results
  BY DEF Cleanup
<1>2. Busy = {}
  BY <1>1, NobodyBusy DEF Busy
<1>3. Image(submitted) = Image(taken) \cup Image(queue) /\ Image(taken) \subseteq Published
  BY <1>1, <1>2, QueuedNotTaken DEF Apart
<1>4. Image(submitted) \subseteq Tasks
  BY ImageIn DEF Types
<1> DEFINE F(t) == Cardinality({i \in DOMAIN finished : finished[i] = t})
           Q(t) == Cardinality({i \in DOMAIN queue : queue[i] = t})
<1>5. ASSUME NEW t \in Tasks PROVE F(t) \in Nat /\ Q(t) \in Nat
  <2>1. IsFiniteSet({i \in DOMAIN finished : finished[i] = t})
    BY OccurrencesFinite
  <2>2. IsFiniteSet({i \in DOMAIN queue : queue[i] = t})
    BY OccurrencesFinite
  <2> QED BY <2>1, <2>2, FS_CardinalityType
<1>6. \A t \in Image(finished) : F(t) > 0
  BY OccursOnce
<1>7. \A t \in Image(queue) : Q(t) > 0
  BY OccursOnce
<1>8. \A t \in Tasks : cleaned'[t].userdata = cleaned[t].userdata + F(t) + Q(t)
  BY DEF Cleanup
<1> HIDE DEF F, Q
<1>9. ASSUME NEW t \in Image(submitted), t \notin Image(results)
      PROVE  cleaned'[t].userdata > 0
  <2>1. t \in Tasks /\ (t \in Image(finished) \/ t \in Image(queue))
    BY <1>3, <1>4, <1>9 DEF Published
  <2>2. cleaned[t].userdata \in Nat
    BY <2>1 DEF Types
  <2>3. F(t) \in Nat /\ Q(t) \in Nat /\ (F(t) > 0 \/ Q(t) > 0)
    BY <2>1, <1>5, <1>6, <1>7
  <2>4. cleaned[t].userdata + F(t) + Q(t) > 0
    BY <2>2, <2>3
  <2> QED BY <2>1, <2>4, <1>8
<1> QED BY <1>1, <1>9 DEF Collected, Image

\* Only Cleanup ends the life of the pool, and it passes every task on.
LEMMA CollectedStep ==
  ASSUME Types, Lifecycle, Order, Apart, Collected, [Next]_vars
  PROVE  Collected'
<1>1. ASSUME NEW w \in Workers, StartWorker(w)
      PROVE  Collected'
  BY <1>1 DEF StartWorker, pool, threads, history, Collected, Image
<1>2. ASSUME NEW w \in Workers, Wait(w)
      PROVE  Collected'
  BY <1>2 DEF Wait, pool, threads, history, Collected, Image
<1>3. ASSUME NEW w \in Workers, Take(w)
      PROVE  Collected'
  BY <1>3 DEF Take, pool, threads, history, Collected, Image
<1>4. ASSUME NEW w \in Workers, Expire(w)
      PROVE  Collected'
  BY <1>4 DEF Expire, pool, threads, history, Collected, Image
<1>5. ASSUME NEW w \in Workers, Call(w)
      PROVE  Collected'
  BY <1>5 DEF Call, pool, threads, history, Collected, Image
<1>6. ASSUME NEW w \in Workers, Return(w)
      PROVE  Collected'
  BY <1>6 DEF Return, pool, threads, history, Collected, Image
<1>7. ASSUME NEW w \in Workers, Finish(w)
      PROVE  Collected'
  BY <1>7 DEF Finish, pool, threads, history, Collected, Image
<1>8. ASSUME NEW w \in Workers, Exit(w)
      PROVE  Collected'
  BY <1>8 DEF Exit, pool, threads, history, Collected, Image
<1>9. ASSUME NEW w \in Workers, SpuriousWakeup(w)
      PROVE  Collected'
  BY <1>9 DEF SpuriousWakeup, pool, threads, history, Collected, Image
<1>10. ASSUME NEW t \in Tasks, NEW timeout \in Timeouts, AddTask(t, timeout)
      PROVE  Collected'
  <2>1. owner' # "freed"
    BY <1>10 DEF AddTask, MayAdd, Lifecycle
  <2> QED BY <2>1 DEF Collected
<1>11. CASE CreateThread
  BY <1>11 DEF CreateThread, pool, threads, history, Collected, Image
<1>12. CASE NewReturns
  BY <1>12 DEF NewReturns, pool, threads, history, Collected, Image
<1>13. CASE NewSpins
  BY <1>13 DEF NewSpins, vars, pool, threads, history, Collected, Image
<1>14. CASE Poll
  BY <1>14 DEF Poll, pool, threads, history, Collected, Image
<1>15. ASSUME NEW call \in {"joining", "freeing"}, BeginStop(call)
      PROVE  Collected'
  BY <1>15 DEF BeginStop, Broadcast, pool, threads, history, Collected, Image
<1>16. CASE Join
  BY <1>16 DEF Join, pool, threads, history, Collected, Image
<1>17. CASE StopReturns
  BY <1>17 DEF StopReturns, pool, threads, history, Collected, Image
<1>18. CASE Cleanup
  BY <1>18, CleanupCollects
<1>19. CASE Freed
  BY <1>19 DEF Freed, vars, pool, threads, history, Collected, Image
<1>20. CASE Tick
  BY <1>20 DEF Tick, pool, threads, history, Collected, Image
<1>21. CASE UNCHANGED vars
  BY <1>21 DEF vars, pool, threads, history, Collected, Image
<1> QED
  BY <1>1, <1>2, <1>3, <1>4, <1>5, <1>6, <1>7, <1>8, <1>9, <1>10, <1>11, <1>12,
     <1>13, <1>14, <1>15, <1>16, <1>17, <1>18, <1>19, <1>20, <1>21
  DEF Next, WorkerStep, OwnerStep

-----------------------------------------------------------------------------
(* The invariant *)

LEMMA InitIInv == Init => IInv
<1> SUFFICES ASSUME Init PROVE IInv
  OBVIOUS
<1> USE DEF Init
<1>1. Types
  <2>1. queue \in Seq(Tasks) /\ finished \in Seq(Tasks) /\ results \in Seq(Tasks)
        /\ submitted \in Seq(Tasks) /\ taken \in Seq(Tasks)
    BY EmptySeq
  <2>2. running = 0 /\ live = 0 /\ ji = 0 /\ now = 0
    OBVIOUS
  <2>8. stop \in BOOLEAN
    OBVIOUS
  <2>7. 0 \in Int /\ 0 \in 0 .. NbThreads /\ 0 \in 0 .. MaxTime
    <3> HIDE DEF Init
    <3> QED BY NbThreadsAssumption, TimeoutsAssumption
  <2>3. /\ pc \in [Workers -> {"none", "failed", "start", "idle", "waiting",
                              "exited"} \cup BusyPc]
        /\ held \in [Workers -> Tasks \cup {NoTask}]
        /\ \A w \in Workers : pc[w] \in BusyPc <=> held[w] # NoTask
    BY DEF BusyPc
  <2>4. task \in [Tasks -> [timeout : Timeouts \cup {0}, is_timeout : BOOLEAN,
                           ret : {"NULL", "value"}]]
    OBVIOUS
  <2>5. ran \in [Tasks -> Nat] /\ joins \in [Workers -> Nat]
        /\ cleaned \in [Tasks -> [userdata : Nat, ret : Nat]]
    OBVIOUS
  <2>6. owner \in {"new", "open", "joining", "stopped", "freeing", "freed"}
    OBVIOUS
  <2> HIDE DEF Init
  <2> QED BY <2>1, <2>2, <2>3, <2>4, <2>5, <2>6, <2>7, <2>8 DEF Types
<1>2. Busy = {} /\ Registered = {}
  BY DEF Busy, Registered, BusyPc
<1>3. CountersExact
  BY <1>2, FS_EmptySet DEF CountersExact, Registered
<1>4. NoLostWakeup
  BY DEF NoLostWakeup
<1>5. Lifecycle
  BY DEF Lifecycle, Workers
<1>6. Order
  BY DEF Order, SubmissionOrder, Inj
<1>7. Published = {} /\ Image(taken) = {}
  BY ImageEmpty DEF Published
<1>8. Apart
  BY <1>2, <1>7 DEF Apart
<1>9. Outcomes
  BY <1>7 DEF Outcomes, Fresh
<1>10. Collected
  BY DEF Collected
<1> QED BY <1>1, <1>3, <1>4, <1>5, <1>6, <1>8, <1>9, <1>10 DEF IInv

LEMMA NextIInv == IInv /\ [Next]_vars => IInv'
<1> SUFFICES ASSUME IInv, [Next]_vars PROVE IInv'
  OBVIOUS
<1> USE DEF IInv
<1>1. Types'
  BY TypesStep
<1>2. CountersExact'
  BY CountersStep
<1>3. NoLostWakeup'
  BY NoLostWakeupStep
<1>4. Lifecycle'
  BY LifecycleStep
<1>5. Order'
  BY OrderStep
<1>6. Apart'
  BY ApartStep
<1>7. Outcomes'
  BY OutcomesStep
<1>8. Collected'
  BY CollectedStep
<1> QED BY <1>1, <1>2, <1>3, <1>4, <1>5, <1>6, <1>7, <1>8

\* Every reachable state of the pool satisfies the inductive invariant.
THEOREM Invariance == Spec => []IInv
  BY InitIInv, NextIInv, PTL DEF Spec

\* The variables have their types; in particular running and live, which
\* worker adds to and takes from in four critical sections, stay in range.
THEOREM TypeCorrect == Spec => []TypeOK
<1>1. IInv => TypeOK
  <2> SUFFICES ASSUME Types, CountersExact PROVE TypeOK
    BY DEF IInv
  <2>1. running \in 0 .. NbThreads /\ live \in 0 .. NbThreads
    BY WorkerSets DEF CountersExact, Registered
  <2> QED BY <2>1 DEF Types, TypeOK
<1> QED BY <1>1, Invariance, PTL

\* running and live are what worker says they are (ezgrpc2_pthpool.c:46, 61,
\* 76, 80).
THEOREM CountersCorrect == Spec => []CountersExact
<1>1. IInv => CountersExact
  BY DEF IInv
<1> QED BY <1>1, Invariance, PTL

\* No thread sleeps on wcond while there is a task for it, or stop is set.
THEOREM WakeupsKept == Spec => []NoLostWakeup
<1>1. IInv => NoLostWakeup
  BY DEF IInv
<1> QED BY <1>1, Invariance, PTL

\* Tasks are popped in the order they were added, each once, none skipped.
THEOREM OrderKept == Spec => []SubmissionOrder
<1>1. IInv => SubmissionOrder
  BY DEF IInv, Order
<1> QED BY <1>1, Invariance, PTL

\* A published result is that of one call of the function, or of none and a
\* deadline that has passed.
THEOREM OutcomesCorrect == Spec => []OutcomeExact
<1>1. IInv => OutcomeExact
  BY DEF IInv, Outcomes, OutcomeExact, Published, Final
<1> QED BY <1>1, Invariance, PTL

\* ezgrpc2_pthpool_is_empty answers 1 only when every task was collected.
THEOREM EmptyAnswerCorrect == Spec => []EmptyMeansCollected
<1>1. IInv => EmptyMeansCollected
  <2> SUFFICES ASSUME IInv, IsEmpty, NEW t \in Image(submitted)
               PROVE  t \in Image(results) \/ cleaned[t].userdata > 0
    BY DEF EmptyMeansCollected
  <2>1. CASE owner = "freed"
    BY <2>1 DEF IInv, Collected
  <2>2. CASE owner # "freed"
    <3>1. Cardinality(Busy) = 0
      BY DEF IInv, CountersExact, IsEmpty
    <3>2. Busy = {}
      BY <3>1, WorkerSets, FS_EmptySet
    <3>3. Image(queue) = {} /\ Image(finished) = {}
      BY ImageEmpty DEF IsEmpty
    <3>4. Image(submitted) = Image(taken) \cup Image(queue)
      BY <2>2, QueuedNotTaken DEF IInv
    <3>5. Image(taken) \subseteq Published
      BY <2>2, <3>2 DEF IInv, Apart
    <3> QED BY <3>3, <3>4, <3>5 DEF Published
  <2> QED BY <2>1, <2>2
<1> QED BY <1>1, Invariance, PTL

\* From the moment a task is in finished no thread writes to it or calls its
\* function.
THEOREM PublishedFinal == Spec => PublishedIsFrozen
<1> DEFINE Frozen == \A t \in Image(finished) \cup Image(results) :
                        task'[t] = task[t] /\ ran'[t] = ran[t]
<1>1. IInv /\ [Next]_vars => [Frozen]_vars
  <2> SUFFICES ASSUME IInv, Next PROVE Frozen
    BY DEF vars
  <2> Types /\ Lifecycle /\ Order /\ Apart
    BY DEF IInv
  <2>1. ASSUME NEW w \in Workers, Expire(w) \/ Call(w) \/ Return(w)
        PROVE  Frozen
    <3>1. w \in Busy /\ held[w] \in Tasks
      BY <2>1 DEF Expire, Call, Return, Busy, BusyPc, Types
    <3>2. held[w] \notin Published
      BY <3>1 DEF Apart
    <3>3. \A t \in Tasks \ {held[w]} : task'[t] = task[t] /\ ran'[t] = ran[t]
      BY <2>1, <3>1 DEF Expire, Call, Return, Types, history
    <3> QED BY <3>2, <3>3, PublishedAreTasks DEF Published
  <2>2. ASSUME NEW t \in Tasks, NEW timeout \in Timeouts, AddTask(t, timeout)
        PROVE  Frozen
    <3>1. owner # "freed" /\ t \notin Image(submitted)
      BY <2>2 DEF AddTask, MayAdd, Lifecycle
    <3>2. t \notin Published
      BY <3>1, QueuedNotTaken DEF Apart
    <3>3. \A u \in Tasks \ {t} : task'[u] = task[u] /\ ran'[u] = ran[u]
      BY <2>2 DEF AddTask, Types
    <3> QED BY <3>2, <3>3, PublishedAreTasks DEF Published
  <2>3. CASE UNCHANGED <<task, ran>>
    BY <2>3
  <2>4. ASSUME NEW w \in Workers,
               StartWorker(w) \/ Wait(w) \/ Take(w) \/ Finish(w) \/ Exit(w) \/ SpuriousWakeup(w)
        PROVE  UNCHANGED <<task, ran>>
    BY <2>4 DEF StartWorker, Wait, Take, Finish, Exit, SpuriousWakeup, history
  <2>5. ASSUME OwnerStep \/ Tick
        PROVE  UNCHANGED <<task, ran>>
    BY <2>5 DEF OwnerStep, CreateThread, NewReturns, NewSpins, Poll, BeginStop, Join,
                StopReturns, Cleanup, Freed, Tick, history, vars
  <2> HIDE DEF Frozen
  <2> QED BY <2>1, <2>2, <2>3, <2>4, <2>5 DEF Next, WorkerStep
<1> QED BY <1>1, Invariance, PTL DEF Spec, PublishedIsFrozen
-----------------------------------------------------------------------------
(* A pool that is handed out has all its threads *)

LEMMA AllRegistered ==
  ASSUME CountersExact, live = NbThreads
  PROVE  Registered = Workers
<1>1. IsFiniteSet(Workers) /\ Cardinality(Workers) = NbThreads
  BY WorkerSets
<1>2. Registered \subseteq Workers /\ Cardinality(Registered) = NbThreads
  BY DEF CountersExact, Registered
<1>3. Registered \subseteq Workers /\ Cardinality(Registered) = Cardinality(Workers)
  BY <1>1, <1>2
<1> QED BY <1>1, <1>3, FS_Subset

LEMMA HandedOutStep ==
  ASSUME IInv, HandedOutComplete, [Next]_vars
  PROVE  HandedOutComplete'
<1> Types /\ CountersExact
  BY DEF IInv
<1> DEFINE Absent == {"none", "failed", "start"}
<1>1. ASSUME NEW w \in Workers, WorkerStep(w) \/ SpuriousWakeup(w)
      PROVE  HandedOutComplete'
  <2>1. owner' = owner /\ \A v \in Workers : pc'[v] = pc[v] \/ pc'[v] \notin Absent
    BY <1>1 DEF WorkerStep, SpuriousWakeup, StartWorker, Wait, Take, Expire, Call,
                Return, Finish, Exit, BusyPc, Types, history
  <2> QED BY <2>1 DEF HandedOutComplete
<1>2. ASSUME NEW t \in Tasks, NEW timeout \in Timeouts, AddTask(t, timeout)
      PROVE  HandedOutComplete'
  <2>1. owner' = owner /\ \A v \in Workers : pc'[v] = pc[v] \/ pc'[v] \notin Absent
    BY <1>2 DEF AddTask, Broadcast, Types
  <2> QED BY <2>1 DEF HandedOutComplete
<1>3. CASE CreateThread \/ NewSpins
  BY <1>3 DEF CreateThread, NewSpins, HandedOutComplete, vars
<1>4. CASE NewReturns
  <2>1. Registered = Workers /\ pc' = pc
    BY <1>4, AllRegistered DEF NewReturns, threads
  <2> QED BY <2>1 DEF HandedOutComplete, Registered, BusyPc
<1>5. ASSUME NEW call, BeginStop(call)
      PROVE  HandedOutComplete'
  <2>1. owner # "new" /\ \A v \in Workers : pc'[v] = pc[v] \/ pc'[v] \notin Absent
    BY <1>5 DEF BeginStop, Broadcast, Types
  <2> QED BY <2>1 DEF HandedOutComplete
<1>6. CASE Poll \/ Join \/ StopReturns \/ Cleanup \/ Freed \/ Tick \/ UNCHANGED vars
  <2>1. pc' = pc /\ (owner' = owner \/ owner # "new")
    BY <1>6 DEF Poll, Join, StopReturns, Cleanup, Freed, Tick, vars, threads
  <2> QED BY <2>1 DEF HandedOutComplete
<1> QED BY <1>1, <1>2, <1>3, <1>4, <1>5, <1>6 DEF Next, OwnerStep

\* ezgrpc2_pthpool_new returns a pool only when all its threads exist and have
\* registered themselves (ezgrpc2_pthpool.c:111).
THEOREM HandOutCorrect == Spec => []HandedOutComplete
<1>1. Init => HandedOutComplete
  BY DEF Init, HandedOutComplete
<1>2. IInv /\ HandedOutComplete /\ [Next]_vars => HandedOutComplete'
  BY HandedOutStep
<1> QED BY <1>1, <1>2, Invariance, PTL DEF Spec

-----------------------------------------------------------------------------
(***************************************************************************)
(* The pool implements the abstract pool TaskPool; a task is in one place;  *)
(* free leaves nothing behind; and results are out of order by less than    *)
(* the number of threads. To IInv this adds the books of what is published  *)
(* and what is cleaned up, Ledger:                                          *)
(*   PublishedOnce  no task is twice in the lists of finished tasks;        *)
(*   AllSubmitted   what is queued or was taken was submitted;              *)
(*   JoinedSoFar    the join loop has joined the threads it has passed;     *)
(*   Released       no handler is called before free, then each as often    *)
(*                  as the place of its task demands.                       *)
(***************************************************************************)

Out == results \o finished

PublishedOnce == Inj(Out)

AllSubmitted == Image(taken) \cup Image(queue) \subseteq Image(submitted)

JoinedSoFar ==
    /\ owner \in {"joining", "freeing"} => \A k \in 0 .. ji - 1 : joins[k] > 0
    /\ owner = "freed" => \A w \in Workers : joins[w] > 0

Untouched == [userdata |-> 0, ret |-> 0]

\* The handlers free must have called for t.
Due(t) ==
    IF t \in Image(submitted) \ Image(results)
      THEN [userdata |-> 1, ret |-> IF t \in Image(taken) THEN 1 ELSE 0]
      ELSE Untouched

Released ==
    /\ owner # "freed" => \A t \in Tasks : cleaned[t] = Untouched
    /\ owner = "freed" => /\ queue = <<>> /\ finished = <<>>
                          /\ \A t \in Tasks : cleaned[t] = Due(t)

Ledger == PublishedOnce /\ AllSubmitted /\ JoinedSoFar /\ Released

-----------------------------------------------------------------------------
(* The books *)

\* Both parts of a concatenation without repetition are without repetition.
LEMMA SeqFacts ==
  ASSUME NEW S, NEW s \in Seq(S), NEW t \in Seq(S), Inj(s \o t)
  PROVE  Inj(s) /\ Inj(t)
<1>1. /\ s \o t \in Seq(S) /\ Len(s \o t) = Len(s) + Len(t)
      /\ \A i \in 1 .. Len(s) + Len(t) :
           (s \o t)[i] = IF i <= Len(s) THEN s[i] ELSE t[i - Len(s)]
  BY ConcatProperties
<1>2. \A i \in DOMAIN s : i \in DOMAIN (s \o t) /\ (s \o t)[i] = s[i]
  BY <1>1
<1>3. \A i \in DOMAIN t : i + Len(s) \in DOMAIN (s \o t) /\ (s \o t)[i + Len(s)] = t[i]
  BY <1>1
<1>4. Inj(s)
  BY <1>2 DEF Inj
<1>5. ASSUME NEW i \in DOMAIN t, NEW j \in DOMAIN t, t[i] = t[j]
      PROVE  i = j
  <2>1. i + Len(s) = j + Len(s)
    BY <1>3, <1>5 DEF Inj
  <2> QED BY <2>1
<1> QED BY <1>4, <1>5 DEF Inj

\* Where a sequence without repetition has an element.
LEMMA Occurrences ==
  ASSUME NEW S, NEW s \in Seq(S), Inj(s), NEW t
  PROVE  Cardinality({i \in DOMAIN s : s[i] = t}) = IF t \in Image(s) THEN 1 ELSE 0
<1>1. CASE t \in Image(s)
  <2>1. PICK i \in DOMAIN s : s[i] = t
    BY <1>1 DEF Image
  <2>2. {j \in DOMAIN s : s[j] = t} = {i}
    BY <2>1 DEF Inj
  <2> QED BY <1>1, <2>2, FS_Singleton
<1>2. CASE t \notin Image(s)
  <2>1. {j \in DOMAIN s : s[j] = t} = {}
    BY <1>2 DEF Image
  <2> QED BY <1>2, <2>1, FS_EmptySet
<1> QED BY <1>1, <1>2

LEMMA OutFacts ==
  ASSUME Types
  PROVE  Out \in Seq(Tasks) /\ Image(Out) = Published
<1> finished \in Seq(Tasks) /\ results \in Seq(Tasks)
  BY DEF Types
<1> QED BY ImageConcat, ConcatProperties DEF Out, Published

\* A worker publishes a task that was not published before.
LEMMA FinishOut ==
  ASSUME Types, Apart, Lifecycle, NEW w \in Workers, Finish(w)
  PROVE  /\ held[w] \in Tasks \ Published
         /\ w \in Busy
         /\ owner # "freed"
         /\ Out' = Append(Out, held[w])
<1> finished \in Seq(Tasks) /\ results \in Seq(Tasks)
  BY DEF Types
<1>1. held[w] \in Tasks /\ w \in Busy
  BY DEF Finish, Types, BusyPc, Busy
<1>2. held[w] \notin Published
  BY <1>1 DEF Apart
<1>3. owner # "freed"
  BY DEF Finish, Lifecycle
<1>4. finished' = Append(finished, held[w]) /\ results' = results
  BY DEF Finish
<1> QED BY <1>1, <1>2, <1>3, <1>4, AppendConcat DEF Out

\* Polling moves tasks within Out.
LEMMA PollOut ==
  ASSUME Types, Poll
  PROVE  Out' = Out
<1> finished \in Seq(Tasks) /\ results \in Seq(Tasks)
  BY DEF Types
<1>1. results \o finished \in Seq(Tasks)
  BY ConcatProperties
<1>2. results' = results \o finished /\ finished' = <<>>
  BY DEF Poll
<1> QED BY <1>1, <1>2, ConcatEmptySeq DEF Out

\* What is left of Out when the pool is gone is its beginning.
LEMMA CleanupOut ==
  ASSUME Types, Cleanup
  PROVE  Out' = results
<1> results \in Seq(Tasks)
  BY DEF Types
<1>1. results' = results /\ finished' = <<>>
  BY DEF Cleanup
<1> QED BY <1>1, ConcatEmptySeq DEF Out

LEMMA PublishedOnceStep ==
  ASSUME Types, Lifecycle, Apart, Ledger, [Next]_vars
  PROVE  PublishedOnce'
<1> Out \in Seq(Tasks) /\ Image(Out) = Published /\ Inj(Out)
  BY OutFacts DEF Ledger, PublishedOnce
<1>1. ASSUME NEW w \in Workers, Finish(w)
      PROVE  PublishedOnce'
  <2>1. held[w] \in Tasks \ Published /\ Out' = Append(Out, held[w])
    BY <1>1, FinishOut
  <2> QED BY <2>1, InjAppend DEF PublishedOnce
<1>2. CASE Poll
  BY <1>2, PollOut DEF PublishedOnce
<1>3. CASE Cleanup
  <2>1. Out' = results /\ Inj(results)
    BY <1>3, CleanupOut, SeqFacts DEF Out, Types
  <2> QED BY <2>1 DEF PublishedOnce
<1>4. CASE UNCHANGED <<results, finished>>
  BY <1>4 DEF PublishedOnce, Out
<1>5. ASSUME NEW w \in Workers,
             StartWorker(w) \/ Wait(w) \/ Take(w) \/ Expire(w) \/ Call(w) \/ Return(w)
               \/ Exit(w) \/ SpuriousWakeup(w)
      PROVE  UNCHANGED <<results, finished>>
  BY <1>5 DEF StartWorker, Wait, Take, Expire, Call, Return, Exit, SpuriousWakeup, pool
<1>6. ASSUME NEW t, NEW timeout, AddTask(t, timeout)
      PROVE  UNCHANGED <<results, finished>>
  BY <1>6 DEF AddTask
<1>7. ASSUME NEW call, BeginStop(call)
      PROVE  UNCHANGED <<results, finished>>
  BY <1>7 DEF BeginStop
<1>8. ASSUME CreateThread \/ NewReturns \/ NewSpins \/ Join \/ StopReturns \/ Freed \/ Tick
             \/ UNCHANGED vars
      PROVE  UNCHANGED <<results, finished>>
  BY <1>8 DEF CreateThread, NewReturns, NewSpins, Join, StopReturns, Freed, Tick, pool, vars
<1> QED BY <1>1, <1>2, <1>3, <1>4, <1>5, <1>6, <1>7, <1>8 DEF Next, WorkerStep, OwnerStep

LEMMA AllSubmittedStep ==
  ASSUME Types, AllSubmitted, [Next]_vars
  PROVE  AllSubmitted'
<1> queue \in Seq(Tasks) /\ taken \in Seq(Tasks) /\ submitted \in Seq(Tasks)
  BY DEF Types
<1>1. ASSUME NEW w \in Workers, Take(w)
      PROVE  AllSubmitted'
  <2>1. /\ Head(queue) \in Tasks /\ queue' = Tail(queue)
        /\ taken' = Append(taken, Head(queue)) /\ submitted' = submitted
        /\ Image(queue) = {Head(queue)} \cup Image(Tail(queue))
    BY <1>1, ImageHeadTail DEF Take
  <2>2. Image(taken') = Image(taken) \cup {Head(queue)}
    BY <2>1, ImageAppend
  <2>3. Image(taken)' = Image(taken') /\ Image(queue)' = Image(Tail(queue)) /\ Image(submitted)' = Image(submitted)
    BY <2>1 DEF Image
  <2> QED BY <2>1, <2>2, <2>3 DEF AllSubmitted
<1>2. ASSUME NEW t \in Tasks, NEW timeout \in Timeouts, AddTask(t, timeout)
      PROVE  AllSubmitted'
  <2>1. /\ queue' = Append(queue, t) /\ taken' = taken /\ submitted' = Append(submitted, t)
    BY <1>2 DEF AddTask
  <2>2. Image(Append(queue, t)) = Image(queue) \cup {t} /\ Image(Append(submitted, t)) = Image(submitted) \cup {t}
    BY ImageAppend
  <2>3. /\ Image(taken)' = Image(taken) /\ Image(queue)' = Image(Append(queue, t))
        /\ Image(submitted)' = Image(Append(submitted, t))
    BY <2>1 DEF Image
  <2> QED BY <2>2, <2>3 DEF AllSubmitted
<1>3. CASE Cleanup
  <2>1. queue' = <<>> /\ taken' = taken /\ submitted' = submitted
    BY <1>3 DEF Cleanup
  <2>2. Image(taken)' = Image(taken) /\ Image(queue)' = {} /\ Image(submitted)' = Image(submitted)
    BY <2>1 DEF Image
  <2> QED BY <2>2 DEF AllSubmitted
<1>4. CASE UNCHANGED <<queue, taken, submitted>>
  BY <1>4 DEF AllSubmitted, Image
<1>5. ASSUME NEW w \in Workers,
             StartWorker(w) \/ Wait(w) \/ Expire(w) \/ Call(w) \/ Return(w) \/ Finish(w)
               \/ Exit(w) \/ SpuriousWakeup(w)
      PROVE  UNCHANGED <<queue, taken, submitted>>
  BY <1>5 DEF StartWorker, Wait, Finish, Expire, Call, Return, Exit, SpuriousWakeup, pool, history
<1>6. ASSUME NEW call, BeginStop(call)
      PROVE  UNCHANGED <<queue, taken, submitted>>
  BY <1>6 DEF BeginStop, history
<1>7. ASSUME CreateThread \/ NewReturns \/ NewSpins \/ Poll \/ Join \/ StopReturns \/ Freed
             \/ Tick \/ UNCHANGED vars
      PROVE  UNCHANGED <<queue, taken, submitted>>
  BY <1>7 DEF CreateThread, NewReturns, NewSpins, Poll, Join, StopReturns, Freed, Tick, pool,
              history, vars
<1> QED BY <1>1, <1>2, <1>3, <1>4, <1>5, <1>6, <1>7 DEF Next, WorkerStep, OwnerStep

LEMMA JoinedSoFarStep ==
  ASSUME Types, JoinedSoFar, [Next]_vars
  PROVE  JoinedSoFar'
<1>1. CASE Join
  <2>1. ji \in Workers /\ ji' = ji + 1 /\ owner' = owner /\ owner # "freed"
    BY <1>1, NbThreadsAssumption DEF Join, Workers, Types
  <2>2. joins \in [Workers -> Nat] /\ joins' = [joins EXCEPT ![ji] = @ + 1]
    BY <1>1 DEF Join, Types
  <2>3. joins'[ji] > 0 /\ \A k \in Workers : joins[k] > 0 => joins'[k] > 0
    BY <2>1, <2>2
  <2>4. ASSUME owner \in {"joining", "freeing"}, NEW k \in 0 .. ji' - 1
        PROVE  joins'[k] > 0
    <3>1. k \in Workers /\ (k = ji \/ k \in 0 .. ji - 1)
      BY <2>1, NbThreadsAssumption DEF Types, Workers
    <3> QED BY <2>3, <2>4, <3>1 DEF JoinedSoFar
  <2> QED BY <2>1, <2>4 DEF JoinedSoFar
<1>2. CASE Cleanup
  <2>1. joins' = joins /\ owner = "freeing" /\ owner' = "freed" /\ ji = NbThreads
    BY <1>2 DEF Cleanup
  <2> QED BY <2>1 DEF JoinedSoFar, Workers
<1>3. ASSUME NEW call \in {"joining", "freeing"}, BeginStop(call)
      PROVE  JoinedSoFar'
  <2>1. ji' = 0 /\ owner' = call
    BY <1>3 DEF BeginStop
  <2>2. 0 .. ji' - 1 = {}
    BY <2>1
  <2> QED BY <2>1, <2>2 DEF JoinedSoFar
<1>4. CASE CreateThread \/ NewReturns \/ StopReturns
  <2>1. owner' \in {"new", "open", "stopped"}
    BY <1>4 DEF CreateThread, NewReturns, StopReturns
  <2> QED BY <2>1 DEF JoinedSoFar
<1>5. CASE UNCHANGED <<owner, ji, joins>>
  BY <1>5 DEF JoinedSoFar
<1>6. ASSUME NEW w \in Workers, WorkerStep(w) \/ SpuriousWakeup(w)
      PROVE  UNCHANGED <<owner, ji, joins>>
  BY <1>6 DEF WorkerStep, StartWorker, Wait, Take, Finish, Expire, Call, Return, Exit,
              SpuriousWakeup, history
<1>7. ASSUME NEW t, NEW timeout, AddTask(t, timeout)
      PROVE  UNCHANGED <<owner, ji, joins>>
  BY <1>7 DEF AddTask
<1>8. ASSUME NewSpins \/ Poll \/ Freed \/ Tick \/ UNCHANGED vars
      PROVE  UNCHANGED <<owner, ji, joins>>
  BY <1>8 DEF NewSpins, Poll, Freed, Tick, history, vars
<1> QED BY <1>1, <1>2, <1>3, <1>4, <1>5, <1>6, <1>7, <1>8 DEF Next, OwnerStep

\* Once the pool is gone only the clock moves.
LEMMA EndOfPool ==
  ASSUME Types, Lifecycle, owner = "freed", [Next]_vars
  PROVE  UNCHANGED <<pool, threads, task, results, owner, ji, history>>
<1>1. \A w \in Workers : pc[w] = "exited"
  BY DEF Lifecycle
<1>2. ASSUME NEW w \in Workers, WorkerStep(w) \/ SpuriousWakeup(w)
      PROVE  FALSE
  BY <1>1, <1>2 DEF WorkerStep, StartWorker, Wait, Take, Finish, Expire, Call, Return, Exit,
                    SpuriousWakeup
<1>3. ASSUME NEW t, NEW timeout, AddTask(t, timeout)
      PROVE  FALSE
  BY <1>1, <1>3 DEF AddTask, MayAdd
<1>4. ASSUME NEW call \in {"joining", "freeing"}, BeginStop(call)
      PROVE  FALSE
  BY <1>4 DEF BeginStop
<1>5. CASE CreateThread \/ NewReturns \/ NewSpins \/ Poll \/ Join \/ StopReturns \/ Cleanup
  BY <1>5 DEF CreateThread, NewReturns, NewSpins, Poll, Join, StopReturns, Cleanup
<1>6. CASE Freed \/ Tick \/ UNCHANGED vars
  BY <1>6 DEF Freed, Tick, pool, threads, history, vars
<1> QED BY <1>2, <1>3, <1>4, <1>5, <1>6 DEF Next, OwnerStep

\* When free comes to its loops, the tasks not collected are those finished
\* and those queued, each of them once.
LEMMA AtCleanup ==
  ASSUME Types, Lifecycle, Order, Apart, Ledger, Cleanup
  PROVE  /\ Image(submitted) = Image(taken) \cup Image(queue)
         /\ Image(taken) \cap Image(queue) = {}
         /\ Image(taken) = Image(finished) \cup Image(results)
         /\ Image(finished) \cap Image(results) = {}
         /\ Inj(finished) /\ Inj(queue)
<1> /\ finished \in Seq(Tasks) /\ results \in Seq(Tasks)
    /\ queue \in Seq(Tasks) /\ taken \in Seq(Tasks)
  BY DEF Types
<1>1. owner = "freeing" /\ ji = NbThreads
  BY DEF Cleanup
<1>2. Busy = {}
  BY <1>1, NobodyBusy DEF Busy
<1>3. Image(taken) = Published
  BY <1>1, <1>2 DEF Apart
<1>4. submitted = taken \o queue /\ Inj(submitted)
  BY <1>1 DEF Order, SubmissionOrder
<1>5. Inj(queue)
  BY <1>4, SeqFacts
<1>6. Inj(results \o finished)
  BY DEF Ledger, PublishedOnce, Out
<1>7. Inj(finished) /\ Image(results) \cap Image(finished) = {}
  BY <1>6, SeqFacts, InjConcat
<1> QED BY <1>1, <1>3, <1>5, <1>7, QueuedNotTaken DEF Published

LEMMA CleanupReleases ==
  ASSUME Types, Lifecycle, Order, Apart, Ledger, Cleanup
  PROVE  Released'
<1> finished \in Seq(Tasks) /\ queue \in Seq(Tasks)
  BY DEF Types
<1>1. /\ owner = "freeing" /\ owner' = "freed" /\ queue' = <<>> /\ finished' = <<>>
      /\ submitted' = submitted /\ results' = results /\ taken' = taken
  BY DEF Cleanup
<1> DEFINE F(t) == Cardinality({i \in DOMAIN finished : finished[i] = t})
           Q(t) == Cardinality({i \in DOMAIN queue : queue[i] = t})
<1>2. cleaned' = [t \in Tasks |-> [userdata |-> cleaned[t].userdata + F(t) + Q(t),
                                   ret |-> cleaned[t].ret + F(t)]]
  BY DEF Cleanup
<1>3. ASSUME NEW t \in Tasks
      PROVE  /\ F(t) = IF t \in Image(finished) THEN 1 ELSE 0
             /\ Q(t) = IF t \in Image(queue) THEN 1 ELSE 0
  BY AtCleanup, Occurrences
<1> HIDE DEF F, Q
<1>4. ASSUME NEW t \in Tasks
      PROVE  cleaned'[t] = Due(t)
  <2>1. cleaned[t] = Untouched
    BY <1>1 DEF Ledger, Released
  <2>2. cleaned'[t] = [userdata |-> 0 + F(t) + Q(t), ret |-> 0 + F(t)]
    BY <1>2, <2>1 DEF Untouched
  <2>3. CASE t \in Image(finished)
    <3>1. F(t) = 1 /\ Q(t) = 0 /\ t \in Image(taken) /\ t \in Image(submitted) \ Image(results)
      BY <2>3, <1>3, AtCleanup
    <3> QED BY <3>1, <2>2 DEF Due
  <2>4. CASE t \in Image(queue)
    <3>1. F(t) = 0 /\ Q(t) = 1 /\ t \notin Image(taken) /\ t \in Image(submitted) \ Image(results)
      BY <2>4, <1>3, AtCleanup
    <3> QED BY <3>1, <2>2 DEF Due
  <2>5. CASE t \notin Image(finished) \cup Image(queue)
    <3>1. F(t) = 0 /\ Q(t) = 0 /\ t \notin Image(submitted) \ Image(results)
      BY <2>5, <1>3, AtCleanup
    <3> QED BY <3>1, <2>2 DEF Due, Untouched
  <2> QED BY <2>3, <2>4, <2>5
<1>5. \A t \in Tasks : Due(t)' = Due(t)
  BY <1>1 DEF Due, Image, Untouched
<1> QED BY <1>1, <1>4, <1>5 DEF Released

LEMMA ReleasedStep ==
  ASSUME Types, Lifecycle, Order, Apart, Ledger, [Next]_vars
  PROVE  Released'
<1>1. CASE owner = "freed"
  <2>1. UNCHANGED <<owner, cleaned, queue, finished, submitted, results, taken>>
    BY <1>1, EndOfPool DEF pool, history
  <2> QED BY <1>1, <2>1 DEF Ledger, Released, Due, Image, Untouched
<1>2. CASE Cleanup
  BY <1>2, CleanupReleases
<1>3. CASE owner # "freed" /\ owner' # "freed" /\ cleaned' = cleaned
  BY <1>3 DEF Ledger, Released, Untouched
<1>4. ASSUME NEW w \in Workers, WorkerStep(w) \/ SpuriousWakeup(w)
      PROVE  owner' = owner /\ cleaned' = cleaned
  BY <1>4 DEF WorkerStep, StartWorker, Wait, Take, Finish, Expire, Call, Return, Exit,
              SpuriousWakeup, history
<1>5. ASSUME NEW t, NEW timeout, AddTask(t, timeout)
      PROVE  owner' = owner /\ cleaned' = cleaned
  BY <1>5 DEF AddTask
<1>6. ASSUME NEW call \in {"joining", "freeing"}, BeginStop(call)
      PROVE  owner' # "freed" /\ cleaned' = cleaned
  BY <1>6 DEF BeginStop, history
<1>7. ASSUME NewReturns \/ StopReturns
      PROVE  owner' # "freed" /\ cleaned' = cleaned
  BY <1>7 DEF NewReturns, StopReturns, history
<1>8. ASSUME CreateThread \/ NewSpins \/ Poll \/ Join \/ Freed \/ Tick \/ UNCHANGED vars
      PROVE  owner' = owner /\ cleaned' = cleaned
  BY <1>8 DEF CreateThread, NewSpins, Poll, Join, Freed, Tick, history, vars
<1> QED BY <1>1, <1>2, <1>3, <1>4, <1>5, <1>6, <1>7, <1>8 DEF Next, OwnerStep

-----------------------------------------------------------------------------
(* The theorems *)

LEMMA InitLedger == Init => Ledger
<1> SUFFICES ASSUME Init PROVE Ledger
  OBVIOUS
<1>1. /\ results = <<>> /\ finished = <<>> /\ queue = <<>> /\ taken = <<>> /\ submitted = <<>>
      /\ owner = "new" /\ \A t \in Tasks : cleaned[t] = Untouched
  BY DEF Init, Untouched
<1>2. Out = <<>>
  BY <1>1, EmptySeq, ConcatEmptySeq DEF Out
<1>3. PublishedOnce
  BY <1>2 DEF PublishedOnce, Inj
<1>4. AllSubmitted
  BY <1>1, ImageEmpty DEF AllSubmitted
<1> QED BY <1>1, <1>3, <1>4 DEF Ledger, JoinedSoFar, Released

\* The books are right in every state, beside IInv.
THEOREM Books == Spec => [](IInv /\ Ledger)
<1>1. ASSUME IInv, Ledger, [Next]_vars
      PROVE  Ledger'
  BY <1>1, PublishedOnceStep, AllSubmittedStep, JoinedSoFarStep, ReleasedStep DEF IInv, Ledger
<1> QED BY <1>1, InitLedger, Invariance, PTL DEF Spec

\* free releases a pool no thread can touch any more, and has called, of every
\* task nobody collected, userdata_cleanup once, ret_cleanup once if it was
\* executed and never if it was not taken.
THEOREM FreeReleasesAll == Spec => []FreedClean
<1>1. ASSUME IInv, Ledger
      PROVE  FreedClean
  <2> SUFFICES ASSUME owner = "freed"
               PROVE  /\ \A w \in Workers : pc[w] = "exited" /\ joins[w] > 0
                      /\ \A t \in Image(submitted) :
                           IF t \in Image(results)
                             THEN cleaned[t] = [userdata |-> 0, ret |-> 0]
                             ELSE /\ cleaned[t].userdata = 1
                                  /\ ran[t] > 0 => cleaned[t].ret = 1
                                  /\ t \notin Image(taken) => cleaned[t].ret = 0
    BY DEF FreedClean
  <2>1. \A w \in Workers : pc[w] = "exited" /\ joins[w] > 0
    BY <1>1 DEF IInv, Lifecycle, Ledger, JoinedSoFar
  <2>2. Image(submitted) \subseteq Tasks
    BY <1>1, ImageIn DEF IInv, Types
  <2>3. \A t \in Tasks : cleaned[t] = Due(t)
    BY <1>1 DEF Ledger, Released
  <2>4. \A t \in Tasks : ran[t] > 0 => t \in Image(taken)
    BY <1>1 DEF IInv, Outcomes, Fresh
  <2>5. ASSUME NEW t \in Image(submitted), t \in Image(results)
        PROVE  cleaned[t] = [userdata |-> 0, ret |-> 0]
    BY <2>2, <2>3, <2>5 DEF Due, Untouched
  <2>6. ASSUME NEW t \in Image(submitted), t \notin Image(results)
        PROVE  /\ cleaned[t].userdata = 1
               /\ cleaned[t].ret = IF t \in Image(taken) THEN 1 ELSE 0
    <3>1. cleaned[t] = [userdata |-> 1, ret |-> IF t \in Image(taken) THEN 1 ELSE 0]
      BY <2>2, <2>3, <2>6 DEF Due
    <3> QED BY <3>1
  <2>7. ASSUME NEW t \in Image(submitted), t \notin Image(results)
        PROVE  /\ ran[t] > 0 => cleaned[t].ret = 1
               /\ t \notin Image(taken) => cleaned[t].ret = 0
    BY <2>2, <2>4, <2>6, <2>7
  <2> QED BY <2>1, <2>5, <2>6, <2>7
<1> QED BY <1>1, Books, PTL

-----------------------------------------------------------------------------
(* One place *)

At(s, t) == {i \in DOMAIN s : s[i] = t}

LEMMA Index ==
  ASSUME NEW S, NEW s \in Seq(S), Inj(s), NEW t
  PROVE  /\ t \notin Image(s) => At(s, t) = {}
         /\ t \in Image(s) => \E i : At(s, t) = {i}
<1>1. ASSUME t \notin Image(s) PROVE At(s, t) = {}
  BY <1>1 DEF Image, At
<1>2. ASSUME t \in Image(s) PROVE \E i : At(s, t) = {i}
  <2>1. PICK i \in DOMAIN s : s[i] = t
    BY <1>2 DEF Image
  <2>2. At(s, t) = {i}
    BY <2>1 DEF Inj, At
  <2> QED BY <2>2
<1> QED BY <1>1, <1>2

LEMMA Pairs ==
  /\ \A tag : {} \X {tag} = {}
  /\ \A i, tag : {i} \X {tag} = {<<i, tag>>}
  OBVIOUS

\* Where a task may be while the pool exists.
LEMMA Whereabouts ==
  ASSUME IInv, Ledger, NEW t \in Tasks
  PROVE  /\ t \in Image(queue) => t \in Image(submitted) \ (Image(taken) \cup Published)
         /\ t \in Published => t \in Image(taken)
         /\ \A w \in Workers : held[w] = t => w \in Busy /\ t \in Image(taken) \ Published
         /\ \A v, w \in Workers : held[v] = t /\ held[w] = t => v = w
         /\ t \in Image(taken) => t \in Image(submitted)
         /\ Image(finished) \cap Image(results) = {}
         /\ Inj(finished) /\ Inj(results)
<1> /\ finished \in Seq(Tasks) /\ results \in Seq(Tasks) /\ queue \in Seq(Tasks)
    /\ Types /\ Apart /\ Order
  BY DEF IInv, Types
<1>1. Inj(results \o finished)
  BY DEF Ledger, PublishedOnce, Out
<1>2. Inj(finished) /\ Inj(results) /\ Image(finished) \cap Image(results) = {}
  BY <1>1, SeqFacts, InjConcat
<1>3. t # NoTask
  BY NoTaskAssumption
<1>4. \A w \in Workers : held[w] = t => w \in Busy
  BY <1>3 DEF Types, Busy
<1>5. ASSUME t \in Image(queue)
      PROVE  t \notin Image(taken)
  <2>1. owner # "freed"
    BY <1>5, ImageEmpty DEF Ledger, Released
  <2> QED BY <1>5, <2>1, QueuedNotTaken
<1> QED BY <1>2, <1>4, <1>5 DEF Apart, Ledger, AllSubmitted

\* A submitted task is in exactly one place, any other in none.
THEOREM TasksInOnePlace == Spec => []OnePlace
<1>1. ASSUME IInv, Ledger, NEW t \in Tasks
      PROVE  Cardinality(Places(t)) = IF t \in Image(submitted) THEN 1 ELSE 0
  <2> DEFINE H == {w \in Workers : held[w] = t}
             C == 1 .. cleaned[t].userdata
  <2> /\ finished \in Seq(Tasks) /\ results \in Seq(Tasks) /\ queue \in Seq(Tasks)
      /\ Types /\ Apart /\ Order /\ Lifecycle
    BY <1>1 DEF IInv, Types
  <2>1. Places(t) = At(queue, t) \X {"queue"} \cup At(finished, t) \X {"finished"}
                      \cup At(results, t) \X {"results"} \cup H \X {"held"} \cup C \X {"cleaned"}
    BY DEF Places, At
  <2>2. /\ t \notin Image(finished) => At(finished, t) = {}
        /\ t \notin Image(results) => At(results, t) = {}
        /\ t \in Image(finished) => \E i : At(finished, t) = {i}
        /\ t \in Image(results) => \E i : At(results, t) = {i}
    BY <1>1, Whereabouts, Index
  <2>3. t \notin Image(queue) => At(queue, t) = {}
    BY DEF At, Image
  <2>4. ASSUME t \in Image(queue)
        PROVE  \E i : At(queue, t) = {i}
    <3>1. owner # "freed"
      BY <1>1, <2>4, ImageEmpty DEF Ledger, Released
    <3>2. Inj(taken \o queue) /\ taken \in Seq(Tasks)
      BY <3>1 DEF Order, SubmissionOrder, Types
    <3> QED BY <2>4, <3>2, SeqFacts, Index
  <2>5. /\ (\A w \in Workers : held[w] # t) => H = {}
        /\ \A w \in Workers : held[w] = t => H = {w}
    BY <1>1, Whereabouts
  <2>6. C = IF owner = "freed" /\ t \in Image(submitted) \ Image(results) THEN {1} ELSE {}
    <3>1. cleaned[t].userdata = IF owner = "freed" /\ t \in Image(submitted) \ Image(results)
                                  THEN 1 ELSE 0
      <4>1. cleaned[t] = IF owner = "freed" THEN Due(t) ELSE Untouched
        BY <1>1 DEF Ledger, Released
      <4>2. Due(t).userdata = IF t \in Image(submitted) \ Image(results) THEN 1 ELSE 0
        BY DEF Due, Untouched
      <4>3. Untouched.userdata = 0
        BY DEF Untouched
      <4> QED BY <4>1, <4>2, <4>3
    <3>2. 1 .. 1 = {1} /\ 1 .. 0 = {}
      OBVIOUS
    <3> QED BY <3>1, <3>2
  <2> HIDE DEF H, C
  <2>7. CASE t \notin Image(submitted)
    <3>1. /\ t \notin Image(queue) /\ t \notin Image(finished) /\ t \notin Image(results)
          /\ \A w \in Workers : held[w] # t
      BY <1>1, <2>7, Whereabouts DEF Published
    <3>2. Places(t) = {}
      BY <2>1, <2>2, <2>3, <2>5, <2>6, <2>7, <3>1, Pairs
    <3> QED BY <2>7, <3>2, FS_EmptySet
  <2>8. CASE t \in Image(submitted)
    <3>1. /\ t \in Image(queue) => /\ t \notin Image(finished) /\ t \notin Image(results)
                                   /\ \A w \in Workers : held[w] # t
          /\ t \in Image(finished) => /\ t \notin Image(results)
                                      /\ \A w \in Workers : held[w] # t
          /\ t \in Image(results) => \A w \in Workers : held[w] # t
      BY <1>1, Whereabouts DEF Published
    <3>2. owner = "freed" => /\ t \notin Image(queue) /\ t \notin Image(finished)
                             /\ \A w \in Workers : held[w] # t
      <4>1. owner = "freed" => Busy = {} /\ queue = <<>> /\ finished = <<>>
        BY <1>1 DEF Ledger, Released, Lifecycle, Busy, BusyPc
      <4> QED BY <4>1, <1>1, Whereabouts, ImageEmpty
    <3>3. owner # "freed" => \/ t \in Image(queue) \/ t \in Image(finished)
                             \/ t \in Image(results) \/ \E w \in Workers : held[w] = t
      BY <2>8, QueuedNotTaken DEF Apart, Published, Busy
    <3>4. \E p : Places(t) = {p}
      <4>1. CASE t \in Image(queue)
        <5>1. PICK i : At(queue, t) = {i}
          BY <2>4, <4>1
        <5>2. Places(t) = {<<i, "queue">>}
          BY <2>1, <2>2, <2>5, <2>6, <3>1, <3>2, <4>1, <5>1, Pairs
        <5> QED BY <5>2
      <4>2. CASE t \in Image(finished)
        <5>1. PICK i : At(finished, t) = {i}
          BY <2>2, <4>2
        <5>2. Places(t) = {<<i, "finished">>}
          BY <2>1, <2>2, <2>3, <2>5, <2>6, <3>1, <3>2, <4>2, <5>1, Pairs
        <5> QED BY <5>2
      <4>3. CASE t \in Image(results)
        <5>1. PICK i : At(results, t) = {i}
          BY <2>2, <4>3
        <5>2. Places(t) = {<<i, "results">>}
          BY <2>1, <2>2, <2>3, <2>5, <2>6, <3>1, <4>3, <5>1, Pairs
        <5> QED BY <5>2
      <4>4. ASSUME NEW w \in Workers, held[w] = t
            PROVE  Places(t) = {<<w, "held">>}
        BY <2>1, <2>2, <2>3, <2>5, <2>6, <3>1, <3>2, <4>4, Pairs
      <4>5. CASE owner = "freed" /\ t \notin Image(results)
        <5>1. Places(t) = {<<1, "cleaned">>}
          BY <2>1, <2>2, <2>3, <2>5, <2>6, <2>8, <3>2, <4>5, Pairs
        <5> QED BY <5>1
      <4> QED BY <3>3, <4>1, <4>2, <4>3, <4>4, <4>5
    <3> QED BY <2>8, <3>4, FS_Singleton
  <2> QED BY <2>7, <2>8
<1>2. IInv /\ Ledger => OnePlace
  BY <1>1 DEF OnePlace
<1> QED BY <1>2, Books, PTL

-----------------------------------------------------------------------------
(* How far results run ahead *)

Upto(s, n) == {s[i] : i \in 1 .. n}

\* Earlier(t) of BoundedReordering: t and what was submitted before it.
Before(s, t) == Upto(s, CHOOSE k \in DOMAIN s : s[k] = t)

LEMMA BeforeAt ==
  ASSUME Types, Order, NEW k \in DOMAIN submitted
  PROVE  Before(submitted, submitted[k]) = Upto(submitted, k)
<1>1. \A j \in DOMAIN submitted : submitted[j] = submitted[k] => j = k
  BY DEF Order, Inj
<1>2. (CHOOSE j \in DOMAIN submitted : submitted[j] = submitted[k]) = k
  BY <1>1
<1> QED BY <1>2 DEF Before

\* What a taken task was submitted after has been taken.
LEMMA BeforeTaken ==
  ASSUME Types, Order, owner # "freed", NEW t \in Image(taken)
  PROVE  Before(submitted, t) \subseteq Image(taken)
<1> taken \in Seq(Tasks) /\ queue \in Seq(Tasks) /\ submitted \in Seq(Tasks)
  BY DEF Types
<1>1. PICK k \in DOMAIN taken : taken[k] = t
  BY DEF Image
<1>2. submitted = taken \o queue
  BY DEF Order, SubmissionOrder
<1>3. \A i \in DOMAIN taken : i \in DOMAIN submitted /\ submitted[i] = taken[i]
  BY <1>2, ConcatProperties
<1>4. Before(submitted, t) = Upto(submitted, k)
  BY <1>1, <1>3, BeforeAt
<1>5. \A i \in 1 .. k : i \in DOMAIN taken
  BY <1>1
<1> QED BY <1>3, <1>4, <1>5 DEF Upto, Image

\* A new submission comes before none of the others.
LEMMA BeforeKept ==
  ASSUME Types, Order, NEW e \in Tasks, e \notin Image(submitted),
         submitted' = Append(submitted, e), NEW t \in Image(submitted)
  PROVE  Before(submitted', t) = Before(submitted, t)
<1> submitted \in Seq(Tasks)
  BY DEF Types
<1>1. PICK k \in DOMAIN submitted : submitted[k] = t
  BY DEF Image
<1>2. /\ DOMAIN submitted = 1 .. Len(submitted) /\ DOMAIN submitted' = 1 .. Len(submitted) + 1
      /\ \A i \in DOMAIN submitted : submitted'[i] = submitted[i]
      /\ submitted'[Len(submitted) + 1] = e
  BY AppendProperties
<1>3. \A j \in DOMAIN submitted' : submitted'[j] = t => j = k
  <2> TAKE j \in DOMAIN submitted'
  <2>1. CASE j = Len(submitted) + 1
    <3>1. t # e
      OBVIOUS
    <3> QED BY <2>1, <3>1, <1>2
  <2>2. CASE j \in DOMAIN submitted
    BY <2>2, <1>1, <1>2 DEF Order, Inj
  <2> QED BY <2>1, <2>2, <1>2
<1>4. k \in DOMAIN submitted' /\ submitted'[k] = t
  BY <1>1, <1>2
<1>5. (CHOOSE j \in DOMAIN submitted' : submitted'[j] = t) = k
  BY <1>3, <1>4
<1>6. Upto(submitted', k) = Upto(submitted, k)
  BY <1>1, <1>2 DEF Upto
<1>7. Before(submitted, t) = Upto(submitted, k)
  BY <1>1, BeforeAt
<1>8. Before(submitted', t) = Upto(submitted', k)
  BY <1>5 DEF Before, Upto
<1> QED BY <1>6, <1>7, <1>8

Ahead(s, out, i) == Before(s, out[i]) \ Upto(out, i)

Near == \A i \in DOMAIN Out : Cardinality(Ahead(submitted, Out, i)) < NbThreads

LEMMA FiniteImage ==
  ASSUME NEW S, IsFiniteSet(S), NEW f
  PROVE  IsFiniteSet({f[x] : x \in S}) /\ Cardinality({f[x] : x \in S}) <= Cardinality(S)
<1> DEFINE T == {f[x] : x \in S}
           g == [x \in S |-> f[x]]
<1>1. g \in [S -> T] /\ \A y \in T : \E x \in S : g[x] = y
  OBVIOUS
<1>2. g \in Surjection(S, T)
  BY <1>1 DEF Surjection
<1> HIDE DEF g
<1> QED BY <1>2, FS_Surjection

\* What a worker overtakes when it publishes is in the hands of the others.
LEMMA FinishNear ==
  ASSUME IInv, NEW w \in Workers, Finish(w)
  PROVE  Cardinality(Before(submitted, held[w]) \ (Published \cup {held[w]})) < NbThreads
<1> DEFINE O == Busy \ {w}
           A == Before(submitted, held[w]) \ (Published \cup {held[w]})
<1> Types /\ Apart /\ Order /\ Lifecycle
  BY DEF IInv
<1>1. w \in Busy /\ owner # "freed" /\ held[w] \in Image(taken)
  BY FinishOut DEF Apart
<1>2. Before(submitted, held[w]) \subseteq Published \cup {held[v] : v \in Busy}
  BY <1>1, BeforeTaken DEF Apart
<1>3. A \subseteq {held[v] : v \in O}
  BY <1>2
<1>4. /\ IsFiniteSet(Busy) /\ Cardinality(Busy) \in 0 .. NbThreads
  BY WorkerSets
<1>5. IsFiniteSet(O) /\ Cardinality(O) = Cardinality(Busy) - 1
  BY <1>1, <1>4, FS_RemoveElement
<1>6. /\ IsFiniteSet({held[v] : v \in O})
      /\ Cardinality({held[v] : v \in O}) <= Cardinality(O)
  BY <1>5, FiniteImage
<1>7. Cardinality(A) <= Cardinality({held[v] : v \in O}) /\ IsFiniteSet(A)
  BY <1>3, <1>6, FS_Subset
<1>8. Cardinality(A) \in Nat /\ Cardinality({held[v] : v \in O}) \in Nat
  BY <1>6, <1>7, FS_CardinalityType
<1> QED BY <1>4, <1>5, <1>6, <1>7, <1>8, NbThreadsAssumption

LEMMA NearStep ==
  ASSUME IInv, Near, [Next]_vars
  PROVE  Near'
<1> /\ Types /\ Apart /\ Order /\ Lifecycle
    /\ Out \in Seq(Tasks) /\ Image(Out) = Published
  BY OutFacts DEF IInv
<1> SUFFICES \A i \in DOMAIN Out' : Cardinality(Ahead(submitted', Out', i)) < NbThreads
  BY DEF Near
<1>1. CASE UNCHANGED <<Out, submitted>>
  BY <1>1 DEF Near
<1>2. ASSUME NEW w \in Workers, Finish(w), NEW i \in DOMAIN Out'
      PROVE  Cardinality(Ahead(submitted', Out', i)) < NbThreads
  <2>1. held[w] \in Tasks /\ Out' = Append(Out, held[w]) /\ submitted' = submitted
    BY <1>2, FinishOut DEF Finish, history
  <2>2. /\ DOMAIN Out = 1 .. Len(Out) /\ DOMAIN Out' = 1 .. Len(Out) + 1
        /\ \A j \in DOMAIN Out : Out'[j] = Out[j]
        /\ Out'[Len(Out) + 1] = held[w]
    BY <2>1, AppendProperties
  <2>3. CASE i \in DOMAIN Out
    <3>1. Out'[i] = Out[i] /\ Upto(Out', i) = Upto(Out, i)
      BY <2>2, <2>3 DEF Upto
    <3> QED BY <2>1, <2>3, <3>1 DEF Ahead, Near
  <2>4. CASE i = Len(Out) + 1
    <3>1. Upto(Out', i) = Image(Out')
      BY <2>2, <2>4 DEF Upto, Image
    <3>2. Image(Out') = Published \cup {held[w]}
      BY <2>1, ImageAppend
    <3>3. Ahead(submitted', Out', i) = Before(submitted, held[w]) \ (Published \cup {held[w]})
      BY <2>1, <2>2, <2>4, <3>1, <3>2 DEF Ahead
    <3> QED BY <1>2, <3>3, FinishNear
  <2> QED BY <1>2, <2>2, <2>3, <2>4
<1>3. ASSUME NEW t \in Tasks, NEW timeout \in Timeouts, AddTask(t, timeout),
             NEW i \in DOMAIN Out'
      PROVE  Cardinality(Ahead(submitted', Out', i)) < NbThreads
  <2>1. /\ t \notin Image(submitted) /\ submitted' = Append(submitted, t)
        /\ Out' = Out /\ owner # "freed"
    BY <1>3 DEF AddTask, MayAdd, Lifecycle, Out
  <2>2. Out[i] \in Image(submitted)
    <3>1. Out[i] \in Published
      BY <1>3, <2>1 DEF Image
    <3> QED BY <2>1, <3>1, QueuedNotTaken DEF Apart
  <2>3. Before(submitted', Out[i]) = Before(submitted, Out[i])
    BY <2>1, <2>2, BeforeKept
  <2> QED BY <1>3, <2>1, <2>3 DEF Ahead, Near
<1>4. ASSUME Poll
      PROVE  UNCHANGED <<Out, submitted>>
  BY <1>4, PollOut DEF Poll, history
<1>5. ASSUME Cleanup, NEW i \in DOMAIN Out'
      PROVE  Cardinality(Ahead(submitted', Out', i)) < NbThreads
  <2>1. Out' = results /\ submitted' = submitted
    BY <1>5, CleanupOut DEF Cleanup
  <2>2. \A j \in DOMAIN results : j \in DOMAIN Out /\ Out[j] = results[j]
    <3>1. results \in Seq(Tasks) /\ finished \in Seq(Tasks)
      BY DEF Types
    <3>2. /\ Out \in Seq(Tasks) /\ Len(Out) = Len(results) + Len(finished)
          /\ \A j \in 1 .. Len(results) + Len(finished) :
               Out[j] = IF j <= Len(results) THEN results[j] ELSE finished[j - Len(results)]
      BY <3>1, ConcatProperties DEF Out
    <3>3. Len(results) \in Nat /\ Len(finished) \in Nat /\ DOMAIN results = 1 .. Len(results)
          /\ DOMAIN Out = 1 .. Len(Out)
      BY <3>1, <3>2, LenProperties
    <3> QED BY <3>2, <3>3
  <2>3. \A j \in 1 .. i : j \in DOMAIN results
    BY <1>5, <2>1 DEF Types
  <2>4. Upto(Out, i) = Upto(results, i)
    BY <2>2, <2>3 DEF Upto
  <2> QED BY <1>5, <2>1, <2>2, <2>4 DEF Ahead, Near
<1>6. ASSUME NEW w \in Workers,
             StartWorker(w) \/ Wait(w) \/ Take(w) \/ Expire(w) \/ Call(w) \/ Return(w)
               \/ Exit(w) \/ SpuriousWakeup(w)
      PROVE  UNCHANGED <<Out, submitted>>
  BY <1>6 DEF StartWorker, Wait, Take, Expire, Call, Return, Exit, SpuriousWakeup, pool,
              history, Out
<1>7. ASSUME NEW call, BeginStop(call)
      PROVE  UNCHANGED <<Out, submitted>>
  BY <1>7 DEF BeginStop, history, Out
<1>8. ASSUME CreateThread \/ NewReturns \/ NewSpins \/ Join \/ StopReturns \/ Freed \/ Tick
             \/ UNCHANGED vars
      PROVE  UNCHANGED <<Out, submitted>>
  BY <1>8 DEF CreateThread, NewReturns, NewSpins, Join, StopReturns, Freed, Tick, pool,
              history, vars, Out
<1> QED BY <1>1, <1>2, <1>3, <1>4, <1>5, <1>6, <1>7, <1>8 DEF Next, WorkerStep, OwnerStep

\* A published task has overtaken fewer tasks than there are threads.
THEOREM ReorderingBounded == Spec => []BoundedReordering
<1>1. Init => Near
  <2> SUFFICES ASSUME Init PROVE Near
    OBVIOUS
  <2>1. Out = <<>>
    BY EmptySeq, ConcatEmptySeq DEF Init, Out
  <2> QED BY <2>1 DEF Near
<1>2. Near => BoundedReordering
  BY DEF Near, BoundedReordering, Ahead, Before, Upto, Out
<1> QED BY <1>1, <1>2, NearStep, Invariance, PTL DEF Spec

-----------------------------------------------------------------------------
(* The refinement *)

Active    == {held[w] : w \in Busy}
Outcome   == [t \in Tasks |-> IF task[t].is_timeout THEN "expired"
                              ELSE IF ran[t] > 0 THEN "executed" ELSE "none"]
Discarded == {t \in Tasks : cleaned[t].userdata > 0}

\* The variables of the abstract pool, as Pthpool maps them.
AbstractVars == <<queue, Active, Outcome, finished, results, Discarded, owner = "freed">>

\* The threads that hold a task, after a step of worker w.
LEMMA BusyStep ==
  ASSUME Types, NEW w \in Workers, NEW state, pc' = [pc EXCEPT ![w] = state]
  PROVE  Busy' = IF state \in BusyPc THEN Busy \cup {w} ELSE Busy \ {w}
<1> pc \in [Workers -> {"none", "failed", "start", "idle", "waiting", "exited"} \cup BusyPc]
  BY DEF Types
<1>1. pc'[w] = state /\ \A v \in Workers \ {w} : pc'[v] = pc[v]
  OBVIOUS
<1> QED BY <1>1 DEF Busy

\* Steps that leave the tasks in the workers' hands and their fields alone.
LEMMA SilentStep ==
  ASSUME Busy' = Busy, UNCHANGED <<queue, held, task, ran, finished, results, cleaned>>,
         owner' # "freed", owner # "freed"
  PROVE  UNCHANGED AbstractVars
  BY DEF AbstractVars, Active, Outcome, Discarded

LEMMA SilentWorker ==
  ASSUME Types, Lifecycle, NEW w \in Workers,
         StartWorker(w) \/ Wait(w) \/ SpuriousWakeup(w) \/ Exit(w)
  PROVE  UNCHANGED AbstractVars
<1>1. /\ pc[w] \notin BusyPc /\ pc[w] # "exited" /\ owner' = owner
      /\ UNCHANGED <<queue, held, task, ran, finished, results, cleaned>>
      /\ \E state \in {"idle", "waiting", "exited"} : pc' = [pc EXCEPT ![w] = state]
  BY DEF StartWorker, Wait, SpuriousWakeup, Exit, BusyPc, pool, history
<1>2. Busy' = Busy \ {w}
  BY <1>1, BusyStep DEF BusyPc
<1>3. w \notin Busy
  BY <1>1 DEF Busy
<1>4. owner # "freed"
  BY <1>1 DEF Lifecycle
<1> QED BY <1>1, <1>2, <1>3, <1>4, SilentStep

\* The owner's steps that only move the owner on, and the clock.
LEMMA SilentOwner ==
  ASSUME Types, Lifecycle,
         \/ CreateThread \/ NewReturns \/ NewSpins \/ Join \/ StopReturns
         \/ \E call \in {"joining", "freeing"} : BeginStop(call)
  PROVE  UNCHANGED AbstractVars
<1>1. /\ owner # "freed" /\ owner' # "freed"
      /\ UNCHANGED <<queue, held, task, ran, finished, results, cleaned>>
  BY DEF CreateThread, NewReturns, NewSpins, Join, StopReturns, BeginStop, pool, threads,
         history, vars
<1>2. CASE CreateThread
  <2>1. ji \in Workers /\ pc[ji] = "none"
    BY <1>2, NbThreadsAssumption DEF CreateThread, Lifecycle, Types, Workers
  <2>2. \E state \in {"start", "failed"} : pc' = [pc EXCEPT ![ji] = state]
    BY <1>2 DEF CreateThread
  <2>3. Busy' = Busy \ {ji} /\ ji \notin Busy
    BY <2>1, <2>2, BusyStep DEF Busy, BusyPc
  <2> QED BY <1>1, <2>3, SilentStep
<1>3. CASE \E call \in {"joining", "freeing"} : BeginStop(call)
  <2>1. pc' = [w \in Workers |-> IF pc[w] = "waiting" THEN "idle" ELSE pc[w]]
    BY <1>3 DEF BeginStop, Broadcast
  <2>2. Busy' = Busy
    BY <2>1 DEF Busy, BusyPc
  <2> QED BY <1>1, <2>2, SilentStep
<1>4. CASE NewReturns \/ NewSpins \/ Join \/ StopReturns
  <2>1. pc' = pc
    BY <1>4 DEF NewReturns, NewSpins, Join, StopReturns, threads, vars
  <2>2. Busy' = Busy
    BY <2>1 DEF Busy
  <2> QED BY <1>1, <2>2, SilentStep
<1> QED BY <1>2, <1>3, <1>4

\* Until free releases the pool no handler has been called.
LEMMA NothingDiscarded ==
  ASSUME Ledger, owner # "freed"
  PROVE  Discarded = {}
<1>1. \A t \in Tasks : cleaned[t].userdata = 0
  BY DEF Ledger, Released, Untouched
<1> QED BY <1>1 DEF Discarded

LEMMA TakeStarts ==
  ASSUME IInv, NEW w \in Workers, Take(w)
  PROVE  /\ queue # <<>> /\ queue' = Tail(queue) /\ Active' = Active \cup {Head(queue)}
         /\ UNCHANGED <<Outcome, finished, results, Discarded, owner>>
<1> Types
  BY DEF IInv
<1>1. /\ queue # <<>> /\ queue' = Tail(queue) /\ pc[w] = "idle"
      /\ pc' = [pc EXCEPT ![w] = "popped"] /\ held' = [held EXCEPT ![w] = Head(queue)]
      /\ UNCHANGED <<task, ran, finished, results, cleaned, owner>>
  BY DEF Take
<1>2. Busy' = Busy \cup {w} /\ w \notin Busy
  BY <1>1, BusyStep DEF Busy, BusyPc
<1>3. held'[w] = Head(queue) /\ \A v \in Busy : held'[v] = held[v]
  BY <1>1, <1>2 DEF Types, Busy
<1>4. Active' = Active \cup {Head(queue)}
  BY <1>2, <1>3 DEF Active
<1> QED BY <1>1, <1>4 DEF Outcome, Discarded

\* What a busy worker does to the task it holds.
LEMMA SettleStep ==
  ASSUME IInv, NEW w \in Workers, Expire(w) \/ Call(w) \/ Return(w)
  PROVE  /\ held[w] \in Active /\ held[w] \in Tasks
         /\ UNCHANGED <<queue, Active, finished, results, Discarded, owner>>
         /\ Expire(w) => Outcome[held[w]] = "none" /\ Outcome' = [Outcome EXCEPT ![held[w]] = "expired"]
         /\ Call(w) => Outcome[held[w]] = "none" /\ Outcome' = [Outcome EXCEPT ![held[w]] = "executed"]
         /\ Return(w) => Outcome' = Outcome
<1> Types /\ Outcomes
  BY DEF IInv
<1>1. /\ pc[w] \in BusyPc /\ w \in Busy /\ held' = held
      /\ \E state \in {"exec", "finish"} : pc' = [pc EXCEPT ![w] = state]
      /\ UNCHANGED <<queue, finished, results, cleaned, owner>>
  BY DEF Expire, Call, Return, BusyPc, Busy, pool, history
<1>2. Busy' = Busy \cup {w}
  BY <1>1, BusyStep DEF BusyPc
<1>3. UNCHANGED Active
  BY <1>1, <1>2 DEF Active
<1>4. held[w] \in Active /\ held[w] \in Tasks
  BY <1>1 DEF Active, Types, Busy
<1> DEFINE h == held[w]
<1>5. ASSUME Expire(w)
      PROVE  Outcome[h] = "none" /\ Outcome' = [Outcome EXCEPT ![h] = "expired"]
  <2>1. /\ task' = [task EXCEPT ![h].is_timeout = TRUE] /\ ran' = ran
        /\ Fresh(h)
    BY <1>5 DEF Expire, Outcomes, history
  <2>2. /\ task'[h].is_timeout = TRUE /\ ran[h] = 0 /\ task[h].is_timeout = FALSE
        /\ \A t \in Tasks \ {h} : task'[t] = task[t]
    BY <1>4, <2>1 DEF Fresh, Types
  <2> HIDE DEF h
  <2> QED BY <2>1, <2>2, <1>4 DEF Outcome, h
<1>6. ASSUME Call(w)
      PROVE  Outcome[h] = "none" /\ Outcome' = [Outcome EXCEPT ![h] = "executed"]
  <2>1. /\ ran' = [ran EXCEPT ![h] = @ + 1] /\ task' = task
        /\ Fresh(h)
    BY <1>6 DEF Call, Outcomes
  <2>2. /\ ran'[h] = 1 /\ ran[h] = 0 /\ task[h].is_timeout = FALSE
        /\ \A t \in Tasks \ {h} : ran'[t] = ran[t]
    BY <1>4, <2>1 DEF Fresh, Types
  <2> QED BY <2>1, <2>2, <1>4 DEF Outcome
<1>7. ASSUME Return(w)
      PROVE  Outcome' = Outcome
  <2>1. task' = [task EXCEPT ![h].ret = "value"] /\ ran' = ran
    BY <1>7 DEF Return, history
  <2>2. \A t \in Tasks : task'[t].is_timeout = task[t].is_timeout
    BY <1>4, <2>1 DEF Types
  <2> QED BY <2>1, <2>2 DEF Outcome
<1> QED BY <1>1, <1>3, <1>4, <1>5, <1>6, <1>7 DEF Discarded

LEMMA FinishCompletes ==
  ASSUME IInv, NEW w \in Workers, Finish(w)
  PROVE  /\ held[w] \in Tasks /\ held[w] \in Active /\ Outcome[held[w]] # "none"
         /\ Active' = Active \ {held[w]} /\ finished' = Append(finished, held[w])
         /\ UNCHANGED <<queue, Outcome, results, Discarded, owner>>
<1> Types /\ Apart /\ Outcomes
  BY DEF IInv
<1>1. /\ pc[w] = "finish" /\ w \in Busy /\ held' = [held EXCEPT ![w] = NoTask]
      /\ pc' = [pc EXCEPT ![w] = "idle"] /\ finished' = Append(finished, held[w])
      /\ UNCHANGED <<queue, task, ran, results, cleaned, owner>>
  BY DEF Finish, BusyPc, Busy, history
<1>2. Busy' = Busy \ {w}
  BY <1>1, BusyStep DEF BusyPc
<1>3. \A v \in Busy \ {w} : held'[v] = held[v] /\ held[v] # held[w]
  BY <1>1 DEF Types, Apart, Busy
<1>4. Active' = Active \ {held[w]}
  BY <1>1, <1>2, <1>3 DEF Active
<1>5. held[w] \in Active /\ held[w] \in Tasks
  BY <1>1 DEF Active, Types, Busy
<1>6. Final(held[w])
  BY <1>1 DEF Outcomes
<1>7. Outcome[held[w]] # "none"
  BY <1>5, <1>6 DEF Outcome, Final
<1> QED BY <1>1, <1>4, <1>5, <1>7 DEF Outcome, Discarded

LEMMA AddSubmits ==
  ASSUME IInv, Ledger, NEW t \in Tasks, NEW timeout \in Timeouts, AddTask(t, timeout)
  PROVE  /\ owner # "freed" /\ queue' = Append(queue, t)
         /\ t \notin Image(queue) \cup Active \cup Image(finished) \cup Image(results)
                       \cup Discarded
         /\ UNCHANGED <<Active, Outcome, finished, results, Discarded, owner>>
<1> Types /\ Apart /\ Lifecycle
  BY DEF IInv
<1>1. /\ t \notin Image(submitted) /\ queue' = Append(queue, t) /\ owner # "freed"
      /\ task' = [task EXCEPT ![t].timeout = timeout]
      /\ pc' = [w \in Workers |-> IF pc[w] = "waiting" THEN "idle" ELSE pc[w]]
      /\ UNCHANGED <<held, ran, finished, results, cleaned, owner>>
  BY DEF AddTask, Broadcast, MayAdd, Lifecycle
<1>2. Busy' = Busy
  BY <1>1 DEF Busy, BusyPc
<1>3. Active' = Active
  BY <1>1, <1>2 DEF Active
<1>4. \A u \in Tasks : task'[u].is_timeout = task[u].is_timeout
  BY <1>1 DEF Types
<1>5. Outcome' = Outcome
  BY <1>1, <1>4 DEF Outcome
<1>6. Active \cup Published \cup Image(queue) \subseteq Image(submitted)
  BY DEF Ledger, AllSubmitted, Apart, Active
<1>7. Discarded = {} /\ Discarded' = Discarded
  BY <1>1, NothingDiscarded DEF Discarded
<1> QED BY <1>1, <1>3, <1>5, <1>6, <1>7 DEF Published

LEMMA CleanupCloses ==
  ASSUME IInv, Ledger, Cleanup
  PROVE  /\ owner # "freed" /\ owner' = "freed" /\ Active = {}
         /\ queue' = <<>> /\ finished' = <<>>
         /\ Discarded' = Discarded \cup Image(finished) \cup Image(queue)
         /\ UNCHANGED <<Active, Outcome, results>>
<1> Types /\ Lifecycle /\ Order /\ Apart
  BY DEF IInv
<1>1. /\ owner = "freeing" /\ ji = NbThreads /\ owner' = "freed" /\ queue' = <<>> /\ finished' = <<>>
      /\ UNCHANGED <<pc, held, task, ran, submitted, taken, results>>
  BY DEF Cleanup, threads
<1>2. Busy = {} /\ Busy' = Busy
  BY <1>1, NobodyBusy DEF Busy
<1>3. Active = {} /\ Active' = Active
  BY <1>2 DEF Active
<1>4. Discarded = {}
  BY <1>1, NothingDiscarded
<1>5. \A t \in Tasks : cleaned'[t] = Due(t)'
  BY <1>1, CleanupReleases DEF Released
<1>6. \A t \in Tasks : Due(t)' = Due(t)
  BY <1>1 DEF Due, Image, Untouched
<1>7. \A t \in Tasks : cleaned'[t].userdata > 0 <=> t \in Image(submitted) \ Image(results)
  <2>1. \A t \in Tasks : cleaned'[t] = Due(t)
    BY <1>5, <1>6
  <2>2. \A t \in Tasks : Due(t).userdata = IF t \in Image(submitted) \ Image(results) THEN 1 ELSE 0
    BY DEF Due, Untouched
  <2> QED BY <2>1, <2>2
<1>8. Image(submitted) \ Image(results) = Image(finished) \cup Image(queue)
  <2>1. Image(results) \cap Image(queue) = {}
    BY AtCleanup
  <2> QED BY <2>1, AtCleanup
<1>9. Image(submitted) \subseteq Tasks
  BY ImageIn DEF Types
<1>10. Discarded' = Image(finished) \cup Image(queue)
  BY <1>7, <1>8, <1>9 DEF Discarded
<1> QED BY <1>1, <1>3, <1>4, <1>10 DEF Outcome

LEMMA AbstractImage == \A s : Abstract!Image(s) = Image(s)
  BY DEF Abstract!Image, Image

\* For any number of threads and tasks, the pool does what its header
\* promises: every step of a thread or of the owner is a step of the abstract
\* pool, or is invisible to it.
THEOREM PoolRefines == Spec => ImplementsTaskPool
<1> USE DEF Active, Outcome, Discarded
<1>1. Init => Abstract!Init
  <2> SUFFICES ASSUME Init PROVE Abstract!Init
    OBVIOUS
  <2>1. Busy = {}
    BY DEF Init, Busy, BusyPc
  <2>2. Active = {} /\ Discarded = {} /\ Outcome = [t \in Tasks |-> "none"]
    BY <2>1 DEF Init
  <2> QED BY <2>2 DEF Init, Abstract!Init
<1>2. ASSUME IInv, Ledger, [Next]_vars
      PROVE  [Abstract!Next]_(Abstract!vars)
  <2> Types /\ Lifecycle
    BY <1>2 DEF IInv
  <2>1. ASSUME UNCHANGED AbstractVars
        PROVE  UNCHANGED Abstract!vars
    BY <2>1 DEF AbstractVars, Abstract!vars
  <2>2. ASSUME NEW w \in Workers, StartWorker(w) \/ Wait(w) \/ SpuriousWakeup(w) \/ Exit(w)
        PROVE  UNCHANGED Abstract!vars
    BY <2>1, <2>2, SilentWorker
  <2>3. ASSUME NEW w \in Workers, Take(w)
        PROVE  Abstract!Start
    BY <1>2, <2>3, TakeStarts DEF Abstract!Start
  <2>4. ASSUME NEW w \in Workers, Expire(w)
        PROVE  \E t \in Tasks : Abstract!Settle(t, "expired")
    BY <1>2, <2>4, SettleStep DEF Abstract!Settle
  <2>5. ASSUME NEW w \in Workers, Call(w)
        PROVE  \E t \in Tasks : Abstract!Settle(t, "executed")
    BY <1>2, <2>5, SettleStep DEF Abstract!Settle
  <2>6. ASSUME NEW w \in Workers, Return(w)
        PROVE  UNCHANGED Abstract!vars
    BY <1>2, <2>6, SettleStep DEF Abstract!vars
  <2>7. ASSUME NEW w \in Workers, Finish(w)
        PROVE  \E t \in Tasks : Abstract!Complete(t)
    BY <1>2, <2>7, FinishCompletes DEF Abstract!Complete
  <2>8. ASSUME NEW t \in Tasks, NEW timeout \in Timeouts, AddTask(t, timeout)
        PROVE  Abstract!Submit(t)
    BY <1>2, <2>8, AddSubmits, AbstractImage DEF Abstract!Submit, Abstract!Accepted
  <2>9. CASE CreateThread \/ NewReturns \/ NewSpins \/ Join \/ StopReturns
             \/ \E call \in {"joining", "freeing"} : BeginStop(call)
    BY <2>1, <2>9, SilentOwner
  <2>10. ASSUME Poll
         PROVE  Abstract!Collect
    <3>1. Busy' = Busy /\ owner' = owner /\ owner # "freed" /\ held' = held
      BY <2>10 DEF Poll, threads, Busy
    <3> QED BY <2>10, <3>1 DEF Poll, history, Abstract!Collect
  <2>11. ASSUME Cleanup
         PROVE  Abstract!Close
    BY <1>2, <2>11, CleanupCloses, AbstractImage DEF Abstract!Close
  <2>12. ASSUME Freed \/ Tick \/ UNCHANGED vars
         PROVE  UNCHANGED Abstract!vars
    <3>1. UNCHANGED <<queue, finished, results, held, task, ran, cleaned, owner, pc>>
      BY <2>12 DEF Freed, Tick, pool, threads, history, vars
    <3>2. Busy' = Busy
      BY <3>1 DEF Busy
    <3> QED BY <3>1, <3>2 DEF Abstract!vars
  <2> QED BY <1>2, <2>2, <2>3, <2>4, <2>5, <2>6, <2>7, <2>8, <2>9, <2>10, <2>11, <2>12
          DEF Next, WorkerStep, OwnerStep, Abstract!Next
<1> QED BY <1>1, <1>2, Books, PTL DEF Spec, ImplementsTaskPool, Abstract!Spec

=============================================================================
