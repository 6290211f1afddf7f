------------------------- MODULE HandleTableProofs ---------------------------
(***************************************************************************)
(* Proofs about the reference lock and the handle table of wepoll.c, for    *)
(* any number of threads, ports and handle values. The reference count      *)
(* alone does not protect a port: the inductive invariant IInv also says    *)
(* where the one thread that closes it stands, and that the last user and   *)
(* the closer meet once.                                                    *)
(*   Counted   the references counted are those held (RefsExact);           *)
(*   Seated    a thread in a call has a port that exists;                   *)
(*   Indexed   the table, the kernel and the ports agree on handles;        *)
(*   Adding    a new port is known to the thread that makes it alone;       *)
(*   Closers   one thread at most closes a port, which is out of the table; *)
(*             past the wait nobody else has it;                            *)
(*   Signals   the last user of a port being destroyed is the only one.     *)
(***************************************************************************)
EXTENDS HandleTable, Integers, FiniteSetTheorems, TLAPS

PortState == [life : {"none", "open", "closed", "freed"}, handle : Handles \cup {None},
              refs : Int, destroy : BOOLEAN]

ThreadState == [pc : {"idle", "add", "signal"} \cup Using \cup Closing,
                port : Ports \cup {None}, handle : Handles \cup {None},
                on : Ports \cup {None}]

Types ==
    /\ port \in [Ports -> PortState]
    /\ tree \in [Handles -> Ports \cup {None}]
    /\ iocp \in [Handles -> Ports \cup {None}]
    /\ th \in [Threads -> ThreadState]
    /\ addFailed \in BOOLEAN

Holders(p) == {t \in Threads : Holds(t, p)}

Seated == \A t \in Threads :
    IF At(t, "idle") THEN th[t].port = None
    ELSE th[t].port \in Ports /\ port[th[t].port].life \in {"open", "closed"}

Indexed ==
    /\ \A h \in Handles : tree[h] # None =>
         /\ port[tree[h]].life = "open" /\ port[tree[h]].handle = h
         /\ ~port[tree[h]].destroy
    /\ \A h \in Handles : iocp[h] # None =>
         port[iocp[h]].life = "open" /\ port[iocp[h]].handle = h
    /\ \A p \in Ports : port[p].life = "open" =>
         port[p].handle \in Handles /\ iocp[port[p].handle] = p

Adding == \A t \in Threads : At(t, "add") =>
    /\ port[th[t].port].life = "open" /\ ~port[th[t].port].destroy
    /\ port[th[t].port].handle = th[t].handle
    /\ \A h \in Handles : tree[h] # th[t].port
    /\ \A u \in Threads \ {t} : th[u].port # th[t].port

Closers ==
    /\ \A t \in Threads : th[t].pc \in Closing =>
         /\ \A h \in Handles : tree[h] # th[t].port
         /\ \A u \in Threads \ {t} : th[u].pc \in Closing => th[u].port # th[t].port
    /\ \A t \in Threads : At(t, "port_close") =>
         port[th[t].port].life = "open" /\ ~port[th[t].port].destroy
    /\ \A t \in Threads : At(t, "destroy") =>
         port[th[t].port].life = "closed" /\ ~port[th[t].port].destroy
    /\ \A t \in Threads : th[t].pc \in {"await", "exchange", "delete"} =>
         port[th[t].port].life = "closed" /\ port[th[t].port].destroy
    /\ \A t \in Threads : th[t].pc \in {"exchange", "delete"} =>
         port[th[t].port].refs = 0

Signals == \A t \in Threads : At(t, "signal") =>
    /\ port[th[t].port].destroy /\ port[th[t].port].refs = 0
    /\ \A u \in Threads \ {t} :
         th[u].pc \in {"signal", "exchange", "delete"} => th[u].port # th[t].port

IInv == Types /\ RefsExact /\ Seated /\ Indexed /\ Adding /\ Closers /\ Signals
          /\ HandleNotInTree

-----------------------------------------------------------------------------

LEMMA SeatOf ==
  ASSUME Types, Seated, NEW t \in Threads, ~At(t, "idle")
  PROVE  th[t].port \in Ports /\ th[t].port # None
  BY NoneAssumption DEF Seated

\* One field of a port at a time.
LEMMA PortFields ==
  ASSUME NEW s \in PortState
  PROVE  /\ \A life \in {"open", "closed"} : [s EXCEPT !.life = life] \in PortState
         /\ \A h \in Handles \cup {None} : [s EXCEPT !.handle = h] \in PortState
         /\ \A n \in Int : [s EXCEPT !.refs = n] \in PortState
         /\ [s EXCEPT !.destroy = TRUE] \in PortState
<1>1. \A life \in {"open", "closed"} : [s EXCEPT !.life = life] \in PortState
  BY DEF PortState
<1>2. \A h \in Handles \cup {None} : [s EXCEPT !.handle = h] \in PortState
  BY DEF PortState
<1>3. \A n \in Int : [s EXCEPT !.refs = n] \in PortState
  BY DEF PortState
<1>4. [s EXCEPT !.destroy = TRUE] \in PortState
  BY DEF PortState
<1> QED BY <1>1, <1>2, <1>3, <1>4

LEMMA HoldersFinite ==
  ASSUME NEW p
  PROVE  IsFiniteSet(Holders(p))
  BY ThreadsAssumption, FS_Subset DEF Holders

\* Between a reference taken and dropped a thread moves, and nothing else.
Inside(t) == PortCtl(t) \/ ReadHandle(t) \/ EnterWait(t) \/ Abandoned(t) \/ Completed(t)

LEMMA InsideStep ==
  ASSUME Types, NEW t \in Threads, Inside(t)
  PROVE  /\ th[t].pc \in Using /\ th'[t].pc \in Using /\ th'[t].port = th[t].port
         /\ \A u \in Threads \ {t} : th'[u] = th[u]
         /\ UNCHANGED <<port, tree, iocp, addFailed>>
<1>1. CASE PortCtl(t) \/ Abandoned(t) \/ Completed(t)
  BY <1>1 DEF PortCtl, Abandoned, Completed, Goto, At, Using, Types, ThreadState
<1>2. CASE ReadHandle(t) \/ EnterWait(t)
  BY <1>2 DEF ReadHandle, EnterWait, Goto, At, Using, Types, ThreadState
<1> QED BY <1>1, <1>2 DEF Inside

\* A port somebody holds has references.
LEMMA HeldIsCounted ==
  ASSUME Types, Seated, RefsExact, NEW t \in Threads,
         th[t].pc \in Using \cup {"port_close", "destroy"}
  PROVE  port[th[t].port].refs > 0
<1> DEFINE p == th[t].port
<1>1. p \in Ports
  BY SeatOf DEF At, Using
<1>2. t \in Holders(p)
  BY DEF Holders, Holds
<1>3. Cardinality(Holders(p)) \in Nat /\ Cardinality(Holders(p)) # 0
  BY <1>2, HoldersFinite, FS_CardinalityType, FS_EmptySet
<1> QED BY <1>1, <1>3 DEF RefsExact, Holders

LEMMA TypesStep ==
  ASSUME Types, Seated, [Next]_vars
  PROVE  Types'
<1>1. ASSUME NEW t \in Threads, NEW p \in Ports, NEW h \in Handles, PortNew(t, p, h)
      PROVE  Types'
  <2>1. [Fresh EXCEPT !.life = "open", !.handle = h] \in PortState
    <3>1. Fresh \in PortState
      BY DEF Fresh, PortState
    <3>2. [Fresh EXCEPT !.life = "open"] \in PortState
      BY <3>1, PortFields
    <3> QED BY <3>2, PortFields
  <2>2. [Idle EXCEPT !.pc = "add", !.port = p, !.handle = h] \in ThreadState
    BY DEF Idle, ThreadState
  <2> QED BY <1>1, <2>1, <2>2 DEF PortNew, Types
<1>2. ASSUME NEW t \in Threads, TsTreeAdd(t)
      PROVE  Types'
  BY <1>2 DEF TsTreeAdd, Return, Idle, Types, ThreadState
<1>3. ASSUME NEW t \in Threads, NEW h \in Handles, NEW call \in {"ctl", "wait"}, FindAndRef(t, h, call)
      PROVE  Types'
  <2>1. tree[h] \in Ports
    BY <1>3 DEF FindAndRef, Types
  <2>2. [port[tree[h]] EXCEPT !.refs = @ + 1] \in PortState
    BY <2>1 DEF Types, PortState
  <2>3. [Idle EXCEPT !.pc = call, !.port = tree[h]] \in ThreadState
    BY <2>1 DEF Idle, ThreadState, Using
  <2> QED BY <1>3, <2>1, <2>2, <2>3 DEF FindAndRef, Types
<1>4. ASSUME NEW t \in Threads, PortCtl(t)
      PROVE  Types'
  BY <1>4 DEF PortCtl, Goto, Types, ThreadState, Using
<1>5. ASSUME NEW t \in Threads, ReadHandle(t)
      PROVE  Types'
  <2>1. th[t].port \in Ports
    BY <1>5, SeatOf DEF ReadHandle, At
  <2>2. [th[t] EXCEPT !.pc = "read", !.handle = port[th[t].port].handle] \in ThreadState
    BY <2>1 DEF Types, ThreadState, PortState, Using
  <2>3. th' = [th EXCEPT ![t] = [th[t] EXCEPT !.pc = "read", !.handle = port[th[t].port].handle]]
    BY <1>5 DEF ReadHandle, Types
  <2> QED BY <1>5, <2>2, <2>3 DEF ReadHandle, Types
<1>6. ASSUME NEW t \in Threads, EnterWait(t)
      PROVE  Types'
  BY <1>6 DEF EnterWait, Goto, Types, ThreadState, Using
<1>7. ASSUME NEW t \in Threads, Abandoned(t)
      PROVE  Types'
  BY <1>7 DEF Abandoned, Goto, Types, ThreadState, Using
<1>8. ASSUME NEW t \in Threads, Completed(t)
      PROVE  Types'
  BY <1>8 DEF Completed, Types, ThreadState
<1>9. ASSUME NEW t \in Threads, Unref(t)
      PROVE  Types'
  BY <1>9, NoneAssumption DEF Unref, LastUser, Goto, Return, Idle, Types, PortState, ThreadState, Seated, Using, Closing, At
<1>10. ASSUME NEW t \in Threads, NEW h \in Handles, DelAndRef(t, h)
      PROVE  Types'
  <2>1. tree[h] \in Ports
    BY <1>10 DEF DelAndRef, Types
  <2>2. [port[tree[h]] EXCEPT !.refs = @ + 1] \in PortState
    BY <2>1 DEF Types, PortState
  <2>3. [Idle EXCEPT !.pc = "port_close", !.port = tree[h]] \in ThreadState
    BY <2>1 DEF Idle, ThreadState, Closing
  <2> QED BY <1>10, <2>1, <2>2, <2>3 DEF DelAndRef, Types
<1>11. ASSUME NEW t \in Threads, PortClose(t)
      PROVE  Types'
  <2> DEFINE p == th[t].port
  <2>1. p \in Ports
    BY <1>11, SeatOf DEF PortClose, At
  <2>2. [port[p] EXCEPT !.life = "closed", !.handle = None] \in PortState
    <3>1. [port[p] EXCEPT !.life = "closed"] \in PortState
      BY <2>1, PortFields DEF Types
    <3> QED BY <3>1, PortFields
  <2>3. port' = [port EXCEPT ![p] = [port[p] EXCEPT !.life = "closed", !.handle = None]]
    BY <1>11, <2>1 DEF PortClose, Types
  <2>4. \A u \in Threads : /\ [th[u] EXCEPT !.pc = "destroy"] \in ThreadState
                           /\ [th[u] EXCEPT !.on = None] \in ThreadState
    BY DEF Types, ThreadState, Closing
  <2>5. th' \in [Threads -> ThreadState]
    BY <1>11, <2>4 DEF PortClose, Types
  <2>6. iocp' \in [Handles -> Ports \cup {None}]
    BY <1>11 DEF PortClose, Types
  <2> QED BY <1>11, <2>1, <2>2, <2>3, <2>5, <2>6 DEF PortClose, Types
<1>12. ASSUME NEW t \in Threads, UnrefAndDestroy(t)
      PROVE  Types'
  <2> DEFINE p == th[t].port
  <2>1. p \in Ports
    BY <1>12, SeatOf DEF UnrefAndDestroy, At
  <2>2. [port[p] EXCEPT !.refs = @ - 1, !.destroy = TRUE] \in PortState
    <3>1. port[p].refs - 1 \in Int
      BY <2>1 DEF Types, PortState
    <3>2. [port[p] EXCEPT !.refs = @ - 1] \in PortState
      BY <2>1, <3>1, PortFields DEF Types
    <3> QED BY <3>2, PortFields
  <2>3. port' = [port EXCEPT ![p] = [port[p] EXCEPT !.refs = @ - 1, !.destroy = TRUE]]
    BY <1>12, <2>1 DEF UnrefAndDestroy, Types
  <2>4. \A pc \in {"exchange", "await"} : [th[t] EXCEPT !.pc = pc] \in ThreadState
    BY DEF Types, ThreadState, Closing
  <2>5. th' \in [Threads -> ThreadState]
    BY <1>12, <2>4 DEF UnrefAndDestroy, AwaitUsers, Goto, Types
  <2> QED BY <1>12, <2>1, <2>2, <2>3, <2>5 DEF UnrefAndDestroy, Types
<1>13. ASSUME NEW t \in Threads, NEW u \in Threads, Rendezvous(t, u)
      PROVE  Types'
  BY <1>13 DEF Rendezvous, Idle, Types, ThreadState, Closing
<1>14. ASSUME NEW t \in Threads, Exchange(t)
      PROVE  Types'
  BY <1>14 DEF Exchange, Goto, Types, ThreadState, Closing
<1>15. ASSUME NEW t \in Threads, PortDelete(t)
      PROVE  Types'
  BY <1>15 DEF PortDelete, Return, Idle, Types, PortState, ThreadState, Seated, At
<1>16. CASE UNCHANGED vars
  BY <1>16 DEF vars, Types, PortState, ThreadState, Seated, Using, Closing, At
<1> QED BY <1>1, <1>2, <1>3, <1>4, <1>5, <1>6, <1>7, <1>8, <1>9, <1>10, <1>11, <1>12, <1>13, <1>14, <1>15, <1>16
       DEF Next, Call, Step, Done

LEMMA SeatedStep ==
  ASSUME Types, Seated, RefsExact, Indexed, Adding, Closers, Signals, [Next]_vars
  PROVE  Seated'
<1>1. ASSUME NEW t \in Threads, NEW p \in Ports, NEW h \in Handles, PortNew(t, p, h)
      PROVE  Seated'
  BY <1>1 DEF PortNew, Types, Seated, At
<1>2. ASSUME NEW t \in Threads, TsTreeAdd(t)
      PROVE  Seated'
  BY <1>2 DEF TsTreeAdd, Return, Idle, Seated, At
<1>3. ASSUME NEW t \in Threads, NEW h \in Handles, NEW call \in {"ctl", "wait"}, FindAndRef(t, h, call)
      PROVE  Seated'
  BY <1>3 DEF FindAndRef, Types, Seated, Indexed, At
<1>4. ASSUME NEW t \in Threads, Inside(t)
      PROVE  Seated'
  BY <1>4, InsideStep DEF Seated, Using, Closing, At
<1>5. ASSUME NEW t \in Threads, Unref(t)
      PROVE  Seated'
  BY <1>5 DEF Unref, Goto, Return, Idle, Types, ThreadState, Seated, Indexed, Adding, Closing, At
<1>6. ASSUME NEW t \in Threads, NEW h \in Handles, DelAndRef(t, h)
      PROVE  Seated'
  BY <1>6 DEF DelAndRef, Types, Seated, Indexed, At
<1>7. ASSUME NEW t \in Threads, PortClose(t)
      PROVE  Seated'
  BY <1>7 DEF PortClose, Types, Seated, At
<1>8. ASSUME NEW t \in Threads, UnrefAndDestroy(t)
      PROVE  Seated'
  BY <1>8 DEF UnrefAndDestroy, AwaitUsers, Goto, Types, Seated, At
<1>9. ASSUME NEW t \in Threads, NEW u \in Threads, Rendezvous(t, u)
      PROVE  Seated'
  BY <1>9 DEF Rendezvous, Idle, Types, Seated, At
<1>10. ASSUME NEW t \in Threads, Exchange(t)
      PROVE  Seated'
  BY <1>10 DEF Exchange, Goto, Seated, At
<1>11. ASSUME NEW t \in Threads, PortDelete(t)
      PROVE  Seated'
  <2> DEFINE p == th[t].port
  <2>1. p \in Ports /\ port[p].refs = 0
    BY <1>11, SeatOf DEF PortDelete, At, Closers
  <2>2. ASSUME NEW u \in Threads \ {t}
        PROVE  th[u].port # p
    <3>1. th[u].pc \notin Using \cup Closing \/ th[u].port # p
      BY <1>11, <2>1, HeldIsCounted DEF PortDelete, At, Closers, Closing
    <3>2. At(u, "signal") => th[u].port # p
      BY <1>11 DEF PortDelete, At, Signals
    <3>3. At(u, "add") => th[u].port # p
      BY <1>11 DEF PortDelete, At, Adding
    <3>4. At(u, "idle") => th[u].port # p
      BY <2>1, NoneAssumption DEF Seated
    <3> QED BY <3>1, <3>2, <3>3, <3>4 DEF Types, ThreadState, At
  <2>3. /\ th' = [th EXCEPT ![t] = Idle]
        /\ \A q \in Ports \ {p} : port'[q] = port[q]
    BY <1>11 DEF PortDelete, Return, Types
  <2> QED BY <2>2, <2>3 DEF Seated, Idle, At, Types
<1>12. CASE UNCHANGED vars
  BY <1>12 DEF vars, Seated, At
<1> QED BY <1>1, <1>2, <1>3, <1>4, <1>5, <1>6, <1>7, <1>8, <1>9, <1>10, <1>11, <1>12
       DEF Next, Call, Step, Done, Inside

LEMMA IndexedStep ==
  ASSUME Types, Seated, Indexed, Adding, Closers, [Next]_vars
  PROVE  Indexed'
<1>1. ASSUME NEW t \in Threads, NEW p \in Ports, NEW h \in Handles, PortNew(t, p, h)
      PROVE  Indexed'
  BY <1>1, NoneAssumption DEF PortNew, Types, Indexed
<1>2. ASSUME NEW t \in Threads, TsTreeAdd(t)
      PROVE  Indexed'
  BY <1>2 DEF TsTreeAdd, Types, Indexed, Adding
<1>3. ASSUME NEW t \in Threads, NEW h \in Handles, NEW call \in {"ctl", "wait"}, FindAndRef(t, h, call)
      PROVE  Indexed'
  BY <1>3 DEF FindAndRef, Indexed
<1>4. ASSUME NEW t \in Threads, Inside(t)
      PROVE  Indexed'
  BY <1>4, InsideStep DEF Indexed, Using, Closing, At
<1>5. ASSUME NEW t \in Threads, Unref(t)
      PROVE  Indexed'
  BY <1>5 DEF Unref, Indexed
<1>6. ASSUME NEW t \in Threads, NEW h \in Handles, DelAndRef(t, h)
      PROVE  Indexed'
  BY <1>6 DEF DelAndRef, Indexed
<1>7. ASSUME NEW t \in Threads, PortClose(t)
      PROVE  Indexed'
  <2> DEFINE p == th[t].port
  <2>1. p \in Ports /\ port[p].handle \in Handles \cup {None} /\ \A h \in Handles : tree[h] # p
    BY <1>7, SeatOf DEF PortClose, At, Types, PortState, Closers, Closing
  <2>0. port[p].life = "open" /\ p \in Ports
    BY <1>7, SeatOf DEF PortClose, At, Closers, Closing
  <2>2. /\ tree' = tree /\ port' = [port EXCEPT ![p].life = "closed", ![p].handle = None]
        /\ iocp' = [iocp EXCEPT ![port[p].handle] = None]
    BY <1>7 DEF PortClose
  <2>3. /\ \A q \in Ports \ {p} : port'[q] = port[q]
        /\ port'[p].life = "closed"
        /\ \A h \in Handles : iocp'[h] = IF h = port[p].handle THEN None ELSE iocp[h]
    BY <2>1, <2>2 DEF Types, PortState
  <2> DEFINE k == port[p].handle
  <2>4. /\ \A h \in Handles : iocp'[h] # None => iocp'[h] = iocp[h] /\ h # k
        /\ \A h \in Handles : h # k => iocp'[h] = iocp[h]
    BY <2>3
  <2>5. \A h \in Handles : iocp[h] # None => port[iocp[h]].handle = h
    BY DEF Indexed
  <2>6. \A h \in Handles : iocp'[h] # None => iocp[h] # None /\ iocp[h] # p
    BY <2>4, <2>5
  <2> HIDE DEF p, k
  <2>7. \A h \in Handles : tree'[h] # None => tree[h] # None /\ tree[h] # p
    BY <2>1, <2>2
  <2>8. /\ tree \in [Handles -> Ports \cup {None}] /\ iocp \in [Handles -> Ports \cup {None}]
        /\ None \notin Ports
    BY NoneAssumption DEF Types
  <2>9. \A h \in Handles : tree'[h] # None =>
          tree'[h] = tree[h] /\ port'[tree[h]] = port[tree[h]]
    BY <2>2, <2>3, <2>7, <2>8
  <2>10. \A h \in Handles : iocp'[h] # None =>
           iocp'[h] = iocp[h] /\ port'[iocp[h]] = port[iocp[h]]
    BY <2>3, <2>4, <2>6, <2>8
  <2>11. \A q \in Ports : port'[q].life = "open" => q # p /\ port'[q] = port[q]
    BY <2>3
  <2>12. \A q \in Ports : q # p /\ port[q].life = "open" => port[q].handle # k
    BY <2>0, <2>1 DEF Indexed, k
  <2> QED BY <2>4, <2>6, <2>7, <2>9, <2>10, <2>11, <2>12 DEF Indexed
<1>8. ASSUME NEW t \in Threads, UnrefAndDestroy(t)
      PROVE  Indexed'
  BY <1>8 DEF UnrefAndDestroy, Types, PortState, ThreadState, Seated, Closers, Using, Closing, At
<1>9. ASSUME NEW t \in Threads, NEW u \in Threads, Rendezvous(t, u)
      PROVE  Indexed'
  BY <1>9 DEF Rendezvous, Indexed
<1>10. ASSUME NEW t \in Threads, Exchange(t)
      PROVE  Indexed'
  BY <1>10 DEF Exchange, Indexed
<1>11. ASSUME NEW t \in Threads, PortDelete(t)
      PROVE  Indexed'
  BY <1>11 DEF PortDelete, Indexed, Closers, At
<1>12. CASE UNCHANGED vars
  BY <1>12 DEF vars, Indexed
<1> QED BY <1>1, <1>2, <1>3, <1>4, <1>5, <1>6, <1>7, <1>8, <1>9, <1>10, <1>11, <1>12
       DEF Next, Call, Step, Done, Inside

LEMMA AddingStep ==
  ASSUME Types, RefsExact, Seated, Indexed, Adding, Closers, [Next]_vars
  PROVE  Adding'
<1>1. ASSUME NEW t \in Threads, NEW p \in Ports, NEW h \in Handles, PortNew(t, p, h)
      PROVE  Adding'
  BY <1>1, NoneAssumption DEF PortNew, Fresh, Types, Seated, Indexed, Adding, At
<1>2. ASSUME NEW t \in Threads, TsTreeAdd(t)
      PROVE  Adding'
  BY <1>2, NoneAssumption DEF TsTreeAdd, Return, Idle, Types, Seated, Adding, At
<1>3. ASSUME NEW t \in Threads, NEW h \in Handles, NEW call \in {"ctl", "wait"}, FindAndRef(t, h, call)
      PROVE  Adding'
  BY <1>3 DEF FindAndRef, Adding, At
<1>4. ASSUME NEW t \in Threads, Inside(t)
      PROVE  Adding'
  BY <1>4, InsideStep DEF Adding, Using, Closing, At
<1>5. ASSUME NEW t \in Threads, Unref(t)
      PROVE  Adding'
  <2> DEFINE p == th[t].port
  <2>1. p \in Ports /\ port[p].refs > 0
    BY <1>5, SeatOf, HeldIsCounted DEF Unref, At, Using
  <2>2. /\ port'[p].life = port[p].life /\ port'[p].destroy = port[p].destroy
        /\ port'[p].handle = port[p].handle /\ port'[p].refs = port[p].refs - 1
        /\ \A q \in Ports \ {p} : port'[q] = port[q]
    BY <1>5, <2>1 DEF Unref, Types, PortState
  <2>3. /\ \/ th'[t] = Idle
           \/ th'[t].pc = "signal" /\ th'[t].port = p /\ port[p].destroy /\ port[p].refs = 1
        /\ \A u \in Threads \ {t} : th'[u] = th[u]
        /\ UNCHANGED <<tree, iocp>>
    BY <1>5 DEF Unref, LastUser, Goto, Return, Types, ThreadState
  <2>4. \A u \in Threads : ~At(u, "idle") => th[u].port \in Ports
    BY SeatOf
  <2> HIDE DEF p
  <2>5. ASSUME NEW u \in Threads, th'[u].pc = "add"
        PROVE  u # t /\ At(u, "add") /\ th'[u] = th[u] /\ th[u].port # p
    BY <1>5, <2>3, <2>5 DEF Unref, Idle, At, Adding, p
  <2>6. \A u \in Threads : th'[u].port = th[u].port \/ th'[u].port = None
    BY <2>3 DEF Idle, p
  <2> QED BY <2>2, <2>3, <2>4, <2>5, <2>6, NoneAssumption DEF Adding, At
<1>6. ASSUME NEW t \in Threads, NEW h \in Handles, DelAndRef(t, h)
      PROVE  Adding'
  BY <1>6 DEF DelAndRef, Seated, Adding, At
<1>7. ASSUME NEW t \in Threads, PortClose(t)
      PROVE  Adding'
  BY <1>7 DEF PortClose, Types, Seated, Adding, At
<1>8. ASSUME NEW t \in Threads, UnrefAndDestroy(t)
      PROVE  Adding'
  <2> DEFINE p == th[t].port
  <2>1. p \in Ports /\ port[p].life = "closed" /\ ~port[p].destroy /\ At(t, "destroy")
    BY <1>8, SeatOf DEF UnrefAndDestroy, At, Closers
  <2>2. /\ port'[p].life = "closed" /\ port'[p].destroy /\ port'[p].refs = port[p].refs - 1
        /\ \A q \in Ports \ {p} : port'[q] = port[q]
    BY <1>8, <2>1 DEF UnrefAndDestroy, Types, PortState
  <2>3. /\ \/ th'[t].pc = "exchange" /\ port[p].refs = 1
           \/ th'[t].pc = "await"
        /\ th'[t].port = p
        /\ \A u \in Threads \ {t} : th'[u] = th[u]
        /\ UNCHANGED <<tree, iocp>>
    BY <1>8 DEF UnrefAndDestroy, AwaitUsers, Goto, Types, ThreadState
  <2>4. \A u \in Threads : ~At(u, "idle") => th[u].port \in Ports
    BY SeatOf
  <2> HIDE DEF p
  <2>5. ASSUME NEW u \in Threads, th'[u].pc = "add"
        PROVE  u # t /\ At(u, "add") /\ th'[u] = th[u] /\ th[u].port \in Ports \ {p}
    BY <2>1, <2>3, <2>4, <2>5 DEF Adding, At
  <2>6. \A u \in Threads : th'[u].port = th[u].port
    BY <2>3 DEF p
  <2> QED BY <2>2, <2>3, <2>5, <2>6 DEF Adding, At
<1>9. ASSUME NEW t \in Threads, NEW u \in Threads, Rendezvous(t, u)
      PROVE  Adding'
  <2>1. /\ At(t, "signal") /\ At(u, "await") /\ t # u /\ th[t].port = th[u].port
        /\ th'[t] = Idle /\ th'[u].pc = "exchange" /\ th'[u].port = th[u].port
        /\ \A v \in Threads \ {t, u} : th'[v] = th[v]
        /\ UNCHANGED <<port, tree, iocp>>
    BY <1>9 DEF Rendezvous, Types, ThreadState, At
  <2>2. ASSUME NEW v \in Threads, th'[v].pc = "add"
        PROVE  At(v, "add") /\ th'[v] = th[v]
    BY <2>1, <2>2 DEF Idle, At
  <2>3. \A v \in Threads : th'[v].port = th[v].port \/ th'[v].port = None
    BY <2>1 DEF Idle
  <2>4. \A v \in Threads : At(v, "add") => th[v].port # None
    BY SeatOf DEF At
  <2> QED BY <2>1, <2>2, <2>3, <2>4 DEF Adding, At
<1>10. ASSUME NEW t \in Threads, Exchange(t)
      PROVE  Adding'
  BY <1>10 DEF Exchange, Goto, Adding, At
<1>11. ASSUME NEW t \in Threads, PortDelete(t)
      PROVE  Adding'
  BY <1>11, NoneAssumption DEF PortDelete, Return, Idle, Seated, Adding, At
<1>12. CASE UNCHANGED vars
  BY <1>12 DEF vars, Adding, At
<1> QED BY <1>1, <1>2, <1>3, <1>4, <1>5, <1>6, <1>7, <1>8, <1>9, <1>10, <1>11, <1>12
       DEF Next, Call, Step, Done, Inside

LEMMA ClosersStep ==
  ASSUME Types, RefsExact, Seated, Indexed, Adding, Closers, Signals, [Next]_vars
  PROVE  Closers'
<1>1. ASSUME NEW t \in Threads, NEW p \in Ports, NEW h \in Handles, PortNew(t, p, h)
      PROVE  Closers'
  BY <1>1 DEF PortNew, Closers, Closing, At
<1>2. ASSUME NEW t \in Threads, TsTreeAdd(t)
      PROVE  Closers'
  BY <1>2 DEF TsTreeAdd, Return, Idle, Types, Adding, Closers, Closing, At
<1>3. ASSUME NEW t \in Threads, NEW h \in Handles, NEW call \in {"ctl", "wait"}, FindAndRef(t, h, call)
      PROVE  Closers'
  BY <1>3 DEF FindAndRef, Closers, Closing, At
<1>4. ASSUME NEW t \in Threads, Inside(t)
      PROVE  Closers'
  BY <1>4, InsideStep DEF Closers, Using, Closing, At
<1>5. ASSUME NEW t \in Threads, Unref(t)
      PROVE  Closers'
  <2> DEFINE p == th[t].port
  <2>1. p \in Ports /\ port[p].refs > 0
    BY <1>5, SeatOf, HeldIsCounted DEF Unref, At, Using
  <2>2. /\ port'[p].life = port[p].life /\ port'[p].destroy = port[p].destroy
        /\ port'[p].handle = port[p].handle /\ port'[p].refs = port[p].refs - 1
        /\ \A q \in Ports \ {p} : port'[q] = port[q]
    BY <1>5, <2>1 DEF Unref, Types, PortState
  <2>3. /\ \/ th'[t] = Idle
           \/ th'[t].pc = "signal" /\ th'[t].port = p /\ port[p].destroy /\ port[p].refs = 1
        /\ \A u \in Threads \ {t} : th'[u] = th[u]
        /\ UNCHANGED <<tree, iocp>>
    BY <1>5 DEF Unref, LastUser, Goto, Return, Types, ThreadState
  <2>4. \A u \in Threads : ~At(u, "idle") => th[u].port \in Ports
    BY SeatOf
  <2> HIDE DEF p
  <2>5. ASSUME NEW u \in Threads, th'[u].pc \in Closing
        PROVE  u # t /\ th'[u] = th[u] /\ th[u].port \in Ports
    BY <2>3, <2>4, <2>5 DEF Idle, Closing, At
  <2>6. ASSUME NEW u \in Threads, th[u].pc \in {"exchange", "delete"}
        PROVE  th[u].port # p
    BY <2>1, <2>6 DEF Closers
  <2> QED BY <2>2, <2>3, <2>5, <2>6 DEF Closers, Closing, At
<1>6. ASSUME NEW t \in Threads, NEW h \in Handles, DelAndRef(t, h)
      PROVE  Closers'
  BY <1>6, NoneAssumption DEF DelAndRef, Types, Seated, Indexed, Closers, At
<1>7. ASSUME NEW t \in Threads, PortClose(t)
      PROVE  Closers'
  <2> DEFINE p == th[t].port
  <2>1. /\ p \in Ports /\ At(t, "port_close") /\ ~port[p].destroy
        /\ \A h \in Handles : tree[h] # p
        /\ \A u \in Threads \ {t} : th[u].pc \in Closing => th[u].port # p
    BY <1>7, SeatOf DEF PortClose, At, Closers, Closing
  <2>2. /\ port'[p].life = "closed" /\ port'[p].destroy = port[p].destroy
        /\ \A q \in Ports \ {p} : port'[q] = port[q]
    BY <1>7, <2>1 DEF PortClose, Types, PortState
  <2>3. /\ th'[t].pc = "destroy" /\ th'[t].port = p /\ tree' = tree
        /\ \A u \in Threads \ {t} : th'[u].pc = th[u].pc /\ th'[u].port = th[u].port
    BY <1>7 DEF PortClose, Types, ThreadState
  <2>4. \A u \in Threads : ~At(u, "idle") => th[u].port \in Ports
    BY SeatOf
  <2> HIDE DEF p
  <2>5. \A u \in Threads \ {t} : th'[u].pc \in Closing =>
          /\ th[u].pc \in Closing /\ th'[u].port = th[u].port
          /\ th[u].port \in Ports \ {p} /\ port'[th[u].port] = port[th[u].port]
    <3> SUFFICES ASSUME NEW u \in Threads \ {t}, th'[u].pc \in Closing
                 PROVE  /\ th[u].pc \in Closing /\ th'[u].port = th[u].port
                        /\ th[u].port \in Ports \ {p} /\ port'[th[u].port] = port[th[u].port]
      OBVIOUS
    <3>1. th[u].pc \in Closing /\ th'[u].port = th[u].port
      BY <2>3
    <3>2. th[u].port \in Ports \ {p}
      BY <2>1, <2>4, <3>1 DEF Closing, At
    <3> QED BY <2>2, <3>1, <3>2
  <2>6. \A u \in Threads \ {t} : th'[u].pc = th[u].pc
    BY <2>3
  <2>7. /\ \A u \in Threads : th'[u].pc \in Closing =>
             /\ \A h \in Handles : tree'[h] # th'[u].port
             /\ \A v \in Threads \ {u} : th'[v].pc \in Closing => th'[v].port # th'[u].port
    <3>1. \A h \in Handles : tree'[h] # th'[t].port
      BY <2>1, <2>3
    <3>2. \A u \in Threads \ {t} : th'[u].pc \in Closing => th'[u].port # th'[t].port
      BY <2>3, <2>5
    <3>3. \A u \in Threads \ {t} : th'[u].pc \in Closing =>
            \A h \in Handles : tree'[h] # th'[u].port
      BY <2>3, <2>5 DEF Closers
    <3>4. \A u, v \in Threads \ {t} :
            u # v /\ th'[u].pc \in Closing /\ th'[v].pc \in Closing => th'[v].port # th'[u].port
      BY <2>5 DEF Closers
    <3> QED BY <3>1, <3>2, <3>3, <3>4
  <2>8. \A u \in Threads \ {t} : At(u, "port_close")' =>
          port'[th'[u].port].life = "open" /\ ~port'[th'[u].port].destroy
    BY <2>5, <2>6 DEF Closers, Closing, At
  <2>9. \A u \in Threads : At(u, "destroy")' =>
          port'[th'[u].port].life = "closed" /\ ~port'[th'[u].port].destroy
    BY <2>1, <2>2, <2>3, <2>5, <2>6 DEF Closers, Closing, At
  <2>10. \A u \in Threads : th'[u].pc \in {"await", "exchange", "delete"} =>
           port'[th'[u].port].life = "closed" /\ port'[th'[u].port].destroy
    BY <2>3, <2>5, <2>6 DEF Closers, Closing
  <2>11. \A u \in Threads : th'[u].pc \in {"exchange", "delete"} => port'[th'[u].port].refs = 0
    BY <2>3, <2>5, <2>6 DEF Closers, Closing
  <2>12. ~At(t, "port_close")'
    BY <2>3 DEF At
  <2> QED BY <2>7, <2>8, <2>9, <2>10, <2>11, <2>12 DEF Closers
<1>8. ASSUME NEW t \in Threads, UnrefAndDestroy(t)
      PROVE  Closers'
  <2> DEFINE p == th[t].port
  <2>1. p \in Ports /\ port[p].life = "closed" /\ ~port[p].destroy /\ At(t, "destroy")
    BY <1>8, SeatOf DEF UnrefAndDestroy, At, Closers
  <2>2. /\ port'[p].life = "closed" /\ port'[p].destroy /\ port'[p].refs = port[p].refs - 1
        /\ \A q \in Ports \ {p} : port'[q] = port[q]
    BY <1>8, <2>1 DEF UnrefAndDestroy, Types, PortState
  <2>3. /\ \/ th'[t].pc = "exchange" /\ port[p].refs = 1
           \/ th'[t].pc = "await"
        /\ th'[t].port = p
        /\ \A u \in Threads \ {t} : th'[u] = th[u]
        /\ UNCHANGED <<tree, iocp>>
    BY <1>8 DEF UnrefAndDestroy, AwaitUsers, Goto, Types, ThreadState
  <2>4. \A u \in Threads : ~At(u, "idle") => th[u].port \in Ports
    BY SeatOf
  <2> HIDE DEF p
  <2>5. ASSUME NEW u \in Threads \ {t}, th'[u].pc \in Closing
        PROVE  th'[u] = th[u] /\ th[u].port \in Ports \ {p}
    <3>1. th'[u] = th[u] /\ th[u].port \in Ports
      BY <2>3, <2>4, <2>5 DEF Closing, At
    <3> QED BY <2>1, <2>5, <3>1 DEF Closers, Closing, At, p
  <2>6. \A h \in Handles : tree'[h] # p
    BY <2>1, <2>3 DEF Closers, Closing, At, p
  <2> QED BY <2>2, <2>3, <2>5, <2>6 DEF Closers, Closing, At
<1>9. ASSUME NEW t \in Threads, NEW u \in Threads, Rendezvous(t, u)
      PROVE  Closers'
  <2>1. /\ At(t, "signal") /\ At(u, "await") /\ t # u /\ th[t].port = th[u].port
        /\ th'[t] = Idle /\ th'[u].pc = "exchange" /\ th'[u].port = th[u].port
        /\ \A v \in Threads \ {t, u} : th'[v] = th[v]
        /\ UNCHANGED <<port, tree, iocp>>
    BY <1>9 DEF Rendezvous, Types, ThreadState, At
  <2>2. port[th[u].port].refs = 0
    BY <2>1 DEF Signals
  <2>3. \A v \in Threads : th'[v].pc \in Closing => th[v].pc \in Closing /\ th'[v].port = th[v].port
    BY <2>1 DEF Closing, Idle, At
  <2>4. \A v \in Threads \ {u} : th'[v].pc \in Closing => th'[v].pc = th[v].pc
    BY <2>1 DEF Closing, Idle, At
  <2> QED BY <2>1, <2>2, <2>3, <2>4 DEF Closers, Closing, At
<1>10. ASSUME NEW t \in Threads, Exchange(t)
      PROVE  Closers'
  BY <1>10 DEF Exchange, Goto, Closers, Closing, At
<1>11. ASSUME NEW t \in Threads, PortDelete(t)
      PROVE  Closers'
  BY <1>11 DEF PortDelete, Return, Idle, Types, Closers, Closing, At
<1>12. CASE UNCHANGED vars
  BY <1>12 DEF vars, Closers, At
<1> QED BY <1>1, <1>2, <1>3, <1>4, <1>5, <1>6, <1>7, <1>8, <1>9, <1>10, <1>11, <1>12
       DEF Next, Call, Step, Done, Inside

LEMMA SignalsStep ==
  ASSUME Types, RefsExact, Seated, Indexed, Adding, Closers, Signals, [Next]_vars
  PROVE  Signals'
<1>1. ASSUME NEW t \in Threads, NEW p \in Ports, NEW h \in Handles, PortNew(t, p, h)
      PROVE  Signals'
  BY <1>1 DEF PortNew, Seated, Signals, At
<1>2. ASSUME NEW t \in Threads, TsTreeAdd(t)
      PROVE  Signals'
  BY <1>2 DEF TsTreeAdd, Return, Idle, Signals, At
<1>3. ASSUME NEW t \in Threads, NEW h \in Handles, NEW call \in {"ctl", "wait"}, FindAndRef(t, h, call)
      PROVE  Signals'
  BY <1>3 DEF FindAndRef, Indexed, Signals, At
<1>4. ASSUME NEW t \in Threads, Inside(t)
      PROVE  Signals'
  BY <1>4, InsideStep DEF Signals, Using, Closing, At
<1>5. ASSUME NEW t \in Threads, Unref(t)
      PROVE  Signals'
  <2> DEFINE p == th[t].port
  <2>1. p \in Ports /\ port[p].refs > 0
    BY <1>5, SeatOf, HeldIsCounted DEF Unref, At, Using
  <2>2. /\ port'[p].life = port[p].life /\ port'[p].destroy = port[p].destroy
        /\ port'[p].handle = port[p].handle /\ port'[p].refs = port[p].refs - 1
        /\ \A q \in Ports \ {p} : port'[q] = port[q]
    BY <1>5, <2>1 DEF Unref, Types, PortState
  <2>3. /\ \/ th'[t] = Idle
           \/ th'[t].pc = "signal" /\ th'[t].port = p /\ port[p].destroy /\ port[p].refs = 1
        /\ \A u \in Threads \ {t} : th'[u] = th[u]
        /\ UNCHANGED <<tree, iocp>>
    BY <1>5 DEF Unref, LastUser, Goto, Return, Types, ThreadState
  <2>4. \A u \in Threads : ~At(u, "idle") => th[u].port \in Ports
    BY SeatOf
  <2> HIDE DEF p
  <2>5. ASSUME NEW u \in Threads, th[u].pc \in {"signal", "exchange", "delete"}
        PROVE  th[u].port # p
    BY <2>1, <2>5 DEF Closers, Signals, At
  <2>6. t \in Threads /\ At(t, "unref")
    BY <1>5 DEF Unref
  <2>7. ASSUME NEW u \in Threads, th'[u].pc = "signal", u # t
        PROVE  /\ port'[th'[u].port].destroy /\ port'[th'[u].port].refs = 0
               /\ \A v \in Threads \ {u} :
                    th'[v].pc \in {"signal", "exchange", "delete"} => th'[v].port # th'[u].port
    BY <2>2, <2>3, <2>4, <2>5, <2>7 DEF Signals, At, Idle
  <2>8. ASSUME th'[t].pc = "signal"
        PROVE  /\ port'[th'[t].port].destroy /\ port'[th'[t].port].refs = 0
               /\ \A v \in Threads \ {t} :
                    th'[v].pc \in {"signal", "exchange", "delete"} => th'[v].port # th'[t].port
    BY <2>2, <2>3, <2>5, <2>8 DEF Idle
  <2> QED BY <2>7, <2>8 DEF Signals, At
<1>6. ASSUME NEW t \in Threads, NEW h \in Handles, DelAndRef(t, h)
      PROVE  Signals'
  BY <1>6 DEF DelAndRef, Indexed, Signals, At
<1>7. ASSUME NEW t \in Threads, PortClose(t)
      PROVE  Signals'
  BY <1>7 DEF PortClose, Types, Seated, Signals, At
<1>8. ASSUME NEW t \in Threads, UnrefAndDestroy(t)
      PROVE  Signals'
  BY <1>8 DEF UnrefAndDestroy, Types, PortState, Seated, Closers, At
<1>9. ASSUME NEW t \in Threads, NEW u \in Threads, Rendezvous(t, u)
      PROVE  Signals'
  <2>1. /\ At(t, "signal") /\ At(u, "await") /\ t # u /\ th[t].port = th[u].port
        /\ th'[t] = Idle /\ th'[u].pc = "exchange" /\ th'[u].port = th[u].port
        /\ \A v \in Threads \ {t, u} : th'[v] = th[v]
        /\ UNCHANGED <<port, tree, iocp>>
    BY <1>9 DEF Rendezvous, Types, ThreadState, At
  <2>2. \A v \in Threads \ {t, u} : th[v].pc \in {"signal", "exchange", "delete"} => th[v].port # th[u].port
    BY <2>1 DEF Signals
  <2>3. ASSUME NEW v \in Threads, th'[v].pc = "signal"
        PROVE  v \notin {t, u} /\ At(v, "signal") /\ th'[v] = th[v]
    BY <2>1, <2>3 DEF Idle, At
  <2> QED BY <2>1, <2>2, <2>3 DEF Signals, Idle, At
<1>10. ASSUME NEW t \in Threads, Exchange(t)
      PROVE  Signals'
  BY <1>10 DEF Exchange, Goto, Signals, At
<1>11. ASSUME NEW t \in Threads, PortDelete(t)
      PROVE  Signals'
  BY <1>11 DEF PortDelete, Return, Idle, Signals, At
<1>12. CASE UNCHANGED vars
  BY <1>12 DEF vars, Signals, At
<1> QED BY <1>1, <1>2, <1>3, <1>4, <1>5, <1>6, <1>7, <1>8, <1>9, <1>10, <1>11, <1>12
       DEF Next, Call, Step, Done, Inside

LEMMA HandleNotInTreeStep ==
  ASSUME Types, Seated, Indexed, Adding, HandleNotInTree, [Next]_vars
  PROVE  HandleNotInTree'
<1>1. ASSUME NEW t \in Threads, NEW p \in Ports, NEW h \in Handles, PortNew(t, p, h)
      PROVE  HandleNotInTree'
  BY <1>1 DEF PortNew, HandleNotInTree
<1>2. ASSUME NEW t \in Threads, TsTreeAdd(t)
      PROVE  HandleNotInTree'
  BY <1>2 DEF TsTreeAdd, Types, Seated, Indexed, Adding, At, HandleNotInTree
<1>3. ASSUME NEW t \in Threads, NEW h \in Handles, NEW call \in {"ctl", "wait"}, FindAndRef(t, h, call)
      PROVE  HandleNotInTree'
  BY <1>3 DEF FindAndRef, HandleNotInTree
<1>4. ASSUME NEW t \in Threads, Inside(t)
      PROVE  HandleNotInTree'
  BY <1>4, InsideStep DEF HandleNotInTree, Using, Closing, At
<1>5. ASSUME NEW t \in Threads, Unref(t)
      PROVE  HandleNotInTree'
  BY <1>5 DEF Unref, HandleNotInTree
<1>6. ASSUME NEW t \in Threads, NEW h \in Handles, DelAndRef(t, h)
      PROVE  HandleNotInTree'
  BY <1>6 DEF DelAndRef, HandleNotInTree
<1>7. ASSUME NEW t \in Threads, PortClose(t)
      PROVE  HandleNotInTree'
  BY <1>7 DEF PortClose, HandleNotInTree
<1>8. ASSUME NEW t \in Threads, UnrefAndDestroy(t)
      PROVE  HandleNotInTree'
  BY <1>8 DEF UnrefAndDestroy, HandleNotInTree
<1>9. ASSUME NEW t \in Threads, NEW u \in Threads, Rendezvous(t, u)
      PROVE  HandleNotInTree'
  BY <1>9 DEF Rendezvous, HandleNotInTree
<1>10. ASSUME NEW t \in Threads, Exchange(t)
      PROVE  HandleNotInTree'
  BY <1>10 DEF Exchange, HandleNotInTree
<1>11. ASSUME NEW t \in Threads, PortDelete(t)
      PROVE  HandleNotInTree'
  BY <1>11 DEF PortDelete, HandleNotInTree
<1>12. CASE UNCHANGED vars
  BY <1>12 DEF vars, HandleNotInTree
<1> QED BY <1>1, <1>2, <1>3, <1>4, <1>5, <1>6, <1>7, <1>8, <1>9, <1>10, <1>11, <1>12
       DEF Next, Call, Step, Done, Inside

-----------------------------------------------------------------------------
(* Counting references *)

Same(u, q) == Holds(u, q)' <=> Holds(u, q)

LEMMA NoneMore ==
  ASSUME RefsExact, \A u \in Threads, q \in Ports : Same(u, q),
         \A q \in Ports : port'[q].refs = port[q].refs
  PROVE  RefsExact'
<1>1. \A q \in Ports : Holders(q)' = Holders(q)
  BY DEF Same, Holders
<1> QED BY <1>1 DEF RefsExact, Holders

LEMMA OneMore ==
  ASSUME RefsExact, NEW t \in Threads, NEW p \in Ports, ~Holds(t, p), Holds(t, p)',
         \A u \in Threads, q \in Ports : u # t \/ q # p => Same(u, q),
         \A q \in Ports : port'[q].refs = IF q = p THEN port[q].refs + 1 ELSE port[q].refs
  PROVE  RefsExact'
<1>1. Holders(p)' = Holders(p) \cup {t} /\ t \notin Holders(p)
  BY DEF Same, Holders
<1>2. \A q \in Ports \ {p} : Holders(q)' = Holders(q)
  BY DEF Same, Holders
<1>3. Cardinality(Holders(p)') = Cardinality(Holders(p)) + 1
  BY <1>1, HoldersFinite, FS_AddElement
<1> QED BY <1>2, <1>3 DEF RefsExact, Holders

LEMMA OneLess ==
  ASSUME RefsExact, NEW t \in Threads, NEW p \in Ports, Holds(t, p), ~Holds(t, p)',
         \A u \in Threads, q \in Ports : u # t \/ q # p => Same(u, q),
         \A q \in Ports : port'[q].refs = IF q = p THEN port[q].refs - 1 ELSE port[q].refs
  PROVE  RefsExact'
<1>1. Holders(p)' = Holders(p) \ {t} /\ t \in Holders(p)
  BY DEF Same, Holders
<1>2. \A q \in Ports \ {p} : Holders(q)' = Holders(q)
  BY DEF Same, Holders
<1>3. Cardinality(Holders(p)') = Cardinality(Holders(p)) - 1
  BY <1>1, HoldersFinite, FS_RemoveElement
<1> QED BY <1>2, <1>3 DEF RefsExact, Holders

LEMMA RefsExactStep ==
  ASSUME Types, RefsExact, Seated, Indexed, [Next]_vars
  PROVE  RefsExact'
<1>1. ASSUME NEW t \in Threads, NEW p \in Ports, NEW h \in Handles, PortNew(t, p, h)
      PROVE  RefsExact'
  <2>1. /\ port[p].life = "none" /\ port'[p].refs = 0 /\ At(t, "idle") /\ th'[t].pc = "add"
        /\ \A q \in Ports \ {p} : port'[q] = port[q]
        /\ \A u \in Threads \ {t} : th'[u] = th[u]
    BY <1>1 DEF PortNew, Fresh, Types, ThreadState
  <2>2. \A u \in Threads : th[u].port # p
    BY <2>1, NoneAssumption DEF Seated
  <2>3. Holders(p) = {}
    BY <2>2 DEF Holders, Holds
  <2>4. port[p].refs = 0
    BY <2>3, FS_EmptySet DEF RefsExact, Holders
  <2>5. \A u \in Threads, q \in Ports : Same(u, q)
    BY <2>1 DEF Same, Holds, At, Using
  <2> QED BY <2>1, <2>4, <2>5, NoneMore
<1>2. ASSUME NEW t \in Threads, NEW h \in Handles,
             \/ DelAndRef(t, h)
             \/ \E call \in {"ctl", "wait"} : FindAndRef(t, h, call)
      PROVE  RefsExact'
  <2>0. PICK p \in Ports : p = tree[h]
    BY <1>2 DEF DelAndRef, FindAndRef, Types
  <2>1. /\ At(t, "idle")
        /\ port' = [port EXCEPT ![p].refs = @ + 1]
        /\ \E pc \in {"ctl", "wait", "port_close"} :
             th' = [th EXCEPT ![t] = [Idle EXCEPT !.pc = pc, !.port = p]]
    BY <1>2, <2>0 DEF DelAndRef, FindAndRef, Types
  <2>2. \A q \in Ports : port'[q].refs = IF q = p THEN port[q].refs + 1 ELSE port[q].refs
    <3>1. /\ port'[p] = [port[p] EXCEPT !.refs = @ + 1] /\ port[p] \in PortState
          /\ \A q \in Ports \ {p} : port'[q] = port[q]
      BY <2>1 DEF Types
    <3>2. port'[p].refs = port[p].refs + 1
      BY <3>1 DEF PortState
    <3> QED BY <3>1, <3>2
  <2>3. /\ th'[t].pc \in {"ctl", "wait", "port_close"} /\ th'[t].port = p
        /\ \A u \in Threads \ {t} : th'[u] = th[u]
    <3>1. PICK pc \in {"ctl", "wait", "port_close"} :
             th' = [th EXCEPT ![t] = [Idle EXCEPT !.pc = pc, !.port = p]]
      BY <2>1
    <3>2. th'[t] = [Idle EXCEPT !.pc = pc, !.port = p]
      BY <3>1 DEF Types
    <3>3. th'[t].pc = pc /\ th'[t].port = p
      BY <3>2 DEF Idle
    <3> QED BY <3>1, <3>3
  <2>4. th[t].pc = "idle"
    BY <2>1 DEF At
  <2>5. ~Holds(t, p) /\ Holds(t, p)'
    BY <2>3, <2>4 DEF Holds, Using
  <2>6. \A u \in Threads, q \in Ports : u # t \/ q # p => Same(u, q)
    BY <2>3, <2>4 DEF Same, Holds, Using
  <2> QED BY <2>2, <2>4, <2>5, <2>6, OneMore
<1>3. ASSUME NEW t \in Threads, Unref(t) \/ UnrefAndDestroy(t)
      PROVE  RefsExact'
  <2>0. PICK p \in Ports : p = th[t].port
    BY <1>3, SeatOf DEF Unref, UnrefAndDestroy, At
  <2>1. th[t].port = p /\ th[t].pc \in {"unref", "destroy"}
    BY <1>3, <2>0 DEF Unref, UnrefAndDestroy, At
  <2>2. \/ port' = [port EXCEPT ![p].refs = @ - 1]
        \/ port' = [port EXCEPT ![p].refs = @ - 1, ![p].destroy = TRUE]
    BY <1>3, <2>1 DEF Unref, UnrefAndDestroy
  <2>3. /\ th'[t].pc \in {"signal", "idle", "exchange", "await"}
        /\ \A u \in Threads \ {t} : th'[u] = th[u]
    BY <1>3 DEF Unref, UnrefAndDestroy, AwaitUsers, Goto, Return, Idle, Types, ThreadState
  <2>4. Holds(t, p) /\ ~Holds(t, p)'
    BY <2>1, <2>3 DEF Holds, Using
  <2>5. \A u \in Threads, q \in Ports : u # t \/ q # p => Same(u, q)
    BY <2>1, <2>3 DEF Same, Holds, Using
  <2>6. \A q \in Ports : port'[q].refs = IF q = p THEN port[q].refs - 1 ELSE port[q].refs
    <3>1. /\ \/ port'[p] = [port[p] EXCEPT !.refs = @ - 1]
             \/ port'[p] = [port[p] EXCEPT !.refs = @ - 1, !.destroy = TRUE]
          /\ port[p] \in PortState /\ \A q \in Ports \ {p} : port'[q] = port[q]
      BY <2>1, <2>2 DEF Types
    <3>2. CASE port'[p] = [port[p] EXCEPT !.refs = @ - 1]
      BY <3>1, <3>2 DEF PortState
    <3>3. CASE port'[p] = [port[p] EXCEPT !.refs = @ - 1, !.destroy = TRUE]
      <4>1. port'[p].refs = port[p].refs - 1
        BY <3>1, <3>3 DEF PortState
      <4> QED BY <3>1, <4>1
    <3> QED BY <3>1, <3>2, <3>3
  <2> QED BY <2>1, <2>4, <2>5, <2>6, OneLess
<1>4. ASSUME NEW t \in Threads, Inside(t)
      PROVE  RefsExact'
  <2>1. \A u \in Threads, q \in Ports : Same(u, q)
    BY <1>4, InsideStep DEF Same, Holds
  <2> QED BY <1>4, <2>1, InsideStep, NoneMore
<1>9. ASSUME NEW t \in Threads, TsTreeAdd(t) \/ Exchange(t)
      PROVE  RefsExact'
  <2>1. /\ port' = port
        /\ \A u \in Threads \ {t} : th'[u] = th[u]
        /\ th[t].pc \in {"add", "exchange"} /\ th'[t].pc \in {"idle", "delete"}
    BY <1>9 DEF TsTreeAdd, Exchange, Goto, Return, Idle, Types, ThreadState, At
  <2>2. \A u \in Threads, q \in Ports : Same(u, q)
    BY <2>1 DEF Same, Holds, Using
  <2> QED BY <2>1, <2>2, NoneMore
<1>5. ASSUME NEW t \in Threads, NEW u \in Threads, Rendezvous(t, u)
      PROVE  RefsExact'
  <2>1. /\ port' = port /\ th[t].pc = "signal" /\ th[u].pc = "await"
        /\ th'[t].pc = "idle" /\ th'[u].pc = "exchange"
        /\ \A v \in Threads \ {t, u} : th'[v] = th[v]
    BY <1>5 DEF Rendezvous, Idle, Types, ThreadState, At
  <2>2. \A v \in Threads, q \in Ports : Same(v, q)
    BY <2>1 DEF Same, Holds, Using
  <2> QED BY <2>1, <2>2, NoneMore
<1>6. ASSUME NEW t \in Threads, PortClose(t)
      PROVE  RefsExact'
  <2>1. th[t].port \in Ports /\ th[t].pc = "port_close"
    BY <1>6, SeatOf DEF PortClose, At
  <2>2. \A q \in Ports : port'[q].refs = port[q].refs
    BY <1>6, <2>1 DEF PortClose, Types, PortState
  <2>3. /\ th'[t].pc = "destroy" /\ th'[t].port = th[t].port
        /\ \A u \in Threads \ {t} : th'[u].pc = th[u].pc /\ th'[u].port = th[u].port
    BY <1>6 DEF PortClose, Types, ThreadState
  <2>4. \A u \in Threads, q \in Ports : Same(u, q)
    BY <2>1, <2>3 DEF Same, Holds, Using
  <2> QED BY <2>2, <2>4, NoneMore
<1>7. ASSUME NEW t \in Threads, PortDelete(t)
      PROVE  RefsExact'
  <2>1. th[t].port \in Ports /\ th[t].pc = "delete"
    BY <1>7, SeatOf DEF PortDelete, At
  <2>2. \A q \in Ports : port'[q].refs = port[q].refs
    BY <1>7, <2>1 DEF PortDelete, Types, PortState
  <2>3. th'[t].pc = "idle" /\ \A u \in Threads \ {t} : th'[u] = th[u]
    BY <1>7 DEF PortDelete, Return, Idle, Types
  <2>4. \A u \in Threads, q \in Ports : Same(u, q)
    BY <2>1, <2>3 DEF Same, Holds, Using
  <2> QED BY <2>2, <2>4, NoneMore
<1>8. CASE UNCHANGED vars
  <2>1. \A u \in Threads, q \in Ports : Same(u, q)
    BY <1>8 DEF Same, Holds, vars
  <2> QED BY <1>8, <2>1, NoneMore DEF vars
<1> QED BY <1>1, <1>2, <1>3, <1>4, <1>5, <1>6, <1>7, <1>8, <1>9
       DEF Next, Call, Step, Done, Inside

-----------------------------------------------------------------------------
(* The theorems *)

LEMMA InitIInv == Init => IInv
<1> SUFFICES ASSUME Init PROVE IInv
  OBVIOUS
<1>1. Fresh \in PortState /\ Idle \in ThreadState
  BY DEF Fresh, PortState, Idle, ThreadState
<1>2. Types
  BY <1>1 DEF Init, Types
<1>3. \A t \in Threads : th[t] = Idle /\ th[t].pc = "idle" /\ th[t].port = None
  BY DEF Init, Idle
<1>4. \A p \in Ports : port[p].refs = 0 /\ port[p].life = "none"
  BY DEF Init, Fresh
<1>5. \A p \in Ports : {t \in Threads : Holds(t, p)} = {}
  BY <1>3 DEF Holds, Using
<1>6. RefsExact
  BY <1>4, <1>5, FS_EmptySet DEF RefsExact
<1>7. Seated /\ Adding /\ Closers /\ Signals
  BY <1>3 DEF Seated, Adding, Closers, Signals, At, Closing
<1>8. Indexed /\ HandleNotInTree
  BY <1>4 DEF Init, Indexed, HandleNotInTree
<1> QED BY <1>2, <1>6, <1>7, <1>8 DEF IInv

LEMMA NextIInv == IInv /\ [Next]_vars => IInv'
  BY TypesStep, RefsExactStep, SeatedStep, IndexedStep, AddingStep, ClosersStep, SignalsStep,
     HandleNotInTreeStep DEF IInv

\* The reference lock, the table and the kernel agree in every state.
THEOREM Invariance == Spec => []IInv
  BY InitIInv, NextIInv, PTL DEF Spec

\* The count in each reference lock is the number of threads that hold it.
THEOREM ReferencesCounted == Spec => []RefsExact
  BY Invariance, PTL DEF IInv

\* In every reachable state the variables have the types TypeOK gives them.
THEOREM TypeCorrect == Spec => []TypeOK
<1>1. ASSUME IInv
      PROVE  TypeOK
  <2>1. ASSUME NEW p \in Ports
        PROVE  port[p].refs \in 0 .. Cardinality(Threads)
    <3>1. /\ Cardinality(Holders(p)) \in Nat /\ Cardinality(Threads) \in Nat
          /\ Cardinality(Holders(p)) <= Cardinality(Threads)
      BY HoldersFinite, ThreadsAssumption, FS_CardinalityType, FS_Subset DEF Holders
    <3> QED BY <1>1, <3>1 DEF IInv, RefsExact, Holders
  <2> QED BY <1>1, <2>1 DEF IInv, Types, TypeOK, PortState, ThreadState
<1> QED BY <1>1, Invariance, PTL

\* No port is freed, or given up by its reference lock, under a thread that
\* found it in the table.
THEOREM PortsProtected == Spec => []RefsProtect
<1>1. ASSUME IInv
      PROVE  RefsProtect
  <2> Types /\ RefsExact /\ Seated /\ Indexed /\ Closers /\ Signals /\ Adding
    BY <1>1 DEF IInv
  <2>1. \A t \in Threads : th[t].pc \in Using \cup Closing =>
          port[th[t].port].life \in {"open", "closed"}
    BY DEF Seated, At, Using, Closing
  <2>2. ASSUME NEW t \in Threads, NEW u \in Threads, th[t].pc \in {"exchange", "delete"},
               u # t, th[u].port = th[t].port
        PROVE  th[u].pc \in {"idle", "add"}
    <3>1. port[th[u].port].refs = 0
      BY <2>2 DEF Closers
    <3>2. th[u].pc \notin Using
      BY <3>1, HeldIsCounted
    <3>3. th[u].pc \notin Closing /\ th[u].pc # "signal"
      BY <2>2 DEF Closers, Signals, Closing, At
    <3> QED BY <3>2, <3>3 DEF Types, ThreadState
  <2>3. \A h \in Handles : tree[h] # None => port[tree[h]].life = "open" /\ ~port[tree[h]].destroy
    BY DEF Indexed
  <2> QED BY <2>1, <2>2, <2>3 DEF RefsProtect
<1> QED BY <1>1, Invariance, PTL

\* ts_tree_add never finds the handle of a new port in the table.
THEOREM NewHandleIsNew == Spec => []HandleNotInTree
  BY Invariance, PTL DEF IInv
=============================================================================
