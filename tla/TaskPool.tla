------------------------------ MODULE TaskPool ------------------------------
(***************************************************************************)
(* What the pollable thread pool of ezgrpc2_pthpool.h promises its owner,   *)
(* without threads, locks or condition variables: tasks wait in submission  *)
(* order, are started oldest first, end either executed or expired, and     *)
(* leave the pool exactly once, by a poll or by the final clean-up.         *)
(*                                                                          *)
(* Pthpool is shown to implement this specification.                        *)
(***************************************************************************)
EXTENDS Sequences

CONSTANT Tasks          \* identities of the tasks an owner may submit

VARIABLES
    pending,            \* accepted and not started, oldest first
    active,             \* started and not completed
    outcome,            \* how a task went: "none" | "executed" | "expired"
    done,               \* completed and not collected, in completion order
    delivered,          \* collected by the owner, in order of collection
    discarded,          \* released by the pool itself
    closed              \* the pool no longer exists

vars == <<pending, active, outcome, done, delivered, discarded, closed>>

Image(s) == {s[i] : i \in DOMAIN s}

\* The tasks the pool has ever accepted.
Accepted == Image(pending) \cup active \cup Image(done)
              \cup Image(delivered) \cup discarded

Init ==
    /\ pending = <<>> /\ done = <<>> /\ delivered = <<>>
    /\ active = {} /\ discarded = {}
    /\ outcome = [t \in Tasks |-> "none"]
    /\ closed = FALSE

Submit(t) ==
    /\ ~closed
    /\ t \notin Accepted
    /\ pending' = Append(pending, t)
    /\ UNCHANGED <<active, outcome, done, delivered, discarded, closed>>

Start ==
    /\ pending # <<>>
    /\ pending' = Tail(pending)
    /\ active' = active \cup {Head(pending)}
    /\ UNCHANGED <<outcome, done, delivered, discarded, closed>>

Settle(t, how) ==
    /\ t \in active
    /\ outcome[t] = "none"
    /\ outcome' = [outcome EXCEPT ![t] = how]
    /\ UNCHANGED <<pending, active, done, delivered, discarded, closed>>

Complete(t) ==
    /\ t \in active
    /\ outcome[t] # "none"
    /\ active' = active \ {t}
    /\ done' = Append(done, t)
    /\ UNCHANGED <<pending, outcome, delivered, discarded, closed>>

Collect ==
    /\ ~closed
    /\ delivered' = delivered \o done
    /\ done' = <<>>
    /\ UNCHANGED <<pending, active, outcome, discarded, closed>>

Close ==
    /\ ~closed
    /\ active = {}
    /\ closed' = TRUE
    /\ discarded' = discarded \cup Image(done) \cup Image(pending)
    /\ done' = <<>>
    /\ pending' = <<>>
    /\ UNCHANGED <<active, outcome, delivered>>

Next ==
    \/ \E t \in Tasks : Submit(t)
    \/ Start
    \/ \E t \in Tasks : Settle(t, "executed") \/ Settle(t, "expired")
    \/ \E t \in Tasks : Complete(t)
    \/ Collect
    \/ Close

Spec == Init /\ [][Next]_vars
=============================================================================
