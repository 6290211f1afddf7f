---------------------------- MODULE MCContainers ----------------------------
(***************************************************************************)
(* The four containers of the program, and the life of a server with its    *)
(* log, which share no state: the event store, the linked list, the path    *)
(* table, the red-black tree and module ServerLife. `unit` says which of    *)
(* them a behaviour exercises, the others stay as they are, so that the     *)
(* number of states is the sum and not the product of theirs.               *)
(*                                                                          *)
(* The event store has blocks of BLOCK cells and at most MaxEvents events,  *)
(* enough to fill, cross and drain several blocks. Every event written is   *)
(* the next member of Event, so that events are told apart by identity and  *)
(* the state space is not multiplied by their permutations.                 *)
(***************************************************************************)
EXTENDS Events, List, PathTable, ServerLife

CONSTANTS MaxEvents, Keys

VARIABLES unit, tree, keys

R == INSTANCE RbTree

tvars  == <<tree, keys>>
mcvars == <<vars, unit, lvars, pvars, tvars, lifeVars>>

MCInit ==
    /\ unit \in {"events", "list", "paths", "tree", "life"}
    /\ Init /\ ListInit /\ PathInit /\ R!Init /\ LifeInit

\* Each event is written once, in the order of its number.
WriteNext ==
    /\ Len(written) < MaxEvents
    /\ Write(Len(written) + 1)

EventsNext == WriteNext \/ WriteFails \/ Read \/ Free \/ FreeRead \/ Freed

MCNext ==
    \/ unit = "events" /\ EventsNext /\ UNCHANGED <<unit, lvars, pvars, tvars, lifeVars>>
    \/ unit = "list"   /\ ListNext   /\ UNCHANGED <<unit, vars, pvars, tvars, lifeVars>>
    \/ unit = "paths"  /\ PathNext   /\ UNCHANGED <<unit, vars, lvars, tvars, lifeVars>>
    \/ unit = "tree"   /\ R!Next     /\ UNCHANGED <<unit, vars, lvars, pvars, lifeVars>>
    \/ unit = "life"   /\ LifeNext   /\ UNCHANGED <<unit, vars, lvars, pvars, tvars>>

MCSpec == MCInit /\ [][MCNext]_mcvars

\* The property of the tree, under a name a configuration can give.
TreeSound == R!TreeSound
=============================================================================
