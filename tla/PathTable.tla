------------------------------ MODULE PathTable ------------------------------
(***************************************************************************)
(* The service paths of a server: ezgrpc2_server_register_path and          *)
(* ezgrpc2_server_unregister_path, and the search of on_header_callback. A  *)
(* slot is told apart by its path; the empty path marks a slot that was     *)
(* never filled or was cleared. (Names are not those of Server, so that one *)
(* module may extend both.)                                                 *)
(***************************************************************************)
EXTENDS Naturals, Sequences, FiniteSets

CONSTANTS
    Paths,              \* the paths an application registers
    MaxPaths,           \* http2_settings.max_paths
    NoPath              \* path[0] == 0

ASSUME PathsAssumption == MaxPaths \in Nat \ {0} /\ NoPath \notin Paths

VARIABLES
    paths, nb_paths,    \* server->paths, server->nb_paths
    \* history
    registered,         \* what is registered, oldest first
    newestFirst         \* only the newest path was ever unregistered

pvars == <<paths, nb_paths, registered, newestFirst>>

PathSlots == 0 .. MaxPaths - 1

PathInit ==
    /\ paths = [i \in PathSlots |-> NoPath] /\ nb_paths = 0
    /\ registered = <<>> /\ newestFirst = TRUE

\* ezgrpc2_server_register_path, when there is room.
Register(p) ==
    /\ nb_paths + 1 <= MaxPaths
    /\ paths' = [paths EXCEPT ![nb_paths] = p]
    /\ nb_paths' = nb_paths + 1
    /\ registered' = Append(registered, p)
    /\ UNCHANGED newestFirst

\* Mutant: the slot is not cleared.
SlotKept(p) == p

\* What memset leaves in the slot of path p.
Cleared(p) == NoPath

\* ezgrpc2_server_unregister_path, when it finds the path. The test for an
\* empty slot looks at slot 0 in every turn.
Unregister(p) ==
    /\ paths[0] # NoPath
    /\ \E i \in PathSlots :
         /\ paths[i] = p /\ \A j \in 0 .. i - 1 : paths[j] # p
         /\ paths' = [paths EXCEPT ![i] = Cleared(p)]
         /\ newestFirst' = (newestFirst /\ i + 1 = Len(registered))
    /\ nb_paths' = nb_paths - 1
    /\ registered' =
         LET k == CHOOSE k \in DOMAIN registered :
                     registered[k] = p /\ \A j \in 1 .. k - 1 : registered[j] # p
         IN  [j \in 1 .. Len(registered) - 1 |-> registered[IF j < k THEN j ELSE j + 1]]

\* The table is full, and register returns 1; or the search of unregister
\* finds nothing, though the path may be registered.
Refused(p) ==
    /\ \/ nb_paths + 1 > MaxPaths
       \/ paths[0] = NoPath \/ \A i \in PathSlots : paths[i] # p
    /\ UNCHANGED pvars

PathNext == \E p \in Paths : Register(p) \/ Unregister(p) \/ Refused(p)

PathSpec == PathInit /\ [][PathNext]_pvars

-----------------------------------------------------------------------------

\* The search of on_header_callback finds the path.
PathFound(p) == \E i \in 0 .. nb_paths - 1 : paths[i] = p

\* A request finds its service exactly when it is registered, provided that
\* paths are unregistered newest first (otherwise slots are lost or
\* overwritten); and, in whatever order, the count never falls below the
\* slots in use, so that it does not wrap around.
LookupExact ==
    /\ newestFirst =>
         \A p \in Paths : PathFound(p) <=> \E k \in DOMAIN registered : registered[k] = p
    /\ nb_paths >= Cardinality({i \in PathSlots : paths[i] # NoPath})
=============================================================================
