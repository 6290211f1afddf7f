------------------------------ MODULE MCServer ------------------------------
(***************************************************************************)
(* The server with two slots, the first connection made to ipv4 and the     *)
(* others to ipv6. To keep the states few, a behaviour is of one of two     *)
(* kinds, which only restrict what clients do:                              *)
(*   crowd   three clients, of which only the first sends anything: slots   *)
(*           are reused, and clients turned away;                           *)
(*   busy    two clients, of which the second sends again and again.        *)
(***************************************************************************)
EXTENDS Server

CONSTANTS c1, c2, c3

MCListener == [c \in Conns |-> IF c = c1 THEN 0 ELSE 1]

MCSends == [c \in Conns |-> IF c = c1 THEN {"request"} ELSE {"ping"}]

VARIABLE kind

MCInit == kind \in {"crowd", "busy"} /\ Init

MCNext ==
    /\ Next
    /\ kind = "crowd" => \A c \in Conns : conn'[c].inbox # "ping"
    /\ kind = "busy"  => ~conn'[c3].made
    /\ UNCHANGED kind

MCSpec == MCInit /\ [][MCNext]_<<kind, vars>>
            /\ ServerFairness /\ ClientFairness /\ AcceptFairness
=============================================================================
