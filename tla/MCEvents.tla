------------------------------ MODULE MCEvents ------------------------------
(***************************************************************************)
(* A small instance of the events of a project for TLC.                    *)
(***************************************************************************)
EXTENDS ProjectEvents

CONSTANTS k1, alice, bob, s1

MCSocketUser == [k \in Sockets |-> IF k = k1 THEN alice ELSE bob]

\* The load balancer sends bob always to the same server.
MCReach == [k \in Sockets |-> IF k = k1 THEN Servers ELSE {s1}]

MCMembers == [p \in Projects |-> Users]
=============================================================================
