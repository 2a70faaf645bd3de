----------------------------- MODULE MCPresence -----------------------------
(***************************************************************************)
(* Small instances of the presence service for TLC.                        *)
(***************************************************************************)
EXTENDS Presence, TLC

CONSTANTS k1, alice, bob, p1, s1

\* alice connects as k1, bob as any other.
MCSocketUser == [k \in Sockets |-> IF k = k1 THEN alice ELSE bob]

\* The load balancer sends bob always to the same server.
MCReach == [k \in Sockets |-> IF k = k1 THEN Servers ELSE {s1}]

\* Both are members of p1; of another project only alice is.
MCMembers == [p \in Projects |-> IF p = p1 THEN Users ELSE Users \ {bob}]
=============================================================================
