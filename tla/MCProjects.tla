----------------------------- MODULE MCProjects -----------------------------
(***************************************************************************)
(* Small instances of the projects and their members for TLC.              *)
(***************************************************************************)
EXTENDS ProjectAccess, TLC

\* Users, projects and requests are interchangeable.
MCSymmetry == Permutations(Users) \cup Permutations(Projects) \cup Permutations(Calls)
=============================================================================
