----------------------------- MODULE MCSessions -----------------------------
(***************************************************************************)
(* Small instances of the accounts and sessions for TLC.                   *)
(***************************************************************************)
EXTENDS Sessions, TLC

\* Tokens are interchangeable, and so are requests and addresses.
MCSymmetry == Permutations(Tokens) \cup Permutations(Calls) \cup Permutations(Emails)
=============================================================================
