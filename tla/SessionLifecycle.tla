--------------------------- MODULE SessionLifecycle ---------------------------
(***************************************************************************)
(* What a client is promised of its session: it opens once, and once it is  *)
(* over it does not come back.  Only a client that sends a request before   *)
(* it has the answer to the last one leaves this life cycle ("raced").      *)
(***************************************************************************)
CONSTANT Sessions

VARIABLE state   \* state[s]: "none", "open", "over" or "raced"

Init == state = [s \in Sessions |-> "none"]

Goes(s, from, to) == state[s] = from /\ state'[s] = to

Stays(s) == state'[s] = state[s]
Begins(s) == Goes(s, "none", "open")
Ends(s)   == Goes(s, "open", "over")   \* logged out, run out or lost to a failure
Races(s)  == Goes(s, "open", "raced")

Next == \A s \in Sessions : Stays(s) \/ Begins(s) \/ Ends(s) \/ Races(s)

Spec == Init /\ [][Next]_state
=============================================================================
