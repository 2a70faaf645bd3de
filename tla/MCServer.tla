------------------------------ MODULE MCServer ------------------------------
(***************************************************************************)
(* A small instance of the server process for TLC: two requests, each with *)
(* up to four uses of the pool, and two jobs share two connections.        *)
(***************************************************************************)
EXTENDS ServerProcess

\* A route of /auth, and one behind the two authenticates of app.js and of its
\* router and the check of a role: four connections in a chain.
MCChains == {<<"handler">>, <<"authenticate", "authenticate", "role", "handler">>}
=============================================================================
