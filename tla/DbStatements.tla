---------------------------- MODULE DbStatements ----------------------------
(***************************************************************************)
(* What becomes of one statement a service sends to PostgreSQL, as far as   *)
(* the code that awaits it can tell: it is executed; or refused, and the    *)
(* code sees an error; or executed although the code sees an error, because *)
(* the connection failed before the reply came.                             *)
(***************************************************************************)
CONSTANT DbFaults   \* the outcomes besides "done" that can happen

Outcomes == {"done"} \cup DbFaults
Applied(o) == o \in {"done", "lostReply"}
Raised(o) == o \in {"refused", "lostReply"}
=============================================================================
