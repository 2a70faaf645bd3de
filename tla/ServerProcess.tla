---------------------------- MODULE ServerProcess ----------------------------
(***************************************************************************)
(* One server process: the pool of database connections that requests,      *)
(* sockets and job processors share (config/database.js), the middleware    *)
(* chain that goes from one connection to the next (auth.middleware.js,     *)
(* rbac.middleware.js), and the shutdown (server.js).                       *)
(*                                                                          *)
(* A middleware calls next() before it gives its connection back, so that   *)
(* what comes next asks for one while this one is still out; both happen in *)
(* one turn of the event loop.                                              *)
(***************************************************************************)
EXTENDS Sequences, FiniteSets, Naturals

CONSTANTS
  Clients,      \* connections of clients that can be open at once
  Processors,   \* jobs that can be processed at once
  Chains,       \* the routes, each as its uses of the pool one after the other
  PoolSize,     \* max of the pool
  Patience      \* how long is waited: "unlimited" with DATABASE_URL, else "2s"

VARIABLES
  phase,        \* "serving", "stopping", "closing", "exited" or "dead"
  conn,         \* conn[c]: "none", "http" or, once upgraded, "socket"
  todo,         \* todo[a]: uses of the pool before a is done, the current one first
  attended,     \* processors whose job Bull still waits for
  pool          \* out: the leases of connections; queue: those waited for

vars == <<phase, conn, todo, attended, pool>>

Actors == Clients \cup Processors

ASSUME ServerAssumption ==
  /\ IsFiniteSet(Actors) /\ Clients \cap Processors = {}
  /\ Chains \subseteq Seq({"authenticate", "role", "handler"}) \ {<<>>}
  /\ PoolSize \in Nat \ {0}
  /\ Patience \in {"unlimited", "2s"}

\* A processor marks its job's row before and after the task, or as failed.
Marks == <<"processing", "completed">>

-----------------------------------------------------------------------------
(* The pool *)

\* What a asks a connection for: its use number n from the end.
Lease(a, n) == <<a, n>>

Full(p) == Cardinality(p.out) >= PoolSize

\* connect(): callers wait in the order they come.
Ask(p, l) ==
  IF Full(p) \/ p.queue # <<>> THEN [p EXCEPT !.queue = Append(@, l)]
                               ELSE [p EXCEPT !.out = @ \cup {l}]

\* Broken variant of GiveBack: the one that waits least gets it.
GiveToLast(p, l) ==
  IF p.queue = <<>> THEN [p EXCEPT !.out = @ \ {l}]
  ELSE [out |-> (p.out \ {l}) \cup {p.queue[Len(p.queue)]},
        queue |-> SubSeq(p.queue, 1, Len(p.queue) - 1)]

\* Broken variant of GiveBack: the connection goes back to the idle ones.
GiveToNone(p, l) == [p EXCEPT !.out = @ \ {l}]

\* release(): the one that has waited longest gets it.
GiveBack(p, l) ==
  IF p.queue = <<>> THEN [p EXCEPT !.out = @ \ {l}]
  ELSE [out |-> (p.out \ {l}) \cup {Head(p.queue)}, queue |-> Tail(p.queue)]

\* The i-th in line goes away, as it has waited too long.
Cut(p, i) ==
  [p EXCEPT !.queue = [n \in 1..(Len(@) - 1) |-> @[IF n < i THEN n ELSE n + 1]]]

Current(a) == Lease(a, Len(todo[a]))

\* a has its connection, and its statement has come back.
Served(a) == todo[a] # <<>> /\ Current(a) \in pool.out

\* a's places in line: one at most.
Places(a) == {i \in DOMAIN pool.queue : pool.queue[i] = Current(a)}

Waits(a) == todo[a] # <<>> /\ Places(a) # {}

\* a is at something else, a job's task or a command of Redis, between two uses.
Elsewhere(a) == todo[a] # <<>> /\ ~Served(a) /\ ~Waits(a)

-----------------------------------------------------------------------------
Init ==
  /\ phase = "serving"
  /\ conn = [c \in Clients |-> "none"]
  /\ todo = [a \in Actors |-> <<>>]
  /\ attended = {}
  /\ pool = [out |-> {}, queue |-> <<>>]

\* a begins to do what steps say.
Begin(a, steps) ==
  /\ todo' = [todo EXCEPT ![a] = steps]
  /\ pool' = Ask(pool, Lease(a, Len(steps)))

\* a is done, well or not.
End(a) ==
  /\ todo' = [todo EXCEPT ![a] = <<>>]
  /\ pool' = GiveBack(pool, Current(a))

-----------------------------------------------------------------------------
(* Clients *)

\* After server.close no connection is accepted.
Accept(c) ==
  /\ phase \in {"serving", "stopping"}
  /\ conn[c] = "none" /\ todo[c] = <<>>
  /\ conn' = [conn EXCEPT ![c] = "http"]
  /\ UNCHANGED <<phase, todo, attended, pool>>

\* A request comes, on a connection that was kept alive even while closing; or
\* the handshake of a socket, or join_project on one.
Request(c) ==
  /\ todo[c] = <<>>
  /\ \/ conn[c] = "http" /\ \E chain \in Chains \cup {<<"handshake">>} : Begin(c, chain)
     \/ conn[c] = "socket" /\ Begin(c, <<"access">>)
  /\ UNCHANGED <<phase, conn, attended>>

\* Broken variant of PassOn: await next(), and what comes next is waited for
\* before the connection is given back.
PassOnLater(c) ==
  /\ Served(c) /\ Len(todo[c]) > 1
  /\ Begin(c, Tail(todo[c]))
  /\ UNCHANGED <<phase, conn, attended>>

\* Broken variant of PassOn: the last handler calls next() as well.
PassOnPastTheEnd(c) ==
  /\ Served(c)
  /\ todo' = [todo EXCEPT ![c] = Tail(@)]
  /\ pool' = GiveBack(Ask(pool, Lease(c, Len(todo[c]) - 1)), Current(c))
  /\ UNCHANGED <<phase, conn, attended>>

\* next(): the following middleware or the controller asks for its connection,
\* then finally gives this one back.  Where validators come in between it is the
\* other way round; as nothing else runs in between, the outcome is the same.
PassOn(c) ==
  /\ Served(c) /\ Len(todo[c]) > 1
  /\ todo' = [todo EXCEPT ![c] = Tail(@)]
  /\ pool' = GiveBack(Ask(pool, Lease(c, Len(todo[c]) - 1)), Current(c))
  /\ UNCHANGED <<phase, conn, attended>>

\* A handler does something else before it asks: it waits for Redis.
Pause(c) ==
  /\ Served(c) /\ Len(todo[c]) > 1 /\ todo[c][2] = "handler"
  /\ todo' = [todo EXCEPT ![c] = Tail(@)]
  /\ pool' = GiveBack(pool, Current(c))
  /\ UNCHANGED <<phase, conn, attended>>

\* Redis has answered: the handler asks for its connection, or has its answer.
Proceed(c) ==
  /\ Elsewhere(c)
  /\ \/ Begin(c, todo[c])
     \/ todo' = [todo EXCEPT ![c] = <<>>] /\ UNCHANGED pool
  /\ UNCHANGED <<phase, conn, attended>>

\* The last use is over, or a check before it failed; a socket is let in.
Answer(c) ==
  /\ Served(c)
  /\ End(c)
  /\ conn' \in {conn, IF todo[c] = <<"handshake">> /\ conn[c] # "none"
                      THEN [conn EXCEPT ![c] = "socket"] ELSE conn}
  /\ UNCHANGED <<phase, attended>>

\* connectionTimeoutMillis: the caller gets an error; 401 of authenticate, 500
\* of the others.
GiveUp(c) ==
  /\ Patience = "2s"
  /\ Waits(c) /\ todo[c] # <<"access">>
  /\ todo' = [todo EXCEPT ![c] = <<>>]
  /\ \E i \in Places(c) : pool' = Cut(pool, i)
  /\ UNCHANGED <<phase, conn, attended>>

\* The client goes away, or its idle connection is closed after five seconds.
\* What it has asked for goes on.
Leave(c) ==
  /\ conn[c] # "none"
  /\ conn' = [conn EXCEPT ![c] = "none"]
  /\ UNCHANGED <<phase, todo, attended, pool>>

KeepAliveEnds(c) == conn[c] = "http" /\ todo[c] = <<>> /\ Leave(c)

-----------------------------------------------------------------------------
(* Job processors *)

\* Broken variant of PickJob: the queues are not closed.
PickAlways(w) ==
  /\ phase \in {"serving", "stopping", "closing"} /\ todo[w] = <<>>
  /\ Begin(w, Marks)
  /\ attended' = attended \cup {w}
  /\ UNCHANGED <<phase, conn>>

\* Once the queues are closing no job is picked.
PickJob(w) ==
  /\ phase = "serving" /\ todo[w] = <<>>
  /\ Begin(w, Marks)
  /\ attended' = attended \cup {w}
  /\ UNCHANGED <<phase, conn>>

\* A row is marked, or the last mark has failed and the processor throws.  After
\* "processing" the task runs without a connection.
Mark(w) ==
  /\ Served(w)
  /\ pool' = GiveBack(pool, Current(w))
  /\ todo' = [todo EXCEPT ![w] = Tail(@)]
  /\ attended' = IF Len(todo[w]) = 1 THEN attended \ {w} ELSE attended
  /\ UNCHANGED <<phase, conn>>

\* The statement fails: its connection goes back, and the catch block asks for
\* one to mark the row failed.  When that fails too, the processor throws (Mark).
MarkFails(w) ==
  /\ Served(w) /\ todo[w] # <<"failed">>
  /\ todo' = [todo EXCEPT ![w] = <<"failed">>]
  /\ pool' = Ask(GiveBack(pool, Current(w)), Lease(w, 1))
  /\ UNCHANGED <<phase, conn, attended>>

\* The task is over, or has failed.
TaskEnds(w) ==
  /\ Elsewhere(w)
  /\ \E steps \in {todo[w], <<"failed">>} : Begin(w, steps)
  /\ UNCHANGED <<phase, conn, attended>>

\* The wait for a connection was too long: the row is to be marked failed, and
\* when that was it already, the processor throws.
MarkGivesUp(w) ==
  /\ Patience = "2s" /\ Waits(w)
  /\ \E i \in Places(w) :
       IF todo[w] = <<"failed">>
       THEN /\ todo' = [todo EXCEPT ![w] = <<>>]
            /\ pool' = Cut(pool, i)
            /\ attended' = attended \ {w}
       ELSE /\ todo' = [todo EXCEPT ![w] = <<"failed">>]
            /\ pool' = Ask(Cut(pool, i), Lease(w, 1))
            /\ UNCHANGED attended
  /\ UNCHANGED <<phase, conn>>

\* Bull's timeout: the job has failed for Bull, the processor goes on.
JobTimesOut(w) ==
  /\ w \in attended
  /\ attended' = attended \ {w}
  /\ UNCHANGED <<phase, conn, todo, pool>>

-----------------------------------------------------------------------------
(* The process *)

\* SIGTERM or SIGINT; a second one waits for the same.
Signal ==
  /\ phase = "serving"
  /\ phase' = "stopping"
  /\ UNCHANGED <<conn, todo, attended, pool>>

\* Broken variant of CloseServer: workerManager.stop() is not awaited.
CloseServerAtOnce ==
  /\ phase = "stopping"
  /\ phase' = "closing"
  /\ UNCHANGED <<conn, todo, attended, pool>>

\* The queues are closed when no job is waited for any more.
CloseServer ==
  /\ phase = "stopping" /\ attended = {}
  /\ phase' = "closing"
  /\ UNCHANGED <<conn, todo, attended, pool>>

\* process.exit(0), once all connections have ended.
Exit ==
  /\ phase = "closing"
  /\ \A c \in Clients : conn[c] = "none"
  /\ phase' = "exited"
  /\ todo' = [a \in Actors |-> <<>>]
  /\ pool' = [out |-> {}, queue |-> <<>>]
  /\ UNCHANGED <<conn, attended>>

\* An access check gets no connection, or its query fails.  Nobody catches that
\* (websocket.service.js:51), and the process dies.
Die ==
  /\ \E c \in Clients : todo[c] = <<"access">> /\ (Waits(c) => Patience = "2s")
  /\ phase' = "dead"
  /\ conn' = [c \in Clients |-> "none"]
  /\ todo' = [a \in Actors |-> <<>>]
  /\ attended' = {}
  /\ pool' = [out |-> {}, queue |-> <<>>]

\* The process is started again.
Restart ==
  /\ phase \in {"exited", "dead"}
  /\ phase' = "serving"
  /\ UNCHANGED <<conn, todo, attended, pool>>

Works(c) == PassOn(c) \/ Pause(c) \/ Proceed(c) \/ Answer(c)

ClientStep(c) ==
  Accept(c) \/ Request(c) \/ Works(c) \/ GiveUp(c) \/ Leave(c)

ProcessorStep(w) ==
  PickJob(w) \/ Mark(w) \/ MarkFails(w) \/ TaskEnds(w) \/ MarkGivesUp(w)
    \/ JobTimesOut(w)

Next ==
  \/ \E c \in Clients : ClientStep(c)
  \/ \E w \in Processors : ProcessorStep(w)
  \/ Signal \/ CloseServer \/ Exit \/ Die \/ Restart

Spec == Init /\ [][Next]_vars

\* The databases answer and tasks come to an end; the steps of the shutdown are
\* taken; node closes connections kept alive and not used.  Nothing is assumed
\* of clients, nor of the times that are waited for.
Fairness ==
  /\ \A c \in Clients : WF_vars(Works(c)) /\ WF_vars(KeepAliveEnds(c))
  /\ \A w \in Processors : WF_vars(Mark(w) \/ MarkFails(w) \/ TaskEnds(w))
  /\ WF_vars(CloseServer) /\ WF_vars(Exit)

FairSpec == Spec /\ Fairness

-----------------------------------------------------------------------------
(* Properties *)

Leases == Actors \X (Nat \ {0})

Uses == {"authenticate", "role", "handler", "handshake", "access",
         "processing", "completed", "failed"}

TypeOK ==
  /\ phase \in {"serving", "stopping", "closing", "exited", "dead"}
  /\ conn \in [Clients -> {"none", "http", "socket"}]
  /\ todo \in [Actors -> Seq(Uses)]
  /\ attended \subseteq Processors
  /\ pool.out \subseteq Leases /\ pool.queue \in Seq(Leases)

\* No more connections are out than the pool has; nobody waits while one is
\* left; each is out for somebody who is using it, and each of these has or
\* awaits one connection, not two (auth.middleware.js:41 holds one while it
\* asks for the next).
PoolIsSound ==
  /\ Cardinality(pool.out) <= PoolSize
  /\ pool.queue # <<>> => Cardinality(pool.out) = PoolSize
  /\ \A l \in pool.out : todo[l[1]] # <<>> /\ l = Current(l[1])
  /\ \A i, j \in DOMAIN pool.queue : pool.queue[i] = pool.queue[j] => i = j
  /\ \A i \in DOMAIN pool.queue : pool.queue[i] = Current(pool.queue[i][1])
                                  /\ pool.queue[i] \notin pool.out

\* A request comes to an end, however many wait for connections, even when
\* nothing limits the wait: the chain never waits for itself.  It ends with its
\* answer, or with the process, which only exits on clients that have gone
\* (GracefulExit), but may die on all (auth.middleware.js, rbac.middleware.js).
RequestsAreAnswered == \A c \in Clients : todo[c] # <<>> ~> todo[c] = <<>>

\* When the process exits no job is being processed that Bull waits for, and no
\* client still connected is without its answer.
GracefulExit ==
  [][phase = "closing" /\ phase' = "exited" =>
       attended = {} /\ \A c \in Clients : conn[c] # "none" => todo[c] = <<>>]_vars

Calm == \A c \in Clients : conn[c] # "socket" /\ todo[c] = <<>>

\* After a signal the process ends, if in the end clients have left their
\* sockets, which it does not close, and send no more requests.
ShutdownFinishes == <>[]Calm => (phase = "stopping" ~> phase \in {"exited", "dead"})
=============================================================================
