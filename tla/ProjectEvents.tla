---------------------------- MODULE ProjectEvents ----------------------------
(***************************************************************************)
(* File changes, code updates and activity of a project, as they go through *)
(* Redis to the clients in its room: the rest of websocket.service.js, over *)
(* the connections, rooms and channels of Presence.                         *)
(***************************************************************************)
EXTENDS Presence, SequencesExt

VARIABLES
  log,        \* history: log[p]: the updates of p as Redis executed them
  received    \* received[k][p]: updates k has got since it came into the room,
              \* or since its server last missed one

eventVars == <<channel, rooms, log, received>>

EventsInit ==
  /\ Init
  /\ log = [p \in Projects |-> <<>>]
  /\ received = [k \in Sockets |-> [p \in Projects |-> <<>>]]

\* broadcastProjectEvent.
Broadcast(k, p) ==
  Send(socket[k].server, [channel |-> "project", project |-> p,
                          user |-> SocketUser[k], number |-> happened])

\* Broken variant of SendUpdate: currentProject is not looked at.
SendUpdateUnchecked(k, p) ==
  /\ Open(k) /\ Patient(k)
  /\ IsPolite(k) => p \in socket[k].rooms
  /\ Broadcast(k, socket[k].current)
  /\ UNCHANGED <<executed, inbox, listening, socket, joining, active, view, stranded,
                 log, received>>

\* handleFileChange, handleCodeUpdate and handleActivityUpdate are alike: they
\* ask for currentProject, which a leave_project does not reset.
SendUpdate(k, p) ==
  /\ Open(k) /\ Patient(k)
  /\ IsPolite(k) => p \in socket[k].rooms
  /\ socket[k].current = p
  /\ Broadcast(k, p)
  /\ UNCHANGED <<executed, inbox, listening, socket, joining, active, view, stranded,
                 log, received>>

\* What clients have received of p begins again when one of es has passed
\* their server by.
Streams(S, es) ==
  [k \in Sockets |-> [p \in Projects |->
    IF /\ \E s \in S : k \in Audience(s, p)
       /\ \E e \in es : e.channel = "project" /\ e.project = p
    THEN <<>> ELSE received[k][p]]]

RelayAny(s) ==
  LET e == Upcoming(s) IN
  /\ Relay(s)
  /\ log' = IF e.channel = "project" THEN [log EXCEPT ![e.project] = Append(@, e)] ELSE log
  /\ received' = Streams(Servers \ listening, {e})

\* Broken variant of DeliverUpdate: socket.to(room), which leaves out the
\* author's own connection, instead of io.to(room).
DeliverToOthers(s) ==
  LET e == Head(inbox[s]) IN
  /\ Handle(s)
  /\ e.channel = "project"
  /\ received' = [k \in Sockets |->
       IF k \in Audience(s, e.project) /\ SocketUser[k] # e.user
       THEN [received[k] EXCEPT ![e.project] = Append(@, e)] ELSE received[k]]
  /\ UNCHANGED <<rooms, log>>

\* handleRedisProjectEvent: to everyone in the room, the author as well.
DeliverUpdate(s) ==
  LET e == Head(inbox[s]) IN
  /\ Handle(s)
  /\ e.channel = "project"
  /\ received' = [k \in Sockets |->
       IF k \in Audience(s, e.project)
       THEN [received[k] EXCEPT ![e.project] = Append(@, e)] ELSE received[k]]
  /\ UNCHANGED <<rooms, log>>

DeafenAll(s) ==
  /\ Deafen(s)
  /\ received' = Streams({s}, InTransit(s))
  /\ UNCHANGED log

\* What a client that is not in a room any more has received is of no matter.
Forget(k, P) == received' = [received EXCEPT ![k] =
                  [p \in Projects |-> IF p \in P THEN <<>> ELSE @[p]]]

CrashAll(s) ==
  /\ Crash(s)
  /\ received' = [k \in Sockets |-> IF socket[k].server = s THEN [p \in Projects |-> <<>>]
                                                           ELSE received[k]]
  /\ UNCHANGED log

ClientStep(k) ==
  \/ /\ \/ \E s \in Servers : Connect(k, s)
        \/ \E p \in Projects : AskJoin(k, p) \/ JoinChecked(k, p) \/ Sync(k, p)
     /\ UNCHANGED <<log, received>>
  \/ \E p \in Projects : Leave(k, p) /\ Forget(k, {p}) /\ UNCHANGED log
  \/ Disconnect(k) /\ Forget(k, Projects) /\ UNCHANGED log
  \/ \E p \in Projects : SendUpdate(k, p)

ServerStep(s) ==
  \/ RelayAny(s) \/ DeliverUpdate(s) \/ DeafenAll(s) \/ CrashAll(s)
  \/ (Deliver(s) \/ Reconnect(s)) /\ UNCHANGED <<log, received>>

EventsNext ==
  \/ \E k \in Sockets : ClientStep(k)
  \/ \E s \in Servers : ServerStep(s)

EventsSpec == EventsInit /\ [][EventsNext]_eventVars

-----------------------------------------------------------------------------
(* Properties *)

Updates == [channel : {"project"}, project : Projects, user : Users, number : 0..MaxEvents]

\* What Redis and the clients get are updates of the project (handleFileChange).
EventsTypeOK ==
  /\ log \in [Projects -> Seq(Updates)]
  /\ received \in [Sockets -> [Projects -> Seq(Updates)]]
  /\ \A s \in Servers : /\ outbox[s] \in Seq(PresenceEvents \cup Updates)
                        /\ inbox[s] \in Seq(PresenceEvents \cup Updates)
  /\ \A p \in Projects : \A i \in DOMAIN log[p] : log[p][i].project = p

\* Where the updates of p are that have come as far as the server s.
Pending(s, p) ==
  {i \in DOMAIN inbox[s] : inbox[s][i].channel = "project" /\ inbox[s][i].project = p}

\* Every client in a room has got, or is about to get, exactly what Redis
\* executed of the project since the client came or its server last lost its
\* subscription: nothing is left out, overtaken or repeated on the way to it, so
\* that any two clients see the updates in one order, their authors included.
\* What is pending is the end of the log, what was received comes before it.
FollowsRedis ==
  \A k \in Sockets, p \in Projects :
    Open(k) /\ p \in socket[k].rooms =>
      LET s == socket[k].server
          fromEnd(i) == Cardinality({j \in Pending(s, p) : j > i})
      IN /\ \A i \in Pending(s, p) : inbox[s][i] = log[p][Len(log[p]) - fromEnd(i)]
         /\ IsSuffix(received[k][p],
                     SubSeq(log[p], 1, Len(log[p]) - Cardinality(Pending(s, p))))

\* The updates of u among those of p that Redis executed.
Own(u, p) == {i \in DOMAIN log[p] : log[p][i].user = u}

\* Although updates may be executed again after a broken connection, once all
\* is delivered the last one of an author, always connected to one server, is
\* the newest of his that was executed: no stale content stays on top, unless
\* his server died while it was sending them again.
LastIsNewest ==
  Quiet => \A s \in Servers, p \in Projects : \A u \in Locals(s) \ stranded :
    \A last \in Own(u, p) : (\A i \in Own(u, p) : i <= last) =>
      \A i \in Own(u, p) : log[p][i].number <= log[p][last].number
=============================================================================
