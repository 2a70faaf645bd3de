------------------------------ MODULE Presence ------------------------------
(***************************************************************************)
(* Who is in a project: websocket.service.js on every server and the Redis  *)
(* channel user_presence between them (redis-pubsub.service.js).            *)
(*                                                                          *)
(* A server keeps the sets activeUsers for its own sockets only.  What      *)
(* other servers' clients learn they learn from the channel.                *)
(***************************************************************************)
EXTENDS RedisChannel

CONSTANTS
  Users, Projects,
  Sockets,     \* connections that can exist at once
  SocketUser,  \* SocketUser[k]: the user who authenticates on k
  Reach,       \* Reach[k]: the servers k may be connected to
  Members,     \* Members[p]: users with a row in project_members
  Polite,      \* users whose clients refrain from some things, see below
  Crashes,     \* whether a server process can die
  MaxChecks,   \* bound on the joins of one project a socket awaits at once
  NoProject, NoServer

VARIABLES
  socket,      \* socket[k]: a connection as its server has it
  joining,     \* joining[k][p]: access checks k is awaiting to join p
  active,      \* active[s][p]: activeUsers of server s
  view,        \* view[k][p]: users the client takes to be in p
  stranded     \* history: users a server died with before it reported them gone

rooms == <<socket, joining, active, view, stranded>>
vars == <<channel, rooms>>

(***************************************************************************)
(* The clients of a polite user                                             *)
(* - send nothing, and keep their connection, while a join is being checked;*)
(* - leave the room they are in, and no other, before they join another;    *)
(* - have one connection at a time.                                         *)
(***************************************************************************)
ASSUME WorldAssumption ==
  /\ SocketUser \in [Sockets -> Users]
  /\ Reach \in [Sockets -> SUBSET Servers]
  /\ Polite \subseteq Users
  /\ Members \in [Projects -> SUBSET Users]
  /\ NoProject \notin Projects
  /\ NoServer \notin Servers
  /\ Crashes \in BOOLEAN
  /\ MaxChecks \in Nat \ {0}

-----------------------------------------------------------------------------
NoSocket == [open |-> FALSE, server |-> NoServer, rooms |-> {}, current |-> NoProject]

Open(k) == socket[k].open
IsPolite(k) == SocketUser[k] \in Polite

\* The projects k is about to join.
Checking(k) == {p \in Projects : joining[k][p] > 0}

\* No other check than this one of p is awaited on k.
LastCheck(k, p) == Checking(k) = {p} /\ joining[k][p] = 1

\* The connections of user u to p's room, on the servers S.
InRoom(u, p, S) ==
  {k \in Sockets : /\ Open(k) /\ p \in socket[k].rooms
                   /\ SocketUser[k] = u /\ socket[k].server \in S}

\* What a client knows of a project it has not asked about, or has left.
Unknown == [known |-> FALSE, users |-> {}]

Init ==
  /\ ChannelInit
  /\ socket = [k \in Sockets |-> NoSocket]
  /\ joining = [k \in Sockets |-> [p \in Projects |-> 0]]
  /\ active = [s \in Servers |-> [p \in Projects |-> {}]]
  /\ view = [k \in Sockets |-> [p \in Projects |-> Unknown]]
  /\ stranded = {}

\* broadcastUserPresence, in the same turn of the event loop as what it reports.
Publish(s, p, u, status) ==
  Send(s, [channel |-> "presence", project |-> p, user |-> u, status |-> status])

Track(s, p, u) == active' = [active EXCEPT ![s][p] = @ \cup {u}]
Untrack(s, p, u) == active' = [active EXCEPT ![s][p] = @ \ {u}]

-----------------------------------------------------------------------------
\* Authentication has succeeded.  A name of a connection is used again when
\* nothing is left to do under it.
Connect(k, s) ==
  /\ ~Open(k) /\ Checking(k) = {} /\ s \in Reach[k]
  /\ IsPolite(k) => \A l \in Sockets : SocketUser[l] = SocketUser[k] => ~Open(l)
  /\ socket' = [socket EXCEPT ![k] = [NoSocket EXCEPT !.open = TRUE, !.server = s]]
  /\ UNCHANGED <<channel, joining, active, view, stranded>>

Patient(k) == IsPolite(k) => Checking(k) = {}

\* join_project arrives; the handler awaits verifyProjectAccess.  The same
\* project may be asked for again before that.
AskJoin(k, p) ==
  /\ Open(k) /\ Patient(k)
  /\ joining[k][p] < MaxChecks
  /\ IsPolite(k) => socket[k].rooms = {}
  /\ joining' = [joining EXCEPT ![k][p] = @ + 1]
  /\ UNCHANGED <<channel, socket, active, view, stranded>>

\* k in p's room; a socket that is gone is forgotten with its last check.
InProject(k, p) ==
  IF Open(k) THEN [socket[k] EXCEPT !.rooms = @ \cup {p}, !.current = p]
  ELSE IF LastCheck(k, p) THEN NoSocket ELSE socket[k]

\* Broken variant of JoinChecked: the answer of the check is not looked at.
JoinUnchecked(k, p) ==
  LET u == SocketUser[k]  s == socket[k].server IN
  /\ p \in Checking(k)
  /\ joining' = [joining EXCEPT ![k][p] = @ - 1]
  /\ socket' = [socket EXCEPT ![k] = InProject(k, p)]
  /\ Track(s, p, u)
  /\ Publish(s, p, u, "joined")
  /\ UNCHANGED <<executed, inbox, listening, view, stranded>>

\* The handler goes on, whether or not the socket is still connected.
JoinChecked(k, p) ==
  LET u == SocketUser[k]  s == socket[k].server IN
  /\ p \in Checking(k)
  /\ joining' = [joining EXCEPT ![k][p] = @ - 1]
  /\ IF u \in Members[p]
     THEN /\ socket' = [socket EXCEPT ![k] = InProject(k, p)]
          /\ Track(s, p, u)
          /\ Publish(s, p, u, "joined")
     ELSE /\ socket' = [socket EXCEPT ![k] = IF ~Open(k) /\ LastCheck(k, p)
                                            THEN NoSocket ELSE @]
          /\ UNCHANGED <<active, outbox, happened>>
  /\ UNCHANGED <<executed, inbox, listening, view, stranded>>

\* Broken variant of Leave: the user stays in activeUsers.
LeaveUntracked(k, p) ==
  /\ Open(k) /\ Patient(k)
  /\ IsPolite(k) => p \in socket[k].rooms
  /\ socket' = [socket EXCEPT ![k].rooms = @ \ {p}]
  /\ Publish(socket[k].server, p, SocketUser[k], "left")
  /\ view' = [view EXCEPT ![k][p] = Unknown]
  /\ UNCHANGED <<executed, inbox, listening, joining, active, stranded>>

\* Broken variant of Leave: nobody is told.
LeaveUntold(k, p) ==
  /\ Open(k) /\ Patient(k)
  /\ IsPolite(k) => p \in socket[k].rooms
  /\ socket' = [socket EXCEPT ![k].rooms = @ \ {p}]
  /\ Untrack(socket[k].server, p, SocketUser[k])
  /\ view' = [view EXCEPT ![k][p] = Unknown]
  /\ UNCHANGED <<channel, joining, stranded>>

\* leave_project: currentProject is not reset.
Leave(k, p) ==
  LET u == SocketUser[k]  s == socket[k].server IN
  /\ Open(k) /\ Patient(k)
  /\ IsPolite(k) => p \in socket[k].rooms
  /\ socket' = [socket EXCEPT ![k].rooms = @ \ {p}]
  /\ Untrack(s, p, u)
  /\ Publish(s, p, u, "left")
  /\ view' = [view EXCEPT ![k][p] = Unknown]
  /\ UNCHANGED <<executed, inbox, listening, joining, stranded>>

Closed(k) == IF Checking(k) = {} THEN NoSocket
             ELSE [NoSocket EXCEPT !.server = socket[k].server]

\* Broken variant of Disconnect: nobody is told.
DisconnectUntold(k) ==
  LET p == socket[k].current IN
  /\ Open(k) /\ Patient(k)
  /\ socket' = [socket EXCEPT ![k] = Closed(k)]
  /\ IF p = NoProject THEN UNCHANGED active
                      ELSE Untrack(socket[k].server, p, SocketUser[k])
  /\ view' = [view EXCEPT ![k] = [q \in Projects |-> Unknown]]
  /\ UNCHANGED <<channel, joining, stranded>>

\* disconnect: the socket has left its rooms; what it was in is currentProject.
Disconnect(k) ==
  LET u == SocketUser[k]  s == socket[k].server  p == socket[k].current IN
  /\ Open(k) /\ Patient(k)
  /\ socket' = [socket EXCEPT ![k] = Closed(k)]
  /\ IF p = NoProject
     THEN UNCHANGED <<active, outbox, happened>>
     ELSE Untrack(s, p, u) /\ Publish(s, p, u, "left")
  /\ view' = [view EXCEPT ![k] = [q \in Projects |-> Unknown]]
  /\ UNCHANGED <<executed, inbox, listening, joining, stranded>>

\* request_sync, answered with sync_state: the users of this server.  A client
\* that has left the room is answered as well, as its currentProject is still
\* p, but gets no events to keep that list by.
Sync(k, p) ==
  /\ Open(k) /\ Patient(k)
  /\ socket[k].current = p
  /\ view' = [view EXCEPT ![k][p] =
       IF p \in socket[k].rooms
       THEN [known |-> TRUE, users |-> active[socket[k].server][p]]
       ELSE Unknown]
  /\ UNCHANGED <<channel, socket, joining, active, stranded>>

-----------------------------------------------------------------------------
(* The channel *)

\* The clients of s in p's room.
Audience(s, p) == {k \in Sockets : Open(k) /\ socket[k].server = s /\ p \in socket[k].rooms}

\* The list of k is not kept any more, until k asks again: an event of es about
\* p has passed the server of k by.
Lists(S, es) ==
  [k \in Sockets |-> [p \in Projects |->
    IF /\ \E s \in S : k \in Audience(s, p)
       /\ \E e \in es : e.channel = "presence" /\ e.project = p
    THEN Unknown ELSE view[k][p]]]

InTransit(s) == {inbox[s][i] : i \in DOMAIN inbox[s]}

Relay(s) ==
  /\ Execute(s) \/ ExecuteUnanswered(s)
  /\ view' = Lists(Servers \ listening, {Upcoming(s)})
  /\ UNCHANGED <<socket, joining, active, stranded>>

Hear(users, e) == IF e.status = "joined" THEN users \cup {e.user} ELSE users \ {e.user}

\* handleRedisPresenceEvent: user_joined or user_left to the clients in the
\* room, which keep their list of users by it.
Deliver(s) ==
  LET e == Head(inbox[s]) IN
  /\ Handle(s)
  /\ e.channel = "presence"
  /\ view' = [k \in Sockets |->
       IF k \in Audience(s, e.project)
       THEN [view[k] EXCEPT ![e.project].users = Hear(@, e)] ELSE view[k]]
  /\ UNCHANGED <<socket, joining, active, stranded>>

Deafen(s) ==
  /\ StopListening(s)
  /\ view' = Lists({s}, InTransit(s))
  /\ UNCHANGED <<socket, joining, active, stranded>>

Reconnect(s) == (Resend(s) \/ Listen(s)) /\ UNCHANGED rooms

\* The process of s dies, as it also does when the query of an access check
\* fails: the handler of join_project does not catch that.  It starts again
\* empty.
Crash(s) ==
  LET lost == {k \in Sockets : socket[k].server = s} IN
  /\ Crashes
  /\ socket' = [k \in Sockets |-> IF k \in lost THEN NoSocket ELSE socket[k]]
  /\ joining' = [k \in Sockets |-> IF k \in lost THEN [p \in Projects |-> 0] ELSE joining[k]]
  /\ active' = [active EXCEPT ![s] = [p \in Projects |-> {}]]
  /\ Vanish(s)
  /\ view' = [k \in Sockets |->
       IF k \in lost THEN [p \in Projects |-> Unknown] ELSE view[k]]
  /\ stranded' = stranded \cup (UNION {active[s][p] : p \in Projects})
                         \cup {outbox[s][i].user : i \in DOMAIN outbox[s]}

SocketStep(k) ==
  \/ \E s \in Servers : Connect(k, s)
  \/ \E p \in Projects : AskJoin(k, p) \/ JoinChecked(k, p) \/ Leave(k, p) \/ Sync(k, p)
  \/ Disconnect(k)

Next ==
  \/ \E k \in Sockets : SocketStep(k)
  \/ \E s \in Servers : Relay(s) \/ Deliver(s) \/ Deafen(s) \/ Reconnect(s) \/ Crash(s)

Spec == Init /\ [][Next]_vars

-----------------------------------------------------------------------------
(* Properties *)

PresenceEvents ==
  [channel : {"presence"}, project : Projects, user : Users, status : {"joined", "left"}]

\* The variables have their types, and only sockets of some server await a
\* check or are in rooms, their own members' rooms (websocket.service.js).
TypeOK ==
  /\ socket \in [Sockets -> [open : BOOLEAN, server : Servers \cup {NoServer},
                             rooms : SUBSET Projects, current : Projects \cup {NoProject}]]
  /\ \A k \in Sockets : socket[k].server = NoServer => socket[k].rooms = {} /\ Checking(k) = {}
  /\ \A k \in Sockets : \A p \in socket[k].rooms : SocketUser[k] \in Members[p]
  /\ joining \in [Sockets -> [Projects -> 0..MaxChecks]]
  /\ active \in [Servers -> [Projects -> SUBSET Users]]
  /\ \A s \in Servers : /\ outbox[s] \in Seq(PresenceEvents)
                        /\ inbox[s] \in Seq(PresenceEvents)
                        /\ executed[s] \in 0..Len(outbox[s])
                        /\ s \notin listening => inbox[s] = <<>>
  /\ view \in [Sockets -> [Projects -> [known : BOOLEAN, users : SUBSET Users]]]
  /\ happened \in 0..MaxEvents
  /\ stranded \subseteq Users

\* Of polite users, activeUsers of a server has those who have a connection to
\* it in the room, no more and no fewer, whatever other users' clients do.
PresenceIsExact ==
  \A s \in Servers, p \in Projects :
    active[s][p] \cap Polite = {u \in Polite : InRoom(u, p, {s}) # {}}

\* The users who are never connected to another server than s.
Locals(s) == {u \in Users : \A k \in Sockets : SocketUser[k] = u => Reach[k] \subseteq {s}}

\* Whatever clients do: one that has asked for the users of a room, is still in
\* it and whose server missed nothing ends up, once all is delivered, with the
\* very list the server keeps of its own users, in whatever order the answer
\* and the events came, however often events were sent again.
ViewMatchesServer ==
  Quiet => \A k \in Sockets, p \in Projects :
    LET s == socket[k].server IN
    Open(k) /\ view[k][p].known =>
      view[k][p].users \cap Locals(s) = active[s][p] \cap Locals(s)

\* Nobody, of polite users, is for ever shown who is gone, although the events
\* of different servers may overtake each other and come twice; unless a server
\* died before it reported him gone, which nobody does for it
\* (websocket.service.js:272).
NobodyGoneIsSeen ==
  Quiet => \A k \in Sockets, p \in Projects :
    Open(k) /\ view[k][p].known =>
      \A u \in view[k][p].users \cap Polite : InRoom(u, p, Servers) # {} \/ u \in stranded

-----------------------------------------------------------------------------
(* What the repository says and the code does not provide *)

\* "Track active users per project" (websocket.service.js:17): whoever is in
\* activeUsers has a connection in the room.
ActiveUsersArePresent ==
  \A s \in Servers, p \in Projects :
    \A u \in active[s][p] : InRoom(u, p, {s}) # {}
=============================================================================
