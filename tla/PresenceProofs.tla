---------------------------- MODULE PresenceProofs ----------------------------
(***************************************************************************)
(* Theorems about Presence, for all users, sockets, servers, projects and   *)
(* bounds, whatever breaks: the state is well typed, and of polite users    *)
(* activeUsers is exact.  The invariant says what politeness means for a    *)
(* server: one open socket per user (OneSocket), and no check under way     *)
(* while the socket is in a room or gone (Settled), so that the room a      *)
(* socket is in is its currentProject.                                      *)
(***************************************************************************)
EXTENDS ProjectEvents, TLAPS

SocketType ==
  [open : BOOLEAN, server : Servers \cup {NoServer}, rooms : SUBSET Projects,
   current : Projects \cup {NoProject}]

ViewType == [Projects -> [known : BOOLEAN, users : SUBSET Users]]

\* What goes through the channel: events of E.
ChannelOf(E) ==
  /\ outbox \in [Servers -> Seq(E)]
  /\ inbox \in [Servers -> Seq(E)]
  /\ executed \in [Servers -> Nat]
  /\ \A s \in Servers : executed[s] <= Len(outbox[s])
  /\ \A s \in Servers : s \notin listening => inbox[s] = <<>>
  /\ listening \subseteq Servers
  /\ happened \in 0..MaxEvents

Events == PresenceEvents \cup Updates

ChannelInv == ChannelOf(Events)

\* A connection is of a server, and in rooms, only while it is open.
OnServers ==
  \A k \in Sockets :
    /\ socket[k].open \/ Checking(k) # {} => socket[k].server \in Servers
    /\ ~socket[k].open => socket[k].rooms = {}
    /\ \A p \in socket[k].rooms : SocketUser[k] \in Members[p]

RoomsInv ==
  /\ socket \in [Sockets -> SocketType]
  /\ joining \in [Sockets -> [Projects -> 0..MaxChecks]]
  /\ active \in [Servers -> [Projects -> SUBSET Users]]
  /\ OnServers

ClientsInv == view \in [Sockets -> ViewType] /\ stranded \subseteq Users

OneSocket ==
  \A k, l \in Sockets :
    IsPolite(k) /\ Open(k) /\ Open(l) /\ SocketUser[k] = SocketUser[l] => k = l

Settled ==
  \A k \in Sockets : IsPolite(k) =>
    /\ Checking(k) # {} => /\ Open(k) /\ socket[k].rooms = {}
                          /\ \E p \in Projects : LastCheck(k, p)
    /\ socket[k].rooms \subseteq {socket[k].current}

\* u is in p's room on s.
Here(u, p, s) ==
  \E k \in Sockets : /\ socket[k].open /\ p \in socket[k].rooms
                     /\ SocketUser[k] = u /\ socket[k].server = s

Exact ==
  \A s \in Servers, p \in Projects, u \in Polite : u \in active[s][p] <=> Here(u, p, s)

PoliteInv == OneSocket /\ Settled /\ Exact

IInv == ChannelInv /\ RoomsInv /\ ClientsInv /\ PoliteInv

-----------------------------------------------------------------------------
(* The channel *)

LEMMA EventTyped ==
  ASSUME NEW p \in Projects, NEW u \in Users, NEW status \in {"joined", "left"}
  PROVE  [channel |-> "presence", project |-> p, user |-> u, status |-> status]
           \in PresenceEvents \cap Events
BY DEF Events, PresenceEvents

LEMMA EventsAre ==
  ASSUME NEW e \in Events
  PROVE  /\ e.project \in Projects /\ e.user \in Users
         /\ e.channel \in {"presence", "project"}
         /\ e.channel = "presence" => e \in PresenceEvents /\ e.status \in {"joined", "left"}
         /\ e.channel = "project" => e \in Updates /\ e.number \in 0..MaxEvents
<1>1. CASE e \in PresenceEvents
  BY <1>1 DEF PresenceEvents
<1>2. CASE e \in Updates
  BY <1>2 DEF Updates
<1>3. QED  BY <1>1, <1>2 DEF Events

LEMMA SendTyped ==
  ASSUME NEW E, ChannelOf(E), NEW s \in Servers, NEW e \in E, Send(s, e),
         UNCHANGED <<executed, inbox, listening>>
  PROVE  ChannelOf(E)'
<1>1. /\ outbox' \in [Servers -> Seq(E)]
      /\ \A t \in Servers : Len(outbox[t]) <= Len(outbox'[t])
  BY DEF ChannelOf, Send
<1>2. happened' \in 0..MaxEvents
  BY OutagesAssumption DEF ChannelOf, Send, Happens
<1>3. \A t \in Servers : executed'[t] <= Len(outbox'[t])
  BY <1>1 DEF ChannelOf
<1>4. QED  BY <1>1, <1>2, <1>3 DEF ChannelOf

LEMMA UpcomingTyped ==
  ASSUME NEW E, ChannelOf(E), NEW s \in Servers, executed[s] < Len(outbox[s])
  PROVE  Upcoming(s) \in E
BY DEF ChannelOf, Upcoming

LEMMA PassedOnTyped ==
  ASSUME NEW E, ChannelOf(E), NEW e \in E, PassedOn(e)
  PROVE  /\ inbox' \in [Servers -> Seq(E)]
         /\ \A t \in Servers : t \notin listening => inbox'[t] = <<>>
BY DEF ChannelOf, PassedOn

LEMMA RelayTyped ==
  ASSUME NEW E, ChannelOf(E), NEW s \in Servers, Execute(s) \/ ExecuteUnanswered(s)
  PROVE  ChannelOf(E)'
<1>1. executed[s] < Len(outbox[s]) /\ PassedOn(Upcoming(s)) /\ listening' = listening
  BY DEF ChannelOf, Execute, ExecuteUnanswered
<1>2. /\ inbox' \in [Servers -> Seq(E)]
      /\ \A t \in Servers : t \notin listening' => inbox'[t] = <<>>
  BY <1>1, UpcomingTyped, PassedOnTyped
<1>3. happened' \in 0..MaxEvents
  BY OutagesAssumption DEF ChannelOf, Execute, ExecuteUnanswered, Happens
<1>4. CASE Execute(s)
  <2>1. /\ outbox' = [outbox EXCEPT ![s] = Tail(@)] /\ outbox[s] # <<>>
        /\ executed[s] = 0 /\ executed' = executed
    BY <1>4 DEF Execute
  <2>2. outbox' \in [Servers -> Seq(E)]
    BY <2>1 DEF ChannelOf
  <2>3. \A t \in Servers : executed'[t] <= Len(outbox'[t])
    <3> SUFFICES ASSUME NEW t \in Servers PROVE executed[t] <= Len(outbox'[t])
      BY <2>1
    <3>1. CASE t = s  BY <2>1, <2>2, <3>1
    <3>2. CASE t # s  BY <2>1, <3>2 DEF ChannelOf
    <3>3. QED  BY <3>1, <3>2
  <2>4. QED  BY <1>1, <1>2, <1>3, <2>1, <2>2, <2>3 DEF ChannelOf
<1>5. CASE ExecuteUnanswered(s)
  BY <1>1, <1>2, <1>3, <1>5 DEF ChannelOf, ExecuteUnanswered
<1>6. QED  BY <1>4, <1>5

LEMMA ChannelTyped ==
  ASSUME NEW E, ChannelOf(E), NEW s \in Servers,
         Resend(s) \/ Listen(s) \/ StopListening(s) \/ Handle(s) \/ Vanish(s)
  PROVE  ChannelOf(E)'
<1>1. CASE Resend(s)
  BY <1>1 DEF ChannelOf, Resend
<1>2. CASE Listen(s)
  BY <1>2 DEF ChannelOf, Listen
<1>3. CASE StopListening(s)
  BY <1>3, OutagesAssumption DEF ChannelOf, StopListening, Happens
<1>4. CASE Handle(s)
  BY <1>4 DEF ChannelOf, Handle
<1>5. CASE Vanish(s)
  BY <1>5, OutagesAssumption DEF ChannelOf, Vanish, Happens, AtStart
<1>6. QED  BY <1>1, <1>2, <1>3, <1>4, <1>5

-----------------------------------------------------------------------------
(* The checks under way *)

LEMMA SameChecks ==
  ASSUME joining' = joining
  PROVE  \A k \in Sockets : /\ Checking(k)' = Checking(k)
                            /\ \A p \in Projects : LastCheck(k, p)' <=> LastCheck(k, p)
BY DEF Checking, LastCheck

\* One check more of p by k.
LEMMA Asked ==
  ASSUME RoomsInv, NEW k \in Sockets, NEW p \in Projects, AskJoin(k, p)
  PROVE  /\ joining' \in [Sockets -> [Projects -> 0..MaxChecks]]
         /\ Checking(k) = {} => LastCheck(k, p)'
         /\ Checking(k)' # {}
         /\ \A l \in Sockets \ {k} :
              /\ Checking(l)' = Checking(l)
              /\ \A q \in Projects : LastCheck(l, q)' <=> LastCheck(l, q)
<1>1. /\ joining \in [Sockets -> [Projects -> 0..MaxChecks]] /\ joining[k][p] < MaxChecks
      /\ joining' = [joining EXCEPT ![k][p] = @ + 1] /\ MaxChecks \in Nat
  BY WorldAssumption DEF RoomsInv, AskJoin
<1>2. joining' \in [Sockets -> [Projects -> 0..MaxChecks]]
  <2>1. joining[k] \in [Projects -> 0..MaxChecks] /\ joining[k][p] + 1 \in 0..MaxChecks
    BY <1>1
  <2>2. QED  BY <1>1, <2>1
<1>3. /\ joining'[k][p] = joining[k][p] + 1
      /\ \A q \in Projects \ {p} : joining'[k][q] = joining[k][q]
      /\ \A l \in Sockets \ {k} : joining'[l] = joining[l]
  BY <1>1
<1>4. joining[k][p] \in Nat
  BY <1>1
<1>5. p \in Checking(k)'
  BY <1>3, <1>4 DEF Checking
<1>6. Checking(k) = {} => LastCheck(k, p)'
  <2> SUFFICES ASSUME Checking(k) = {} PROVE LastCheck(k, p)'
    OBVIOUS
  <2>1. \A q \in Projects : ~(joining[k][q] > 0)
    BY DEF Checking
  <2>2. Checking(k)' = {p} /\ joining'[k][p] = 1
    BY <1>3, <1>4, <1>5, <2>1 DEF Checking
  <2>3. QED  BY <2>2 DEF LastCheck
<1>7. \A l \in Sockets \ {k} :
        Checking(l)' = Checking(l) /\ \A q \in Projects : LastCheck(l, q)' <=> LastCheck(l, q)
  BY <1>3 DEF Checking, LastCheck
<1>8. QED  BY <1>2, <1>5, <1>6, <1>7

\* One check less of p by k.
LEMMA Answered ==
  ASSUME RoomsInv, NEW k \in Sockets, NEW p \in Projects, JoinChecked(k, p)
  PROVE  /\ joining' \in [Sockets -> [Projects -> 0..MaxChecks]]
         /\ p \in Checking(k)
         /\ LastCheck(k, p) => Checking(k)' = {}
         /\ \A l \in Sockets \ {k} :
              /\ Checking(l)' = Checking(l)
              /\ \A q \in Projects : LastCheck(l, q)' <=> LastCheck(l, q)
<1>1. /\ joining \in [Sockets -> [Projects -> 0..MaxChecks]] /\ p \in Checking(k)
      /\ joining' = [joining EXCEPT ![k][p] = @ - 1] /\ MaxChecks \in Nat
  BY WorldAssumption DEF RoomsInv, JoinChecked
<1>2. joining[k] \in [Projects -> 0..MaxChecks] /\ joining[k][p] \in 0..MaxChecks
      /\ joining[k][p] > 0
  BY <1>1 DEF Checking
<1>3. joining' \in [Sockets -> [Projects -> 0..MaxChecks]]
  <2>1. joining[k][p] - 1 \in 0..MaxChecks
    BY <1>1, <1>2
  <2>2. QED  BY <1>1, <1>2, <2>1
<1>4. /\ joining'[k][p] = joining[k][p] - 1
      /\ \A q \in Projects \ {p} : joining'[k][q] = joining[k][q]
      /\ \A l \in Sockets \ {k} : joining'[l] = joining[l]
  BY <1>1, <1>2
<1>5. LastCheck(k, p) => Checking(k)' = {}
  <2> SUFFICES ASSUME LastCheck(k, p), NEW q \in Projects PROVE ~(joining'[k][q] > 0)
    BY DEF Checking
  <2>1. CASE q = p
    BY <1>4, <2>1 DEF LastCheck
  <2>2. CASE q # p
    BY <1>4, <2>2 DEF LastCheck, Checking
  <2>3. QED  BY <2>1, <2>2
<1>6. \A l \in Sockets \ {k} :
        Checking(l)' = Checking(l) /\ \A q \in Projects : LastCheck(l, q)' <=> LastCheck(l, q)
  BY <1>4 DEF Checking, LastCheck
<1>7. QED  BY <1>1, <1>3, <1>5, <1>6

-----------------------------------------------------------------------------
(* Steps that move nobody *)

LEMMA Unmoved ==
  ASSUME IInv, ChannelInv', ClientsInv', UNCHANGED <<socket, joining, active>>
  PROVE  IInv'
<1>1. RoomsInv'
  BY SameChecks DEF IInv, RoomsInv, OnServers
<1>2. PoliteInv'
  BY SameChecks DEF IInv, PoliteInv, OneSocket, Settled, Exact, Here, Open
<1>3. QED  BY <1>1, <1>2 DEF IInv

LEMMA ListsTyped ==
  ASSUME ClientsInv, NEW S, NEW es
  PROVE  Lists(S, es) \in [Sockets -> ViewType]
<1>1. Unknown \in [known : BOOLEAN, users : SUBSET Users]
  BY DEF Unknown
<1>2. \A k \in Sockets, p \in Projects : view[k][p] \in [known : BOOLEAN, users : SUBSET Users]
  BY DEF ClientsInv, ViewType
<1>3. QED  BY <1>1, <1>2 DEF Lists, ViewType

LEMMA ChannelStepsHold ==
  ASSUME IInv, NEW s \in Servers, Relay(s) \/ Deliver(s) \/ Deafen(s) \/ Reconnect(s)
  PROVE  IInv'
<1>1. ChannelInv /\ ClientsInv
  BY DEF IInv
<1>2. ChannelInv'
  BY <1>1, RelayTyped, ChannelTyped DEF ChannelInv, Relay, Deliver, Deafen, Reconnect
<1>3. UNCHANGED <<socket, joining, active, stranded>>
  BY DEF Relay, Deliver, Deafen, Reconnect, rooms
<1>4. view' \in [Sockets -> ViewType]
  <2>1. CASE Relay(s) \/ Deafen(s)
    BY <1>1, <2>1, ListsTyped DEF Relay, Deafen
  <2>2. CASE Reconnect(s)
    BY <1>1, <2>2 DEF Reconnect, rooms, ClientsInv
  <2>3. CASE Deliver(s)
    <3> DEFINE e == Head(inbox[s])
    <3>1. e \in Events
      BY <1>1, <2>3 DEF Deliver, Handle, ChannelInv, ChannelOf
    <3>2. e.project \in Projects /\ e.user \in Users
      BY <3>1, EventsAre
    <3>3. \A users \in SUBSET Users : Hear(users, e) \in SUBSET Users
      BY <3>2 DEF Hear
    <3>4. view' = [k \in Sockets |->
            IF k \in Audience(s, e.project)
            THEN [view[k] EXCEPT ![e.project].users = Hear(@, e)] ELSE view[k]]
      BY <2>3 DEF Deliver
    <3> HIDE DEF e
    <3>5. \A k \in Sockets : [view[k] EXCEPT ![e.project].users = Hear(@, e)] \in ViewType
      <4> SUFFICES ASSUME NEW k \in Sockets
                   PROVE  [view[k] EXCEPT ![e.project].users = Hear(@, e)] \in ViewType
        OBVIOUS
      <4>1. view[k] \in ViewType
        BY <1>1 DEF ClientsInv
      <4>2. view[k][e.project] \in [known : BOOLEAN, users : SUBSET Users]
        BY <3>2, <4>1 DEF ViewType
      <4>3. [view[k][e.project] EXCEPT !.users = Hear(@, e)] \in [known : BOOLEAN, users : SUBSET Users]
        BY <3>3, <4>2
      <4>4. QED  BY <4>1, <4>3 DEF ViewType
    <3>6. QED  BY <1>1, <3>4, <3>5 DEF ClientsInv
  <2>4. QED  BY <2>1, <2>2, <2>3
<1>5. QED  BY <1>1, <1>2, <1>3, <1>4, Unmoved DEF ClientsInv

LEMMA SyncHolds ==
  ASSUME IInv, NEW k \in Sockets, NEW p \in Projects, Sync(k, p)
  PROVE  IInv'
<1>1. ChannelInv'
  BY DEF IInv, Sync, channel, ChannelInv, ChannelOf
<1>2. socket[k].server \in Servers
  BY DEF IInv, RoomsInv, OnServers, Sync, Open
<1> DEFINE answer == IF p \in socket[k].rooms
                     THEN [known |-> TRUE, users |-> active[socket[k].server][p]]
                     ELSE Unknown
<1>3. answer \in [known : BOOLEAN, users : SUBSET Users]
  BY <1>2 DEF IInv, RoomsInv, Unknown
<1>4. view' \in [Sockets -> ViewType]
  <2>1. view' = [view EXCEPT ![k][p] = answer]
    BY DEF Sync
  <2> HIDE DEF answer
  <2>2. QED  BY <1>3, <2>1 DEF IInv, ClientsInv, ViewType
<1>5. QED  BY <1>1, <1>4, Unmoved DEF IInv, ClientsInv, Sync

-----------------------------------------------------------------------------
(* Steps of sockets *)

LEMMA ConnectHolds ==
  ASSUME IInv, NEW k \in Sockets, NEW s \in Servers, Connect(k, s)
  PROVE  IInv'
<1> DEFINE new == [NoSocket EXCEPT !.open = TRUE, !.server = s]
<1>1. /\ new.open /\ new.server = s /\ new.rooms = {} /\ new \in SocketType
  BY DEF NoSocket, SocketType
<1> HIDE DEF new
<1>2. /\ socket' = [socket EXCEPT ![k] = new] /\ ~socket[k].open /\ Checking(k) = {}
      /\ UNCHANGED <<channel, joining, active, view, stranded>>
  BY DEF Connect, new, Open
<1>3. ChannelInv' /\ ClientsInv'
  BY <1>2 DEF IInv, ChannelInv, ChannelOf, ClientsInv, channel
<1>4. socket \in [Sockets -> SocketType] /\ RoomsInv /\ PoliteInv
  BY DEF IInv, RoomsInv
<1>5. socket'[k] = new /\ \A l \in Sockets \ {k} : socket'[l] = socket[l]
  BY <1>2, <1>4
<1>6. RoomsInv'
  BY <1>1, <1>2, <1>4, <1>5, SameChecks DEF RoomsInv, OnServers
<1>7. OneSocket'
  <2>1. IsPolite(k) => \A l \in Sockets : SocketUser[l] = SocketUser[k] => ~socket[l].open
    BY DEF Connect, Open
  <2>2. QED  BY <1>4, <1>5, <2>1 DEF PoliteInv, OneSocket, IsPolite, Open
<1>8. Settled'
  BY <1>1, <1>2, <1>4, <1>5, SameChecks DEF PoliteInv, Settled, IsPolite, Open
<1>9. Exact'
  BY <1>1, <1>2, <1>4, <1>5 DEF PoliteInv, Exact, Here
<1>10. QED  BY <1>3, <1>6, <1>7, <1>8, <1>9 DEF IInv, PoliteInv

LEMMA AskJoinHolds ==
  ASSUME IInv, NEW k \in Sockets, NEW p \in Projects, AskJoin(k, p)
  PROVE  IInv'
<1>1. /\ socket[k].open
      /\ IsPolite(k) => Checking(k) = {} /\ socket[k].rooms = {}
      /\ UNCHANGED <<channel, socket, active, view, stranded>>
  BY DEF AskJoin, Open, Patient
<1>2. ChannelInv' /\ ClientsInv'
  BY <1>1 DEF IInv, ChannelInv, ChannelOf, ClientsInv, channel
<1>3. RoomsInv /\ PoliteInv
  BY DEF IInv
<1>4. RoomsInv'
  BY <1>1, <1>3, Asked DEF RoomsInv, OnServers
<1>5. Settled'
  BY <1>1, <1>3, Asked DEF PoliteInv, Settled, IsPolite, Open
<1>6. PoliteInv'
  BY <1>1, <1>3, <1>5 DEF PoliteInv, OneSocket, Exact, Here, Open
<1>7. QED  BY <1>2, <1>4, <1>6 DEF IInv

\* Of a polite user no other socket is in any room.
LEMMA OnlyHere ==
  ASSUME IInv, NEW k \in Sockets, IsPolite(k), Open(k), NEW p, NEW s
  PROVE  Here(SocketUser[k], p, s) <=> p \in socket[k].rooms /\ socket[k].server = s
BY DEF IInv, PoliteInv, OneSocket, Here, Open

LEMMA JoinHolds ==
  ASSUME IInv, NEW k \in Sockets, NEW p \in Projects, JoinChecked(k, p)
  PROVE  IInv'
<1> DEFINE u == SocketUser[k]
           s == socket[k].server
<1>1. p \in Checking(k) /\ UNCHANGED <<executed, inbox, listening, view, stranded>>
  BY DEF JoinChecked
<1>2. RoomsInv /\ PoliteInv /\ ChannelInv /\ ClientsInv
  BY DEF IInv
<1>3. s \in Servers /\ u \in Users
  BY <1>1, <1>2, WorldAssumption DEF RoomsInv, OnServers
<1>4. /\ joining' \in [Sockets -> [Projects -> 0..MaxChecks]]
      /\ LastCheck(k, p) => Checking(k)' = {}
      /\ \A l \in Sockets \ {k} :
           Checking(l)' = Checking(l) /\ \A q \in Projects : LastCheck(l, q)' <=> LastCheck(l, q)
  BY <1>2, Answered
<1>5. NoSocket \in SocketType /\ ~NoSocket.open /\ NoSocket.rooms = {}
  BY DEF NoSocket, SocketType
<1>6. ClientsInv'
  BY <1>1, <1>2 DEF ClientsInv
<1>7. CASE u \in Members[p]
  <2> DEFINE joined == InProject(k, p)
  <2>1. socket' = [socket EXCEPT ![k] = joined] /\ Track(s, p, u) /\ Publish(s, p, u, "joined")
    BY <1>7 DEF JoinChecked
  <2>2. ChannelInv'
    BY <1>1, <1>2, <1>3, <2>1, EventTyped, SendTyped DEF ChannelInv, Publish
  <2>3. /\ joined \in SocketType
        /\ socket[k].open => /\ joined.open /\ joined.server = s
                             /\ joined.rooms = socket[k].rooms \cup {p} /\ joined.current = p
        /\ ~socket[k].open => /\ ~joined.open /\ joined.rooms = {}
                              /\ ~LastCheck(k, p) => joined.server = s
    BY <1>2, <1>5 DEF InProject, RoomsInv, OnServers, SocketType, Open
  <2> HIDE DEF joined
  <2>4. socket'[k] = joined /\ \A l \in Sockets \ {k} : socket'[l] = socket[l]
    BY <1>2, <2>1 DEF RoomsInv
  <2>5. /\ active' \in [Servers -> [Projects -> SUBSET Users]]
        /\ \A t \in Servers, q \in Projects :
             active'[t][q] = IF t = s /\ q = p THEN active[t][q] \cup {u} ELSE active[t][q]
    BY <1>2, <1>3, <2>1 DEF Track, RoomsInv
  <2>6. RoomsInv'
    <3>1. socket' \in [Sockets -> SocketType]
      BY <1>2, <2>1, <2>3 DEF RoomsInv
    <3>2. OnServers'
      BY <1>2, <1>3, <1>4, <1>7, <2>3, <2>4 DEF RoomsInv, OnServers
    <3>3. QED  BY <1>4, <2>5, <3>1, <3>2 DEF RoomsInv
  <2>7. OneSocket'
    BY <1>2, <2>3, <2>4 DEF PoliteInv, OneSocket, Open
  <2>8. IsPolite(k) => /\ socket[k].open /\ socket[k].rooms = {}
                       /\ LastCheck(k, p)
    BY <1>1, <1>2 DEF PoliteInv, Settled, Open, LastCheck
  <2>9. Settled'
    BY <1>2, <1>4, <2>3, <2>4, <2>8 DEF PoliteInv, Settled, IsPolite, Open
  <2>10. Exact'
    <3> SUFFICES ASSUME NEW t \in Servers, NEW q \in Projects, NEW v \in Polite
                 PROVE  v \in active'[t][q] <=> Here(v, q, t)'
      BY DEF Exact
    <3>1. v \in active[t][q] <=> Here(v, q, t)
      BY <1>2 DEF PoliteInv, Exact
    <3>2. CASE v # u
      <4>1. Here(v, q, t)' <=> Here(v, q, t)
        BY <2>4, <3>2 DEF Here
      <4>2. v \in active'[t][q] <=> v \in active[t][q]
        <5>1. active'[t][q] = active[t][q] \/ active'[t][q] = active[t][q] \cup {u}
          BY <2>5
        <5>2. QED  BY <3>2, <5>1
      <4>3. QED  BY <3>1, <4>1, <4>2
    <3>3. CASE v = u
      <4>1. IsPolite(k) /\ socket[k].open /\ socket[k].rooms = {}
        BY <2>8, <3>3 DEF IsPolite
      <4>2. ~Here(u, q, t)
        BY <4>1, OnlyHere DEF Open
      <4>3. Here(u, q, t)' <=> q = p /\ t = s
        <5>1. \A l \in Sockets \ {k} : ~(socket'[l].open /\ SocketUser[l] = u)
          BY <1>2, <2>4, <4>1 DEF PoliteInv, OneSocket, Open
        <5>2. QED  BY <2>3, <2>4, <4>1, <5>1 DEF Here
      <4>4. v \in active'[t][q] <=> v \in active[t][q] \/ (q = p /\ t = s)
        BY <2>5, <3>3
      <4>5. QED  BY <3>1, <3>3, <4>2, <4>3, <4>4
    <3>4. QED  BY <3>2, <3>3
  <2>11. QED  BY <1>6, <2>2, <2>6, <2>7, <2>9, <2>10 DEF IInv, PoliteInv
<1>8. CASE u \notin Members[p]
  <2> DEFINE r == IF ~Open(k) /\ LastCheck(k, p) THEN NoSocket ELSE socket[k]
  <2>1. socket' = [socket EXCEPT ![k] = r] /\ UNCHANGED <<active, outbox, happened>>
    BY <1>2, <1>8 DEF JoinChecked, RoomsInv
  <2>2. ChannelInv'
    BY <1>1, <1>2, <2>1 DEF ChannelInv, ChannelOf
  <2>3. /\ r \in SocketType /\ r.open = socket[k].open /\ r.rooms = socket[k].rooms
        /\ socket[k].open \/ ~LastCheck(k, p) => r = socket[k]
    BY <1>2, <1>5 DEF RoomsInv, OnServers, Open, SocketType
  <2> HIDE DEF r
  <2>4. socket'[k] = r /\ \A l \in Sockets \ {k} : socket'[l] = socket[l]
    BY <1>2, <2>1 DEF RoomsInv
  <2>5. RoomsInv'
    <3>1. socket' \in [Sockets -> SocketType]
      BY <1>2, <2>1, <2>3 DEF RoomsInv
    <3>2. OnServers'
      BY <1>2, <1>3, <1>4, <2>3, <2>4 DEF RoomsInv, OnServers
    <3>3. QED  BY <1>2, <1>4, <2>1, <3>1, <3>2 DEF RoomsInv
  <2>6. OneSocket'
    BY <1>2, <2>3, <2>4 DEF PoliteInv, OneSocket, Open
  <2>7. IsPolite(k) => socket[k].open /\ LastCheck(k, p)
    BY <1>1, <1>2 DEF PoliteInv, Settled, Open, LastCheck
  <2>8. Settled'
    BY <1>2, <1>4, <2>3, <2>4, <2>7 DEF PoliteInv, Settled, IsPolite, Open
  <2>9. Exact'
    <3>1. \A v, q, t : Here(v, q, t)' <=> Here(v, q, t)
      BY <1>2, <2>3, <2>4 DEF Here, RoomsInv, OnServers
    <3>2. QED  BY <1>2, <2>1, <3>1 DEF PoliteInv, Exact
  <2>10. QED  BY <1>6, <2>2, <2>5, <2>6, <2>8, <2>9 DEF IInv, PoliteInv
<1>9. QED  BY <1>7, <1>8

\* A socket k becomes r, out of rooms, ...
GoesOut(k, r) ==
  /\ r \in SocketType /\ socket' = [socket EXCEPT ![k] = r]
  /\ Open(k) /\ joining' = joining /\ (IsPolite(k) => Checking(k) = {})
  /\ r.rooms \subseteq socket[k].rooms
  /\ r.open => r.server = socket[k].server /\ r.current = socket[k].current
  /\ ~r.open => r.rooms = {} /\ (Checking(k) # {} => r.server = socket[k].server)

\* ... and its user, if he is polite, out of those of activeUsers it was in.
TakenOut(k, r) ==
  /\ active' \in [Servers -> [Projects -> SUBSET Users]]
  /\ \A s \in Servers, p \in Projects, u \in Polite :
       u \in active'[s][p] <=> /\ u \in active[s][p]
                               /\ ~(/\ SocketUser[k] = u /\ socket[k].server = s
                                    /\ p \in socket[k].rooms \ r.rooms)

LEMMA GoneOut ==
  ASSUME IInv, NEW k \in Sockets, NEW r \in SocketType, GoesOut(k, r), TakenOut(k, r)
  PROVE  RoomsInv' /\ PoliteInv'
<1> USE DEF GoesOut, TakenOut
<1>1. RoomsInv /\ PoliteInv
  BY DEF IInv
<1>2. socket'[k] = r /\ \A l \in Sockets \ {k} : socket'[l] = socket[l]
  BY <1>1 DEF RoomsInv
<1>3. RoomsInv'
  <2>1. socket' \in [Sockets -> SocketType] /\ joining' = joining
    BY <1>1 DEF RoomsInv
  <2>2. OnServers'
    BY <1>1, <1>2, SameChecks DEF RoomsInv, OnServers, Open
  <2>3. QED  BY <1>1, <2>1, <2>2 DEF RoomsInv
<1>4. OneSocket'
  BY <1>1, <1>2 DEF PoliteInv, OneSocket, Open
<1>5. Settled'
  BY <1>1, <1>2, SameChecks DEF PoliteInv, Settled, IsPolite, Open
<1>6. Exact'
  <2> SUFFICES ASSUME NEW s \in Servers, NEW p \in Projects, NEW u \in Polite
               PROVE  u \in active'[s][p] <=> Here(u, p, s)'
    BY DEF Exact
  <2>1. u \in active[s][p] <=> Here(u, p, s)
    BY <1>1 DEF PoliteInv, Exact
  <2>2. CASE u # SocketUser[k]
    <3>1. Here(u, p, s)' <=> Here(u, p, s)
      BY <1>2, <2>2 DEF Here
    <3>2. QED  BY <2>1, <2>2, <3>1
  <2>3. CASE u = SocketUser[k]
    <3>1. IsPolite(k)
      BY <2>3 DEF IsPolite
    <3>2. Here(u, p, s) <=> p \in socket[k].rooms /\ socket[k].server = s
      BY <1>1, <2>3, <3>1 DEF PoliteInv, OneSocket, Here, Open
    <3>3. Here(u, p, s)' <=> p \in r.rooms /\ socket[k].server = s
      <4>1. \A l \in Sockets \ {k} : ~(socket'[l].open /\ SocketUser[l] = u)
        BY <1>1, <1>2, <2>3, <3>1 DEF PoliteInv, OneSocket, Open
      <4>2. QED  BY <1>2, <2>3, <4>1 DEF Here
    <3>4. QED  BY <2>1, <2>3, <3>2, <3>3
  <2>4. QED  BY <2>2, <2>3
<1>7. QED  BY <1>3, <1>4, <1>5, <1>6 DEF PoliteInv

LEMMA Forgotten ==
  ASSUME ClientsInv, NEW k \in Sockets, NEW p
  PROVE  /\ [view EXCEPT ![k][p] = Unknown] \in [Sockets -> ViewType]
         /\ [view EXCEPT ![k] = [q \in Projects |-> Unknown]] \in [Sockets -> ViewType]
<1>1. Unknown \in [known : BOOLEAN, users : SUBSET Users]
  BY DEF Unknown
<1>2. view[k] \in ViewType
  BY DEF ClientsInv
<1>3. [view[k] EXCEPT ![p] = Unknown] \in ViewType /\ [q \in Projects |-> Unknown] \in ViewType
  BY <1>1, <1>2 DEF ViewType
<1>4. QED  BY <1>3 DEF ClientsInv

LEMMA LeaveHolds ==
  ASSUME IInv, NEW k \in Sockets, NEW p \in Projects, Leave(k, p)
  PROVE  IInv'
<1> DEFINE u == SocketUser[k]
           s == socket[k].server
           r == [socket[k] EXCEPT !.rooms = @ \ {p}]
<1>1. RoomsInv /\ PoliteInv /\ ChannelInv /\ ClientsInv /\ Open(k)
  BY DEF IInv, Leave
<1>2. s \in Servers /\ u \in Users
  BY <1>1, WorldAssumption DEF RoomsInv, OnServers, Open
<1>3. /\ IsPolite(k) => Checking(k) = {} /\ p \in socket[k].rooms
      /\ Untrack(s, p, u) /\ Publish(s, p, u, "left")
      /\ view' = [view EXCEPT ![k][p] = Unknown]
      /\ UNCHANGED <<executed, inbox, listening, joining, stranded>>
  BY DEF Leave, Patient
<1>4. /\ r \in SocketType /\ r.open /\ r.server = s /\ r.current = socket[k].current
      /\ r.rooms = socket[k].rooms \ {p}
  BY <1>1 DEF RoomsInv, SocketType, Open
<1>5. socket' = [socket EXCEPT ![k] = r]
  BY <1>1 DEF Leave, RoomsInv
<1> HIDE DEF r
<1>6. ChannelInv'
  BY <1>1, <1>2, <1>3, EventTyped, SendTyped DEF ChannelInv, Publish
<1>7. ClientsInv'
  BY <1>1, <1>3, Forgotten DEF ClientsInv
<1>8. /\ active' \in [Servers -> [Projects -> SUBSET Users]]
      /\ \A t \in Servers, q \in Projects :
           active'[t][q] = IF t = s /\ q = p THEN active[t][q] \ {u} ELSE active[t][q]
  BY <1>1, <1>2, <1>3 DEF Untrack, RoomsInv
<1>9. \A t \in Servers, q \in Projects, v \in Polite :
        v \in active'[t][q] <=> /\ v \in active[t][q]
                                /\ ~(u = v /\ s = t /\ q \in socket[k].rooms \ r.rooms)
  <2> SUFFICES ASSUME NEW t \in Servers, NEW q \in Projects, NEW v \in Polite
               PROVE  v \in active'[t][q] <=>
                        /\ v \in active[t][q]
                        /\ ~(u = v /\ s = t /\ q \in socket[k].rooms \ r.rooms)
    OBVIOUS
  <2>1. u = v => p \in socket[k].rooms
    BY <1>3 DEF IsPolite
  <2>2. q \in socket[k].rooms \ r.rooms <=> q = p /\ p \in socket[k].rooms
    BY <1>4
  <2>3. active'[t][q] = IF t = s /\ q = p THEN active[t][q] \ {u} ELSE active[t][q]
    BY <1>8
  <2>4. QED  BY <2>1, <2>2, <2>3
<1>10. RoomsInv' /\ PoliteInv'
  <2>1. GoesOut(k, r)
    BY <1>1, <1>3, <1>4, <1>5 DEF GoesOut
  <2>2. TakenOut(k, r)
    BY <1>8, <1>9 DEF TakenOut
  <2>3. QED  BY <1>4, <2>1, <2>2, GoneOut
<1>11. QED  BY <1>6, <1>7, <1>10 DEF IInv

LEMMA DisconnectHolds ==
  ASSUME IInv, NEW k \in Sockets, Disconnect(k)
  PROVE  IInv'
<1> DEFINE u == SocketUser[k]
           s == socket[k].server
           p == socket[k].current
           r == Closed(k)
<1>1. RoomsInv /\ PoliteInv /\ ChannelInv /\ ClientsInv /\ Open(k)
  BY DEF IInv, Disconnect
<1>2. s \in Servers /\ u \in Users /\ p \in Projects \cup {NoProject}
      /\ socket[k].rooms \subseteq Projects
  BY <1>1, WorldAssumption DEF RoomsInv, OnServers, Open, SocketType
<1>3. /\ IsPolite(k) => Checking(k) = {}
      /\ socket' = [socket EXCEPT ![k] = r]
      /\ view' = [view EXCEPT ![k] = [q \in Projects |-> Unknown]]
      /\ UNCHANGED <<executed, inbox, listening, joining, stranded>>
      /\ \/ p = NoProject /\ UNCHANGED <<active, outbox, happened>>
         \/ p # NoProject /\ Untrack(s, p, u) /\ Publish(s, p, u, "left")
  BY DEF Disconnect, Patient
<1>4. /\ r \in SocketType /\ ~r.open /\ r.rooms = {}
      /\ Checking(k) # {} => r.server = s
  BY <1>2 DEF Closed, NoSocket, SocketType
<1> HIDE DEF r
<1>5. ClientsInv' /\ GoesOut(k, r)
  BY <1>1, <1>3, <1>4, Forgotten DEF ClientsInv, GoesOut
<1>6. IsPolite(k) => \A q \in Projects : /\ u \in active[s][q] <=> q \in socket[k].rooms
                                         /\ q \in socket[k].rooms => q = p
  <2> SUFFICES ASSUME IsPolite(k), NEW q \in Projects
               PROVE  /\ u \in active[s][q] <=> q \in socket[k].rooms
                      /\ q \in socket[k].rooms => q = p
    OBVIOUS
  <2>1. Here(u, q, s) <=> q \in socket[k].rooms
    BY <1>1, OnlyHere
  <2>2. u \in active[s][q] <=> Here(u, q, s)
    BY <1>1, <1>2 DEF PoliteInv, Exact, IsPolite
  <2>3. q \in socket[k].rooms => q = p
    BY <1>1 DEF PoliteInv, Settled
  <2>4. QED  BY <2>1, <2>2, <2>3
<1>7. CASE p = NoProject /\ UNCHANGED <<active, outbox, happened>>
  <2>1. ChannelInv'
    BY <1>1, <1>3, <1>7 DEF ChannelInv, ChannelOf
  <2>2. IsPolite(k) => socket[k].rooms = {}
    BY <1>2, <1>6, <1>7, WorldAssumption
  <2>3. \A t \in Servers, q \in Projects, v \in Polite :
          v \in active'[t][q] <=> /\ v \in active[t][q]
                                  /\ ~(u = v /\ s = t /\ q \in socket[k].rooms \ r.rooms)
    BY <1>7, <2>2 DEF IsPolite
  <2>4. active' \in [Servers -> [Projects -> SUBSET Users]]
    BY <1>1, <1>7 DEF RoomsInv
  <2>5. TakenOut(k, r)
    BY <2>3, <2>4 DEF TakenOut
  <2>6. QED  BY <1>4, <1>5, <2>1, <2>5, GoneOut DEF IInv
<1>8. CASE p # NoProject /\ Untrack(s, p, u) /\ Publish(s, p, u, "left")
  <2>1. ChannelInv'
    BY <1>1, <1>2, <1>3, <1>8, EventTyped, SendTyped DEF ChannelInv, Publish
  <2>2. /\ active' \in [Servers -> [Projects -> SUBSET Users]]
        /\ \A t \in Servers, q \in Projects :
             active'[t][q] = IF t = s /\ q = p THEN active[t][q] \ {u} ELSE active[t][q]
    BY <1>1, <1>2, <1>8 DEF Untrack, RoomsInv
  <2>3. \A t \in Servers, q \in Projects, v \in Polite :
          v \in active'[t][q] <=> /\ v \in active[t][q]
                                  /\ ~(u = v /\ s = t /\ q \in socket[k].rooms \ r.rooms)
    <3> SUFFICES ASSUME NEW t \in Servers, NEW q \in Projects, NEW v \in Polite
                 PROVE  v \in active'[t][q] <=>
                          /\ v \in active[t][q]
                          /\ ~(u = v /\ s = t /\ q \in socket[k].rooms \ r.rooms)
      OBVIOUS
    <3>1. u = v => /\ u \in active[s][q] <=> q \in socket[k].rooms
                   /\ q \in socket[k].rooms => q = p
      BY <1>6 DEF IsPolite
    <3>2. q \in socket[k].rooms \ r.rooms <=> q \in socket[k].rooms
      BY <1>4
    <3>3. active'[t][q] = IF t = s /\ q = p THEN active[t][q] \ {u} ELSE active[t][q]
      BY <2>2
    <3>4. QED  BY <3>1, <3>2, <3>3
  <2>4. TakenOut(k, r)
    BY <2>2, <2>3 DEF TakenOut
  <2>5. QED  BY <1>4, <1>5, <2>1, <2>4, GoneOut DEF IInv
<1>9. QED  BY <1>3, <1>7, <1>8

LEMMA CrashHolds ==
  ASSUME IInv, NEW s \in Servers, Crash(s)
  PROVE  IInv'
<1>1. RoomsInv /\ PoliteInv /\ ChannelInv /\ ClientsInv
  BY DEF IInv
<1>2. /\ socket' = [k \in Sockets |-> IF socket[k].server = s THEN NoSocket ELSE socket[k]]
      /\ joining' = [k \in Sockets |-> IF socket[k].server = s THEN [p \in Projects |-> 0]
                                     ELSE joining[k]]
      /\ active' = [active EXCEPT ![s] = [p \in Projects |-> {}]]
      /\ view' = [k \in Sockets |->
           IF socket[k].server = s THEN [p \in Projects |-> Unknown] ELSE view[k]]
  BY DEF Crash
<1>3. ChannelInv'
  BY <1>1, ChannelTyped DEF ChannelInv, Crash
<1>4. ClientsInv'
  <2>1. view' \in [Sockets -> ViewType]
    BY <1>1, <1>2 DEF ClientsInv, ViewType, Unknown
  <2>2. \A i \in DOMAIN outbox[s] : outbox[s][i].user \in Users
    <3>1. outbox[s] \in Seq(Events)
      BY <1>1 DEF ChannelInv, ChannelOf
    <3>2. \A e \in Events : e.user \in Users
      BY EventsAre
    <3>3. QED  BY <3>1, <3>2
  <2>3. UNION {active[s][p] : p \in Projects} \subseteq Users
    <3>1. active[s] \in [Projects -> SUBSET Users]
      BY <1>1 DEF RoomsInv
    <3>2. QED  BY <3>1
  <2>4. stranded' \subseteq Users
    BY <1>1, <2>2, <2>3 DEF Crash, ClientsInv
  <2>5. QED  BY <2>1, <2>4 DEF ClientsInv
<1>5. NoSocket \in SocketType /\ ~NoSocket.open /\ NoSocket.rooms = {}
  BY DEF NoSocket, SocketType
<1>6. \A k \in Sockets :
        IF socket[k].server = s THEN Checking(k)' = {}
        ELSE Checking(k)' = Checking(k) /\ \A p \in Projects : LastCheck(k, p)' <=> LastCheck(k, p)
  BY <1>2 DEF Checking, LastCheck
<1>7. RoomsInv'
  <2>1. joining' \in [Sockets -> [Projects -> 0..MaxChecks]]
    BY <1>1, <1>2, WorldAssumption DEF RoomsInv
  <2>2. QED  BY <1>1, <1>2, <1>5, <1>6, <2>1 DEF RoomsInv, OnServers
<1>8. OneSocket' /\ Settled'
  BY <1>1, <1>2, <1>5, <1>6 DEF PoliteInv, OneSocket, Settled, IsPolite, Open
<1>9. Exact'
  <2> SUFFICES ASSUME NEW t \in Servers, NEW p \in Projects, NEW u \in Polite
               PROVE  u \in active'[t][p] <=> Here(u, p, t)'
    BY DEF Exact
  <2>1. CASE t = s
    <3>1. active'[t][p] = {}
      BY <1>1, <1>2, <2>1 DEF RoomsInv
    <3>2. ~Here(u, p, t)'
      BY <1>2, <1>5, <2>1 DEF Here
    <3>3. QED  BY <3>1, <3>2
  <2>2. CASE t # s
    <3>1. active'[t][p] = active[t][p]
      BY <1>1, <1>2, <2>2 DEF RoomsInv
    <3>2. Here(u, p, t)' <=> Here(u, p, t)
      BY <1>2, <1>5, <2>2 DEF Here
    <3>3. QED  BY <1>1, <3>1, <3>2 DEF PoliteInv, Exact
  <2>3. QED  BY <2>1, <2>2
<1>10. QED  BY <1>3, <1>4, <1>7, <1>8, <1>9 DEF IInv, PoliteInv

-----------------------------------------------------------------------------
(* Updates go through the same channel: a socket posts one, a server hands  *)
(* one to its clients.                                                      *)

Posts(k, p) == /\ Open(k) /\ socket[k].current = p /\ Broadcast(k, p)
               /\ UNCHANGED <<executed, inbox, listening, rooms>>

Hands(s) == Handle(s) /\ Head(inbox[s]).channel = "project" /\ UNCHANGED rooms

Move == \/ Next
        \/ \E k \in Sockets, p \in Projects : Posts(k, p)
        \/ \E s \in Servers : Hands(s)

LEMMA UpdateTyped ==
  ASSUME IInv, NEW k \in Sockets, NEW p \in Projects, happened < MaxEvents
  PROVE  [channel |-> "project", project |-> p, user |-> SocketUser[k], number |-> happened]
           \in Updates \cap Events
BY WorldAssumption, OutagesAssumption DEF IInv, ChannelInv, ChannelOf, Events, Updates

LEMMA UpdateHolds ==
  ASSUME IInv,
         \/ \E k \in Sockets, p \in Projects : Posts(k, p)
         \/ \E s \in Servers : Hands(s)
  PROVE  IInv'
<1>1. ChannelInv' /\ UNCHANGED rooms
  <2>1. ASSUME NEW k \in Sockets, NEW p \in Projects, Posts(k, p)
        PROVE  ChannelInv' /\ UNCHANGED rooms
    <3>1. socket[k].server \in Servers /\ happened < MaxEvents
      BY <2>1 DEF IInv, RoomsInv, OnServers, Posts, Open, Broadcast, Send, Happens
    <3>2. QED
      BY <2>1, <3>1, UpdateTyped, SendTyped DEF IInv, ChannelInv, Posts, Broadcast
  <2>2. ASSUME NEW s \in Servers, Hands(s) PROVE ChannelInv' /\ UNCHANGED rooms
    BY <2>2, ChannelTyped DEF IInv, ChannelInv, Hands
  <2>3. QED  BY <2>1, <2>2
<1>2. ClientsInv'
  BY <1>1 DEF IInv, ClientsInv, rooms
<1>3. QED  BY <1>1, <1>2, Unmoved DEF rooms

-----------------------------------------------------------------------------
(* Theorems *)

LEMMA InitHolds == Init => IInv
<1> SUFFICES ASSUME Init PROVE IInv
  OBVIOUS
<1>1. ChannelInv
  BY OutagesAssumption DEF Init, ChannelInit, ChannelInv, ChannelOf, AtStart
<1>2. NoSocket \in SocketType /\ ~NoSocket.open /\ NoSocket.rooms = {}
  BY DEF NoSocket, SocketType
<1>3. RoomsInv /\ PoliteInv
  <2>1. \A k \in Sockets : Checking(k) = {}
    BY DEF Init, Checking
  <2>2. QED
    BY <1>2, <2>1, WorldAssumption
       DEF Init, RoomsInv, OnServers, PoliteInv, OneSocket, Settled, Exact, Here, Open
<1>4. ClientsInv
  BY DEF Init, ClientsInv, ViewType, Unknown
<1>5. QED  BY <1>1, <1>3, <1>4 DEF IInv

LEMMA StepHolds == IInv /\ [Move]_vars => IInv'
<1> SUFFICES ASSUME IInv, [Move]_vars PROVE IInv'
  OBVIOUS
<1>1. CASE UNCHANGED vars
  <2>1. ChannelInv' /\ ClientsInv' /\ UNCHANGED <<socket, joining, active>>
    BY <1>1 DEF IInv, vars, channel, rooms, ChannelInv, ChannelOf, ClientsInv
  <2>2. QED  BY <2>1, Unmoved
<1>2. ASSUME NEW k \in Sockets, SocketStep(k) PROVE IInv'
  BY <1>2, ConnectHolds, AskJoinHolds, JoinHolds, LeaveHolds, SyncHolds, DisconnectHolds
     DEF SocketStep
<1>3. CASE Next
  BY <1>2, <1>3, ChannelStepsHold, CrashHolds DEF Next
<1>4. QED  BY <1>1, <1>3, UpdateHolds DEF Move

\* Both specifications take these steps only.
LEMMA Steps == /\ [Next]_vars => [Move]_vars
               /\ [EventsNext]_eventVars => [Move]_vars
<1>1. [Next]_vars => [Move]_vars
  BY DEF Move
<1>2. ASSUME NEW k \in Sockets, ClientStep(k) PROVE Move
  BY <1>2 DEF ClientStep, Move, Next, SocketStep, Posts, SendUpdate, rooms
<1>3. ASSUME NEW s \in Servers, ServerStep(s) PROVE Move
  BY <1>3 DEF ServerStep, RelayAny, DeafenAll, CrashAll, DeliverUpdate, Move, Next, Hands
<1>4. UNCHANGED eventVars => UNCHANGED vars
  BY DEF eventVars, vars
<1>5. QED  BY <1>1, <1>2, <1>3, <1>4 DEF EventsNext

LEMMA Invariant == Spec => []IInv
BY InitHolds, StepHolds, Steps, PTL DEF Spec

LEMMA EventsInvariant == EventsSpec => []IInv
BY InitHolds, StepHolds, Steps, PTL DEF EventsSpec, EventsInit

LEMMA OnlyPresence == Spec => []ChannelOf(PresenceEvents)
<1>1. Init => ChannelOf(PresenceEvents)
  BY OutagesAssumption DEF Init, ChannelInit, ChannelOf, AtStart
<1>2. IInv /\ ChannelOf(PresenceEvents) /\ [Next]_vars => ChannelOf(PresenceEvents)'
  <2> SUFFICES ASSUME IInv, ChannelOf(PresenceEvents), [Next]_vars
               PROVE  ChannelOf(PresenceEvents)'
    OBVIOUS
  <2>1. CASE UNCHANGED channel
    BY <2>1 DEF ChannelOf, channel
  <2>2. ASSUME NEW k \in Sockets, SocketStep(k), ~UNCHANGED channel
        PROVE  /\ UNCHANGED <<executed, inbox, listening>>
               /\ \E e \in PresenceEvents, s \in Servers : Send(s, e)
    <3> DEFINE e(p, st) == [channel |-> "presence", project |-> p,
                            user |-> SocketUser[k], status |-> st]
    <3>1. SocketUser[k] \in Users
      BY WorldAssumption
    <3>2. \A p \in Projects : e(p, "joined") \in PresenceEvents /\ e(p, "left") \in PresenceEvents
      BY <3>1, EventTyped
    <3>3. Open(k) \/ Checking(k) # {} => socket[k].server \in Servers
      BY DEF IInv, RoomsInv, OnServers, Open
    <3>4. socket[k].current \in Projects \cup {NoProject}
      BY DEF IInv, RoomsInv, SocketType
    <3>5. QED
      BY <2>2, <3>2, <3>3, <3>4
         DEF SocketStep, Connect, AskJoin, JoinChecked, Leave, Sync, Disconnect, Publish, channel
  <2>3. ASSUME NEW s \in Servers,
               Relay(s) \/ Deliver(s) \/ Deafen(s) \/ Reconnect(s) \/ Crash(s)
        PROVE  ChannelOf(PresenceEvents)'
    BY <2>3, RelayTyped, ChannelTyped DEF Relay, Deliver, Deafen, Reconnect, Crash
  <2>4. UNCHANGED vars => UNCHANGED channel
    BY DEF vars, channel
  <2>5. ASSUME NEW k \in Sockets, SocketStep(k) PROVE ChannelOf(PresenceEvents)'
    BY <2>1, <2>2, <2>5, SendTyped
  <2>6. QED  BY <2>1, <2>3, <2>4, <2>5 DEF Next
<1>3. QED  BY <1>1, <1>2, Invariant, PTL DEF Spec

\* The variables have their types, and only sockets of some server are in rooms
\* or await a check (websocket.service.js).
THEOREM TypeCorrect == Spec => []TypeOK
<1>1. IInv /\ ChannelOf(PresenceEvents) => TypeOK
  <2> SUFFICES ASSUME IInv, ChannelOf(PresenceEvents) PROVE TypeOK
    OBVIOUS
  <2>1. \A s \in Servers : executed[s] \in 0..Len(outbox[s])
    BY DEF IInv, ChannelInv, ChannelOf
  <2>2. \A k \in Sockets : socket[k].server = NoServer => socket[k].rooms = {} /\ Checking(k) = {}
    BY WorldAssumption DEF IInv, RoomsInv, OnServers
  <2>3. QED
    BY <2>1, <2>2
       DEF IInv, ChannelInv, ChannelOf, RoomsInv, OnServers, ClientsInv, SocketType, ViewType, TypeOK
<1>2. QED  BY <1>1, Invariant, OnlyPresence, PTL

LEMMA ExactIsExact == IInv => PresenceIsExact
<1> SUFFICES ASSUME IInv, NEW s \in Servers, NEW p \in Projects, NEW u \in Polite
             PROVE  u \in active[s][p] <=> InRoom(u, p, {s}) # {}
  BY DEF PresenceIsExact
<1>1. u \in active[s][p] <=> Here(u, p, s)
  BY DEF IInv, PoliteInv, Exact
<1>2. Here(u, p, s) <=> InRoom(u, p, {s}) # {}
  BY DEF Here, InRoom, Open
<1>3. QED  BY <1>1, <1>2

\* Of polite users activeUsers has those who have a connection in the room, no
\* more and no fewer, whatever else happens (handleJoinProject,
\* handleLeaveProject, handleDisconnect).
THEOREM PresenceExact == Spec => []PresenceIsExact
BY Invariant, ExactIsExact, PTL
=============================================================================
