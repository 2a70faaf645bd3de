----------------------------- MODULE EventProofs -----------------------------
(***************************************************************************)
(* Theorems about what the clients are told: the lists of users of          *)
(* Presence, whether or not updates share the channel with them, and the    *)
(* updates of ProjectEvents.                                                *)
(*                                                                          *)
(* All that matters of a queue for a user in a project is what the last     *)
(* event about them says.  What a server sends again ends the same way.     *)
(* What a client has received of a project, and then what is on the way to  *)
(* its server, is the end of the log (Streaming).  An author's newest       *)
(* update waits for its reply, or is his last one in the log (Settling).    *)
(***************************************************************************)
EXTENDS PresenceProofs, FiniteSetTheorems

-----------------------------------------------------------------------------
(* What a queue says of user u in project p *)

IsAbout(e, p, u) == e.channel = "presence" /\ e.project = p /\ e.user = u

Silent(q, p, u) == \A i \in DOMAIN q : ~IsAbout(q[i], p, u)

\* The last word is status.
Ends(q, p, u, status) ==
  \E i \in DOMAIN q : /\ IsAbout(q[i], p, u) /\ q[i].status = status
                      /\ \A j \in DOMAIN q : j > i => ~IsAbout(q[j], p, u)

LEMMA OneEnd ==
  ASSUME NEW S, NEW q \in Seq(S), NEW p, NEW u, NEW status, Ends(q, p, u, status)
  PROVE  ~Silent(q, p, u) /\ \A other : Ends(q, p, u, other) => other = status
BY DEF Ends, Silent

LEMMA EmptySays == \A p, u : Silent(<<>>, p, u) /\ \A status : ~Ends(<<>>, p, u, status)
BY DEF Ends, Silent

LEMMA AppendSays ==
  ASSUME NEW S, NEW q \in Seq(S), NEW e \in S, NEW p, NEW u
  PROVE  /\ IsAbout(e, p, u) => /\ ~Silent(Append(q, e), p, u)
                                /\ \A status : Ends(Append(q, e), p, u, status) <=> status = e.status
         /\ ~IsAbout(e, p, u) =>
              /\ Silent(Append(q, e), p, u) <=> Silent(q, p, u)
              /\ \A status : Ends(Append(q, e), p, u, status) <=> Ends(q, p, u, status)
<1> DEFINE r == Append(q, e)
           n == Len(q)
<1>1. /\ DOMAIN q = 1..n /\ DOMAIN r = 1..(n + 1) /\ n \in Nat
      /\ r[n + 1] = e /\ \A i \in 1..n : r[i] = q[i]
  OBVIOUS
<1> HIDE DEF r, n
<1>2. ASSUME IsAbout(e, p, u), NEW status
      PROVE  ~Silent(r, p, u) /\ (Ends(r, p, u, status) <=> status = e.status)
  <2>1. n + 1 \in DOMAIN r /\ \A j \in DOMAIN r : j <= n + 1
    BY <1>1
  <2>2. \A i \in DOMAIN r : i = n + 1 \/ n + 1 > i
    BY <1>1
  <2>3. QED  BY <1>1, <1>2, <2>1, <2>2 DEF Silent, Ends
<1>3. ASSUME ~IsAbout(e, p, u), NEW status
      PROVE  /\ Silent(r, p, u) <=> Silent(q, p, u)
             /\ Ends(r, p, u, status) <=> Ends(q, p, u, status)
  <2>1. \A i \in DOMAIN r : i \in DOMAIN q \/ i = n + 1
    BY <1>1
  <2>2. \A i \in DOMAIN q : i \in DOMAIN r /\ r[i] = q[i]
    BY <1>1
  <2>3. QED  BY <1>1, <1>3, <2>1, <2>2 DEF Silent, Ends
<1>4. QED  BY <1>2, <1>3 DEF r

LEMMA TailSays ==
  ASSUME NEW S, NEW q \in Seq(S), q # <<>>, NEW p, NEW u
  PROVE  /\ \A status : Ends(Tail(q), p, u, status) => Ends(q, p, u, status)
         /\ \A status : Ends(q, p, u, status) =>
              Silent(Tail(q), p, u) \/ Ends(Tail(q), p, u, status)
         /\ Silent(q, p, u) => Silent(Tail(q), p, u)
         /\ Silent(Tail(q), p, u) /\ ~IsAbout(Head(q), p, u) => Silent(q, p, u)
         /\ Silent(Tail(q), p, u) /\ IsAbout(Head(q), p, u) => Ends(q, p, u, Head(q).status)
<1> DEFINE r == Tail(q)
           n == Len(q)
<1>1. /\ n \in Nat \ {0} /\ DOMAIN q = 1..n /\ DOMAIN r = 1..(n - 1)
      /\ Head(q) = q[1] /\ \A i \in 1..(n - 1) : r[i] = q[i + 1]
  OBVIOUS
<1> HIDE DEF r, n
<1>2. /\ 1 \in DOMAIN q /\ \A i \in DOMAIN q : i = 1 \/ (i > 1 /\ i - 1 \in DOMAIN r /\ q[i] = r[i - 1])
      /\ \A i \in DOMAIN r : i + 1 \in DOMAIN q /\ i + 1 > 1 /\ r[i] = q[i + 1]
  BY <1>1
<1>3. \A i \in DOMAIN q, j \in DOMAIN r : i > j + 1 => i > 1 /\ i - 1 > j
  BY <1>1
<1>4. \A i \in DOMAIN r, j \in DOMAIN q : i > j - 1 => i + 1 > j
  BY <1>1
<1>5. ASSUME NEW status, Ends(r, p, u, status) PROVE Ends(q, p, u, status)
  <2>1. PICK j \in DOMAIN r : /\ IsAbout(r[j], p, u) /\ r[j].status = status
                              /\ \A i \in DOMAIN r : i > j => ~IsAbout(r[i], p, u)
    BY <1>5 DEF Ends
  <2>2. j + 1 \in DOMAIN q /\ q[j + 1] = r[j]
    BY <1>2
  <2>3. \A i \in DOMAIN q : i > j + 1 => ~IsAbout(q[i], p, u)
    BY <1>2, <1>3, <2>1
  <2>4. QED  BY <2>1, <2>2, <2>3 DEF Ends
<1>6. ASSUME NEW status, Ends(q, p, u, status) PROVE Silent(r, p, u) \/ Ends(r, p, u, status)
  <2>1. PICK j \in DOMAIN q : /\ IsAbout(q[j], p, u) /\ q[j].status = status
                              /\ \A i \in DOMAIN q : i > j => ~IsAbout(q[i], p, u)
    BY <1>6 DEF Ends
  <2>2. CASE j = 1
    BY <1>2, <2>1, <2>2 DEF Silent
  <2>3. CASE j # 1
    <3>1. j - 1 \in DOMAIN r /\ q[j] = r[j - 1]
      BY <1>2, <2>3
    <3>2. \A i \in DOMAIN r : i > j - 1 => ~IsAbout(r[i], p, u)
      BY <1>2, <1>4, <2>1
    <3>3. QED  BY <2>1, <3>1, <3>2 DEF Ends
  <2>4. QED  BY <2>2, <2>3
<1>7. Silent(q, p, u) => Silent(r, p, u)
  BY <1>2 DEF Silent
<1>8. Silent(r, p, u) => \A i \in DOMAIN q : i > 1 => ~IsAbout(q[i], p, u)
  BY <1>2 DEF Silent
<1>9. Silent(r, p, u) /\ ~IsAbout(q[1], p, u) => Silent(q, p, u)
  BY <1>2, <1>8 DEF Silent
<1>10. Silent(r, p, u) /\ IsAbout(q[1], p, u) => Ends(q, p, u, q[1].status)
  BY <1>2, <1>8 DEF Ends
<1>11. QED  BY <1>1, <1>5, <1>6, <1>7, <1>9, <1>10 DEF r

-----------------------------------------------------------------------------
(* What holds of the queues and of the lists the clients keep *)

Status(s, p, u) == IF u \in active[s][p] THEN "joined" ELSE "left"

\* A client keeps lists of rooms it is in only.
Seated ==
  \A k \in Sockets :
    /\ socket[k].server \in Reach[k] \cup {NoServer}
    /\ \A p \in Projects : view[k][p].known => Open(k) /\ p \in socket[k].rooms

\* No other server reports on users of s.
OwnEvents ==
  \A s, t \in Servers : s # t =>
    \A u \in Locals(s) : \A i \in DOMAIN outbox[t] : outbox[t][i].user # u

\* What a server has yet to report ends with what is the case.
Reported ==
  \A s \in Servers, p \in Projects, u \in Users :
    Silent(outbox[s], p, u) \/ Ends(outbox[s], p, u, Status(s, p, u))

\* When s has reported all of a user of its own, what is on the way back to s
\* ends with what is the case, ...
LocalsSettle ==
  \A s \in Servers, p \in Projects : \A u \in Locals(s) :
    Silent(outbox[s], p, u) =>
      Silent(inbox[s], p, u) \/ Ends(inbox[s], p, u, Status(s, p, u))

\* ... and when nothing is on the way, so does the list of a client.
LocalsListed ==
  \A k \in Sockets, p \in Projects : view[k][p].known =>
    LET s == socket[k].server IN
    \A u \in Locals(s) : Silent(outbox[s], p, u) /\ Silent(inbox[s], p, u) =>
      (u \in view[k][p].users <=> u \in active[s][p])

\* Nobody waits in vain for what becomes of u in p.
Covered(p, u) ==
  u \in stranded \/ \E s \in Servers : u \in active[s][p] \/ ~Silent(outbox[s], p, u)

GoneSettle ==
  \A s \in Servers, p \in Projects, u \in Users :
    Ends(inbox[s], p, u, "joined") => Covered(p, u)

GoneListed ==
  \A k \in Sockets, p \in Projects : view[k][p].known =>
    \A u \in view[k][p].users : Silent(inbox[socket[k].server], p, u) => Covered(p, u)

Told ==
  Seated /\ OwnEvents /\ Reported /\ LocalsSettle /\ LocalsListed /\ GoneSettle /\ GoneListed

-----------------------------------------------------------------------------
(* Steps of clients *)

Kept(s, p, u) ==
  /\ Silent(outbox'[s], p, u) <=> Silent(outbox[s], p, u)
  /\ \A status : Ends(outbox'[s], p, u, status) <=> Ends(outbox[s], p, u, status)
  /\ u \in active'[s][p] <=> u \in active[s][p]

News(s, p, u) ==
  ~Silent(outbox'[s], p, u) /\ Ends(outbox'[s], p, u, IF u \in active'[s][p] THEN "joined" ELSE "left")

\* What a server publishes of a user is what has become of him.
Truly(s, e) ==
  \/ e.channel = "project" /\ active' = active
  \/ e.channel = "presence" /\ e.status = "joined" /\ Track(s, e.project, e.user)
  \/ e.channel = "presence" /\ e.status = "left" /\ Untrack(s, e.project, e.user)

LEMMA LocalServer ==
  ASSUME Seated, NEW k \in Sockets, NEW s \in Servers, SocketUser[k] \in Locals(s),
         socket[k].server \in Servers
  PROVE  socket[k].server = s
BY WorldAssumption DEF Seated, Locals

LEMMA PublishTells ==
  ASSUME IInv, Seated, OwnEvents, NEW k \in Sockets, socket[k].server \in Servers,
         NEW e \in Events, e.user = SocketUser[k],
         Send(socket[k].server, e), Truly(socket[k].server, e)
  PROVE  /\ OwnEvents'
         /\ \A t \in Servers, p \in Projects, u \in Users : Kept(t, p, u) \/ News(t, p, u)
<1> DEFINE s == socket[k].server
<1>1. /\ outbox \in [Servers -> Seq(Events)] /\ active \in [Servers -> [Projects -> SUBSET Users]]
      /\ outbox' = [outbox EXCEPT ![s] = Append(@, e)]
  BY DEF IInv, ChannelInv, ChannelOf, RoomsInv, Send
<1>2. s \in Servers /\ outbox'[s] = Append(outbox[s], e) /\ \A t \in Servers \ {s} : outbox'[t] = outbox[t]
  BY <1>1
<1>3. e.project \in Projects /\ e.user \in Users
  BY EventsAre
<1>4. \A t \in Servers, p \in Projects, u \in Users :
        ~(t = s /\ IsAbout(e, p, u)) => (u \in active'[t][p] <=> u \in active[t][p])
  BY <1>1, <1>2, <1>3 DEF Truly, Track, Untrack, IsAbout
<1>5. e.channel = "presence" =>
        e.status = IF e.user \in active'[s][e.project] THEN "joined" ELSE "left"
  <2>1. active[s] \in [Projects -> SUBSET Users]
    BY <1>1, <1>2
  <2>2. CASE e.status = "joined" /\ Track(s, e.project, e.user)
    <3>1. active'[s][e.project] = active[s][e.project] \cup {e.user}
      BY <1>1, <1>2, <1>3, <2>1, <2>2 DEF Track
    <3>2. QED  BY <2>2, <3>1
  <2>3. CASE e.status = "left" /\ Untrack(s, e.project, e.user)
    <3>1. active'[s][e.project] = active[s][e.project] \ {e.user}
      BY <1>1, <1>2, <1>3, <2>1, <2>3 DEF Untrack
    <3>2. QED  BY <2>3, <3>1
  <2>4. QED  BY <2>2, <2>3 DEF Truly
<1> HIDE DEF s
<1>6. OwnEvents'
  <2> SUFFICES ASSUME NEW t \in Servers, NEW r \in Servers, t # r, NEW u \in Locals(t),
                      NEW i \in DOMAIN outbox'[r]
               PROVE  outbox'[r][i].user # u
    BY DEF OwnEvents, Locals
  <2>1. i \in DOMAIN outbox[r] => outbox[r][i].user # u
    BY DEF OwnEvents
  <2>2. CASE r # s
    BY <1>2, <2>1, <2>2
  <2>3. CASE r = s
    <3>1. outbox[s] \in Seq(Events)
      BY <1>1, <1>2
    <3>2. \/ i \in DOMAIN outbox[s] /\ outbox'[s][i] = outbox[s][i]
          \/ outbox'[s][i] = e
      BY <1>2, <2>3, <3>1
    <3>3. e.user # u
      BY <2>3, LocalServer DEF s
    <3>4. QED  BY <2>1, <2>3, <3>2, <3>3
  <2>4. QED  BY <2>2, <2>3
<1>7. ASSUME NEW t \in Servers, NEW p \in Projects, NEW u \in Users
      PROVE  Kept(t, p, u) \/ News(t, p, u)
  <2>1. CASE t = s /\ IsAbout(e, p, u)
    <3>1. e.project = p /\ e.user = u /\ e.channel = "presence"
      BY <2>1 DEF IsAbout
    <3>2. outbox[s] \in Seq(Events)
      BY <1>1, <1>2
    <3>3. ~Silent(outbox'[s], p, u) /\ Ends(outbox'[s], p, u, e.status)
      BY <1>2, <2>1, <3>2, AppendSays
    <3>4. QED  BY <1>5, <2>1, <3>1, <3>3 DEF News
  <2>2. CASE t = s /\ ~IsAbout(e, p, u)
    <3>1. outbox[s] \in Seq(Events)
      BY <1>1, <1>2
    <3>2. /\ Silent(outbox'[s], p, u) <=> Silent(outbox[s], p, u)
          /\ \A status : Ends(outbox'[s], p, u, status) <=> Ends(outbox[s], p, u, status)
      BY <1>2, <2>2, <3>1, AppendSays
    <3>3. QED  BY <1>4, <2>2, <3>2 DEF Kept
  <2>3. CASE t # s
    BY <1>2, <1>4, <2>3 DEF Kept
  <2>4. QED  BY <2>1, <2>2, <2>3
<1>8. QED  BY <1>6, <1>7

LEMMA CoveredStays ==
  ASSUME \A t \in Servers, p \in Projects, u \in Users : Kept(t, p, u) \/ News(t, p, u),
         stranded' = stranded, NEW p \in Projects, NEW u \in Users, Covered(p, u)
  PROVE  Covered(p, u)'
BY DEF Covered, Kept, News

\* A client's list is as it was, or what its server has just told it.
ListKept(k, p) ==
  view'[k][p].known =>
    /\ socket[k].server \in Servers /\ socket'[k].server = socket[k].server
    /\ \/ view'[k][p] = view[k][p]
       \/ view'[k][p].users = active'[socket[k].server][p]

LEMMA ClientsTold ==
  ASSUME IInv, IInv', Told, Seated', OwnEvents',
         \A s \in Servers, p \in Projects, u \in Users : Kept(s, p, u) \/ News(s, p, u),
         \A k \in Sockets, p \in Projects : ListKept(k, p),
         UNCHANGED <<inbox, stranded>>
  PROVE  Told'
<1>1. \A s \in Servers : outbox'[s] \in Seq(Events) /\ inbox[s] \in Seq(Events)
  BY DEF IInv, ChannelInv, ChannelOf
<1>2. \A s \in Servers, p \in Projects, u \in Users :
        Silent(outbox'[s], p, u) => /\ Silent(outbox[s], p, u)
                                    /\ u \in active'[s][p] <=> u \in active[s][p]
  BY DEF Kept, News
<1>3. Reported'
  BY DEF Told, Reported, Kept, News, Status
<1>4. LocalsSettle'
  BY <1>2 DEF Told, LocalsSettle, Locals, Status
<1>5. LocalsListed'
  <2> SUFFICES ASSUME NEW k \in Sockets, NEW p \in Projects, view'[k][p].known,
                      NEW u \in Locals(socket'[k].server),
                      Silent(outbox'[socket'[k].server], p, u),
                      Silent(inbox[socket'[k].server], p, u)
               PROVE  u \in view'[k][p].users <=> u \in active'[socket'[k].server][p]
    BY DEF LocalsListed, Locals
  <2> DEFINE s == socket[k].server
  <2>1. s \in Servers /\ socket'[k].server = s /\ u \in Users
        /\ (view'[k][p] = view[k][p] \/ view'[k][p].users = active'[s][p])
    BY DEF ListKept, Locals
  <2>2. Silent(outbox[s], p, u) /\ (u \in active'[s][p] <=> u \in active[s][p])
    BY <1>2, <2>1
  <2>3. QED  BY <2>1, <2>2 DEF Told, LocalsListed
<1>6. GoneSettle'
  BY CoveredStays DEF Told, GoneSettle
<1>7. GoneListed'
  <2> SUFFICES ASSUME NEW k \in Sockets, NEW p \in Projects, view'[k][p].known,
                      NEW u \in view'[k][p].users, Silent(inbox[socket'[k].server], p, u)
               PROVE  Covered(p, u)'
    BY DEF GoneListed
  <2> DEFINE s == socket[k].server
  <2>1. s \in Servers /\ socket'[k].server = s
        /\ (view'[k][p] = view[k][p] \/ view'[k][p].users = active'[s][p])
    BY DEF ListKept
  <2>2. u \in Users
    BY DEF IInv, ClientsInv, ViewType
  <2>3. CASE view'[k][p] = view[k][p]
    BY <2>1, <2>2, <2>3, CoveredStays DEF Told, GoneListed
  <2>4. CASE view'[k][p].users = active'[s][p]
    BY <2>1, <2>4 DEF Covered
  <2>5. QED  BY <2>1, <2>3, <2>4
<1>8. QED  BY <1>3, <1>4, <1>5, <1>6, <1>7 DEF Told

\* Socket k becomes r, and its client keeps at most the lists it may keep.
Resits(k, r) ==
  /\ socket' = [socket EXCEPT ![k] = r]
  /\ r.server \in Reach[k] \cup {NoServer}
  /\ \A l \in Sockets \ {k} : view'[l] = view[l]
  /\ \A p \in Projects : view'[k][p].known =>
       /\ Open(k) /\ r.open /\ p \in r.rooms /\ r.server = socket[k].server
       /\ \/ view'[k][p] = view[k][p]
          \/ view'[k][p].users = active'[socket[k].server][p]

LEMMA ResitTold ==
  ASSUME IInv, IInv', Told, NEW k \in Sockets, NEW r, Resits(k, r), OwnEvents',
         \A s \in Servers, p \in Projects, u \in Users : Kept(s, p, u) \/ News(s, p, u),
         UNCHANGED <<inbox, stranded>>
  PROVE  Told'
<1>1. socket'[k] = r /\ \A l \in Sockets \ {k} : socket'[l] = socket[l]
  BY DEF IInv, RoomsInv, Resits
<1>2. \A l \in Sockets : socket[l].open => socket[l].server \in Servers
  BY DEF IInv, RoomsInv, OnServers
<1>3. Seated'
  BY <1>1 DEF Told, Seated, Resits, Open
<1>4. \A l \in Sockets, p \in Projects : ListKept(l, p)
  <2> SUFFICES ASSUME NEW l \in Sockets, NEW p \in Projects PROVE ListKept(l, p)
    OBVIOUS
  <2>1. CASE l = k
    BY <1>1, <1>2, <2>1 DEF Resits, ListKept, Open
  <2>2. CASE l # k
    <3>1. view'[l] = view[l] /\ socket'[l] = socket[l]
      BY <1>1, <2>2 DEF Resits
    <3>2. QED  BY <1>2, <3>1 DEF Told, Seated, ListKept, Open
  <2>3. QED  BY <2>1, <2>2
<1>5. QED  BY <1>3, <1>4, ClientsTold

LEMMA NothingPublished ==
  ASSUME Told, UNCHANGED <<outbox, active>>
  PROVE  /\ OwnEvents'
         /\ \A s \in Servers, p \in Projects, u \in Users : Kept(s, p, u) \/ News(s, p, u)
BY DEF Told, OwnEvents, Locals, Kept

LEMMA PublishPresence ==
  ASSUME IInv, Told, NEW k \in Sockets, NEW p \in Projects, NEW status \in {"joined", "left"},
         Open(k) \/ Checking(k) # {},
         Publish(socket[k].server, p, SocketUser[k], status),
         IF status = "joined" THEN Track(socket[k].server, p, SocketUser[k])
                              ELSE Untrack(socket[k].server, p, SocketUser[k])
  PROVE  /\ OwnEvents'
         /\ \A s \in Servers, q \in Projects, u \in Users : Kept(s, q, u) \/ News(s, q, u)
<1> DEFINE e == [channel |-> "presence", project |-> p, user |-> SocketUser[k], status |-> status]
<1>1. e \in Events /\ socket[k].server \in Servers
  BY WorldAssumption, EventTyped DEF IInv, RoomsInv, OnServers, Open
<1>2. /\ e.user = SocketUser[k] /\ Send(socket[k].server, e) /\ Truly(socket[k].server, e)
  BY DEF Publish, Truly
<1> HIDE DEF e
<1>3. QED  BY <1>1, <1>2, PublishTells DEF Told

LEMMA SocketStepTold ==
  ASSUME IInv, IInv', Told, NEW k \in Sockets, SocketStep(k)
  PROVE  Told'
<1>1. /\ socket \in [Sockets -> SocketType] /\ view \in [Sockets -> ViewType]
      /\ socket[k].server \in Reach[k] \cup {NoServer}
      /\ \A p \in Projects : view[k][p].known => Open(k) /\ p \in socket[k].rooms
      /\ socket = [socket EXCEPT ![k] = socket[k]]
  BY DEF IInv, RoomsInv, ClientsInv, Told, Seated
<1>2. ~Unknown.known /\ NoSocket.server = NoServer
  BY DEF Unknown, NoSocket
<1>3. ASSUME NEW s \in Servers, Connect(k, s) PROVE Told'
  <2> DEFINE r == [NoSocket EXCEPT !.open = TRUE, !.server = s]
  <2>1. r.server = s /\ UNCHANGED <<outbox, active, inbox, stranded>>
    BY <1>3 DEF Connect, channel, NoSocket
  <2>2. Resits(k, r)
    BY <1>1, <1>3, <2>1 DEF Connect, Resits
  <2>3. QED  BY <2>1, <2>2, NothingPublished, ResitTold
<1>4. ASSUME NEW p \in Projects, AskJoin(k, p) PROVE Told'
  <2>1. UNCHANGED <<outbox, active, inbox, stranded, socket, view>>
    BY <1>4 DEF AskJoin, channel
  <2>2. Resits(k, socket[k])
    BY <1>1, <2>1 DEF Resits, Open
  <2>3. QED  BY <2>1, <2>2, NothingPublished, ResitTold
<1>5. ASSUME NEW p \in Projects, JoinChecked(k, p) PROVE Told'
  <2>1. UNCHANGED <<inbox, stranded, view>> /\ Checking(k) # {}
    BY <1>5 DEF JoinChecked
  <2>2. CASE SocketUser[k] \in Members[p]
    <3> DEFINE r == InProject(k, p)
    <3>1. /\ socket' = [socket EXCEPT ![k] = r] /\ Track(socket[k].server, p, SocketUser[k])
          /\ Publish(socket[k].server, p, SocketUser[k], "joined")
      BY <1>5, <2>2 DEF JoinChecked
    <3>2. /\ r.server = socket[k].server \/ r.server = NoServer
          /\ Open(k) => r.open /\ r.server = socket[k].server /\ socket[k].rooms \subseteq r.rooms
      BY <1>1, <1>2 DEF InProject, SocketType, Open
    <3> HIDE DEF r
    <3>3. Resits(k, r)
      BY <1>1, <2>1, <3>1, <3>2 DEF Resits
    <3>4. QED  BY <2>1, <3>1, <3>3, PublishPresence, ResitTold
  <2>3. CASE SocketUser[k] \notin Members[p]
    <3> DEFINE r == IF ~Open(k) /\ LastCheck(k, p) THEN NoSocket ELSE socket[k]
    <3>1. socket' = [socket EXCEPT ![k] = r] /\ UNCHANGED <<active, outbox>>
      BY <1>1, <1>5, <2>3 DEF JoinChecked
    <3>2. /\ r.server = socket[k].server \/ r.server = NoServer
          /\ Open(k) => r = socket[k]
      BY <1>2
    <3> HIDE DEF r
    <3>3. Resits(k, r)
      BY <1>1, <2>1, <3>1, <3>2 DEF Resits, Open
    <3>4. QED  BY <2>1, <3>1, <3>3, NothingPublished, ResitTold
  <2>4. QED  BY <2>2, <2>3
<1>6. ASSUME NEW p \in Projects, Leave(k, p) PROVE Told'
  <2> DEFINE r == [socket[k] EXCEPT !.rooms = @ \ {p}]
  <2>1. /\ UNCHANGED <<inbox, stranded>> /\ Open(k)
        /\ view' = [view EXCEPT ![k][p] = Unknown]
        /\ Untrack(socket[k].server, p, SocketUser[k])
        /\ Publish(socket[k].server, p, SocketUser[k], "left")
    BY <1>6 DEF Leave
  <2>2. /\ socket' = [socket EXCEPT ![k] = r] /\ r.open /\ r.server = socket[k].server
        /\ r.rooms = socket[k].rooms \ {p}
    BY <1>1, <1>6, <2>1 DEF Leave, SocketType, Open
  <2> HIDE DEF r
  <2>3. /\ \A l \in Sockets \ {k} : view'[l] = view[l]
        /\ \A q \in Projects : view'[k][q] = IF q = p THEN Unknown ELSE view[k][q]
    BY <1>1, <2>1 DEF ViewType
  <2>4. Resits(k, r)
    BY <1>1, <1>2, <2>1, <2>2, <2>3 DEF Resits
  <2>5. QED  BY <2>1, <2>4, PublishPresence, ResitTold
<1>7. ASSUME NEW p \in Projects, Sync(k, p) PROVE Told'
  <2> DEFINE answer == IF p \in socket[k].rooms
                       THEN [known |-> TRUE, users |-> active[socket[k].server][p]]
                       ELSE Unknown
  <2>1. /\ UNCHANGED <<outbox, active, inbox, stranded, socket>>
        /\ Open(k) /\ view' = [view EXCEPT ![k][p] = answer]
    BY <1>7 DEF Sync, channel
  <2>2. answer.known => p \in socket[k].rooms /\ answer.users = active[socket[k].server][p]
    BY <1>2
  <2> HIDE DEF answer
  <2>3. /\ \A l \in Sockets \ {k} : view'[l] = view[l]
        /\ \A q \in Projects \ {p} : view'[k][q] = view[k][q]
        /\ view'[k][p] = answer
    BY <1>1, <2>1 DEF ViewType
  <2>4. Resits(k, socket[k])
    BY <1>1, <2>1, <2>2, <2>3 DEF Resits, Open
  <2>5. QED  BY <2>1, <2>4, NothingPublished, ResitTold
<1>8. ASSUME Disconnect(k) PROVE Told'
  <2> DEFINE r == Closed(k)
             p == socket[k].current
  <2>1. /\ UNCHANGED <<inbox, stranded>> /\ Open(k) /\ socket' = [socket EXCEPT ![k] = r]
        /\ view' = [view EXCEPT ![k] = [q \in Projects |-> Unknown]]
        /\ p \in Projects \cup {NoProject}
    BY <1>1, <1>8 DEF Disconnect, SocketType
  <2>2. r.server = socket[k].server \/ r.server = NoServer
    BY <1>1, <1>2 DEF Closed, NoSocket, SocketType
  <2> HIDE DEF r
  <2>3. Resits(k, r)
    BY <1>1, <1>2, <2>1, <2>2 DEF Resits
  <2>4. CASE p = NoProject
    <3>1. UNCHANGED <<outbox, active>>
      BY <1>8, <2>4 DEF Disconnect
    <3>2. QED  BY <2>1, <2>3, <3>1, NothingPublished, ResitTold
  <2>5. CASE p # NoProject
    <3>1. /\ Untrack(socket[k].server, p, SocketUser[k])
          /\ Publish(socket[k].server, p, SocketUser[k], "left")
      BY <1>8, <2>5 DEF Disconnect
    <3>2. QED  BY <2>1, <2>3, <2>5, <3>1, PublishPresence, ResitTold
  <2>6. QED  BY <2>4, <2>5
<1>9. QED  BY <1>3, <1>4, <1>5, <1>6, <1>7, <1>8 DEF SocketStep

LEMMA PostTold ==
  ASSUME IInv, IInv', Told, NEW k \in Sockets, NEW p \in Projects, Posts(k, p)
  PROVE  Told'
<1> DEFINE e == [channel |-> "project", project |-> p, user |-> SocketUser[k],
                 number |-> happened]
<1>1. /\ UNCHANGED <<inbox, stranded, socket, active, view>> /\ Open(k)
      /\ Send(socket[k].server, e)
  BY DEF Posts, Broadcast, rooms
<1>2. socket[k].server \in Servers /\ e \in Events
  BY <1>1, UpdateTyped DEF IInv, RoomsInv, OnServers, Open, Send, Happens
<1>3. e.user = SocketUser[k] /\ Truly(socket[k].server, e)
  BY <1>1 DEF Truly
<1> HIDE DEF e
<1>4. Resits(k, socket[k])
  BY <1>1 DEF IInv, RoomsInv, Told, Seated, Resits, Open
<1>5. QED  BY <1>1, <1>2, <1>3, <1>4, PublishTells, ResitTold DEF Told

-----------------------------------------------------------------------------
(* Steps of the channel *)

\* What an event that Redis executes for s changes of the queues: it leaves
\* outbox or stays in it, and is the last thing in the inboxes of those who
\* listen.
LEMMA RelayMoves ==
  ASSUME IInv, Told, NEW s \in Servers, Relay(s),
         NEW t \in Servers, NEW p \in Projects, NEW u \in Users
  PROVE  LET e == Upcoming(s) IN
         /\ IsAbout(e, p, u) => /\ ~Silent(outbox[s], p, u)
                                /\ Ends(outbox[s], p, u, Status(s, p, u))
                                /\ \/ Ends(outbox'[s], p, u, Status(s, p, u))
                                   \/ /\ Silent(outbox'[s], p, u)
                                      /\ e.status = Status(s, p, u)
         /\ ~(t = s /\ IsAbout(e, p, u)) =>
              /\ Silent(outbox'[t], p, u) <=> Silent(outbox[t], p, u)
              /\ Ends(outbox[t], p, u, Status(t, p, u)) => Ends(outbox'[t], p, u, Status(t, p, u))
         /\ t \in listening /\ IsAbout(e, p, u) =>
              /\ ~Silent(inbox'[t], p, u)
              /\ \A status : Ends(inbox'[t], p, u, status) <=> status = e.status
         /\ t \notin listening => inbox[t] = <<>> /\ inbox'[t] = <<>>
         /\ ~IsAbout(e, p, u) =>
              /\ Silent(inbox'[t], p, u) <=> Silent(inbox[t], p, u)
              /\ \A status : Ends(inbox'[t], p, u, status) <=> Ends(inbox[t], p, u, status)
<1> DEFINE e == Upcoming(s)
<1>1. /\ outbox \in [Servers -> Seq(Events)] /\ inbox \in [Servers -> Seq(Events)]
      /\ executed[s] \in Nat /\ executed[s] < Len(outbox[s]) /\ PassedOn(e)
      /\ t \notin listening => inbox[t] = <<>>
  BY DEF IInv, ChannelInv, ChannelOf, Relay, Execute, ExecuteUnanswered
<1>2. e \in Events /\ outbox[s] \in Seq(Events) /\ inbox[t] \in Seq(Events)
  BY <1>1, UpcomingTyped DEF IInv, ChannelInv
<1>3. /\ t \in listening => inbox'[t] = Append(inbox[t], e)
      /\ t \notin listening => inbox'[t] = inbox[t]
  BY <1>1 DEF PassedOn
<1>4. executed[s] + 1 \in DOMAIN outbox[s] /\ e = outbox[s][executed[s] + 1]
  BY <1>1, <1>2 DEF Upcoming
<1>5. \/ outbox' = outbox
      \/ /\ outbox[s] # <<>> /\ e = Head(outbox[s]) /\ outbox'[s] = Tail(outbox[s])
         /\ \A r \in Servers \ {s} : outbox'[r] = outbox[r]
  <2>1. CASE Execute(s)
    <3>1. outbox[s] # <<>> /\ executed[s] = 0 /\ outbox' = [outbox EXCEPT ![s] = Tail(@)]
      BY <2>1 DEF Execute
    <3>2. outbox[s] \in Seq(Events) /\ e = outbox[s][1]
      BY <1>2, <1>4, <3>1
    <3>3. QED  BY <1>1, <3>1, <3>2
  <2>2. CASE ExecuteUnanswered(s)
    BY <2>2 DEF ExecuteUnanswered
  <2>3. QED  BY <2>1, <2>2 DEF Relay
<1> HIDE DEF e
<1>6. IsAbout(e, p, u) => ~Silent(outbox[s], p, u)
  BY <1>4 DEF Silent
<1>7. Silent(outbox[s], p, u) \/ Ends(outbox[s], p, u, Status(s, p, u))
  BY DEF Told, Reported
<1>8. IsAbout(e, p, u) => \/ Ends(outbox'[s], p, u, Status(s, p, u))
                          \/ Silent(outbox'[s], p, u) /\ e.status = Status(s, p, u)
  <2>1. CASE outbox' = outbox
    BY <1>6, <1>7, <2>1
  <2>2. CASE outbox[s] # <<>> /\ e = Head(outbox[s]) /\ outbox'[s] = Tail(outbox[s])
    BY <1>2, <1>6, <1>7, <2>2, TailSays, OneEnd
  <2>3. QED  BY <1>5, <2>1, <2>2
<1>9. ~(t = s /\ IsAbout(e, p, u)) =>
        /\ Silent(outbox'[t], p, u) <=> Silent(outbox[t], p, u)
        /\ Ends(outbox[t], p, u, Status(t, p, u)) => Ends(outbox'[t], p, u, Status(t, p, u))
  <2>1. CASE outbox' = outbox \/ t # s
    BY <1>5, <2>1
  <2>2. CASE /\ outbox[s] # <<>> /\ e = Head(outbox[s]) /\ outbox'[s] = Tail(outbox[s])
             /\ t = s /\ ~IsAbout(e, p, u)
    BY <1>2, <2>2, TailSays, OneEnd
  <2>3. QED  BY <1>5, <2>1, <2>2
<1>10. /\ IsAbout(e, p, u) => /\ ~Silent(Append(inbox[t], e), p, u)
                              /\ \A status : Ends(Append(inbox[t], e), p, u, status)
                                               <=> status = e.status
       /\ ~IsAbout(e, p, u) =>
            /\ Silent(Append(inbox[t], e), p, u) <=> Silent(inbox[t], p, u)
            /\ \A status : Ends(Append(inbox[t], e), p, u, status)
                             <=> Ends(inbox[t], p, u, status)
  BY <1>2, AppendSays
<1>11. inbox'[t] = inbox[t] \/ inbox'[t] = Append(inbox[t], e)
  BY <1>3
<1>12. t \notin listening => inbox[t] = <<>> /\ inbox'[t] = <<>>
  BY <1>1, <1>3
<1>13. QED  BY <1>3, <1>6, <1>7, <1>8, <1>9, <1>10, <1>11, <1>12 DEF e

\* Of the lists of clients those are left whose servers miss nothing of them.
LEMMA ListsKeep ==
  ASSUME IInv, Told, NEW S, NEW es, view' = Lists(S, es), UNCHANGED socket,
         NEW k \in Sockets, NEW p \in Projects, view'[k][p].known
  PROVE  /\ view'[k][p] = view[k][p] /\ socket[k].server \in Servers
         /\ socket[k].server \in S => \A e \in es : \A u : ~IsAbout(e, p, u)
<1>1. ~Unknown.known
  BY DEF Unknown
<1>2. view'[k][p] = IF /\ \E s \in S : k \in Audience(s, p)
                       /\ \E e \in es : e.channel = "presence" /\ e.project = p
                    THEN Unknown ELSE view[k][p]
  BY DEF Lists
<1>3. view'[k][p] = view[k][p] /\ Open(k) /\ p \in socket[k].rooms
  BY <1>1, <1>2 DEF Told, Seated
<1>4. socket[k].server \in Servers /\ k \in Audience(socket[k].server, p)
  BY <1>3 DEF IInv, RoomsInv, OnServers, Audience, Open
<1>5. QED  BY <1>1, <1>2, <1>3, <1>4 DEF IsAbout

LEMMA RelayTold ==
  ASSUME IInv, IInv', Told, NEW s \in Servers, Relay(s)
  PROVE  Told'
<1> DEFINE e == Upcoming(s)
<1>1. /\ UNCHANGED <<socket, active, stranded, listening>>
      /\ view' = Lists(Servers \ listening, {e})
  BY DEF Relay, Execute, ExecuteUnanswered
<1> HIDE DEF e
<1>2. ASSUME NEW k \in Sockets, NEW p \in Projects, view'[k][p].known
      PROVE  /\ view'[k][p] = view[k][p] /\ socket[k].server \in Servers
             /\ socket[k].server \notin listening => \A u : ~IsAbout(e, p, u)
  <2>1. socket' = socket
    BY <1>1
  <2>2. /\ view'[k][p] = view[k][p] /\ socket[k].server \in Servers
        /\ socket[k].server \in Servers \ listening => \A d \in {e} : \A u : ~IsAbout(d, p, u)
    BY <1>1, <1>2, <2>1, ListsKeep
  <2>3. QED  BY <2>2
<1>3. Seated'
  BY <1>1, <1>2 DEF Told, Seated, Open
<1>4. OwnEvents'
  <2>1. \A t \in Servers : \A i \in DOMAIN outbox'[t] :
          \E j \in DOMAIN outbox[t] : outbox'[t][i] = outbox[t][j]
    <3> SUFFICES ASSUME NEW t \in Servers, NEW i \in DOMAIN outbox'[t]
                 PROVE  \E j \in DOMAIN outbox[t] : outbox'[t][i] = outbox[t][j]
      OBVIOUS
    <3>1. outbox[t] \in Seq(Events)
      BY DEF IInv, ChannelInv, ChannelOf
    <3>2. outbox'[t] = outbox[t] \/ (outbox[t] # <<>> /\ outbox'[t] = Tail(outbox[t]))
      BY DEF IInv, ChannelInv, ChannelOf, Relay, Execute, ExecuteUnanswered
    <3>3. CASE outbox'[t] = outbox[t]
      BY <3>3
    <3>4. CASE outbox[t] # <<>> /\ outbox'[t] = Tail(outbox[t])
      <4>1. i + 1 \in DOMAIN outbox[t] /\ outbox'[t][i] = outbox[t][i + 1]
        BY <3>1, <3>4
      <4>2. QED  BY <4>1
    <3>5. QED  BY <3>2, <3>3, <3>4
  <2>2. QED  BY <2>1 DEF Told, OwnEvents, Locals
<1>5. Reported'
  BY <1>1, RelayMoves DEF Told, Reported, Status, e
<1>6. \A t \in Servers, p \in Projects : \A u \in Locals(t) : t # s => ~IsAbout(e, p, u)
  <2>1. \E i \in DOMAIN outbox[s] : e = outbox[s][i]
    <3>1. outbox[s] \in Seq(Events) /\ executed[s] \in Nat /\ executed[s] < Len(outbox[s])
      BY DEF IInv, ChannelInv, ChannelOf, Relay, Execute, ExecuteUnanswered
    <3>2. executed[s] + 1 \in DOMAIN outbox[s]
      BY <3>1
    <3>3. QED  BY <3>2 DEF e, Upcoming
  <2>2. QED  BY <2>1 DEF Told, OwnEvents, IsAbout
<1>7. LocalsSettle'
  <2> SUFFICES ASSUME NEW t \in Servers, NEW p \in Projects, NEW u \in Locals(t),
                      Silent(outbox'[t], p, u)
               PROVE  Silent(inbox'[t], p, u) \/ Ends(inbox'[t], p, u, Status(t, p, u))
    BY <1>1 DEF LocalsSettle, Locals, Status
  <2>1. u \in Users
    BY DEF Locals
  <2>2. CASE IsAbout(e, p, u)
    <3>1. t = s
      BY <1>6, <2>2
    <3>2. e.status = Status(s, p, u)
      <4>1. outbox'[s] \in Seq(Events)
        BY DEF IInv, ChannelInv, ChannelOf
      <4>2. QED  BY <2>1, <2>2, <3>1, <4>1, RelayMoves, OneEnd DEF e
    <3>3. CASE t \in listening
      BY <2>1, <2>2, <3>1, <3>2, <3>3, RelayMoves DEF e
    <3>4. CASE t \notin listening
      BY <2>1, <3>4, RelayMoves, EmptySays
    <3>5. QED  BY <3>3, <3>4
  <2>3. CASE ~IsAbout(e, p, u)
    BY <2>1, <2>3, RelayMoves DEF Told, LocalsSettle, e
  <2>4. QED  BY <2>2, <2>3
<1>8. LocalsListed'
  <2> SUFFICES ASSUME NEW k \in Sockets, NEW p \in Projects, view'[k][p].known,
                      NEW u \in Locals(socket[k].server),
                      Silent(outbox'[socket[k].server], p, u),
                      Silent(inbox'[socket[k].server], p, u)
               PROVE  u \in view'[k][p].users <=> u \in active[socket[k].server][p]
    BY <1>1 DEF LocalsListed, Locals
  <2>1. u \in Users /\ socket[k].server \in Servers /\ view'[k][p] = view[k][p]
    BY <1>2 DEF Locals
  <2>2. ~IsAbout(e, p, u)
    BY <1>2, <2>1, RelayMoves DEF e
  <2>3. QED  BY <2>1, <2>2, RelayMoves DEF Told, LocalsListed, e
<1>9. ASSUME NEW p \in Projects, NEW u \in Users, ~IsAbout(e, p, u), Covered(p, u)
      PROVE  Covered(p, u)'
  BY <1>1, <1>9, RelayMoves DEF Covered, e
<1>10. ASSUME NEW p \in Projects, NEW u \in Users, IsAbout(e, p, u), e.status = "joined"
       PROVE  Covered(p, u)'
  <2>1. outbox'[s] \in Seq(Events)
    BY DEF IInv, ChannelInv, ChannelOf
  <2>2. ~Silent(outbox'[s], p, u) \/ e.status = Status(s, p, u)
    BY <1>10, <2>1, RelayMoves, OneEnd DEF e
  <2>3. QED  BY <1>1, <1>10, <2>2 DEF Covered, Status
<1>11. GoneSettle'
  <2> SUFFICES ASSUME NEW t \in Servers, NEW p \in Projects, NEW u \in Users,
                      Ends(inbox'[t], p, u, "joined")
               PROVE  Covered(p, u)'
    BY DEF GoneSettle
  <2>1. CASE IsAbout(e, p, u)
    <3>1. t \notin listening => inbox'[t] = <<>>
      BY RelayMoves
    <3>2. t \in listening
      BY <3>1, EmptySays
    <3>3. \A status : Ends(inbox'[t], p, u, status) <=> status = e.status
      BY <2>1, <3>2, RelayMoves DEF e
    <3>4. QED  BY <1>10, <2>1, <3>3
  <2>2. CASE ~IsAbout(e, p, u)
    <3>1. Ends(inbox[t], p, u, "joined")
      BY <2>2, RelayMoves DEF e
    <3>2. QED  BY <1>9, <2>2, <3>1 DEF Told, GoneSettle
  <2>3. QED  BY <2>1, <2>2
<1>12. GoneListed'
  <2> SUFFICES ASSUME NEW k \in Sockets, NEW p \in Projects, view'[k][p].known,
                      NEW u \in view'[k][p].users, Silent(inbox'[socket[k].server], p, u)
               PROVE  Covered(p, u)'
    BY <1>1 DEF GoneListed
  <2>1. u \in Users /\ socket[k].server \in Servers /\ view'[k][p] = view[k][p]
    BY <1>2 DEF IInv, ClientsInv, ViewType
  <2>2. ~IsAbout(e, p, u)
    BY <1>2, <2>1, RelayMoves DEF e
  <2>3. QED  BY <1>9, <2>1, <2>2, RelayMoves DEF Told, GoneListed, e
<1>13. QED  BY <1>3, <1>4, <1>5, <1>7, <1>8, <1>11, <1>12 DEF Told

\* A server hands the next event to its clients.
LEMMA HandMoves ==
  ASSUME IInv, NEW s \in Servers, Handle(s), NEW p, NEW u
  PROVE  LET e == Head(inbox[s]) IN
         /\ e \in Events /\ outbox' = outbox /\ inbox'[s] = Tail(inbox[s])
         /\ \A t \in Servers \ {s} : inbox'[t] = inbox[t]
         /\ \A status : Ends(inbox'[s], p, u, status) => Ends(inbox[s], p, u, status)
         /\ \A status : Ends(inbox[s], p, u, status) =>
              Silent(inbox'[s], p, u) \/ Ends(inbox'[s], p, u, status)
         /\ Silent(inbox[s], p, u) => Silent(inbox'[s], p, u)
         /\ Silent(inbox'[s], p, u) /\ ~IsAbout(e, p, u) => Silent(inbox[s], p, u)
         /\ Silent(inbox'[s], p, u) /\ IsAbout(e, p, u) => Ends(inbox[s], p, u, e.status)
<1>1. /\ inbox \in [Servers -> Seq(Events)] /\ inbox[s] # <<>> /\ outbox' = outbox
      /\ inbox' = [inbox EXCEPT ![s] = Tail(@)]
  BY DEF IInv, ChannelInv, ChannelOf, Handle
<1>2. inbox[s] \in Seq(Events) /\ inbox'[s] = Tail(inbox[s])
      /\ \A t \in Servers \ {s} : inbox'[t] = inbox[t]
  BY <1>1
<1>3. Head(inbox[s]) \in Events
  BY <1>1, <1>2
<1>4. QED  BY <1>1, <1>2, <1>3, TailSays

\* What a client's list is when s has handed its next event on.
Heard(k, p, s) ==
  LET e == Head(inbox[s]) IN
  /\ view'[k][p].known <=> view[k][p].known
  /\ \A u \in Users : u \in view'[k][p].users <=>
       IF socket[k].server = s /\ IsAbout(e, p, u) THEN e.status = "joined"
                                                   ELSE u \in view[k][p].users

LEMMA HandTold ==
  ASSUME IInv, IInv', Told, NEW s \in Servers, Handle(s),
         UNCHANGED <<socket, active, stranded>>,
         \A k \in Sockets, p \in Projects : view[k][p].known \/ view'[k][p].known => Heard(k, p, s)
  PROVE  Told'
<1> DEFINE e == Head(inbox[s])
<1>1. ASSUME NEW k \in Sockets, NEW p \in Projects, view'[k][p].known
      PROVE  /\ view[k][p].known /\ socket[k].server \in Servers
             /\ \A u \in Users : u \in view'[k][p].users <=>
                  IF socket[k].server = s /\ IsAbout(e, p, u) THEN e.status = "joined"
                                                              ELSE u \in view[k][p].users
  <2>1. view[k][p].known /\ Heard(k, p, s)
    BY <1>1 DEF Heard
  <2>2. socket[k].server \in Servers
    BY <2>1 DEF IInv, RoomsInv, OnServers, Told, Seated, Open
  <2>3. QED  BY <2>1, <2>2 DEF Heard
<1>2. Seated'
  BY <1>1 DEF Told, Seated, Open
<1>3. outbox' = outbox
  BY DEF Handle
<1>4. OwnEvents' /\ Reported'
  BY <1>3 DEF Told, OwnEvents, Locals, Reported, Status
<1>5. \A p, u : Covered(p, u) <=> Covered(p, u)'
  BY <1>3 DEF Covered
<1>6. LocalsSettle'
  <2> SUFFICES ASSUME NEW t \in Servers, NEW p \in Projects, NEW u \in Locals(t),
                      Silent(outbox[t], p, u)
               PROVE  Silent(inbox'[t], p, u) \/ Ends(inbox'[t], p, u, Status(t, p, u))
    BY <1>3 DEF LocalsSettle, Locals, Status
  <2>1. Silent(inbox[t], p, u) \/ Ends(inbox[t], p, u, Status(t, p, u))
    BY DEF Told, LocalsSettle
  <2>2. CASE t = s
    BY <2>1, <2>2, HandMoves
  <2>3. CASE t # s
    BY <2>1, <2>3, HandMoves
  <2>4. QED  BY <2>2, <2>3
<1>7. LocalsListed'
  <2> SUFFICES ASSUME NEW k \in Sockets, NEW p \in Projects, view'[k][p].known,
                      NEW u \in Locals(socket[k].server),
                      Silent(outbox[socket[k].server], p, u),
                      Silent(inbox'[socket[k].server], p, u)
               PROVE  u \in view'[k][p].users <=> u \in active[socket[k].server][p]
    BY <1>3 DEF LocalsListed, Locals
  <2> DEFINE t == socket[k].server
  <2>1. u \in Users /\ t \in Servers /\ view[k][p].known
    BY <1>1 DEF Locals
  <2>2. CASE t = s /\ IsAbout(e, p, u)
    <3>1. Ends(inbox[s], p, u, e.status)
      BY <2>2, HandMoves
    <3>2. inbox[s] \in Seq(Events)
      BY DEF IInv, ChannelInv, ChannelOf
    <3>3. ~Silent(inbox[s], p, u) /\ \A other : Ends(inbox[s], p, u, other) => other = e.status
      BY <3>1, <3>2, OneEnd
    <3>4. e.status = Status(s, p, u)
      BY <2>2, <3>3 DEF Told, LocalsSettle
    <3>5. QED  BY <1>1, <2>1, <2>2, <3>4 DEF Status
  <2>3. CASE ~(t = s /\ IsAbout(e, p, u))
    <3>1. Silent(inbox[t], p, u)
      BY <2>1, <2>3, HandMoves
    <3>2. u \in view[k][p].users <=> u \in active[t][p]
      BY <2>1, <3>1 DEF Told, LocalsListed
    <3>3. QED  BY <1>1, <2>1, <2>3, <3>2
  <2>4. QED  BY <2>2, <2>3
<1>8. GoneSettle'
  <2> SUFFICES ASSUME NEW t \in Servers, NEW p \in Projects, NEW u \in Users,
                      Ends(inbox'[t], p, u, "joined")
               PROVE  Covered(p, u)
    BY <1>5 DEF GoneSettle
  <2>1. CASE t = s
    BY <2>1, HandMoves DEF Told, GoneSettle
  <2>2. CASE t # s
    BY <2>2, HandMoves DEF Told, GoneSettle
  <2>3. QED  BY <2>1, <2>2
<1>9. GoneListed'
  <2> SUFFICES ASSUME NEW k \in Sockets, NEW p \in Projects, view'[k][p].known,
                      NEW u \in view'[k][p].users, Silent(inbox'[socket[k].server], p, u)
               PROVE  Covered(p, u)
    BY <1>5 DEF GoneListed
  <2> DEFINE t == socket[k].server
  <2>1. u \in Users /\ t \in Servers /\ view[k][p].known
    BY <1>1 DEF IInv, ClientsInv, ViewType
  <2>2. CASE t = s /\ IsAbout(e, p, u)
    <3>1. Ends(inbox[s], p, u, e.status)
      BY <2>2, HandMoves
    <3>2. e.status = "joined"
      BY <1>1, <2>1, <2>2
    <3>3. QED  BY <2>1, <3>1, <3>2 DEF Told, GoneSettle
  <2>3. CASE ~(t = s /\ IsAbout(e, p, u))
    <3>1. Silent(inbox[t], p, u)
      BY <2>1, <2>3, HandMoves
    <3>2. u \in view[k][p].users
      BY <1>1, <2>1, <2>3
    <3>3. QED  BY <2>1, <3>1, <3>2 DEF Told, GoneListed
  <2>4. QED  BY <2>2, <2>3
<1>10. QED  BY <1>2, <1>4, <1>6, <1>7, <1>8, <1>9 DEF Told

LEMMA HandsTold ==
  ASSUME IInv, IInv', Told, NEW s \in Servers, Deliver(s) \/ Hands(s)
  PROVE  Told'
<1> DEFINE e == Head(inbox[s])
<1>1. e \in Events /\ Handle(s) /\ UNCHANGED <<socket, active, stranded>>
  BY HandMoves DEF Deliver, Hands, rooms
<1>2. ASSUME Hands(s), NEW k \in Sockets, NEW p \in Projects PROVE Heard(k, p, s)
  BY <1>2 DEF Hands, rooms, Heard, IsAbout
<1>3. ASSUME Deliver(s), NEW k \in Sockets, NEW p \in Projects, view[k][p].known \/ view'[k][p].known
      PROVE  Heard(k, p, s)
  <2>1. /\ e.channel = "presence" /\ e.project \in Projects /\ e.status \in {"joined", "left"}
        /\ view' = [l \in Sockets |->
             IF l \in Audience(s, e.project)
             THEN [view[l] EXCEPT ![e.project].users = Hear(@, e)] ELSE view[l]]
    BY <1>1, <1>3, EventsAre DEF Deliver
  <2> HIDE DEF e
  <2>2. view[k] \in ViewType /\ view[k][p] \in [known : BOOLEAN, users : SUBSET Users]
    BY DEF IInv, ClientsInv, ViewType
  <2>3. CASE k \in Audience(s, e.project) /\ e.project = p
    <3>1. view'[k] = [view[k] EXCEPT ![p].users = Hear(@, e)]
      BY <2>1, <2>3
    <3>2. view'[k][p] = [view[k][p] EXCEPT !.users = Hear(@, e)]
      BY <2>2, <3>1 DEF ViewType
    <3>3. view'[k][p].known = view[k][p].known /\ view'[k][p].users = Hear(view[k][p].users, e)
      BY <2>2, <3>2
    <3>4. \A u \in Users : u \in view'[k][p].users <=>
            IF e.user = u THEN e.status = "joined" ELSE u \in view[k][p].users
      BY <2>1, <3>3 DEF Hear
    <3>5. socket[k].server = s
      BY <2>3 DEF Audience
    <3>6. QED  BY <2>1, <2>3, <3>3, <3>4, <3>5 DEF Heard, IsAbout, e
  <2>4. CASE ~(k \in Audience(s, e.project) /\ e.project = p)
    <3>1. view'[k][p] = view[k][p]
      <4>1. CASE k \in Audience(s, e.project)
        <5>1. view'[k] = [view[k] EXCEPT ![e.project].users = Hear(@, e)] /\ e.project # p
          BY <2>1, <2>4, <4>1
        <5>2. QED  BY <2>1, <2>2, <5>1 DEF ViewType
      <4>2. CASE k \notin Audience(s, e.project)
        BY <2>1, <4>2
      <4>3. QED  BY <4>1, <4>2
    <3>2. Open(k) /\ p \in socket[k].rooms
      BY <1>3, <3>1 DEF Told, Seated
    <3>3. \A u : ~(socket[k].server = s /\ IsAbout(e, p, u))
      BY <2>4, <3>2 DEF Audience, IsAbout
    <3>4. QED  BY <3>1, <3>3 DEF Heard, e
  <2>5. QED  BY <2>3, <2>4
<1>4. QED  BY <1>1, <1>2, <1>3, HandTold

LEMMA DeafenTold ==
  ASSUME IInv, IInv', Told, NEW s \in Servers, Deafen(s)
  PROVE  Told'
<1>1. /\ UNCHANGED <<socket, active, stranded, outbox>>
      /\ view' = Lists({s}, InTransit(s)) /\ inbox' = [inbox EXCEPT ![s] = <<>>]
      /\ inbox \in [Servers -> Seq(Events)]
  BY DEF Deafen, StopListening, IInv, ChannelInv, ChannelOf
<1>2. inbox'[s] = <<>> /\ \A t \in Servers \ {s} : inbox'[t] = inbox[t]
  BY <1>1
<1>3. ASSUME NEW k \in Sockets, NEW p \in Projects, view'[k][p].known
      PROVE  /\ view'[k][p] = view[k][p] /\ socket[k].server \in Servers
             /\ socket[k].server = s => \A u : Silent(inbox[s], p, u)
  <2>1. socket' = socket
    BY <1>1
  <2>2. /\ view'[k][p] = view[k][p] /\ socket[k].server \in Servers
        /\ socket[k].server \in {s} => \A e \in InTransit(s) : \A u : ~IsAbout(e, p, u)
    BY <1>1, <1>3, <2>1, ListsKeep
  <2>3. QED  BY <2>2 DEF Silent, InTransit
<1>4. Seated'
  BY <1>1, <1>3 DEF Told, Seated, Open
<1>5. UNCHANGED <<socket, active, stranded, outbox>>
  BY <1>1
<1>6. OwnEvents' /\ Reported'
  BY <1>5 DEF Told, OwnEvents, Locals, Reported, Status
<1>7. \A p, u : Covered(p, u)' <=> Covered(p, u)
  BY <1>1 DEF Covered
<1>8. LocalsSettle'
  BY <1>1, <1>2, EmptySays DEF Told, LocalsSettle, Locals, Status
<1>9. GoneSettle'
  BY <1>2, <1>7, EmptySays DEF Told, GoneSettle
<1>10. \A k \in Sockets, p \in Projects : view'[k][p].known =>
        /\ view'[k][p] = view[k][p] /\ view[k][p].known /\ socket'[k] = socket[k]
        /\ \A u : Silent(inbox'[socket[k].server], p, u) <=> Silent(inbox[socket[k].server], p, u)
  BY <1>1, <1>2, <1>3, EmptySays
<1>11. LocalsListed'
  <2> SUFFICES ASSUME NEW k \in Sockets, NEW p \in Projects, view'[k][p].known,
                      NEW u \in Locals(socket[k].server),
                      Silent(outbox[socket[k].server], p, u),
                      Silent(inbox'[socket[k].server], p, u)
               PROVE  u \in view'[k][p].users <=> u \in active[socket[k].server][p]
    BY <1>5 DEF LocalsListed, Locals
  <2>1. QED  BY <1>10 DEF Told, LocalsListed
<1>12. GoneListed'
  BY <1>7, <1>10 DEF Told, GoneListed
<1>13. QED  BY <1>4, <1>6, <1>8, <1>9, <1>11, <1>12 DEF Told

LEMMA SameTold ==
  ASSUME Told, UNCHANGED <<outbox, inbox, socket, active, view, stranded>>
  PROVE  Told'
BY DEF Told, Seated, Open, OwnEvents, Reported, LocalsSettle, LocalsListed, GoneSettle,
       GoneListed, Covered, Locals, Status

LEMMA CrashTold ==
  ASSUME IInv, IInv', Told, NEW s \in Servers, Crash(s)
  PROVE  Told'
<1>1. /\ outbox' = [outbox EXCEPT ![s] = <<>>] /\ inbox' = [inbox EXCEPT ![s] = <<>>]
      /\ active' = [active EXCEPT ![s] = [p \in Projects |-> {}]]
      /\ socket' = [k \in Sockets |-> IF socket[k].server = s THEN NoSocket ELSE socket[k]]
      /\ view' = [k \in Sockets |->
           IF socket[k].server = s THEN [p \in Projects |-> Unknown] ELSE view[k]]
      /\ stranded' = stranded \cup (UNION {active[s][p] : p \in Projects})
                              \cup {outbox[s][i].user : i \in DOMAIN outbox[s]}
  BY DEF Crash, Vanish
<1>2. /\ outbox'[s] = <<>> /\ inbox'[s] = <<>> /\ \A p \in Projects : active'[s][p] = {}
      /\ \A t \in Servers \ {s} : outbox'[t] = outbox[t] /\ inbox'[t] = inbox[t]
                                  /\ active'[t] = active[t]
  BY <1>1 DEF IInv, ChannelInv, ChannelOf, RoomsInv
<1>3. ASSUME NEW k \in Sockets, NEW p \in Projects, view'[k][p].known
      PROVE  /\ view'[k][p] = view[k][p] /\ socket'[k] = socket[k]
             /\ socket[k].server \in Servers \ {s}
  <2>1. socket[k].server # s
    BY <1>1, <1>3 DEF Unknown
  <2>2. view'[k] = view[k] /\ socket'[k] = socket[k]
    BY <1>1, <2>1
  <2>3. QED  BY <1>3, <2>1, <2>2 DEF Told, Seated, Open, IInv, RoomsInv, OnServers
<1>4. Seated'
  <2>1. \A k \in Sockets : socket'[k] = socket[k] \/ socket'[k].server = NoServer
    BY <1>1 DEF NoSocket
  <2>2. QED  BY <1>3, <2>1 DEF Told, Seated, Open
<1>5. OwnEvents'
  <2>1. \A t \in Servers : outbox'[t] = outbox[t] \/ DOMAIN outbox'[t] = {}
    BY <1>2
  <2>2. QED  BY <2>1 DEF Told, OwnEvents, Locals
<1>6. Reported'
  BY <1>2, EmptySays DEF Told, Reported, Status
<1>7. LocalsSettle'
  BY <1>2, EmptySays DEF Told, LocalsSettle, Locals, Status
<1>8. LocalsListed'
  BY <1>2, <1>3 DEF Told, LocalsListed, Locals
<1>9. ASSUME NEW p \in Projects, NEW u \in Users, Covered(p, u)
      PROVE  Covered(p, u)'
  <2>1. u \in active[s][p] => u \in stranded'
    BY <1>1
  <2>2. ~Silent(outbox[s], p, u) => u \in stranded'
    BY <1>1 DEF Silent, IsAbout
  <2>3. QED  BY <1>1, <1>2, <1>9, <2>1, <2>2 DEF Covered
<1>10. GoneSettle'
  <2> SUFFICES ASSUME NEW t \in Servers, NEW p \in Projects, NEW u \in Users,
                      Ends(inbox'[t], p, u, "joined")
               PROVE  Covered(p, u)'
    BY DEF GoneSettle
  <2>1. t # s
    BY <1>2, EmptySays
  <2>2. Ends(inbox[t], p, u, "joined")
    BY <1>2, <2>1
  <2>3. QED  BY <1>9, <2>2 DEF Told, GoneSettle
<1>11. GoneListed'
  <2> SUFFICES ASSUME NEW k \in Sockets, NEW p \in Projects, view'[k][p].known,
                      NEW u \in view'[k][p].users, Silent(inbox'[socket'[k].server], p, u)
               PROVE  Covered(p, u)'
    BY DEF GoneListed
  <2>1. u \in Users
    BY DEF IInv, ClientsInv, ViewType
  <2>2. Covered(p, u)
    BY <1>2, <1>3 DEF Told, GoneListed
  <2>3. QED  BY <1>9, <2>1, <2>2
<1>12. QED  BY <1>4, <1>5, <1>6, <1>7, <1>8, <1>10, <1>11 DEF Told

-----------------------------------------------------------------------------
(* Theorems about presence *)

LEMMA InitTold == Init => Told
<1> SUFFICES ASSUME Init PROVE Told
  OBVIOUS
<1>1. /\ \A s \in Servers : outbox[s] = <<>> /\ inbox[s] = <<>>
      /\ \A k \in Sockets : socket[k] = NoSocket /\ \A p \in Projects : view[k][p] = Unknown
  BY DEF Init, ChannelInit
<1>2. NoSocket.server = NoServer /\ ~Unknown.known
  BY DEF NoSocket, Unknown
<1>3. \A s \in Servers : DOMAIN outbox[s] = {}
  BY <1>1
<1>4. Seated /\ OwnEvents /\ LocalsListed /\ GoneListed
  BY <1>1, <1>2, <1>3 DEF Seated, OwnEvents, LocalsListed, GoneListed
<1>5. Reported /\ LocalsSettle /\ GoneSettle
  BY <1>1, EmptySays DEF Reported, LocalsSettle, GoneSettle
<1>6. QED  BY <1>4, <1>5 DEF Told

LEMMA StepTold == IInv /\ IInv' /\ Told /\ [Move]_vars => Told'
<1> SUFFICES ASSUME IInv, IInv', Told, [Move]_vars PROVE Told'
  OBVIOUS
<1>1. CASE UNCHANGED vars
  BY <1>1, SameTold DEF vars, channel, rooms
<1>2. ASSUME NEW s \in Servers, Reconnect(s) PROVE Told'
  BY <1>2, SameTold DEF Reconnect, Resend, Listen, rooms
<1>3. CASE Next
  BY <1>2, <1>3, SocketStepTold, RelayTold, HandsTold, DeafenTold, CrashTold DEF Next
<1>4. QED  BY <1>1, <1>3, PostTold, HandsTold DEF Move

LEMMA AllTold == Spec => []Told
BY InitTold, StepTold, Steps, Invariant, PTL DEF Spec

LEMMA AllEventsTold == EventsSpec => []Told
BY InitTold, StepTold, Steps, EventsInvariant, PTL DEF EventsSpec, EventsInit

LEMMA ToldMatches == IInv /\ Told => ViewMatchesServer
<1> SUFFICES ASSUME IInv, Told, Quiet, NEW k \in Sockets, NEW p \in Projects, Open(k), view[k][p].known
             PROVE  LET s == socket[k].server IN
                    view[k][p].users \cap Locals(s) = active[s][p] \cap Locals(s)
  BY DEF ViewMatchesServer
<1> DEFINE s == socket[k].server
<1>1. outbox[s] = <<>> /\ inbox[s] = <<>>
  BY DEF Quiet, IInv, RoomsInv, OnServers, Open
<1>2. \A u \in Locals(s) : u \in view[k][p].users <=> u \in active[s][p]
  BY <1>1, EmptySays DEF Told, LocalsListed
<1>3. QED  BY <1>2

LEMMA ToldGone == IInv /\ Told => NobodyGoneIsSeen
<1> SUFFICES ASSUME IInv, Told, Quiet, NEW k \in Sockets, NEW p \in Projects,
                    Open(k), view[k][p].known, NEW u \in view[k][p].users \cap Polite
             PROVE  InRoom(u, p, Servers) # {} \/ u \in stranded
  BY DEF NobodyGoneIsSeen
<1>1. socket[k].server \in Servers
  BY DEF IInv, RoomsInv, OnServers, Open
<1>2. \A s \in Servers : \A q, v : Silent(outbox[s], q, v) /\ Silent(inbox[s], q, v)
  BY EmptySays DEF Quiet
<1>3. Covered(p, u)
  BY <1>1, <1>2 DEF Told, GoneListed
<1>4. u \in stranded \/ \E s \in Servers : u \in active[s][p]
  BY <1>2, <1>3 DEF Covered
<1>5. ASSUME NEW s \in Servers, u \in active[s][p] PROVE InRoom(u, p, Servers) # {}
  <2>1. Here(u, p, s)
    BY <1>5 DEF IInv, PoliteInv, Exact
  <2>2. QED  BY <2>1 DEF Here, InRoom, Open
<1>6. QED  BY <1>4, <1>5

\* Whatever clients do and connections break: when all is delivered, the list
\* of a client that has asked for it has just those of the server's own users
\* that activeUsers has (handleRedisPresenceEvent, handleRequestSync).
THEOREM ListsMatch == Spec => []ViewMatchesServer
BY ToldMatches, Invariant, AllTold, PTL

\* Nobody, of polite users, is for ever shown who is gone, unless a server died
\* before it reported him gone (handleDisconnect, handleRedisPresenceEvent).
THEOREM NobodyGoneSeen == Spec => []NobodyGoneIsSeen
BY ToldGone, Invariant, AllTold, PTL

\* Presence keeps its promises when the updates of projects share its channel
\* (redis-pubsub.service.js).
THEOREM PresenceAmongEvents ==
  EventsSpec => [](PresenceIsExact /\ ViewMatchesServer /\ NobodyGoneIsSeen)
BY ExactIsExact, ToldMatches, ToldGone, EventsInvariant, AllEventsTold, PTL

-----------------------------------------------------------------------------
(* The updates of a project in a queue, and the end of its log *)

OfProject(e, p) == e.channel = "project" /\ e.project = p

Places(q, p) == {i \in DOMAIN q : OfProject(q[i], p)}

Later(q, p, i) == {j \in Places(q, p) : j > i}

\* The updates of p in q are the last ones of l, in their order.
AtEnd(q, p, l) ==
  /\ Cardinality(Places(q, p)) <= Len(l)
  /\ \A i \in Places(q, p) : q[i] = l[Len(l) - Cardinality(Later(q, p, i))]

LEMMA PlacesFinite ==
  ASSUME NEW S, NEW q \in Seq(S), NEW p
  PROVE  /\ IsFiniteSet(Places(q, p)) /\ Cardinality(Places(q, p)) \in Nat
         /\ \A i : IsFiniteSet(Later(q, p, i)) /\ Cardinality(Later(q, p, i)) \in Nat
         /\ \A i \in Places(q, p) : Cardinality(Later(q, p, i)) < Cardinality(Places(q, p))
<1>1. IsFiniteSet(1..Len(q))
  BY FS_Interval
<1>2. Places(q, p) \in SUBSET (1..Len(q))
  BY DEF Places
<1>3. IsFiniteSet(Places(q, p)) /\ Cardinality(Places(q, p)) \in Nat
  BY <1>1, <1>2, FS_Subset, FS_CardinalityType
<1>4. \A i : Later(q, p, i) \in SUBSET Places(q, p)
  BY DEF Later
<1>5. \A i : IsFiniteSet(Later(q, p, i)) /\ Cardinality(Later(q, p, i)) \in Nat
             /\ Cardinality(Later(q, p, i)) <= Cardinality(Places(q, p))
  BY <1>3, <1>4, FS_Subset, FS_CardinalityType
<1>6. \A i \in Places(q, p) : Later(q, p, i) # Places(q, p)
  BY <1>2 DEF Later
<1>7. \A i \in Places(q, p) : Cardinality(Later(q, p, i)) # Cardinality(Places(q, p))
  BY <1>3, <1>4, <1>6, FS_Subset
<1>8. QED  BY <1>3, <1>5, <1>7

LEMMA NoPlaces == \A p, l : /\ Places(<<>>, p) = {} /\ Cardinality({}) = 0
                            /\ Len(l) \in Nat => AtEnd(<<>>, p, l)
<1>1. \A p : Places(<<>>, p) = {}
  BY DEF Places
<1>2. QED  BY <1>1, FS_EmptySet DEF AtEnd

\* Both grow by an update of p, or q by something else.
LEMMA AppendAtEnd ==
  ASSUME NEW S, NEW q \in Seq(S), NEW e \in S, NEW T, NEW l \in Seq(T), NEW p, AtEnd(q, p, l)
  PROVE  /\ OfProject(e, p) /\ e \in T =>
              /\ Cardinality(Places(Append(q, e), p)) = Cardinality(Places(q, p)) + 1
              /\ AtEnd(Append(q, e), p, Append(l, e))
         /\ ~OfProject(e, p) =>
              /\ Cardinality(Places(Append(q, e), p)) = Cardinality(Places(q, p))
              /\ AtEnd(Append(q, e), p, l)
<1> DEFINE r == Append(q, e)
           n == Len(q)
<1>1. /\ DOMAIN q = 1..n /\ DOMAIN r = 1..(n + 1) /\ n \in Nat
      /\ r[n + 1] = e /\ \A i \in 1..n : r[i] = q[i]
  OBVIOUS
<1>2. /\ IsFiniteSet(Places(q, p)) /\ Cardinality(Places(q, p)) \in Nat
      /\ \A i : IsFiniteSet(Later(q, p, i)) /\ Cardinality(Later(q, p, i)) \in Nat
      /\ \A i \in Places(q, p) : Cardinality(Later(q, p, i)) < Cardinality(Places(q, p))
  BY PlacesFinite
<1> HIDE DEF r, n
<1>3. n + 1 \notin Places(q, p) /\ \A i \in Places(q, p) : i \in 1..n /\ n + 1 > i
  BY <1>1 DEF Places
<1>4. CASE OfProject(e, p) /\ e \in T
  <2> DEFINE m == Append(l, e)
  <2>1. /\ Len(l) \in Nat /\ Len(m) = Len(l) + 1 /\ m[Len(l) + 1] = e
        /\ \A i \in 1..Len(l) : m[i] = l[i]
    BY <1>4
  <2> HIDE DEF m
  <2>2. Places(r, p) = Places(q, p) \cup {n + 1}
    BY <1>1, <1>4 DEF Places
  <2>3. Cardinality(Places(r, p)) = Cardinality(Places(q, p)) + 1
    BY <1>2, <1>3, <2>2, FS_AddElement
  <2>4. Later(r, p, n + 1) = {}
    BY <1>1, <1>3, <2>2 DEF Later
  <2>5. \A i \in Places(q, p) : Later(r, p, i) = Later(q, p, i) \cup {n + 1}
    BY <1>3, <2>2 DEF Later
  <2>6. \A i \in Places(q, p) : Cardinality(Later(r, p, i)) = Cardinality(Later(q, p, i)) + 1
    <3>1. \A i : n + 1 \notin Later(q, p, i)
      BY <1>3 DEF Later
    <3>2. QED  BY <1>2, <2>5, <3>1, FS_AddElement
  <2>7. Cardinality(Places(r, p)) <= Len(m)
    BY <1>2, <2>1, <2>3 DEF AtEnd
  <2>8. ASSUME NEW i \in Places(r, p) PROVE r[i] = m[Len(m) - Cardinality(Later(r, p, i))]
    <3>1. CASE i = n + 1
      <4>1. Cardinality(Later(r, p, i)) = 0
        BY <2>4, <3>1, FS_EmptySet
      <4>2. QED  BY <1>1, <2>1, <3>1, <4>1
    <3>2. CASE i # n + 1
      <4> DEFINE c == Cardinality(Later(q, p, i))
      <4>1. i \in Places(q, p) /\ r[i] = q[i]
        BY <1>1, <1>3, <2>2, <3>2
      <4>2. q[i] = l[Len(l) - c] /\ Cardinality(Later(r, p, i)) = c + 1
        BY <2>6, <4>1 DEF AtEnd
      <4>3. c \in Nat /\ c < Cardinality(Places(q, p)) /\ Cardinality(Places(q, p)) <= Len(l)
        BY <1>2, <4>1 DEF AtEnd
      <4> HIDE DEF c
      <4>4. Len(l) - c \in 1..Len(l) /\ Len(m) - (c + 1) = Len(l) - c
        BY <1>2, <2>1, <4>3
      <4>5. QED  BY <2>1, <4>1, <4>2, <4>4
    <3>3. QED  BY <3>1, <3>2
  <2>9. QED  BY <1>4, <2>3, <2>7, <2>8 DEF AtEnd, r, m
<1>5. CASE ~OfProject(e, p)
  <2>1. Places(r, p) = Places(q, p)
    BY <1>1, <1>5 DEF Places
  <2>2. \A i : Later(r, p, i) = Later(q, p, i)
    BY <2>1 DEF Later
  <2>3. \A i \in Places(q, p) : r[i] = q[i]
    BY <1>1, <1>3
  <2>4. QED  BY <1>5, <2>1, <2>2, <2>3 DEF AtEnd, r
<1>6. QED  BY <1>4, <1>5

LEMMA Shift ==
  ASSUME NEW n \in Nat, NEW A \in SUBSET (2..n + 1), NEW B \in SUBSET (1..n),
         \A i \in 1..n : i \in B <=> i + 1 \in A
  PROVE  Cardinality(B) = Cardinality(A)
<1> DEFINE f == [i \in B |-> i + 1]
<1>1. IsFiniteSet(B)
  <2>1. IsFiniteSet(1..n) /\ B \in SUBSET (1..n)
    BY FS_Interval
  <2>2. QED  BY <2>1, FS_Subset
<1>2. f \in [B -> A]
  OBVIOUS
<1>3. \A i, j \in B : f[i] = f[j] => i = j
  OBVIOUS
<1>4. \A a \in A : a - 1 \in B /\ f[a - 1] = a
  <2> SUFFICES ASSUME NEW a \in A PROVE a - 1 \in B /\ f[a - 1] = a
    OBVIOUS
  <2>1. a - 1 \in 1..n /\ (a - 1) + 1 = a
    OBVIOUS
  <2>2. a - 1 \in B
    BY <2>1
  <2>3. QED  BY <2>1, <2>2
<1> HIDE DEF f
<1>5. f \in Bijection(B, A)
  BY <1>2, <1>3, <1>4 DEF Bijection, Injection, Surjection, IsInjective
<1>6. QED  BY <1>1, <1>5, FS_Bijection DEF ExistsBijection

LEMMA TailAtEnd ==
  ASSUME NEW S, NEW q \in Seq(S), q # <<>>, NEW T, NEW l \in Seq(T), NEW p, AtEnd(q, p, l)
  PROVE  /\ AtEnd(Tail(q), p, l)
         /\ OfProject(Head(q), p) =>
              /\ Cardinality(Places(q, p)) = Cardinality(Places(Tail(q), p)) + 1
              /\ Head(q) = l[Len(l) - Cardinality(Places(Tail(q), p))]
         /\ ~OfProject(Head(q), p) => Cardinality(Places(q, p)) = Cardinality(Places(Tail(q), p))
<1> DEFINE r == Tail(q)
           n == Len(q) - 1
<1>1. /\ n \in Nat /\ DOMAIN q = 1..(n + 1) /\ DOMAIN r = 1..n
      /\ Head(q) = q[1] /\ \A i \in 1..n : r[i] = q[i + 1]
      /\ r \in Seq(S)
  OBVIOUS
<1>2. /\ IsFiniteSet(Places(q, p)) /\ Cardinality(Places(q, p)) \in Nat
      /\ \A i : IsFiniteSet(Later(q, p, i)) /\ Cardinality(Later(q, p, i)) \in Nat
  BY PlacesFinite
<1> HIDE DEF r, n
<1>3. \A i \in 1..n : i \in Places(r, p) <=> i + 1 \in Places(q, p)
  BY <1>1 DEF Places
<1>4. Places(r, p) \subseteq 1..n /\ Places(q, p) \subseteq 1..(n + 1)
  BY <1>1 DEF Places
<1>5. Cardinality(Places(r, p)) = Cardinality(Places(q, p) \ {1})
  <2> DEFINE A == Places(q, p) \ {1}
  <2>1. A \in SUBSET (2..n + 1) /\ Places(r, p) \in SUBSET (1..n)
    BY <1>1, <1>4
  <2>2. \A i \in 1..n : i \in Places(r, p) <=> i + 1 \in A
    BY <1>3
  <2> HIDE DEF A
  <2>3. Cardinality(Places(r, p)) = Cardinality(A)
    BY <1>1, <2>1, <2>2, Shift
  <2>4. QED  BY <2>3 DEF A
<1>6. \A i \in 1..n : Cardinality(Later(r, p, i)) = Cardinality(Later(q, p, i + 1))
  <2> SUFFICES ASSUME NEW i \in 1..n
               PROVE  Cardinality(Later(r, p, i)) = Cardinality(Later(q, p, i + 1))
    OBVIOUS
  <2>1. /\ Later(r, p, i) \in SUBSET (1..n)
        /\ Later(q, p, i + 1) \in SUBSET (2..n + 1)
        /\ \A j \in 1..n : j \in Later(r, p, i) <=> j + 1 \in Later(q, p, i + 1)
    BY <1>1, <1>3, <1>4 DEF Later
  <2> DEFINE B == Later(r, p, i)
             A == Later(q, p, i + 1)
  <2> HIDE DEF A, B
  <2>2. /\ B \in SUBSET (1..n) /\ A \in SUBSET (2..n + 1)
        /\ \A j \in 1..n : j \in B <=> j + 1 \in A
    BY <2>1 DEF A, B
  <2>3. n \in Nat
    BY <1>1
  <2>4. Cardinality(B) = Cardinality(A)
    BY <2>2, <2>3, Shift
  <2>5. QED  BY <2>4 DEF A, B
<1>7. Later(q, p, 1) = Places(q, p) \ {1}
  BY <1>1, <1>4 DEF Later
<1>8. 1 \in Places(q, p) <=> OfProject(Head(q), p)
  BY <1>1 DEF Places
<1>9. Cardinality(Places(q, p) \ {1}) = IF OfProject(Head(q), p) THEN Cardinality(Places(q, p)) - 1
                                                                 ELSE Cardinality(Places(q, p))
  BY <1>2, <1>8, FS_RemoveElement
<1>10. ASSUME NEW i \in Places(r, p) PROVE r[i] = l[Len(l) - Cardinality(Later(r, p, i))]
  <2>1. i \in 1..n /\ i + 1 \in Places(q, p) /\ r[i] = q[i + 1]
    BY <1>1, <1>3, <1>4
  <2>2. q[i + 1] = l[Len(l) - Cardinality(Later(q, p, i + 1))]
    BY <2>1 DEF AtEnd
  <2>3. QED  BY <1>6, <2>1, <2>2
<1>11. AtEnd(r, p, l)
  <2>1. Cardinality(Places(r, p)) <= Cardinality(Places(q, p)) /\ Cardinality(Places(r, p)) \in Nat
    BY <1>1, <1>2, <1>5, <1>9, PlacesFinite
  <2>2. Len(l) \in Nat
    OBVIOUS
  <2>3. QED  BY <1>2, <1>10, <2>1, <2>2 DEF AtEnd
<1>12. OfProject(Head(q), p) => Head(q) = l[Len(l) - Cardinality(Places(r, p))]
  <2>1. OfProject(Head(q), p) => q[1] = l[Len(l) - Cardinality(Later(q, p, 1))]
    BY <1>8 DEF AtEnd
  <2>2. QED  BY <1>1, <1>5, <1>7, <2>1
<1>13. QED  BY <1>2, <1>5, <1>9, <1>11, <1>12 DEF r

-----------------------------------------------------------------------------
(* The log and what the clients receive *)

LogInv ==
  /\ log \in [Projects -> Seq(Updates)]
  /\ received \in [Sockets -> [Projects -> Seq(Updates)]]
  /\ \A p \in Projects : \A i \in DOMAIN log[p] : log[p][i].project = p

LEMMA StreamsTyped ==
  ASSUME LogInv, NEW S, NEW es, received' = Streams(S, es)
  PROVE  received' \in [Sockets -> [Projects -> Seq(Updates)]]
<1>1. \A k \in Sockets, p \in Projects : received[k][p] \in Seq(Updates) /\ <<>> \in Seq(Updates)
  BY DEF LogInv
<1>2. QED  BY <1>1 DEF Streams

\* Redis executes an event.
LEMMA RelayLogs ==
  ASSUME IInv, LogInv, NEW s \in Servers, RelayAny(s), NEW p \in Projects
  PROVE  LET e == Upcoming(s) IN
         /\ e \in Events /\ UNCHANGED <<socket, listening>>
         /\ OfProject(e, p) => e \in Updates /\ log'[p] = Append(log[p], e)
         /\ ~OfProject(e, p) => log'[p] = log[p]
         /\ \A t \in Servers : IF t \in listening THEN inbox'[t] = Append(inbox[t], e)
                                                  ELSE inbox[t] = <<>> /\ inbox'[t] = <<>>
<1> DEFINE e == Upcoming(s)
<1>1. /\ executed[s] < Len(outbox[s]) /\ PassedOn(e) /\ UNCHANGED <<socket, listening>>
      /\ log' = IF e.channel = "project" THEN [log EXCEPT ![e.project] = Append(@, e)] ELSE log
  BY DEF RelayAny, Relay, Execute, ExecuteUnanswered, IInv, ChannelInv, ChannelOf
<1>2. e \in Events
  BY <1>1, UpcomingTyped DEF IInv, ChannelInv
<1>3. /\ e.project \in Projects
      /\ e.channel = "project" => e \in Updates
  BY <1>2, EventsAre
<1>4. \A t \in Servers : t \notin listening => inbox[t] = <<>>
  BY DEF IInv, ChannelInv, ChannelOf
<1> HIDE DEF e
<1>5. QED  BY <1>1, <1>2, <1>3, <1>4 DEF PassedOn, LogInv, OfProject, e

LEMMA LogKept ==
  ASSUME IInv, LogInv, [EventsNext]_eventVars
  PROVE  LogInv'
<1>1. received \in [Sockets -> [Projects -> Seq(Updates)]] /\ <<>> \in Seq(Updates)
  BY DEF LogInv
<1>2. CASE UNCHANGED <<log, received>>
  BY <1>2 DEF LogInv
<1>3. ASSUME UNCHANGED log, received' \in [Sockets -> [Projects -> Seq(Updates)]] PROVE LogInv'
  BY <1>3 DEF LogInv
<1>4. ASSUME NEW k \in Sockets, NEW P, Forget(k, P), UNCHANGED log PROVE LogInv'
  BY <1>1, <1>3, <1>4 DEF Forget
<1>5. ASSUME NEW s \in Servers, RelayAny(s) PROVE LogInv'
  <2>1. received' \in [Sockets -> [Projects -> Seq(Updates)]]
    BY <1>5, StreamsTyped DEF RelayAny
  <2>2. log' \in [Projects -> Seq(Updates)]
    <3> DEFINE e == Upcoming(s)
    <3>1. /\ e.channel = "project" => e \in Updates /\ e.project \in Projects
          /\ log' = IF e.channel = "project" THEN [log EXCEPT ![e.project] = Append(@, e)] ELSE log
      <4>1. e \in Events
        <5>1. executed[s] < Len(outbox[s])
          BY <1>5 DEF RelayAny, Relay, Execute, ExecuteUnanswered, IInv, ChannelInv, ChannelOf
        <5>2. QED  BY <5>1, UpcomingTyped DEF IInv, ChannelInv
      <4>2. QED  BY <1>5, <4>1, EventsAre DEF RelayAny
    <3> HIDE DEF e
    <3>2. \A p \in Projects : log[p] \in Seq(Updates)
      BY DEF LogInv
    <3>3. e.channel = "project" => Append(log[e.project], e) \in Seq(Updates)
      BY <3>1, <3>2
    <3>4. QED  BY <3>1, <3>3 DEF LogInv
  <2>3. ASSUME NEW p \in Projects, NEW i \in DOMAIN log'[p] PROVE log'[p][i].project = p
    <3>1. log[p] \in Seq(Updates) /\ \A j \in DOMAIN log[p] : log[p][j].project = p
      BY DEF LogInv
    <3>2. CASE OfProject(Upcoming(s), p)
      <4>1. log'[p] = Append(log[p], Upcoming(s)) /\ Upcoming(s).project = p
        BY <1>5, <3>2, RelayLogs DEF OfProject
      <4>2. QED  BY <2>3, <3>1, <4>1
    <3>3. CASE ~OfProject(Upcoming(s), p)
      BY <1>5, <2>3, <3>1, <3>3, RelayLogs
    <3>4. QED  BY <3>2, <3>3
  <2>4. QED  BY <2>1, <2>2, <2>3 DEF LogInv
<1>6. ASSUME NEW s \in Servers, DeliverUpdate(s) PROVE LogInv'
  <2> DEFINE e == Head(inbox[s])
  <2>1. e \in Updates /\ e.project \in Projects
    <3>1. e \in Events /\ e.channel = "project"
      BY <1>6 DEF DeliverUpdate, Handle, IInv, ChannelInv, ChannelOf
    <3>2. QED  BY <3>1, EventsAre
  <2>2. UNCHANGED log /\ received' = [k \in Sockets |->
          IF k \in Audience(s, e.project)
          THEN [received[k] EXCEPT ![e.project] = Append(@, e)] ELSE received[k]]
    BY <1>6 DEF DeliverUpdate
  <2> HIDE DEF e
  <2>3. \A k \in Sockets :
          [received[k] EXCEPT ![e.project] = Append(@, e)] \in [Projects -> Seq(Updates)]
    <3> SUFFICES ASSUME NEW k \in Sockets
                 PROVE  [received[k] EXCEPT ![e.project] = Append(@, e)] \in [Projects -> Seq(Updates)]
      OBVIOUS
    <3>1. received[k] \in [Projects -> Seq(Updates)]
      BY <1>1
    <3>2. Append(received[k][e.project], e) \in Seq(Updates)
      BY <2>1, <3>1
    <3>3. QED  BY <3>1, <3>2
  <2>4. QED  BY <1>1, <1>3, <2>2, <2>3
<1>7. ASSUME NEW s \in Servers, DeafenAll(s) PROVE LogInv'
  BY <1>3, <1>7, StreamsTyped DEF DeafenAll
<1>8. ASSUME NEW s \in Servers, CrashAll(s) PROVE LogInv'
  BY <1>1, <1>3, <1>8 DEF CrashAll
<1>9. ASSUME NEW k \in Sockets, ClientStep(k) PROVE LogInv'
  BY <1>2, <1>4, <1>9 DEF ClientStep, SendUpdate
<1>10. ASSUME NEW s \in Servers, ServerStep(s) PROVE LogInv'
  BY <1>2, <1>5, <1>6, <1>7, <1>8, <1>10 DEF ServerStep
<1>11. QED  BY <1>2, <1>9, <1>10 DEF EventsNext, eventVars

LEMMA LogInvariant == EventsSpec => []LogInv
<1>1. EventsInit => LogInv
  BY DEF EventsInit, LogInv
<1>2. QED  BY <1>1, LogKept, EventsInvariant, PTL DEF EventsSpec

\* Redis and the clients get updates of the project they are logged for
\* (handleFileChange, handleRedisProjectEvent).
THEOREM EventsTypeCorrect == EventsSpec => []EventsTypeOK
<1>1. IInv /\ LogInv => EventsTypeOK
  BY DEF IInv, ChannelInv, ChannelOf, Events, LogInv, EventsTypeOK
<1>2. QED  BY <1>1, EventsInvariant, LogInvariant, PTL

-----------------------------------------------------------------------------
(* What the clients have received, and the log *)

\* r is in l just before its last n members.
Got(r, l, n) ==
  /\ Len(r) + n <= Len(l)
  /\ \A i \in 1..Len(r) : r[i] = l[Len(l) - n - Len(r) + i]

LEMMA GotLogged ==
  ASSUME NEW T, NEW r \in Seq(T), NEW l \in Seq(T), NEW n \in Nat, NEW e \in T, Got(r, l, n)
  PROVE  Got(r, Append(l, e), n + 1)
<1> DEFINE m == Append(l, e)
<1>1. /\ Len(l) \in Nat /\ Len(m) = Len(l) + 1 /\ Len(r) \in Nat
      /\ \A i \in 1..Len(l) : m[i] = l[i]
  OBVIOUS
<1> HIDE DEF m
<1>2. ASSUME NEW i \in 1..Len(r) PROVE r[i] = m[Len(m) - (n + 1) - Len(r) + i]
  <2>1. r[i] = l[Len(l) - n - Len(r) + i] /\ Len(r) + n <= Len(l)
    BY DEF Got
  <2>2. /\ Len(l) - n - Len(r) + i \in 1..Len(l)
        /\ Len(m) - (n + 1) - Len(r) + i = Len(l) - n - Len(r) + i
    BY <1>1, <2>1
  <2>3. QED  BY <1>1, <2>1, <2>2
<1>3. Len(r) + (n + 1) <= Len(m)
  BY <1>1 DEF Got
<1>4. QED  BY <1>2, <1>3 DEF Got, m

LEMMA GotNext ==
  ASSUME NEW T, NEW r \in Seq(T), NEW l \in Seq(T), NEW n \in Nat, NEW e \in T,
         Got(r, l, n + 1), e = l[Len(l) - n]
  PROVE  Got(Append(r, e), l, n)
<1> DEFINE m == Append(r, e)
<1>1. /\ Len(l) \in Nat /\ Len(m) = Len(r) + 1 /\ Len(r) \in Nat /\ m[Len(r) + 1] = e
      /\ \A i \in 1..Len(r) : m[i] = r[i]
  OBVIOUS
<1> HIDE DEF m
<1>2. ASSUME NEW i \in 1..Len(m) PROVE m[i] = l[Len(l) - n - Len(m) + i]
  <2>1. CASE i = Len(r) + 1
    <3>1. Len(l) - n - Len(m) + i = Len(l) - n
      BY <1>1, <2>1
    <3>2. QED  BY <1>1, <2>1, <3>1
  <2>2. CASE i # Len(r) + 1
    <3>1. i \in 1..Len(r) /\ Len(l) - n - Len(m) + i = Len(l) - (n + 1) - Len(r) + i
      BY <1>1, <2>2
    <3>2. QED  BY <1>1, <3>1 DEF Got
  <2>3. QED  BY <2>1, <2>2
<1>3. Len(m) + n <= Len(l)
  BY <1>1 DEF Got
<1>4. QED  BY <1>2, <1>3 DEF Got, m

LEMMA GotIsSuffix ==
  ASSUME NEW T, NEW r \in Seq(T), NEW l \in Seq(T), NEW n \in Nat, Got(r, l, n)
  PROVE  IsSuffix(r, SubSeq(l, 1, Len(l) - n))
<1> DEFINE m == SubSeq(l, 1, Len(l) - n)
           a == Reverse(r)
           b == Reverse(m)
<1>1. /\ Len(l) \in Nat /\ Len(r) \in Nat /\ Len(r) + n <= Len(l)
      /\ \A i \in 1..Len(r) : r[i] = l[Len(l) - n - Len(r) + i]
  BY DEF Got
<1>2. m \in Seq(T) /\ Len(m) = Len(l) - n /\ \A i \in 1..Len(m) : m[i] = l[i]
  BY <1>1
<1> HIDE DEF m
<1>3. a \in Seq(T) /\ Len(a) = Len(r) /\ \A i \in 1..Len(r) : a[i] = r[Len(r) - i + 1]
  BY <1>1 DEF Reverse
<1>4. b \in Seq(T) /\ Len(b) = Len(m) /\ \A i \in 1..Len(m) : b[i] = m[Len(m) - i + 1]
  BY <1>2 DEF Reverse
<1>5. Len(a) <= Len(b)
  BY <1>1, <1>2, <1>3, <1>4
<1> HIDE DEF a, b
<1>6. ASSUME NEW i \in 1..Len(a) PROVE a[i] = b[i]
  <2>1. Len(r) - i + 1 \in 1..Len(r) /\ Len(m) - i + 1 \in 1..Len(m) /\ i \in 1..Len(m)
    BY <1>1, <1>2, <1>3, <1>5
  <2>2. a[i] = r[Len(r) - i + 1] /\ b[i] = m[Len(m) - i + 1]
    BY <1>3, <1>4, <2>1
  <2>3. m[Len(m) - i + 1] = l[Len(m) - i + 1]
    BY <1>2, <2>1
  <2>4. r[Len(r) - i + 1] = l[Len(l) - n - Len(r) + (Len(r) - i + 1)]
    BY <1>1, <2>1
  <2>5. Len(l) - n - Len(r) + (Len(r) - i + 1) = Len(m) - i + 1
    BY <1>1, <1>2, <2>1
  <2>6. QED  BY <2>2, <2>3, <2>4, <2>5
<1>7. SubSeq(a, 1, Len(a)) = SubSeq(b, 1, Len(a))
  BY <1>3, <1>4, <1>5, <1>6
<1>8. QED  BY <1>5, <1>7 DEF IsSuffix, IsPrefix, a, b, m

InRoomOf(k, p) == socket[k].open /\ p \in socket[k].rooms

\* How many updates of p are on the way to the clients of s.
Due(s, p) == Cardinality(Places(inbox[s], p))

DueNext(s, p) == Cardinality(Places(inbox'[s], p))

Streaming ==
  /\ \A s \in Servers, p \in Projects : AtEnd(inbox[s], p, log[p])
  /\ \A k \in Sockets, p \in Projects :
       /\ ~InRoomOf(k, p) => received[k][p] = <<>>
       /\ InRoomOf(k, p) => Got(received[k][p], log[p], Due(socket[k].server, p))

\* What client k has received of p is nothing, or as it was, or one more.
Goes(k, p) ==
  LET s == socket[k].server IN
  \/ received'[k][p] = <<>>
  \/ /\ InRoomOf(k, p) /\ InRoomOf(k, p)' /\ socket'[k].server = s
     /\ \/ /\ received'[k][p] = received[k][p]
           /\ \/ log'[p] = log[p] /\ DueNext(s, p) = Due(s, p)
              \/ \E e \in Updates : log'[p] = Append(log[p], e) /\ DueNext(s, p) = Due(s, p) + 1
        \/ \E e \in Updates : /\ received'[k][p] = Append(received[k][p], e)
                              /\ log'[p] = log[p] /\ Due(s, p) = DueNext(s, p) + 1
                              /\ e = log[p][Len(log[p]) - DueNext(s, p)]

LEMMA GoesOn ==
  ASSUME IInv, IInv', LogInv, LogInv', Streaming,
         \A s \in Servers, p \in Projects : AtEnd(inbox[s], p, log[p])',
         \A k \in Sockets, p \in Projects :
           Goes(k, p) /\ (~InRoomOf(k, p)' => received'[k][p] = <<>>)
  PROVE  Streaming'
<1> SUFFICES ASSUME NEW k \in Sockets, NEW p \in Projects, InRoomOf(k, p)'
             PROVE  Got(received'[k][p], log'[p], DueNext(socket'[k].server, p))
  BY DEF Streaming, Due, DueNext
<1> DEFINE s == socket[k].server
           r == received[k][p]
           l == log[p]
<1>1. socket'[k].server \in Servers
  BY DEF IInv, RoomsInv, OnServers, InRoomOf
<1>2. r \in Seq(Updates) /\ l \in Seq(Updates) /\ log'[p] \in Seq(Updates)
  BY DEF LogInv
<1>3. CASE received'[k][p] = <<>>
  <2>1. inbox'[socket'[k].server] \in Seq(Events)
    BY <1>1 DEF IInv, ChannelInv, ChannelOf
  <2>2. DueNext(socket'[k].server, p) \in Nat
    BY <2>1, PlacesFinite DEF DueNext
  <2>3. DueNext(socket'[k].server, p) <= Len(log'[p])
    BY <1>1 DEF AtEnd, DueNext
  <2>4. QED  BY <1>2, <1>3, <2>2, <2>3 DEF Got
<1>4. CASE InRoomOf(k, p) /\ socket'[k].server = s
  <2>1. s \in Servers /\ Got(r, l, Due(s, p))
    BY <1>1, <1>4 DEF Streaming
  <2>2. inbox[s] \in Seq(Events) /\ inbox'[s] \in Seq(Events)
    BY <2>1 DEF IInv, ChannelInv, ChannelOf
  <2>3. Due(s, p) \in Nat /\ DueNext(s, p) \in Nat
    BY <2>2, PlacesFinite DEF Due, DueNext
  <2>4. CASE received'[k][p] = r /\ log'[p] = l /\ DueNext(s, p) = Due(s, p)
    BY <1>4, <2>1, <2>4
  <2>5. ASSUME NEW e \in Updates, received'[k][p] = r, log'[p] = Append(l, e),
               DueNext(s, p) = Due(s, p) + 1
        PROVE  Got(received'[k][p], log'[p], DueNext(s, p))
    BY <1>2, <2>1, <2>3, <2>5, GotLogged
  <2>6. ASSUME NEW e \in Updates, received'[k][p] = Append(r, e), log'[p] = l,
               Due(s, p) = DueNext(s, p) + 1, e = l[Len(l) - DueNext(s, p)]
        PROVE  Got(received'[k][p], log'[p], DueNext(s, p))
    BY <1>2, <2>1, <2>3, <2>6, GotNext
  <2>7. QED  BY <1>3, <1>4, <2>4, <2>5, <2>6 DEF Goes
<1>5. QED  BY <1>3, <1>4 DEF Goes

-----------------------------------------------------------------------------
(* Steps: what is received *)

\* Clients come and go, and what is on its way to those who stay is no less.
LEMMA NobodyServed ==
  ASSUME IInv, IInv', LogInv, LogInv', Streaming, UNCHANGED log,
         \A s \in Servers, p \in Projects : AtEnd(inbox'[s], p, log[p]),
         \A k \in Sockets, p \in Projects :
           received'[k][p] # <<>> => /\ InRoomOf(k, p)' /\ socket'[k].server = socket[k].server
                                     /\ received'[k][p] = received[k][p]
                                     /\ InRoomOf(k, p) =>
                                          DueNext(socket[k].server, p) = Due(socket[k].server, p)
  PROVE  Streaming'
<1>1. \A k \in Sockets, p \in Projects :
        Goes(k, p) /\ (~InRoomOf(k, p)' => received'[k][p] = <<>>)
  BY DEF Goes, Streaming
<1>2. QED  BY <1>1, GoesOn

\* What a client that is in a room finds on the way to it.
LEMMA SameInbox ==
  ASSUME NEW s, NEW p, inbox'[s] = inbox[s]
  PROVE  DueNext(s, p) = Due(s, p)
BY DEF Due, DueNext

LEMMA ClientStreams ==
  ASSUME IInv, IInv', LogInv, LogInv', Streaming, NEW k \in Sockets, ClientStep(k)
  PROVE  Streaming'
<1>1. UNCHANGED <<log, inbox>>
  BY DEF ClientStep, Connect, AskJoin, JoinChecked, Sync, Leave, Disconnect, SendUpdate,
         channel, Broadcast, Send
<1>2. received \in [Sockets -> [Projects -> Seq(Updates)]] /\ socket \in [Sockets -> SocketType]
  BY DEF LogInv, IInv, RoomsInv
<1>3. \A q \in Projects : received'[k][q] # <<>> =>
        received'[k][q] = received[k][q] /\ (InRoomOf(k, q) => InRoomOf(k, q)' /\ socket'[k].server = socket[k].server)
  <2>1. CASE UNCHANGED <<socket, received>>
    BY <2>1 DEF InRoomOf
  <2>2. ASSUME NEW s \in Servers, Connect(k, s), UNCHANGED received
        PROVE  UNCHANGED received /\ \A q : ~InRoomOf(k, q)
    BY <2>2 DEF Connect, Open, InRoomOf
  <2>3. ASSUME NEW p \in Projects, JoinChecked(k, p), UNCHANGED received
        PROVE  /\ UNCHANGED received
               /\ \A q : InRoomOf(k, q) => InRoomOf(k, q)' /\ socket'[k].server = socket[k].server
    <3>1. \/ socket' = [socket EXCEPT ![k] = InProject(k, p)]
          \/ ~Open(k) \/ socket' = socket
      BY <1>2, <2>3 DEF JoinChecked
    <3>2. CASE Open(k) /\ socket' = [socket EXCEPT ![k] = InProject(k, p)]
      <4>1. socket'[k] = [socket[k] EXCEPT !.rooms = @ \cup {p}, !.current = p] /\ socket[k] \in SocketType
        BY <1>2, <3>2 DEF InProject
      <4>2. QED  BY <2>3, <4>1 DEF InRoomOf, SocketType
    <3>3. QED  BY <2>3, <3>1, <3>2 DEF InRoomOf, Open
  <2>4. ASSUME NEW p \in Projects, Leave(k, p), Forget(k, {p})
        PROVE  \A q \in Projects : received'[k][q] # <<>> =>
                 /\ received'[k][q] = received[k][q]
                 /\ InRoomOf(k, q) => InRoomOf(k, q)' /\ socket'[k].server = socket[k].server
    <3>1. /\ socket[k] \in SocketType /\ socket'[k] = [socket[k] EXCEPT !.rooms = @ \ {p}]
      BY <1>2, <2>4 DEF Leave
    <3>2. \A q \in Projects : received'[k][q] = IF q = p THEN <<>> ELSE received[k][q]
      BY <1>2, <2>4 DEF Forget
    <3>3. QED  BY <3>1, <3>2 DEF InRoomOf, SocketType
  <2>5. ASSUME Forget(k, Projects)
        PROVE  \A q \in Projects : received'[k][q] = <<>>
    BY <1>2, <2>5 DEF Forget
  <2>6. QED
    BY <2>1, <2>2, <2>3, <2>4, <2>5 DEF ClientStep, AskJoin, Sync, SendUpdate
<1>4. \A l \in Sockets \ {k} : socket'[l] = socket[l] /\ received'[l] = received[l]
  BY <1>2 DEF ClientStep, Connect, AskJoin, JoinChecked, Sync, Leave, Disconnect, SendUpdate, Forget
<1>5. ASSUME NEW l \in Sockets, NEW p \in Projects, received'[l][p] # <<>>
      PROVE  /\ InRoomOf(l, p)' /\ socket'[l].server = socket[l].server
             /\ received'[l][p] = received[l][p]
  <2>1. received'[l][p] = received[l][p]
    BY <1>3, <1>4, <1>5
  <2>2. InRoomOf(l, p)
    BY <1>5, <2>1 DEF Streaming
  <2>3. QED  BY <1>3, <1>4, <1>5, <2>1, <2>2 DEF InRoomOf
<1>6. \A s, p : DueNext(s, p) = Due(s, p)
  BY <1>1, SameInbox
<1>7. \A s \in Servers, p \in Projects : AtEnd(inbox'[s], p, log[p])
  BY <1>1 DEF Streaming
<1>8. QED  BY <1>1, <1>5, <1>6, <1>7, NobodyServed

LEMMA RelayStreams ==
  ASSUME IInv, IInv', LogInv, LogInv', Streaming, NEW s \in Servers, RelayAny(s)
  PROVE  Streaming'
<1> DEFINE e == Upcoming(s)
<1>1. ASSUME NEW t \in Servers, NEW p \in Projects
      PROVE  /\ e \in Events /\ inbox[t] \in Seq(Events) /\ log[p] \in Seq(Updates)
             /\ AtEnd(inbox[t], p, log[p]) /\ UNCHANGED <<socket, listening>>
             /\ OfProject(e, p) => e \in Updates /\ log'[p] = Append(log[p], e)
             /\ ~OfProject(e, p) => log'[p] = log[p]
             /\ IF t \in listening THEN inbox'[t] = Append(inbox[t], e)
                                   ELSE inbox[t] = <<>> /\ inbox'[t] = <<>>
  BY RelayLogs DEF Streaming, IInv, ChannelInv, ChannelOf, LogInv
<1>2. received' = Streams(Servers \ listening, {e})
  BY DEF RelayAny
<1> HIDE DEF e
<1>3. ASSUME NEW t \in Servers, NEW p \in Projects
      PROVE  /\ AtEnd(inbox'[t], p, log'[p])
             /\ t \in listening /\ OfProject(e, p) => DueNext(t, p) = Due(t, p) + 1
             /\ ~OfProject(e, p) => DueNext(t, p) = Due(t, p)
  <2>1. CASE t \notin listening
    <3>1. log'[p] \in Seq(Updates)
      BY DEF LogInv
    <3>2. inbox[t] = <<>> /\ inbox'[t] = <<>> /\ Len(log'[p]) \in Nat
      BY <1>1, <2>1, <3>1
    <3>3. QED  BY <2>1, <3>2, NoPlaces DEF Due, DueNext
  <2>2. CASE t \in listening
    <3>1. /\ e \in Events /\ inbox[t] \in Seq(Events) /\ log[p] \in Seq(Updates)
          /\ AtEnd(inbox[t], p, log[p]) /\ inbox'[t] = Append(inbox[t], e)
          /\ OfProject(e, p) => e \in Updates /\ log'[p] = Append(log[p], e)
          /\ ~OfProject(e, p) => log'[p] = log[p]
      BY <1>1, <2>2
    <3>2. CASE OfProject(e, p)
      <4> DEFINE q == inbox[t]
                 l == log[p]
      <4>1. /\ e \in Events /\ q \in Seq(Events) /\ l \in Seq(Updates) /\ e \in Updates
            /\ AtEnd(q, p, l) /\ OfProject(e, p)
        BY <3>1, <3>2
      <4> HIDE DEF q, l
      <4>2. /\ Cardinality(Places(Append(q, e), p)) = Cardinality(Places(q, p)) + 1
            /\ AtEnd(Append(q, e), p, Append(l, e))
        BY <4>1, AppendAtEnd
      <4>3. inbox'[t] = Append(q, e) /\ log'[p] = Append(l, e)
        BY <3>1, <3>2 DEF q, l
      <4>4. QED  BY <3>2, <4>2, <4>3 DEF Due, DueNext, q
    <3>3. CASE ~OfProject(e, p)
      <4>1. /\ Cardinality(Places(inbox'[t], p)) = Cardinality(Places(inbox[t], p))
            /\ AtEnd(inbox'[t], p, log'[p])
        BY <3>1, <3>3, AppendAtEnd
      <4>2. QED  BY <3>3, <4>1 DEF Due, DueNext
    <3>4. QED  BY <3>2, <3>3
  <2>3. QED  BY <2>1, <2>2
<1>4. ASSUME NEW k \in Sockets, NEW p \in Projects
      PROVE  Goes(k, p) /\ (~InRoomOf(k, p)' => received'[k][p] = <<>>)
  <2> DEFINE t == socket[k].server
  <2>1. received'[k][p] = IF /\ \E r \in Servers \ listening : k \in Audience(r, p)
                             /\ OfProject(e, p)
                          THEN <<>> ELSE received[k][p]
    BY <1>2 DEF Streams, OfProject
  <2>2. UNCHANGED <<socket>>
    BY DEF RelayAny, Relay
  <2>3. CASE ~InRoomOf(k, p)
    BY <2>1, <2>2, <2>3 DEF Streaming, Goes, InRoomOf
  <2>4. CASE InRoomOf(k, p)
    <3>1. t \in Servers /\ InRoomOf(k, p)' /\ k \in Audience(t, p)
      BY <2>2, <2>4 DEF IInv, RoomsInv, OnServers, InRoomOf, Audience, Open
    <3>2. CASE OfProject(e, p) /\ t \notin listening
      BY <2>1, <3>1, <3>2 DEF Goes
    <3>3. CASE OfProject(e, p) /\ t \in listening
      <4>1. received'[k][p] = received[k][p] \/ received'[k][p] = <<>>
        BY <2>1
      <4>2. e \in Updates /\ log'[p] = Append(log[p], e) /\ DueNext(t, p) = Due(t, p) + 1
        BY <1>1, <1>3, <3>1, <3>3
      <4>3. QED  BY <2>2, <2>4, <3>1, <4>1, <4>2 DEF Goes
    <3>4. CASE ~OfProject(e, p)
      <4>1. received'[k][p] = received[k][p] /\ log'[p] = log[p] /\ DueNext(t, p) = Due(t, p)
        BY <1>1, <1>3, <2>1, <3>1, <3>4
      <4>2. QED  BY <2>2, <2>4, <3>1, <4>1 DEF Goes
    <3>5. QED  BY <3>1, <3>2, <3>3, <3>4
  <2>5. QED  BY <2>3, <2>4
<1>5. QED  BY <1>3, <1>4, GoesOn

\* s hands its next event to its clients.
LEMMA HandMovesUpdates ==
  ASSUME IInv, LogInv, Streaming, NEW s \in Servers, Handle(s), UNCHANGED log, NEW p \in Projects
  PROVE  LET e == Head(inbox[s]) IN
         /\ e \in Events
         /\ \A t \in Servers : AtEnd(inbox'[t], p, log[p])
         /\ \A t \in Servers : t # s \/ ~OfProject(e, p) => DueNext(t, p) = Due(t, p)
         /\ OfProject(e, p) => /\ Due(s, p) = DueNext(s, p) + 1
                               /\ e = log[p][Len(log[p]) - DueNext(s, p)]
<1>1. /\ inbox[s] \in Seq(Events) /\ inbox[s] # <<>> /\ inbox'[s] = Tail(inbox[s])
      /\ \A t \in Servers \ {s} : inbox'[t] = inbox[t]
  BY DEF IInv, ChannelInv, ChannelOf, Handle
<1>2. log[p] \in Seq(Updates) /\ \A t \in Servers : AtEnd(inbox[t], p, log[p])
  BY DEF LogInv, Streaming
<1>3. Head(inbox[s]) \in Events
  BY <1>1
<1>4. /\ AtEnd(inbox'[s], p, log[p])
      /\ OfProject(Head(inbox[s]), p) =>
           /\ Due(s, p) = DueNext(s, p) + 1
           /\ Head(inbox[s]) = log[p][Len(log[p]) - DueNext(s, p)]
      /\ ~OfProject(Head(inbox[s]), p) => DueNext(s, p) = Due(s, p)
  BY <1>1, <1>2, TailAtEnd DEF Due, DueNext
<1>5. \A t \in Servers \ {s} : AtEnd(inbox'[t], p, log[p]) /\ DueNext(t, p) = Due(t, p)
  BY <1>1, <1>2 DEF Due, DueNext
<1>6. QED  BY <1>3, <1>4, <1>5

LEMMA HandStreams ==
  ASSUME IInv, IInv', LogInv, LogInv', Streaming, NEW s \in Servers,
         DeliverUpdate(s) \/ (Deliver(s) /\ UNCHANGED <<log, received>>)
  PROVE  Streaming'
<1> DEFINE e == Head(inbox[s])
<1>1. Handle(s) /\ UNCHANGED <<log, socket>>
  BY DEF DeliverUpdate, Deliver, rooms
<1>2. \A k \in Sockets, p \in Projects :
        received'[k][p] = IF k \in Audience(s, p) /\ OfProject(e, p) THEN Append(received[k][p], e)
                                                                    ELSE received[k][p]
  <2>1. CASE Deliver(s) /\ UNCHANGED <<log, received>>
    BY <2>1 DEF Deliver, OfProject
  <2>2. CASE DeliverUpdate(s)
    <3>1. /\ e.channel = "project"
          /\ received' = [k \in Sockets |->
               IF k \in Audience(s, e.project)
               THEN [received[k] EXCEPT ![e.project] = Append(@, e)] ELSE received[k]]
      BY <2>2 DEF DeliverUpdate
    <3>2. \A k \in Sockets : received[k] \in [Projects -> Seq(Updates)]
      BY DEF LogInv
    <3>3. QED  BY <3>1, <3>2 DEF OfProject
  <2>3. QED  BY <2>1, <2>2
<1>3. ASSUME NEW p \in Projects
      PROVE  /\ e \in Events
             /\ \A t \in Servers : AtEnd(inbox'[t], p, log[p])
             /\ \A t \in Servers : t # s \/ ~OfProject(e, p) => DueNext(t, p) = Due(t, p)
             /\ OfProject(e, p) => /\ Due(s, p) = DueNext(s, p) + 1
                                   /\ e = log[p][Len(log[p]) - DueNext(s, p)]
  BY <1>1, HandMovesUpdates
<1> HIDE DEF e
<1>4. ASSUME NEW k \in Sockets, NEW p \in Projects
      PROVE  Goes(k, p) /\ (~InRoomOf(k, p)' => received'[k][p] = <<>>)
  <2>1. CASE ~InRoomOf(k, p)
    BY <1>1, <1>2, <2>1 DEF Streaming, Goes, InRoomOf, Audience, Open
  <2>2. CASE InRoomOf(k, p)
    <3> DEFINE t == socket[k].server
    <3>1. t \in Servers /\ InRoomOf(k, p)' /\ socket'[k].server = t
          /\ (k \in Audience(s, p) <=> t = s)
      BY <1>1, <2>2 DEF IInv, RoomsInv, OnServers, InRoomOf, Audience, Open
    <3>2. CASE t = s /\ OfProject(e, p)
      <4>1. e \in Updates
        BY <1>3, <3>2, EventsAre DEF OfProject
      <4>2. received'[k][p] = Append(received[k][p], e)
        BY <1>2, <3>1, <3>2
      <4>3. QED  BY <1>1, <1>3, <2>2, <3>1, <3>2, <4>1, <4>2 DEF Goes
    <3>3. CASE ~(t = s /\ OfProject(e, p))
      <4>1. received'[k][p] = received[k][p] /\ DueNext(t, p) = Due(t, p)
        BY <1>2, <1>3, <3>1, <3>3
      <4>2. QED  BY <1>1, <2>2, <3>1, <4>1 DEF Goes
    <3>4. QED  BY <3>1, <3>2, <3>3
  <2>3. QED  BY <2>1, <2>2
<1>5. \A t \in Servers, p \in Projects : AtEnd(inbox'[t], p, log'[p])
  BY <1>1, <1>3
<1>6. QED  BY <1>4, <1>5, GoesOn

LEMMA DeafenStreams ==
  ASSUME IInv, IInv', LogInv, LogInv', Streaming, NEW s \in Servers, DeafenAll(s)
  PROVE  Streaming'
<1>1. /\ UNCHANGED <<log, socket>> /\ inbox'[s] = <<>>
      /\ \A t \in Servers \ {s} : inbox'[t] = inbox[t]
      /\ received' = Streams({s}, InTransit(s))
  BY DEF DeafenAll, Deafen, StopListening, IInv, ChannelInv, ChannelOf
<1>2. \A p \in Projects : log[p] \in Seq(Updates) /\ Len(log[p]) \in Nat
  BY DEF LogInv
<1>3. \A t \in Servers, p \in Projects : AtEnd(inbox'[t], p, log[p])
  BY <1>1, <1>2, NoPlaces DEF Streaming
<1>4. ASSUME NEW k \in Sockets, NEW p \in Projects, received'[k][p] # <<>>
      PROVE  /\ InRoomOf(k, p)' /\ received'[k][p] = received[k][p]
             /\ DueNext(socket[k].server, p) = Due(socket[k].server, p)
  <2>1. received'[k][p] = IF /\ \E t \in {s} : k \in Audience(t, p)
                             /\ \E e \in InTransit(s) : OfProject(e, p)
                          THEN <<>> ELSE received[k][p]
    BY <1>1 DEF Streams, OfProject
  <2>2. received'[k][p] = received[k][p] /\ InRoomOf(k, p)
    BY <1>4, <2>1 DEF Streaming
  <2>3. socket[k].server \in Servers /\ k \in Audience(socket[k].server, p)
    BY <2>2 DEF IInv, RoomsInv, OnServers, InRoomOf, Audience, Open
  <2>4. CASE socket[k].server = s
    <3>1. \A e \in InTransit(s) : ~OfProject(e, p)
      BY <1>4, <2>1, <2>3, <2>4
    <3>2. Places(inbox[s], p) = {}
      BY <3>1 DEF InTransit, Places
    <3>3. QED  BY <1>1, <2>2, <2>4, <3>2, NoPlaces DEF Due, DueNext, InRoomOf
  <2>5. CASE socket[k].server # s
    BY <1>1, <2>2, <2>3, <2>5 DEF Due, DueNext, InRoomOf
  <2>6. QED  BY <2>4, <2>5
<1>5. QED  BY <1>1, <1>3, <1>4, NobodyServed

LEMMA CrashStreams ==
  ASSUME IInv, IInv', LogInv, LogInv', Streaming, NEW s \in Servers, CrashAll(s)
  PROVE  Streaming'
<1>1. /\ UNCHANGED log /\ inbox'[s] = <<>>
      /\ \A t \in Servers \ {s} : inbox'[t] = inbox[t]
      /\ received' = [k \in Sockets |-> IF socket[k].server = s THEN [p \in Projects |-> <<>>]
                                                               ELSE received[k]]
      /\ socket' = [k \in Sockets |-> IF socket[k].server = s THEN NoSocket ELSE socket[k]]
  BY DEF CrashAll, Crash, Vanish, IInv, ChannelInv, ChannelOf
<1>2. \A p \in Projects : log[p] \in Seq(Updates) /\ Len(log[p]) \in Nat
  BY DEF LogInv
<1>3. \A t \in Servers, p \in Projects : AtEnd(inbox'[t], p, log[p])
  BY <1>1, <1>2, NoPlaces DEF Streaming
<1>4. ASSUME NEW k \in Sockets, NEW p \in Projects, received'[k][p] # <<>>
      PROVE  /\ InRoomOf(k, p)' /\ socket'[k].server = socket[k].server
             /\ received'[k][p] = received[k][p]
             /\ DueNext(socket[k].server, p) = Due(socket[k].server, p)
  <2>1. socket[k].server # s /\ received'[k] = received[k] /\ socket'[k] = socket[k]
    BY <1>1, <1>4
  <2>2. InRoomOf(k, p)
    BY <1>4, <2>1 DEF Streaming
  <2>3. socket[k].server \in Servers \ {s}
    BY <2>1, <2>2 DEF IInv, RoomsInv, OnServers, InRoomOf
  <2>4. QED  BY <1>1, <2>1, <2>2, <2>3 DEF InRoomOf, Due, DueNext
<1>5. QED  BY <1>1, <1>3, <1>4, NobodyServed

LEMMA StreamingKept ==
  ASSUME IInv, IInv', LogInv, LogInv', Streaming, [EventsNext]_eventVars
  PROVE  Streaming'
<1>1. CASE UNCHANGED <<log, received, inbox, socket>>
  BY <1>1 DEF Streaming, InRoomOf, Due
<1>2. ASSUME NEW s \in Servers, Reconnect(s), UNCHANGED <<log, received>> PROVE Streaming'
  BY <1>1, <1>2 DEF Reconnect, Resend, Listen, rooms
<1>3. ASSUME NEW s \in Servers, ServerStep(s) PROVE Streaming'
  BY <1>2, <1>3, RelayStreams, HandStreams, DeafenStreams, CrashStreams DEF ServerStep
<1>4. UNCHANGED eventVars => UNCHANGED <<log, received, inbox, socket>>
  BY DEF eventVars, channel, rooms
<1>5. QED  BY <1>1, <1>3, <1>4, ClientStreams DEF EventsNext

LEMMA StreamingInvariant == EventsSpec => []Streaming
<1>1. EventsInit => Streaming
  <2> SUFFICES ASSUME EventsInit PROVE Streaming
    OBVIOUS
  <2>1. /\ \A s \in Servers : inbox[s] = <<>>
        /\ \A p \in Projects : log[p] = <<>>
        /\ \A k \in Sockets : ~socket[k].open /\ \A p \in Projects : received[k][p] = <<>>
    BY DEF EventsInit, Init, ChannelInit, NoSocket
  <2>2. QED  BY <2>1, NoPlaces DEF Streaming, InRoomOf
<1>2. QED  BY <1>1, StreamingKept, EventsInvariant, LogInvariant, PTL DEF EventsSpec

\* Every client in a room gets exactly what Redis executed since it came or its
\* server last missed something, in the one order all others get it in
\* (handleRedisProjectEvent).
THEOREM ClientsFollowRedis == EventsSpec => []FollowsRedis
<1>1. IInv /\ LogInv /\ Streaming => FollowsRedis
  <2> SUFFICES ASSUME IInv, LogInv, Streaming, NEW k \in Sockets, NEW p \in Projects,
                      Open(k), p \in socket[k].rooms
               PROVE  LET s == socket[k].server
                          fromEnd(i) == Cardinality({j \in Pending(s, p) : j > i})
                      IN /\ \A i \in Pending(s, p) : inbox[s][i] = log[p][Len(log[p]) - fromEnd(i)]
                         /\ IsSuffix(received[k][p],
                                     SubSeq(log[p], 1, Len(log[p]) - Cardinality(Pending(s, p))))
    BY DEF FollowsRedis
  <2> DEFINE s == socket[k].server
  <2>1. s \in Servers /\ InRoomOf(k, p)
    BY DEF IInv, RoomsInv, OnServers, InRoomOf, Open
  <2>2. Pending(s, p) = Places(inbox[s], p)
    BY DEF Pending, Places, OfProject
  <2>3. \A i : {j \in Pending(s, p) : j > i} = Later(inbox[s], p, i)
    BY <2>2 DEF Later
  <2>4. ASSUME NEW i \in Pending(s, p)
        PROVE  inbox[s][i] = log[p][Len(log[p]) - Cardinality({j \in Pending(s, p) : j > i})]
    <3>1. inbox[s][i] = log[p][Len(log[p]) - Cardinality(Later(inbox[s], p, i))]
      BY <2>1, <2>2, <2>4 DEF Streaming, AtEnd
    <3>2. QED  BY <2>3, <3>1
  <2>5. inbox[s] \in Seq(Events) /\ log[p] \in Seq(Updates) /\ received[k][p] \in Seq(Updates)
    BY <2>1 DEF IInv, ChannelInv, ChannelOf, LogInv
  <2>6. Due(s, p) \in Nat
    BY <2>5, PlacesFinite DEF Due
  <2>7. Got(received[k][p], log[p], Due(s, p))
    BY <2>1 DEF Streaming
  <2>8. IsSuffix(received[k][p], SubSeq(log[p], 1, Len(log[p]) - Due(s, p)))
    BY <2>5, <2>6, <2>7, GotIsSuffix
  <2>9. QED  BY <2>2, <2>4, <2>8 DEF Due
<1>2. QED  BY <1>1, EventsInvariant, LogInvariant, StreamingInvariant, PTL

\* Any two clients in a room have what one of them has as the end of what the
\* other has, at any time when they share a server, and else once all is
\* delivered: whoever was there for two updates saw them in the same order
\* (handleRedisProjectEvent).
OneOrder ==
  \A k, l \in Sockets, p \in Projects :
    /\ InRoomOf(k, p) /\ InRoomOf(l, p)
    /\ Quiet \/ socket[k].server = socket[l].server
    => \/ IsSuffix(received[k][p], received[l][p])
       \/ IsSuffix(received[l][p], received[k][p])

LEMMA BothAtEnd ==
  ASSUME NEW T, NEW a \in Seq(T), NEW b \in Seq(T), NEW l \in Seq(T), NEW n \in Nat,
         Got(a, l, n), Got(b, l, n), Len(a) <= Len(b)
  PROVE  IsSuffix(a, b)
<1>1. Len(a) \in Nat /\ Len(b) \in Nat /\ Len(l) \in Nat
  OBVIOUS
<1>2. ASSUME NEW i \in 1..Len(a) PROVE a[i] = b[Len(b) - 0 - Len(a) + i]
  <2>1. a[i] = l[Len(l) - n - Len(a) + i]
    BY DEF Got
  <2>2. Len(b) - 0 - Len(a) + i \in 1..Len(b)
    BY <1>1
  <2>3. b[Len(b) - 0 - Len(a) + i] = l[Len(l) - n - Len(b) + (Len(b) - 0 - Len(a) + i)]
    BY <2>2 DEF Got
  <2>4. Len(l) - n - Len(b) + (Len(b) - 0 - Len(a) + i) = Len(l) - n - Len(a) + i
    BY <1>1
  <2>5. QED  BY <2>1, <2>3, <2>4
<1>3. Got(a, b, 0)
  BY <1>1, <1>2 DEF Got
<1>4. IsSuffix(a, SubSeq(b, 1, Len(b) - 0))
  BY <1>3, GotIsSuffix
<1>5. SubSeq(b, 1, Len(b) - 0) = b
  BY <1>1
<1>6. QED  BY <1>4, <1>5

THEOREM ClientsAgree == EventsSpec => []OneOrder
<1>1. IInv /\ LogInv /\ Streaming => OneOrder
  <2> SUFFICES ASSUME IInv, LogInv, Streaming,
                      NEW k \in Sockets, NEW l \in Sockets, NEW p \in Projects,
                      InRoomOf(k, p), InRoomOf(l, p),
                      Quiet \/ socket[k].server = socket[l].server
               PROVE  \/ IsSuffix(received[k][p], received[l][p])
                      \/ IsSuffix(received[l][p], received[k][p])
    BY DEF OneOrder
  <2> DEFINE s == socket[k].server
             t == socket[l].server
  <2>1. s \in Servers /\ t \in Servers
    BY DEF IInv, RoomsInv, OnServers, InRoomOf
  <2>2. inbox[s] \in Seq(Events) /\ inbox[t] \in Seq(Events)
    BY <2>1 DEF IInv, ChannelInv, ChannelOf
  <2>3. Due(s, p) \in Nat
    BY <2>2, PlacesFinite DEF Due
  <2>4. Due(s, p) = Due(t, p)
    <3>1. CASE Quiet
      BY <2>1, <3>1 DEF Quiet, Due
    <3>2. CASE s = t
      BY <3>2
    <3>3. QED  BY <3>1, <3>2
  <2>5. /\ Got(received[k][p], log[p], Due(s, p))
        /\ Got(received[l][p], log[p], Due(s, p))
    BY <2>4 DEF Streaming
  <2>6. /\ received[k][p] \in Seq(Updates) /\ received[l][p] \in Seq(Updates)
        /\ log[p] \in Seq(Updates)
    BY DEF LogInv
  <2>7. Len(received[k][p]) <= Len(received[l][p]) \/ Len(received[l][p]) <= Len(received[k][p])
    BY <2>6
  <2>8. QED  BY <2>3, <2>5, <2>6, <2>7, BothAtEnd
<1>2. QED  BY <1>1, EventsInvariant, LogInvariant, StreamingInvariant, PTL

-----------------------------------------------------------------------------
(* The newest update of an author *)

By(e, p, u) == OfProject(e, p) /\ e.user = u

\* Of what u says in the log, the last is the newest.
LastOnTop(l, u) ==
  \A last \in DOMAIN l :
    l[last].user = u /\ (\A i \in DOMAIN l : l[i].user = u => i <= last) =>
      \A i \in DOMAIN l : l[i].user = u => l[i].number <= l[last].number

\* What u has said in p is never newer than what will be, or was, logged last.
Settling(q, l, p, u) ==
  \/ \E i \in DOMAIN q : /\ By(q[i], p, u)
                         /\ \A h \in DOMAIN l : l[h].user = u => l[h].number <= q[i].number
  \/ (\A i \in DOMAIN q : ~By(q[i], p, u)) /\ LastOnTop(l, u)

Ordered(q) ==
  \A i, j \in DOMAIN q :
    i < j /\ q[i].channel = "project" /\ q[j].channel = "project" => q[i].number < q[j].number

LEMMA AppendIs ==
  ASSUME NEW S, NEW q \in Seq(S), NEW e
  PROVE  /\ Len(q) \in Nat /\ DOMAIN q = 1..Len(q) /\ DOMAIN Append(q, e) = 1..(Len(q) + 1)
         /\ Append(q, e)[Len(q) + 1] = e
         /\ \A i \in DOMAIN q : /\ i \in DOMAIN Append(q, e) /\ Append(q, e)[i] = q[i]
                                /\ i < Len(q) + 1
         /\ \A i \in DOMAIN Append(q, e) : i \in DOMAIN q \/ i = Len(q) + 1
OBVIOUS

LEMMA TailIs ==
  ASSUME NEW S, NEW q \in Seq(S), q # <<>>
  PROVE  /\ 1 \in DOMAIN q /\ Head(q) = q[1]
         /\ \A i \in DOMAIN Tail(q) : /\ i \in Nat /\ i + 1 \in DOMAIN q /\ i + 1 # 1
                                      /\ Tail(q)[i] = q[i + 1]
         /\ \A i \in DOMAIN q : i = 1 \/ /\ i > 1 /\ i - 1 \in DOMAIN Tail(q)
                                         /\ Tail(q)[i - 1] = q[i]
OBVIOUS

\* u's server publishes.
LEMMA PublishSettles ==
  ASSUME NEW S, NEW q \in Seq(S), NEW e, NEW l, NEW p, NEW u, Settling(q, l, p, u),
         By(e, p, u) => \A h \in DOMAIN l : l[h].number <= e.number
  PROVE  Settling(Append(q, e), l, p, u)
<1> DEFINE r == Append(q, e)
           n == Len(q) + 1
<1>1. /\ n \in DOMAIN r /\ r[n] = e
      /\ \A i \in DOMAIN q : i \in DOMAIN r /\ r[i] = q[i]
      /\ \A i \in DOMAIN r : i \in DOMAIN q \/ i = n
  BY AppendIs
<1> HIDE DEF r, n
<1>2. CASE By(e, p, u)
  BY <1>1, <1>2 DEF Settling, r
<1>3. CASE ~By(e, p, u)
  BY <1>1, <1>3 DEF Settling, r
<1>4. QED  BY <1>2, <1>3

\* Something else is logged.
LEMMA OtherLogged ==
  ASSUME NEW S, NEW l \in Seq(S), NEW e, NEW q, NEW p, NEW u, Settling(q, l, p, u), e.user # u
  PROVE  Settling(q, Append(l, e), p, u)
<1> DEFINE m == Append(l, e)
           n == Len(l) + 1
<1>1. /\ m[n] = e
      /\ \A i \in DOMAIN l : i \in DOMAIN m /\ m[i] = l[i]
      /\ \A i \in DOMAIN m : i \in DOMAIN l \/ i = n
  BY AppendIs
<1> HIDE DEF m, n
<1>2. \A i \in DOMAIN m : m[i].user = u => i \in DOMAIN l /\ m[i] = l[i] /\ l[i].user = u
  BY <1>1
<1>3. LastOnTop(l, u) => LastOnTop(m, u)
  <2> SUFFICES ASSUME LastOnTop(l, u), NEW last \in DOMAIN m, m[last].user = u,
                      \A i \in DOMAIN m : m[i].user = u => i <= last,
                      NEW i \in DOMAIN m, m[i].user = u
               PROVE  m[i].number <= m[last].number
    BY DEF LastOnTop
  <2>1. \A h \in DOMAIN l : l[h].user = u => h <= last
    BY <1>1
  <2>2. l[i].number <= l[last].number
    BY <1>2, <2>1 DEF LastOnTop
  <2>3. QED  BY <1>2, <2>2
<1>4. QED  BY <1>2, <1>3 DEF Settling, m

\* An update of u is logged that will be sent again.
LEMMA OwnLogged ==
  ASSUME NEW q \in Seq(Events), NEW l \in Seq(Updates), NEW p, NEW u, Settling(q, l, p, u),
         NEW j \in DOMAIN q, By(q[j], p, u)
  PROVE  Settling(q, Append(l, q[j]), p, u)
<1> DEFINE e == q[j]
           m == Append(l, e)
           n == Len(l) + 1
<1>1. /\ m[n] = e /\ DOMAIN l = 1..Len(l)
      /\ \A i \in DOMAIN l : i \in DOMAIN m /\ m[i] = l[i]
      /\ \A i \in DOMAIN m : i \in DOMAIN l \/ i = n
  BY AppendIs
<1>2. PICK i \in DOMAIN q : /\ By(q[i], p, u)
                            /\ \A h \in DOMAIN l : l[h].user = u => l[h].number <= q[i].number
  BY DEF Settling
<1>3. q[i].number \in Nat /\ e.number \in Nat
  <2>1. q[i] \in Events /\ e \in Events
    OBVIOUS
  <2>2. \A d \in Events : d.channel = "project" => d.number \in Nat
    BY EventsAre, OutagesAssumption
  <2>3. QED  BY <1>2, <2>1, <2>2 DEF By, OfProject
<1>4. \A h \in DOMAIN l : l[h].number \in Nat
  <2>1. \A d \in Updates : d.number \in Nat
    BY OutagesAssumption DEF Updates
  <2>2. QED  BY <2>1
<1> HIDE DEF e, m, n
<1>5. CASE e.number <= q[i].number
  <2>1. \A h \in DOMAIN m : m[h].user = u => m[h].number <= q[i].number
    BY <1>1, <1>2, <1>5
  <2>2. QED  BY <1>2, <2>1 DEF Settling, m, e
<1>6. CASE q[i].number < e.number
  <2>1. \A h \in DOMAIN m : m[h].user = u => m[h].number <= e.number
    BY <1>1, <1>2, <1>3, <1>4, <1>6
  <2>2. By(q[j], p, u) /\ j \in DOMAIN q
    OBVIOUS
  <2>3. QED  BY <2>1, <2>2 DEF Settling, m, e
<1>7. QED  BY <1>3, <1>5, <1>6

\* A reply takes the first event from the queue.
LEMMA OtherAnswered ==
  ASSUME NEW S, NEW q \in Seq(S), q # <<>>, NEW l, NEW p, NEW u, Settling(q, l, p, u),
         ~By(Head(q), p, u)
  PROVE  Settling(Tail(q), l, p, u)
<1> DEFINE r == Tail(q)
<1>1. /\ Head(q) = q[1]
      /\ \A i \in DOMAIN r : i + 1 \in DOMAIN q /\ r[i] = q[i + 1]
      /\ \A i \in DOMAIN q : i = 1 \/ (i - 1 \in DOMAIN r /\ r[i - 1] = q[i])
  BY TailIs
<1> HIDE DEF r
<1>2. QED  BY <1>1 DEF Settling, r

LEMMA OwnAnswered ==
  ASSUME NEW q \in Seq(Events), q # <<>>, NEW l \in Seq(Updates), NEW p, NEW u,
         Settling(q, l, p, u), Ordered(q), By(Head(q), p, u)
  PROVE  Settling(Tail(q), Append(l, Head(q)), p, u)
<1> DEFINE e == Head(q)
           r == Tail(q)
           m == Append(l, e)
           n == Len(l) + 1
<1>1. /\ e = q[1] /\ 1 \in DOMAIN q
      /\ \A i \in DOMAIN r : i + 1 \in DOMAIN q /\ i + 1 > 1 /\ r[i] = q[i + 1]
      /\ \A i \in DOMAIN q : i = 1 \/ (i > 1 /\ i - 1 \in DOMAIN r /\ r[i - 1] = q[i])
  BY TailIs
<1>2. /\ m[n] = e /\ n \in DOMAIN m
      /\ \A i \in DOMAIN l : i \in DOMAIN m /\ m[i] = l[i] /\ i < n
      /\ \A i \in DOMAIN m : i \in DOMAIN l \/ i = n
  BY AppendIs
<1>3. \A i \in DOMAIN q : By(q[i], p, u) => q[i].number \in Nat /\ q[i].channel = "project"
  <2>1. \A d \in Events : d.channel = "project" => d.number \in Nat
    BY EventsAre, OutagesAssumption
  <2>2. \A i \in DOMAIN q : q[i] \in Events
    OBVIOUS
  <2>3. QED  BY <2>1, <2>2 DEF By, OfProject
<1>4. \A h \in DOMAIN l : l[h].number \in Nat
  <2>1. \A d \in Updates : d.number \in Nat
    BY OutagesAssumption DEF Updates
  <2>2. QED  BY <2>1
<1>5. n \in Nat /\ DOMAIN l = 1..Len(l) /\ Len(l) \in Nat
  OBVIOUS
<1> HIDE DEF e, r, m, n
<1>6. PICK i \in DOMAIN q : /\ By(q[i], p, u)
                            /\ \A h \in DOMAIN l : l[h].user = u => l[h].number <= q[i].number
  BY <1>1 DEF Settling, e
<1>7. ASSUME NEW j \in DOMAIN q, j > 1, By(q[j], p, u), q[i].number <= q[j].number
      PROVE  Settling(r, m, p, u)
  <2>1. e.number < q[j].number /\ e.number \in Nat /\ q[j].number \in Nat /\ q[i].number \in Nat
    BY <1>1, <1>3, <1>6, <1>7 DEF Ordered, e
  <2>2. ASSUME NEW h \in DOMAIN m, m[h].user = u PROVE m[h].number <= q[j].number
    <3>1. CASE h \in DOMAIN l
      <4>1. m[h] = l[h] /\ l[h].number \in Nat
        BY <1>2, <1>4, <3>1
      <4>2. l[h].number <= q[i].number
        BY <1>6, <2>2, <3>1, <4>1
      <4>3. QED  BY <1>7, <2>1, <4>1, <4>2
    <3>2. CASE h = n
      BY <1>2, <2>1, <3>2
    <3>3. QED  BY <1>2, <3>1, <3>2
  <2>3. j - 1 \in DOMAIN r /\ r[j - 1] = q[j]
    BY <1>1, <1>7
  <2>4. QED  BY <1>7, <2>2, <2>3 DEF Settling
<1>8. CASE i # 1
  <2>1. i > 1 /\ q[i].number <= q[i].number
    BY <1>1, <1>3, <1>6, <1>8
  <2>2. QED  BY <1>6, <1>7, <2>1 DEF r, m, e
<1>9. CASE i = 1 /\ \E j \in DOMAIN r : By(r[j], p, u)
  <2>1. PICK j \in DOMAIN r : By(r[j], p, u)
    BY <1>9
  <2>2. j + 1 \in DOMAIN q /\ j + 1 > 1 /\ By(q[j + 1], p, u)
    BY <1>1, <2>1
  <2>3. q[1].number < q[j + 1].number
    BY <1>1, <1>3, <1>6, <1>9, <2>2 DEF Ordered
  <2>4. q[i].number <= q[j + 1].number
    BY <1>3, <1>6, <1>9, <2>2, <2>3
  <2>5. QED  BY <1>7, <2>2, <2>4 DEF r, m, e
<1>10. CASE i = 1 /\ ~\E j \in DOMAIN r : By(r[j], p, u)
  <2>1. e.number \in Nat /\ e.user = u
    BY <1>1, <1>3, <1>6, <1>10 DEF By
  <2>2. \A h \in DOMAIN m : m[h].user = u => m[h].number <= e.number
    BY <1>1, <1>2, <1>6, <1>10, <2>1
  <2>3. LastOnTop(m, u)
    <3> SUFFICES ASSUME NEW last \in DOMAIN m, m[last].user = u,
                        \A h \in DOMAIN m : m[h].user = u => h <= last,
                        NEW h \in DOMAIN m, m[h].user = u
                 PROVE  m[h].number <= m[last].number
      BY DEF LastOnTop
    <3>1. n <= last
      BY <1>2, <2>1
    <3>2. last = n
      BY <1>2, <1>5, <3>1
    <3>3. QED  BY <1>2, <2>2, <3>2
  <2>4. Settling(r, m, p, u)
    BY <1>10, <2>3 DEF Settling
  <2>5. QED  BY <2>4 DEF r, m, e
<1>11. QED  BY <1>8, <1>9, <1>10

-----------------------------------------------------------------------------
(* Steps: the newest update *)

Numbered ==
  /\ \A s \in Servers :
       /\ Ordered(outbox[s])
       /\ \A i \in DOMAIN outbox[s] :
            outbox[s][i].channel = "project" => outbox[s][i].number < happened
  /\ \A p \in Projects : \A i \in DOMAIN log[p] : log[p][i].number < happened

AllSettling ==
  \A s \in Servers, p \in Projects : \A u \in Locals(s) \ stranded :
    Settling(outbox[s], log[p], p, u)

Publishes(k) ==
  /\ socket[k].server \in Servers /\ UNCHANGED <<log, stranded>>
  /\ \E e \in Events : /\ Send(socket[k].server, e) /\ e.user = SocketUser[k]
                       /\ e.channel = "project" => e.number = happened

PublishesNothing ==
  UNCHANGED <<outbox, log, stranded>> /\ happened' \in {happened, happened + 1}

LEMMA StepPublishes ==
  ASSUME IInv, [EventsNext]_eventVars
  PROVE  \/ PublishesNothing
         \/ \E k \in Sockets : Publishes(k)
         \/ \E s \in Servers : RelayAny(s) \/ CrashAll(s)
<1>1. ASSUME NEW k \in Sockets, ClientStep(k)
      PROVE  PublishesNothing \/ Publishes(k)
  <2> DEFINE says(p, status) ==
        [channel |-> "presence", project |-> p, user |-> SocketUser[k], status |-> status]
  <2>1. SocketUser[k] \in Users
    BY WorldAssumption
  <2>2. \A p \in Projects, status \in {"joined", "left"} :
          /\ says(p, status) \in Events /\ says(p, status).user = SocketUser[k]
          /\ says(p, status).channel # "project"
    BY <2>1, EventTyped
  <2>3. Open(k) \/ Checking(k) # {} => socket[k].server \in Servers
    BY DEF IInv, RoomsInv, OnServers, Open
  <2>4. ASSUME NEW p \in Projects, NEW status \in {"joined", "left"},
               Publish(socket[k].server, p, SocketUser[k], status),
               Open(k) \/ Checking(k) # {}, UNCHANGED <<log, stranded>>
        PROVE  Publishes(k)
    BY <2>2, <2>3, <2>4 DEF Publishes, Publish
  <2>5. ASSUME NEW p \in Projects, JoinChecked(k, p), UNCHANGED log
        PROVE  PublishesNothing \/ Publishes(k)
    BY <2>4, <2>5 DEF JoinChecked, PublishesNothing
  <2>6. ASSUME NEW p \in Projects, Leave(k, p), UNCHANGED log
        PROVE  Publishes(k)
    BY <2>4, <2>6 DEF Leave
  <2>7. ASSUME Disconnect(k), UNCHANGED log
        PROVE  PublishesNothing \/ Publishes(k)
    <3>1. socket[k].current \in Projects \cup {NoProject}
      BY DEF IInv, RoomsInv, SocketType
    <3>2. QED  BY <2>4, <2>7, <3>1 DEF Disconnect, PublishesNothing
  <2>8. ASSUME NEW p \in Projects, SendUpdate(k, p)
        PROVE  Publishes(k)
    <3> DEFINE e == [channel |-> "project", project |-> p, user |-> SocketUser[k], number |-> happened]
    <3>1. e \in Events /\ e.user = SocketUser[k] /\ e.number = happened
      BY <2>8, UpdateTyped DEF SendUpdate, Broadcast, Send, Happens
    <3>2. Send(socket[k].server, e) /\ Open(k) /\ UNCHANGED <<log, stranded>>
      BY <2>8 DEF SendUpdate, Broadcast
    <3> HIDE DEF e
    <3>3. QED  BY <2>3, <3>1, <3>2 DEF Publishes
  <2>9. ASSUME NEW s \in Servers, Connect(k, s), UNCHANGED log PROVE PublishesNothing
    BY <2>9 DEF Connect, channel, PublishesNothing
  <2>10. ASSUME NEW p \in Projects, AskJoin(k, p) \/ Sync(k, p), UNCHANGED log
         PROVE  PublishesNothing
    BY <2>10 DEF AskJoin, Sync, channel, PublishesNothing
  <2>11. QED  BY <1>1, <2>5, <2>6, <2>7, <2>8, <2>9, <2>10 DEF ClientStep
<1>2. ASSUME NEW s \in Servers, ServerStep(s)
      PROVE  PublishesNothing \/ RelayAny(s) \/ CrashAll(s)
  BY <1>2 DEF ServerStep, DeliverUpdate, DeafenAll, Deafen, StopListening, Happens, Deliver, Handle,
              Reconnect, Resend, Listen, rooms, PublishesNothing
<1>3. UNCHANGED eventVars => PublishesNothing
  BY DEF eventVars, channel, rooms, PublishesNothing
<1>4. QED  BY <1>1, <1>2, <1>3 DEF EventsNext

\* What Redis does with the next event of s.
LEMMA RelayAnswers ==
  ASSUME IInv, NEW s \in Servers, RelayAny(s)
  PROVE  LET e == Upcoming(s) IN
         /\ e \in Events /\ happened' \in {happened, happened + 1} /\ stranded' = stranded
         /\ \A t \in Servers \ {s} : outbox'[t] = outbox[t]
         /\ \E i \in DOMAIN outbox[s] : e = outbox[s][i]
         /\ \/ outbox'[s] = outbox[s]
            \/ outbox[s] # <<>> /\ outbox'[s] = Tail(outbox[s]) /\ e = Head(outbox[s])
<1>1. /\ outbox \in [Servers -> Seq(Events)] /\ executed[s] \in Nat
      /\ executed[s] < Len(outbox[s])
  BY DEF IInv, ChannelInv, ChannelOf, RelayAny, Relay, Execute, ExecuteUnanswered
<1>2. executed[s] + 1 \in DOMAIN outbox[s]
  BY <1>1
<1>3. Upcoming(s) = outbox[s][executed[s] + 1] /\ Upcoming(s) \in Events
  BY <1>1, UpcomingTyped DEF Upcoming, IInv, ChannelInv
<1>4. happened' \in {happened, happened + 1} /\ stranded' = stranded
  BY DEF RelayAny, Relay, Execute, ExecuteUnanswered, Happens
<1>5. CASE Execute(s)
  <2>1. /\ outbox[s] # <<>> /\ executed[s] = 0 /\ outbox' = [outbox EXCEPT ![s] = Tail(@)]
    BY <1>5 DEF Execute
  <2>2. Upcoming(s) = Head(outbox[s])
    BY <1>1, <1>3, <2>1
  <2>3. QED  BY <1>1, <1>2, <1>3, <1>4, <2>1, <2>2
<1>6. CASE ExecuteUnanswered(s)
  BY <1>2, <1>3, <1>4, <1>6 DEF ExecuteUnanswered
<1>7. QED  BY <1>5, <1>6 DEF RelayAny, Relay

LEMMA NumberedKept ==
  ASSUME IInv, LogInv, Numbered, [EventsNext]_eventVars
  PROVE  Numbered'
<1>1. /\ happened \in Nat
      /\ \A s \in Servers : outbox[s] \in Seq(Events)
      /\ \A p \in Projects : log[p] \in Seq(Updates)
  BY OutagesAssumption DEF IInv, ChannelInv, ChannelOf, LogInv
<1>2. \A e \in Events : e.channel = "project" => e.number \in Nat
  BY EventsAre, OutagesAssumption
<1>3. \A e \in Updates : e.number \in Nat
  BY OutagesAssumption DEF Updates
<1>4. ASSUME happened' \in {happened, happened + 1}, NEW n \in Nat, n < happened
      PROVE  n < happened'
  BY <1>1, <1>4
<1>5. ASSUME happened' \in {happened, happened + 1}
      PROVE  /\ \A s \in Servers : \A i \in DOMAIN outbox[s] :
                  outbox[s][i].channel = "project" => outbox[s][i].number < happened'
             /\ \A p \in Projects : \A i \in DOMAIN log[p] : log[p][i].number < happened'
  <2>1. ASSUME NEW s \in Servers, NEW i \in DOMAIN outbox[s], outbox[s][i].channel = "project"
        PROVE  outbox[s][i].number < happened'
    <3>1. outbox[s][i] \in Events
      BY <1>1, <2>1
    <3>2. QED  BY <1>2, <1>4, <1>5, <2>1, <3>1 DEF Numbered
  <2>2. ASSUME NEW p \in Projects, NEW i \in DOMAIN log[p] PROVE log[p][i].number < happened'
    <3>1. log[p][i] \in Updates
      BY <1>1, <2>2
    <3>2. QED  BY <1>3, <1>4, <1>5, <2>2, <3>1 DEF Numbered
  <2>3. QED  BY <2>1, <2>2
<1>6. CASE PublishesNothing
  BY <1>5, <1>6 DEF PublishesNothing, Numbered
<1>7. ASSUME NEW k \in Sockets, Publishes(k) PROVE Numbered'
  <2> DEFINE s == socket[k].server
  <2>1. PICK e \in Events : Send(s, e) /\ (e.channel = "project" => e.number = happened)
    BY <1>7 DEF Publishes
  <2>2. /\ s \in Servers /\ outbox'[s] = Append(outbox[s], e) /\ log' = log
        /\ happened' = happened + 1 /\ \A t \in Servers \ {s} : outbox'[t] = outbox[t]
    BY <1>7, <2>1 DEF Publishes, Send, Happens, IInv, ChannelInv, ChannelOf
  <2> DEFINE q == outbox[s]
             r == Append(q, e)
             n == Len(q) + 1
  <2> HIDE DEF s
  <2>3. /\ r[n] = e /\ n \in Nat /\ DOMAIN r = 1..n
        /\ \A i \in DOMAIN q : i \in DOMAIN r /\ r[i] = q[i] /\ i < n
        /\ \A i \in DOMAIN r : i \in DOMAIN q \/ i = n
    BY <1>1, <2>2, AppendIs
  <2>4. /\ Ordered(q) /\ \A i \in DOMAIN q : q[i].channel = "project" => q[i].number < happened
        /\ \A i \in DOMAIN q : q[i].channel = "project" => q[i].number < happened'
    BY <1>5, <2>2 DEF Numbered
  <2> HIDE DEF q, r, n
  <2>5. Ordered(r)
    <3> SUFFICES ASSUME NEW i \in DOMAIN r, NEW j \in DOMAIN r, i < j,
                        r[i].channel = "project", r[j].channel = "project"
                 PROVE  r[i].number < r[j].number
      BY DEF Ordered
    <3>1. i \in DOMAIN q /\ r[i] = q[i]
      BY <2>3
    <3>2. QED  BY <2>1, <2>3, <2>4, <3>1 DEF Ordered
  <2>6. \A i \in DOMAIN r : r[i].channel = "project" => r[i].number < happened'
    BY <1>1, <2>1, <2>2, <2>3, <2>4
  <2>7. outbox'[s] = r
    BY <2>2 DEF r, q
  <2>8. ASSUME NEW t \in Servers
        PROVE  /\ Ordered(outbox'[t])
               /\ \A i \in DOMAIN outbox'[t] :
                    outbox'[t][i].channel = "project" => outbox'[t][i].number < happened'
    BY <1>5, <2>2, <2>5, <2>6, <2>7 DEF Numbered
  <2>9. QED  BY <1>5, <2>2, <2>8 DEF Numbered
<1>8. ASSUME NEW s \in Servers, RelayAny(s) PROVE Numbered'
  <2> DEFINE e == Upcoming(s)
  <2>1. /\ e \in Events /\ happened' \in {happened, happened + 1}
        /\ \A t \in Servers \ {s} : outbox'[t] = outbox[t]
        /\ \E i \in DOMAIN outbox[s] : e = outbox[s][i]
        /\ outbox'[s] = outbox[s] \/ (outbox[s] # <<>> /\ outbox'[s] = Tail(outbox[s]))
    BY <1>8, RelayAnswers
  <2>2. e.channel = "project" => e.number < happened'
    BY <1>5, <2>1
  <2> HIDE DEF e
  <2>3. ASSUME NEW t \in Servers
        PROVE  /\ Ordered(outbox'[t])
               /\ \A i \in DOMAIN outbox'[t] :
                    outbox'[t][i].channel = "project" => outbox'[t][i].number < happened'
    <3>1. CASE outbox'[t] = outbox[t]
      BY <1>5, <2>1, <3>1 DEF Numbered
    <3>2. CASE outbox[t] # <<>> /\ outbox'[t] = Tail(outbox[t])
      <4> DEFINE q == outbox[t]
                 r == Tail(q)
      <4>1. \A i \in DOMAIN r : i \in Nat /\ i + 1 \in DOMAIN q /\ r[i] = q[i + 1]
        BY <1>1, <3>2, TailIs
      <4>2. Ordered(q) /\ \A i \in DOMAIN q : q[i].channel = "project" => q[i].number < happened'
        BY <1>5, <2>1 DEF Numbered
      <4> HIDE DEF q, r
      <4>3. \A i, j \in DOMAIN r : i < j => i + 1 < j + 1
        BY <4>1
      <4>4. Ordered(r)
        BY <4>1, <4>2, <4>3 DEF Ordered
      <4>5. \A i \in DOMAIN r : r[i].channel = "project" => r[i].number < happened'
        BY <4>1, <4>2
      <4>6. outbox'[t] = r
        BY <3>2 DEF r, q
      <4>7. QED  BY <4>4, <4>5, <4>6
    <3>3. QED  BY <2>1, <3>1, <3>2
  <2>4. ASSUME NEW p \in Projects, NEW i \in DOMAIN log'[p] PROVE log'[p][i].number < happened'
    <3>1. CASE OfProject(e, p)
      <4>1. log'[p] = Append(log[p], e) /\ e.channel = "project"
        BY <1>8, <3>1, RelayLogs DEF OfProject, e
      <4>2. log'[p][i] = e \/ (i \in DOMAIN log[p] /\ log'[p][i] = log[p][i])
        BY <1>1, <2>4, <4>1, AppendIs
      <4>3. QED  BY <1>5, <2>1, <2>2, <4>1, <4>2
    <3>2. CASE ~OfProject(e, p)
      <4>1. log'[p] = log[p]
        BY <1>8, <3>2, RelayLogs DEF e
      <4>2. QED  BY <1>5, <2>1, <2>4, <4>1
    <3>3. QED  BY <3>1, <3>2
  <2>5. QED  BY <2>3, <2>4 DEF Numbered
<1>9. ASSUME NEW s \in Servers, CrashAll(s) PROVE Numbered'
  <2>1. /\ happened' = happened + 1 /\ log' = log /\ outbox'[s] = <<>>
        /\ \A t \in Servers \ {s} : outbox'[t] = outbox[t]
    BY <1>9 DEF CrashAll, Crash, Vanish, Happens, IInv, ChannelInv, ChannelOf
  <2>2. \A t \in Servers : DOMAIN outbox'[t] = {} \/ outbox'[t] = outbox[t]
    BY <2>1
  <2>3. QED  BY <1>5, <2>1, <2>2 DEF Numbered, Ordered
<1>10. QED  BY <1>6, <1>7, <1>8, <1>9, StepPublishes

LEMMA SettlingKept ==
  ASSUME IInv, LogInv, Told, Numbered, AllSettling, [EventsNext]_eventVars
  PROVE  AllSettling'
<1>1. /\ \A s \in Servers : outbox[s] \in Seq(Events)
      /\ \A p \in Projects : log[p] \in Seq(Updates)
  BY DEF IInv, ChannelInv, ChannelOf, LogInv
<1>2. CASE PublishesNothing
  BY <1>2 DEF PublishesNothing, AllSettling, Locals
<1>3. ASSUME NEW k \in Sockets, Publishes(k),
             NEW t \in Servers, NEW p \in Projects, NEW u \in Locals(t) \ stranded
      PROVE  Settling(outbox'[t], log'[p], p, u)
  <2> DEFINE s == socket[k].server
  <2>1. PICK e \in Events : /\ Send(s, e) /\ e.user = SocketUser[k]
                            /\ e.channel = "project" => e.number = happened
    BY <1>3 DEF Publishes
  <2>2. /\ s \in Servers /\ outbox'[s] = Append(outbox[s], e) /\ log' = log
        /\ \A r \in Servers \ {s} : outbox'[r] = outbox[r]
    BY <1>3, <2>1 DEF Publishes, Send, IInv, ChannelInv, ChannelOf
  <2> HIDE DEF s
  <2>3. Settling(outbox[t], log[p], p, u)
    BY <1>3 DEF AllSettling
  <2>4. CASE t # s
    BY <2>2, <2>3, <2>4
  <2>5. CASE t = s
    <3>1. By(e, p, u) => \A h \in DOMAIN log[p] : log[p][h].number <= e.number
      <4> SUFFICES ASSUME By(e, p, u), NEW h \in DOMAIN log[p]
                   PROVE  log[p][h].number <= e.number
        OBVIOUS
      <4>1. e.number = happened /\ log[p][h].number < happened
        BY <2>1 DEF By, OfProject, Numbered
      <4>2. log[p][h] \in Updates /\ happened \in 0..MaxEvents
        BY <1>1 DEF IInv, ChannelInv, ChannelOf
      <4>3. log[p][h].number \in 0..MaxEvents
        BY <4>2 DEF Updates
      <4>4. QED  BY <4>1, <4>2, <4>3, OutagesAssumption
    <3>2. Settling(Append(outbox[t], e), log[p], p, u)
      BY <1>1, <2>3, <3>1, PublishSettles
    <3>3. QED  BY <2>2, <2>5, <3>2
  <2>6. QED  BY <2>4, <2>5
<1>4. ASSUME NEW s \in Servers, RelayAny(s),
             NEW t \in Servers, NEW p \in Projects, NEW u \in Locals(t) \ stranded
      PROVE  Settling(outbox'[t], log'[p], p, u)
  <2> DEFINE e == Upcoming(s)
             q == outbox[t]
             l == log[p]
  <2>1. /\ e \in Events /\ \A r \in Servers \ {s} : outbox'[r] = outbox[r]
        /\ \E i \in DOMAIN outbox[s] : e = outbox[s][i]
        /\ \/ outbox'[s] = outbox[s]
           \/ outbox[s] # <<>> /\ outbox'[s] = Tail(outbox[s]) /\ e = Head(outbox[s])
    BY <1>4, RelayAnswers
  <2>2. /\ OfProject(e, p) => e \in Updates /\ log'[p] = Append(l, e)
        /\ ~OfProject(e, p) => log'[p] = l
    BY <1>4, RelayLogs
  <2>3. q \in Seq(Events) /\ l \in Seq(Updates) /\ Settling(q, l, p, u) /\ Ordered(q)
    BY <1>1, <1>4 DEF AllSettling, Numbered
  <2>4. t # s => e.user # u
    BY <1>4, <2>1 DEF Told, OwnEvents
  <2> HIDE DEF e
  <2>5. ASSUME ~By(e, p, u), NEW r, Settling(r, l, p, u)
        PROVE  Settling(r, log'[p], p, u)
    <3>1. CASE OfProject(e, p)
      <4>1. e.user # u
        BY <2>5, <3>1 DEF By
      <4>2. Settling(r, Append(l, e), p, u)
        BY <2>3, <2>5, <4>1, OtherLogged
      <4>3. QED  BY <2>2, <3>1, <4>2
    <3>2. CASE ~OfProject(e, p)
      BY <2>2, <2>5, <3>2
    <3>3. QED  BY <3>1, <3>2
  <2>6. CASE t # s
    BY <2>1, <2>3, <2>4, <2>5, <2>6 DEF By
  <2>7. CASE t = s /\ outbox'[s] = outbox[s]
    <3>1. CASE By(e, p, u)
      <4>1. PICK j \in DOMAIN q : e = q[j]
        BY <2>1, <2>7
      <4>2. Settling(q, Append(l, q[j]), p, u)
        BY <2>3, <3>1, <4>1, OwnLogged
      <4>3. log'[p] = Append(l, q[j])
        BY <2>2, <3>1, <4>1 DEF By
      <4>4. QED  BY <2>7, <4>2, <4>3
    <3>2. CASE ~By(e, p, u)
      BY <2>3, <2>5, <2>7, <3>2
    <3>3. QED  BY <3>1, <3>2
  <2>8. CASE t = s /\ outbox[s] # <<>> /\ outbox'[s] = Tail(outbox[s]) /\ e = Head(outbox[s])
    <3>1. q # <<>> /\ outbox'[t] = Tail(q) /\ e = Head(q)
      BY <2>8
    <3>2. CASE By(e, p, u)
      <4>1. Settling(Tail(q), Append(l, Head(q)), p, u)
        BY <2>3, <3>1, <3>2, OwnAnswered
      <4>2. log'[p] = Append(l, Head(q))
        BY <2>2, <3>1, <3>2 DEF By
      <4>3. QED  BY <3>1, <4>1, <4>2
    <3>3. CASE ~By(e, p, u)
      <4>1. Settling(Tail(q), l, p, u)
        BY <2>3, <3>1, <3>3, OtherAnswered
      <4>2. QED  BY <2>5, <3>1, <3>3, <4>1
    <3>4. QED  BY <3>2, <3>3
  <2>9. QED  BY <2>1, <2>6, <2>7, <2>8
<1>5. ASSUME NEW s \in Servers, CrashAll(s),
             NEW t \in Servers, NEW p \in Projects, NEW u \in Locals(t) \ stranded'
      PROVE  Settling(outbox'[t], log'[p], p, u)
  <2>1. /\ log' = log /\ outbox'[s] = <<>>
        /\ \A r \in Servers \ {s} : outbox'[r] = outbox[r]
        /\ stranded \subseteq stranded'
        /\ \A i \in DOMAIN outbox[s] : outbox[s][i].user \in stranded'
    BY <1>5 DEF CrashAll, Crash, Vanish, IInv, ChannelInv, ChannelOf
  <2>2. Settling(outbox[t], log[p], p, u)
    BY <1>5, <2>1 DEF AllSettling
  <2>3. CASE t = s
    <3>1. \A i \in DOMAIN outbox[t] : ~By(outbox[t][i], p, u)
      BY <1>5, <2>1, <2>3 DEF By
    <3>2. LastOnTop(log[p], u)
      BY <2>2, <3>1 DEF Settling
    <3>3. DOMAIN outbox'[t] = {}
      BY <2>1, <2>3
    <3>4. QED  BY <2>1, <3>2, <3>3 DEF Settling
  <2>4. QED  BY <2>1, <2>2, <2>3
<1>6. (\E k \in Sockets : Publishes(k)) \/ (\E s \in Servers : RelayAny(s)) => stranded' = stranded
  BY RelayAnswers DEF Publishes
<1>7. (\E k \in Sockets : Publishes(k)) => AllSettling'
  BY <1>3, <1>6 DEF AllSettling, Locals
<1>8. (\E s \in Servers : RelayAny(s)) => AllSettling'
  BY <1>4, <1>6 DEF AllSettling, Locals
<1>9. (\E s \in Servers : CrashAll(s)) => AllSettling'
  BY <1>5 DEF AllSettling, Locals
<1>10. QED  BY <1>2, <1>7, <1>8, <1>9, StepPublishes

LEMMA NewestInvariant == EventsSpec => [](Numbered /\ AllSettling)
<1>1. EventsInit => Numbered /\ AllSettling
  <2> SUFFICES ASSUME EventsInit PROVE Numbered /\ AllSettling
    OBVIOUS
  <2>1. /\ \A s \in Servers : DOMAIN outbox[s] = {}
        /\ \A p \in Projects : DOMAIN log[p] = {}
    BY DEF EventsInit, Init, ChannelInit
  <2>2. QED  BY <2>1 DEF Numbered, Ordered, AllSettling, Settling, LastOnTop
<1>2. QED
  BY <1>1, NumberedKept, SettlingKept, EventsInvariant, LogInvariant, AllEventsTold, PTL
     DEF EventsSpec

\* However often updates are sent again: when all is delivered, the last one of
\* an author is the newest of his, unless his server died on it
\* (redis-pubsub.service.js).
THEOREM NewestIsLast == EventsSpec => []LastIsNewest
<1>1. AllSettling => LastIsNewest
  <2> SUFFICES ASSUME AllSettling, Quiet, NEW s \in Servers, NEW p \in Projects,
                      NEW u \in Locals(s) \ stranded,
                      NEW last \in Own(u, p), \A i \in Own(u, p) : i <= last,
                      NEW i \in Own(u, p)
               PROVE  log[p][i].number <= log[p][last].number
    BY DEF LastIsNewest
  <2>1. DOMAIN outbox[s] = {}
    BY DEF Quiet
  <2>2. LastOnTop(log[p], u)
    BY <2>1 DEF AllSettling, Settling
  <2>3. \A h : h \in Own(u, p) <=> h \in DOMAIN log[p] /\ log[p][h].user = u
    BY DEF Own
  <2>4. QED  BY <2>2, <2>3 DEF LastOnTop
<1>2. QED  BY <1>1, NewestInvariant, PTL
=============================================================================
