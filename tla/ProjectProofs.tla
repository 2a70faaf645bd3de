----------------------------- MODULE ProjectProofs -----------------------------
(***************************************************************************)
(* Theorems about ProjectAccess, for all users, projects, requests, bounds  *)
(* and faults.  That members are sound and that whoever changes them has    *)
(* been an owner follows from one inductive invariant: what the rows say    *)
(* (RowsInv), and what a request says once its role is checked (Whole).     *)
(***************************************************************************)
EXTENDS ProjectAccess, TLAPS

CallType ==
  [pc : CallPcs, user : Users \cup {NoUser}, project : Projects \cup {NoProject},
   target : Users \cup {NoUser}, member : 0..MaxMembers, role : Roles \cup {"none"},
   reply : Replies]

RowType == {NoRow} \cup [project : Projects, user : Users, role : Roles]

\* The pcs of the requests that only an owner may make.
OwnerPcs == {"delete", "invite", "insert", "role", "look", "remove"}

\* A request r, when own are the owners so far and n the next member id.
Whole(r, own, n) ==
  /\ r \in CallType
  /\ r.pc \notin {"idle", "answered"} => r.user \in Users /\ r.project \in Projects
  /\ r.pc \in OwnerPcs => r.user \in own[r.project]
  /\ r.pc \in {"invite", "insert"} => r.target \in Users /\ r.role \in Roles \ {"owner"}
  /\ r.pc = "role" => r.role \in Roles
  /\ r.pc \in {"role", "look", "remove"} => r.member \in 1..(n - 1)

CallsInv == call \in [Calls -> CallType] /\ \A c \in Calls : Whole(call[c], owners, nextId)

TypedRows ==
  /\ project \in [Projects -> {"none", "live", "deleted"}]
  /\ row \in [MemberIds -> RowType]
  /\ nextId \in 1..(MaxMembers + 1)
  /\ \A m \in MemberIds : m >= nextId => row[m] = NoRow
  /\ owners \in [Projects -> SUBSET Users]

LiveRows == \A m \in MemberIds : row[m] # NoRow => project[row[m].project] = "live"

SingleRows ==
  \A m, n \in MemberIds :
    row[m] # NoRow /\ row[n].project = row[m].project /\ row[n].user = row[m].user => n = m

\* An owner's row is the row of somebody who has been an owner.
OwnerRows ==
  \A m \in MemberIds : row[m].role = "owner" => row[m].user \in owners[row[m].project]

RowsInv == TypedRows /\ LiveRows /\ SingleRows /\ OwnerRows

IInv == RowsInv /\ CallsInv

-----------------------------------------------------------------------------
(* Requests *)

\* A request stays whole while owners and ids grow.
LEMMA WholeGrows ==
  ASSUME NEW r, NEW own, NEW own2, NEW n \in Nat, NEW n2 \in Nat,
         Whole(r, own, n), n <= n2, \A p \in Projects : own[p] \subseteq own2[p]
  PROVE  Whole(r, own2, n2)
BY DEF Whole, OwnerPcs

\* So does every request but c, which becomes r.
LEMMA CallsGrow ==
  ASSUME CallsInv, NEW c \in Calls, NEW r, call' = [call EXCEPT ![c] = r],
         nextId \in Nat, nextId' \in Nat, nextId <= nextId',
         \A p \in Projects : owners[p] \subseteq owners'[p],
         Whole(r, owners', nextId')
  PROVE  CallsInv'
<1>1. call' \in [Calls -> CallType]
  BY DEF CallsInv, Whole
<1>2. \A d \in Calls : Whole(call[d], owners', nextId')
  BY WholeGrows DEF CallsInv
<1>3. \A d \in Calls : Whole(call'[d], owners', nextId')
  BY <1>2 DEF CallsInv
<1>4. QED  BY <1>1, <1>3 DEF CallsInv, Whole

\* An answer is whole, and so is no request.
LEMMA AnswersAreWhole ==
  ASSUME NEW own, NEW n
  PROVE  /\ Whole(IdleCall, own, n)
         /\ \A reply \in Replies :
              Whole([IdleCall EXCEPT !.pc = "answered", !.reply = reply], own, n)
<1>1. IdleCall \in CallType
  BY BoundAssumption DEF IdleCall, CallType, CallPcs, Replies
<1>2. Whole(IdleCall, own, n)
  BY <1>1 DEF Whole, IdleCall, OwnerPcs
<1> SUFFICES ASSUME NEW reply \in Replies
             PROVE  Whole([IdleCall EXCEPT !.pc = "answered", !.reply = reply], own, n)
  BY <1>2
<1> DEFINE answer == [IdleCall EXCEPT !.pc = "answered", !.reply = reply]
<1>3. answer \in CallType /\ answer.pc = "answered"
  BY <1>1 DEF CallType, CallPcs
<1>4. QED  BY <1>3 DEF Whole, OwnerPcs

\* A step that only answers a request, or lets it go on as the whole request r.
LEMMA OnlyCalls ==
  ASSUME IInv, NEW c \in Calls, NEW r, Become(c, r), Whole(r, owners, nextId),
         UNCHANGED <<project, row, nextId, owners>>
  PROVE  IInv'
<1>1. nextId \in Nat /\ nextId' = nextId /\ owners' = owners
  BY BoundAssumption DEF IInv, RowsInv, TypedRows
<1>4. Whole(r, owners', nextId')
  BY <1>1
<1>2. CallsInv'
  <2>1. /\ CallsInv /\ call' = [call EXCEPT ![c] = r]
        /\ nextId' \in Nat /\ nextId <= nextId'
        /\ \A p \in Projects : owners[p] \subseteq owners'[p]
    BY <1>1 DEF IInv, Become
  <2>2. QED  BY <1>1, <1>4, <2>1, CallsGrow
<1>3. RowsInv'
  BY DEF IInv, RowsInv, TypedRows, LiveRows, SingleRows, OwnerRows
<1>5. QED  BY <1>2, <1>3 DEF IInv

\* A step that answers a request and does to the rows what keeps them sound.
LEMMA AnswerAndRows ==
  ASSUME IInv, NEW c \in Calls, NEW reply \in Replies, Answer(c, reply), RowsInv',
         nextId <= nextId', \A p \in Projects : owners[p] \subseteq owners'[p]
  PROVE  IInv'
<1>1. nextId \in Nat /\ nextId' \in Nat
  BY BoundAssumption DEF IInv, RowsInv, TypedRows
<1>2. CallsInv'
  BY <1>1, CallsGrow, AnswersAreWhole DEF IInv, Answer, Become
<1>3. QED  BY <1>2 DEF IInv

LEMMA OnlyAnswer ==
  ASSUME IInv, NEW c \in Calls, NEW reply \in Replies, Answer(c, reply),
         UNCHANGED <<project, row, nextId, owners>>
  PROVE  IInv'
BY OnlyCalls, AnswersAreWhole DEF Answer

-----------------------------------------------------------------------------
(* Rows *)

\* A row of a project that is live, for a user who has none, keeps rows sound.
LEMMA RowAdded ==
  ASSUME RowsInv, RoomForMember, NEW p \in Projects, NEW u \in Users, NEW role \in Roles,
         AddRow(p, u, role), RowsOf(p, u) = {}, project'[p] = "live",
         project' \in [Projects -> {"none", "live", "deleted"}],
         \A q \in Projects : project[q] = "live" => project'[q] = "live",
         owners' \in [Projects -> SUBSET Users],
         \A q \in Projects : owners[q] \subseteq owners'[q],
         role = "owner" => u \in owners'[p]
  PROVE  RowsInv' /\ nextId <= nextId'
<1> DEFINE new == [project |-> p, user |-> u, role |-> role]
<1>1. /\ nextId \in MemberIds /\ nextId' = nextId + 1
      /\ row' = [row EXCEPT ![nextId] = new]
      /\ row \in [MemberIds -> RowType] /\ new \in RowType /\ new # NoRow
  BY BoundAssumption, NamesAssumption
     DEF RowsInv, TypedRows, RoomForMember, AddRow, MemberIds, RowType, NoRow
<1>2. \A m \in MemberIds : row'[m] = IF m = nextId THEN new ELSE row[m]
  BY <1>1
<1>3. TypedRows'
  BY <1>1, <1>2, BoundAssumption DEF RowsInv, TypedRows, MemberIds
<1>4. \A m \in MemberIds : row[m] # NoRow => row[m].project \in Projects
  BY <1>1 DEF RowType
<1>5. LiveRows'
  BY <1>1, <1>2, <1>4 DEF RowsInv, LiveRows
<1>6. \A m \in MemberIds : row[m].project = p => row[m].user # u
  BY DEF RowsOf, Rows
<1>7. SingleRows'
  <2> SUFFICES ASSUME NEW m \in MemberIds, NEW n \in MemberIds, row'[m] # NoRow,
                      row'[n].project = row'[m].project, row'[n].user = row'[m].user
               PROVE  n = m
    BY <1>1 DEF SingleRows
  <2>1. CASE m = nextId /\ n # nextId  BY <2>1, <1>2, <1>6
  <2>2. CASE m # nextId /\ n = nextId  BY <2>2, <1>2, <1>6
  <2>3. CASE m # nextId /\ n # nextId  BY <2>3, <1>2 DEF RowsInv, SingleRows
  <2>4. QED  BY <2>1, <2>2, <2>3
<1>8. OwnerRows'
  <2> SUFFICES ASSUME NEW m \in MemberIds, row'[m].role = "owner"
               PROVE  row'[m].user \in owners'[row'[m].project]
    BY <1>1 DEF OwnerRows
  <2>1. CASE m = nextId  BY <2>1, <1>2
  <2>2. CASE m # nextId
    <3>1. row[m].role = "owner" /\ row'[m] = row[m]  BY <2>2, <1>2
    <3>2. row[m] # NoRow  BY <3>1 DEF NoRow
    <3>3. QED  BY <3>1, <3>2, <1>4 DEF RowsInv, OwnerRows
  <2>3. QED  BY <2>1, <2>2
<1>9. QED  BY <1>1, <1>3, <1>5, <1>7, <1>8, BoundAssumption DEF RowsInv, MemberIds

\* Rows that go, or change their role, leave sound rows, if a new owner is noted.
LEMMA RowsChanged ==
  ASSUME RowsInv, nextId' = nextId, row' \in [MemberIds -> RowType],
         \A m \in MemberIds :
           \/ row'[m] = NoRow
           \/ /\ row[m] # NoRow /\ row'[m] # NoRow
              /\ row'[m].project = row[m].project /\ row'[m].user = row[m].user
              /\ project'[row[m].project] = "live"
              /\ row'[m].role = "owner" => row[m].user \in owners'[row[m].project],
         project' \in [Projects -> {"none", "live", "deleted"}],
         owners' \in [Projects -> SUBSET Users]
  PROVE  RowsInv'
<1>1. TypedRows'  BY DEF RowsInv, TypedRows
<1>2. LiveRows'   BY DEF RowsInv, LiveRows
<1>3. SingleRows'
  <2> SUFFICES ASSUME NEW m \in MemberIds, NEW n \in MemberIds, row'[m] # NoRow,
                      row'[n].project = row'[m].project, row'[n].user = row'[m].user
               PROVE  n = m
    BY DEF SingleRows, MemberIds
  <2>1. row'[m].project \in Projects  BY DEF RowType
  <2>2. row'[n] # NoRow  BY <2>1, NamesAssumption DEF NoRow
  <2>3. QED  BY <2>2 DEF RowsInv, SingleRows
<1>4. OwnerRows'
  <2> SUFFICES ASSUME NEW m \in MemberIds, row'[m].role = "owner"
               PROVE  row'[m].user \in owners'[row'[m].project]
    BY DEF OwnerRows, MemberIds
  <2>1. row'[m] # NoRow  BY DEF NoRow
  <2>2. QED  BY <2>1
<1>5. QED  BY <1>1, <1>2, <1>3, <1>4 DEF RowsInv
-----------------------------------------------------------------------------
(* Every step keeps the invariant *)

LEMMA InitHolds == Init => IInv
<1> SUFFICES ASSUME Init PROVE IInv
  OBVIOUS
<1>1. RowsInv
  BY BoundAssumption
     DEF Init, RowsInv, TypedRows, LiveRows, SingleRows, OwnerRows, RowType, MemberIds, NoRow
<1>2. CallsInv
  BY AnswersAreWhole DEF Init, CallsInv, Whole
<1>3. QED  BY <1>1, <1>2 DEF IInv

\* The role check: a request for owners only goes on only for one.
LEMMA CheckHolds ==
  ASSUME IInv, NEW c \in Calls, NEW u \in Users, NEW p \in Projects, NEW r \in CallType,
         r.user = u, r.project = p, r.pc \in OwnerPcs \cup {"update"},
         r.pc = "invite" => r.target \in Users /\ r.role \in Roles \ {"owner"},
         r.pc # "insert", r.pc = "role" => r.role \in Roles,
         r.pc \in {"role", "look", "remove"} => r.member \in 1..(nextId - 1),
         Check(c, r)
  PROVE  IInv'
<1>1. UNCHANGED <<project, row, nextId, owners>>
  BY DEF Check
<1>2. CASE HasRole(p, u, Allowed(r.pc)) /\ Become(c, r)
  <2>1. ASSUME r.pc \in OwnerPcs PROVE u \in owners[p]
    <3>1. PICK m \in MemberIds : row[m].project = p /\ row[m].user = u /\ row[m].role = "owner"
      BY <1>2, <2>1 DEF HasRole, RowsOf, Rows, Allowed, OwnerPcs
    <3>2. QED  BY <3>1 DEF IInv, RowsInv, OwnerRows
  <2>2. Whole(r, owners, nextId)
    BY <2>1 DEF Whole
  <2>3. QED  BY <1>1, <1>2, <2>2, OnlyCalls
<1>3. CASE \E reply \in Replies : Answer(c, reply)
  BY <1>1, <1>3, OnlyAnswer
<1>4. QED  BY <1>2, <1>3 DEF Check, Replies

LEMMA AskHolds ==
  ASSUME IInv, NEW c \in Calls, NEW u \in Users, NEW p \in Projects,
         AskUpdate(c, u, p) \/ AskDelete(c, u, p) \/ AskInvite(c, u, p)
           \/ AskRole(c, u, p) \/ AskRemove(c, u, p)
  PROVE  IInv'
<1>1. \A pc \in CallPcs : /\ Asks(u, p, pc) \in CallType /\ Asks(u, p, pc).pc = pc
                          /\ Asks(u, p, pc).user = u /\ Asks(u, p, pc).project = p
  <2>1. "none" \in Replies /\ 0 \in 0..MaxMembers
    BY BoundAssumption DEF Replies
  <2>2. QED  BY <2>1 DEF Asks, IdleCall, CallType
<1>2. /\ {"update", "delete", "invite", "role", "look"} \subseteq CallPcs
      /\ nextId - 1 \in 0..MaxMembers
  BY BoundAssumption DEF CallPcs, IInv, RowsInv, TypedRows
<1>3. CASE AskUpdate(c, u, p)
  BY <1>1, <1>2, <1>3, CheckHolds DEF AskUpdate, OwnerPcs
<1>4. CASE AskDelete(c, u, p)
  BY <1>1, <1>2, <1>4, CheckHolds DEF AskDelete, OwnerPcs
<1>5. CASE AskInvite(c, u, p)
  <2>1. PICK t \in Users, role \in Roles \ {"owner"} :
          Check(c, [Asks(u, p, "invite") EXCEPT !.target = t, !.role = role])
    BY <1>5 DEF AskInvite
  <2> DEFINE r == [Asks(u, p, "invite") EXCEPT !.target = t, !.role = role]
  <2>2. /\ r \in CallType /\ r.pc = "invite" /\ r.user = u /\ r.project = p
        /\ r.target = t /\ r.role = role
    <3>1. Asks(u, p, "invite") \in CallType /\ t \in Users \cup {NoUser}
          /\ role \in Roles \cup {"none"}
      BY <1>1, <1>2
    <3>2. QED  BY <1>1, <1>2, <3>1 DEF CallType
  <2> HIDE DEF r
  <2>3. QED  BY <2>1, <2>2, CheckHolds DEF OwnerPcs, r
<1>6. CASE AskRole(c, u, p)
  <2>1. PICK m \in 1..(nextId - 1), role \in Roles :
          Check(c, [Asks(u, p, "role") EXCEPT !.member = m, !.role = role])
    BY <1>6 DEF AskRole
  <2> DEFINE r == [Asks(u, p, "role") EXCEPT !.member = m, !.role = role]
  <2>2. m \in 0..MaxMembers
    BY <1>2, BoundAssumption
  <2>3. /\ r \in CallType /\ r.pc = "role" /\ r.user = u /\ r.project = p
        /\ r.member = m /\ r.role = role
    <3>1. Asks(u, p, "role") \in CallType /\ role \in Roles \cup {"none"}
      BY <1>1, <1>2
    <3>2. QED  BY <1>1, <1>2, <2>2, <3>1 DEF CallType
  <2> HIDE DEF r
  <2>4. QED  BY <2>1, <2>3, CheckHolds DEF OwnerPcs, r
<1>7. CASE AskRemove(c, u, p)
  <2>1. PICK m \in 1..(nextId - 1) : Check(c, [Asks(u, p, "look") EXCEPT !.member = m])
    BY <1>7 DEF AskRemove
  <2> DEFINE r == [Asks(u, p, "look") EXCEPT !.member = m]
  <2>2. m \in 0..MaxMembers
    BY <1>2, BoundAssumption
  <2>3. /\ r \in CallType /\ r.pc = "look" /\ r.user = u /\ r.project = p /\ r.member = m
    BY <1>1, <1>2, <2>2 DEF CallType
  <2> HIDE DEF r
  <2>4. QED  BY <2>1, <2>3, CheckHolds DEF OwnerPcs, r
<1>8. QED  BY <1>3, <1>4, <1>5, <1>6, <1>7

LEMMA CreateHolds ==
  ASSUME IInv, NEW c \in Calls, NEW u \in Users, NEW p \in Projects, CreateProject(c, u, p)
  PROVE  IInv'
<1>1. PICK o \in Outcomes :
        /\ IF Applied(o)
           THEN /\ project' = [project EXCEPT ![p] = "live"]
                /\ AddRow(p, u, "owner")
                /\ owners' = [owners EXCEPT ![p] = @ \cup {u}]
           ELSE UNCHANGED <<project, row, nextId, owners>>
        /\ Answer(c, IF Raised(o) THEN "error" ELSE "served")
  BY DEF CreateProject
<1>2. (IF Raised(o) THEN "error" ELSE "served") \in Replies
  BY DEF Replies
<1>3. CASE Applied(o)
  <2>1. RowsInv /\ RoomForMember /\ project[p] = "none"
    BY DEF IInv, CreateProject
  <2>2. RowsOf(p, u) = {}
    BY <2>1, NamesAssumption DEF RowsOf, Rows, RowsInv, LiveRows, NoRow
  <2>3. /\ project' \in [Projects -> {"none", "live", "deleted"}] /\ project'[p] = "live"
        /\ \A q \in Projects : project[q] = "live" => project'[q] = "live"
        /\ owners' \in [Projects -> SUBSET Users] /\ u \in owners'[p]
        /\ \A q \in Projects : owners[q] \subseteq owners'[q]
    BY <1>1, <1>3, <2>1 DEF RowsInv, TypedRows
  <2>4. AddRow(p, u, "owner") /\ "owner" \in Roles
    BY <1>1, <1>3 DEF Roles
  <2>5. RowsInv' /\ nextId <= nextId'
    BY <2>1, <2>2, <2>3, <2>4, RowAdded
  <2>6. QED  BY <1>1, <1>2, <2>3, <2>5, AnswerAndRows
<1>4. CASE ~Applied(o)
  BY <1>1, <1>2, <1>4, OnlyAnswer
<1>5. QED  BY <1>3, <1>4

LEMMA DeleteHolds ==
  ASSUME IInv, NEW c \in Calls, DeleteProject(c)
  PROVE  IInv'
<1> DEFINE p == call[c].project
           reply(o) == IF Raised(o) THEN "error"
                       ELSE IF project[p] = "live" THEN "served" ELSE "not_found"
<1>1. PICK o \in Outcomes :
        /\ IF Applied(o)
           THEN /\ project' = [project EXCEPT ![p] = "deleted"]
                /\ row' = [m \in MemberIds |-> IF row[m].project = p THEN NoRow ELSE row[m]]
           ELSE UNCHANGED <<project, row>>
        /\ Answer(c, reply(o))
  BY DEF DeleteProject
<1>2. /\ reply(o) \in Replies /\ UNCHANGED <<nextId, owners>>
      /\ nextId' = nextId /\ owners' = owners
  BY DEF Replies, DeleteProject
<1>3. CASE Applied(o)
  <2>1. RowsInv /\ p \in Projects
    BY DEF IInv, CallsInv, Whole, DeleteProject
  <2>2. row' \in [MemberIds -> RowType]
    BY <1>1, <1>3, <2>1 DEF RowsInv, TypedRows, RowType
  <2>3. /\ project' \in [Projects -> {"none", "live", "deleted"}]
        /\ \A q \in Projects \ {p} : project'[q] = project[q]
        /\ owners' \in [Projects -> SUBSET Users]
    BY <1>1, <1>2, <1>3, <2>1 DEF RowsInv, TypedRows
  <2>4. ASSUME NEW m \in MemberIds, row'[m] # NoRow
        PROVE  /\ row'[m] = row[m] /\ row[m] # NoRow /\ project'[row[m].project] = "live"
               /\ row[m].role = "owner" => row[m].user \in owners'[row[m].project]
    <3>1. row'[m] = row[m] /\ row[m] # NoRow /\ row[m].project # p
      BY <1>1, <1>3, <2>4
    <3>2. row[m].project \in Projects
      BY <3>1, <2>1 DEF RowsInv, TypedRows, RowType
    <3>3. QED  BY <3>1, <3>2, <2>3, <2>1, <1>2 DEF RowsInv, LiveRows, OwnerRows
  <2>5. RowsInv'
    BY <2>1, <2>2, <2>3, <2>4, <1>2, RowsChanged
  <2>6. nextId <= nextId' /\ \A q \in Projects : owners[q] \subseteq owners'[q]
    BY <1>2, <2>1, BoundAssumption DEF RowsInv, TypedRows
  <2>7. QED  BY <1>1, <1>2, <2>5, <2>6, AnswerAndRows
<1>4. CASE ~Applied(o)
  BY <1>1, <1>2, <1>4, OnlyAnswer
<1>5. QED  BY <1>3, <1>4

LEMMA InsertHolds ==
  ASSUME IInv, NEW c \in Calls, InsertMember(c)
  PROVE  IInv'
<1> DEFINE p == call[c].project
           t == call[c].target
           inserted(o) == Applied(o) /\ project[p] = "live" /\ RowsOf(p, t) = {}
           reply(o) == IF inserted(o) /\ ~Raised(o) THEN "served" ELSE "error"
<1>1. PICK o \in Outcomes :
        /\ IF inserted(o) THEN AddRow(p, t, call[c].role) ELSE UNCHANGED <<row, nextId>>
        /\ Answer(c, reply(o))
  BY DEF InsertMember
<1>2. /\ reply(o) \in Replies /\ UNCHANGED <<project, owners>>
      /\ project' = project /\ owners' = owners
  BY DEF Replies, InsertMember
<1>3. CASE inserted(o)
  <2>1. /\ RowsInv /\ RoomForMember
        /\ p \in Projects /\ t \in Users /\ call[c].role \in Roles \ {"owner"}
    BY DEF IInv, CallsInv, Whole, InsertMember
  <2>2. /\ AddRow(p, t, call[c].role) /\ RowsOf(p, t) = {}
        /\ project' \in [Projects -> {"none", "live", "deleted"}] /\ project'[p] = "live"
        /\ \A q \in Projects : project[q] = "live" => project'[q] = "live"
        /\ owners' \in [Projects -> SUBSET Users]
        /\ \A q \in Projects : owners[q] \subseteq owners'[q]
    BY <1>1, <1>2, <1>3, <2>1 DEF RowsInv, TypedRows
  <2>3. RowsInv' /\ nextId <= nextId'
    BY <2>1, <2>2, RowAdded
  <2>4. QED  BY <1>1, <1>2, <2>2, <2>3, AnswerAndRows
<1>4. CASE ~inserted(o)
  BY <1>1, <1>2, <1>4, OnlyAnswer
<1>5. QED  BY <1>3, <1>4

LEMMA RoleHolds ==
  ASSUME IInv, NEW c \in Calls, UpdateMemberRole(c)
  PROVE  IInv'
<1> DEFINE m == call[c].member
           p == call[c].project
           role == call[c].role
           found == row[m].project = p
           reply(o) == IF Raised(o) THEN "error" ELSE IF found THEN "served" ELSE "not_found"
<1>1. PICK o \in Outcomes :
        /\ IF Applied(o) /\ found
           THEN /\ row' = [row EXCEPT ![m].role = role]
                /\ owners' = IF role = "owner"
                             THEN [owners EXCEPT ![p] = @ \cup {row[m].user}] ELSE owners
           ELSE UNCHANGED <<row, owners>>
        /\ Answer(c, reply(o))
  BY DEF UpdateMemberRole
<1>2. /\ reply(o) \in Replies /\ UNCHANGED <<project, nextId>>
      /\ project' = project /\ nextId' = nextId
  BY DEF Replies, UpdateMemberRole
<1>3. CASE Applied(o) /\ found
  <2>1. RowsInv /\ p \in Projects /\ role \in Roles /\ m \in 1..(nextId - 1)
    BY DEF IInv, CallsInv, Whole, UpdateMemberRole
  <2>2. m \in MemberIds /\ nextId <= nextId'
    BY <1>2, <2>1, BoundAssumption DEF RowsInv, TypedRows, MemberIds
  <2>3. row[m] # NoRow /\ row[m] \in [project : Projects, user : Users, role : Roles]
    BY <1>3, <2>1, <2>2, NamesAssumption DEF RowsInv, TypedRows, RowType, NoRow
  <2>4. /\ row' \in [MemberIds -> RowType] /\ row'[m] = [row[m] EXCEPT !.role = role]
        /\ \A n \in MemberIds \ {m} : row'[n] = row[n]
    BY <1>1, <1>3, <2>1, <2>2, <2>3 DEF RowsInv, TypedRows, RowType
  <2>5. row'[m].project = p /\ row'[m].user = row[m].user /\ row'[m].role = role
    BY <1>3, <2>3, <2>4
  <2>6. row'[m] # NoRow
    BY <2>1, <2>5, NamesAssumption DEF NoRow
  <2>7. /\ owners' \in [Projects -> SUBSET Users]
        /\ role = "owner" => row[m].user \in owners'[p]
        /\ \A q \in Projects : owners[q] \subseteq owners'[q]
    BY <1>1, <1>3, <2>1, <2>3 DEF RowsInv, TypedRows
  <2>8. ASSUME NEW n \in MemberIds, row'[n] # NoRow
        PROVE  /\ row[n] # NoRow /\ row'[n].project = row[n].project
               /\ row'[n].user = row[n].user /\ project'[row[n].project] = "live"
               /\ row'[n].role = "owner" => row[n].user \in owners'[row[n].project]
    <3>1. CASE n = m
      BY <3>1, <1>2, <1>3, <2>1, <2>2, <2>3, <2>5, <2>7 DEF RowsInv, LiveRows
    <3>2. CASE n # m
      <4>1. row'[n] = row[n] /\ row[n] # NoRow /\ row[n].project \in Projects
        BY <3>2, <2>4, <2>8, <2>1 DEF RowsInv, TypedRows, RowType
      <4>2. QED  BY <4>1, <2>1, <2>7, <1>2 DEF RowsInv, LiveRows, OwnerRows
    <3>3. QED  BY <3>1, <3>2
  <2>9. RowsInv'
    <3>1. project' \in [Projects -> {"none", "live", "deleted"}]
      BY <1>2, <2>1 DEF RowsInv, TypedRows
    <3>2. QED  BY <1>2, <2>1, <2>4, <2>7, <2>8, <3>1, RowsChanged
  <2>10. QED  BY <1>1, <1>2, <2>2, <2>7, <2>9, AnswerAndRows
<1>4. CASE ~(Applied(o) /\ found)
  BY <1>1, <1>2, <1>4, OnlyAnswer
<1>5. QED  BY <1>3, <1>4

LEMMA RemoveHolds ==
  ASSUME IInv, NEW c \in Calls, RemoveMember(c)
  PROVE  IInv'
<1> DEFINE m == call[c].member
           reply(o) == IF Raised(o) THEN "error" ELSE "served"
<1>1. PICK o \in Outcomes :
        /\ row' = IF Applied(o) /\ row[m].project = call[c].project
                  THEN [row EXCEPT ![m] = NoRow] ELSE row
        /\ Answer(c, reply(o))
  BY DEF RemoveMember
<1>2. /\ reply(o) \in Replies /\ project' = project /\ nextId' = nextId /\ owners' = owners
  BY DEF Replies, RemoveMember
<1>3. RowsInv
  BY DEF IInv
<1>4. /\ row' \in [MemberIds -> RowType]
      /\ \A n \in MemberIds : row'[n] = NoRow \/ row'[n] = row[n]
  BY <1>1, <1>3 DEF RowsInv, TypedRows, RowType
<1>5. ASSUME NEW n \in MemberIds, row'[n] # NoRow
      PROVE  /\ row[n] # NoRow /\ row'[n] = row[n] /\ project'[row[n].project] = "live"
             /\ row[n].role = "owner" => row[n].user \in owners'[row[n].project]
  BY <1>2, <1>3, <1>4, <1>5 DEF RowsInv, LiveRows, OwnerRows
<1>6. /\ project' \in [Projects -> {"none", "live", "deleted"}]
      /\ owners' \in [Projects -> SUBSET Users]
      /\ nextId <= nextId' /\ \A q \in Projects : owners[q] \subseteq owners'[q]
  BY <1>2, <1>3, BoundAssumption DEF RowsInv, TypedRows
<1>7. RowsInv'
  BY <1>2, <1>3, <1>4, <1>5, <1>6, RowsChanged
<1>8. QED  BY <1>1, <1>2, <1>6, <1>7, AnswerAndRows

\* The steps that change no row.
LEMMA OtherStepsHold ==
  ASSUME IInv, NEW c \in Calls,
         UpdateProject(c) \/ LookUpInvited(c) \/ LookAtMember(c) \/ Respond(c) \/ Crash(c)
  PROVE  IInv'
<1>1. UNCHANGED <<project, row, nextId, owners>>
  BY DEF UpdateProject, LookUpInvited, LookAtMember, Respond, Crash
<1>2. Whole(call[c], owners, nextId) /\ call[c] \in CallType
  BY DEF IInv, CallsInv
<1>3. CASE UpdateProject(c)
  <2>1. \E reply \in Replies : Answer(c, reply)
    BY <1>3 DEF UpdateProject, Replies
  <2>2. QED  BY <1>1, <2>1, OnlyAnswer
<1>4. CASE LookUpInvited(c)
  <2> DEFINE r == [call[c] EXCEPT !.pc = "insert"]
  <2>1. Whole(r, owners, nextId)
    <3>1. r \in CallType /\ r.pc = "insert"
      BY <1>2 DEF CallType, CallPcs
    <3>2. QED  BY <1>2, <1>4, <3>1 DEF LookUpInvited, Whole, OwnerPcs, CallType
  <2>2. Goto(c, "insert") => Become(c, r)
    BY DEF Goto, Become
  <2>3. Goto(c, "insert") \/ \E reply \in Replies : Answer(c, reply)
    BY <1>4 DEF LookUpInvited, Replies
  <2> HIDE DEF r
  <2>4. QED  BY <1>1, <2>1, <2>2, <2>3, OnlyAnswer, OnlyCalls
<1>5. CASE LookAtMember(c)
  <2> DEFINE r == [call[c] EXCEPT !.pc = "remove"]
  <2>1. Whole(r, owners, nextId)
    <3>1. r \in CallType /\ r.pc = "remove"
      BY <1>2 DEF CallType, CallPcs
    <3>2. QED  BY <1>2, <1>5, <3>1 DEF LookAtMember, Whole, OwnerPcs, CallType
  <2>2. Goto(c, "remove") => Become(c, r)
    BY DEF Goto, Become
  <2>3. Goto(c, "remove") \/ \E reply \in Replies : Answer(c, reply)
    BY <1>5 DEF LookAtMember, Replies
  <2> HIDE DEF r
  <2>4. QED  BY <1>1, <2>1, <2>2, <2>3, OnlyAnswer, OnlyCalls
<1>6. CASE Respond(c) \/ Crash(c)
  BY <1>1, <1>6, AnswersAreWhole, OnlyCalls DEF Respond, Crash
<1>7. QED  BY <1>3, <1>4, <1>5, <1>6

LEMMA StepHolds == IInv /\ [Next]_vars => IInv'
<1> SUFFICES ASSUME IInv, [Next]_vars PROVE IInv'
  OBVIOUS
<1>1. CASE UNCHANGED vars
  BY <1>1 DEF vars, IInv, RowsInv, TypedRows, LiveRows, SingleRows, OwnerRows, CallsInv, Whole
<1>2. ASSUME NEW c \in Calls, CallStep(c) PROVE IInv'
  BY <1>2, DeleteHolds, InsertHolds, RoleHolds, RemoveHolds, OtherStepsHold DEF CallStep
<1>3. ASSUME NEW c \in Calls, NEW u \in Users, NEW p \in Projects, Arrival(c, u, p)
      PROVE  IInv'
  BY <1>3, CreateHolds, AskHolds DEF Arrival
<1>4. QED  BY <1>1, <1>2, <1>3 DEF Next

LEMMA Invariant == Spec => []IInv
BY InitHolds, StepHolds, PTL DEF Spec

-----------------------------------------------------------------------------
(* Theorems *)

\* The variables have their types, and requests name rows that exist
\* (project.controller.js, schema.sql).
THEOREM TypeCorrect == Spec => []TypeOK
<1>1. IInv => TypeOK
  BY DEF IInv, RowsInv, TypedRows, RowType, CallsInv, CallType, Whole, TypeOK
<1>2. QED  BY <1>1, Invariant, PTL

\* Members are members of a live project, once, whatever races
\* (inviteMember, removeMember, deleteProject).
THEOREM MembersSound == Spec => []MembersAreSound
<1>1. IInv => MembersAreSound
  BY DEF IInv, RowsInv, LiveRows, SingleRows, MembersAreSound, RowsOf, Rows
<1>2. QED  BY <1>1, Invariant, PTL

\* A request for owners that is answered and changes the rows of its project only.
LEMMA AskedByOwner ==
  ASSUME IInv, NEW c \in Calls, call[c].pc \in OwnerPcs, NEW reply, Answer(c, reply),
         \A m \in MemberIds : row'[m] # row[m] => ProjectOfRow(m) = call[c].project,
         \A q \in Projects : project'[q] # project[q] => q = call[c].project
  PROVE  StepOfOwner
<1>1. call'[c].pc = "answered"
  BY DEF IInv, CallsInv, Answer, Become, IdleCall
<1>2. call'[c] # call[c] /\ call[c].user \in owners[call[c].project]
  BY <1>1 DEF IInv, CallsInv, Whole, OwnerPcs
<1>3. QED  BY <1>2 DEF StepOfOwner

LEMMA OwnersStep == IInv /\ [Next]_vars => [StepOfOwner]_vars
<1> SUFFICES ASSUME IInv, [Next]_vars PROVE StepOfOwner \/ UNCHANGED vars
  BY DEF vars
<1>1. ASSUME UNCHANGED <<project, row>> PROVE StepOfOwner
  BY <1>1 DEF StepOfOwner
<1>2. ASSUME NEW c \in Calls, NEW u \in Users, NEW p \in Projects, Arrival(c, u, p)
      PROVE  StepOfOwner
  <2>1. CASE CreateProject(c, u, p)
    <3>1. project[p] = "none" /\ RowsInv /\ RoomForMember
      BY <2>1 DEF CreateProject, IInv
    <3>2. CASE UNCHANGED <<project, row>>  BY <3>2, <1>1
    <3>3. CASE project' = [project EXCEPT ![p] = "live"] /\ AddRow(p, u, "owner")
      <4>1. \A m \in MemberIds : row'[m] # row[m] => m = nextId /\ row[m] = NoRow
        BY <3>1, <3>3, BoundAssumption DEF AddRow, RowsInv, TypedRows, MemberIds
      <4>2. \A m \in MemberIds : m = nextId => row'[m].project = p
        BY <3>1, <3>3 DEF AddRow, RowsInv, TypedRows
      <4>3. \A m \in MemberIds : row'[m] # row[m] => ProjectOfRow(m) = p
        BY <4>1, <4>2 DEF ProjectOfRow
      <4>4. \A q \in Projects : project[q] = "live" => project'[q] = "live"
        BY <3>1, <3>3 DEF RowsInv, TypedRows
      <4>5. QED  BY <3>1, <4>3, <4>4 DEF StepOfOwner
    <3>4. QED  BY <2>1, <3>2, <3>3 DEF CreateProject
  <2>2. CASE UNCHANGED <<project, row>>  BY <2>2, <1>1
  <2>3. QED
    BY <1>2, <2>1, <2>2 DEF Arrival, AskUpdate, AskDelete, AskInvite, AskRole, AskRemove, Check
<1>3. ASSUME NEW c \in Calls, InsertMember(c) PROVE StepOfOwner
  <2> DEFINE p == call[c].project
  <2>1. RowsInv /\ call[c].pc \in OwnerPcs /\ RoomForMember
    BY <1>3 DEF IInv, InsertMember, OwnerPcs
  <2>2. project' = project /\ \E reply : Answer(c, reply)
    BY <1>3 DEF InsertMember
  <2>3. CASE row' = row
    BY <2>2, <2>3, <1>1
  <2>4. CASE AddRow(p, call[c].target, call[c].role)
    <3>1. \A m \in MemberIds : row'[m] # row[m] => m = nextId /\ row[m] = NoRow
      BY <2>1, <2>4, BoundAssumption DEF AddRow, RowsInv, TypedRows, MemberIds
    <3>2. \A m \in MemberIds : m = nextId => row'[m].project = p
      BY <2>1, <2>4 DEF AddRow, RowsInv, TypedRows
    <3>3. \A m \in MemberIds : row'[m] # row[m] => ProjectOfRow(m) = p
      BY <3>1, <3>2 DEF ProjectOfRow
    <3>4. QED  BY <2>1, <2>2, <3>3, AskedByOwner
  <2>5. QED  BY <1>3, <2>3, <2>4 DEF InsertMember
<1>4. ASSUME NEW c \in Calls, DeleteProject(c) \/ UpdateMemberRole(c) \/ RemoveMember(c)
      PROVE  StepOfOwner
  <2> DEFINE p == call[c].project
  <2>1. RowsInv /\ call[c].pc \in OwnerPcs /\ p \in Projects
    BY <1>4 DEF IInv, CallsInv, Whole, DeleteProject, UpdateMemberRole, RemoveMember, OwnerPcs
  <2>2. \E reply : Answer(c, reply)
    BY <1>4 DEF DeleteProject, UpdateMemberRole, RemoveMember
  <2>3. /\ \A q \in Projects : project'[q] # project[q] => q = p
        /\ \A m \in MemberIds : row'[m] # row[m] => row[m].project = p
    BY <1>4, <2>1 DEF DeleteProject, UpdateMemberRole, RemoveMember, RowsInv, TypedRows
  <2>4. \A m \in MemberIds : row[m].project = p => row[m] # NoRow
    BY <2>1, NamesAssumption DEF NoRow
  <2>5. \A m \in MemberIds : row'[m] # row[m] => ProjectOfRow(m) = p
    BY <2>3, <2>4 DEF ProjectOfRow
  <2>6. QED  BY <2>1, <2>2, <2>3, <2>5, AskedByOwner
<1>5. ASSUME NEW c \in Calls, CallStep(c) PROVE StepOfOwner
  BY <1>1, <1>3, <1>4, <1>5
     DEF CallStep, UpdateProject, LookUpInvited, LookAtMember, Respond, Crash
<1>6. QED  BY <1>2, <1>5 DEF Next

\* Whoever changes the members of a project, or deletes it, has been its owner,
\* although the check is over when he does (isProjectOwner, project.routes.js).
THEOREM ActorsOwned == Spec => ActorsWereOwners
BY Invariant, OwnersStep, PTL DEF Spec, ActorsWereOwners

=============================================================================
