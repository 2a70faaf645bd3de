---------------------------- MODULE ProjectAccess ----------------------------
(***************************************************************************)
(* Projects and their members: the role check of rbac.middleware.js, the    *)
(* handlers of project.controller.js and project.service.js behind it, and  *)
(* the constraints of config/schema.sql.  The check and the handler use     *)
(* separate statements, and so do the steps of invite and remove: other     *)
(* requests come in between.                                                *)
(***************************************************************************)
EXTENDS DbStatements, Naturals, FiniteSets

CONSTANTS
  Users,
  Projects,     \* project ids
  MaxMembers,   \* bound on the member rows ever inserted
  Calls,        \* requests that may be under way at once
  NoUser, NoProject

VARIABLES
  project,      \* project[p]: "none" (id not used yet), "live" or "deleted"
  row,          \* row[m]: the project_members row with id m
  nextId,       \* the next id of project_members
  call,         \* call[c]: a request
  owners        \* history: owners[p], users who have had the role owner in p

vars == <<project, row, nextId, call, owners>>

ASSUME BoundAssumption == MaxMembers \in Nat

ASSUME NamesAssumption == NoUser \notin Users /\ NoProject \notin Projects

ASSUME FaultsAssumption == DbFaults \subseteq {"refused", "lostReply"}

-----------------------------------------------------------------------------
Roles == {"owner", "collaborator", "viewer"}

MemberIds == 1..MaxMembers

NoRow == [project |-> NoProject, user |-> NoUser, role |-> "none"]

Rows(p) == {m \in MemberIds : row[m].project = p}

\* UNIQUE(project_id, user_id): there is at most one.
RowsOf(p, u) == {m \in Rows(p) : row[m].user = u}

HasRole(p, u, roles) == \E m \in RowsOf(p, u) : row[m].role \in roles

\* canWrite for an update of the project, isProjectOwner for the rest.
Allowed(op) == IF op = "update" THEN {"owner", "collaborator"} ELSE {"owner"}

CallPcs == {"idle", "update", "delete", "invite", "insert", "role", "look",
            "remove", "answered"}

Replies == {"none", "served", "forbidden", "not_found", "bad_request", "error"}

\* user asks; target, member and role say whom and what about.
IdleCall == [pc |-> "idle", user |-> NoUser, project |-> NoProject,
             target |-> NoUser, member |-> 0, role |-> "none", reply |-> "none"]

Become(c, record) == call' = [call EXCEPT ![c] = record]
Goto(c, pc) == call' = [call EXCEPT ![c].pc = pc]

\* Of a request that is answered only the answer is left.
Answer(c, reply) == Become(c, [IdleCall EXCEPT !.pc = "answered", !.reply = reply])

\* Request c of user u about p, as it is after authentication and validation.
Asks(u, p, pc) == [IdleCall EXCEPT !.user = u, !.project = p, !.pc = pc]

Init ==
  /\ project = [p \in Projects |-> "none"]
  /\ row = [m \in MemberIds |-> NoRow]
  /\ nextId = 1
  /\ call = [c \in Calls |-> IdleCall]
  /\ owners = [p \in Projects |-> {}]

\* Bound: no member row is inserted beyond MaxMembers.
RoomForMember == nextId <= MaxMembers

AddRow(p, u, role) ==
  /\ row' = [row EXCEPT ![nextId] = [project |-> p, user |-> u, role |-> role]]
  /\ nextId' = nextId + 1

-----------------------------------------------------------------------------
\* createProject: the project and its creator's membership in one transaction,
\* which nobody sees before it commits.
CreateProject(c, u, p) ==
  /\ call[c].pc = "idle"
  /\ project[p] = "none" /\ RoomForMember
  /\ \E o \in Outcomes :
       /\ IF Applied(o)
          THEN /\ project' = [project EXCEPT ![p] = "live"]
               /\ AddRow(p, u, "owner")
               /\ owners' = [owners EXCEPT ![p] = @ \cup {u}]
          ELSE UNCHANGED <<project, row, nextId, owners>>
       /\ Answer(c, IF Raised(o) THEN "error" ELSE "served")

\* checkProjectRole: the request goes on if the user's row has a role for it.
Check(c, request) ==
  LET u == request.user  p == request.project IN
  /\ call[c].pc = "idle"
  /\ project[p] # "none"
  /\ \/ IF HasRole(p, u, Allowed(request.pc)) THEN Become(c, request) ELSE Answer(c, "forbidden")
     \/ "refused" \in DbFaults /\ Answer(c, "error")
  /\ UNCHANGED <<project, row, nextId, owners>>

AskUpdate(c, u, p) == Check(c, Asks(u, p, "update"))
AskDelete(c, u, p) == Check(c, Asks(u, p, "delete"))

\* The validators admit any role for a change, but not "owner" for an invite.
AskInvite(c, u, p) ==
  \E t \in Users, r \in Roles \ {"owner"} :
    Check(c, [Asks(u, p, "invite") EXCEPT !.target = t, !.role = r])
\* Broken variant of AskRole: the role is not validated, and none is given.
AskRoleUnvalidated(c, u, p) ==
  \E m \in 1..(nextId - 1), r \in Roles \cup {"none"} :
    Check(c, [Asks(u, p, "role") EXCEPT !.member = m, !.role = r])

AskRole(c, u, p) ==
  \E m \in 1..(nextId - 1), r \in Roles :
    Check(c, [Asks(u, p, "role") EXCEPT !.member = m, !.role = r])
AskRemove(c, u, p) ==
  \E m \in 1..(nextId - 1) : Check(c, [Asks(u, p, "look") EXCEPT !.member = m])

-----------------------------------------------------------------------------
\* updateProject: with neither a name nor a description nothing is executed;
\* otherwise it matters here only whether the UPDATE finds the project.
UpdateProject(c) ==
  /\ call[c].pc = "update"
  /\ \/ Answer(c, "bad_request")               \* "No fields to update"
     \/ \E o \in Outcomes :
          Answer(c, IF Raised(o) THEN "error"
                    ELSE IF project[call[c].project] = "live" THEN "served" ELSE "not_found")
  /\ UNCHANGED <<project, row, nextId, owners>>

\* deleteProject; its member rows go with it (ON DELETE CASCADE).
DeleteProject(c) ==
  LET p == call[c].project IN
  /\ call[c].pc = "delete"
  /\ \E o \in Outcomes :
       /\ IF Applied(o)
          THEN /\ project' = [project EXCEPT ![p] = "deleted"]
               /\ row' = [m \in MemberIds |-> IF row[m].project = p THEN NoRow ELSE row[m]]
          ELSE UNCHANGED <<project, row>>
       /\ Answer(c, IF Raised(o) THEN "error"
                    ELSE IF project[p] = "live" THEN "served" ELSE "not_found")
  /\ UNCHANGED <<nextId, owners>>

\* inviteMember, first half: who has the email, and is he a member already?
LookUpInvited(c) ==
  LET p == call[c].project  t == call[c].target IN
  /\ call[c].pc = "invite"
  /\ \/ IF RowsOf(p, t) # {} THEN Answer(c, "bad_request") ELSE Goto(c, "insert")
     \/ Answer(c, "not_found")                 \* the email is nobody's
     \/ "refused" \in DbFaults /\ Answer(c, "error")
  /\ UNCHANGED <<project, row, nextId, owners>>

\* Broken variant of InsertMember: no UNIQUE(project_id, user_id).
InsertAnyMember(c) ==
  LET p == call[c].project  t == call[c].target IN
  /\ call[c].pc = "insert" /\ RoomForMember
  /\ IF project[p] = "live"
     THEN AddRow(p, t, call[c].role) /\ Answer(c, "served")
     ELSE UNCHANGED <<row, nextId>> /\ Answer(c, "error")
  /\ UNCHANGED <<project, owners>>

\* inviteMember, second half.  The foreign key and the unique pair refuse a row
\* for a project or a member that has come or gone in the meantime.
InsertMember(c) ==
  LET p == call[c].project  t == call[c].target IN
  /\ call[c].pc = "insert" /\ RoomForMember
  /\ \E o \in Outcomes :
       LET inserted == Applied(o) /\ project[p] = "live" /\ RowsOf(p, t) = {} IN
       /\ IF inserted THEN AddRow(p, t, call[c].role) ELSE UNCHANGED <<row, nextId>>
       /\ Answer(c, IF inserted /\ ~Raised(o) THEN "served" ELSE "error")
  /\ UNCHANGED <<project, owners>>

\* Broken variant of UpdateMemberRole: WHERE id, without the project.
UpdateAnyMemberRole(c) ==
  LET m == call[c].member IN
  /\ call[c].pc = "role"
  /\ row[m] # NoRow
  /\ row' = [row EXCEPT ![m].role = call[c].role]
  /\ Answer(c, "served")
  /\ owners' = IF call[c].role = "owner"
               THEN [owners EXCEPT ![row[m].project] = @ \cup {row[m].user}]
               ELSE owners
  /\ UNCHANGED <<project, nextId>>

\* updateMemberRole: WHERE id AND project_id.
UpdateMemberRole(c) ==
  LET m == call[c].member
      p == call[c].project
      found == row[m].project = p
  IN
  /\ call[c].pc = "role"
  /\ \E o \in Outcomes :
       /\ IF Applied(o) /\ found
          THEN /\ row' = [row EXCEPT ![m].role = call[c].role]
               /\ owners' = IF call[c].role = "owner"
                            THEN [owners EXCEPT ![p] = @ \cup {row[m].user}]
                            ELSE owners
          ELSE UNCHANGED <<row, owners>>
       /\ Answer(c, IF Raised(o) THEN "error" ELSE IF found THEN "served" ELSE "not_found")
  /\ UNCHANGED <<project, nextId>>

\* removeMember, first half: "Don't allow removing the owner".
LookAtMember(c) ==
  LET m == call[c].member IN
  /\ call[c].pc = "look"
  /\ \/ IF row[m].project # call[c].project THEN Answer(c, "not_found")
        ELSE IF row[m].role = "owner"       THEN Answer(c, "bad_request")
        ELSE Goto(c, "remove")
     \/ "refused" \in DbFaults /\ Answer(c, "error")
  /\ UNCHANGED <<project, row, nextId, owners>>

\* removeMember, second half; the handler does not look at the result.
RemoveMember(c) ==
  LET m == call[c].member IN
  /\ call[c].pc = "remove"
  /\ \E o \in Outcomes :
       /\ row' = IF Applied(o) /\ row[m].project = call[c].project
                 THEN [row EXCEPT ![m] = NoRow]
                 ELSE row
       /\ Answer(c, IF Raised(o) THEN "error" ELSE "served")
  /\ UNCHANGED <<project, nextId, owners>>

Respond(c) ==
  /\ call[c].pc = "answered"
  /\ Become(c, IdleCall)
  /\ UNCHANGED <<project, row, nextId, owners>>

\* The process that serves the request dies.
Crash(c) ==
  /\ call[c].pc # "idle"
  /\ Become(c, IdleCall)
  /\ UNCHANGED <<project, row, nextId, owners>>

Arrival(c, u, p) ==
  CreateProject(c, u, p) \/ AskUpdate(c, u, p) \/ AskDelete(c, u, p)
    \/ AskInvite(c, u, p) \/ AskRole(c, u, p) \/ AskRemove(c, u, p)

CallStep(c) ==
  UpdateProject(c) \/ DeleteProject(c) \/ LookUpInvited(c) \/ InsertMember(c)
    \/ UpdateMemberRole(c) \/ LookAtMember(c) \/ RemoveMember(c) \/ Respond(c) \/ Crash(c)

Next ==
  \E c \in Calls : CallStep(c) \/ \E u \in Users, p \in Projects : Arrival(c, u, p)

Spec == Init /\ [][Next]_vars

-----------------------------------------------------------------------------
(* Properties *)

\* The variables have their types, ids are used in order, and a request names
\* rows that have been inserted (project.controller.js).
TypeOK ==
  /\ project \in [Projects -> {"none", "live", "deleted"}]
  /\ row \in [MemberIds -> {NoRow} \cup [project : Projects, user : Users, role : Roles]]
  /\ nextId \in 1..(MaxMembers + 1)
  /\ \A m \in MemberIds : m >= nextId => row[m] = NoRow
  /\ call \in [Calls -> [pc : CallPcs, user : Users \cup {NoUser},
                         project : Projects \cup {NoProject}, target : Users \cup {NoUser},
                         member : 0..MaxMembers, role : Roles \cup {"none"},
                         reply : Replies]]
  /\ \A c \in Calls : call[c].pc \in {"role", "look", "remove"} =>
                        call[c].member \in 1..(nextId - 1)
  /\ owners \in [Projects -> SUBSET Users]

\* Whatever invitations, deletions and removals race, members are members of a
\* live project, once (schema.sql: FOREIGN KEY, UNIQUE).
MembersAreSound ==
  \A m \in MemberIds : row[m] # NoRow =>
    /\ project[row[m].project] = "live"
    /\ RowsOf(row[m].project, row[m].user) = {m}

\* The project row m belongs to, now or after the step.
ProjectOfRow(m) == IF row[m] # NoRow THEN row[m].project ELSE row'[m].project

StepOfOwner ==
  /\ \A m \in MemberIds : row'[m] # row[m] /\ project[ProjectOfRow(m)] = "live" =>
       \E c \in Calls : call'[c] # call[c] /\ call[c].user \in owners[ProjectOfRow(m)]
  /\ \A p \in Projects : project[p] = "live" /\ project'[p] # "live" =>
       \E c \in Calls : call'[c] # call[c] /\ call[c].user \in owners[p]

\* Whoever changes the members of a project, or deletes it, has at some time
\* been its owner, although the check is over when the change is made; the
\* first member comes with the project (isProjectOwner, project.routes.js).
ActorsWereOwners == [][StepOfOwner]_vars

-----------------------------------------------------------------------------
(* What the repository says and the code does not provide *)

\* "Don't allow removing the owner" (project.service.js:243): a row whose role
\* is owner goes only with its project.
OwnerIsNotRemoved ==
  [][\A m \in MemberIds : row[m].role = "owner" /\ project'[row[m].project] = "live" =>
       row'[m] # NoRow]_vars
=============================================================================
