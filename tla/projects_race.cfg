SPECIFICATION Spec
CONSTANTS
  Users = {u1, u2}
  Projects = {p1, p2}
  MaxMembers = 3
  Calls = {c1, c2}
  DbFaults = {"refused", "lostReply"}
  NoUser = NoUser
  NoProject = NoProject
SYMMETRY MCSymmetry
INVARIANTS TypeOK MembersAreSound
PROPERTY ActorsWereOwners
