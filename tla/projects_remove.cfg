SPECIFICATION Spec
CONSTANTS
  Users = {u1, u2}
  Projects = {p1}
  MaxMembers = 2
  Calls = {c1, c2}
  DbFaults = {}
  NoUser = NoUser
  NoProject = NoProject
SYMMETRY MCSymmetry
PROPERTY OwnerIsNotRemoved
