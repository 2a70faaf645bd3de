SPECIFICATION Spec
CONSTANTS
  k1 = k1
  alice = alice
  bob = bob
  p1 = p1
  s1 = s1
  Servers = {s1}
  Users = {alice, bob}
  Projects = {p1}
  Sockets = {k1}
  SocketUser <- MCSocketUser
  Reach <- MCReach
  Members <- MCMembers
  Polite = {}
  Outages = {}
  Crashes = FALSE
  MaxEvents = 4
  MaxChecks = 2
  NoProject = NoProject
  NoServer = NoServer
CHECK_DEADLOCK FALSE
INVARIANT ActiveUsersArePresent
