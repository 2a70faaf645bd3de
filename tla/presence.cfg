SPECIFICATION Spec
CONSTANTS
  k1 = k1
  k2 = k2
  alice = alice
  bob = bob
  p1 = p1
  s1 = s1
  Servers = {s1, s2}
  Users = {alice, bob}
  Projects = {p1, p2}
  Sockets = {k1, k2}
  SocketUser <- MCSocketUser
  Reach <- MCReach
  Members <- MCMembers
  Polite = {alice, bob}
  Outages = {"subscriber"}
  Crashes = TRUE
  MaxEvents = 5
  MaxChecks = 1
  NoProject = NoProject
  NoServer = NoServer
CHECK_DEADLOCK FALSE
INVARIANTS TypeOK PresenceIsExact NobodyGoneIsSeen
