SPECIFICATION EventsSpec
CONSTANTS
  k1 = k1
  alice = alice
  bob = bob
  s1 = s1
  Servers = {s1, s2}
  Users = {alice, bob}
  Projects = {p1}
  Sockets = {k1, k2}
  SocketUser <- MCSocketUser
  Reach <- MCReach
  Members <- MCMembers
  Polite = {alice}
  Outages = {"publisher", "subscriber"}
  Crashes = TRUE
  MaxEvents = 4
  MaxChecks = 1
  NoProject = NoProject
  NoServer = NoServer
CHECK_DEADLOCK FALSE
INVARIANTS EventsTypeOK FollowsRedis LastIsNewest ViewMatchesServer NobodyGoneIsSeen
