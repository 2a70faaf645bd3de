SPECIFICATION FairSpec
CONSTANTS
  Clients = {c1, c2}
  Processors = {w1, w2}
  Chains <- MCChains
  PoolSize = 2
  Patience = "2s"
INVARIANTS TypeOK PoolIsSound
PROPERTIES GracefulExit RequestsAreAnswered ShutdownFinishes
