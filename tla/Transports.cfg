SPECIFICATION RouteSpec
CONSTANTS
  Clients = {c1, c2}
  MaxSlots = 2
  MaxConnects = 2
  MaxLoad = 3
  SshClients = {s1, s2, s3}
  PoolSizes = {1, 2}
  MaxOpens = 4
  QuicClients = {q1, q2}
  MaxWorkers = 2
  MaxFlows = 2
  MaxQuiet = 5
  SshNoise = 10000
  QuicNoise = 10000
  MaxHead = 4
  MaxBody = 4
  HeaderLimit = 3
  DataChunk = 6
SYMMETRY Sym
INVARIANTS OnlyTheGapStrands ShutdownFreesClients StatusIsTrue LoadsAreTrue
  ClientIsServed
PROPERTY PrefersHealthy
CHECK_DEADLOCK FALSE
