SPECIFICATION DaemonSpec
CONSTANTS
  Listens = {"l1", "l2"}
  Peers = {"p1", "p2"}
  Identities = {"k1", "k2"}
  Args = {"a"}
  Ids = {"r1", "r2"}
  Clients = {c1, c2}
  Restorer = Restorer
  Tasks = {t1, t2}
  Requests <- ForwardRequests
  SaveMayFail = FALSE
  MaxCrashes = 0
  SessionClients = {k1}
  Runners = {j1, j2}
  OneRunnerAtMost = {j3}
  FixedSpecs <- Fixed
  MixedSpecs <- MixedRequests
SYMMETRY Sym
INVARIANTS ListenerExclusive Supervised OneRunner SessionAndRouteAgree
