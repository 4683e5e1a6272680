SPECIFICATION FairSpec
CONSTANTS
  Listens = {"l1", "l2"}
  Peers = {"p1", "p2"}
  Identities = {"k1", "k2"}
  Args = {"a"}
  Ids = {"r1", "r2"}
  Clients = {c1}
  Restorer = Restorer
  Tasks = {t1, t2}
  Requests <- ReverseRequests
  SaveMayFail = TRUE
  MaxCrashes = 1
INVARIANT FileIsSound
PROPERTIES PersistSticky ImplementsTable RequestsAnswered
