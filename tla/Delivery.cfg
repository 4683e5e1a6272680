SPECIFICATION DeliverySpec
CONSTANTS
  StreamIds = {s1, s2}
  Setups <- MCSetups
  UpdateRequests = {r1}
  Hosts = {"systemd", "user", "launchd", "windows"}
  MaxFails = 1
  MaxRestarts = 1
INVARIANTS Delivered NothingKept UpdateIsWhole
PROPERTIES StreamsAreServed UpdateEnds
CHECK_DEADLOCK FALSE
