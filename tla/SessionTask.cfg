SPECIFICATION TaskSpec
CONSTANTS
  Clients = {c1}
  Runners = {r1, r2}
  Specs <- PlainSpec
  Operations = {"ensure", "down"}
  Locals = {"x"}
  LastPort = 1
  SaveMayFail = FALSE
  PeerMayAge = FALSE
  MaxCrashes = 0
  Budget = 10
  InitialDelay = 1
  DelayCap = 4
  ProbeTimeout = 8
PROPERTIES TasksEnd ProbeKeepsItsBudget
CHECK_DEADLOCK FALSE
