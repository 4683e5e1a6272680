SPECIFICATION Spec
CONSTANTS
  Clients = {c1, c2}
  Runners = {r1}
  Specs <- PlainSpec
  Operations = {"ensure", "down"}
  Locals = {"x"}
  LastPort = 1
  SaveMayFail = FALSE
  PeerMayAge = FALSE
  MaxCrashes = 0
INVARIANT CancelledHasNoRoute
