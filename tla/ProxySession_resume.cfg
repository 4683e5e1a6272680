SPECIFICATION RepeatSpec
CONSTANTS
  Clients = {c1}
  Runners = {r1}
  Specs <- FixedSpec
  Operations = {"ensure"}
  Locals = {"x"}
  LastPort = 1
  SaveMayFail = FALSE
  PeerMayAge = FALSE
  MaxCrashes = 1
PROPERTY Resumes
