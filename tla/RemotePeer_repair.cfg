SPECIFICATION FairSpec
CONSTANTS
  Ops = {o1, o2}
  Ports = {1, 2}
  DefaultPort = 1
  Scenarios <- PeerScenarios
  MaxRequests = 2
  MaxCrashes = 1
INVARIANT RecordsAgree
 
CHECK_DEADLOCK FALSE
