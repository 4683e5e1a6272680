SPECIFICATION EndpointsSpec
CONSTANTS
  MaxDaemons = 2
  Clients = {c1, c2}
  Scenarios <- ControlScenarios
  MaxToken = 3
  MaxInstances = 2
  Hosts = {"h1", "h2"}
  Starts = {1, 2}
  Stops = {1, 2}
  Windows <- ExtWindows
  Threshold = 2
  MaxOps = 2
INVARIANTS DialFindsItsServer StopTakesDown
PROPERTIES  OneDaemonOneToken ShutdownStops OnlyTheUserHoldsIt
CHECK_DEADLOCK FALSE
