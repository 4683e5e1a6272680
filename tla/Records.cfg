SPECIFICATION RecordsSpec
CONSTANTS
  Windows = FALSE
  Quarantines = TRUE
  MayDamage = TRUE
  MaxVersion = 4
  MaxCrashes = 3
  JobIds = {1, 2, 3}
  MaxTerminal = 1
  MaxClock = 2
  MaxCommands = 3
  MaxSaves = 3
  Faults = 1
  Uploaders = {u1, u2}
  HelperSize = 2
  MaxUploads = 3
  Sessions = {s1, s2}
  Policies <- SetupPolicies
  MaxSetups = 3
  MaxFails = 1
  Operators = {o1, o2}
  MaxToken = 3
  MaxChanges = 1
  MaxOps = 3
  LocalBuild <- ThisBuild
  Builds <- PeerBuilds
  Intents = {"i1", "i2"}
  Cases <- RouteCases
  MaxHops = 3
  Sections <- SshSections
  MaxString = 2
  MaxFrame = 6
  MaxSent = 2
  MaxHeader = 5
  MaxAttempts = 5
  BaseDelay = 1
  MaxDelay = 5
INVARIANTS NothingIsLost InstallIsTrue RemoteFilesAreSound PeerRecordsAgree
  RouteIsAsDecided KeysAreChecked FramesSurvive OneListener
PROPERTIES ImplementsCell JobsAreKept UploadedIsWhole
CHECK_DEADLOCK FALSE
