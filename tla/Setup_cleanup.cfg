SPECIFICATION Spec
CONSTANTS
  Sessions = {s1, s2}
  Policies <- WithoutGit
  MaxOps = 2
  MaxFails = 0
INVARIANT CleanupFollowsPolicy
CHECK_DEADLOCK FALSE
