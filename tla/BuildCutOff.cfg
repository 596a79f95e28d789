SPECIFICATION StartupSpec
CONSTANTS
  p1 = p1
  p2 = p2
  noPost = noPost
  initial = initial
  Posts <- TwoPosts
  NoPost <- NoEventPost
  Initial <- InitialJob
  FlagSets <- BuildOnly
  Env = {}
CHECK_DEADLOCK FALSE
INVARIANTS
  InitialBuildIsDone
