SPECIFICATION RepoSpec
CONSTANTS
  master = master
  dev = dev
  absent = absent
  Branches <- TwoBranches
  Commits <- FourCommits
  Ancestors <- History
  Absent <- NoCommit
  Master <- MasterBranch
  DefaultBranch <- DevBranch
  MaxHooks = 3
  GitEnv = {}
CHECK_DEADLOCK FALSE
INVARIANTS
  SwitchesBranch
