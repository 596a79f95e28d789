SPECIFICATION RepoSpec
CONSTANTS
  master = master
  dev = dev
  absent = absent
  Branches <- TwoBranches
  Commits <- FourCommits
  Ancestors <- History
  Absent <- NoCommit
  Master <- MasterBranch
  DefaultBranch <- MasterBranch
  MaxHooks = 3
  GitEnv = {"force", "delete", "network", "local"}
CHECK_DEADLOCK FALSE
INVARIANTS
  RepoTypeOK
  SubmitsWhatWasPushed
  SubmitsTheBranch
  SteadyBranchIsBuilt
  RepoIInv
