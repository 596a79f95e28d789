SPECIFICATION MCPipelineSpec
CONSTANTS
  render = render
  none = none
  empty = empty
  master = master
  dev = dev
  absent = absent
  NoRequest = none
  NoName = empty
  Requests <- ThreeRequests
  Names <- JustRender
  NameOf <- OneName
  Env = {"overlap"}
  Branches <- TwoBranches
  Commits <- TwoCommits
  Ancestors <- Apart
  Absent <- NoCommit
  Master <- MasterBranch
  DefaultBranch <- MasterBranch
  MaxHooks = 0
  GitEnv = {}
  MaxCrashes = 1
CHECK_DEADLOCK FALSE
PROPERTIES
  InitialRenderScheduled
