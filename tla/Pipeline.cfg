SPECIFICATION MCPipelineSpec
CONSTANTS
  render = render
  none = none
  empty = empty
  master = master
  dev = dev
  absent = absent
  NoRequest = none
  NoName = empty
  Requests <- ThreeRequests
  Names <- JustRender
  NameOf <- OneName
  Env = {"overlap", "podfail"}
  Branches <- TwoBranches
  Commits <- TwoCommits
  Ancestors <- Apart
  Absent <- NoCommit
  Master <- MasterBranch
  DefaultBranch <- MasterBranch
  MaxHooks = 1
  GitEnv = {}
  MaxCrashes = 1
CHECK_DEADLOCK FALSE
INVARIANTS
  PipelineTypeOK
  MutualExclusion
  OutputIsCurrent
  PipelineIInv
  CloneOK
PROPERTIES
  HaltAcrossRestarts
  DeletesOnlyOver
  RendersAreMade
  CallsReturn
