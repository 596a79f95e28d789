SPECIFICATION FairStartupSpec
CONSTANTS
  p1 = p1
  p2 = p2
  noPost = noPost
  initial = initial
  Posts <- TwoPosts
  NoPost <- NoEventPost
  Initial <- InitialJob
  FlagSets <- AllFlags
  Env = {"signal", "portbusy", "settings", "clonefails", "gitfails", "shutdown"}
CHECK_DEADLOCK FALSE
INVARIANTS
  StartupTypeOK
  StartupIInv
  CloneIsExclusive
  ExitIsGraceful
PROPERTIES
  SignalEndsProcess
  EventsAreHandled
  ListenerStops
  ImplementsHookQueue
