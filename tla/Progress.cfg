SPECIFICATION FairSpec
CONSTANTS
  a = a
  b = b
  c = c
  render = render
  none = none
  empty = empty
  NoRequest = none
  NoName = empty
  Requests <- ThreeRequests
  Names <- TwoRequests
  NameOf <- OwnNameButC
  Env = {"overlap", "podfail", "stop"}
CHECK_DEADLOCK FALSE
INVARIANTS
  TypeOK
PROPERTIES
  EveryJobRuns
  NotifierNotStuck
  StopMonitorReturns
