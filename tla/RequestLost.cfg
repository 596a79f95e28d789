SPECIFICATION FairSpec
CONSTANTS
  a = a
  b = b
  c = c
  render = render
  none = none
  empty = empty
  NoRequest = none
  NoName = empty
  Requests <- TwoRequests
  Names <- JustRender
  NameOf <- OneName
  Env = {"overlap"}
CHECK_DEADLOCK FALSE
PROPERTIES
  EveryRequestScheduled
