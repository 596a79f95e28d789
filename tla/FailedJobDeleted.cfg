SPECIFICATION Spec
CONSTANTS
  a = a
  b = b
  c = c
  render = render
  none = none
  empty = empty
  NoRequest = none
  NoName = empty
  Requests <- TwoRequests
  Names <- JustRender
  NameOf <- OneName
  Env = {"overlap", "podfail"}
SYMMETRY Symmetry2
CHECK_DEADLOCK FALSE
PROPERTIES
  FailedJobNotDeleted
