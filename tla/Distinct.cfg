SPECIFICATION Spec
CONSTANTS
  a = a
  b = b
  c = c
  render = render
  none = none
  empty = empty
  NoRequest = none
  NoName = empty
  Requests <- ThreeRequests
  Names <- ThreeRequests
  NameOf <- OwnName
  Env <- Hostile
SYMMETRY Symmetry3
CHECK_DEADLOCK FALSE
INVARIANTS
  IInv
  MutualExclusion
PROPERTIES
  DeletesOnlySucceeded
  HaltAfterFailure
  ImplementsSerialRunner
