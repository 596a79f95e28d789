SPECIFICATION FairSpec
CONSTANTS
  a = a
  b = b
  c = c
  render = render
  none = none
  empty = empty
  NoRequest = none
  NoName = empty
  Requests <- ThreeRequests
  Names <- JustRender
  NameOf <- OneName
  Env = {"podfail"}
CHECK_DEADLOCK FALSE
INVARIANTS
  InProgressTruthful
  TurnIInv
PROPERTIES
  EveryJobRuns
  DeletesOnlySucceeded
  HaltAfterFailure
  ImplementsSerialRunnerInTurn
