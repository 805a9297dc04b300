SPECIFICATION FairSpec
CONSTANT FailingStart = {"sending"}
INVARIANTS
  ReleaseStops
  ActiveIsServed
PROPERTIES
  ResetExclusive
  CallsReturn
