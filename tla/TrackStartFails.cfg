SPECIFICATION Spec
CONSTANT FailingStart = {"sending", "receiving"}
INVARIANT ReleaseStops
