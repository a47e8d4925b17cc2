SPECIFICATION ValueSpec
INVARIANTS
  SameEitherWay
  ShowsWhatWasAsked
CHECK_DEADLOCK FALSE
