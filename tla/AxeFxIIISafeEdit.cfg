SPECIFICATION Spec
CONSTANTS
  Locations = {P1, P2}
  Calls = {c1, c2}
  None = None
  StoreOutcomes = {"stored", "refused", "ignored"}
  MaxInflight = 1
INVARIANTS
  TypeOK
  FlagTellsTruth
  HeardEditsSurvive
CHECK_DEADLOCK TRUE
