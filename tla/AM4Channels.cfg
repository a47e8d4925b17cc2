SPECIFICATION Spec
CONSTANTS
  Blocks = {amp, drive}
  Channels = {A, B}
  None = None
  Calls = {c1}
  Outcomes = {"ok", "mute", "lost"}
  MaxWrites = 4
INVARIANTS
  TypeOK
  CacheTruth
  SuccessIsTrue
CHECK_DEADLOCK TRUE
