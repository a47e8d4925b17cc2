SPECIFICATION FairSpec
CONSTANTS
  Locations = {P1, P2}
  Calls = {c1}
  None = None
  Modes = {"warn", "discard", "save_active_first"}
  StoreOutcomes = {"ok", "mute", "lost"}
  PanelMoves = {"edit", "switch", "save"}
  PanelMidCall = FALSE
  MaxEdits = 3
INVARIANTS
  TypeOK
  FlagTellsTruth
  HeardEditsSurvive
  GateInv
PROPERTIES
  NoSilentOverwrite
  ImplementsContract
  EveryCallEnds
CHECK_DEADLOCK TRUE
