SPECIFICATION FairSpec
CONSTANTS
  Locations = {A1, A2}
  Calls = {c1}
  None = None
  Tools = {"switch_preset", "set_param", "rename", "save_preset", "apply_preset", "apply_setlist", "restore_defaults"}
  Modes = {"warn", "discard", "save_active_first"}
  Outcomes = {"ok", "mute", "lost"}
  SaveFirstOutcomes = {"ok", "throws"}
  PanelMoves = {"edit", "switch", "save"}
  PanelMidCall = FALSE
  Traced = {"watched"}
  MaxEdits = 2
INVARIANTS
  TypeOK
  WatchedEditsSurvive
  PostSaveSwitchLosesNothing
  BaselineExcludesEdits
  GateInv
PROPERTIES
  NoSilentOverwrite
  ImplementsContract
  EveryCallEnds
CHECK_DEADLOCK TRUE
