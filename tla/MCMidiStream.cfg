SPECIFICATION Spec
CONSTANTS
  Calls = {c1, c2}
  Notes = {c4, e4}
  Bytes = {1, 2}
  Controllers = {"cc32", "cc38", "cc99"}
  MaxHandles = 2
  Chords <- MCChords
  Lists <- MCLists
  MaxList = 2
INVARIANTS
  RequestsArriveWhole
PROPERTIES
  NotesComeUp
CHECK_DEADLOCK TRUE
