SPECIFICATION Spec
CONSTANTS
  Slots = {A001, E064, H128}
  Scratch = H128
  Bounce = E064
  Targets = {A001, E064}
  Recipes = {r1}
  Init0 = Init0
  Factory = Factory
  NoChunk = NoChunk
  ChunkCount = 2
  Calls = {c1}
  None = None
INVARIANTS
  EverySlotIsHeard
CHECK_DEADLOCK TRUE
