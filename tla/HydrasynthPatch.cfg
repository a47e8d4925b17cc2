SPECIFICATION Spec
CONSTANTS
  Slots = {E064, H128}
  Scratch = H128
  Bounce = E064
  Targets = {H128}
  Recipes = {r1}
  Init0 = Init0
  Factory = Factory
  NoChunk = NoChunk
  ChunkCount = 2
  Calls = {c1}
  None = None
INVARIANTS
  TypeOK
  FlashIsWhole
  FlashIsLeftAlone
  AppliedIsHeard
CHECK_DEADLOCK TRUE
