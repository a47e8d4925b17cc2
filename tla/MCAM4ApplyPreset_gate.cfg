SPECIFICATION ApplySpec
CONSTANTS
  ChannelBlocks = {amp}
  PlainBlocks = {chorus}
  Empty = Empty
  Unset = Unset
  Types = {twin, tweed}
  Exposing = {twin}
  ChannelCount = 2
  SceneCount = 2
  PositionCount = 2
  Specs <- SmallSpecs
  Buffers <- SmallBuffers
  Memories <- SmallMemories
INVARIANTS
  DroppedForItsType
CHECK_DEADLOCK FALSE
