CONSTANTS
  InfoSize = 163
  Beyond = 25
  MaxModules = 2
  NameMax = 3
  InfoAt = 4194304
  Word32 = 16777216
  Descs <- SmallDescs
  MaxDescs = 3
  Mods <- SmallMods
  MaxMods = 3
SPECIFICATION Spec
INVARIANTS PartsApart ModulesTold MemorySummed
CHECK_DEADLOCK FALSE
