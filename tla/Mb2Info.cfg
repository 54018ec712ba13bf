\* A buffer that some inputs fill before they are all told.
SPECIFICATION Spec
CONSTANTS
  InfoSize = 160
  Word32 = 65536
  MaxName = 8
  MaxDescs = 6
  MaxMods = 3
  Descs <- SomeDescs
  Mods <- SomeMods
INVARIANTS
  TypeOK
  Walkable
  ToldInOrder
  AllToldIfRoom
CHECK_DEADLOCK FALSE
