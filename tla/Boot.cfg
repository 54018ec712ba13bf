CONSTANTS
  Word = 16
  MB1_HEADER_MAGIC = 3
  MB2_HEADER_MAGIC = 5
  Mb1Limit = 92
  Mb2Limit = 96
  Files <- BootFiles
  Pages = {1, 2, 3, 4, 5, 6, 7}
  FreeSets = {{1, 2, 3, 4, 5, 6, 7}, {2, 3, 4, 5, 7}, {1, 2, 3, 6, 7}, {2, 4, 6, 7}}
  Line32 = 6
  TrampPage = 1
  InfoPages = 2
  ModuleSizes = {1, 2}
  MaxModules = 2
SPECIFICATION Spec
INVARIANTS DetectedRight EnteredAsBuilt ToldInItsFormat PlacedIntact MapIsFinal
PROPERTY BootEnds
CHECK_DEADLOCK FALSE
