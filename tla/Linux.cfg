CONSTANTS
  PageSize = 4
  NumPages = 8
  Line32 = 24
  MinImage = 3
  Sector = 1
  Boots <- SmallBoots
  FreeSets = {{0, 1, 2, 3, 4, 5, 6, 7}, {1, 2, 3, 5, 6, 7}, {2, 3, 4, 5}, {0, 1, 2}}
SPECIFICATION Spec
INVARIANTS WritesOwned KernelIntact ParamsTrue
PROPERTY InitrdNeverStops
CHECK_DEADLOCK FALSE
