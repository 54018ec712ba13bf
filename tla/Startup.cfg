\* Files with up to three entries, two volumes, up to two loaders found.
SPECIFICATION FairSpec
CONSTANTS
  None = None
  Titles = {"A", "B"}
  Paths <- TwoSpellings
  Timeouts = {0}
  Positions = {1}
  MaxEntries = 3
  Volumes = {"own", "other"}
  Own = "own"
  MaxFound = 2
CONSTRAINT
  Files
INVARIANTS
  DefaultMeant
  DefaultKept
  OfferedOnce
  PanicsOnlyEmpty
PROPERTIES
  SomethingStarts
CHECK_DEADLOCK FALSE
