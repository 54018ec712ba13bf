\* One entry at most, and one loader found at most.
SPECIFICATION Spec
CONSTANTS
  None = None
  Titles = {"A"}
  Paths <- OneSpelling
  Timeouts = {0}
  Positions = {1}
  MaxEntries = 1
  Volumes = {"own", "other"}
  Own = "own"
  MaxFound = 1
INVARIANTS
  FoundOffered
CHECK_DEADLOCK FALSE
