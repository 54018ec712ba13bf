\* A directory of one entry, which may be too long for entry_buf.
SPECIFICATION FairSpec
CONSTANTS
  CAP = 5
  PageSize = 2
  LowPages = 4
  Pages = 5
  Entries <- SomeEntries
  MaxEntries = 1
  FreeSets <- SomeTaken
  Kernel = kernel
  Before <- SomeBefore
PROPERTIES
  ScanEnds
CHECK_DEADLOCK FALSE
