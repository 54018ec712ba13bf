\* Up to three program headers, all memory free or one page taken.
SPECIFICATION FairSpec
CONSTANTS
  PageSize = 2
  Pages = 8
  MaxRecords = 3
  FileLen = 6
  MaxPhdrs = 3
  Phdrs <- SomePhdrs
  FreeSets <- SomeTaken
  Entry = 1
  Class = 32
  Version = 2
INVARIANTS
  TypeOK
  WritesOwnedUnlessWrapped
  SegmentsPlaced
  FailsOnlyForCause
PROPERTIES
  LoadingEnds
  ImplementsPlaceSegments
CHECK_DEADLOCK FALSE
