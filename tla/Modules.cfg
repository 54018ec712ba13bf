\* Up to three entries, all memory free or one low page taken.
SPECIFICATION Spec
CONSTANTS
  CAP = 5
  PageSize = 2
  LowPages = 4
  Pages = 5
  Entries <- SomeEntries
  MaxEntries = 3
  FreeSets <- SomeTaken
  Kernel = kernel
  Before <- SomeBefore
INVARIANTS
  NamesFaithful
  ModulesIntact
  LoadedInOrder
PROPERTIES
  ImplementsModuleLoading
CHECK_DEADLOCK FALSE
