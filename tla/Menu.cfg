\* Up to three entries and two seconds, on consoles with and without room.
SPECIFICATION FairSpec
CONSTANTS
  MaxEntries = 3
  MaxTimeout = 2
  RowCounts = {7, 9}
  ColCounts = {19, 80}
INVARIANTS
  ChoiceInRange
  TimeoutMeansUntouched
  ScreenHonest
PROPERTIES
  UnattendedBoots
  ImplementsChoice
CHECK_DEADLOCK FALSE
