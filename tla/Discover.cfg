CONSTANTS
  Absent = Absent
  NumVolumes = 2
  BufSize = 1
  Disks <- DiskSet
  OwnImages <- ItsOwn
SPECIFICATION ScanSpec
INVARIANTS ScanComplete NotItself
PROPERTY ScanEnds
CHECK_DEADLOCK FALSE
