SPECIFICATION Spec
CONSTANTS
  BuildMax = 3
  MaxRead = 2
  ImageLength = 2
  Capacities = {1, 2, 4}
  Bodies <- SmallBodies
  Numbers = {1, 2, 10}
  NameRank <- ThreeNames
  Tables <- SomeTables
  OtherTable <- AnotherDisk
INVARIANTS
  TypeOK
  StreamIsExact
  EspStepIsRight
  OemStepIsRight
CHECK_DEADLOCK FALSE
