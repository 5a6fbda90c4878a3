SPECIFICATION MCSpec
CONSTANTS
  LastDisk = 3
  LastWhole = 5
  LastUnit = 4
  Attributes <- Kinds
  Layouts <- Hosts
  Mounts <- TwoMounts
  Pins <- AllPins
  MinBytes = 0
  MaxDepth = 16
INVARIANTS
  TypeOK
  SelectionIsExact
  PinOrNothing
  WrittenHasSelectedNumber
  WrittenSparesOwn
CHECK_DEADLOCK FALSE
