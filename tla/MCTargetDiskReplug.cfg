SPECIFICATION MCSpec
CONSTANTS
  LastDisk = 3
  LastWhole = 5
  LastUnit = 4
  Attributes <- Kinds
  Layouts <- Hosts
  Mounts <- NoAlias
  Pins <- AllPins
  MinBytes = 0
  MaxDepth = 16
INVARIANTS
  WrittenIsSelected
CHECK_DEADLOCK FALSE
