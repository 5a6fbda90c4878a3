SPECIFICATION MCSpec
CONSTANTS
  LastDisk = 3
  LastWhole = 5
  LastUnit = 3
  Attributes <- Kinds
  Layouts <- Hosts
  Mounts <- NoAlias
  Pins <- AllPins
  MinBytes = 0
  MaxDepth = 16
INVARIANTS
  ExcludesOwnDisks
CHECK_DEADLOCK FALSE
