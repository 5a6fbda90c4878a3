SPECIFICATION FairSpec
CONSTANTS
  LastNic = 3
  Servers = {"plain", "routed"}
  Routers = {"routed"}
  Serves <- ThreeNetworks
  MaxRounds = 2
  Macs = {"mac1", "mac2"}
  Mac <- TwoMacs
  Odd = {1, 2}
  MaxBlocks = 1
  StablePolls = 2
  SettleTimeout = 4
INVARIANTS
  TypeOK
  OneAddressedLink
  WinnerHasTheRoute
  LeaseIsCommitted
  SettledIsSelectable
  PinIsHonoured
PROPERTIES
  BringUpEnds
CHECK_DEADLOCK FALSE
