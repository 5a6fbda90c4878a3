SPECIFICATION Spec
CONSTANTS
  Required = {"beskar7.api", "beskar7.token"}
  Optional = {"BOOTIF"}
  StaticIps = {"ip1", "ip2"}
  Seconds <- Timeouts
  Lines <- SmallLines
  Interval = 5
  DefaultBudget = 12
  MaxU32 = 4
  PollTimes = {0, 7}
INVARIANTS
  ParsesToTheLast
  PollsFitTheTimeout
CHECK_DEADLOCK FALSE
