SPECIFICATION Spec
CONSTANTS
  OldMarkers = {"old1"}
  Failures = {"readOnly"}
INVARIANTS
  NotWrittenSkipsFallback
CHECK_DEADLOCK FALSE
