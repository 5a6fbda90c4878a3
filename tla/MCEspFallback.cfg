SPECIFICATION Spec
CONSTANTS
  OldMarkers = {"old1", "old2"}
  Failures = {"full", "readOnly", "io"}
INVARIANTS
  TypeOK
  ResultIsTrue
  RootScriptHasMarker
  PowerLossFindsPair
  NotWrittenRestores
CHECK_DEADLOCK FALSE
