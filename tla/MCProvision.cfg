SPECIFICATION FairSpec
CONSTANTS
  MaxBoots = 2
  MaxAttempts = 2
  MaxPolls = 2
INVARIANTS
  TypeOK
  ProvisionedMeansDeployed
  OneVerdictPerBoot
  RebootIsConfirmed
  StoppedHoldsNothing
  EarlyFailureLeavesNoSecret
  FailureWasReported
PROPERTIES
  KeepsPromise
  BootEnds
  VerdictIsFinal
  DestroyOnlyWhenAuthorised
CHECK_DEADLOCK FALSE
