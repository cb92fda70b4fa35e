SPECIFICATION Spec
CONSTANTS
  MaxInits = 2
  Reports <- MCReports
INVARIANTS
  TypeOK
  CompleteMeansReady
  GuestCodeGuarded
  SuccessMeansVerified
  AudioIsReal
PROPERTIES
  GateHolds
CHECK_DEADLOCK FALSE
