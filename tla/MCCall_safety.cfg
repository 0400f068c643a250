CONSTANTS
  Codes <- AllCodes
  MaxPending = 2
  Retransmits = TRUE
  Unreliable <- Legs
SPECIFICATION Spec
INVARIANTS
  TypeOK
  NoOrphanCallee
  CallerWaitsOnLiveLeg
  NoPhantomAnswer
  OneFinalResponse
  ByeOnlyAfterAnswer
  RegistryMatchesState
PROPERTIES
  LegsInLockStep
CHECK_DEADLOCK FALSE
