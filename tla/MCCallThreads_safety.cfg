CONSTANTS
  Codes <- AllCodes
  MaxPending = 2
  Retransmits = TRUE
  Unreliable <- Legs
SPECIFICATION ThreadsSpec
INVARIANTS
  ThreadsTypeOK
  NoPhantomAnswer
  OneOutcome
  ByeOnlyAfterAnswer
  StayingCallerIsSafe
PROPERTIES
  UninterruptedHandlersAreAtomic
CHECK_DEADLOCK FALSE
