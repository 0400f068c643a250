CONSTANTS
  Codes <- RelayedCodes
  MaxPending = 2
  Retransmits = TRUE
  Unreliable <- NoLegs
SPECIFICATION FairSpec
PROPERTIES
  HangupEndsBothParties
  CancelFinishesClientLeg
CHECK_DEADLOCK FALSE
