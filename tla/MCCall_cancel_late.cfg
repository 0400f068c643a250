CONSTANTS
  Codes <- RelayedCodes
  MaxPending = 2
  Retransmits = FALSE
  Unreliable <- NoLegs
SPECIFICATION Spec
PROPERTIES
  CancelOnlyWhileUnanswered
CHECK_DEADLOCK FALSE
