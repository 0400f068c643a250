CONSTANTS
  Codes <- RelayedCodes
  MaxPending = 2
  Retransmits = FALSE
  Unreliable <- NoLegs
SPECIFICATION FairSpec
PROPERTIES
  CancelledInviteIsAnswered
CHECK_DEADLOCK FALSE
