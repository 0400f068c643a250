CONSTANTS
  Codes <- RelayedCodes
  MaxPending = 2
  Retransmits = TRUE
  Unreliable <- NoLegs
SPECIFICATION FairThreadsSpec
PROPERTIES
  RoutedCallSettles
CHECK_DEADLOCK FALSE
