CONSTANTS
  Codes <- RelayedCodes
  MaxPending = 2
  Retransmits = TRUE
  Unreliable <- NoLegs
SPECIFICATION FairSpec
PROPERTIES
  RoutedCallSettles
CHECK_DEADLOCK FALSE
