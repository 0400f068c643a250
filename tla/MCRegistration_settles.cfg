CONSTANTS
  Sessions <- ThreePages
  Extensions <- TwoExtensions
  ExtensionOf <- OwnExtension
  MayClose <- Nobody
  Racing = FALSE
  MaxCallId = 8
  MaxSkip = 1
  LastChoice = 3
SPECIFICATION FairSpec
PROPERTIES
  ConnectsInTheEnd
  ClosesInTheEnd
CHECK_DEADLOCK FALSE
