CONSTANTS
  Sessions <- TwoTabs
  Extensions <- OneExtension
  ExtensionOf <- SameExtension
  MayClose <- TwoTabs
  Racing = TRUE
  MaxCallId = 4
  MaxSkip = 2
  LastChoice = 3
SPECIFICATION Spec
INVARIANTS
  TypeOK
  OnlineMeansBound
  NothingIsDue
  NeverStuck
CHECK_DEADLOCK FALSE
