SPECIFICATION FairSpec
CONSTANTS
  Calls = {c1, c2}
  c1 = c1
  c2 = c2
  NoCall = NoCall
  Media = {TRUE, FALSE}
CHECK_DEADLOCK FALSE
INVARIANTS TypeOK Reachable OpenHasMedia OneIncoming OnCallMeansCall
PROPERTIES ClosingCompletes PointerIsReleased
