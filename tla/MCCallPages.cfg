SPECIFICATION PagesFairSpec
CONSTANTS
  Codes = {}
  MaxPending = 0
  Retransmits = FALSE
  Unreliable = {}
  Media = {TRUE, FALSE}
CHECK_DEADLOCK FALSE
INVARIANTS PagesTypeOK OpenedMeansAccepted
PROPERTIES OutcomeReachesCaller HangupReachesPeer CancelStopsRinging
