SPECIFICATION FairSpec
CONSTANTS
  Outgoing = {o1}
  Incoming = {i1, i2, i3}
  o1 = o1
  i1 = i1
  i2 = i2
  i3 = i3
  Timer = 2
CONSTRAINT OneSideMoves
CHECK_DEADLOCK FALSE
INVARIANTS TypeOK ToldOnce RingingIsFound
PROPERTY ClientsSettle
