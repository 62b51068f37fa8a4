SPECIFICATION FairSpec
CONSTANTS
  Line = {l1}
  ExtId = {e1}
  Logger = {g1}
  Sender = {i1, i2}
  SeedStatus <- NewStatus
  MaxConns = 10
  None = None
INVARIANTS ExternalOnce DeliveryRecorded StatusFollowsEvents ReportMatchesLine
PROPERTIES RepeatChangesNothing EveryRequestEnds
