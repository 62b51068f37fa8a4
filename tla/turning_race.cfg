SPECIFICATION Spec
CONSTANTS
  Line = {l1}
  Turner = {t1, t2, t3}
  SeedRows <- AnyNew
  MaxDay = 4
  Late = 1
  TurnInterval = 2
  MaxConns = 10
  None = None
SYMMETRY Turners
CHECK_DEADLOCK FALSE
INVARIANTS TypeOK HistoryExplainsLine AgeCovered DueInTime
PROPERTIES FreshTurnAges
