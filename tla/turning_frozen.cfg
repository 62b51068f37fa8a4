SPECIFICATION Spec
CONSTANTS
  Line = {l1}
  Turner = {t1, t2}
  SeedRows <- Installed
  MaxDay = 3
  Late = 1
  TurnInterval = 2
  MaxConns = 10
  None = None
SYMMETRY Turners
CHECK_DEADLOCK FALSE
PROPERTIES OutOfServiceFrozen
