SPECIFICATION TabSpec
CONSTANTS
  Photo = {p1, p2}
  Doc = {d1, d2}
  Remover = {r1, r2, r3}
  Local = {x1, x2}
  Used = {"photo", "document"}
  None = None
SYMMETRY Names
CHECK_DEADLOCK FALSE
INVARIANTS RowsHaveObject FailedIsKept ToldIsShown
