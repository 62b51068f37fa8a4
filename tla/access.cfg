SPECIFICATION Spec
CONSTANTS
  g1 = g1
  g2 = g2
  c1 = c1
  c2 = c2
  Group = {g1, g2}
  Change = {c1, c2}
  Followed = {"page", "user"}
  Used = {"denied", "edit"}
  None = None
SYMMETRY Symmetric
CHECK_DEADLOCK FALSE
INVARIANTS DecidedAsAtOnce SettledShows
