SPECIFICATION Spec
CONSTANTS
  s1 = s1
  Client = {c1, c2}
  Flow = {f1, f2}
  Line = {l1, l2}
  Drum = {d1}
  Storage = {s1}
  SeedPlaces <- Locker
  SeedRows <- StoredOrNew
  Chosen = {"active"}
  None = None
CHECK_DEADLOCK FALSE
INVARIANTS NeverHalfPlaced SavedAsSpare
SYMMETRY Symmetric
