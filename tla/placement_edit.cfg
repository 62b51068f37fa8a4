SPECIFICATION Spec
CONSTANTS
  v1 = v1  v2 = v2
  w1 = w1  w2 = w2  w3 = w3
  s1 = s1  s2 = s2  s3 = s3
  save1 = save1
  Vessel = {v1, v2}
  Line = {l1}
  Winch = {w1, w3}
  Storage = {s3}
  Home <- MCHome
  Maker <- MCMaker
  SeedDrums <- OneDrum
  SeedRows <- OnDrumOrNew
  MaxDrums = 2
  Mover = {m1}
  Registrar = {g1}
  Saver = {save1, save2}
  MaxConns = 2
  Chosen = {"ordered"}
  Boot = Boot
  None = None
INVARIANTS TypeOK DrumsMatchCount PlacedLifecycle
PROPERTIES SaveApplied
