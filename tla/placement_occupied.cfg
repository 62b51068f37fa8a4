SPECIFICATION Spec
CONSTANTS
  v1 = v1  v2 = v2
  w1 = w1  w2 = w2  w3 = w3
  s1 = s1  s2 = s2  s3 = s3
  save1 = save1
  Vessel = {v1}
  Line = {l1}
  Winch = {w1, w2}
  Storage = {s1}
  Home <- MCHome
  Maker <- MCMaker
  SeedDrums <- OneDrum
  SeedRows <- Crowded
  MaxDrums = 1
  Mover = {m1}
  Registrar = {}
  Saver = {save1}
  MaxConns = 10
  Chosen = {"ordered"}
  Boot = Boot
  None = None
PROPERTIES OccupiedStays
