SPECIFICATION FairSpec
CONSTANTS
  v1 = v1  v2 = v2
  w1 = w1  w2 = w2  w3 = w3
  s1 = s1  s2 = s2  s3 = s3
  save1 = save1
  Vessel = {v1, v2}
  Line = {l1, l2}
  Winch = {w1}
  Storage = {s2}
  Home <- MCHome
  Maker <- MCMaker
  SeedDrums <- TwoDrums
  SeedRows <- Aboard
  MaxDrums = 2
  Mover = {m1, m2}
  Registrar = {}
  Saver = {save1}
  MaxConns = 10
  Chosen = {"ordered"}
  Boot = Boot
  None = None
INVARIANTS OneLinePerDrum OwnVessel OutboxTracksPlacement PlacesExist IInv
PROPERTIES AtomicSpec UnmovedStays EveryRequestEnds
