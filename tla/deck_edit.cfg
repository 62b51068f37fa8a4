SPECIFICATION Spec
CONSTANTS
  e1 = e1  e2 = e2
  v1 = v1  v2 = v2
  Editor = {e1, e2}
  Switcher = {e1}
  Vessel = {v1, v2}
  Station = {"fwd", "aft"}
  SeedDeck <- MCDeck
  SeedStores <- MCStores
  MaxDrums = 2
  MaxEdits <- MCEdits
  Filled <- MCFilled
  First = v1
  MaxSaves = 2
  MaxFetches = 1
  None = None
CHECK_DEADLOCK FALSE
INVARIANTS AutoNamesFollowPlace AddedOnce
PROPERTIES DrumsKept ShownStays
