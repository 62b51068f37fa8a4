SPECIFICATION FairSpec
CONSTANTS
  Pages = {"deck", "logbook"}
  Kinds = {"save", "inspection"}
  Watched = {"layout", "logbook"}
  MaxWrites = 2
  NoData = NoData
CHECK_DEADLOCK FALSE
INVARIANTS OwnWritesShown
PROPERTIES EventuallyShown
