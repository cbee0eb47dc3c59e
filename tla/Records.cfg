SPECIFICATION RecordsSpec
CONSTANTS
  Tweet = {1, 2, 3, 4}
  Author = {a, b}
  a = a
  b = b
  s1 = s1
  s2 = s2
  Worlds <- MCWorlds
  MaxRounds = 5
  Faults = TRUE
  None = None
  Likes <- MCLikes
  Export <- MCExport
  Batch = 1
  KnownHits = 1
  ProbeLimit = 1
  MaxCrashes = 2
  MaxReturns = 1
INVARIANTS TypesOK SearchedIsKept ProfilesAreCurrent SchemaIsSafe
PROPERTIES WalksAreWhole RowsOnlyGain RefreshSettles
CHECK_DEADLOCK FALSE
