\* Every conversation of four tweets, with one quote, one thing wrong with X, and requests that fail.
SPECIFICATION ExpandSpec
CONSTANTS
  Tweet = {1, 2, 3, 4}
  Author = {a, b}
  a = a
  b = b
  Worlds <- MCWorlds
  MaxRounds = 5
  Faults = TRUE
  None = None
INVARIANTS EndsOnItsOwn CitedIsKept ThreadsAreWhole
CHECK_DEADLOCK FALSE
