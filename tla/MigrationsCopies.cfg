\* One process at a time, from the fifth build to the last.
SPECIFICATION Spec
CONSTANTS
  Process = {1}
  Builds = {5, 6, 7, 8, 9, 10, 11, 12}
  Kept = 5
  Together = FALSE
  MaxDeaths = 0
  MaxNow = 1
INVARIANTS CopiedFirst
CHECK_DEADLOCK FALSE
