\* A message that replies to a view-once, edited and deleted, live and in history.
SPECIFICATION Spec
CONSTANTS
  Msg = {m1, m2}
  Once = {m2}
  Worker = {w1}
  Errors = FALSE
  MaxEdits = 1
  Revocable = {m1}
  Backfilled = {m1, m2}
  MaxCrashes = 0
  None = None
PROPERTIES RowsKeepWhatTheyHold
