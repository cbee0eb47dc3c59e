\* Two files for one worker, one in history too, through statements and downloads that fail and a restart.
SPECIFICATION FairSpec
CONSTANTS
  Msg = {m1, m2}
  Once = {}
  Worker = {w1}
  Errors = TRUE
  MaxEdits = 0
  Revocable = {}
  Backfilled = {m1}
  MaxCrashes = 1
  None = None
PROPERTIES PendingIsSettled
