\* A message and the view-once it quotes, two workers, statements that fail and a restart.
SPECIFICATION Spec
CONSTANTS
  Msg = {m1, m2}
  Once = {m2}
  Worker = {w1, w2}
  Errors = TRUE
  MaxEdits = 0
  Revocable = {}
  Backfilled = {m1, m2}
  MaxCrashes = 1
  None = None
SYMMETRY Alike
INVARIANTS OneWorkerPerFile NothingIsForgotten HeldFilesExist
