\* Two daemons with a platform each, RUN_ON_START, and the death of either.
SPECIFICATION OverlapSpec
CONSTANTS
  Platform = {reddit, twitter}
  Category = {}
  Target = {}
  Stage = {"upload"}
  Process = {d1, d2}
  Server <- SplitServers
  WebProcess = None
  Request = {}
  ByHand = {"upload"}
  Flags = {FALSE}
  RunOnStart = TRUE
  Errors = FALSE
  MaxJobs = 3
  MaxStops = 1
  None = None
INVARIANTS UsedFilesExist CallsAreCounted NoDuplicateWaiting
\* Both daemons may end up waiting on the bound on rows.
CHECK_DEADLOCK FALSE
