\* A process that queues a cycle at its start and serves the web; two schedules of another. No statement raises.
SPECIFICATION LiveSpec
CONSTANTS
  Platform = {reddit}
  Category = {}
  Target = {}
  Stage = {"upload"}
  Process = {api}
  Server <- OneServer
  WebProcess = api
  Request = {r1}
  ByHand = {"upload"}
  Flags = {FALSE}
  RunOnStart = TRUE
  Errors = FALSE
  MaxJobs = 2
  MaxStops = 1
  None = None
PROPERTIES QueuedIsTaken RunningIsSettled SchedulesAreServed
\* The bound on rows may hold the scheduler of two schedules at its INSERT for good.
CHECK_DEADLOCK FALSE
