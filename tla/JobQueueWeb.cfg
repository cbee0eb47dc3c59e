\* One process with a tracked source, RUN_ON_START, one web request slot; any statement may raise.
SPECIFICATION Spec
CONSTANTS
  Platform = {reddit}
  Category = {}
  Target = {t1}
  Stage = {}
  Process = {api}
  Server <- OneServer
  WebProcess = api
  Request = {r1}
  ByHand = {"source"}
  Flags = {FALSE}
  RunOnStart = TRUE
  Errors = TRUE
  MaxJobs = 2
  MaxStops = 1
  None = None
INVARIANTS OneRunPerPlatform RunningIsOwned HeldIsRunning OneCyclePerDue DuplicatesBounded
PROPERTIES PauseOnlyLostInTick LifecycleSpec
