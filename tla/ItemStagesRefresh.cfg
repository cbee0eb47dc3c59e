\* The process dies between the two statements that settle a failed download.
SPECIFICATION Spec
CONSTANTS
  Item = {i1}
  Shape = {"media"}
  Runner = {queue}
  Jobs <- AllJobs
  Again = {"failed"}
  Captioning = FALSE
  Embedding = FALSE
  MaxAttempts = 2
  MaxSends = 1
  CallSize = 1
  Errors = FALSE
  MaxCrashes = 1
  MaxShown = 3
  None = None
PROPERTIES LandedIsArchived
