\* One item through every stage, executed by the queue alone.
SPECIFICATION FairSpec
CONSTANTS
  Item = {i1}
  Shape = {"text", "media", "removed", "tombstone", "igtv", "linked", "lost"}
  Runner = {queue}
  Jobs <- AllJobs
  Again = {"failed", "refused"}
  Captioning = TRUE
  Embedding = TRUE
  MaxAttempts = 2
  MaxSends = 2
  CallSize = 1
  Errors = TRUE
  MaxCrashes = 1
  MaxShown = 3
  None = None
INVARIANTS TypeOK FilesAreKept RetriableHasAttempts IndexedIsCaptioned
PROPERTIES DeliverySpec CaptionIsSettled DownloadIsSettled
