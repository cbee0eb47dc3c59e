\* Conversations around one and two caps, pages and caps of two and four, two
\* query ids, and every answer to every request.
SPECIFICATION FetchersSpec
CONSTANTS
  Pair = {1, 2}
  Sizes = {0, 1, 3, 4, 5, 8, 9}
  PageSize = 2
  Cap = 4
  MaxSlices = 2
  QueryIds = 2
  Attempts = 2
  Answers = {"errors", "404", "429", "5xx", "4xx", "drop", "bug"}
  Ops = {"conversations", "thread", "batch"}
INVARIANTS TypesOK WalkedIsWhole BridgeIsSupervised
PROPERTIES RunsAreWhole EverythingEnds
CHECK_DEADLOCK FALSE
