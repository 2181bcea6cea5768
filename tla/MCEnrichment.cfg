SPECIFICATION FairSpec
CONSTANTS
  Asteroid = {1, 2, 3, 4, 5}
  Poison = {2, 4}
  Known = {3, 4, 5}
  Rank <- MCRank
  FlushSize = 2
  MaxFaults = 1
  MaxChanges = 1
  Concurrency = 2
  ChunkSize = 2
  Abort = 3
INVARIANTS AnswersKept ApiSpared
PROPERTIES StampsEarned HealthyChecked RemovedIsCleared
