SPECIFICATION FairSpec
CONSTANTS
  NoLimit = NoLimit
  Workers = {w1, w2}
  SpawnMayFail = TRUE
  Queries <- DeepQueries
PROPERTY EvenThenTerminates
CHECK_DEADLOCK FALSE
