SPECIFICATION FairSpec
CONSTANTS
  NoLimit = NoLimit
  Workers = {w1, w2, w3}
  SpawnMayFail = TRUE
  Queries <- MCQueries
INVARIANTS IInv BoundedReadAhead OneRunnerPerPage QuietAfterReturn AnswersTheQuery
PROPERTY Terminates
CHECK_DEADLOCK FALSE
