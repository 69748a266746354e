SPECIFICATION Spec
CONSTANTS
  NoLimit = NoLimit
  Schema <- MCSchema
  Queries <- MCQueries
INVARIANTS AnswersTheQuery PrefixAnswered ThrowsOnlyForZeroVectors ResultFitsItsSchema
PROPERTY SequentialSpec
CHECK_DEADLOCK FALSE
