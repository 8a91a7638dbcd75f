SPECIFICATION FairSpec
CONSTANTS
  Queries <- ThreeQueries
  Slow <- LastIsSlow
  MaxProcs = 2
CHECK_DEADLOCK FALSE
INVARIANTS
  TypeOK
  OneProcessUp
  AnswersOwnQuery
  AnswerIsFinal
  CloseCutsNothing
PROPERTIES
  EveryQueryReturns
