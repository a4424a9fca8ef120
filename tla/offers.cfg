CONSTANTS
  Conversations = {"c1"}
  Messages <- MCMessages
  Stock <- MCStock
  Filed = {4}
  NewPrices = {2100}
  MaxTurns = 2
  MaxChanges = 1
  SearchLimit = 10
  CandidateLimit = 3
  Overlap <- MCOverlap
SPECIFICATION Spec
INVARIANTS
  TableIsFair
  AnswersKeepTheWords
  NoSilentChoice
  BothTablesMatchLabels
  MissingIsConfirmed
CHECK_DEADLOCK FALSE
