SPECIFICATION Spec
CONSTANTS
  MaxAttempts = 2
  Clients = {c1}
  Runs = {r1, r2}
  MaxIds = 2
  ClaimLimit = 1
  Seen <- Taken
  RunsOutliveLease = TRUE
  MayBlock = FALSE
  Retryable <- FirstId
  MaxCrashes = 0
SYMMETRY Symmetry
INVARIANTS TypeOK QueuedHasBudget AnswerIsToThisFollow
PROPERTIES AnswerIsKept
\* the bound on activities is used up and all of them are settled
CHECK_DEADLOCK FALSE
