SPECIFICATION Spec
CONSTANTS
  MaxAttempts = 2
  Clients = {c1}
  Runs = {r1}
  MaxIds = 3
  ClaimLimit = 2
  Seen <- Replies
  RunsOutliveLease = FALSE
  MayBlock = FALSE
  Retryable <- NoIds
  MaxCrashes = 0
INVARIANTS FailureReachesFollow
\* the bound on activities is used up and all of them are settled
CHECK_DEADLOCK FALSE
