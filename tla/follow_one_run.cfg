SPECIFICATION FairSpec
CONSTANTS
  MaxAttempts = 2
  Clients = {c1}
  Runs = {r1}
  MaxIds = 2
  ClaimLimit = 1
  Seen <- MaybeLost
  RunsOutliveLease = FALSE
  MayBlock = TRUE
  Retryable <- NoIds
  MaxCrashes = 1
INVARIANTS FailedFollowIsTerminal OnlyMissedFailuresLinger
PROPERTIES EveryActivitySettled ImplementsHandshake
\* the bound on activities is used up and all of them are settled
CHECK_DEADLOCK FALSE
