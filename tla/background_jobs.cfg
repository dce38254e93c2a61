SPECIFICATION FairSpec
CONSTANTS
  s1 = s1
  n1 = n1
  Statuses = {s1}
  Notes = {n1}
  MaxRows = 2
  Runs = {r1, r2}
  MaxAttempts = 2
  Batch = 2
  MaxEdits = 2
  Outlivable <- FirstRow
  Retryable <- Note
INVARIANTS TypeOK ClaimIsExclusive OneLiveJob CardIsOfText UnfurlNotForgotten
PROPERTIES FinishedIsFinal EveryJobEnds
\* every job is over and nobody writes: the queue rests
CHECK_DEADLOCK FALSE
