SPECIFICATION FairSpec
CONSTANTS
  p1 = p1
  p2 = p2
  alice = alice
  bob = bob
  i1 = i1
  i2 = i2
  relay = relay
  none = none
  MaxAttempts = 2
  Runs = {r1, r2}
  Posts <- OnePost
  Audience <- Private
  MediaPosts = {p1}
  Mentions <- MentionFirst
  Actors = {alice}
  InboxOf <- OneInbox
  Inboxes = {i1}
  Relays = {}
  NoInbox = none
  GenericBatch = 1
  TargetBatch = 1
  ChunkSize = 1
  Seen <- Reliable
  StaleBlockView = FALSE
  RunsOutliveLease = FALSE
  Movers = {}
  Blockable = {}
  Retryable <- TargetsOnly
  MaxKicks = 1
  MaxCrashes = 1
INVARIANTS LeaseIsExclusive QueuedHasBudget
PROPERTIES AttemptsOnlyGrow EveryFollowerServed
\* every delivery is settled and nobody writes: the pipeline rests
CHECK_DEADLOCK FALSE
