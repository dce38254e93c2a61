SPECIFICATION Spec
CONSTANTS
  p1 = p1
  p2 = p2
  alice = alice
  bob = bob
  i1 = i1
  i2 = i2
  relay = relay
  none = none
  MaxAttempts = 2
  Runs = {r1}
  Posts <- OnePost
  Audience <- Private
  MediaPosts = {}
  Mentions <- NoMentions
  Actors = {alice, bob}
  InboxOf <- OwnInboxes
  Inboxes = {i1, i2}
  Relays = {}
  NoInbox = none
  GenericBatch = 1
  TargetBatch = 1
  ChunkSize = 1
  Seen <- AllAnswers
  StaleBlockView = TRUE
  RunsOutliveLease = FALSE
  Movers = {}
  Blockable = {}
  Retryable <- NoRows
  MaxKicks = 1
  MaxCrashes = 1
INVARIANTS LoyalFollowerNotAbandoned
\* every delivery is settled and nobody writes: the pipeline rests
CHECK_DEADLOCK FALSE
