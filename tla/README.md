# cfwdon: specifications of the federation core

`cfwdon` is a Mastodon-compatible server for one or a few local accounts that
runs on Cloudflare Workers: a Rust worker (`src/crates/cfwdon-worker`) over a D1
(SQLite) database, with a Queue, KV, R2 and one Durable Object class. There are
no long-lived processes. Every HTTP request, queue batch and cron tick is a
short run of the same program that shares nothing with the others but the
database and caches, that may be stopped between any two awaits, and that
interleaves with the others at every await. What the code must get right is
therefore what each SQL statement checks before it writes, and what is left
behind when a run stops half way. That is what these modules model.

| Model | What it is | TLC | TLAPS |
|---|---|---|---|
| `DeliveryRules` | the pure rules both delivery queues share | | |
| `OutboxFanout` | the fan-out of posts to followers | `MCOutboxFanout` | `OutboxFanoutProofs`, `OutboxLeaseProofs` |
| `DeliveryLedger`, `OutboxLedger` | what the fan-out promises, and the refinement mapping | `MCOutboxFanout` | `OutboxLedgerProofs` |
| `OutboundFollow` | following a remote actor | `MCOutboundFollow` | `OutboundFollowProofs` |
| `Handshake`, `FollowHandshake` | what following promises, and the refinement mapping | `MCOutboundFollow` | `OutboundFollowProofs` |
| `InboxReceipts` | receipt of remote activities, followers and requests | `MCInboxReceipts` | `InboxReceiptsProofs` |
| `BackgroundJobs` | the job queue and the preview cards | `MCBackgroundJobs` | `BackgroundJobsProofs` |
| `Publishing` | scheduled statuses, idempotency keys, media, outbox | `MCPublishing` | `PublishingProofs`, `PublishingLineProofs` |

`PROJECT.json` says for each definition which lines it translates, which runs
check what, and which mutation of the code each property detects. Unless
another directory is named, paths below are relative to
`src/crates/cfwdon-worker/src`.

## The system

| Component | State | Operations | Talks to |
|---|---|---|---|
| Outbox fan-out (`delivery.rs`, `delivery/store*.rs`, `delivery/process_batch.rs`, `delivery/outbox_enqueue.rs`) | table `outbox_deliveries`: one generic row per public activity, one row per target inbox | insert, claim, expand, send, mark, requeue stale, cancel | queue, followers, domain blocks, relays, remote inboxes |
| Outbound activities (`delivery/outbound*.rs`) | table `outbound_activities`: one row per activity to a single inbox | enqueue or reset, claim, send, mark, reconcile the follow it carries | relationships, same queue consumer |
| Delivery rules (`cfwdon-domain/src/delivery.rs`) | none | classify an answer, count attempts, next state | both delivery tables |
| Signed delivery (`http/signed_delivery.rs`) | none | resolve the host, sign, POST | remote inboxes, DNS over HTTPS |
| Inbox (`inbox.rs`, `inbox/`) | tables `inbox_activities`, `followers` | begin, dispatch, finish, release, reclaim stale | every handler of a remote activity |
| Follow requests, relationships (`follow_requests.rs`, `relationships.rs`, `relationship/`) | `follows`, `followers`, requests | follow, unfollow, authorize, reject, reconcile | outbound activities, outbox (cancels rows) |
| Domain blocks (`domain_blocks.rs`) | `account_domain_blocks`, a cached capability bit | block, unblock, list | outbox, enqueue, inbox |
| Relays (`relays.rs`) | `relays` | subscribe, enable, list | outbox expansion |
| Background jobs (`background_jobs.rs`) | `background_jobs` | enqueue, claim, run, retry, reclaim | deferred tasks, cron |
| Statuses (`statuses/`) | `statuses` and its children (foreign keys cascade) | create, edit, delete, reblog, quote | outbox, media, notifications |
| Scheduled statuses (`scheduled_statuses/`) | `scheduled_statuses` | schedule, claim due, publish | statuses |
| Polls (`local_polls/`, `polls.rs`) | votes and counters | vote, expire | statuses, inbox |
| Media (`media/`) | R2 objects, `media_attachments` | upload, attach | statuses |
| Streaming hub (`stream_hub/`, `stream_hub_publish.rs`) | a Durable Object with its sockets | subscribe, publish, retry | notifications, timelines |
| Caches (`app_cache.rs`, `response_cache.rs`, ...) | isolate memory, KV | load, invalidate, reset | most readers |
| Accounts, OAuth, identity (`auth/`, `oauth_*`, `identity.rs`) | accounts, tokens, codes | provision, authorize, exchange | every request |
| Read models (timelines, search, lists, notifications) | none of their own | query, render | clients |
| Entry points (`lib.rs`, `router.rs`) | none | fetch, scheduled (hourly), queue | everything |

How they interact. Writers insert rows in the same batch as the thing they
announce and then, after the response, kick the queue. The queue consumer
(`process_outbox_queue_batch`) requeues what was claimed more than fifteen
minutes ago, expands generic rows into one row per follower inbox, claims target
rows, posts them and records each outcome. Remote servers answer through the
inbox, whose handlers write followers and relationships and cancel pending rows.
The cron kicks the queue once an hour, reclaims inbox receipts and background
jobs that died, runs the due jobs and sweeps the due scheduled statuses; an
administrator can start each of these beside it, and some requests run a job of
their own after their response.

What is hard:

* *Interleaving.* Two runs, or a run and any number of requests, share the
  tables; every read is stale by the time it is used.
* *Crashes.* A run stops between two statements and leaves its rows in flight;
  only the lease brings them back.
* *Late runs.* A run that outlives its lease continues beside the one that
  reclaimed its rows.
* *Lost messages.* Kicks and continuations are sent best-effort, and the queue
  drops a message after three retries. A POST may be processed and its answer
  lost.
* *Retries and their budget.* The attempt count is advanced by failed attempts
  and by lease expiry, and read long before it is written back.
* *Foreign keys.* Deleting a status silently removes its delivery rows and makes
  concurrent inserts fail.
* *Read, fetch, write.* A job reads a status, fetches a page for seconds and
  writes; a request checks that media are free and takes them later.
* *Clients and servers that repeat themselves* until they are answered, beside
  the first attempt or long after it.
* *Cached capability bits* that decide whether a block list is read at all.

What makes each part correct is listed, hazard by hazard and at the line where
each bites, under `hazards` in `PROJECT.json`, with the properties that watch
it or the reason why none does.

## The outbox fan-out: `OutboxFanout`

One local account, its posts, its followers, and any number of concurrent
consumer runs.

State and code:

| Variable | Code |
|---|---|
| `row` | `outbox_deliveries`, keyed as its unique index: activity (kind and post) and target inbox; `NoInbox` is the NULL target of a generic row. `st` and `att` are the columns, `ripe` says that `next_attempt_at` (queued) or the lease (in flight) has passed |
| `post` | how far the handler that publishes or deletes a status got; the handlers are several awaits long |
| `followers`, `blocked` | the tables the expansion reads |
| `leaving` | an unfollow between its two statements |
| `kicks` | messages in the queue |
| `pc`, `batch`, `plan`, `jobs`, `progress` | the local variables of a run, one component per run |
| `received`, `refused`, `loyal`, `retried` | history: what the remote inbox got or rejected, who has been entitled to a post at every moment since it was published, which rows an administrator put back |
| `crashes` | a bound |

One action is one D1 statement or batch (a batch is a transaction), or one POST:

* Author: `StoreWithMedia`, `Publish`, `EnqueueAddressed`, then `EnqueueDeletes`
  and `DeleteStatus`, which ends with the cascade of the foreign key.
* Followers: `Follow`; `Unfollow` and then `CancelRows`, or `CancelLost` when the
  handler dies in between. Cancelling is by inbox, so it hits everybody who
  shares it.
* Account: `Block`, `Unblock`. Administrator: `AdminRetry`.
* Time and queue: `Age`, `Kick`, `Start`.
* A run, in the order of the code: `RequeueStale`, `ClaimGeneric`,
  `PlanExpansion` (reads followers, blocks and relays once), `ExpandChunk` as
  often as needed, `FinishExpansion` (or `MarkCompleted` when nobody is to be
  served), `ClaimTargets`, `CheckBlocks`, `FailBlocked`, `Send`, `RecordOutcome`,
  `FinishRun`. `ExpandFails` is the foreign key refusing a chunk of a status
  deleted meanwhile; `Crash` is a run that stops anywhere.

Abstractions: the payload is its kind and post; the followers and the blocks are
read in one step (two SELECTs in the code); the target batch is posted at any
degree of overlap; `created_at` order among due rows is any order, since it has
second precision; two concurrent unfollows of the same actor are one; the queue
is a counter; domain and inbox are the same thing. The answer to a POST is one
of `accepted`, `answer_lost` (processed, but the connection failed), `busy`
(408, 429, 3xx, 5xx), `rejected` (any other 4xx) and `unresolved` (the
DNS-over-HTTPS lookup of the host failed).

What it should do, said without rows: `DeliveryLedger`. Publishing promises the
post to everybody entitled; a debt to an entitled inbox is settled only if the
inbox received the post and given up only when the attempts are spent or the
inbox rejected it. `OutboxLedger` maps the tables to that ledger. A debt
without a row of its own is carried by the generic row of the post: this is why
an interrupted expansion loses nothing.

## Following a remote actor: `OutboundFollow`

One local account, one remote actor, any number of overlapping API requests and
consumer runs. The rows of other pairs share only the claim's limit with these,
and the fan-out half of a run and the messages that start it are `OutboxFanout`.

| Variable | Code |
|---|---|
| `follow` | the row of `follows` for the pair: `follow_activity_id` and `state` (id 0: no row) |
| `row` | `outbound_activities`, by activity id; `ripe` as in `OutboxFanout` |
| `used` | the ids `generate_entity_id` has handed out, numbered in order |
| `client` | per request: which statement of `follow_remote_account` or `unfollow_remote_account` comes next, and the Follow id it carries between two awaits |
| `blocked` | `account_domain_blocks`; `BlockViews` adds the stale "no blocks" bit |
| `pc`, `jobs`, `owed` | per run: its step, the rows it holds, and the Follows it has marked failed and not yet reconciled |
| `reached`, `heard`, `assumed`, `missed`, `retried` | history: what the remote server has processed, which answers came in, which Follows counted as accepted because the actor is not locked, which failures nobody was there to pass on, which rows an administrator put back |

Actions. A follow is `QueueFollow`, then `UpsertFollow`: the activity is in the
queue before there is a row for its answer. An unfollow is `LoadFollow`,
`QueueUndo` (skipped for a blocked domain), `DeleteFollow`. `ClientDies` ends a
request between two of them. A run is `RequeueStale`, `Claim`, `CheckBlocks`,
`FailBlocked`, `Send`, `RecordOutcome`, `FinishRun`, with `Reconcile` as the
second statement after every terminal mark, and `RunDies` anywhere. `Hear` is an
Accept or Reject of a Follow the remote server got, at any time and any number
of times. `AdminRetry` requeues a failed row. `Age` lets back-off and lease pass.

Abstractions: whether the actor is locked is a choice at each upsert; a Follow
and its row number are one; the account and the actor exist throughout; the
answer to an id nobody used is no step; `created_at` order among due rows is any
order.

What it should do, said without rows: `Handshake`. Each Follow is asked for once
and stands at most once, so that one that was withdrawn or replaced does not come
back; the follow that stands is decided only by an answer to that very Follow,
which the actor's server must have got; a Follow counts as delivered only if it
was got; and a follow is given up only while it is unanswered and its delivery
has failed (or had, before an administrator put it back). `FollowHandshake` maps
the tables to it: the fate of a Follow is the state of its row, queued and in
flight alike, and a Follow waits while a request is about to write the follows
row. What the handshake leaves open, because the code does, is that the Undo of
a Follow be sent, or in which order the two arrive.

## Receiving activities: `InboxReceipts`

One remote actor, what it sends to one local account, the owner of that account,
and any number of concurrent receipts. The remote actor sends each activity of
its plan until it is answered with a 2xx, several times at once if it likes.

| Variable | Code |
|---|---|
| `plan`, `acked` | what is being sent, what the sender need not send again |
| `row` | `inbox_activities`, by activity: absent, in flight for less than fifteen minutes (`fresh`) or longer (`stale`), `processed` |
| `rc` | per receipt: its activity, the next statement, and `accounts.locked` as it was read before the handler began |
| `locked`, `follower`, `request`, `told` | the account's switch, the sender's rows of `followers` and `follow_requests` (the Follow that brought them), the Accepts and Rejects queued to it |
| `owner` | per answer of the owner to a request: the next statement and the Follow it found |
| `status` | the activity that wrote the remote status last |
| `handled`, `replayed`, `presumed`, `overrun`, `half`, `revived` | history, below |

A receipt is `Post` (which removes an expired row), `BeginOrReplay` (the
INSERT OR IGNORE that decides), the statements of the handler, then `Finish`
(mark, answer 2xx) or `Release` (delete the row unless processed, answer with an
error). Follow: `AskOwner` when locked; otherwise `DropRequest`, `AddFollower`,
`QueueAccept`. Undo: `MatchUndo`, `DropFollower`, `DropAsked`. Create and
Update: `Store`; Delete: `Remove`. The owner: `Answer` (finds the request),
`Authorize`, `QueueAnswer`, `Finalize`. `Fail`, `ReceiptDies` and `OwnerDies`
stop any of them; `Age` lets fifteen minutes pass; `Reclaim` is the hourly job.

The history variables are the exceptions, named where the code makes them, so
that each property says what holds otherwise: `replayed` (the 202 of a replay
was sent while the first receipt was at work, which may still fail), `presumed`
(the reclaim took a row for done by looking for its effect), `overrun` (a row
expired under a receipt that was merely slow), `half` (a follower was written
and the request died before the Accept), `revived` (an activity was carried out
beside or after the one that takes it back).

What the reclaim takes for done depends on the ids of activities as much as on
their effects, so the ids are of two kinds each: `Marked` Updates carry
`#updates/`, `Named` activities have the id of the status (less `/activity`).
`Reclaim` marks what `LooksDone`, releases any other Create, and leaves every
other row in flight.

Abstractions: verification of signatures and resolution of targets are before
`Post`; a status is known by the activity that wrote it last; deleting a remote
status and its dependents is one step; what follows the upsert of a status may
fail and is otherwise left out.

## Background jobs: `BackgroundJobs`

Local statuses whose page previews are unfurled, remote statuses whose arrival
is notified (`Notes`), and any number of invocations that work jobs off.

| Variable | Code |
|---|---|
| `job` | `background_jobs`: status, attempts, and whether `next_run_at` has come |
| `text`, `card` | per status its revision and whether it has a link, and the revision whose link `card_json` shows |
| `owed`, `soon` | what a request has still to enqueue, and to run after its response |
| `claimed`, `cur` | per run: rows claimed with the batch and not begun, and the job under way with what it has read |
| `overrun`, `retried`, `raced`, `skipped`, `read` | history |

`Edit` writes a text and its plain card in one statement, `Enqueue` is the
`INSERT ... WHERE NOT EXISTS` that skips a payload with a live job, and
`EnqueueLost` its dropped error. A run claims with the cron's statement
(`ClaimDue`) or for one payload after a response (`RunNow`, or `SoonDropped`),
then for each row `Begin` (reads the status), `Write` (after the fetch, over
whatever the column holds) and `Finish` (by id alone, whoever holds the row) or
`FinishLost`. `Reclaim` is the lease of fifteen minutes, `Ripen` the backoff,
`AdminRetry` an administrator.

`overrun` holds the rows reclaimed under a run that was still to come to them,
`raced` the statuses last edited during a fetch for the text before,
`skipped` those whose last edit enqueued nothing although a job was needed:
either the statement failed, or a run already past its reading counted as a job
to come.

Abstractions: a run's batch is serial, as in the code; the effect of job kinds
other than the unfurl is success or failure; the attempts of a completed row are
0. Requests to one status do not overlap (a bound).

## Publishing: `Publishing`

Scheduled posts, direct posts whose client repeats its request with one
Idempotency-Key until it is answered, and workers (sweeps and requests).

| Variable | Code |
|---|---|
| `plan` | which media each post wants, and the limit of the sweep's list; which media may be removed, which posts refer to what may go (`frail`), which rows do not parse (`illegible`) |
| `row`, `line`, `wait`, `claim` | `scheduled_statuses`: the state, the order by `scheduled_at`, the ticks until it, the ticks since `claimed_at` |
| `wk` | per worker: kind, how long ago its sweep began, rows listed, rows rescheduled since, the post and status at hand, the next statement |
| `barred`, `doomed`, `gone` | scheduled posts whose account, reply target or quote is gone or refused; media found free and about to be removed; media removed |
| `stored`, `out`, `att` | statuses made of a post, those with a Create in the outbox, `media_attachments.status_id` |
| `key`, `answered` | `status_idempotency_keys`, and clients that have their answer |
| `slow`, `overlapped`, `broken`, `expired`, `refused`, `late`, `against` | history |

The author: `Schedule`, `Reschedule`, `Cancel`. A sweep: `StartSweep` (lists due
rows, up to the limit), then per row `Claim`. A request: `Request`, `FindKey`.
Both go on with `ResolveMedia` (is the post `Acceptable`: are its media there and
free, its account and reply target there, its quote allowed?), `Insert` (with the
outbox row if there are no media), `Attach` (all or none), `InsertOutbox`, and
then `DeleteRow` or `RecordKey` and `Answer`. `Fail` and `Die` stop a worker;
`ExpireKey` is the hour after which a key is purged; `Tick` is time.

Everybody else is `World`. `TargetTurns` takes away what a post refers to, or
brings it back (`publishing.rs:76` to `146`). `FindOrphan` and `RemoveMedium` are
the author or `prune_orphan_media`, which look whether a medium belongs to a
status and remove it by its id in another statement. A sweep's list (`Listed`) is
the LIMIT first and the rows that parse afterwards, as in `queries.rs:41`. No
code of this commit writes a row that it cannot read; one may be left by a
release with other rules.

The checks of a post are one step, with the media: each of them is a SELECT, and
a sweep gives up its row in the same way at any of them. The reply target and the
quote of a direct post are not modelled, since its client is told.

Time is relative: a clock per row and per sweep instead of a date, which is what
the comparisons of the code come to. A claim is stamped with the start of its
sweep, not with the time of the claim, and the model keeps that.

## Runs

| Run | Question | Instance |
|---|---|---|
| `fanout_one_run` | With one run at a time (the `max_concurrency = 1` of `wrangler.toml.example`): is an entitled follower ever skipped, a debt ever forgotten or settled without a delivery? (`TypeOK`, `NoFollowerSkipped`, `ImplementsLedger`) | 1 post, 2 followers with an inbox each of which one may leave and be blocked, batches and chunks of 1, stale block views, a crash |
| `fanout_two_runs` | Do the claims keep two overlapping runs apart, does the attempt count move one way, and is every entitled follower served in the end? (`LeaseIsExclusive`, `QueuedHasBudget`, `AttemptsOnlyGrow`, `EveryFollowerServed`) | 2 runs, a post with media and an addressed inbox, administrator retries, a crash, lost kicks |
| `fanout_late_runs` | Does a run that outlives its lease invent or undo a delivery? (`DeliveredWasReceived`, `DeliveredIsFinal`) | 2 runs, leases that expire under a working run |
| `delete_lost` | finding: the Delete of a fanned-out status is removed by the cascade | 1 post |
| `relay_leak` | finding: a followers-only post claimed with a public one is addressed to the relays | 2 posts |
| `dns_failure` | finding: a resolver failure ends a delivery at its first attempt | 1 post |
| `follow_one_run` | What does a Follow that fails leave behind, is every queued activity settled, and is every step one of the handshake? (`FailedFollowIsTerminal`, `OnlyMissedFailuresLinger`, `EveryActivitySettled`, `ImplementsHandshake`) | 1 request at a time, a Follow and a second activity, lost answers, domain blocks, a crash of the run or the request |
| `follow_late_runs` | Can late answers or runs that outlive their lease mix up or undo an answer, or overspend the budget? (`TypeOK`, `AnswerIsToThisFollow`, `AnswerIsKept`, `QueuedHasBudget`) | 2 runs, leases that expire under a working run, one administrator retry |
| `follow_lingers` | finding: a Follow that fails before its follow is written leaves it pending | no crash |
| `inbox_receipts` | Is every activity handled once and not forgotten, does what is taken back stay so, is a follower told, is everybody answered? (`TypeOK`, `HandledByOne`, `AckedIsHandled`, `TakenBackStaysSo`, `FollowerWasTold`, `ProcessedIsFinal`, `EveryActivityAnswered`, `EveryRowSettles`) | a Follow with an Undo by id or by object, two Follows, or a Create, Update and Delete with ids the reclaim knows or does not; 2 receipts, 1 answer of the owner, a slow Create, 1 fault |
| `background_jobs` | Is there one run per job and one job per payload, is a finished job left alone, is a preview that of the text, is none forgotten, does every job end? (`TypeOK`, `ClaimIsExclusive`, `OneLiveJob`, `FinishedIsFinal`, `CardIsOfText`, `UnfurlNotForgotten`, `EveryJobEnds`) | a status edited twice and a note, 2 runs, batches of 2, one row that may outlive its lease, one administrator retry, any number of deaths |
| `publishing` | Is a post published once and whole, is none silent or lost, has the author the last word, does every due row leave? (`TypeOK`, `PublishedOnce`, `KeyedOnce`, `MediaWhole`, `NoSilentStatus`, `AuthorHasLastWord`, `NothingScheduledIsLost`, `EveryDueRowLeaves`) | two scheduled posts, or one and a keyed request, with own, shared or no media; a medium that may be removed, a post that may be barred, a row that does not parse; lists of 1 or 2; 2 workers; claims that lapse after a tick; 1 fault |

Bounds and why they suffice. `MaxAttempts` is 2 (5 in the code): one attempt
that may be retried and one that is the last are the two cases the code
distinguishes. Batches and chunks of 1 (16, 32 and 40) make every claim and
every expansion come in pieces. `MaxCrashes` is 1, `MaxKicks` is 1: a message
more only starts a run that finds no work. `Movers`, `Blockable` and `Retryable`
restrict who moves, so that the others are the entitled ones the properties are
about. In the follow runs `MaxIds` is 2: a Follow and a later Follow or Undo of
the same actor, which is what a late answer, a late run or an unfollow can
confuse. `ClaimLimit` 1 (32) makes the two activities travel in different runs.
In `follow_late_runs` every POST is accepted, and a Follow fails only by leases
that end under its runs; the answers that fail it directly are those of
`follow_one_run` and `follow_lingers`. TLC sees one request at a time; that
overlapping requests break none of the safety properties is what the proofs
below say, which hold for every number of them. `follow_late_runs` declares its
runs symmetric; no liveness run uses symmetry. The runs that state findings are
as small as their counterexamples allow. Deadlock checking is off in the runs
where all work can be done and nobody has to start any: once every delivery is
settled and the bound on activities is used up, the pipeline rests.

In `inbox_receipts` the plans are the sets of activities that can touch each
other's effects: one Follow and its Undo, two Follows, the three activities of a
status, twice: with ids that the reclaim recognises and with ids it does not. Two receipts are a delivery and its repetition; a single fault (an
error, a death or a lost answer, followed by as many deliveries as it takes) is
what every exception needs at most, together with one slow activity. In
`background_jobs` `MaxRows` 2 allows a job beside a finished or reclaimed one,
`MaxEdits` 2 an edit beside the fetch for the one before, `MaxAttempts` 2 is the
retry and the last attempt; deaths and lost writes are unbounded. In
`publishing` `Ttl`, `Offset` and `MaxAge` of one tick give each comparison of
times both its outcomes in either order: a claim that lapses while its sweep is
at work and one that does not, a row that becomes due during a sweep. A barred
row and one that does not parse stand before another row in a list of one; in
other plans a row loses its medium to another post or to a removal.
`background_jobs` may rest when all jobs are over; `inbox_receipts` and
`publishing` always have a step to take.

Fairness (`FairSpec`). `Kick`: the hourly cron sends a message whenever work is
pending. `Start`: the queue delivers. `Age`: time passes. `RunStep`: a run that
is not stopped goes on. Nothing is assumed of kicks after requests, of
continuations, of followers or of the author, and `Crash` is bounded by
`MaxCrashes`, as nothing can be delivered by runs that always crash.
`OutboundFollow` assumes the same of `Age`, `Start` and `RunStep`, and nothing of
requests, administrators and remote servers: nobody has to answer.
`InboxReceipts` assumes that a remote actor repeats what was not answered, as
servers of the protocol do, that receipts and answers that are not stopped go
on, that time passes and the cron reclaims; the owner need not answer.
`BackgroundJobs` assumes that the cron reclaims and claims, that backoffs end,
and that a run which is not cancelled goes on. That every job ends although runs
may die without bound is the work of the attempt count, which every death
raises. `Publishing` assumes that time passes, that the cron starts sweeps and
that workers go on; neither author nor client need do anything. Weak fairness is
enough throughout: no step that counts is disabled again and again for ever.

Every property has a mutant in `PROJECT.json`: a definition of the model with a
plausible bug (kept beside the original, named `Original_Bug`) under which TLC
finds the property violated.

## Proofs

`OutboxFanoutProofs` proves, for every set of runs, posts, actors and inboxes,
every batch limit and both values of `StaleBlockView` and `RunsOutliveLease`,
from `FanoutAssumption` and `MaxAttemptsAssumption` only (the types of the
constants, and that the limits are positive):

* `TypesKept`: `Spec => []TypeOK`.
* `FollowersCovered`: `Spec => []NoFollowerSkipped`. The property is not
  inductive, because it says nothing of a run that has read the followers and
  not yet inserted. `FanoutInv` adds: `Shape` (what a run expands are generic
  rows of posts already written out, what it sends are not generic, rows exist
  only for such posts), `Entitlement` (an entitled actor follows and is not
  blocked, and nobody is entitled to a post not yet published or gone) and
  `Covered` (for every entitled actor, a run that expands a post still plans the
  row or has inserted it, and a run that found nobody has no entitled actor to
  find). A plan is made from a view of the blocks that is never too large, so it
  covers the entitled; it only shrinks by inserting; a row disappears only with
  its post, which ends all entitlement.
* `DeliveredReached`: `Spec => []DeliveredWasReceived`, from `Honest`: a job of a
  run is a success only if the remote inbox took the POST. It holds for late
  runs as well.
* `BudgetKept`: `Spec => []QueuedHasBudget`, `DeliveredStays`:
  `Spec => DeliveredIsFinal`. Both follow from `TypeOK` and from `RunRowStep` and
  `OtherRowStep`, which list every way a row may change with the state it is
  found in.

`OutboxLeaseProofs` adds what needs to know who holds a row:

* `LeasesExclude`: `Spec => []LeaseIsExclusive`. The invariant `LeaseIInv` lists
  the work of every run (claimed, planned, being sent), says that an
  absent row has no attempts, and that two runs share no work unless late
  runs are allowed; a claim takes only queued rows, and a requeue takes a row
  only from a run that is gone.
* `AttemptsGrow`: `Spec => AttemptsOnlyGrow`: every count a run writes back is
  made from the one it claimed, which nobody has changed meanwhile.

`OutboxLedgerProofs` proves the refinement, `PromiseKept`:
`Regular => (Spec => ImplementsLedger)`, late runs, mentions, relays, retries and
crashes included. `Regular` is about the constants: no lookup of a host fails,
and nobody who may leave shares his inbox. Both are needed. A failed lookup ends
a delivery as if it had been refused, and an unfollow cancels by inbox, so it
takes the rows of those who stay with it; in either case a debt to an entitled
inbox is given up with attempts to spare (the run `dns_failure` shows the first).

The argument follows `Bearer`, the row that stands for a debt. `OfferIs` to
`PostIs` say which changes of standings make a step of the ledger; `Steady` and
`SameIs`, that debts stay with their rows as long as rows neither appear nor go;
`CarrierOpen`, which is `FollowersCovered` again, that the generic row of an
unwritten debt is not closed. The invariant `LedgerInv` joins `FanoutInv` and
`ReceivedInv` and adds `JobsFit` (a job is filed as refused only if its inbox
rejected it, as blocked only if nobody is entitled there), `TargetsOpen` (only
generic rows are ever expanded) and `LeftAlone` (whoever is being cancelled has
his inbox for himself among the entitled). `BatchBearsNone` is why closing a
generic row, without even asking for its state, loses nothing: by `Covered`, all
it stood for have rows of their own.

`OutboundFollowProofs` does the same for the follow handshake, for every set of
requests and runs, every `MaxIds`, limit and set of answers, with or without
late runs, blocks and retries, from `FollowAssumption` and
`MaxAttemptsAssumption`:

* `FollowTypesKept`: `Spec => []TypeOK`.
* `AnswersMatch`: `Spec => []AnswerIsToThisFollow`, and `AnswersStay`:
  `Spec => AnswerIsKept`. Both rest on `FollowChange`, which lists the five ways
  the follows row changes, and the first also on `HistoryGrows`.
* `FollowBudgetKept`: `Spec => []QueuedHasBudget`, from `RowsKept` and
  `RowsOfRequests`, the ways an activity's row changes.
* `FailuresReachFollow`: `Spec => []OnlyMissedFailuresLinger`. The property says
  nothing of a request that is about to write its follow, so it is strengthened
  to `Lingering`, which covers the follow and every such request. That needs
  `Numbering` (ids are drawn in order, what waits for an answer is a Follow, and
  no two wait for the same one; otherwise a request could bring an old failed id
  back) and `Owing` (a run owes news only in the steps that pass it on;
  otherwise the next `RequeueStale` could overwrite it).

* `FailedIsTerminal`: `Spec => []FailedFollowIsTerminal`, for runs that do not
  outlive their lease. `FailedInv` adds that each row is held by one run at most
  (`Sole`), that a job marked as failed and not yet reconciled is of a failed
  row (`HeldBy`, `FailedBy`), and that a row, once failed, is put back only by an
  administrator. With late runs the property does not hold, and it says so.
* `HandshakeKept`: `~RunsOutliveLease => (Spec => ImplementsHandshake)`, the
  refinement of `Handshake`, for any number of overlapping requests, retries and
  crashes. There is a lemma per kind of step (`PactByClient` to `PactByResult`):
  it is one step of the handshake under the mapping, or none. They need
  `FailedInv` (what a run reports as failed is on record, so that giving up is
  allowed; an id waits with one request only, so that a Follow stands once) and
  `Recorded`: an id not yet drawn has no row, job or history, so that asking is
  always for a fresh Follow, and a job that is a success has reached the actor's
  server, so that what is marked delivered was got. The hypothesis is needed:
  when a lease ends under a run, the run's mark is ignored but its failure is
  reconciled all the same, and the follow is given up while its Follow is queued
  for the next attempt. TLC finds that behaviour with two runs and one Follow.

`InboxReceiptsProofs`, from `InboxAssumption` and `NoneIsNoAct`, for every set of
activities, receipts and answers, and every bound on faults:

* `ReceiptsAreTyped`: `[]TypeOK`. It needs `TInv`: the step of a receipt is one
  of the handler of its activity, and an answer at work has a Follow.
* `HandledOnce`: `[]HandledByOne`, from the invariant that whoever works on an
  activity that was never overrun has its row in flight.
* `ProcessedForGood`: `ProcessedIsFinal`. `AckedForCause`: `[]AckedIsHandled`,
  from the invariant that a processed row was handled or presumed.
* `FollowersAreTold`: `[]FollowerWasTold`, strengthened to every follower that
  is about to be written.
* `TakenBackForGood`: `[]TakenBackStaysSo`. An activity at work on taking
  something back is treated as handled from its first statement on, so that what
  is written beside it counts as revived; an Undo has removed what it is past.

`BackgroundJobsProofs`, from `JobsAssumption`, for every set of statuses, notes
and runs, and every batch, budget and bound:

* `JobsAreTyped`: `[]TypeOK`, from `TInv` (a run that has fetched has a status).
* `ClaimedOnce`: `[]ClaimIsExclusive`, from `HInv`: a row held by a run and not
  overrun is running, and nobody else holds it.
* `FinishedStays`: `FinishedIsFinal`. `OneJobAtATime`: `[]OneLiveJob`.
* `CardsFollowTexts`: `[]CardIsOfText`, strengthened to the revisions that runs
  have read and not written.
* `NoUnfurlLost`: `[]UnfurlNotForgotten`, from `ToCome`: a status whose job is
  claimed and not begun will still be read.

`PublishingProofs`, from `PublishingAssumption` and `NoneIsNoPost`, for every set
of posts, media and workers, every plan, and all times and bounds:

* `WorkersFit` (`BInv`: what a worker holds fits its step) and `StatusesAreKept`
  (`SInv`: copies are numbered without gaps, each worker makes its own, a medium
  belongs to a status that wants it) are the foundation.
* `PostsAreWhole`: `[]MediaWhole`; `SilenceHasACause`: `[]NoSilentStatus`;
  `NoScheduleIsLost`: `[]NothingScheduledIsLost`.
* `SchedulesPublishOnce`: `[]PublishedOnce`, `KeyedRequestsPublishOnce`:
  `[]KeyedOnce`, from `AInv` (who is at work on a row holds a claim as old as its
  own) and `OInv` (`Once`: a post with a status not yet told of by a deleted row
  or a key has a worker that will do so, or one of the exceptions).

`PublishingLineProofs`, from the same assumptions, adds what depends on the order
of the scheduled rows:

* Its base is the lemma `SelectedKeeps`: `Selected` returns only elements of the
  sequence, and all those the condition holds of. For its sake `Selected` is a
  function of the length of the prefix, not `SelectSeq`, and the induction is
  written as a least counterexample (`Least`, from the library's `WFMin`), since
  the induction theorems of the library take an operator and cannot be used.
* `PublishingTypes`: `[]TypeOK`, from `TInv`. Its part `LInv` says that the line
  holds exactly the pending rows, the rest bounds the clocks of rows, claims and
  sweeps and the history.
* `TheAuthorHasTheLastWord`: `[]AuthorHasLastWord`. It says nothing of a sweep
  that has listed a row and not published it, so `WordInv` (theorem
  `SweepsKnowTheAuthor`) adds two clauses. `Fresh`: a row that a sweep has listed
  and has yet to come to was due when it was listed, or the sweep is known to
  have had it put off since. `Wanted`: a post that a sweep is at work on is still
  wanted now, or its author changed his mind after the claim, which is the
  exception of the property. A claim carries the first over to the second,
  because its WHERE asks for the state and the time of the row again.

Only model-checked are the liveness properties `EveryFollowerServed`,
`EveryActivitySettled`, `EveryActivityAnswered`, `EveryRowSettles`,
`EveryJobEnds` and `EveryDueRowLeaves`: liveness under fairness is out of the
prover's reach. Every other property of a passing run is a theorem.

## What the findings say

* Deleting a status never federates: `delete_local_status_with_outbox` inserts
  the generic Delete row with `status_id` and deletes the status in one batch,
  and `ON DELETE CASCADE` removes the row.
* A followers-only post may reach relays: the relay inboxes are merged into the
  targets of the account, hence of all its rows in the claimed batch.
* A failed DNS-over-HTTPS lookup ends a delivery for good, as a rejection does.
* A Follow may fail for good between the two statements of
  `follow_remote_account`; the follow is then written as pending and stays so,
  although development.md says that a terminal failure makes it failed. A run
  that dies between its two statements has the same effect;
  `OnlyMissedFailuresLinger` shows that there is no third way.

Several properties name their exceptions (`retried`, `overrun`, `replayed`,
`presumed`, `half`, `revived`, `raced`, `skipped`, `slow`, `broken` and the
like). What falls under such a name is what the code does, and the property is no
argument that it should: it says that there is no other way. Where an exception
is itself a hazard, `PROJECT.json` lists the hazard with a note instead of the
property.

Two more places to know of. An administrator retry, of either table, keeps the
attempt count, so the row gets one attempt and is then outside what
`cfwdon-models` asserts of queued rows (`QueuedHasBudget` names the exception).
The retry of a failed Follow leaves the follow in state failed while the Follow
is sent (the exception in `FailedFollowIsTerminal`); the Accept sets it right if
it comes. A run that outlives its lease can do the same, so that exception is in
the property as well.

What the exceptions in the newer modules come from, each reached by a run:

* A claim of a scheduled row is stamped with the start of its sweep
  (`scheduled_statuses/publishing.rs:54`), so the five minutes of a row late in
  the list are partly over when it is claimed. A second sweep may then publish it
  beside the first (`slow` in `PublishedOnce`).
  `docs/planning/durable-objects-candidates.md:273` says that a concurrent sweep
  "cannot publish it twice", and in the next clause that claims of five minutes
  are retried; the model shows that the two meet while the first is at work.
* A failure between the status and the removal of its scheduled row, or the
  record of its key, publishes it twice (`broken`). The Idempotency-Key of a
  scheduled request is stored with the row and looked up by nobody
  (`statuses.rs:283`).
* A medium taken by another status, or removed, between the check and the UPDATE
  leaves a status with no media and no outbox row: local for ever
  (`NoSilentStatus`).
* A row whose media or account or reply target are gone, whose quote is refused
  or that does not parse cannot be published, and nothing but its author removes
  it; as many of them as a sweep lists keep all later rows waiting
  (`EveryDueRowLeaves`). Media of a scheduled post belong to no status until it
  is published, so `prune_orphan_media` (`media.rs:31`: older than 24 hours)
  makes such a row of a post scheduled more than a day ahead.
* The removals of media look first and delete by id later, so a medium attached in
  between is torn from a published status. `MediaWhole` counts it as got: nothing
  hinders it.
* A replay is answered with 202 while the first receipt is at work. If that one
  then fails, the sender has its 2xx and nobody handles the activity (`replayed`).
  The reclaim (`inbox/activity_store.rs:109`) marks an Update with `#updates/` in
  its id as processed when its actor is known, and a Delete when no status has
  the id of the Delete, whether or not the receipt that died had changed anything
  (`presumed`).
* It has no word for other Updates whose id names no status, for a Delete that
  has the id of a status, for Follows and for Undos. If such a receipt dies and
  its redelivery is answered as a replay, the row stays in flight for ever
  (`BeyondReclaim` in `EveryRowSettles`); `admin_api/inbox.rs` lists it as stuck.
  This server's own Updates end in `/updates/<id>` (`activitypub/updates.rs:54`),
  which `'%#updates/%'` does not match.
* An edit made while a run fetches the preview of the text before enqueues no job
  of its own and has its card overwritten (`raced`, `skipped`). The comment of
  `soft_enqueue_background_job` speaks of pending jobs; the statement also counts
  running ones.

## Plan

In this order.

1. The activities whose ids are derived from their object and may be queued
   again (Announce, Like), with the late mark that closes the new intent.
2. The isolate cache, KV and the database behind `has_domain_blocks`, composed
   with the `BlockViews` of `OutboxFanout`.
3. Abstract specifications for the inbox (handled at least once, answered by its
   effect) and for publishing (one status per scheduled post), in the manner of
   `DeliveryLedger` and `Handshake`.

## Not modelled

The modules follow the protocols in which several invocations share rows and may
fail between two statements. They stand for a small share of the repository's
lines, since most of those are of other kinds:

* *Read models* (timelines, lists, search, notifications, conversations, tags,
  profiles, collections): SELECTs and the JSON made of their rows. They change no
  state.
* *Rendering, routing, parsing, cryptography, object storage, fetching*: data
  and I/O without control. Where their verdict matters it is a choice of the
  models: the answer to a POST, whether a page or a lookup can be had, whether a
  handler fails.
* *Single-row stores* (favourites, bookmarks, pins, filters, reports, emojis,
  quotes and their policy, polls): one statement each, guarded by a unique key or
  a WHERE clause; there is no second step to interleave with.
* *Streaming hub and pushes*: best effort, with nothing that depends on arrival
  and no promise to check.
* *Caches*: a stale capability bit is a choice in `OutboxFanout`; how long it may
  be stale is a time to live of KV, which the code does not rely on.
* *Accounts, OAuth, registration*: tokens of external providers, one-shot codes,
  and pure rules that the repository checks with Stateright.
* *Follows between local accounts, several accounts, Update activities, poll
  votes, quote requests*: they reuse the statements modelled here.

The Stateright models of `src/crates/cfwdon-models` are read as statements of
intent only; no definition is translated from them.
