---------------------------- MODULE OutboxFanout -----------------------------
(***************************************************************************)
(* The outbox pipeline of one local account: writing a status and its      *)
(* generic outbox row, expanding that row into one delivery per follower   *)
(* inbox, and delivering, retrying, cancelling and requeueing those rows   *)
(* (table outbox_deliveries, src/crates/cfwdon-worker/src/delivery/).      *)
(*                                                                         *)
(* A row is named by its activity (the kind and the post) and its target   *)
(* inbox, the key of idx_outbox_deliveries_activity_target_unique; NoInbox *)
(* is the NULL target of the generic row.  A step is one D1 statement or   *)
(* batch (each is a transaction) or one signed POST; everything between    *)
(* two awaits may interleave.  Time is abstracted to `ripe': a queued row  *)
(* is ripe once next_attempt_at has passed, an in-flight row once its      *)
(* fifteen-minute lease (OUTBOX_IN_FLIGHT_STALE_MODIFIER) has passed.      *)
(***************************************************************************)
EXTENDS DeliveryRules, FiniteSets

CONSTANTS
    Runs,             \* concurrent queue-consumer runs (max_concurrency)
    Posts,            \* statuses of the account
    Audience,         \* post -> "public" | "followers" | "direct"
    MediaPosts,       \* posts with media: the outbox row is inserted later
    Mentions,         \* post -> inboxes of explicitly addressed actors
    Actors,           \* remote actors that may follow the account
    InboxOf,          \* actor -> COALESCE(shared inbox, inbox)
    Inboxes,          \* every target inbox
    Relays,           \* inboxes of the enabled relays
    NoInbox,          \* the NULL target_inbox of a generic row
    GenericBatch,     \* generic rows claimed per run, 16 in the code
    TargetBatch,      \* target rows claimed per run, 32 in the code
    ChunkSize,        \* OUTBOX_DELIVERY_EXPAND_CHUNK_SIZE, 40 in the code
    Seen,             \* answers the environment gives, a subset of Answers
    StaleBlockView,   \* TRUE if the cached has_domain_blocks bit may be stale
    RunsOutliveLease, \* TRUE if a run may still be going when its lease ends
    Movers,           \* bound: actors that follow and unfollow
    Blockable,        \* bound: inboxes the account blocks and unblocks
    Retryable,        \* bound: rows an administrator retries, once each
    MaxKicks,         \* bound: queue messages outstanding
    MaxCrashes        \* bound: runs that die or fail half way

Activities == {"Create", "Delete"} \X Posts
Rows       == {"Create", "Delete"} \X Posts \X (Inboxes \cup {NoInbox})

ASSUME FanoutAssumption ==
    /\ Audience \in [Posts -> {"public", "followers", "direct"}]
    /\ MediaPosts \subseteq Posts
    /\ Mentions \in [Posts -> SUBSET Inboxes]
    /\ InboxOf \in [Actors -> Inboxes]
    /\ Relays \subseteq Inboxes
    /\ NoInbox \notin Inboxes
    /\ {GenericBatch, TargetBatch, ChunkSize, MaxKicks} \subseteq Nat \ {0}
    /\ MaxCrashes \in Nat
    /\ Seen \subseteq Answers
    /\ {StaleBlockView, RunsOutliveLease} \subseteq BOOLEAN
    /\ Movers \subseteq Actors /\ Blockable \subseteq Inboxes
    /\ Retryable \subseteq Rows

Kind(k)  == k[1]
Post(k)  == k[2]
Inbox(k) == k[3]
Generic(k) == Inbox(k) = NoInbox

VARIABLES
    post,       \* post -> where its publishing or deleting handler stands
    row,        \* outbox_deliveries
    followers,  \* the followers table
    blocked,    \* inboxes under a domain block of the account
    leaving,    \* actors unfollowed whose pending rows are not cancelled yet
    kicks,      \* messages in OUTBOX_PROCESS_QUEUE
    pc, batch, plan, jobs, progress, \* per run: step, claimed generic rows,
                \* target rows still to insert, deliveries under way, summary
    received, refused, \* history: rows whose POST reached, was rejected by,
                \* the remote server
    loyal,      \* history: post -> actors entitled to it: following, and not
                \* domain-blocked, at every moment since it was published
    retried,    \* history and bound: rows an administrator retried
    crashes     \* bound

table   == <<post, row>>
people  == <<followers, blocked, leaving>>
workers == <<pc, batch, plan, jobs, progress>>
history == <<received, refused, loyal, retried, crashes>>
vars == <<table, people, kicks, workers, history>>

-----------------------------------------------------------------------------
(* The table.                                                              *)

Absent == [st |-> "absent", att |-> 0, ripe |-> FALSE]
Queued == [st |-> "queued", att |-> 0, ripe |-> TRUE]

(* Mutant: INSERT OR REPLACE, which starts an existing row over.           *)
InsertRows_Replace(S) == [k \in Rows |-> IF k \in S THEN Queued ELSE row[k]]

(* INSERT OR IGNORE of the rows S: an existing key is left as it is.       *)
InsertRows(S) ==
    [k \in Rows |-> IF k \in S /\ row[k].st = "absent" THEN Queued ELSE row[k]]

(* DELETE FROM statuses cascades through the status_id foreign key.        *)
Cascade(rows, p) == [k \in Rows |-> IF Post(k) = p THEN Absent ELSE rows[k]]

(* Mutant: the mark does not ask whether the row is still in flight.       *)
Mark_AnyState(k, st, att) ==
    [row EXCEPT ![k] = [st |-> st, att |-> att, ripe |-> FALSE]]

(* UPDATE ... SET state, attempt_count WHERE id AND state = 'in_flight'.   *)
Mark(k, st, att) ==
    IF row[k].st = "in_flight"
      THEN [row EXCEPT ![k] = [st |-> st, att |-> att, ripe |-> FALSE]]
      ELSE row

Lease(S) ==
    [k \in Rows |-> IF k \in S
                      THEN [row[k] EXCEPT !.st = "in_flight", !.ripe = FALSE]
                      ELSE row[k]]

Due(k) == row[k].st = "queued" /\ row[k].ripe

(* Mutants: any row in flight counts as stale; none ever does.             *)
Stale_AnyInFlight(k) == row[k].st = "in_flight"
Stale_Never(k) == FALSE

Stale(k) == row[k].st = "in_flight" /\ row[k].ripe
PendingWork == \E k \in Rows : Due(k) \/ Stale(k)

(* A claim takes the oldest rows; created_at has second precision, so any  *)
(* choice of that many due rows is one the statement may make.             *)
Claimable(S, limit) ==
    {T \in SUBSET S : Cardinality(T) <= limit /\ (T = S \/ Cardinality(T) = limit)}

HeldBy(r, k) == k \in batch[r] \/ \E j \in jobs[r] : j.row = k
Held(k) == \E r \in Runs : HeldBy(r, k)

(* list_all_account_domain_blocks trusts the cached has_domain_blocks bit. *)
BlockViews == IF StaleBlockView THEN {blocked, {}} ELSE {blocked}

Kicked(n) == IF n < MaxKicks THEN n + 1 ELSE n

-----------------------------------------------------------------------------
Init ==
    /\ post = [p \in Posts |-> "new"]
    /\ row = [k \in Rows |-> Absent]
    /\ followers \in SUBSET Actors
    /\ blocked = {} /\ leaving = {}
    /\ kicks = 0
    /\ pc = [r \in Runs |-> "idle"]
    /\ batch = [r \in Runs |-> {}]
    /\ plan = [r \in Runs |-> {}]
    /\ jobs = [r \in Runs |-> {}]
    /\ progress = [r \in Runs |-> FALSE]
    /\ received = {} /\ refused = {}
    /\ loyal = [p \in Posts |-> {}]
    /\ retried = {}
    /\ crashes = 0

-----------------------------------------------------------------------------
(* The author: publishing and deleting.                                    *)

(* A status with media is stored without its outbox row.                   *)
StoreWithMedia(p) ==
    /\ post[p] = "new" /\ p \in MediaPosts
    /\ post' = [post EXCEPT ![p] = "stored"]
    /\ UNCHANGED <<row, people, kicks, workers, history>>

EntitledNow ==
    {a \in followers : /\ InboxOf[a] \notin blocked
                       /\ \A b \in leaving : InboxOf[b] # InboxOf[a]}

(* The status and its generic row are one batch (with media, the row is a  *)
(* statement of its own after StoreWithMedia); a direct status has none.   *)
Publish(p) ==
    /\ post[p] = IF p \in MediaPosts THEN "stored" ELSE "new"
    /\ post' = [post EXCEPT ![p] = "published"]
    /\ IF Audience[p] = "direct"
         THEN UNCHANGED <<row, loyal>>
         ELSE /\ row' = InsertRows({<<"Create", p, NoInbox>>})
              /\ loyal' = [loyal EXCEPT ![p] = EntitledNow]
    /\ UNCHANGED <<people, kicks, workers, received, refused, retried, crashes>>

Addressed(kind, p, view) == {<<kind, p, i>> : i \in Mentions[p] \ view}

(* Then the explicitly addressed inboxes get a row each.                   *)
EnqueueAddressed(p) ==
    /\ post[p] = "published"
    /\ post' = [post EXCEPT ![p] = "live"]
    /\ \E view \in BlockViews : row' = InsertRows(Addressed("Create", p, view))
    /\ UNCHANGED <<people, kicks, workers, history>>

(* delete_local_status_with_outbox, first half: Delete to the addressed.   *)
EnqueueDeletes(p) ==
    /\ post[p] \in {"stored", "published", "live"}
    /\ post' = [post EXCEPT ![p] = "deleting"]
    /\ \E view \in BlockViews : row' = InsertRows(Addressed("Delete", p, view))
    /\ UNCHANGED <<people, kicks, workers, history>>

(* Second half, one batch: the generic Delete row, then the status itself. *)
DeleteStatus(p) ==
    /\ post[p] = "deleting"
    /\ post' = [post EXCEPT ![p] = "gone"]
    /\ LET inserted == IF Audience[p] = "direct" THEN row
                       ELSE InsertRows({<<"Delete", p, NoInbox>>})
       IN  row' = Cascade(inserted, p)
    /\ loyal' = [loyal EXCEPT ![p] = {}]
    /\ UNCHANGED <<people, kicks, workers, received, refused, retried, crashes>>

-----------------------------------------------------------------------------
(* Followers, domain blocks, the administrator.                            *)

Follow(a) ==
    /\ a \notin followers
    /\ followers' = followers \cup {a}
    /\ UNCHANGED <<table, blocked, leaving, kicks, workers, history>>

(* delete_follower_by_actor: the follower row goes first ...               *)
Unfollow(a) ==
    /\ a \in followers
    /\ followers' = followers \ {a}
    /\ leaving' = leaving \cup {a}
    /\ loyal' = [p \in Posts |-> loyal[p] \ {a}]
    /\ UNCHANGED <<table, blocked, kicks, workers, received, refused, retried, crashes>>

(* ... then every unfinished row to its inbox, whoever else follows there. *)
CancelRows(a) ==
    /\ a \in leaving
    /\ leaving' = leaving \ {a}
    /\ row' = [k \in Rows |->
                IF /\ Inbox(k) = InboxOf[a]
                   /\ row[k].st \in {"queued", "expanded", "in_flight"}
                  THEN [row[k] EXCEPT !.st = "failed", !.ripe = FALSE]
                  ELSE row[k]]
    /\ UNCHANGED <<post, followers, blocked, kicks, workers, history>>

(* The handler dies between the two statements.                            *)
CancelLost(a) ==
    /\ a \in leaving
    /\ leaving' = leaving \ {a}
    /\ UNCHANGED <<table, followers, blocked, kicks, workers, history>>

Block(i) ==
    /\ i \notin blocked
    /\ blocked' = blocked \cup {i}
    /\ loyal' = [p \in Posts |-> {a \in loyal[p] : InboxOf[a] # i}]
    /\ UNCHANGED <<table, followers, leaving, kicks, workers,
                   received, refused, retried, crashes>>

Unblock(i) ==
    /\ i \in blocked
    /\ blocked' = blocked \ {i}
    /\ UNCHANGED <<table, followers, leaving, kicks, workers, history>>

(* retry_outbox_delivery: the attempt count is not reset.                  *)
AdminRetry(k) ==
    /\ k \in Retryable \ retried
    /\ row[k].st = "failed"
    /\ row' = [row EXCEPT ![k].st = "queued", ![k].ripe = TRUE]
    /\ retried' = retried \cup {k}
    /\ UNCHANGED <<post, people, kicks, workers, received, refused, loyal, crashes>>

(* The back-off of a queued row, or the lease of a claimed one, passes.    *)
Age(k) ==
    /\ ~row[k].ripe
    /\ \/ row[k].st = "queued"
       \/ row[k].st = "in_flight" /\ (RunsOutliveLease \/ ~Held(k))
    /\ row' = [row EXCEPT ![k].ripe = TRUE]
    /\ UNCHANGED <<post, people, kicks, workers, history>>

(* A kick after a write request, from POST /internal/outbox/process or the *)
(* hourly cron; each sends a message only if there is work.                *)
Kick ==
    /\ PendingWork
    /\ kicks < MaxKicks
    /\ kicks' = kicks + 1
    /\ UNCHANGED <<table, people, workers, history>>

-----------------------------------------------------------------------------
(* One run of the queue consumer.                                          *)

(* A batch of messages is taken; without pending work it is acknowledged.  *)
Start(r) ==
    /\ pc[r] = "idle"
    /\ \E n \in 1 .. kicks : kicks' = kicks - n
    /\ pc' = [pc EXCEPT ![r] = IF PendingWork THEN "requeue" ELSE "idle"]
    /\ UNCHANGED <<table, people, batch, plan, jobs, progress, history>>

(* requeue_stale_in_flight_outbox_deliveries                               *)
RequeueStale(r) ==
    /\ pc[r] = "requeue"
    /\ row' = [k \in Rows |->
                IF ~Stale(k) THEN row[k]
                ELSE LET next == NextAttempt(row[k].att)
                     IN  IF IsTerminal(next)
                           THEN [st |-> "failed", att |-> next, ripe |-> FALSE]
                           ELSE [st |-> "queued", att |-> next, ripe |-> TRUE]]
    /\ pc' = [pc EXCEPT ![r] = "claim"]
    /\ UNCHANGED <<post, people, kicks, batch, plan, jobs, progress, history>>

ClaimGeneric(r) ==
    /\ pc[r] = "claim"
    /\ \E T \in Claimable({k \in Rows : Due(k) /\ Generic(k)}, GenericBatch) :
         /\ row' = Lease(T)
         /\ batch' = [batch EXCEPT ![r] = T]
         /\ pc' = [pc EXCEPT ![r] = IF T = {} THEN "targets" ELSE "plan"]
    /\ UNCHANGED <<post, people, kicks, plan, jobs, progress, history>>

(* outbox_payload_is_public_relay_candidate                                *)
RelayCandidate(k) == Kind(k) = "Delete" \/ Audience[Post(k)] = "public"

(* The targets are gathered per account, not per row: the relays join all  *)
(* the rows of the account as soon as one of them is a relay candidate.    *)
FanoutTargets(claimed, view) ==
    ({InboxOf[a] : a \in followers} \ view)
    \cup (IF \E k \in claimed : RelayCandidate(k) THEN Relays ELSE {})

Copies(claimed, targets) ==
    {<<Kind(k), Post(k), i>> : k \in claimed, i \in targets}

PlanExpansion(r) ==
    /\ pc[r] = "plan"
    /\ \E view \in BlockViews :
         LET targets == FanoutTargets(batch[r], view)
         IN  /\ plan' = [plan EXCEPT ![r] = Copies(batch[r], targets)]
             /\ pc' = [pc EXCEPT ![r] = IF targets = {} THEN "complete" ELSE "expand"]
    /\ UNCHANGED <<table, people, kicks, batch, jobs, progress, history>>

(* mark_outbox_deliveries_completed_without_targets has no guard on state. *)
MarkCompleted(r) ==
    /\ pc[r] = "complete"
    /\ row' = [k \in Rows |->
                IF k \in batch[r] /\ row[k].st # "absent"
                  THEN [row[k] EXCEPT !.st = "delivered", !.ripe = FALSE]
                  ELSE row[k]]
    /\ progress' = [progress EXCEPT ![r] = TRUE]
    /\ batch' = [batch EXCEPT ![r] = {}]
    /\ pc' = [pc EXCEPT ![r] = "targets"]
    /\ UNCHANGED <<post, people, kicks, plan, jobs, history>>

Chunks(r) == {C \in SUBSET plan[r] :
                /\ C # {}
                /\ Cardinality(C) <= ChunkSize
                /\ C = plan[r] \/ Cardinality(C) = ChunkSize}

Inserts(C) == \A k \in C : post[Post(k)] # "gone"

ExpandChunk(r) ==
    /\ pc[r] = "expand"
    /\ \E C \in Chunks(r) :
         /\ Inserts(C)
         /\ row' = InsertRows(C)
         /\ plan' = [plan EXCEPT ![r] = @ \ C]
    /\ UNCHANGED <<post, people, kicks, pc, batch, jobs, progress, history>>

(* Mutant: the row is closed without waiting for all its chunks.           *)
AllInserted_Early(r) == TRUE

AllInserted(r) == plan[r] = {}

(* mark_outbox_deliveries_expanded                                         *)
FinishExpansion(r) ==
    /\ pc[r] = "expand" /\ AllInserted(r)
    /\ row' = [k \in Rows |->
                IF k \in batch[r] /\ row[k].st = "in_flight"
                  THEN [row[k] EXCEPT !.st = "expanded", !.ripe = FALSE]
                  ELSE row[k]]
    /\ progress' = [progress EXCEPT ![r] = TRUE]
    /\ batch' = [batch EXCEPT ![r] = {}]
    /\ pc' = [pc EXCEPT ![r] = "targets"]
    /\ plan' = [plan EXCEPT ![r] = {}]
    /\ UNCHANGED <<post, people, kicks, jobs, history>>

(* A job carries the attempt count its claim returned.                     *)
ClaimTargets(r) ==
    /\ pc[r] = "targets"
    /\ \E T \in Claimable({k \in Rows : Due(k) /\ ~Generic(k)}, TargetBatch) :
         /\ row' = Lease(T)
         /\ jobs' = [jobs EXCEPT ![r] =
                      {[row |-> k, att |-> row[k].att, ph |-> "claimed"] : k \in T}]
    /\ pc' = [pc EXCEPT ![r] = "check"]
    /\ UNCHANGED <<post, people, kicks, batch, plan, progress, history>>

(* The account's domain blocks are read once per run.                      *)
CheckBlocks(r) ==
    /\ pc[r] = "check"
    /\ \E view \in BlockViews :
         jobs' = [jobs EXCEPT ![r] =
                   {[j EXCEPT !.ph = IF Inbox(j.row) \in view THEN "blocked" ELSE "todo"]
                      : j \in jobs[r]}]
    /\ pc' = [pc EXCEPT ![r] = "send"]
    /\ UNCHANGED <<table, people, kicks, batch, plan, progress, history>>

Close(r, j, st, att) ==
    /\ row' = Mark(j.row, st, att)
    /\ jobs' = [jobs EXCEPT ![r] = @ \ {j}]
    /\ progress' = [progress EXCEPT ![r] = @ \/ row[j.row].st = "in_flight"]

(* Blocked deliveries are failed before the first POST goes out.           *)
FailBlocked(r) ==
    /\ pc[r] = "send"
    /\ \E j \in jobs[r] : j.ph = "blocked" /\ Close(r, j, "failed", NextAttempt(j.att))
    /\ UNCHANGED <<post, people, kicks, pc, batch, plan, history>>

(* send_signed_activity: the POSTs of a run overlap.                       *)
Send(r) ==
    /\ pc[r] = "send"
    /\ \A j \in jobs[r] : j.ph # "blocked"
    /\ \E j \in jobs[r], answer \in Seen :
         /\ j.ph = "todo"
         /\ jobs' = [jobs EXCEPT ![r] = (@ \ {j}) \cup {[j EXCEPT !.ph = OutcomeOf(answer)]}]
         /\ received' = IF Reaches(answer) THEN received \cup {j.row} ELSE received
         /\ refused' = IF answer = "rejected" THEN refused \cup {j.row} ELSE refused
    /\ UNCHANGED <<table, people, kicks, pc, batch, plan, progress, loyal, retried, crashes>>

(* mark_outbox_delivery_delivered leaves the attempt count alone.          *)
RecordOutcome(r) ==
    /\ pc[r] = "send"
    /\ \E j \in jobs[r] :
         /\ j.ph \in Outcomes
         /\ LET next == NextAttempt(j.att)
            IN  Close(r, j, StateAfter(next, j.ph),
                      IF j.ph = "ok" THEN row[j.row].att ELSE next)
    /\ UNCHANGED <<post, people, kicks, pc, batch, plan, history>>

(* The run ends; it kicks a continuation if it got anything done and work  *)
(* is pending, and that message may fail to be sent.                       *)
FinishRun(r) ==
    /\ pc[r] = "send" /\ jobs[r] = {}
    /\ kicks' \in IF progress[r] /\ PendingWork THEN {kicks, Kicked(kicks)} ELSE {kicks}
    /\ pc' = [pc EXCEPT ![r] = "idle"]
    /\ progress' = [progress EXCEPT ![r] = FALSE]
    /\ UNCHANGED <<table, people, batch, plan, jobs, history>>

(* The run stops where it stands: its rows stay in flight.  The messages   *)
(* are retried, or dropped once max_retries is used up.                    *)
Stop(r) ==
    /\ kicks' \in {kicks, Kicked(kicks)}
    /\ pc' = [pc EXCEPT ![r] = "idle"]
    /\ batch' = [batch EXCEPT ![r] = {}]
    /\ plan' = [plan EXCEPT ![r] = {}]
    /\ jobs' = [jobs EXCEPT ![r] = {}]
    /\ progress' = [progress EXCEPT ![r] = FALSE]

Crash(r) ==
    /\ pc[r] # "idle"
    /\ crashes < MaxCrashes
    /\ crashes' = crashes + 1
    /\ Stop(r)
    /\ UNCHANGED <<table, people, received, refused, loyal, retried>>

(* OR IGNORE does not cover a foreign key: inserting a row of a status     *)
(* that is gone fails the statement, and the run with it.                  *)
ExpandFails(r) ==
    /\ pc[r] = "expand"
    /\ \E C \in Chunks(r) : ~Inserts(C)
    /\ Stop(r)
    /\ UNCHANGED <<table, people, history>>

-----------------------------------------------------------------------------
RunStep(r) ==
    \/ RequeueStale(r) \/ ClaimGeneric(r) \/ PlanExpansion(r) \/ MarkCompleted(r)
    \/ ExpandChunk(r) \/ ExpandFails(r) \/ FinishExpansion(r)
    \/ ClaimTargets(r) \/ CheckBlocks(r) \/ FailBlocked(r) \/ Send(r)
    \/ RecordOutcome(r) \/ FinishRun(r)

AuthorStep(p) ==
    \/ StoreWithMedia(p) \/ Publish(p) \/ EnqueueAddressed(p)
    \/ EnqueueDeletes(p) \/ DeleteStatus(p)

FollowerStep(a) == Follow(a) \/ Unfollow(a) \/ CancelRows(a) \/ CancelLost(a)

Next ==
    \/ \E p \in Posts : AuthorStep(p)
    \/ \E a \in Movers : FollowerStep(a)
    \/ \E i \in Blockable : Block(i) \/ Unblock(i)
    \/ \E k \in Rows : AdminRetry(k) \/ Age(k)
    \/ Kick
    \/ \E r \in Runs : Start(r) \/ RunStep(r) \/ Crash(r)

Spec == Init /\ [][Next]_vars

(* Time passes, the hourly cron fires, the queue delivers its messages and *)
(* a run that is not stopped goes on.  Nobody has to publish or follow.    *)
FairSpec ==
    /\ Spec
    /\ WF_vars(Kick)
    /\ \A k \in Rows : WF_vars(Age(k))
    /\ \A r \in Runs : WF_vars(Start(r)) /\ WF_vars(RunStep(r))

-----------------------------------------------------------------------------
Steps == {"idle", "requeue", "claim", "plan", "complete", "expand",
          "targets", "check", "send"}

TypeOK ==
    /\ post \in [Posts -> {"new", "stored", "published", "live", "deleting", "gone"}]
    /\ row \in [Rows -> [st : {"absent", "queued", "in_flight", "expanded",
                               "delivered", "failed"},
                         att : Nat, ripe : BOOLEAN]]
    /\ followers \subseteq Actors
    /\ blocked \subseteq Inboxes
    /\ leaving \subseteq Actors
    /\ kicks \in 0 .. MaxKicks
    /\ pc \in [Runs -> Steps]
    /\ batch \in [Runs -> SUBSET Rows]
    /\ plan \in [Runs -> SUBSET Rows]
    /\ jobs \in [Runs -> SUBSET [row : Rows, att : Nat,
                                 ph : {"claimed", "blocked", "todo"} \cup Outcomes]]
    /\ progress \in [Runs -> BOOLEAN]
    /\ received \subseteq Rows
    /\ refused \subseteq Rows
    /\ loyal \in [Posts -> SUBSET Actors]
    /\ retried \subseteq Rows
    /\ crashes \in 0 .. MaxCrashes

(* Whoever has been entitled to a post since it was published has a row of *)
(* his own by the time the generic row is closed, although the follower    *)
(* list is read once, long before the chunks are inserted, the generic row *)
(* may be requeued and expanded again, and rows are cancelled meanwhile.   *)
NoFollowerSkipped ==
    \A p \in Posts : \A a \in loyal[p] :
        row[<<"Create", p, NoInbox>>].st \in {"expanded", "delivered"}
            => row[<<"Create", p, InboxOf[a]>>].st # "absent"

(* A delivery is marked delivered only if its POST reached the inbox,      *)
(* whichever run marks it and however late (mark_outbox_delivery_delivered *)
(* and mark_outbox_deliveries_completed_without_targets).                  *)
DeliveredWasReceived ==
    \A k \in Rows : row[k].st = "delivered" /\ ~Generic(k) => k \in received

(* What waits in the queue still has an attempt left, unless an            *)
(* administrator put it back (is_delivery_terminal, requeue_stale).        *)
QueuedHasBudget ==
    \A k \in Rows : row[k].st = "queued" => row[k].att < MaxAttempts \/ k \in retried

(* As long as no run outlives the lease of what it claimed, no two runs    *)
(* work on one row at a time, except on one an administrator put back      *)
(* while a run still held it (the claims' WHERE state = 'queued').         *)
LeaseIsExclusive ==
    ~RunsOutliveLease =>
        \A q, r \in Runs : \A k \in Rows :
            HeldBy(q, k) /\ HeldBy(r, k) => q = r \/ k \in retried

(* A delivered row is never sent again: it stays delivered until its       *)
(* status is deleted, whatever late runs, cancellations and retries do.    *)
DeliveredIsFinal ==
    [][\A k \in Rows : row[k].st = "delivered" => row'[k].st \in {"delivered", "absent"}]_vars

(* The attempt count is never set back, so a row cannot be retried for     *)
(* ever; late runs may break this, so RunsOutliveLease is excluded.        *)
AttemptsOnlyGrow ==
    [][~RunsOutliveLease =>
        \A k \in Rows : \/ row'[k].att >= row[k].att
                        \/ row'[k].st = "absent"
                        \/ k \in retried]_vars

(* A delivery to an entitled follower fails only after MaxAttempts tries,  *)
(* or because the remote server rejected it (DeliveryAttemptOutcome).      *)
LoyalFollowerNotAbandoned ==
    \A p \in Posts : \A a \in loyal[p] :
        LET k == <<"Create", p, InboxOf[a]>>
        IN  row[k].st = "failed" => row[k].att >= MaxAttempts \/ k \in refused

(* Deleting a status that was fanned out leaves a Delete to fan out.       *)
DeleteIsEnqueued ==
    \A p \in Posts : post[p] = "gone" /\ Audience[p] # "direct"
                        => row[<<"Delete", p, NoInbox>>].st # "absent"

(* No row of a post that is not a relay candidate is addressed to a relay. *)
OnlyPublicReachesRelays ==
    \A k \in Rows : Inbox(k) \in Relays /\ row[k].st # "absent" => RelayCandidate(k)

(* Every entitled follower's delivery is settled one way or the other,     *)
(* though kicks and continuations get lost and runs die: the hourly cron   *)
(* and the lease expiry pick up whatever is left.                          *)
EveryFollowerServed ==
    \A p \in Posts, a \in Actors :
        a \in loyal[p] ~> \/ a \notin loyal[p]
                         \/ row[<<"Create", p, InboxOf[a]>>].st \in {"delivered", "failed"}
                         \/ row[<<"Create", p, NoInbox>>].st = "failed"
=============================================================================
