--------------------------- MODULE OutboundFollow ----------------------------
(***************************************************************************)
(* Following one remote actor: the follows row of one local account, the   *)
(* Follow and Undo activities queued for the actor in outbound_activities  *)
(* (src/crates/cfwdon-worker/src/relationships.rs, delivery/outbound.rs),  *)
(* the consumer runs that deliver them (delivery/process_batch.rs,         *)
(* delivery/outbound_state.rs) and the Accept or Reject the remote server  *)
(* sends back (inbox/follow_handlers.rs, relationship/remote.rs).          *)
(*                                                                         *)
(* Every activity has an id of its own, drawn in order from Ids.  A step   *)
(* is one D1 statement or one signed POST.  Rows of other account pairs    *)
(* share nothing with these but the claim's limit, and the other half of a *)
(* run, with the messages that start it, is OutboxFanout.  Time is         *)
(* abstracted to `ripe' as there.                                          *)
(***************************************************************************)
EXTENDS DeliveryRules, FiniteSets

CONSTANTS
    Clients,          \* API requests of the account that may overlap
    Runs,             \* concurrent queue-consumer runs
    MaxIds,           \* bound: activities the account creates
    ClaimLimit,       \* rows claimed per run, 32 in the code
    Seen,             \* answers the environment gives to a POST
    RunsOutliveLease, \* TRUE if a run may still be going when its lease ends
    MayBlock,         \* bound: TRUE if the account blocks the actor's domain
    Retryable,        \* bound: activities an administrator retries, once each
    MaxCrashes        \* bound: runs and requests that die half way

Ids == 1 .. MaxIds

ASSUME FollowAssumption ==
    /\ {MaxIds, ClaimLimit} \subseteq Nat \ {0}
    /\ Seen \subseteq Answers
    /\ {RunsOutliveLease, MayBlock} \subseteq BOOLEAN
    /\ Retryable \subseteq Ids
    /\ MaxCrashes \in Nat

VARIABLES
    follow,    \* the follows row: activity id and state
    row,       \* outbound_activities
    used,      \* activity ids generated so far
    client,    \* per request: its next step and the Follow id it carries
    blocked,   \* the account blocks the actor's domain
    pc, jobs, owed, \* per run: step, deliveries under way, Follows whose
               \* terminal failure is not carried over to follows yet
    reached,   \* history: activities the remote server has processed
    heard,     \* history: answers <<Follow id, answer>> that came in
    assumed,   \* history: Follows recorded as accepted without an answer
    missed,    \* history: Follows whose failure was not carried over: the
               \* follows row was not written yet, or the run died
    retried,   \* history and bound: rows an administrator retried
    crashes    \* bound

requests == <<follow, used, client>>
workers  == <<pc, jobs, owed>>
history  == <<reached, heard, assumed, missed>>
limits   == <<retried, crashes>>
vars == <<requests, row, blocked, workers, history, limits>>

-----------------------------------------------------------------------------
NoFollow == [id |-> 0, st |-> "none"]
NoRow == [type |-> "none", st |-> "absent", att |-> 0, ripe |-> FALSE]
Idle == [at |-> "idle", id |-> 0]

(* enqueue_outbound_activity: the id is fresh, so nothing is overwritten.  *)
Enqueue(n, type) ==
    row' = [row EXCEPT ![n] = [type |-> type, st |-> "queued", att |-> 0, ripe |-> TRUE]]

(* UPDATE ... SET state, attempt_count WHERE id AND state = 'in_flight'.   *)
Mark(n, st, att) ==
    IF row[n].st = "in_flight"
      THEN [row EXCEPT ![n].st = st, ![n].att = att, ![n].ripe = FALSE]
      ELSE row

Due(n) == row[n].st = "queued" /\ row[n].ripe

(* Mutant: nothing is ever stale.                                          *)
Stale_Never(n) == FALSE

Stale(n) == row[n].st = "in_flight" /\ row[n].ripe

Held(n) == \E r \in Runs : \E j \in jobs[r] : j.id = n

(* list_all_account_domain_blocks trusts a cached bit saying "no blocks".  *)
BlockViews == {blocked, FALSE}

-----------------------------------------------------------------------------
Init ==
    /\ follow = NoFollow
    /\ row = [n \in Ids |-> NoRow]
    /\ used = 0
    /\ client = [c \in Clients |-> Idle]
    /\ blocked = FALSE
    /\ pc = [r \in Runs |-> "idle"]
    /\ jobs = [r \in Runs |-> {}]
    /\ owed = [r \in Runs |-> {}]
    /\ reached = {} /\ heard = {} /\ assumed = {} /\ missed = {} /\ retried = {}
    /\ crashes = 0

-----------------------------------------------------------------------------
(* POST /api/v1/accounts/:id/follow and /unfollow.                         *)

(* follow_remote_account queues the Follow first (a domain seen as blocked *)
(* is an error) ...                                                        *)
QueueFollow(c) ==
    /\ client[c] = Idle
    /\ FALSE \in BlockViews /\ used < MaxIds
    /\ used' = used + 1
    /\ Enqueue(used', "Follow")
    /\ client' = [client EXCEPT ![c] = [at |-> "upsert", id |-> used']]
    /\ UNCHANGED <<follow, blocked, workers, history, limits>>

(* ... and then writes the follows row, replacing id and state of an       *)
(* earlier one; an unlocked actor counts as having accepted.               *)
UpsertFollow(c) ==
    /\ client[c].at = "upsert"
    /\ \E locked \in BOOLEAN :
         /\ follow' = [id |-> client[c].id,
                       st |-> IF locked THEN "pending" ELSE "accepted"]
         /\ assumed' = IF locked THEN assumed ELSE assumed \cup {client[c].id}
    /\ client' = [client EXCEPT ![c] = Idle]
    /\ UNCHANGED <<row, used, blocked, workers, reached, heard, missed, limits>>

(* unfollow_remote_account reads the Follow's id ...                       *)
LoadFollow(c) ==
    /\ client[c] = Idle
    /\ client' = [client EXCEPT ![c] =
                    [at |-> IF follow.id = 0 THEN "delete" ELSE "undo", id |-> follow.id]]
    /\ UNCHANGED <<follow, row, used, blocked, workers, history, limits>>

(* ... queues an Undo of it, except for a blocked domain ...               *)
QueueUndo(c) ==
    /\ client[c].at = "undo"
    /\ \/ blocked /\ UNCHANGED <<row, used>>
       \/ /\ FALSE \in BlockViews /\ used < MaxIds
          /\ used' = used + 1
          /\ Enqueue(used', "Undo")
    /\ client' = [client EXCEPT ![c].at = "delete"]
    /\ UNCHANGED <<follow, blocked, workers, history, limits>>

(* ... and deletes whatever follows row there is by now.  The Follow stays *)
(* in the queue.                                                           *)
DeleteFollow(c) ==
    /\ client[c].at = "delete"
    /\ follow' = NoFollow
    /\ client' = [client EXCEPT ![c] = Idle]
    /\ UNCHANGED <<row, used, blocked, workers, history, limits>>

(* The request dies between two of its statements.                         *)
ClientDies(c) ==
    /\ client[c] # Idle
    /\ crashes < MaxCrashes
    /\ crashes' = crashes + 1
    /\ client' = [client EXCEPT ![c] = Idle]
    /\ UNCHANGED <<follow, row, used, blocked, workers, history, retried>>

ToggleBlock ==
    /\ MayBlock
    /\ blocked' = ~blocked
    /\ UNCHANGED <<requests, row, workers, history, limits>>

-----------------------------------------------------------------------------
(* Mutant: the answer is taken to be to the follow there is.               *)
Answered_AnyFollow(n, answer) ==
    IF follow.id # 0 THEN [follow EXCEPT !.st = answer] ELSE follow

(* update_follow_state_from_response: whatever the row's state is.         *)
Answered(n, answer) ==
    IF follow.id = n THEN [follow EXCEPT !.st = answer] ELSE follow

(* An Accept or Reject of a Follow the remote server has got comes in: at  *)
(* any time, in any order, and again if it chooses to send another.        *)
Hear(n, answer) ==
    /\ n \in reached /\ row[n].type = "Follow"
    /\ heard' = heard \cup {<<n, answer>>}
    /\ follow' = Answered(n, answer)
    /\ UNCHANGED <<row, used, client, blocked, workers, reached, assumed, missed, limits>>

(* retry_outbound_delivery: neither the attempt count nor the follows row  *)
(* is touched.                                                             *)
AdminRetry(n) ==
    /\ n \in Retryable \ retried
    /\ row[n].st = "failed"
    /\ row' = [row EXCEPT ![n].st = "queued", ![n].ripe = TRUE]
    /\ retried' = retried \cup {n}
    /\ UNCHANGED <<requests, blocked, workers, history, crashes>>

(* The back-off of a queued row, or the lease of a claimed one, passes.    *)
Age(n) ==
    /\ ~row[n].ripe
    /\ \/ row[n].st = "queued"
       \/ row[n].st = "in_flight" /\ (RunsOutliveLease \/ ~Held(n))
    /\ row' = [row EXCEPT ![n].ripe = TRUE]
    /\ UNCHANGED <<requests, blocked, workers, history, limits>>

-----------------------------------------------------------------------------
(* One run of the queue consumer.                                          *)

Start(r) ==
    /\ pc[r] = "idle"
    /\ \E n \in Ids : Due(n) \/ Stale(n)
    /\ pc' = [pc EXCEPT ![r] = "requeue"]
    /\ UNCHANGED <<requests, row, blocked, jobs, owed, history, limits>>

(* Mutant: a stale row is always put back.                                 *)
Requeued_Always(next) == [st |-> "queued", ripe |-> TRUE]

Requeued(next) == IF IsTerminal(next) THEN [st |-> "failed", ripe |-> FALSE]
                                      ELSE [st |-> "queued", ripe |-> TRUE]

(* outbound_terminal_failure_follow_state: only Follows have a follows row.*)
FollowsAmong(S) == {n \in S : row[n].type = "Follow"}

(* Mutants: every requeued row is reported; none is.                       *)
Reported_All == FollowsAmong({n \in Ids : Stale(n)})
Reported_None == {}

(* The rows RETURNING state = 'failed' whose follows row is to be told.    *)
Reported ==
    FollowsAmong({n \in Ids : Stale(n) /\ IsTerminal(NextAttempt(row[n].att))})

(* requeue_stale_in_flight_outbound_activities                             *)
RequeueStale(r) ==
    /\ pc[r] = "requeue"
    /\ row' = [n \in Ids |->
                IF ~Stale(n) THEN row[n]
                ELSE LET next == NextAttempt(row[n].att)
                     IN  [row[n] EXCEPT !.st = Requeued(next).st, !.att = next,
                                        !.ripe = Requeued(next).ripe]]
    /\ owed' = [owed EXCEPT ![r] = Reported]
    /\ pc' = [pc EXCEPT ![r] = "claim"]
    /\ UNCHANGED <<requests, blocked, jobs, history, limits>>

(* Mutant: an answered follow fails as well.                               *)
FailedFollow_AnyState(n) ==
    IF follow.id = n THEN [follow EXCEPT !.st = "failed"] ELSE follow

(* UPDATE follows ... WHERE follow_activity_id AND state = 'pending'.      *)
FailedFollow(n) ==
    IF follow.id = n /\ follow.st = "pending"
      THEN [follow EXCEPT !.st = "failed"] ELSE follow

(* reconcile_follow_state_for_terminal_outbound, whether or not the mark   *)
(* before it found its row in flight.                                      *)
Reconcile(r) ==
    /\ \E n \in owed[r] :
         /\ owed' = [owed EXCEPT ![r] = @ \ {n}]
         /\ follow' = FailedFollow(n)
         /\ missed' = IF follow.id = n THEN missed ELSE missed \cup {n}
    /\ UNCHANGED <<row, used, client, blocked, pc, jobs, reached, heard, assumed, limits>>

Claimable(S) == {T \in SUBSET S : /\ Cardinality(T) <= ClaimLimit
                                  /\ T = S \/ Cardinality(T) = ClaimLimit}

(* claim_pending_outbound_activities                                       *)
Claim(r) ==
    /\ pc[r] = "claim" /\ owed[r] = {}
    /\ \E T \in Claimable({n \in Ids : Due(n)}) :
         /\ row' = [n \in Ids |-> IF n \in T
                                    THEN [row[n] EXCEPT !.st = "in_flight", !.ripe = FALSE]
                                    ELSE row[n]]
         /\ jobs' = [jobs EXCEPT ![r] =
                      {[id |-> n, att |-> row[n].att, ph |-> "claimed"] : n \in T}]
    /\ pc' = [pc EXCEPT ![r] = "check"]
    /\ UNCHANGED <<requests, blocked, owed, history, limits>>

(* The account's domain blocks are read once per run.                      *)
CheckBlocks(r) ==
    /\ pc[r] = "check"
    /\ \E view \in BlockViews :
         jobs' = [jobs EXCEPT ![r] =
                   {[j EXCEPT !.ph = IF view THEN "blocked" ELSE "todo"] : j \in jobs[r]}]
    /\ pc' = [pc EXCEPT ![r] = "send"]
    /\ UNCHANGED <<requests, row, blocked, owed, history, limits>>

(* Mark the row and, after a terminal failure, owe the follows row the     *)
(* news; results are worked off one at a time.                             *)
Close(r, j, st, att) ==
    /\ owed[r] = {}
    /\ row' = Mark(j.id, st, att)
    /\ jobs' = [jobs EXCEPT ![r] = @ \ {j}]
    /\ owed' = [owed EXCEPT ![r] = IF st = "failed" THEN FollowsAmong({j.id}) ELSE {}]

FailBlocked(r) ==
    /\ pc[r] = "send"
    /\ \E j \in jobs[r] : j.ph = "blocked" /\ Close(r, j, "failed", NextAttempt(j.att))
    /\ UNCHANGED <<requests, blocked, pc, history, limits>>

(* send_signed_activity                                                    *)
Send(r) ==
    /\ pc[r] = "send"
    /\ \E j \in jobs[r], answer \in Seen :
         /\ j.ph = "todo"
         /\ jobs' = [jobs EXCEPT ![r] = (@ \ {j}) \cup {[j EXCEPT !.ph = OutcomeOf(answer)]}]
         /\ reached' = IF Reaches(answer) THEN reached \cup {j.id} ELSE reached
    /\ UNCHANGED <<requests, row, blocked, pc, owed, heard, assumed, missed, limits>>

(* mark_outbound_activity_delivered leaves the attempt count alone.        *)
RecordOutcome(r) ==
    /\ pc[r] = "send"
    /\ \E j \in jobs[r] :
         /\ j.ph \in Outcomes
         /\ LET next == NextAttempt(j.att)
            IN  Close(r, j, StateAfter(next, j.ph),
                      IF j.ph = "ok" THEN row[j.id].att ELSE next)
    /\ UNCHANGED <<requests, blocked, pc, history, limits>>

FinishRun(r) ==
    /\ pc[r] = "send" /\ jobs[r] = {} /\ owed[r] = {}
    /\ pc' = [pc EXCEPT ![r] = "idle"]
    /\ UNCHANGED <<requests, row, blocked, jobs, owed, history, limits>>

(* The run dies where it stands; what it owed to follows is never told.    *)
RunDies(r) ==
    /\ pc[r] # "idle"
    /\ crashes < MaxCrashes
    /\ crashes' = crashes + 1
    /\ pc' = [pc EXCEPT ![r] = "idle"]
    /\ jobs' = [jobs EXCEPT ![r] = {}]
    /\ owed' = [owed EXCEPT ![r] = {}]
    /\ missed' = missed \cup owed[r]
    /\ UNCHANGED <<requests, row, blocked, reached, heard, assumed, retried>>

-----------------------------------------------------------------------------
ClientStep(c) ==
    \/ QueueFollow(c) \/ UpsertFollow(c) \/ LoadFollow(c)
    \/ QueueUndo(c) \/ DeleteFollow(c) \/ ClientDies(c)

RunStep(r) ==
    \/ RequeueStale(r) \/ Reconcile(r) \/ Claim(r) \/ CheckBlocks(r)
    \/ FailBlocked(r) \/ Send(r) \/ RecordOutcome(r) \/ FinishRun(r)

Next ==
    \/ \E c \in Clients : ClientStep(c)
    \/ ToggleBlock
    \/ \E n \in Ids : AdminRetry(n) \/ Age(n) \/ Hear(n, "accepted") \/ Hear(n, "rejected")
    \/ \E r \in Runs : Start(r) \/ RunStep(r) \/ RunDies(r)

Spec == Init /\ [][Next]_vars

(* Time passes, the hourly cron starts a run when there is work, and a run *)
(* that is not stopped goes on.  Nobody has to follow or to answer.        *)
FairSpec ==
    /\ Spec
    /\ \A n \in Ids : WF_vars(Age(n))
    /\ \A r \in Runs : WF_vars(Start(r)) /\ WF_vars(RunStep(r))

-----------------------------------------------------------------------------
TypeOK ==
    /\ follow \in [id : {0} \cup Ids,
                   st : {"none", "pending", "accepted", "rejected", "failed"}]
    /\ follow.id = 0 => follow = NoFollow
    /\ row \in [Ids -> [type : {"none", "Follow", "Undo"},
                        st : {"absent", "queued", "in_flight", "delivered", "failed"},
                        att : Nat, ripe : BOOLEAN]]
    /\ used \in 0 .. MaxIds
    /\ client \in [Clients -> [at : {"idle", "upsert", "undo", "delete"}, id : {0} \cup Ids]]
    /\ \A c \in Clients : client[c].at = "upsert" => client[c].id # 0
    /\ blocked \in BOOLEAN
    /\ pc \in [Runs -> {"idle", "requeue", "claim", "check", "send"}]
    /\ jobs \in [Runs -> SUBSET [id : Ids, att : Nat,
                                 ph : {"claimed", "blocked", "todo"} \cup Outcomes]]
    /\ owed \in [Runs -> SUBSET Ids]
    /\ reached \subseteq Ids
    /\ heard \subseteq Ids \X {"accepted", "rejected"}
    /\ assumed \subseteq Ids /\ missed \subseteq Ids /\ retried \subseteq Ids
    /\ crashes \in 0 .. MaxCrashes

(* A follow counts as accepted or rejected only on an answer to the very   *)
(* Follow it stands for: a late answer to an earlier Follow of the same    *)
(* actor, withdrawn or replaced since, does not decide the present one     *)
(* (find_follow_by_activity_id).                                           *)
AnswerIsToThisFollow ==
    /\ follow.st = "accepted" => \/ follow.id \in assumed
                                 \/ <<follow.id, "accepted">> \in heard
    /\ follow.st = "rejected" => <<follow.id, "rejected">> \in heard

(* Once the remote actor has answered, giving up on the Follow's delivery  *)
(* does not turn the answer into a failure: the POST may have got through  *)
(* although its response was lost and its retries ran out (the state =     *)
(* 'pending' of reconcile_follow_state_for_terminal_outbound).             *)
AnswerIsKept ==
    [][follow.st \in {"accepted", "rejected"} /\ follow'.id = follow.id
         => follow'.st # "failed"]_vars

(* A follow is shown as failed only while its Follow activity has failed   *)
(* for good, so nothing is still being sent behind the user's back; but an *)
(* administrator's retry does send it, and leaves the follow as it is; and *)
(* a run that outlives its lease may report a failure that is none         *)
(* (reconcile_follow_state_for_terminal_outbound after an ignored mark).   *)
FailedFollowIsTerminal ==
    ~RunsOutliveLease /\ follow.st = "failed"
        => row[follow.id].st = "failed" \/ follow.id \in retried

(* A pending follow whose Follow has failed for good is about to be told,  *)
(* by the run that failed it.                                              *)
Told(n) == \E r \in Runs : n \in owed[r]
FailureReachesFollow ==
    follow.st = "pending" /\ row[follow.id].st = "failed" => Told(follow.id)

(* The only ways for a failure to get lost are a run that dies between the *)
(* two statements and a run that is done before the request has written    *)
(* the follows row; no other order of steps loses one.                     *)
OnlyMissedFailuresLinger ==
    follow.st = "pending" /\ row[follow.id].st = "failed"
        => Told(follow.id) \/ follow.id \in missed

(* What waits in the queue still has an attempt left, unless an            *)
(* administrator put it back.                                              *)
QueuedHasBudget ==
    \A n \in Ids : row[n].st = "queued" => row[n].att < MaxAttempts \/ n \in retried

(* Every activity queued for the actor is settled one way or the other,    *)
(* although a run may die with it, a run claims only so many rows and      *)
(* follows, unfollows and answers go on meanwhile.                         *)
EveryActivitySettled ==
    \A n \in Ids : row[n].st = "queued" ~> row[n].st \in {"delivered", "failed"}
=============================================================================
