--------------------------- MODULE BackgroundJobs ----------------------------
(***************************************************************************)
(* The background_jobs table, the invocations that work it off             *)
(* (src/crates/cfwdon-worker/src/background_jobs.rs) and the job that      *)
(* matters most to what users see: card_unfurl, which fetches the page a   *)
(* status links to and overwrites the status's preview card, while its     *)
(* author goes on editing (statuses/status_insert.rs, status_update.rs).   *)
(*                                                                         *)
(* A job is known by its payload; Notes stand for the payloads that are    *)
(* enqueued and then run at once after the response (deferred.rs).  A step *)
(* is one D1 statement or one fetch.  A run works its batch serially, so a *)
(* row claimed with the batch may wait longer than its lease.              *)
(***************************************************************************)
EXTENDS Integers, FiniteSets

CONSTANTS
    Statuses,         \* local statuses with a preview card
    Notes,            \* remote statuses whose arrival is to be notified
    MaxRows,          \* bound: job rows ever inserted for one status
    Runs,             \* concurrent invocations that run jobs
    MaxAttempts,      \* MAX_ATTEMPTS, 5 in the code
    Batch,            \* rows claimed per run, 48 or 32 in the code
    MaxEdits,         \* bound: revisions of one status
    Outlivable,       \* rows a run may go on with after they were reclaimed
    Retryable         \* bound: rows an administrator retries, once each

Payloads == Statuses \cup Notes

(* A note is enqueued once, when its status comes in.                      *)
Rows == (Statuses \X (1 .. MaxRows)) \cup (Notes \X {1})

ASSUME JobsAssumption ==
    /\ Statuses \cap Notes = {}
    /\ {MaxAttempts, Batch, MaxRows} \subseteq Nat \ {0}
    /\ MaxEdits \in Nat
    /\ Outlivable \subseteq Rows
    /\ Retryable \subseteq Rows

VARIABLES
    job,       \* background_jobs
    text,      \* per status: revision and whether it has a link; 0 is none
    card,      \* per status: revision the card was made from, 0 for no card
    owed,      \* payloads whose request has yet to enqueue the job
    soon,      \* notes whose deferred run has yet to start
    claimed,   \* per run: rows of its batch that it has not begun
    cur,       \* per run: the job under way
    overrun,   \* history: rows reclaimed while a run held them
    retried,   \* history and bound: rows an administrator retried
    raced,     \* history: statuses last edited during a fetch of their preview
    skipped,   \* history: statuses whose unfurl was not enqueued, because of
               \* an error or because a run was already past reading them
    read       \* history: statuses whose present text a run has read

site    == <<text, card>>
workers == <<claimed, cur>>
history == <<overrun, retried, raced, skipped, read>>
vars    == <<job, site, owed, soon, workers, history>>

-----------------------------------------------------------------------------
Live == {"pending", "running"}
Finished == {"completed", "failed"}
NoJob == [st |-> "absent", att |-> 0, due |-> FALSE]

Idle == [row |-> <<>>, att |-> 0, step |-> "idle", seen |-> 0]

RowsOf(p) == {k \in Rows : k[1] = p}
In(p, states) == {k \in RowsOf(p) : job[k].st \in states}

Holds(r, k) == (\E c \in claimed[r] : c.row = k) \/ cur[r].row = k

(* Mutant: the comment of soft_enqueue_background_job taken at its word.   *)
AlreadyQueued_PendingOnly(p) == In(p, {"pending"}) # {}

(* Mutant: the test of the status column dropped.                          *)
AlreadyQueued_AnyState(p) == In(p, Live \cup Finished) # {}

(* WHERE NOT EXISTS of soft_enqueue_background_job.                        *)
AlreadyQueued(p) == In(p, Live) # {}

(* The pending rows whose next_run_at has come.                            *)
Due == {k \in Rows : job[k].st = "pending" /\ job[k].due}

(* Mutant: a claim that does not ask for the status again.                 *)
Take_AnyState(r, ks) ==
    /\ job' = [k \in Rows |-> IF k \in ks THEN [job[k] EXCEPT !.st = "running", !.due = FALSE] ELSE job[k]]
    /\ \E more \in SUBSET {k \in Rows : job[k].st = "running" /\ k \notin ks} :
         claimed' = [claimed EXCEPT ![r] = {[row |-> k, att |-> job[k].att] : k \in ks \cup more}]

(* UPDATE ... SET status = 'running' ... RETURNING id, attempts.           *)
Take(r, ks) ==
    /\ job' = [k \in Rows |-> IF k \in ks THEN [job[k] EXCEPT !.st = "running", !.due = FALSE] ELSE job[k]]
    /\ claimed' = [claimed EXCEPT ![r] = {[row |-> k, att |-> job[k].att] : k \in ks}]

Free(r) == claimed[r] = {} /\ cur[r] = Idle

-----------------------------------------------------------------------------
Init ==
    /\ job = [k \in Rows |-> NoJob]
    /\ text = [s \in Statuses |-> [rev |-> 0, link |-> FALSE]]
    /\ card = [s \in Statuses |-> 0]
    /\ owed = {} /\ soon = {}
    /\ claimed = [r \in Runs |-> {}]
    /\ cur = [r \in Runs |-> Idle]
    /\ overrun = {} /\ retried = {} /\ raced = {} /\ skipped = {} /\ read = {}

-----------------------------------------------------------------------------
(* Requests.                                                               *)

Fetching(s) == \E r \in Runs : cur[r].step = "fetched" /\ cur[r].row[1] = s

(* Mutant: an edit that leaves the card column alone.                      *)
PlainCard_Kept(s, link) == card[s]

(* The card built from the text alone: none without a link.                *)
PlainCard(s, link) ==
    IF link THEN text[s].rev + 1 ELSE 0

(* insert_status and update_local_status write the text and its plain card *)
(* in one statement; a text with a link is to be unfurled afterwards.      *)
(* Bound: the requests that edit one status come one after the other.      *)
Edit(s, link) ==
    /\ s \notin owed /\ text[s].rev < MaxEdits
    /\ text' = [text EXCEPT ![s] = [rev |-> text[s].rev + 1, link |-> link]]
    /\ card' = [card EXCEPT ![s] = PlainCard(s, link)]
    /\ owed' = IF link THEN owed \cup {s} ELSE owed
    /\ raced' = IF Fetching(s) THEN raced \cup {s} ELSE raced \ {s}
    /\ skipped' = skipped \ {s} /\ read' = read \ {s}
    /\ UNCHANGED <<job, soon, workers, overrun, retried>>

(* upsert_remote_status stores a status that came in live.                 *)
Arrive(n) ==
    /\ n \notin owed /\ In(n, {"absent"}) = RowsOf(n)
    /\ owed' = owed \cup {n}
    /\ UNCHANGED <<job, site, soon, workers, history>>

(* A run works on a text of s that is no longer its text.                  *)
PastReading(s) == \E r \in Runs : cur[r].step # "idle" /\ cur[r].row[1] = s /\ s \notin read

(* soft_enqueue_background_job, one statement; for a note the request then *)
(* defers a run of it.                                                     *)
Enqueue(p) ==
    /\ p \in owed
    /\ owed' = owed \ {p}
    /\ IF AlreadyQueued(p)
         THEN /\ job' = job
              /\ skipped' = IF p \in Statuses /\ In(p, {"pending"}) = {} /\ PastReading(p)
                              THEN skipped \cup {p} ELSE skipped
         ELSE /\ \E k \in In(p, {"absent"}) :
                   job' = [job EXCEPT ![k] = [st |-> "pending", att |-> 0, due |-> TRUE]]
              /\ skipped' = skipped
    /\ soon' = IF p \in Notes THEN soon \cup {p} ELSE soon
    /\ UNCHANGED <<site, workers, overrun, retried, raced, read>>

(* The statement fails, or another of the request's statements does, and   *)
(* the result is dropped (let _ = ...).                                    *)
EnqueueLost(p) ==
    /\ p \in owed
    /\ owed' = owed \ {p}
    /\ skipped' = IF p \in Statuses THEN skipped \cup {p} ELSE skipped
    /\ UNCHANGED <<job, site, soon, workers, overrun, retried, raced, read>>

-----------------------------------------------------------------------------
(* Runs.                                                                   *)

(* process_due_background_jobs, from the hourly cron or an administrator.  *)
ClaimDue(r) ==
    /\ Free(r) /\ Due # {}
    /\ \E ks \in SUBSET Due :
         /\ Cardinality(ks) = Batch \/ (Cardinality(ks) < Batch /\ ks = Due)
         /\ Take(r, ks)
    /\ UNCHANGED <<site, owed, soon, cur, history>>

(* run_pending_background_job_now, once the response is out; it finds      *)
(* nothing when the cron was first.                                        *)
RunNow(r, n) ==
    /\ Free(r) /\ n \in soon
    /\ soon' = soon \ {n}
    /\ IF Due \cap RowsOf(n) = {}
         THEN UNCHANGED <<job, claimed>>
         ELSE \E k \in Due \cap RowsOf(n) : Take(r, {k})
    /\ UNCHANGED <<site, owed, cur, history>>

(* The deferred task is cancelled with its invocation.                     *)
SoonDropped(n) ==
    /\ n \in soon
    /\ soon' = soon \ {n}
    /\ UNCHANGED <<job, site, owed, workers, history>>

(* handle_job begins: handle_card_unfurl reads the text and has nothing to *)
(* do without a link.  Any read, or the whole job of a note, may fail.     *)
Begin(r) ==
    /\ cur[r] = Idle
    /\ \E c \in claimed[r], ok \in BOOLEAN :
         /\ claimed' = [claimed EXCEPT ![r] = @ \ {c}]
         /\ LET p == c.row[1]
                unfurl == p \in Statuses /\ text[p].link
            IN /\ cur' = [cur EXCEPT ![r] =
                 [row |-> c.row, att |-> IF ok /\ ~unfurl THEN 0 ELSE c.att,
                  step |-> IF ~ok THEN "err" ELSE IF unfurl THEN "fetched" ELSE "ok",
                  seen |-> IF ok /\ unfurl THEN text[p].rev ELSE 0]]
               /\ read' = IF ok /\ unfurl THEN read \cup {p} ELSE read
    /\ UNCHANGED <<job, site, owed, soon, overrun, retried, raced, skipped>>

(* The page is fetched and the card written over whatever is there, with   *)
(* the preview or without when it cannot be had.  The statement may fail.  *)
Write(r) ==
    /\ cur[r].step = "fetched"
    /\ \/ /\ card' = [card EXCEPT ![cur[r].row[1]] = cur[r].seen]
          /\ cur' = [cur EXCEPT ![r].step = "ok", ![r].att = 0, ![r].seen = 0]
       \/ /\ cur' = [cur EXCEPT ![r].step = "err", ![r].seen = 0]
          /\ UNCHANGED card
    /\ UNCHANGED <<job, text, owed, soon, claimed, history>>

(* Completed, put back with a backoff, or failed at MAX_ATTEMPTS; att is   *)
(* the count the claim returned.  The count of a completed row, which      *)
(* nothing reads, is left at 0.                                            *)
StateAfter(ok, att) ==
    IF ok THEN [st |-> "completed", att |-> 0, due |-> FALSE]
    ELSE [st |-> IF att + 1 >= MaxAttempts THEN "failed" ELSE "pending",
          att |-> att + 1, due |-> FALSE]

(* The outcome is written by id alone, whoever holds the row by now.       *)
Finish(r) ==
    /\ cur[r].step \in {"ok", "err"}
    /\ job' = [job EXCEPT ![cur[r].row] = StateAfter(cur[r].step = "ok", cur[r].att)]
    /\ cur' = [cur EXCEPT ![r] = Idle]
    /\ UNCHANGED <<site, owed, soon, claimed, history>>

(* The write of the outcome fails and is ignored (let _ = ...).            *)
FinishLost(r) ==
    /\ cur[r].step \in {"ok", "err"}
    /\ cur' = [cur EXCEPT ![r] = Idle]
    /\ UNCHANGED <<job, site, owed, soon, claimed, history>>

(* The runtime cancels the invocation.                                     *)
RunDies(r) ==
    /\ ~Free(r)
    /\ claimed' = [claimed EXCEPT ![r] = {}]
    /\ cur' = [cur EXCEPT ![r] = Idle]
    /\ UNCHANGED <<job, site, owed, soon, history>>

-----------------------------------------------------------------------------
Held(k) == \E r \in Runs : Holds(r, k)

(* Mutant: stale rows are always put back.                                 *)
Reclaimed_Always(att) == [st |-> "pending", att |-> att, due |-> TRUE]

(* Mutant: an attempt the runtime cancelled is refunded.                   *)
Reclaimed_Refunded(att) ==
    [st |-> IF att + 1 >= MaxAttempts THEN "failed" ELSE "pending",
     att |-> att - 1, due |-> att + 1 < MaxAttempts]

(* Failed at the last attempt, otherwise pending and due at once.          *)
Reclaimed(att) ==
    [st |-> IF att + 1 >= MaxAttempts THEN "failed" ELSE "pending",
     att |-> att + 1, due |-> att + 1 < MaxAttempts]

(* reclaim_stale_background_jobs: running for fifteen minutes.             *)
Reclaim(k) ==
    /\ job[k].st = "running" /\ (k \in Outlivable \/ ~Held(k))
    /\ job' = [job EXCEPT ![k] = Reclaimed(job[k].att)]
    /\ overrun' = IF Held(k) THEN overrun \cup {k} ELSE overrun
    /\ UNCHANGED <<site, owed, soon, workers, retried, raced, skipped, read>>

(* The retry's next_run_at comes.                                          *)
Ripen(k) ==
    /\ job[k].st = "pending" /\ ~job[k].due
    /\ job' = [job EXCEPT ![k].due = TRUE]
    /\ UNCHANGED <<site, owed, soon, workers, history>>

(* POST .../jobs/:id/retry: a failed row only, its count left as it is.    *)
AdminRetry(k) ==
    /\ k \in Retryable \ retried /\ job[k].st = "failed"
    /\ job' = [job EXCEPT ![k].st = "pending", ![k].due = TRUE]
    /\ retried' = retried \cup {k}
    /\ UNCHANGED <<site, owed, soon, workers, overrun, raced, skipped, read>>

RunStep(r) == Begin(r) \/ Write(r) \/ Finish(r) \/ FinishLost(r)

Next ==
    \/ \E s \in Statuses, link \in BOOLEAN : Edit(s, link)
    \/ \E n \in Notes : Arrive(n) \/ SoonDropped(n)
    \/ \E p \in Payloads : Enqueue(p) \/ EnqueueLost(p)
    \/ \E r \in Runs : ClaimDue(r) \/ RunStep(r) \/ RunDies(r)
    \/ \E r \in Runs, n \in Notes : RunNow(r, n)
    \/ \E k \in Rows : Reclaim(k) \/ Ripen(k) \/ AdminRetry(k)

Spec == Init /\ [][Next]_vars

(* The hourly cron reclaims and claims, time passes, and a run that is not *)
(* cancelled goes on.                                                      *)
FairSpec ==
    /\ Spec
    /\ \A k \in Rows : WF_vars(Reclaim(k)) /\ WF_vars(Ripen(k))
    /\ \A r \in Runs : WF_vars(ClaimDue(r)) /\ WF_vars(RunStep(r))

-----------------------------------------------------------------------------
Claims == [row : Rows, att : Nat]
TypeOK ==
    /\ job \in [Rows -> [st : {"absent"} \cup Live \cup Finished, att : Nat, due : BOOLEAN]]
    /\ text \in [Statuses -> [rev : 0 .. MaxEdits, link : BOOLEAN]]
    /\ card \in [Statuses -> 0 .. MaxEdits]
    /\ owed \subseteq Payloads /\ soon \subseteq Notes
    /\ claimed \in [Runs -> SUBSET Claims]
    /\ \A r \in Runs : \/ cur[r] = Idle
                       \/ /\ cur[r] \in [row : Rows, att : Nat, seen : 0 .. MaxEdits,
                                         step : {"fetched", "ok", "err"}]
                          /\ cur[r].step = "fetched" => cur[r].row[1] \in Statuses
    /\ overrun \subseteq Rows /\ retried \subseteq Rows
    /\ {raced, skipped, read} \subseteq SUBSET Statuses

(* The cron and the run after the response never work on one job at a time *)
(* ("leaves nothing to claim here"), unless the row was reclaimed under a  *)
(* run that outlived its lease, or still waited in its batch.              *)
ClaimIsExclusive ==
    \A q, r \in Runs : \A k \in Rows :
        Holds(q, k) /\ Holds(r, k) => q = r \/ k \in overrun

(* There is one live job for a payload, whatever the order of edits, runs, *)
(* crashes and reclaims ("to avoid duplicate work"); only an administrator *)
(* or a run whose row was reclaimed may bring a second one back to life.   *)
OneLiveJob ==
    \A p \in Payloads : \A j, k \in In(p, Live) :
        j = k \/ {j, k} \cap (overrun \cup retried) # {}

(* A job that is over stays over: nothing but an administrator's retry of  *)
(* a failed one, or the late word of a run that lost its row, reopens it.  *)
FinishedIsFinal ==
    [][\A k \in Rows : job[k].st \in Finished /\ job'[k].st # job[k].st
         => \/ k \in overrun
            \/ job[k].st = "failed" /\ k \in retried']_vars

(* The card under a status is that of its present text, or none if that    *)
(* has no link; only an edit made while a run works on the text before it  *)
(* can leave a card of the old text, since handle_card_unfurl overwrites   *)
(* the column without looking at the status again.                         *)
CardIsOfText ==
    \A s \in Statuses :
        \/ card[s] = IF text[s].link THEN text[s].rev ELSE 0
        \/ s \in raced

(* No status is forgotten: unless its text has been read by a run since    *)
(* the last edit, its job is still to come or was given up - or the edit   *)
(* enqueued nothing, because the statement failed or because               *)
(* soft_enqueue_background_job took a run already past its reading for a   *)
(* job to come, or because a late run completed a row taken from it.       *)
UnfurlNotForgotten ==
    \A s \in Statuses :
        text[s].link => \/ s \in owed \cup read \cup skipped
                        \/ In(s, Live \cup {"failed"}) # {}
                        \/ RowsOf(s) \cap overrun # {}

(* Every job comes to an end, although runs die with it, outlive their     *)
(* leases and overwrite each other's attempt counts.                       *)
EveryJobEnds ==
    \A k \in Rows : job[k].st \in Live ~> job[k].st \in Finished
=============================================================================
