------------------------------ MODULE Publishing ------------------------------
(***************************************************************************)
(* How a status is published: by a request with an Idempotency-Key         *)
(* (create_status, src/crates/cfwdon-worker/src/statuses.rs) or, when it    *)
(* is scheduled, by a sweep over the due rows (scheduled_statuses/), which  *)
(* the hourly cron and an operator start.  Both store the status, attach   *)
(* its media and insert its outbox row (statuses/create_published.rs,      *)
(* media/attachment_store.rs) in up to three D1 statements, then delete    *)
(* the scheduled row or record the key.                                    *)
(*                                                                         *)
(* A step is one D1 statement.  Time is counted from each row and each     *)
(* sweep: how long until a row is due, how long ago its claim's sweep and  *)
(* a running sweep began.                                                  *)
(***************************************************************************)
EXTENDS Integers, FiniteSets, Sequences

CONSTANTS
    Scheduled, Direct, \* posts: scheduled ones, ones with a key
    Media,
    Plans,             \* what may be posted, and what each sweep meets
    Edited,            \* scheduled posts their author may change
    Workers,           \* sweeps and requests that run at the same time
    Ttl,               \* SCHEDULED_STATUS_CLAIM_TTL_SECS in ticks
    Offset,            \* the least time ahead a post is scheduled, in ticks
    MaxAge,            \* bound: how many ticks a sweep lasts
    MaxFaults          \* bound: errors, cancelled requests, lost answers

Posts == Scheduled \cup Direct

ASSUME PublishingAssumption ==
    /\ Scheduled \cap Direct = {} /\ Edited \subseteq Scheduled
    /\ \A p \in Plans : /\ p.uses \in UNION {[P -> SUBSET Media] : P \in SUBSET Posts}
                       /\ p.limit \in Nat \ {0}
                       /\ p.frail \subseteq Scheduled /\ p.illegible \subseteq Scheduled
                       /\ p.removable \subseteq Media
    /\ Ttl \in Nat \ {0} /\ Offset \in Nat \ {0}
    /\ MaxAge \in Nat /\ MaxFaults \in Nat

(* Status 0 stands for none: the i-th status made of post p is <<p, i>>.   *)
None == "none"
Copies == Posts \X (Nat \ {0})
ASSUME NoneIsNoPost == None \notin Posts

Unclaimed == -1
Unattached == <<None, 0>>

VARIABLES
    plan,      \* the media of each post there will be, the limit of a sweep,
               \* posts that refer to what may go, rows that do not parse,
               \* media that may be removed
    row,       \* scheduled_statuses: none, pending, cancelled or done
    line,      \* the pending rows, ORDER BY scheduled_at
    wait,      \* per row: ticks until scheduled_at
    claim,     \* per row: ticks since claimed_at, or Unclaimed
    wk,        \* the workers
    stored,    \* per post: how many statuses were made of it
    out,       \* statuses with a Create in the outbox
    att,       \* media_attachments.status_id
    barred,    \* scheduled posts whose account, reply target or quote is
               \* gone or refused
    doomed,    \* media that somebody found free and is about to remove
    gone,      \* media removed
    key,       \* status_idempotency_keys, per direct post
    answered,  \* direct posts whose client has its answer
    faults,
    slow,      \* history: rows claimed again while at work, claim lapsed
    overlapped,\* history: direct posts two requests were at together
    broken,    \* history: statuses whose creation was cut short
    expired,   \* history: direct posts whose key was purged
    refused,   \* history: direct posts refused for what their own status has
    late,      \* history: rows changed by their author while at work
    against    \* history: rows published though cancelled or not due

schedule == <<row, line, wait, claim>>
others   == <<barred, doomed, gone>>
posted   == <<stored, out, att, others>>
client   == <<key, answered>>
history  == <<slow, overlapped, broken, expired, refused, late, against>>
vars     == <<plan, schedule, wk, posted, client, faults, history>>

-----------------------------------------------------------------------------
uses == plan.uses

Idle == [kind |-> "idle", age |-> 0, list |-> <<>>, moved |-> {},
         post |-> None, step |-> "idle", copy |-> 0]

At(w, step) == wk[w].step = step
Goto(w, step) == wk' = [wk EXCEPT ![w].step = step]

(* A sweep that has rows to claim: its age matters no longer afterwards.    *)
Counting(w) == At(w, "claim") \/ Len(wk[w].list) > 1

(* The worker is past its claim or its key lookup.                         *)
AtWork(w) == wk[w].step \in {"media", "insert", "attach", "outbox", "done", "answer"}
Others(w, p) == {v \in Workers \ {w} : AtWork(v) /\ wk[v].post = p}

(* A sweep goes on with its next row, a request ends.                      *)
Left(w) == IF wk[w].kind = "sweep" /\ Tail(wk[w].list) # <<>>
             THEN [wk[w] EXCEPT !.list = Tail(@), !.post = Head(Tail(wk[w].list)),
                                !.step = "claim", !.copy = 0]
             ELSE Idle
Leave(w) == wk' = [wk EXCEPT ![w] = Left(w)]

Fault == faults < MaxFaults /\ faults' = faults + 1

Free(m) == att[m] = Unattached /\ m \notin gone
Copy(w) == <<wk[w].post, wk[w].copy>>
Cut(w) == IF wk[w].copy > 0 THEN broken \cup {Copy(w)} ELSE broken

Init ==
    /\ plan \in Plans
    /\ row = [s \in Scheduled |-> "none"] /\ line = <<>>
    /\ wait = [s \in Scheduled |-> 0]
    /\ claim = [s \in Scheduled |-> Unclaimed]
    /\ wk = [w \in Workers |-> Idle]
    /\ stored = [p \in Posts |-> 0] /\ out = {}
    /\ att = [m \in Media |-> Unattached]
    /\ barred = {} /\ doomed = {} /\ gone = {}
    /\ key = [d \in Direct |-> 0] /\ answered = {}
    /\ faults = 0
    /\ slow = {} /\ overlapped = {} /\ broken = {}
    /\ expired = {} /\ refused = {} /\ late = {} /\ against = {}

-----------------------------------------------------------------------------
(* The rows of scheduled_statuses.                                         *)
Pending == {s \in Scheduled : row[s] = "pending"}

(* The author.                                                             *)
Changed(s) == IF \E w \in Workers : AtWork(w) /\ wk[w].post = s
                THEN late \cup {s} ELSE late

(* The elements of q that are in S, in their order: the rows a WHERE keeps *)
(* (what SelectSeq does, as a function its facts can be proved of).        *)
Selected(q, S) ==
    LET f[i \in 0 .. Len(q)] ==
          IF i = 0 THEN <<>>
          ELSE IF q[i] \in S THEN Append(f[i - 1], q[i]) ELSE f[i - 1]
    IN  f[Len(q)]

(* Mutant: the row is not removed.                                         *)
Without_Kept(s) == line

Without(s) == Selected(line, Scheduled \ {s})

(* What a post needs to be published: media that are there and that no     *)
(* status has, its account and reply target, and leave to quote.           *)
Acceptable(p) == p \notin barred /\ \A m \in uses[p] : Free(m)

(* create_status with scheduled_at, after the same checks.                 *)
Schedule(s) ==
    /\ s \in DOMAIN uses /\ row[s] = "none" /\ Acceptable(s)
    /\ row' = [row EXCEPT ![s] = "pending"]
    /\ line' = Append(line, s)
    /\ wait' = [wait EXCEPT ![s] = Offset]
    /\ UNCHANGED <<plan, claim, wk, posted, client, faults, history>>

(* update_scheduled_status_time: a new time, again some minutes ahead; a   *)
(* claim stays as it is.  The row is read first.                           *)
Reschedule(s) ==
    /\ s \in (Edited \cap Pending) \ plan.illegible
    /\ wait' = [wait EXCEPT ![s] = Offset]
    /\ line' = Append(Without(s), s)
    /\ wk' = [w \in Workers |->
                IF Counting(w) THEN [wk[w] EXCEPT !.moved = @ \cup {s}] ELSE wk[w]]
    /\ late' = Changed(s)
    /\ UNCHANGED <<plan, row, claim, posted, client, faults,
                   slow, overlapped, broken, expired, refused, against>>

(* delete_scheduled_status.                                                *)
Cancel(s) ==
    /\ s \in Edited \cap Pending
    /\ row' = [row EXCEPT ![s] = "cancelled"]
    /\ line' = Without(s)
    /\ wait' = [wait EXCEPT ![s] = 0] /\ claim' = [claim EXCEPT ![s] = Unclaimed]
    /\ late' = Changed(s)
    /\ UNCHANGED <<plan, wk, posted, client, faults,
                   slow, overlapped, broken, expired, refused, against>>

(* Others take away what a post refers to: the status it replies to is     *)
(* deleted, its quote or its account refused; some of it may come back.    *)
TargetTurns(s) ==
    /\ s \in plan.frail
    /\ barred' = IF s \in barred THEN barred \ {s} ELSE barred \cup {s}
    /\ UNCHANGED <<plan, schedule, wk, stored, out, att, doomed, gone, client, faults, history>>

(* The author or prune_orphan_media finds a medium that no status has,     *)
(* whether or not a scheduled row asks for it, ...                         *)
FindOrphan(m) ==
    /\ m \in plan.removable \ doomed /\ Free(m)
    /\ doomed' = doomed \cup {m}
    /\ UNCHANGED <<plan, schedule, wk, stored, out, att, barred, gone, client, faults, history>>

(* ... and removes it by its id, whoever has it by then.                   *)
RemoveMedium(m) ==
    /\ m \in doomed
    /\ doomed' = doomed \ {m} /\ gone' = gone \cup {m}
    /\ UNCHANGED <<plan, schedule, wk, stored, out, att, barred, client, faults, history>>

World ==
    \/ \E s \in Scheduled : TargetTurns(s)
    \/ \E m \in Media : FindOrphan(m) \/ RemoveMedium(m)

-----------------------------------------------------------------------------
(* A sweep.                                                                *)

(* Mutant: a claimed row is left to whoever claimed it.                    *)
Lapsed_Never(s, age) == claim[s] = Unclaimed

(* Mutant: a claim is no hindrance.                                        *)
Lapsed_Always(s, age) == TRUE

(* claimed_at is null or a TTL older than the start of the sweep.          *)
Lapsed(s, age) == claim[s] = Unclaimed \/ claim[s] >= age + Ttl

(* list_due_scheduled_statuses, at the start of a sweep: rows that do not  *)
(* parse count against the LIMIT and are dropped.                          *)
Due(s) == s \in Pending /\ wait[s] = 0
Listed == LET due == Selected(line, {s \in Scheduled : Due(s) /\ Lapsed(s, 0)})
              rows == SubSeq(due, 1, IF Len(due) < plan.limit THEN Len(due) ELSE plan.limit)
          IN  Selected(rows, Scheduled \ plan.illegible)

StartSweep(w) ==
    /\ wk[w] = Idle /\ Listed # <<>>
    /\ wk' = [wk EXCEPT ![w] = [Idle EXCEPT !.kind = "sweep", !.list = Listed,
                                            !.post = Head(Listed), !.step = "claim"]]
    /\ UNCHANGED <<plan, schedule, posted, client, faults, history>>

(* Mutant: the row is claimed whatever its schedule is by now.             *)
Claimable_AnyTime(w, s) == s \in Pending /\ Lapsed(s, wk[w].age)

(* The condition of claim_scheduled_status: the row is there, scheduled as *)
(* it was listed, and unclaimed or its claim has lapsed.                   *)
Claimable(w, s) ==
    s \in Pending /\ s \notin wk[w].moved /\ Lapsed(s, wk[w].age)

(* claimed_at becomes the time the sweep began.                            *)
Claim(w) ==
    /\ At(w, "claim")
    /\ LET s == wk[w].post IN
       IF Claimable(w, s)
         THEN /\ claim' = [claim EXCEPT ![s] = wk[w].age]
              /\ slow' = IF Others(w, s) # {} /\ claim[s] - wk[w].age >= Ttl
                           THEN slow \cup {s} ELSE slow
              /\ wk' = [wk EXCEPT ![w] = IF Len(@.list) > 1 THEN [@ EXCEPT !.step = "media"]
                           ELSE [@ EXCEPT !.step = "media", !.age = 0, !.moved = {}]]
         ELSE Leave(w) /\ UNCHANGED <<claim, slow>>
    /\ UNCHANGED <<plan, row, line, wait, posted, client, faults,
                   overlapped, broken, expired, refused, late, against>>

-----------------------------------------------------------------------------
(* A request with an Idempotency-Key, sent until it is answered.           *)
Request(w, d) ==
    /\ wk[w] = Idle /\ d \in DOMAIN uses \ answered
    /\ wk' = [wk EXCEPT ![w] = [Idle EXCEPT !.kind = "request", !.post = d, !.step = "find"]]
    /\ UNCHANGED <<plan, schedule, posted, client, faults, history>>

(* Mutant: the key is not looked up.                                       *)
AfterFind_Always(d) == "media"

(* idempotent_status_response: a key on record answers with its status.    *)
AfterFind(d) == IF key[d] = 0 THEN "media" ELSE "answer"

FindKey(w) ==
    /\ At(w, "find")
    /\ LET d == wk[w].post IN
       /\ Goto(w, AfterFind(d))
       /\ overlapped' = IF key[d] = 0 /\ Others(w, d) # {} THEN overlapped \cup {d} ELSE overlapped
    /\ UNCHANGED <<plan, schedule, posted, client, faults,
                   slow, broken, expired, refused, late, against>>

-----------------------------------------------------------------------------
(* create_published_status_and_response.                                   *)

(* resolve_attachable_media and the checks beside it: a request is refused,*)
(* a sweep leaves the row as it is.                                        *)
ResolveMedia(w) ==
    /\ At(w, "media")
    /\ LET p == wk[w].post IN
       IF Acceptable(p)
         THEN Goto(w, "insert") /\ UNCHANGED <<answered, refused>>
         ELSE /\ Leave(w)
              /\ answered' = IF p \in Direct THEN answered \cup {p} ELSE answered
              /\ refused' = IF p \in Direct /\ \E m \in uses[p] : att[m][1] = p
                              THEN refused \cup {p} ELSE refused
    /\ UNCHANGED <<plan, schedule, posted, key, faults,
                   slow, overlapped, broken, expired, late, against>>

(* Mutant: the outbox row never waits for the media.                       *)
Deferred_Never(p) == FALSE

(* Mutant: the outbox row always waits for media.                          *)
Deferred_Always(p) == TRUE

(* defer_outbox: with media the outbox row is inserted after them.         *)
Deferred(p) == uses[p] # {}

(* insert_status: without media one batch inserts the outbox row too.      *)
Insert(w) ==
    /\ At(w, "insert")
    /\ LET p == wk[w].post  i == stored[p] + 1 IN
       /\ stored' = [stored EXCEPT ![p] = i]
       /\ out' = IF Deferred(p) THEN out ELSE out \cup {<<p, i>>}
       /\ wk' = [wk EXCEPT ![w].copy = i,
                           ![w].step = IF uses[p] # {} THEN "attach" ELSE "done"]
       /\ against' = IF p \in Scheduled /\ (row[p] = "cancelled" \/ wait[p] > 0)
                       THEN against \cup {p} ELSE against
    /\ UNCHANGED <<plan, schedule, att, others, client, faults,
                   slow, overlapped, broken, expired, refused, late>>

(* Mutant: the media that are free are attached.                           *)
Attachable_Free(p) == {m \in uses[p] : Free(m)}

(* The UPDATE of attach_media_and_enqueue_outbox takes all media or none.  *)
Attachable(p) == IF \A m \in uses[p] : Free(m) THEN uses[p] ELSE {}

Attach(w) ==
    /\ At(w, "attach")
    /\ LET p == wk[w].post  taken == Attachable(p) IN
       IF taken # {}
         THEN /\ att' = [m \in Media |-> IF m \in taken THEN Copy(w) ELSE att[m]]
              /\ Goto(w, "outbox")
         ELSE Leave(w) /\ UNCHANGED att
    /\ UNCHANGED <<plan, schedule, stored, out, others, client, faults, history>>

(* The outbox row of a status with media.                                  *)
InsertOutbox(w) ==
    /\ At(w, "outbox")
    /\ out' = out \cup {Copy(w)}
    /\ Goto(w, "done")
    /\ UNCHANGED <<plan, schedule, stored, att, others, client, faults, history>>

(* A published row is deleted, whatever was done to it meanwhile; a failed *)
(* deletion is only logged.                                                *)
DeleteRow(w) ==
    /\ At(w, "done") /\ wk[w].kind = "sweep"
    /\ LET s == wk[w].post IN
       \/ /\ row' = IF row[s] = "pending" THEN [row EXCEPT ![s] = "done"] ELSE row
          /\ line' = Without(s)
          /\ wait' = [wait EXCEPT ![s] = 0] /\ claim' = [claim EXCEPT ![s] = Unclaimed]
          /\ UNCHANGED <<faults, broken>>
       \/ Fault /\ broken' = Cut(w) /\ UNCHANGED schedule
    /\ Leave(w)
    /\ UNCHANGED <<plan, posted, client,
                   slow, overlapped, expired, refused, late, against>>

(* record_idempotent_status; a failed write is only logged.                *)
RecordKey(w) ==
    /\ At(w, "done") /\ wk[w].kind = "request"
    /\ \/ key' = [key EXCEPT ![wk[w].post] = wk[w].copy] /\ UNCHANGED <<faults, broken>>
       \/ Fault /\ broken' = Cut(w) /\ UNCHANGED key
    /\ Goto(w, "answer")
    /\ UNCHANGED <<plan, schedule, posted, answered,
                   slow, overlapped, expired, refused, late, against>>

(* The answer, which may be lost.                                          *)
Answer(w) ==
    /\ At(w, "answer")
    /\ \/ answered' = answered \cup {wk[w].post} /\ UNCHANGED faults
       \/ Fault /\ UNCHANGED answered
    /\ wk' = [wk EXCEPT ![w] = Idle]
    /\ UNCHANGED <<plan, schedule, posted, key, history>>

(* Mutant: a row is deleted also when its publication failed.              *)
RowsAfterFail_Deleted(w) ==
    IF wk[w].kind = "sweep" THEN [row EXCEPT ![wk[w].post] = "done"] ELSE row

(* A failed publication leaves its row.                                    *)
RowsAfterFail(w) == row

(* A statement fails: a sweep goes on with the next row, a request answers *)
(* with an error and is sent again.                                        *)
Fail(w) ==
    /\ AtWork(w) /\ wk[w].step \notin {"done", "answer"}
    /\ Fault
    /\ broken' = Cut(w)
    /\ row' = RowsAfterFail(w)
    /\ line' = Selected(line, {s \in Scheduled : row'[s] = "pending"})
    /\ Leave(w)
    /\ UNCHANGED <<plan, wait, claim, posted, client,
                   slow, overlapped, expired, refused, late, against>>

(* The worker is cancelled with all its rows.                              *)
Die(w) ==
    /\ wk[w] # Idle
    /\ Fault
    /\ broken' = IF wk[w].step = "answer" THEN broken ELSE Cut(w)
    /\ wk' = [wk EXCEPT ![w] = Idle]
    /\ UNCHANGED <<plan, schedule, posted, client,
                   slow, overlapped, expired, refused, late, against>>

(* An hour passes over a key: it is not found any more and purged.         *)
ExpireKey(d) ==
    /\ key[d] # 0 /\ d \notin answered
    /\ \A w \in Workers : wk[w].post # d
    /\ key' = [key EXCEPT ![d] = 0]
    /\ expired' = expired \cup {d}
    /\ UNCHANGED <<plan, schedule, wk, posted, answered, faults,
                   slow, overlapped, broken, refused, late, against>>

(* Time passes; a claim's age stops to matter once it has lapsed for all.  *)
Tick ==
    /\ \A w \in Workers : Counting(w) => wk[w].age < MaxAge
    /\ wait' = [s \in Scheduled |-> IF wait[s] > 0 THEN wait[s] - 1 ELSE 0]
    /\ claim' = [s \in Scheduled |->
                   IF claim[s] \in {Unclaimed, MaxAge + Ttl} THEN claim[s] ELSE claim[s] + 1]
    /\ wk' = [w \in Workers |->
                IF Counting(w) THEN [wk[w] EXCEPT !.age = @ + 1] ELSE wk[w]]
    /\ UNCHANGED <<plan, row, line, posted, client, faults, history>>

-----------------------------------------------------------------------------
WorkerStep(w) ==
    \/ Claim(w) \/ FindKey(w) \/ ResolveMedia(w) \/ Insert(w) \/ Attach(w)
    \/ InsertOutbox(w) \/ DeleteRow(w) \/ RecordKey(w) \/ Answer(w)

Next ==
    \/ \E s \in Scheduled : Schedule(s) \/ Reschedule(s) \/ Cancel(s)
    \/ \E w \in Workers : StartSweep(w) \/ WorkerStep(w) \/ Fail(w) \/ Die(w)
    \/ \E w \in Workers, d \in Direct : Request(w, d)
    \/ \E d \in Direct : ExpireKey(d)
    \/ World
    \/ Tick

Spec == Init /\ [][Next]_vars

(* Time passes, the cron starts sweeps and what runs goes on.  Neither the *)
(* author nor a client need do anything.                                   *)
FairSpec ==
    /\ Spec
    /\ WF_vars(Tick)
    /\ WF_vars(\E w \in Workers : StartSweep(w))
    /\ \A w \in Workers : WF_vars(WorkerStep(w))

-----------------------------------------------------------------------------
Steps == {"idle", "claim", "find", "media", "insert", "attach", "outbox", "done", "answer"}
TypeOK ==
    /\ plan \in Plans
    /\ row \in [Scheduled -> {"none", "pending", "cancelled", "done"}]
    /\ line \in Seq(Scheduled)
    /\ \A s \in Scheduled : s \in Pending <=> \E i \in DOMAIN line : line[i] = s
    /\ wait \in [Scheduled -> 0 .. Offset]
    /\ claim \in [Scheduled -> -1 .. MaxAge + Ttl]
    /\ wk \in [Workers -> [kind : {"idle", "sweep", "request"}, age : 0 .. MaxAge,
                           list : Seq(Scheduled), moved : SUBSET Scheduled,
                           post : Posts \cup {None}, step : Steps, copy : Nat]]
    /\ stored \in [Posts -> Nat]
    /\ out \subseteq Copies /\ broken \subseteq Copies
    /\ att \in [Media -> Copies \cup {Unattached}]
    /\ barred \subseteq Scheduled /\ doomed \subseteq Media /\ gone \subseteq Media
    /\ key \in [Direct -> Nat]
    /\ {answered, overlapped, expired, refused} \subseteq SUBSET Direct
    /\ {slow, late, against} \subseteq SUBSET Scheduled
    /\ faults \in 0 .. MaxFaults

Made(p) == {<<p, i>> : i \in 1 .. stored[p]}
Statuses == UNION {Made(p) : p \in Posts}

(* "a status is never published twice by concurrent runs": a scheduled row *)
(* becomes two statuses only when a sweep was still at it as its claim     *)
(* lapsed, or when an attempt was cut short after the status was stored.   *)
PublishedOnce ==
    \A s \in Scheduled : stored[s] <= 1 \/ s \in slow \/ Made(s) \cap broken # {}

(* A client that repeats a request with its key until it has an answer gets *)
(* one status and no refusal "before its media read as attached", unless   *)
(* two of its requests overlap, the first was cut short after the status   *)
(* was stored, or an hour went by between them.                            *)
KeyedOnce ==
    \A d \in Direct :
        (stored[d] <= 1 /\ d \notin refused) \/ d \in overlapped \cup expired \/ Made(d) \cap broken # {}

(* A status gets all its media or none, and what is in the outbox got all: *)
(* remote servers never get a part of a post.  What a removal that found a *)
(* medium free takes afterwards counts as got: nothing hinders it.         *)
MediaWhole ==
    \A c \in Statuses :
        LET has == {m \in Media : att[m] = c} IN
        has = uses[c[1]] \/ (has = {} /\ c \notin out)

(* A status that has no outbox row stays on this server for ever.  Nobody  *)
(* is at it any more only after a failure, or when its media were removed  *)
(* or went to another status between the check and the UPDATE.             *)
NoSilentStatus ==
    \A c \in Statuses \ out :
        \/ \E w \in Workers : Copy(w) = c
        \/ c \in broken
        \/ \E m \in uses[c[1]] : m \in gone \/ att[m] \notin {Unattached, c}

(* What the author cancels or puts off is not published then, except by a  *)
(* sweep that had claimed it already.                                      *)
AuthorHasLastWord == against \subseteq late

(* A scheduled row is removed only once a status of it is in the outbox.   *)
NothingScheduledIsLost ==
    \A s \in Scheduled : row[s] = "done" => Made(s) \cap out # {}

(* A row no sweep publishes as things are: its media are gone or belong to *)
(* a status, what it refers to is gone or refused, or it does not parse.   *)
Stuck(s) == s \in Pending /\ (s \in plan.illegible \/ ~Acceptable(s))
Ahead(s) == {q \in Scheduled : \E i, j \in DOMAIN line : i < j /\ line[i] = q /\ line[j] = s}

(* A due row is published, unless it is stuck itself, or as many stuck     *)
(* rows as a sweep lists stand before it.                                  *)
EveryDueRowLeaves ==
    \A s \in Scheduled :
        Due(s) ~> \/ ~Due(s) \/ Stuck(s)
                  \/ Cardinality({q \in Ahead(s) : Stuck(q)}) >= plan.limit
=============================================================================
