--------------------------- MODULE OutboxLeaseProofs --------------------------
(***************************************************************************)
(* Proofs that the lease keeps runs apart, for every set of runs, posts,   *)
(* actors and inboxes and every value of the limits.                       *)
(***************************************************************************)
EXTENDS OutboxFanoutProofs

(* Where a run is when it holds rows; it holds a target once.              *)
WorkOf(r) ==
    /\ pc[r] \notin {"plan", "complete", "expand"} => batch[r] = {}
    /\ pc[r] \notin {"check", "send"} => jobs[r] = {}
    /\ \A i, j \in jobs[r] : i.row = j.row => i = j

(* What may have become of a row that a run holds: it is not in the queue. *)
HeldRow(k) ==
    \/ row[k].st \in {"expanded", "delivered", "failed"}
    \/ row[k].st = "in_flight" /\ ~row[k].ripe
    \/ row[k].st = "absent" /\ post[Post(k)] = "gone"

(* One run at a time holds the row, with the attempt count the row has.    *)
Lone(k) ==
    /\ \A q, r \in Runs : HeldBy(q, k) /\ HeldBy(r, k) => q = r
    /\ Held(k) => HeldRow(k)
    /\ \A r \in Runs : \A j \in jobs[r] :
         j.row = k /\ row[k].st = "in_flight" => j.att = row[k].att

LeaseInv ==
    /\ \A r \in Runs : WorkOf(r)
    /\ \A k \in Rows : row[k].st = "absent" => row[k].att = 0
    /\ ~RunsOutliveLease => \A k \in Rows \ retried : Lone(k)

-----------------------------------------------------------------------------
(* A run changes nothing of what the others do.                            *)
LEMMA OtherJobs ==
    ASSUME TypeOK, NEW r \in Runs, RunAction(r), NEW q \in Runs \ {r}
    PROVE  pc'[q] = pc[q] /\ batch'[q] = batch[q] /\ jobs'[q] = jobs[q]
<1> SUFFICES jobs'[q] = jobs[q] BY RunOthers
<1>0. jobs \in [Runs -> SUBSET JobType] BY DEF TypeOK, JobType
<1>1. CASE ClaimTargets(r) \/ CheckBlocks(r) BY <1>0, <1>1 DEF ClaimTargets, CheckBlocks
<1>2. CASE FailBlocked(r) \/ Send(r) \/ RecordOutcome(r)
  BY <1>0, <1>2 DEF FailBlocked, Send, RecordOutcome, Close
<1>3. CASE Crash(r) \/ ExpandFails(r) BY <1>0, <1>3 DEF Crash, ExpandFails, Stop
<1>4. CASE \/ Start(r) \/ RequeueStale(r) \/ ClaimGeneric(r) \/ PlanExpansion(r)
           \/ MarkCompleted(r) \/ ExpandChunk(r) \/ FinishExpansion(r) \/ FinishRun(r)
  BY <1>4 DEF Start, RequeueStale, ClaimGeneric, PlanExpansion, MarkCompleted,
              ExpandChunk, FinishExpansion, FinishRun
<1>q. QED BY <1>1, <1>2, <1>3, <1>4 DEF RunAction, RunStep

(* The jobs of a run keep their rows and counts while their phase changes. *)
LEMMA Rephased ==
    ASSUME NEW j \in JobType, NEW ph
    PROVE  [j EXCEPT !.ph = ph].row = j.row /\ [j EXCEPT !.ph = ph].att = j.att
  BY DEF JobType

(* A run's work keeps its shape.                                           *)
LEMMA WorkKept ==
    ASSUME TypeOK, NEW r \in Runs, WorkOf(r), RunAction(r)
    PROVE  WorkOf(r)'
<1>0. /\ pc \in [Runs -> Steps] /\ batch \in [Runs -> SUBSET Rows]
      /\ jobs \in [Runs -> SUBSET JobType]
  BY DEF TypeOK, JobType
<1> USE DEF WorkOf
<1>1. CASE Start(r) BY <1>0, <1>1 DEF Start
<1>2. CASE RequeueStale(r) BY <1>0, <1>2 DEF RequeueStale
<1>3. CASE ClaimGeneric(r)
  <2>1. PICK T : /\ batch' = [batch EXCEPT ![r] = T]
                 /\ pc' = [pc EXCEPT ![r] = IF T = {} THEN "targets" ELSE "plan"]
                 /\ UNCHANGED jobs /\ pc[r] = "claim"
    BY <1>3 DEF ClaimGeneric
  <2>q. QED BY <1>0, <2>1
<1>4. CASE PlanExpansion(r)
  <2>1. pc[r] = "plan" /\ pc'[r] \in {"complete", "expand"} /\ UNCHANGED <<batch, jobs>>
    BY <1>4, Planned DEF PlanExpansion
  <2>q. QED BY <2>1
<1>5. CASE MarkCompleted(r) BY <1>0, <1>5 DEF MarkCompleted
<1>6. CASE ExpandChunk(r) BY <1>0, <1>6 DEF ExpandChunk
<1>7. CASE FinishExpansion(r) BY <1>0, <1>7 DEF FinishExpansion
<1>8. CASE ClaimTargets(r)
  <2>1. PICK T : jobs' = [jobs EXCEPT ![r] =
                   {[row |-> k, att |-> row[k].att, ph |-> "claimed"] : k \in T}]
    BY <1>8 DEF ClaimTargets
  <2>2. \A i, j \in jobs'[r] : i.row = j.row => i = j BY <1>0, <2>1
  <2>3. pc'[r] = "check" /\ batch' = batch /\ pc[r] = "targets" BY <1>0, <1>8 DEF ClaimTargets
  <2>q. QED BY <2>2, <2>3
<1>9. CASE CheckBlocks(r)
  <2>0. \E view \in BlockViews : jobs' = [jobs EXCEPT ![r] =
                   {[j EXCEPT !.ph = IF Inbox(j.row) \in view THEN "blocked" ELSE "todo"]
                      : j \in jobs[r]}]
    BY <1>9, Zenon DEF CheckBlocks
  <2>1. PICK view \in BlockViews : jobs' = [jobs EXCEPT ![r] =
                   {[j EXCEPT !.ph = IF Inbox(j.row) \in view THEN "blocked" ELSE "todo"]
                      : j \in jobs[r]}]
    BY <2>0, Zenon
  <2>2. jobs'[r] = {[j EXCEPT !.ph = IF Inbox(j.row) \in view THEN "blocked" ELSE "todo"]
                      : j \in jobs[r]}
    BY <1>0, <2>1
  <2>3. ASSUME NEW i \in jobs'[r], NEW j \in jobs'[r], i.row = j.row PROVE i = j
    <3>1. PICK x \in jobs[r] : i = [x EXCEPT !.ph = IF Inbox(x.row) \in view THEN "blocked" ELSE "todo"]
      BY <2>2
    <3>2. PICK y \in jobs[r] : j = [y EXCEPT !.ph = IF Inbox(y.row) \in view THEN "blocked" ELSE "todo"]
      BY <2>2
    <3>3. x \in JobType /\ y \in JobType BY <1>0
    <3>4. i.row = x.row /\ j.row = y.row BY <3>1, <3>2, <3>3, Rephased
    <3>5. x = y BY <2>3, <3>4
    <3>q. QED BY <3>1, <3>2, <3>5
  <2>4. pc'[r] = "send" /\ batch' = batch /\ pc[r] = "check" BY <1>0, <1>9 DEF CheckBlocks
  <2>q. QED BY <2>3, <2>4
<1>10. CASE FailBlocked(r) \/ RecordOutcome(r)
  <2>1. PICK j \in jobs[r] : jobs' = [jobs EXCEPT ![r] = @ \ {j}]
    BY <1>10 DEF FailBlocked, RecordOutcome, Close
  <2>2. jobs'[r] \subseteq jobs[r] BY <1>0, <2>1
  <2>3. UNCHANGED <<pc, batch>> BY <1>10 DEF FailBlocked, RecordOutcome
  <2>q. QED BY <2>2, <2>3
<1>11. CASE Send(r)
  <2>1. PICK j \in jobs[r], answer \in Seen :
           jobs' = [jobs EXCEPT ![r] = (@ \ {j}) \cup {[j EXCEPT !.ph = OutcomeOf(answer)]}]
    BY <1>11 DEF Send
  <2>2. jobs'[r] = (jobs[r] \ {j}) \cup {[j EXCEPT !.ph = OutcomeOf(answer)]} BY <1>0, <2>1
  <2>3. [j EXCEPT !.ph = OutcomeOf(answer)].row = j.row BY <1>0, Rephased
  <2>4. \A x, y \in jobs'[r] : x.row = y.row => x = y BY <2>2, <2>3
  <2>5. UNCHANGED <<pc, batch>> /\ pc[r] = "send" BY <1>11 DEF Send
  <2>q. QED BY <2>4, <2>5
<1>12. CASE FinishRun(r) BY <1>0, <1>12 DEF FinishRun
<1>13. CASE Crash(r) \/ ExpandFails(r) BY <1>0, <1>13 DEF Crash, ExpandFails, Stop
<1>q. QED
  BY <1>1, <1>2, <1>3, <1>4, <1>5, <1>6, <1>7, <1>8, <1>9, <1>10, <1>11, <1>12, <1>13
     DEF RunAction, RunStep

-----------------------------------------------------------------------------
(* No run takes up row k in this step.                                     *)
Less(k) ==
    \A q \in Runs :
        /\ k \in batch'[q] => k \in batch[q]
        /\ \A i \in jobs'[q] : i.row = k => \E j \in jobs[q] : j.row = k /\ j.att = i.att

(* Only the two claims take up rows.                                       *)
LEMMA RunLess ==
    ASSUME TypeOK, NEW k \in Rows, NEW r \in Runs, RunAction(r),
           ~ClaimGeneric(r), ~ClaimTargets(r)
    PROVE  Less(k)
<1>0. /\ jobs \in [Runs -> SUBSET JobType] /\ batch \in [Runs -> SUBSET Rows]
  BY DEF TypeOK, JobType
<1>1. batch'[r] = batch[r] \/ batch'[r] = {}
  <2>1. CASE Crash(r) \/ ExpandFails(r) BY <1>0, <2>1 DEF Crash, ExpandFails, Stop
  <2>2. CASE MarkCompleted(r) \/ FinishExpansion(r)
    BY <1>0, <2>2 DEF MarkCompleted, FinishExpansion
  <2>3. CASE \/ Start(r) \/ RequeueStale(r) \/ PlanExpansion(r) \/ ExpandChunk(r)
             \/ CheckBlocks(r) \/ FailBlocked(r) \/ Send(r) \/ RecordOutcome(r) \/ FinishRun(r)
    BY <2>3 DEF Start, RequeueStale, PlanExpansion, ExpandChunk, CheckBlocks, FailBlocked,
                Send, RecordOutcome, FinishRun
  <2>q. QED BY <2>1, <2>2, <2>3 DEF RunAction, RunStep
<1>2. \A i \in jobs'[r] : i.row = k => \E j \in jobs[r] : j.row = k /\ j.att = i.att
  <2>1. CASE jobs'[r] \subseteq jobs[r] BY <2>1
  <2>2. CASE Crash(r) \/ ExpandFails(r) BY <1>0, <2>2 DEF Crash, ExpandFails, Stop
  <2>3. CASE FailBlocked(r) \/ RecordOutcome(r)
    <3>1. jobs'[r] \subseteq jobs[r] BY <1>0, <2>3 DEF FailBlocked, RecordOutcome, Close
    <3>q. QED BY <3>1
  <2>4. CASE CheckBlocks(r)
    <3>1. PICK view : jobs' = [jobs EXCEPT ![r] =
                   {[j EXCEPT !.ph = IF Inbox(j.row) \in view THEN "blocked" ELSE "todo"]
                      : j \in jobs[r]}]
      BY <2>4 DEF CheckBlocks
    <3>2. ASSUME NEW i \in jobs'[r] PROVE \E j \in jobs[r] : j.row = i.row /\ j.att = i.att
      <4>1. PICK x \in jobs[r] :
               i = [x EXCEPT !.ph = IF Inbox(x.row) \in view THEN "blocked" ELSE "todo"]
        BY <1>0, <3>1
      <4>2. x \in JobType BY <1>0
      <4>q. QED BY <4>1, <4>2, Rephased
    <3>q. QED BY <3>2
  <2>5. CASE Send(r)
    <3>1. PICK j \in jobs[r], answer \in Seen :
             jobs' = [jobs EXCEPT ![r] = (@ \ {j}) \cup {[j EXCEPT !.ph = OutcomeOf(answer)]}]
      BY <2>5 DEF Send
    <3>2. jobs'[r] = (jobs[r] \ {j}) \cup {[j EXCEPT !.ph = OutcomeOf(answer)]} BY <1>0, <3>1
    <3>3. [j EXCEPT !.ph = OutcomeOf(answer)].row = j.row /\ [j EXCEPT !.ph = OutcomeOf(answer)].att = j.att
      BY <1>0, Rephased
    <3>q. QED BY <3>2, <3>3
  <2>6. CASE \/ Start(r) \/ RequeueStale(r) \/ PlanExpansion(r) \/ MarkCompleted(r)
             \/ ExpandChunk(r) \/ FinishExpansion(r) \/ FinishRun(r)
    <3>1. jobs' = jobs
      BY <2>6 DEF Start, RequeueStale, PlanExpansion, MarkCompleted, ExpandChunk,
                  FinishExpansion, FinishRun
    <3>q. QED BY <3>1
  <2>q. QED BY <2>2, <2>3, <2>4, <2>5, <2>6 DEF RunAction, RunStep
<1>q. QED BY <1>1, <1>2, OtherJobs DEF Less

(* A row that stays, is closed or let go, is still held by one run at most. *)
LEMMA LoneKeeps ==
    ASSUME NEW k \in Rows, Lone(k), Less(k), post[Post(k)] = "gone" => post'[Post(k)] = "gone",
           \/ row'[k] = row[k]
           \/ row'[k].st \in {"expanded", "delivered", "failed"}
           \/ row'[k].st = "absent" /\ post'[Post(k)] = "gone"
           \/ ~Held(k)'
    PROVE  Lone(k)'
<1>1. \A q \in Runs : HeldBy(q, k)' => HeldBy(q, k) BY DEF Less, HeldBy
<1>2. \A q, r \in Runs : HeldBy(q, k)' /\ HeldBy(r, k)' => q = r BY <1>1 DEF Lone
<1>3. Held(k)' => Held(k) BY <1>1 DEF Held
<1>4. Held(k)' => HeldRow(k)' BY <1>3 DEF Lone, HeldRow
<1>5. ASSUME NEW q \in Runs, NEW i \in jobs'[q], i.row = k, row'[k].st = "in_flight"
      PROVE  i.att = row'[k].att
  <2>1. PICK j \in jobs[q] : j.row = k /\ j.att = i.att BY <1>5 DEF Less
  <2>2. Held(k)' BY <1>5 DEF Held, HeldBy
  <2>3. row'[k] = row[k] BY <1>5, <2>2
  <2>q. QED BY <1>5, <2>1, <2>3 DEF Lone
<1>q. QED BY <1>2, <1>4, <1>5 DEF Lone

(* A claim takes rows that wait, hence rows that nobody holds.             *)
LEMMA LoneByClaim ==
    ASSUME TypeOK, NEW k \in Rows, Lone(k), NEW r \in Runs, WorkOf(r),
           ClaimGeneric(r) \/ ClaimTargets(r)
    PROVE  Lone(k)' /\ row'[k].att = row[k].att
<1>0. /\ jobs \in [Runs -> SUBSET JobType] /\ batch \in [Runs -> SUBSET Rows]
      /\ row \in [Rows -> RowType]
  BY DEF TypeOK, JobType, RowType, States
<1>1. PICK T : /\ \A x \in T : x \in Rows /\ Due(x)
               /\ row' = Lease(T)
               /\ \/ batch' = [batch EXCEPT ![r] = T] /\ UNCHANGED jobs
                  \/ /\ UNCHANGED batch
                     /\ jobs' = [jobs EXCEPT ![r] =
                          {[row |-> x, att |-> row[x].att, ph |-> "claimed"] : x \in T}]
  <2>1. CASE ClaimGeneric(r)
    <3>1. PICK T \in Claimable({x \in Rows : Due(x) /\ Generic(x)}, GenericBatch) :
             row' = Lease(T) /\ batch' = [batch EXCEPT ![r] = T] /\ UNCHANGED jobs
      BY <2>1 DEF ClaimGeneric
    <3>2. \A x \in T : x \in Rows /\ Due(x) BY DEF Claimable
    <3>q. QED BY <3>1, <3>2
  <2>2. CASE ClaimTargets(r)
    <3>1. PICK T \in Claimable({x \in Rows : Due(x) /\ ~Generic(x)}, TargetBatch) :
             /\ row' = Lease(T) /\ UNCHANGED batch
             /\ jobs' = [jobs EXCEPT ![r] =
                          {[row |-> x, att |-> row[x].att, ph |-> "claimed"] : x \in T}]
      BY <2>2 DEF ClaimTargets
    <3>2. \A x \in T : x \in Rows /\ Due(x) BY DEF Claimable
    <3>q. QED BY <3>1, <3>2
  <2>q. QED BY <2>1, <2>2
<1>2. post' = post BY DEF ClaimGeneric, ClaimTargets
<1>3. row'[k].att = row[k].att BY <1>0, <1>1 DEF Lease, RowType
<1>4. RunAction(r) BY DEF RunAction, RunStep
<1>5. \A q \in Runs \ {r} : batch'[q] = batch[q] /\ jobs'[q] = jobs[q] BY <1>4, OtherJobs
<1>6. CASE k \notin T
  <2>1. row'[k] = row[k] BY <1>1, <1>6 DEF Lease
  <2>2. k \in batch'[r] => k \in batch[r] BY <1>0, <1>1, <1>6
  <2>3. \A i \in jobs'[r] : i.row = k => i \in jobs[r] BY <1>0, <1>1, <1>6
  <2>4. Less(k) BY <1>5, <2>2, <2>3 DEF Less
  <2>q. QED BY <1>2, <1>3, <2>1, <2>4, LoneKeeps
<1>7. CASE k \in T
  <2>1. Due(k) BY <1>1, <1>7
  <2>2. ~Held(k) BY <2>1 DEF Lone, HeldRow, Due
  <2>3. \A q \in Runs \ {r} : ~HeldBy(q, k)' BY <1>5, <2>2 DEF Held, HeldBy
  <2>4. row'[k].st = "in_flight" /\ ~row'[k].ripe BY <1>0, <1>1, <1>7 DEF Lease, RowType
  <2>5. \A j \in jobs[r] : j.row # k BY <2>2 DEF Held, HeldBy
  <2>6. \A i \in jobs'[r] : i.row = k => i.att = row[k].att BY <1>0, <1>1, <2>5
  <2>7. \A q \in Runs : \A j \in jobs'[q] : j.row = k => j.att = row'[k].att
    BY <1>3, <2>3, <2>6 DEF HeldBy
  <2>8. HeldRow(k)' BY <2>4 DEF HeldRow
  <2>q. QED BY <1>3, <2>3, <2>7, <2>8 DEF Lone
<1>q. QED BY <1>6, <1>7

(* A run that closes a delivery lets go of its row.                        *)
LEMMA LoneByClose ==
    ASSUME TypeOK, NEW k \in Rows, Lone(k), NEW r \in Runs, WorkOf(r),
           FailBlocked(r) \/ RecordOutcome(r)
    PROVE  Lone(k)' /\ row'[k].att >= row[k].att
<1>0. /\ jobs \in [Runs -> SUBSET JobType] /\ batch \in [Runs -> SUBSET Rows]
      /\ row \in [Rows -> RowType] /\ row[k].att \in Nat
  BY DEF TypeOK, JobType, RowType, States
<1>c. PICK j \in jobs[r] : \E st, att :
         /\ row' = Mark(j.row, st, att)
         /\ jobs' = [jobs EXCEPT ![r] = @ \ {j}]
         /\ att = row[j.row].att \/ att = NextAttempt(j.att)
  BY DEF FailBlocked, RecordOutcome, Close
<1>1. PICK st, att :
         /\ row' = Mark(j.row, st, att)
         /\ jobs' = [jobs EXCEPT ![r] = @ \ {j}]
         /\ att = row[j.row].att \/ att = NextAttempt(j.att)
  BY <1>c
<1>2. j \in JobType /\ jobs'[r] = jobs[r] \ {j} BY <1>0, <1>1
<1>3. RunAction(r) BY DEF RunAction, RunStep
<1>4. post' = post BY <1>3, RunFrame
<1>5. Less(k) BY <1>3, RunLess DEF FailBlocked, RecordOutcome, ClaimGeneric, ClaimTargets
<1>6. CASE row'[k] = row[k]
  BY <1>0, <1>4, <1>5, <1>6, LoneKeeps
<1>7. CASE row'[k] # row[k]
  <2>1. j.row = k /\ row[k].st = "in_flight" /\ row'[k].att = att
    BY <1>0, <1>1, <1>7 DEF Mark
  <2>2. HeldBy(r, k) BY <2>1 DEF HeldBy
  <2>3. ~Held(k)'
    <3>1. ASSUME NEW q \in Runs \ {r} PROVE ~HeldBy(q, k)'
      <4>1. ~HeldBy(q, k) BY <2>2 DEF Lone
      <4>2. batch'[q] = batch[q] /\ jobs'[q] = jobs[q] BY <1>3, OtherJobs
      <4>q. QED BY <4>1, <4>2 DEF HeldBy
    <3>2. ~HeldBy(r, k)'
      <4>1. batch' = batch /\ batch[r] = {} BY DEF FailBlocked, RecordOutcome, WorkOf
      <4>2. \A i \in jobs'[r] : i.row # k BY <1>2, <2>1 DEF WorkOf
      <4>q. QED BY <4>1, <4>2 DEF HeldBy
    <3>q. QED BY <3>1, <3>2 DEF Held
  <2>4. att >= row[k].att
    <3>1. j.att = row[k].att BY <2>1 DEF Lone
    <3>q. QED BY <1>0, <1>1, <2>1, <3>1 DEF NextAttempt
  <2>q. QED BY <1>4, <1>5, <2>1, <2>3, <2>4, LoneKeeps
<1>q. QED BY <1>6, <1>7

(* The other steps of a run.                                               *)
LEMMA LoneByRun ==
    ASSUME TypeOK, NEW k \in Rows, Lone(k), row[k].st = "absent" => row[k].att = 0, 
           NEW r \in Runs, WorkOf(r), RunAction(r)
    PROVE  Lone(k)' /\ row'[k].att >= row[k].att
<1> DEFINE Fine == /\ \/ row'[k] = row[k]
                      \/ row'[k].st \in {"expanded", "delivered", "failed"}
                      \/ ~Held(k)'
                   /\ row'[k].att >= row[k].att
<1>0. row \in [Rows -> RowType] /\ row[k] \in RowType /\ row[k].att \in Nat
  BY DEF TypeOK, RowType, States
<1>p. post' = post BY RunFrame
<1>1. CASE ClaimGeneric(r) \/ ClaimTargets(r) BY <1>0, <1>1, LoneByClaim
<1>2. CASE FailBlocked(r) \/ RecordOutcome(r) BY <1>2, LoneByClose
<1>3. CASE ~(ClaimGeneric(r) \/ ClaimTargets(r) \/ FailBlocked(r) \/ RecordOutcome(r))
  <2>1. Less(k) BY <1>3, RunLess
  <2>2. Held(k)' => Held(k)
    BY <2>1 DEF Less, Held, HeldBy
  <2>3. ASSUME Fine PROVE Lone(k)' /\ row'[k].att >= row[k].att
    BY <1>p, <2>1, <2>3, LoneKeeps
  <2> SUFFICES Fine BY <2>3
  <2> HIDE DEF Fine
  <2>4. CASE RequeueStale(r)
    <3>1. row'[k] = IF ~Stale(k) THEN row[k]
                    ELSE LET next == NextAttempt(row[k].att)
                         IN  IF IsTerminal(next)
                               THEN [st |-> "failed", att |-> next, ripe |-> FALSE]
                               ELSE [st |-> "queued", att |-> next, ripe |-> TRUE]
      BY <2>4 DEF RequeueStale
    <3>2. CASE ~Stale(k) BY <1>0, <3>1, <3>2 DEF Fine
    <3>3. CASE Stale(k)
      <4>1. ~Held(k) BY <3>3 DEF Stale, Lone, HeldRow
      <4>2. row'[k].att = row[k].att + 1 BY <3>1, <3>3 DEF NextAttempt
      <4>q. QED BY <1>0, <2>2, <4>1, <4>2 DEF Fine
    <3>q. QED BY <3>2, <3>3
  <2>5. CASE MarkCompleted(r) \/ FinishExpansion(r)
    <3>0. \/ row'[k] = row[k]
          \/ row'[k] = [row[k] EXCEPT !.st = "delivered", !.ripe = FALSE]
          \/ row'[k] = [row[k] EXCEPT !.st = "expanded", !.ripe = FALSE]
      BY <2>5 DEF MarkCompleted, FinishExpansion
    <3>1. \/ row'[k] = row[k]
          \/ row'[k].att = row[k].att /\ row'[k].st \in {"delivered", "expanded"}
      BY <1>0, <3>0 DEF RowType
    <3>q. QED BY <1>0, <3>1 DEF Fine
  <2>6. CASE ExpandChunk(r)
    <3>1. PICK C \in Chunks(r) : Inserts(C) /\ row' = InsertRows(C) BY <2>6 DEF ExpandChunk
    <3>2. CASE row'[k] = row[k] BY <1>0, <3>2 DEF Fine
    <3>3. CASE row'[k] # row[k]
      <4>1. k \in C /\ row[k].st = "absent" BY <3>1, <3>3, InsertedRows
      <4>2. post[Post(k)] # "gone" BY <3>1, <4>1 DEF Inserts
      <4>3. ~Held(k) BY <4>1, <4>2 DEF Lone, HeldRow
      <4>4. row'[k].att = 0 /\ row[k].att = 0
        BY <3>1, <3>3, <4>1, InsertedRows DEF Queued
      <4>q. QED BY <1>0, <2>2, <4>3, <4>4 DEF Fine
    <3>q. QED BY <3>2, <3>3
  <2>7. CASE \/ Start(r) \/ PlanExpansion(r) \/ CheckBlocks(r) \/ Send(r) \/ FinishRun(r)
             \/ Crash(r) \/ ExpandFails(r)
    <3>1. row' = row
      BY <2>7 DEF Start, PlanExpansion, CheckBlocks, Send, FinishRun, Crash, ExpandFails, table
    <3>q. QED BY <1>0, <3>1 DEF Fine
  <2>q. QED BY <1>3, <2>4, <2>5, <2>6, <2>7 DEF RunAction, RunStep
<1>q. QED BY <1>1, <1>2, <1>3

(* Everybody but author and runs leaves the row to whoever holds it, or    *)
(* closes it; the administrator, who does not, is accounted for.           *)
LEMMA LoneByPeople ==
    ASSUME TypeOK, NEW k \in Rows, Lone(k), PeopleAction, k \notin retried', ~RunsOutliveLease
    PROVE  Lone(k)' /\ row'[k].att = row[k].att
<1>0. row \in [Rows -> RowType] /\ row[k] \in RowType BY DEF TypeOK, RowType, States
<1>1. UNCHANGED <<batch, jobs>> BY OtherFrame DEF PeopleAction
<1>2. Less(k) BY <1>1 DEF Less
<1>3. Held(k)' <=> Held(k) BY <1>1 DEF Held, HeldBy
<1>4. post' = post BY PeopleRows
<1> DEFINE Fine == /\ \/ row'[k] = row[k]
                      \/ row'[k].st \in {"expanded", "delivered", "failed"}
                      \/ ~Held(k)
                   /\ row'[k].att = row[k].att
<1>5. ASSUME Fine PROVE Lone(k)' /\ row'[k].att = row[k].att
  BY <1>2, <1>3, <1>4, <1>5, LoneKeeps
<1> SUFFICES Fine BY <1>5
<1> HIDE DEF Fine
<1>6. ASSUME NEW a \in Movers, CancelRows(a) PROVE Fine
  <2>1. row'[k] = row[k] \/ row'[k] = [row[k] EXCEPT !.st = "failed", !.ripe = FALSE]
    BY <1>6 DEF CancelRows
  <2>q. QED BY <1>0, <2>1 DEF Fine, RowType
<1>7. ASSUME NEW x \in Rows, AdminRetry(x) PROVE Fine
  <2>1. x # k BY <1>7 DEF AdminRetry
  <2>q. QED BY <1>0, <1>7, <2>1 DEF Fine, AdminRetry
<1>8. ASSUME NEW x \in Rows, Age(x) PROVE Fine
  <2>1. CASE x # k BY <1>0, <1>8, <2>1 DEF Fine, Age
  <2>2. CASE x = k
    <3>1. ~Held(k) BY <1>8, <2>2 DEF Age, Lone, HeldRow
    <3>2. row'[k].att = row[k].att BY <1>0, <1>8, <2>2 DEF Age, RowType
    <3>q. QED BY <3>1, <3>2 DEF Fine
  <2>q. QED BY <2>1, <2>2
<1>9. ASSUME NEW a \in Movers, Follow(a) \/ Unfollow(a) \/ CancelLost(a) PROVE Fine
  BY <1>9 DEF Follow, Unfollow, CancelLost, table, Fine
<1>10. ASSUME NEW i \in Blockable, Block(i) \/ Unblock(i) PROVE Fine
  BY <1>10 DEF Block, Unblock, table, Fine
<1>11. CASE Kick BY <1>11 DEF Kick, table, Fine
<1>q. QED BY <1>6, <1>7, <1>8, <1>9, <1>10, <1>11 DEF PeopleAction, FollowerStep

(* The author adds rows that were not there, and takes away all the rows   *)
(* of a post once and for all.                                             *)
LEMMA LoneByAuthor ==
    ASSUME TypeOK, NEW k \in Rows, Lone(k), row[k].st = "absent" => row[k].att = 0,
           NEW p \in Posts, AuthorStep(p)
    PROVE  Lone(k)' /\ (row'[k].att = row[k].att \/ row'[k].st = "absent")
<1>1. UNCHANGED <<batch, jobs>> BY OtherFrame
<1>2. Less(k) BY <1>1 DEF Less
<1>3. Held(k)' <=> Held(k) BY <1>1 DEF Held, HeldBy
<1>4. post[p] # "gone"
  BY DEF AuthorStep, StoreWithMedia, Publish, EnqueueAddressed, EnqueueDeletes, DeleteStatus
<1>5. Post(k) \in Posts BY KeyParts
<1>6. post[Post(k)] = "gone" => post'[Post(k)] = "gone" BY <1>4, <1>5, AuthorWritten
<1>7. CASE row'[k] = row[k] BY <1>2, <1>6, <1>7, LoneKeeps
<1>8. CASE row'[k] # row[k]
  <2>1. Post(k) = p BY <1>8, AuthorRows
  <2>2. CASE row'[k] = Queued /\ row[k].st = "absent"
    <3>1. ~Held(k) BY <1>4, <2>1, <2>2 DEF Lone, HeldRow
    <3>2. row'[k].att = row[k].att BY <2>2 DEF Queued
    <3>q. QED BY <1>2, <1>3, <1>6, <3>1, <3>2, LoneKeeps
  <2>3. CASE row'[k] = Absent /\ post'[p] = "gone"
    <3>1. row'[k].st = "absent" BY <2>3 DEF Absent
    <3>q. QED BY <1>2, <1>6, <2>1, <2>3, <3>1, LoneKeeps
  <2>q. QED BY <1>8, <2>2, <2>3, AuthorRows
<1>q. QED BY <1>7, <1>8

-----------------------------------------------------------------------------
(* Who was put back by an administrator is never forgotten.                *)
LEMMA RetriedGrows == ASSUME [Next]_vars PROVE retried \subseteq retried'
<1>1. ASSUME NEW r \in Runs, RunAction(r) PROVE retried' = retried BY <1>1, RunFrame
<1>2. CASE PeopleAction \/ \E p \in Posts : AuthorStep(p)
  BY <1>2 DEF PeopleAction, AuthorStep, StoreWithMedia, Publish, EnqueueAddressed,
              EnqueueDeletes, DeleteStatus, FollowerStep, Follow, Unfollow,
              CancelRows, CancelLost, Block, Unblock, AdminRetry, Age, Kick, history
<1>q. QED BY <1>1, <1>2 DEF Next, PeopleAction, RunAction, vars, history

(* Only the administrator puts a row back, and only that row.              *)
LEMMA RetriedBy ==
    ASSUME Next, NEW k \in Rows, k \in retried', k \notin retried
    PROVE  AdminRetry(k)
<1>1. ASSUME NEW r \in Runs, RunAction(r) PROVE retried' = retried BY <1>1, RunFrame
<1>2. ASSUME NEW x \in Rows, AdminRetry(x) PROVE x = k BY <1>2 DEF AdminRetry
<1>3. ASSUME \/ \E p \in Posts : AuthorStep(p)
             \/ \E a \in Movers : FollowerStep(a)
             \/ \E i \in Blockable : Block(i) \/ Unblock(i)
             \/ \E x \in Rows : Age(x)
             \/ Kick
      PROVE  retried' = retried
  BY <1>3 DEF AuthorStep, StoreWithMedia, Publish, EnqueueAddressed, EnqueueDeletes,
              DeleteStatus, FollowerStep, Follow, Unfollow, CancelRows, CancelLost,
              Block, Unblock, Age, Kick, history
<1>q. QED BY <1>1, <1>2, <1>3 DEF Next, RunAction

(* A row that is not there starts with no attempt made.                    *)
LEMMA AbsentFresh ==
    ASSUME TypeOK, Shape, [Next]_vars, NEW k \in Rows,
           row[k].st = "absent" => row[k].att = 0
    PROVE  row'[k].st = "absent" => row'[k].att = 0
<1>1. ASSUME NEW r \in Runs, RunAction(r) PROVE row'[k].st = "absent" => row'[k].att = 0
  BY <1>1, RunRowStep DEF Requeued, Claimed, Completed, Inserted, Expanded, Settled, Queued
<1>2. CASE PeopleAction \/ \E p \in Posts : AuthorStep(p)
  BY <1>2, OtherRowStep DEF Absent, Inserted, Queued
<1>3. CASE UNCHANGED vars BY <1>3 DEF vars, table
<1>q. QED BY <1>1, <1>2, <1>3 DEF Next, PeopleAction, RunAction

(* Every run keeps the shape of its work, whoever moves.                   *)
LEMMA WorkStep ==
    ASSUME TypeOK, \A r \in Runs : WorkOf(r), [Next]_vars
    PROVE  (\A r \in Runs : WorkOf(r))'
<1>1. ASSUME NEW r \in Runs, RunAction(r), NEW q \in Runs PROVE WorkOf(q)'
  <2>1. CASE q = r BY <1>1, <2>1, WorkKept
  <2>2. CASE q # r BY <1>1, <2>2, OtherJobs DEF WorkOf
  <2>q. QED BY <2>1, <2>2
<1>2. CASE PeopleAction \/ \E p \in Posts : AuthorStep(p)
  <2>1. UNCHANGED <<pc, batch, jobs>> BY <1>2, OtherFrame DEF PeopleAction
  <2>q. QED BY <2>1 DEF WorkOf
<1>3. CASE UNCHANGED vars BY <1>3 DEF vars, workers, WorkOf
<1>q. QED BY <1>1, <1>2, <1>3 DEF Next, PeopleAction, RunAction

(* One step: a row nobody put back has at most one holder after it, and    *)
(* has not lost an attempt.                                                *)
LEMMA LoneStep ==
    ASSUME TypeOK, Shape, LeaseInv, [Next]_vars, ~RunsOutliveLease,
           NEW k \in Rows, k \notin retried'
    PROVE  Lone(k)' /\ (row'[k].att >= row[k].att \/ row'[k].st = "absent")
<1>1. Lone(k) /\ (row[k].st = "absent" => row[k].att = 0) BY RetriedGrows DEF LeaseInv
<1>2. row[k].att \in Nat BY DEF TypeOK
<1>3. ASSUME NEW r \in Runs, RunAction(r) PROVE Lone(k)' /\ row'[k].att >= row[k].att
  BY <1>1, <1>3, LoneByRun DEF LeaseInv
<1>4. CASE PeopleAction BY <1>1, <1>2, <1>4, LoneByPeople
<1>5. ASSUME NEW p \in Posts, AuthorStep(p)
      PROVE  Lone(k)' /\ (row'[k].att = row[k].att \/ row'[k].st = "absent")
  BY <1>1, <1>5, LoneByAuthor
<1>6. CASE UNCHANGED vars
  <2>1. UNCHANGED <<post, row, batch, jobs>> BY <1>6 DEF vars, table, workers
  <2>q. QED BY <1>1, <1>2, <2>1 DEF Lone, Held, HeldBy, HeldRow
<1>q. QED BY <1>2, <1>3, <1>4, <1>5, <1>6 DEF Next, PeopleAction, RunAction

(* LeaseInv holds at first ...                                             *)
LEMMA LeaseInit == Init => LeaseInv
  BY DEF Init, LeaseInv, WorkOf, Lone, Held, HeldBy, Absent

(* ... and kept by every step.                                             *)
LEMMA LeaseStep ==
    ASSUME TypeOK, Shape, LeaseInv, [Next]_vars PROVE LeaseInv'
<1>1. (\A r \in Runs : WorkOf(r))' BY WorkStep DEF LeaseInv
<1>2. \A k \in Rows : row'[k].st = "absent" => row'[k].att = 0
  BY AbsentFresh DEF LeaseInv
<1>3. ~RunsOutliveLease => \A k \in Rows \ retried' : Lone(k)' BY LoneStep
<1>q. QED BY <1>1, <1>2, <1>3 DEF LeaseInv

LeaseIInv == TypeOK /\ Shape /\ LeaseInv

(* The three parts together are inductive.                                 *)
LEMMA LeaseHolds == Spec => []LeaseIInv
<1>1. Init => Shape BY DEF Init, Shape, Absent
<1>2. Init => LeaseIInv BY <1>1, TypeInit, LeaseInit DEF LeaseIInv
<1>3. LeaseIInv /\ [Next]_vars => LeaseIInv'
  BY TypeStep, ShapeKept, LeaseStep DEF LeaseIInv
<1>q. QED BY <1>2, <1>3, PTL DEF Spec

(* As long as no run outlives its lease, no row is worked on by two runs   *)
(* at a time, unless an administrator put it back meanwhile: a claim takes *)
(* queued rows only, what a run holds is never queued, and a row that was  *)
(* cancelled or cascaded under a run does not come back to the queue.      *)
THEOREM LeasesExclude == Spec => []LeaseIsExclusive
<1>1. LeaseIInv => LeaseIsExclusive
  <2> SUFFICES ASSUME LeaseIInv, ~RunsOutliveLease, NEW q \in Runs, NEW r \in Runs,
                      NEW k \in Rows, HeldBy(q, k), HeldBy(r, k)
               PROVE  q = r \/ k \in retried
    BY DEF LeaseIsExclusive
  <2>q. QED BY DEF LeaseIInv, LeaseInv, Lone
<1>q. QED BY <1>1, LeaseHolds, PTL

(* The attempt count, which ends the retries, is never set back: what a    *)
(* run writes is one more than the count it claimed the row with, and      *)
(* nobody else has counted meanwhile (mark_outbox_delivery_failed).        *)
THEOREM AttemptsGrow == Spec => AttemptsOnlyGrow
<1> DEFINE Grow == ~RunsOutliveLease =>
                      \A k \in Rows : \/ row'[k].att >= row[k].att
                                      \/ row'[k].st = "absent"
                                      \/ k \in retried
<1>1. LeaseIInv /\ [Next]_vars => [Grow]_vars
  <2>1. ASSUME LeaseIInv, Next, NEW k \in Rows, ~RunsOutliveLease, k \notin retried
        PROVE  row'[k].att >= row[k].att \/ row'[k].st = "absent"
    <3>1. CASE k \notin retried' BY <2>1, <3>1, LoneStep DEF LeaseIInv
    <3>2. CASE k \in retried'
      <4>1. AdminRetry(k) BY <2>1, <3>2, RetriedBy
      <4>2. row[k] \in RowType BY <2>1 DEF LeaseIInv, TypeOK, RowType, States
      <4>3. row'[k].att = row[k].att BY <2>1, <4>1, <4>2 DEF AdminRetry, RowType, LeaseIInv, TypeOK
      <4>q. QED BY <4>2, <4>3 DEF RowType
    <3>q. QED BY <3>1, <3>2
  <2>q. QED BY <2>1
<1>2. Spec => [][Grow]_vars
  <2> HIDE DEF Grow
  <2>q. QED BY <1>1, LeaseHolds, PTL DEF Spec
<1>q. QED BY <1>2 DEF AttemptsOnlyGrow
=============================================================================
