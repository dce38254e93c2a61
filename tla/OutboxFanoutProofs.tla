------------------------- MODULE OutboxFanoutProofs --------------------------
(***************************************************************************)
(* Proofs about the outbox pipeline, for every set of runs, posts, actors  *)
(* and inboxes and every value of the limits.                              *)
(***************************************************************************)
EXTENDS OutboxFanout, TLAPS

States == {"absent", "queued", "in_flight", "expanded", "delivered", "failed"}
RowType == [st : States, att : Nat, ripe : BOOLEAN]
JobType == [row : Rows, att : Nat, ph : {"claimed", "blocked", "todo"} \cup Outcomes]

(* The parts of a row's key.                                               *)
LEMMA KeyParts ==
    ASSUME NEW k \in Rows
    PROVE  /\ Kind(k) \in {"Create", "Delete"}
           /\ Post(k) \in Posts
           /\ Inbox(k) \in Inboxes \cup {NoInbox}
           /\ k = <<Kind(k), Post(k), Inbox(k)>>
  BY DEF Rows, Kind, Post, Inbox

(* A key put together from its parts names a row and has those parts.      *)
LEMMA KeyMade ==
    ASSUME NEW kind \in {"Create", "Delete"}, NEW p \in Posts,
           NEW i \in Inboxes \cup {NoInbox}
    PROVE  /\ <<kind, p, i>> \in Rows
           /\ Kind(<<kind, p, i>>) = kind
           /\ Post(<<kind, p, i>>) = p
           /\ Inbox(<<kind, p, i>>) = i
  BY DEF Rows, Kind, Post, Inbox

(* The statements on the table keep its type.                              *)
LEMMA TableTypes ==
    ASSUME row \in [Rows -> RowType]
    PROVE  /\ \A S : InsertRows(S) \in [Rows -> RowType]
           /\ \A S : Lease(S) \in [Rows -> RowType]
           /\ \A p : Cascade(row, p) \in [Rows -> RowType]
           /\ \A S, p : Cascade(InsertRows(S), p) \in [Rows -> RowType]
           /\ \A k \in Rows, st \in States, att \in Nat : Mark(k, st, att) \in [Rows -> RowType]
  BY DEF RowType, States, InsertRows, Queued, Absent, Lease, Cascade, Mark

(* The delivery rules return outcomes, states and counts.                  *)
LEMMA OutcomeTypes ==
    /\ \A answer \in Answers : OutcomeOf(answer) \in Outcomes
    /\ \A next \in Nat, outcome \in Outcomes : StateAfter(next, outcome) \in States
    /\ \A att \in Nat : NextAttempt(att) \in Nat
  BY DEF Answers, OutcomeOf, Outcomes, StateAfter, States, NextAttempt

(* A message more is within the bound on messages.                         *)
LEMMA KickTypes == ASSUME NEW n \in 0 .. MaxKicks PROVE Kicked(n) \in 0 .. MaxKicks
  BY FanoutAssumption DEF Kicked

-----------------------------------------------------------------------------
(* The initial state is typed.                                             *)
LEMMA TypeInit == Init => TypeOK
  BY FanoutAssumption DEF Init, TypeOK, Absent, Steps

(* The statements of the publishing and deleting handlers keep the types.  *)
LEMMA TypeAuthor ==
    ASSUME TypeOK, NEW p \in Posts, AuthorStep(p) PROVE TypeOK'
<1> USE DEF TypeOK
<1>0. row \in [Rows -> RowType] BY DEF RowType, States
<1>1. CASE StoreWithMedia(p)
  BY <1>1 DEF StoreWithMedia, people, workers, history
<1>2. CASE Publish(p)
  <2>1. row' \in [Rows -> RowType]
    BY <1>0, <1>2, TableTypes DEF Publish
  <2>2. EntitledNow \in SUBSET Actors BY DEF EntitledNow
  <2>3. loyal' \in [Posts -> SUBSET Actors] BY <1>2, <2>2 DEF Publish
  <2>q. QED BY <1>2, <2>1, <2>3 DEF Publish, people, workers, RowType, States
<1>3. CASE EnqueueAddressed(p)
  <2>1. row' \in [Rows -> RowType]
    BY <1>0, <1>3, TableTypes DEF EnqueueAddressed
  <2>q. QED BY <1>3, <2>1 DEF EnqueueAddressed, people, workers, history, RowType, States
<1>4. CASE EnqueueDeletes(p)
  <2>1. row' \in [Rows -> RowType]
    BY <1>0, <1>4, TableTypes DEF EnqueueDeletes
  <2>q. QED BY <1>4, <2>1 DEF EnqueueDeletes, people, workers, history, RowType, States
<1>5. CASE DeleteStatus(p)
  <2>1. row' \in [Rows -> RowType]
    BY <1>0, <1>5, TableTypes DEF DeleteStatus
  <2>q. QED BY <1>5, <2>1 DEF DeleteStatus, people, workers, RowType, States
<1>q. QED BY <1>1, <1>2, <1>3, <1>4, <1>5 DEF AuthorStep

(* So do followers coming and going and domain blocks.                     *)
LEMMA TypePeople ==
    ASSUME TypeOK,
           \/ \E a \in Movers : FollowerStep(a)
           \/ \E i \in Blockable : Block(i) \/ Unblock(i)
    PROVE  TypeOK'
<1> USE FanoutAssumption DEF TypeOK
<1>1. ASSUME NEW a \in Movers, Follow(a) PROVE TypeOK'
  BY <1>1 DEF Follow, table, workers, history
<1>2. ASSUME NEW a \in Movers, Unfollow(a) PROVE TypeOK'
  BY <1>2 DEF Unfollow, table, workers
<1>3. ASSUME NEW a \in Movers, CancelRows(a) PROVE TypeOK'
  <2>1. ASSUME NEW k \in Rows PROVE row'[k] \in RowType
    <3>0. row[k] \in RowType BY DEF RowType, States
    <3>1. [row[k] EXCEPT !.st = "failed", !.ripe = FALSE] \in RowType
      BY <3>0 DEF RowType, States
    <3>2. row'[k] = row[k] \/ row'[k] = [row[k] EXCEPT !.st = "failed", !.ripe = FALSE]
      BY <1>3 DEF CancelRows
    <3>q. QED BY <3>0, <3>1, <3>2
  <2>2. row' \in [Rows -> RowType]
    <3>1. row' = [k \in Rows |-> row'[k]] BY <1>3 DEF CancelRows
    <3>q. QED BY <2>1, <3>1
  <2>q. QED BY <1>3, <2>2 DEF CancelRows, workers, history, RowType, States
<1>4. ASSUME NEW a \in Movers, CancelLost(a) PROVE TypeOK'
  BY <1>4 DEF CancelLost, table, workers, history
<1>5. ASSUME NEW i \in Blockable, Block(i) PROVE TypeOK'
  BY <1>5 DEF Block, table, workers
<1>6. ASSUME NEW i \in Blockable, Unblock(i) PROVE TypeOK'
  BY <1>6 DEF Unblock, table, workers, history
<1>q. QED BY <1>1, <1>2, <1>3, <1>4, <1>5, <1>6 DEF FollowerStep

(* So do an administrator, the clock and a kick.                           *)
LEMMA TypeClock ==
    ASSUME TypeOK, Kick \/ \E k \in Rows : AdminRetry(k) \/ Age(k)
    PROVE  TypeOK'
<1> USE FanoutAssumption DEF TypeOK
<1>1. CASE Kick BY <1>1 DEF Kick, table, people, workers, history
<1>2. ASSUME NEW k \in Rows, AdminRetry(k) PROVE TypeOK'
  <2>1. row' \in [Rows -> RowType]
    <3>0. row[k] \in RowType BY DEF RowType, States
    <3>1. [row[k] EXCEPT !.st = "queued", !.ripe = TRUE] \in RowType
      BY <3>0 DEF RowType, States
    <3>2. row' = [row EXCEPT ![k] = [row[k] EXCEPT !.st = "queued", !.ripe = TRUE]]
      BY <1>2 DEF AdminRetry
    <3>q. QED BY <3>1, <3>2 DEF RowType, States
  <2>q. QED BY <1>2, <2>1 DEF AdminRetry, people, workers, RowType, States
<1>3. ASSUME NEW k \in Rows, Age(k) PROVE TypeOK'
  <2>1. row' \in [Rows -> RowType]
    <3>0. row[k] \in RowType BY DEF RowType, States
    <3>1. [row[k] EXCEPT !.ripe = TRUE] \in RowType BY <3>0 DEF RowType
    <3>2. row' = [row EXCEPT ![k] = [row[k] EXCEPT !.ripe = TRUE]] BY <1>3 DEF Age
    <3>q. QED BY <3>1, <3>2 DEF RowType, States
  <2>q. QED BY <1>3, <2>1 DEF Age, people, workers, history, RowType, States
<1>q. QED BY <1>1, <1>2, <1>3

(* So does a run up to the claim of its targets.                           *)
LEMMA TypeExpansion ==
    ASSUME TypeOK, NEW r \in Runs,
           \/ Start(r) \/ RequeueStale(r) \/ ClaimGeneric(r) \/ PlanExpansion(r)
           \/ MarkCompleted(r) \/ ExpandChunk(r) \/ FinishExpansion(r)
    PROVE  TypeOK'
<1> USE FanoutAssumption DEF TypeOK
<1>0. row \in [Rows -> RowType] BY DEF RowType, States
<1>1. CASE Start(r) BY <1>1 DEF Start, table, people, history, Steps
<1>2. CASE RequeueStale(r)
  <2>1. row' \in [Rows -> RowType]
    BY <1>0, <1>2, OutcomeTypes DEF RequeueStale, RowType, States
  <2>q. QED BY <1>2, <2>1 DEF RequeueStale, people, history, Steps, RowType, States
<1>3. CASE ClaimGeneric(r)
  <2>1. PICK T \in Claimable({k \in Rows : Due(k) /\ Generic(k)}, GenericBatch) :
           /\ row' = Lease(T)
           /\ batch' = [batch EXCEPT ![r] = T]
           /\ pc' = [pc EXCEPT ![r] = IF T = {} THEN "targets" ELSE "plan"]
    BY <1>3 DEF ClaimGeneric
  <2>2. T \in SUBSET Rows BY DEF Claimable
  <2>3. row' \in [Rows -> RowType] BY <1>0, <2>1, TableTypes
  <2>q. QED BY <1>3, <2>1, <2>2, <2>3 DEF ClaimGeneric, people, history, Steps, RowType, States
<1>4. CASE PlanExpansion(r)
  <2>1. \A view : FanoutTargets(batch[r], view) \subseteq Inboxes
    BY DEF FanoutTargets
  <2>2. \A view : Copies(batch[r], FanoutTargets(batch[r], view)) \in SUBSET Rows
    BY <2>1, KeyParts, KeyMade DEF Copies
  <2>3. plan' \in [Runs -> SUBSET Rows] BY <1>4, <2>2 DEF PlanExpansion
  <2>4. pc' \in [Runs -> Steps] BY <1>4 DEF PlanExpansion, Steps
  <2>q. QED BY <1>4, <2>3, <2>4 DEF PlanExpansion, table, people, history
<1>5. CASE MarkCompleted(r)
  <2>1. row' \in [Rows -> RowType]
    <3>1. ASSUME NEW k \in Rows
          PROVE  [row[k] EXCEPT !.st = "delivered", !.ripe = FALSE] \in RowType
      <4>1. row[k] \in RowType BY <1>0
      <4>q. QED BY <4>1 DEF RowType, States
    <3>q. QED BY <1>0, <1>5, <3>1 DEF MarkCompleted
  <2>q. QED BY <1>5, <2>1 DEF MarkCompleted, people, history, Steps, RowType, States
<1>6. CASE ExpandChunk(r)
  <2>1. row' \in [Rows -> RowType] BY <1>0, <1>6, TableTypes DEF ExpandChunk
  <2>q. QED BY <1>6, <2>1 DEF ExpandChunk, people, history, RowType, States
<1>7. CASE FinishExpansion(r)
  <2>1. row' \in [Rows -> RowType]
    <3>1. ASSUME NEW k \in Rows
          PROVE  [row[k] EXCEPT !.st = "expanded", !.ripe = FALSE] \in RowType
      <4>1. row[k] \in RowType BY <1>0
      <4>q. QED BY <4>1 DEF RowType, States
    <3>q. QED BY <1>0, <1>7, <3>1 DEF FinishExpansion
  <2>q. QED BY <1>7, <2>1 DEF FinishExpansion, people, history, Steps, RowType, States
<1>q. QED BY <1>1, <1>2, <1>3, <1>4, <1>5, <1>6, <1>7

(* So does a run that delivers.                                            *)
LEMMA TypeDelivery ==
    ASSUME TypeOK, NEW r \in Runs,
           \/ ClaimTargets(r) \/ CheckBlocks(r) \/ FailBlocked(r) \/ Send(r)
           \/ RecordOutcome(r)
    PROVE  TypeOK'
<1> USE FanoutAssumption DEF TypeOK
<1>0. /\ row \in [Rows -> RowType]
      /\ jobs \in [Runs -> SUBSET JobType]
  BY DEF RowType, States, JobType
<1>1. CASE ClaimTargets(r)
  <2>1. PICK T \in Claimable({k \in Rows : Due(k) /\ ~Generic(k)}, TargetBatch) :
           /\ row' = Lease(T)
           /\ jobs' = [jobs EXCEPT ![r] =
                        {[row |-> k, att |-> row[k].att, ph |-> "claimed"] : k \in T}]
    BY <1>1 DEF ClaimTargets
  <2>2. T \in SUBSET Rows BY DEF Claimable
  <2>3. row' \in [Rows -> RowType] BY <1>0, <2>1, TableTypes
  <2>4. jobs' \in [Runs -> SUBSET JobType] BY <1>0, <2>1, <2>2 DEF JobType
  <2>q. QED BY <1>1, <2>3, <2>4
            DEF ClaimTargets, people, history, Steps, RowType, States, JobType
<1>2. CASE CheckBlocks(r)
  <2>1. \A view : {[j EXCEPT !.ph = IF Inbox(j.row) \in view THEN "blocked" ELSE "todo"]
                     : j \in jobs[r]} \in SUBSET JobType
    BY <1>0 DEF JobType
  <2>2. PICK view \in BlockViews : jobs' = [jobs EXCEPT ![r] =
               {[j EXCEPT !.ph = IF Inbox(j.row) \in view THEN "blocked" ELSE "todo"]
                  : j \in jobs[r]}]
    BY <1>2 DEF CheckBlocks
  <2>3. jobs' \in [Runs -> SUBSET JobType] BY <1>0, <2>1, <2>2
  <2>q. QED BY <1>2, <2>3 DEF CheckBlocks, table, people, history, Steps, JobType
<1>3. CASE FailBlocked(r)
  <2>1. PICK j \in jobs[r] : Close(r, j, "failed", NextAttempt(j.att))
    BY <1>3 DEF FailBlocked
  <2>2. row' \in [Rows -> RowType]
    <3>1. j \in JobType /\ j.row \in Rows /\ NextAttempt(j.att) \in Nat
      BY <1>0, OutcomeTypes DEF JobType
    <3>q. QED BY <1>0, <2>1, <3>1, TableTypes DEF Close, States
  <2>q. QED BY <1>3, <2>1, <2>2 DEF FailBlocked, Close, people, history, RowType, States
<1>4. CASE Send(r)
  <2>1. PICK j \in jobs[r], answer \in Seen :
           /\ jobs' = [jobs EXCEPT ![r] =
                        (@ \ {j}) \cup {[j EXCEPT !.ph = OutcomeOf(answer)]}]
           /\ received' = IF Reaches(answer) THEN received \cup {j.row} ELSE received
           /\ refused' = IF answer = "rejected" THEN refused \cup {j.row} ELSE refused
    BY <1>4 DEF Send
  <2>2. [j EXCEPT !.ph = OutcomeOf(answer)] \in JobType
    BY <1>0, OutcomeTypes DEF JobType
  <2>3. jobs' \in [Runs -> SUBSET JobType] BY <1>0, <2>1, <2>2
  <2>4. j.row \in Rows BY <1>0 DEF JobType
  <2>q. QED BY <1>4, <2>1, <2>3, <2>4 DEF Send, table, people, JobType
<1>5. CASE RecordOutcome(r)
  <2>1. PICK j \in jobs[r] :
           /\ j.ph \in Outcomes
           /\ Close(r, j, StateAfter(NextAttempt(j.att), j.ph),
                    IF j.ph = "ok" THEN row[j.row].att ELSE NextAttempt(j.att))
    BY <1>5 DEF RecordOutcome
  <2>2. j \in JobType BY <1>0
  <2>3. NextAttempt(j.att) \in Nat BY <2>2, OutcomeTypes DEF JobType
  <2>4. StateAfter(NextAttempt(j.att), j.ph) \in States BY <2>1, <2>3, OutcomeTypes
  <2>5. row[j.row].att \in Nat BY <1>0, <2>2 DEF JobType, RowType
  <2>6. row' \in [Rows -> RowType]
    <3>1. j.row \in Rows BY <2>2 DEF JobType
    <3>q. QED BY <1>0, <2>1, <2>3, <2>4, <2>5, <3>1, TableTypes DEF Close
  <2>q. QED BY <1>5, <2>1, <2>6 DEF RecordOutcome, Close, people, history, RowType, States
<1>q. QED BY <1>1, <1>2, <1>3, <1>4, <1>5

(* So does a run that ends, dies or is aborted.                            *)
LEMMA TypeEnd ==
    ASSUME TypeOK, NEW r \in Runs, FinishRun(r) \/ Crash(r) \/ ExpandFails(r)
    PROVE  TypeOK'
<1> USE FanoutAssumption, KickTypes DEF TypeOK
<1>1. CASE FinishRun(r) BY <1>1 DEF FinishRun, table, people, history, Steps
<1>2. CASE Crash(r) BY <1>2 DEF Crash, Stop, table, people, Steps
<1>3. CASE ExpandFails(r) BY <1>3 DEF ExpandFails, Stop, table, people, history, Steps
<1>q. QED BY <1>1, <1>2, <1>3

(* Every step keeps the types.                                             *)
LEMMA TypeStep == ASSUME TypeOK, [Next]_vars PROVE TypeOK'
<1>1. CASE \E p \in Posts : AuthorStep(p) BY <1>1, TypeAuthor
<1>2. CASE \/ \E a \in Movers : FollowerStep(a)
           \/ \E i \in Blockable : Block(i) \/ Unblock(i)
  BY <1>2, TypePeople
<1>3. CASE Kick \/ \E k \in Rows : AdminRetry(k) \/ Age(k) BY <1>3, TypeClock
<1>4. ASSUME NEW r \in Runs, Start(r) \/ RunStep(r) \/ Crash(r) PROVE TypeOK'
  BY <1>4, TypeExpansion, TypeDelivery, TypeEnd DEF RunStep
<1>5. CASE UNCHANGED vars
  BY <1>5 DEF TypeOK, vars, table, people, workers, history
<1>q. QED BY <1>1, <1>2, <1>3, <1>4, <1>5 DEF Next

(* The types are kept by every step, whatever the constants are.           *)
THEOREM TypesKept == Spec => []TypeOK
  BY TypeInit, TypeStep, PTL DEF Spec

-----------------------------------------------------------------------------
(* The shape of a run's work: what it expands are generic rows of posts    *)
(* already written out, what it sends are not generic.                     *)

Written(p) == post[p] \notin {"new", "stored"}

Shape ==
    /\ \A r \in Runs : \A k \in batch[r] : Generic(k) /\ Written(Post(k))
    /\ \A r \in Runs : \A k \in plan[r] : Written(Post(k))
    /\ \A r \in Runs : \A j \in jobs[r] : ~Generic(j.row)
    /\ \A k \in Rows : row[k].st # "absent" => Written(Post(k))

RunAction(r) == Start(r) \/ RunStep(r) \/ Crash(r)

(* What one step of a run may do to a row: it is not removed, it appears   *)
(* only as part of the plan, and a generic row is closed only when the run *)
(* found no targets or has inserted them all.                              *)
LEMMA RunRows ==
    ASSUME TypeOK, Shape, NEW r \in Runs, RunAction(r), NEW k \in Rows
    PROVE  /\ row[k].st # "absent" => row'[k].st # "absent"
           /\ row[k].st = "absent" /\ row'[k].st # "absent" => k \in plan[r]
           /\ Generic(k) /\ row'[k].st \in {"expanded", "delivered"}
                => \/ row[k].st \in {"expanded", "delivered"}
                   \/ k \in batch[r] /\ pc[r] = "complete"
                   \/ k \in batch[r] /\ pc[r] = "expand" /\ plan[r] = {}
<1> DEFINE Goal == /\ row[k].st # "absent" => row'[k].st # "absent"
                   /\ row[k].st = "absent" /\ row'[k].st # "absent" => k \in plan[r]
                   /\ Generic(k) /\ row'[k].st \in {"expanded", "delivered"}
                        => \/ row[k].st \in {"expanded", "delivered"}
                           \/ k \in batch[r] /\ pc[r] = "complete"
                           \/ k \in batch[r] /\ pc[r] = "expand" /\ plan[r] = {}
<1> SUFFICES Goal
  OBVIOUS
<1> USE DEF TypeOK
<1>1. CASE RequeueStale(r)
  BY <1>1 DEF RequeueStale, Stale
<1>2. CASE ClaimGeneric(r)
  <2>1. PICK T \in Claimable({x \in Rows : Due(x) /\ Generic(x)}, GenericBatch) :
           row' = Lease(T)
    BY <1>2 DEF ClaimGeneric
  <2>2. \A x \in T : Due(x) BY DEF Claimable
  <2>q. QED BY <2>1, <2>2 DEF Lease, Due
<1>3. CASE MarkCompleted(r)
  BY <1>3 DEF MarkCompleted
<1>4. CASE ExpandChunk(r)
  <2>1. PICK C \in Chunks(r) : row' = InsertRows(C) BY <1>4 DEF ExpandChunk
  <2>2. C \subseteq plan[r] BY DEF Chunks
  <2>q. QED BY <2>1, <2>2 DEF InsertRows, Queued
<1>5. CASE FinishExpansion(r)
  BY <1>5 DEF FinishExpansion, AllInserted
<1>6. CASE ClaimTargets(r)
  <2>1. PICK T \in Claimable({x \in Rows : Due(x) /\ ~Generic(x)}, TargetBatch) :
           row' = Lease(T)
    BY <1>6 DEF ClaimTargets
  <2>2. \A x \in T : Due(x) BY DEF Claimable
  <2>q. QED BY <2>1, <2>2 DEF Lease, Due
<1>7. CASE FailBlocked(r)
  BY <1>7 DEF FailBlocked, Close, Mark, Shape
<1>8. CASE RecordOutcome(r)
  <2>1. PICK j \in jobs[r], att \in Nat, st \in {"delivered", "failed", "queued"} :
           row' = Mark(j.row, st, att)
    <3>1. PICK j \in jobs[r] :
             /\ j.ph \in Outcomes
             /\ Close(r, j, StateAfter(NextAttempt(j.att), j.ph),
                      IF j.ph = "ok" THEN row[j.row].att ELSE NextAttempt(j.att))
      BY <1>8 DEF RecordOutcome
    <3>2. j.att \in Nat /\ j.row \in Rows
      OBVIOUS
    <3>3. row[j.row].att \in Nat
      BY <3>2
    <3>4. StateAfter(NextAttempt(j.att), j.ph) \in {"delivered", "failed", "queued"}
      BY <3>1 DEF StateAfter, Outcomes
    <3>5. NextAttempt(j.att) \in Nat BY <3>2 DEF NextAttempt
    <3>6. row' = Mark(j.row, StateAfter(NextAttempt(j.att), j.ph),
                     IF j.ph = "ok" THEN row[j.row].att ELSE NextAttempt(j.att))
      BY <3>1 DEF Close
    <3> HIDE DEF TypeOK
    <3>q. QED BY <3>3, <3>4, <3>5, <3>6
  <2>2. ~Generic(j.row) BY DEF Shape
  <2>q. QED BY <2>1, <2>2 DEF Mark
<1>9. CASE row' = row
  BY <1>9
<1>10. Start(r) \/ PlanExpansion(r) \/ CheckBlocks(r) \/ Send(r) \/ FinishRun(r)
         \/ Crash(r) \/ ExpandFails(r) => row' = row
  BY DEF Start, PlanExpansion, CheckBlocks, Send, FinishRun, Crash, ExpandFails, table
<1> HIDE DEF Goal, TypeOK
<1>q. QED
  BY <1>1, <1>2, <1>3, <1>4, <1>5, <1>6, <1>7, <1>8, <1>9, <1>10 DEF RunAction, RunStep

(* A run changes nobody else's state: posts, followers and blocks are not  *)
(* its business.                                                           *)
LEMMA RunFrame ==
    ASSUME NEW r \in Runs, RunAction(r)
    PROVE  UNCHANGED <<post, followers, blocked, leaving, loyal, retried>>
<1> USE DEF table, people, history
<1>1. CASE Start(r) BY <1>1 DEF Start
<1>2. CASE RequeueStale(r) BY <1>2 DEF RequeueStale
<1>3. CASE ClaimGeneric(r) BY <1>3 DEF ClaimGeneric
<1>4. CASE PlanExpansion(r) BY <1>4 DEF PlanExpansion
<1>5. CASE MarkCompleted(r) BY <1>5 DEF MarkCompleted
<1>6. CASE ExpandChunk(r) BY <1>6 DEF ExpandChunk
<1>7. CASE ExpandFails(r) BY <1>7 DEF ExpandFails
<1>8. CASE FinishExpansion(r) BY <1>8 DEF FinishExpansion
<1>9. CASE ClaimTargets(r) BY <1>9 DEF ClaimTargets
<1>10. CASE CheckBlocks(r) BY <1>10 DEF CheckBlocks
<1>11. CASE FailBlocked(r) BY <1>11 DEF FailBlocked
<1>12. CASE Send(r) BY <1>12 DEF Send
<1>13. CASE RecordOutcome(r) BY <1>13 DEF RecordOutcome
<1>14. CASE FinishRun(r) BY <1>14 DEF FinishRun
<1>15. CASE Crash(r) BY <1>15 DEF Crash
<1>q. QED
  BY <1>1, <1>2, <1>3, <1>4, <1>5, <1>6, <1>7, <1>8, <1>9, <1>10, <1>11, <1>12, <1>13, <1>14, <1>15
     DEF RunAction, RunStep

(* Who does not run the consumer leaves its work alone.                    *)
LEMMA OtherFrame ==
    ASSUME \/ \E p \in Posts : AuthorStep(p)
           \/ \E a \in Movers : FollowerStep(a)
           \/ \E i \in Blockable : Block(i) \/ Unblock(i)
           \/ \E k \in Rows : AdminRetry(k) \/ Age(k)
           \/ Kick
    PROVE  UNCHANGED <<pc, batch, plan, jobs, progress, received, refused>>
  BY DEF AuthorStep, StoreWithMedia, Publish, EnqueueAddressed, EnqueueDeletes,
         DeleteStatus, FollowerStep, Follow, Unfollow, CancelRows, CancelLost,
         Block, Unblock, AdminRetry, Age, Kick, workers, history

(* What a step of the author, a follower, an administrator or the clock    *)
(* may do to a row.                                                        *)
LEMMA InsertedRows ==
    ASSUME NEW S, NEW k \in Rows
    PROVE  \/ InsertRows(S)[k] = row[k]
           \/ k \in S /\ row[k].st = "absent" /\ InsertRows(S)[k] = Queued
  BY DEF InsertRows

(* A step of the author on post p touches only rows of p: it inserts them  *)
(* or, at the end, removes them all.                                       *)
LEMMA AuthorRows ==
    ASSUME TypeOK, NEW p \in Posts, AuthorStep(p), NEW k \in Rows
    PROVE  /\ row'[k] # row[k] => Post(k) = p /\ post[p] # post'[p]
           /\ row'[k] # row[k] => \/ (row'[k] = Queued /\ row[k].st = "absent")
                                 \/ (row'[k] = Absent /\ post'[p] = "gone")
           /\ row'[k].st # "absent" => row[k].st # "absent" \/ (Post(k) = p /\ Written(p)')
<1> USE DEF Written
<1>0. /\ \A x \in Rows : Post(x) \in Posts
      /\ post \in [Posts -> {"new", "stored", "published", "live", "deleting", "gone"}]
      /\ loyal \in [Posts -> SUBSET Actors]
  BY KeyParts DEF TypeOK
<1>1. CASE StoreWithMedia(p) BY <1>0, <1>1 DEF StoreWithMedia, history
<1>2. CASE Publish(p)
  <2>1. row' = row \/ row' = InsertRows({<<"Create", p, NoInbox>>}) BY <1>2 DEF Publish
  <2>2. \/ row'[k] = row[k]
        \/ k = <<"Create", p, NoInbox>> /\ row[k].st = "absent" /\ row'[k] = Queued
    BY <2>1, InsertedRows
  <2>3. Post(<<"Create", p, NoInbox>>) = p BY DEF Post
  <2>4. post' = [post EXCEPT ![p] = "published"] /\ post[p] # "published"
    BY <1>2 DEF Publish
  <2>5. \A q \in Posts \ {p} : loyal'[q] = loyal[q] BY <1>0, <1>2 DEF Publish
  <2>q. QED BY <1>0, <2>2, <2>3, <2>4, <2>5
<1>3. CASE EnqueueAddressed(p)
  <2>1. PICK view \in BlockViews : row' = InsertRows(Addressed("Create", p, view))
    BY <1>3 DEF EnqueueAddressed
  <2>2. \A x \in Addressed("Create", p, view) : Post(x) = p BY DEF Addressed, Post
  <2>3. \/ row'[k] = row[k]
        \/ Post(k) = p /\ row[k].st = "absent" /\ row'[k] = Queued
    BY <2>1, <2>2, InsertedRows
  <2>4. /\ post' = [post EXCEPT ![p] = "live"] /\ post[p] # "live"
        /\ loyal' = loyal
    BY <1>3 DEF EnqueueAddressed, history
  <2>q. QED BY <1>0, <2>3, <2>4
<1>4. CASE EnqueueDeletes(p)
  <2>1. PICK view \in BlockViews : row' = InsertRows(Addressed("Delete", p, view))
    BY <1>4 DEF EnqueueDeletes
  <2>2. \A x \in Addressed("Delete", p, view) : Post(x) = p BY DEF Addressed, Post
  <2>3. \/ row'[k] = row[k]
        \/ Post(k) = p /\ row[k].st = "absent" /\ row'[k] = Queued
    BY <2>1, <2>2, InsertedRows
  <2>4. /\ post' = [post EXCEPT ![p] = "deleting"] /\ post[p] # "deleting"
        /\ loyal' = loyal
    BY <1>4 DEF EnqueueDeletes, history
  <2>q. QED BY <1>0, <2>3, <2>4
<1>5. CASE DeleteStatus(p)
  BY <1>0, <1>5 DEF DeleteStatus, Cascade, InsertRows, Absent, Post
<1>q. QED BY <1>1, <1>2, <1>3, <1>4, <1>5 DEF AuthorStep

(* It leaves the other posts as they are, and what is written out stays    *)
(* so.                                                                     *)
LEMMA AuthorWritten ==
    ASSUME TypeOK, NEW p \in Posts, AuthorStep(p)
    PROVE  /\ \A q \in Posts \ {p} : post'[q] = post[q] /\ loyal'[q] = loyal[q]
           /\ \A q \in Posts : Written(q) => Written(q)'
<1>0. /\ post \in [Posts -> {"new", "stored", "published", "live", "deleting", "gone"}]
      /\ loyal \in [Posts -> SUBSET Actors]
  BY DEF TypeOK
<1> USE DEF Written, history
<1>1. CASE StoreWithMedia(p) BY <1>0, <1>1 DEF StoreWithMedia
<1>2. CASE Publish(p) BY <1>0, <1>2 DEF Publish
<1>3. CASE EnqueueAddressed(p) BY <1>0, <1>3 DEF EnqueueAddressed
<1>4. CASE EnqueueDeletes(p) BY <1>0, <1>4 DEF EnqueueDeletes
<1>5. CASE DeleteStatus(p) BY <1>0, <1>5 DEF DeleteStatus
<1>q. QED BY <1>1, <1>2, <1>3, <1>4, <1>5 DEF AuthorStep

(* It makes nobody entitled to a post already written out, and on          *)
(* publishing only who follows and is not blocked.                         *)
LEMMA AuthorLoyal ==
    ASSUME TypeOK, NEW p \in Posts, AuthorStep(p)
    PROVE  /\ UNCHANGED <<followers, blocked, leaving>>
           /\ Written(p) => loyal'[p] \subseteq loyal[p]
           /\ post'[p] = "gone" => loyal'[p] = {}
           /\ loyal'[p] \subseteq loyal[p] \cup EntitledNow
           /\ post'[p] = "stored" => loyal' = loyal /\ post[p] = "new"
           /\ post'[p] # "new"
<1>0. /\ post \in [Posts -> {"new", "stored", "published", "live", "deleting", "gone"}]
      /\ loyal \in [Posts -> SUBSET Actors]
  BY DEF TypeOK
<1> USE DEF Written, people, history
<1>1. CASE StoreWithMedia(p) BY <1>0, <1>1 DEF StoreWithMedia
<1>2. CASE Publish(p) BY <1>0, <1>2 DEF Publish
<1>3. CASE EnqueueAddressed(p) BY <1>0, <1>3 DEF EnqueueAddressed
<1>4. CASE EnqueueDeletes(p) BY <1>0, <1>4 DEF EnqueueDeletes
<1>5. CASE DeleteStatus(p) BY <1>0, <1>5 DEF DeleteStatus
<1>q. QED BY <1>1, <1>2, <1>3, <1>4, <1>5 DEF AuthorStep

(* Everybody else: rows neither appear nor go, and none is closed.         *)
PeopleAction ==
    \/ \E a \in Movers : FollowerStep(a)
    \/ \E i \in Blockable : Block(i) \/ Unblock(i)
    \/ \E k \in Rows : AdminRetry(k) \/ Age(k)
    \/ Kick

(* Nobody but author and runs makes rows appear, go or be closed.          *)
LEMMA PeopleRows ==
    ASSUME TypeOK, PeopleAction
    PROVE  /\ \A k \in Rows : row'[k].st = "absent" <=> row[k].st = "absent"
           /\ \A k \in Rows : row'[k].st \in {"expanded", "delivered"} => row'[k].st = row[k].st
           /\ post' = post
           /\ \A p \in Posts : loyal'[p] \subseteq loyal[p]
<1>0. /\ row \in [Rows -> RowType]
      /\ loyal \in [Posts -> SUBSET Actors]
  BY DEF TypeOK, RowType, States
<1> USE DEF table, people, history
<1>1. ASSUME NEW a \in Movers, Follow(a) \/ CancelLost(a) \/ Unfollow(a)
      PROVE  row' = row /\ post' = post /\ \A p \in Posts : loyal'[p] \subseteq loyal[p]
  BY <1>0, <1>1 DEF Follow, Unfollow, CancelLost
<1>2. ASSUME NEW a \in Movers, CancelRows(a)
      PROVE  /\ \A k \in Rows : row'[k].st = "absent" <=> row[k].st = "absent"
             /\ \A k \in Rows : row'[k].st \in {"expanded", "delivered"} => row'[k].st = row[k].st
             /\ post' = post /\ loyal' = loyal
  <2>1. row' = [k \in Rows |->
                IF /\ Inbox(k) = InboxOf[a]
                   /\ row[k].st \in {"queued", "expanded", "in_flight"}
                  THEN [row[k] EXCEPT !.st = "failed", !.ripe = FALSE]
                  ELSE row[k]]
    BY <1>2 DEF CancelRows
  <2>2. ASSUME NEW k \in Rows
        PROVE  \/ row'[k] = row[k]
               \/ row[k].st # "absent" /\ row'[k].st = "failed"
    <3>1. row[k] \in RowType BY <1>0
    <3>q. QED BY <2>1, <3>1 DEF RowType
  <2>q. QED BY <1>2, <2>2 DEF CancelRows
<1>3. ASSUME NEW i \in Blockable, Block(i) \/ Unblock(i)
      PROVE  row' = row /\ post' = post /\ \A p \in Posts : loyal'[p] \subseteq loyal[p]
  BY <1>0, <1>3 DEF Block, Unblock
<1>4. ASSUME NEW k \in Rows, AdminRetry(k) \/ Age(k)
      PROVE  /\ \A x \in Rows : row'[x].st = "absent" <=> row[x].st = "absent"
             /\ \A x \in Rows : row'[x].st \in {"expanded", "delivered"} => row'[x].st = row[x].st
             /\ post' = post /\ loyal' = loyal
  BY <1>0, <1>4 DEF AdminRetry, Age, RowType
<1>5. CASE Kick BY <1>5 DEF Kick
<1>q. QED BY <1>1, <1>2, <1>3, <1>4, <1>5 DEF PeopleAction, FollowerStep

-----------------------------------------------------------------------------
(* What PlanExpansion puts in the plan.                                    *)
LEMMA Planned ==
    ASSUME TypeOK, NEW r \in Runs, PlanExpansion(r)
    PROVE  \E view \in BlockViews :
             /\ plan'[r] = Copies(batch[r], FanoutTargets(batch[r], view))
             /\ pc'[r] = IF FanoutTargets(batch[r], view) = {} THEN "complete" ELSE "expand"
<1>0. plan \in [Runs -> SUBSET Rows] /\ pc \in [Runs -> Steps] BY DEF TypeOK
<1>q. QED BY <1>0 DEF PlanExpansion

(* Shape is kept.                                                          *)

(* A run keeps the shape: it claims generic rows to expand and other rows  *)
(* to send, and plans copies of what it claimed.                           *)
LEMMA RunShape ==
    ASSUME TypeOK, Shape, NEW r \in Runs, RunAction(r)
    PROVE  Shape'
<1> DEFINE Good == /\ \A k \in batch'[r] : Generic(k) /\ Written(Post(k))
                   /\ \A k \in plan'[r] : Written(Post(k))
                   /\ \A j \in jobs'[r] : ~Generic(j.row)
           Others == \A q \in Runs \ {r} : /\ batch'[q] = batch[q]
                                          /\ plan'[q] = plan[q]
                                          /\ jobs'[q] = jobs[q]
<1>0. /\ batch \in [Runs -> SUBSET Rows] /\ plan \in [Runs -> SUBSET Rows]
      /\ jobs \in [Runs -> SUBSET JobType]
      /\ row \in [Rows -> RowType]
  BY DEF TypeOK, JobType, RowType, States
<1>1. post' = post BY RunFrame
<1>2. \A k \in Rows : row'[k].st # "absent" => Written(Post(k))
  BY RunRows DEF Shape
<1>3. Good /\ Others
  <2> USE <1>0 DEF Shape
  <2>1. CASE Start(r) \/ RequeueStale(r) BY <2>1 DEF Start, RequeueStale
  <2>2. CASE ClaimGeneric(r)
    <3>1. PICK T \in Claimable({k \in Rows : Due(k) /\ Generic(k)}, GenericBatch) :
             batch' = [batch EXCEPT ![r] = T]
      BY <2>2 DEF ClaimGeneric
    <3>2. \A k \in T : k \in Rows /\ Due(k) /\ Generic(k) BY DEF Claimable
    <3>3. \A k \in T : Written(Post(k)) BY <3>2 DEF Due
    <3>q. QED BY <2>2, <3>1, <3>2, <3>3 DEF ClaimGeneric
  <2>3. CASE PlanExpansion(r)
    <3>1. PICK view \in BlockViews :
             plan'[r] = Copies(batch[r], FanoutTargets(batch[r], view))
      BY <2>3, Planned
    <3>2. \A k \in plan'[r] : Written(Post(k))
      BY <3>1 DEF Copies, Post
    <3>q. QED BY <2>3, <3>1, <3>2 DEF PlanExpansion
  <2>4. CASE MarkCompleted(r) BY <2>4 DEF MarkCompleted
  <2>5. CASE ExpandChunk(r) BY <2>5 DEF ExpandChunk
  <2>6. CASE ExpandFails(r) BY <2>6 DEF ExpandFails, Stop
  <2>7. CASE FinishExpansion(r) BY <2>7 DEF FinishExpansion
  <2>8. CASE ClaimTargets(r)
    <3>1. PICK T \in Claimable({k \in Rows : Due(k) /\ ~Generic(k)}, TargetBatch) :
             jobs' = [jobs EXCEPT ![r] =
                      {[row |-> k, att |-> row[k].att, ph |-> "claimed"] : k \in T}]
      BY <2>8 DEF ClaimTargets
    <3>2. \A k \in T : ~Generic(k) BY DEF Claimable
    <3>q. QED BY <2>8, <3>1, <3>2 DEF ClaimTargets
  <2>9. CASE CheckBlocks(r)
    <3>1. PICK view \in BlockViews :
             jobs' = [jobs EXCEPT ![r] =
                   {[j EXCEPT !.ph = IF Inbox(j.row) \in view THEN "blocked" ELSE "todo"]
                      : j \in jobs[r]}]
      BY <2>9 DEF CheckBlocks
    <3>2. \A j \in jobs'[r] : ~Generic(j.row) BY <3>1 DEF JobType
    <3>q. QED BY <2>9, <3>1, <3>2 DEF CheckBlocks
  <2>10. CASE FailBlocked(r) BY <2>10 DEF FailBlocked, Close
  <2>11. CASE Send(r)
    <3>1. PICK j \in jobs[r], answer \in Seen :
             jobs' = [jobs EXCEPT ![r] = (@ \ {j}) \cup {[j EXCEPT !.ph = OutcomeOf(answer)]}]
      BY <2>11 DEF Send
    <3>2. [j EXCEPT !.ph = OutcomeOf(answer)].row = j.row BY DEF JobType
    <3>3. \A x \in jobs'[r] : ~Generic(x.row) BY <3>1, <3>2
    <3>q. QED BY <2>11, <3>1, <3>3 DEF Send
  <2>12. CASE RecordOutcome(r) BY <2>12 DEF RecordOutcome, Close
  <2>13. CASE FinishRun(r) BY <2>13 DEF FinishRun
  <2>14. CASE Crash(r) BY <2>14 DEF Crash, Stop
  <2> HIDE DEF Good, Others
  <2>q. QED
    BY <2>1, <2>2, <2>3, <2>4, <2>5, <2>6, <2>7, <2>8, <2>9, <2>10, <2>11, <2>12, <2>13, <2>14
       DEF RunAction, RunStep
<1>q. QED BY <1>1, <1>2, <1>3 DEF Shape, Written

(* Every step keeps the shape.                                             *)
LEMMA ShapeKept == ASSUME TypeOK, Shape, [Next]_vars PROVE Shape'
<1>1. ASSUME NEW p \in Posts, AuthorStep(p) PROVE Shape'
  <2>1. UNCHANGED <<batch, plan, jobs>> BY <1>1, OtherFrame
  <2>2. \A q \in Posts : Written(q) => Written(q)'
    BY <1>1, AuthorWritten
  <2>3. \A k \in Rows : row'[k].st # "absent" => Written(Post(k))'
    BY <1>1, <2>2, AuthorRows, KeyParts DEF Shape
  <2>4. \A r \in Runs : batch[r] \subseteq Rows /\ plan[r] \subseteq Rows
    BY DEF TypeOK
  <2>q. QED BY <2>1, <2>2, <2>3, <2>4, KeyParts DEF Shape
<1>2. CASE PeopleAction
  <2>1. UNCHANGED <<batch, plan, jobs>> BY <1>2, OtherFrame DEF PeopleAction
  <2>q. QED BY <1>2, <2>1, PeopleRows DEF Shape, Written
<1>3. ASSUME NEW r \in Runs, RunAction(r) PROVE Shape'
  BY <1>3, RunShape
<1>4. CASE UNCHANGED vars
  BY <1>4 DEF Shape, Written, vars, table, workers
<1>q. QED BY <1>1, <1>2, <1>3, <1>4 DEF Next, PeopleAction, RunAction

-----------------------------------------------------------------------------
(* No follower is skipped.                                                 *)

(* An entitled actor follows and is not blocked; nobody is entitled to a   *)
(* post that is not written out yet or no longer there.                    *)
Entitlement ==
    \A p \in Posts :
        /\ \A a \in loyal[p] : a \in followers /\ InboxOf[a] \notin blocked
        /\ post[p] \in {"new", "stored", "gone"} => loyal[p] = {}

CopyOf(p, a) == <<"Create", p, InboxOf[a]>>

(* What a run has in hand for an entitled actor: a run that found nobody   *)
(* to deliver to has no such actor, and a run that expands a post still    *)
(* plans the actor's row or has inserted it.                               *)
Covered ==
    \A r \in Runs : \A k \in batch[r] :
        Kind(k) = "Create" =>
            \A a \in loyal[Post(k)] :
                /\ pc[r] # "complete"
                /\ pc[r] = "expand" =>
                      CopyOf(Post(k), a) \in plan[r] \/ row[CopyOf(Post(k), a)].st # "absent"

FanoutInv == TypeOK /\ Shape /\ Entitlement /\ Covered /\ NoFollowerSkipped

(* The keys of a follower's copy and of the generic row are keys.          *)
LEMMA CopyKey ==
    ASSUME NEW p \in Posts, NEW a \in Actors
    PROVE  /\ CopyOf(p, a) \in Rows /\ Post(CopyOf(p, a)) = p
           /\ <<"Create", p, NoInbox>> \in Rows
           /\ Post(<<"Create", p, NoInbox>>) = p
           /\ Kind(<<"Create", p, NoInbox>>) = "Create"
           /\ Generic(<<"Create", p, NoInbox>>)
<1>1. InboxOf[a] \in Inboxes BY FanoutAssumption
<1>q. QED BY <1>1, KeyMade DEF CopyOf, Generic

(* The invariant holds initially: there are no rows and no work.           *)
LEMMA FanoutInit == Init => FanoutInv
<1>1. Init => TypeOK BY TypeInit
<1>2. Init => Shape /\ Entitlement /\ Covered /\ NoFollowerSkipped
  BY KeyParts DEF Init, Shape, Entitlement, Covered, NoFollowerSkipped, Absent
<1>q. QED BY <1>1, <1>2 DEF FanoutInv

(* Every step keeps entitlement: leaving and blocking end it.              *)
LEMMA EntitlementKept ==
    ASSUME TypeOK, Entitlement, [Next]_vars PROVE Entitlement'
<1>0. /\ loyal \in [Posts -> SUBSET Actors]
      /\ post \in [Posts -> {"new", "stored", "published", "live", "deleting", "gone"}]
  BY DEF TypeOK
<1>1. ASSUME NEW p \in Posts, AuthorStep(p) PROVE Entitlement'
  <2>1. \A q \in Posts \ {p} : post'[q] = post[q] /\ loyal'[q] = loyal[q]
    BY <1>1, AuthorWritten
  <2>2. UNCHANGED <<followers, blocked>> BY <1>1, AuthorLoyal
  <2>3. \A a \in loyal'[p] : a \in followers /\ InboxOf[a] \notin blocked
    BY <1>1, AuthorLoyal DEF EntitledNow, Entitlement
  <2>4. post'[p] \in {"new", "stored", "gone"} => loyal'[p] = {}
    BY <1>1, AuthorLoyal DEF Entitlement
  <2>q. QED BY <2>1, <2>2, <2>3, <2>4 DEF Entitlement
<1>2. ASSUME NEW a \in Movers, FollowerStep(a) PROVE Entitlement'
  BY <1>0, <1>2 DEF FollowerStep, Follow, Unfollow, CancelRows, CancelLost,
                    Entitlement, table, history
<1>3. ASSUME NEW i \in Blockable, Block(i) \/ Unblock(i) PROVE Entitlement'
  BY <1>0, <1>3 DEF Block, Unblock, Entitlement, table, history
<1>4. CASE Kick \/ \E k \in Rows : AdminRetry(k) \/ Age(k)
  BY <1>4 DEF Kick, AdminRetry, Age, Entitlement, table, people, history
<1>5. ASSUME NEW r \in Runs, RunAction(r) PROVE Entitlement'
  BY <1>5, RunFrame DEF Entitlement
<1>6. CASE UNCHANGED vars
  BY <1>6 DEF Entitlement, vars, table, people, history
<1>q. QED BY <1>1, <1>2, <1>3, <1>4, <1>5, <1>6 DEF Next, RunAction

(* A step of a run either leaves a claimed row where it is in the run, or  *)
(* plans its expansion, or inserts a chunk of it, or has done with it.     *)
LEMMA RunBatch ==
    ASSUME TypeOK, NEW r \in Runs, RunAction(r), pc'[r] \in {"complete", "expand"}
    PROVE  /\ batch' = batch
           /\ \/ PlanExpansion(r)
              \/ /\ pc[r] = pc'[r] /\ pc[r] = "expand"
                 /\ \A k \in plan[r] : k \in plan'[r] \/ row'[k].st # "absent"
<1>0. /\ pc \in [Runs -> Steps] /\ plan \in [Runs -> SUBSET Rows]
      /\ row \in [Rows -> RowType]
  BY DEF TypeOK, RowType, States
<1>1. CASE ExpandChunk(r)
  <2>1. PICK C \in Chunks(r) : /\ row' = InsertRows(C)
                              /\ plan' = [plan EXCEPT ![r] = @ \ C]
    BY <1>1 DEF ExpandChunk
  <2>2. \A k \in C : k \in Rows => row'[k].st # "absent"
    BY <2>1 DEF InsertRows, Queued
  <2>q. QED BY <1>0, <1>1, <2>1, <2>2 DEF ExpandChunk
<1>2. CASE PlanExpansion(r) BY <1>2 DEF PlanExpansion
<1>3. CASE Start(r) BY <1>0, <1>3 DEF Start
<1>4. CASE RequeueStale(r) BY <1>0, <1>4 DEF RequeueStale
<1>5. CASE ClaimGeneric(r) BY <1>0, <1>5 DEF ClaimGeneric
<1>6. CASE MarkCompleted(r) BY <1>0, <1>6 DEF MarkCompleted
<1>7. CASE FinishExpansion(r) BY <1>0, <1>7 DEF FinishExpansion
<1>8. CASE ClaimTargets(r) BY <1>0, <1>8 DEF ClaimTargets
<1>9. CASE CheckBlocks(r) BY <1>0, <1>9 DEF CheckBlocks
<1>10. CASE FailBlocked(r) \/ Send(r) \/ RecordOutcome(r)
  <2>1. pc[r] = "send" /\ pc' = pc BY <1>10 DEF FailBlocked, Send, RecordOutcome
  <2>q. QED BY <2>1
<1>11. CASE FinishRun(r) BY <1>0, <1>11 DEF FinishRun
<1>12. CASE Crash(r) \/ ExpandFails(r) BY <1>0, <1>12 DEF Crash, ExpandFails, Stop
<1>q. QED
  BY <1>1, <1>2, <1>3, <1>4, <1>5, <1>6, <1>7, <1>8, <1>9, <1>10, <1>11, <1>12
     DEF RunAction, RunStep

(* A run leaves the other runs' work alone.                                *)
LEMMA RunOthers ==
    ASSUME TypeOK, NEW r \in Runs, RunAction(r), NEW q \in Runs \ {r}
    PROVE  pc'[q] = pc[q] /\ batch'[q] = batch[q] /\ plan'[q] = plan[q]
<1>0. /\ pc \in [Runs -> Steps] /\ plan \in [Runs -> SUBSET Rows]
      /\ batch \in [Runs -> SUBSET Rows]
  BY DEF TypeOK
<1>1. CASE Start(r) BY <1>0, <1>1 DEF Start
<1>2. CASE RequeueStale(r) BY <1>0, <1>2 DEF RequeueStale
<1>3. CASE ClaimGeneric(r) BY <1>0, <1>3 DEF ClaimGeneric
<1>4. CASE PlanExpansion(r) BY <1>0, <1>4 DEF PlanExpansion
<1>5. CASE MarkCompleted(r) BY <1>0, <1>5 DEF MarkCompleted
<1>6. CASE ExpandChunk(r) BY <1>0, <1>6 DEF ExpandChunk
<1>7. CASE FinishExpansion(r) BY <1>0, <1>7 DEF FinishExpansion
<1>8. CASE ClaimTargets(r) BY <1>0, <1>8 DEF ClaimTargets
<1>9. CASE CheckBlocks(r) BY <1>0, <1>9 DEF CheckBlocks
<1>10. CASE FailBlocked(r) BY <1>10 DEF FailBlocked
<1>11. CASE Send(r) BY <1>11 DEF Send
<1>12. CASE RecordOutcome(r) BY <1>12 DEF RecordOutcome
<1>13. CASE FinishRun(r) BY <1>0, <1>13 DEF FinishRun
<1>14. CASE Crash(r) \/ ExpandFails(r) BY <1>0, <1>14 DEF Crash, ExpandFails, Stop
<1>q. QED
  BY <1>1, <1>2, <1>3, <1>4, <1>5, <1>6, <1>7, <1>8, <1>9, <1>10, <1>11, <1>12, <1>13, <1>14
     DEF RunAction, RunStep

(* A run keeps its work covered: it plans a copy for every entitled actor, *)
(* because it reads the followers and a view of the blocks that has none   *)
(* too many, and takes a copy out of the plan only by inserting it.        *)
LEMMA CoveredByRun ==
    ASSUME TypeOK, Shape, Entitlement, Covered, NEW r \in Runs, RunAction(r)
    PROVE  Covered'
<1>0. /\ loyal \in [Posts -> SUBSET Actors] /\ batch \in [Runs -> SUBSET Rows]
      /\ loyal' = loyal
  BY RunFrame DEF TypeOK
<1>1. \A k \in Rows : row[k].st # "absent" => row'[k].st # "absent"
  BY RunRows
<1>2. SUFFICES ASSUME NEW q \in Runs, NEW k \in batch'[q], Kind(k) = "Create",
                      NEW a \in loyal[Post(k)],
                      pc'[q] \in {"complete", "expand"}
               PROVE  /\ pc'[q] # "complete"
                      /\ \/ CopyOf(Post(k), a) \in plan'[q]
                         \/ row'[CopyOf(Post(k), a)].st # "absent"
  BY <1>0 DEF Covered
<1>3. batch'[q] = batch[q] BY <1>2, RunBatch, RunOthers
<1>4. Post(k) \in Posts /\ a \in Actors /\ CopyOf(Post(k), a) \in Rows
  BY <1>0, <1>3, KeyParts, CopyKey
<1>5. CASE q # r
  <2>1. pc'[q] = pc[q] /\ plan'[q] = plan[q] BY <1>5, RunOthers
  <2>q. QED BY <1>1, <1>2, <1>3, <1>4, <2>1 DEF Covered
<1>6. CASE q = r /\ PlanExpansion(r)
  <2>1. PICK view \in BlockViews :
          /\ plan'[r] = Copies(batch[r], FanoutTargets(batch[r], view))
          /\ pc'[r] = IF FanoutTargets(batch[r], view) = {} THEN "complete" ELSE "expand"
    BY <1>6, Planned
  <2>2. view \subseteq blocked BY DEF BlockViews
  <2>3. a \in followers /\ InboxOf[a] \notin blocked BY <1>4 DEF Entitlement
  <2>4. InboxOf[a] \in FanoutTargets(batch[r], view)
    BY <2>2, <2>3 DEF FanoutTargets
  <2>5. CopyOf(Post(k), a) \in plan'[r]
    BY <1>2, <1>3, <1>6, <2>1, <2>4 DEF Copies, CopyOf
  <2>q. QED BY <1>6, <2>1, <2>4, <2>5
<1>7. CASE q = r /\ ~PlanExpansion(r)
  <2>1. /\ pc[r] = "expand" /\ pc'[r] = "expand"
        /\ \A x \in plan[r] : x \in plan'[r] \/ row'[x].st # "absent"
    BY <1>2, <1>7, RunBatch
  <2>q. QED BY <1>1, <1>2, <1>3, <1>4, <1>7, <2>1 DEF Covered
<1>q. QED BY <1>5, <1>6, <1>7

(* So a run that closes a generic row has inserted all the copies.         *)
LEMMA SkippedByRun ==
    ASSUME FanoutInv, NEW r \in Runs, RunAction(r)
    PROVE  NoFollowerSkipped'
<1>0. loyal \in [Posts -> SUBSET Actors] /\ loyal' = loyal
  BY RunFrame DEF FanoutInv, TypeOK
<1>1. SUFFICES ASSUME NEW p \in Posts, NEW a \in loyal[p],
                      row'[<<"Create", p, NoInbox>>].st \in {"expanded", "delivered"}
               PROVE  row'[CopyOf(p, a)].st # "absent"
  BY <1>0 DEF NoFollowerSkipped, CopyOf
<1>2. a \in Actors BY <1>0
<1>3. row[CopyOf(p, a)].st # "absent"
  <2>1. CASE row[<<"Create", p, NoInbox>>].st \in {"expanded", "delivered"}
    BY <2>1 DEF FanoutInv, NoFollowerSkipped, CopyOf
  <2>2. CASE row[<<"Create", p, NoInbox>>].st \notin {"expanded", "delivered"}
    <3>1. /\ <<"Create", p, NoInbox>> \in batch[r]
          /\ pc[r] = "complete" \/ (pc[r] = "expand" /\ plan[r] = {})
      BY <1>1, <1>2, <2>2, CopyKey, RunRows DEF FanoutInv
    <3>q. QED BY <1>2, <3>1, CopyKey DEF FanoutInv, Covered
  <2>q. QED BY <2>1, <2>2
<1>q. QED BY <1>2, <1>3, CopyKey, RunRows DEF FanoutInv

(* The author cannot uncover a post: inserting does no harm and the        *)
(* removal of its rows ends all entitlement to it.                         *)
LEMMA FanoutByAuthor ==
    ASSUME FanoutInv, NEW p \in Posts, AuthorStep(p)
    PROVE  Covered' /\ NoFollowerSkipped'
<1>0. /\ loyal \in [Posts -> SUBSET Actors] /\ batch \in [Runs -> SUBSET Rows]
      /\ TypeOK /\ Shape /\ Entitlement /\ Covered /\ NoFollowerSkipped
  BY DEF FanoutInv, TypeOK
<1>1. UNCHANGED <<pc, batch, plan>> BY OtherFrame
<1>2. \A q \in Posts : Written(q) => loyal'[q] \subseteq loyal[q]
  BY <1>0, AuthorWritten, AuthorLoyal
<1>3. ASSUME NEW q \in Posts, NEW a \in loyal'[q], Written(q),
             row[CopyOf(q, a)].st # "absent"
      PROVE  row'[CopyOf(q, a)].st # "absent"
  <2>1. a \in Actors /\ a \in loyal[q] BY <1>0, <1>2, <1>3
  <2>2. CopyOf(q, a) \in Rows /\ Post(CopyOf(q, a)) = q BY <2>1, CopyKey
  <2>3. CASE row'[CopyOf(q, a)] = row[CopyOf(q, a)] BY <1>3, <2>3
  <2>4. CASE row'[CopyOf(q, a)] # row[CopyOf(q, a)]
    <3>1. q = p /\ (row'[CopyOf(q, a)] = Queued \/ post'[p] = "gone")
      BY <1>0, <2>2, <2>4, AuthorRows
    <3>2. post'[p] # "gone" BY <1>0, <1>3, <3>1, AuthorLoyal
    <3>q. QED BY <3>1, <3>2 DEF Queued
  <2>q. QED BY <2>3, <2>4
<1>4. Covered'
  <2>1. SUFFICES ASSUME NEW r \in Runs, NEW k \in batch[r], Kind(k) = "Create",
                        NEW a \in loyal'[Post(k)]
                 PROVE  /\ pc[r] # "complete"
                        /\ pc[r] = "expand" => \/ CopyOf(Post(k), a) \in plan[r]
                                              \/ row'[CopyOf(Post(k), a)].st # "absent"
    BY <1>1 DEF Covered
  <2>2. k \in Rows /\ Written(Post(k)) /\ Post(k) \in Posts
    BY <1>0, KeyParts DEF Shape
  <2>3. a \in loyal[Post(k)] BY <1>2, <2>2
  <2>q. QED BY <1>0, <1>3, <2>1, <2>2, <2>3 DEF Covered
<1>5. NoFollowerSkipped'
  <2>1. SUFFICES ASSUME NEW q \in Posts, NEW a \in loyal'[q],
                        row'[<<"Create", q, NoInbox>>].st \in {"expanded", "delivered"}
                 PROVE  row'[CopyOf(q, a)].st # "absent"
    BY DEF NoFollowerSkipped, CopyOf
  <2>2. <<"Create", q, NoInbox>> \in Rows /\ Post(<<"Create", q, NoInbox>>) = q
    BY KeyMade
  <2>3. row'[<<"Create", q, NoInbox>>] = row[<<"Create", q, NoInbox>>]
    BY <1>0, <2>1, <2>2, AuthorRows DEF Queued, Absent
  <2>4. Written(q) BY <1>0, <2>1, <2>2, <2>3 DEF Shape
  <2>5. row[CopyOf(q, a)].st # "absent"
    BY <1>0, <1>2, <2>1, <2>3, <2>4 DEF NoFollowerSkipped, CopyOf
  <2>q. QED BY <1>3, <2>4, <2>5
<1>q. QED BY <1>4, <1>5

(* Neither can anybody else.                                               *)
LEMMA FanoutByPeople ==
    ASSUME FanoutInv, PeopleAction
    PROVE  Covered' /\ NoFollowerSkipped'
<1>0. /\ loyal \in [Posts -> SUBSET Actors] /\ batch \in [Runs -> SUBSET Rows]
      /\ TypeOK /\ Covered /\ NoFollowerSkipped
  BY DEF FanoutInv, TypeOK
<1>1. UNCHANGED <<pc, batch, plan>> BY OtherFrame DEF PeopleAction
<1>2. /\ \A k \in Rows : row'[k].st = "absent" <=> row[k].st = "absent"
      /\ \A k \in Rows : row'[k].st \in {"expanded", "delivered"} => row'[k].st = row[k].st
      /\ \A p \in Posts : loyal'[p] \subseteq loyal[p]
  BY <1>0, PeopleRows
<1>3. \A p \in Posts : \A a \in loyal'[p] :
         row[CopyOf(p, a)].st # "absent" => row'[CopyOf(p, a)].st # "absent"
  BY <1>0, <1>2, CopyKey
<1>4. Covered'
  <2>1. SUFFICES ASSUME NEW r \in Runs, NEW k \in batch[r], Kind(k) = "Create",
                        NEW a \in loyal'[Post(k)]
                 PROVE  /\ pc[r] # "complete"
                        /\ pc[r] = "expand" => \/ CopyOf(Post(k), a) \in plan[r]
                                              \/ row'[CopyOf(Post(k), a)].st # "absent"
    BY <1>1 DEF Covered
  <2>2. Post(k) \in Posts BY <1>0, KeyParts
  <2>q. QED BY <1>0, <1>2, <1>3, <2>1, <2>2 DEF Covered
<1>5. NoFollowerSkipped'
  BY <1>0, <1>2, <1>3, KeyMade DEF NoFollowerSkipped, CopyOf
<1>q. QED BY <1>4, <1>5

(* The invariant is inductive.                                             *)
LEMMA FanoutStep == ASSUME FanoutInv, [Next]_vars PROVE FanoutInv'
<1>0. TypeOK /\ Shape /\ Entitlement /\ Covered /\ NoFollowerSkipped
  BY DEF FanoutInv
<1>1. TypeOK' /\ Shape' /\ Entitlement'
  BY <1>0, TypeStep, ShapeKept, EntitlementKept
<1>2. Covered' /\ NoFollowerSkipped'
  <2>1. ASSUME NEW p \in Posts, AuthorStep(p) PROVE Covered' /\ NoFollowerSkipped'
    BY <2>1, FanoutByAuthor
  <2>2. CASE PeopleAction BY <2>2, FanoutByPeople
  <2>3. ASSUME NEW r \in Runs, RunAction(r) PROVE Covered' /\ NoFollowerSkipped'
    BY <1>0, <2>3, CoveredByRun, SkippedByRun
  <2>4. CASE UNCHANGED vars
    BY <1>0, <2>4 DEF Covered, NoFollowerSkipped, vars, table, workers, history
  <2>q. QED BY <2>1, <2>2, <2>3, <2>4 DEF Next, PeopleAction, RunAction
<1>q. QED BY <1>1, <1>2 DEF FanoutInv

(* Whoever is entitled to a post from its publication on has a row of his  *)
(* own by the time the generic row is closed: expansion reads the follower *)
(* list once and inserts in chunks, and may be interrupted, repeated and   *)
(* run twice at a time (expand_pending_outbox_deliveries), but it closes   *)
(* the generic row only when its plan, which covers the entitled, is done. *)
THEOREM FollowersCovered == Spec => []NoFollowerSkipped
<1>1. Init => FanoutInv BY FanoutInit
<1>2. FanoutInv /\ [Next]_vars => FanoutInv' BY FanoutStep
<1>3. FanoutInv => NoFollowerSkipped BY DEF FanoutInv
<1>q. QED BY <1>1, <1>2, <1>3, PTL DEF Spec

-----------------------------------------------------------------------------
(* Every way a run changes a row, with the state it finds the row in.      *)
Requeued(k) ==
    /\ row[k].st = "in_flight"
    /\ row'[k].st \in {"queued", "failed"}
    /\ row'[k].st = "queued" => ~IsTerminal(row'[k].att)
Claimed(k)   == row[k].st = "queued" /\ row'[k].st = "in_flight"
Completed(r, k) == k \in batch[r] /\ row[k].st # "absent" /\ row'[k].st = "delivered"
Inserted(k)  == row[k].st = "absent" /\ row'[k] = Queued
Expanded(r, k) == k \in batch[r] /\ row[k].st = "in_flight" /\ row'[k].st = "expanded"
Settled(r, k) ==
    /\ row[k].st = "in_flight"
    /\ \E j \in jobs[r] : j.row = k /\ j.ph = "ok"
    /\ row'[k].st = "delivered"

LEMMA RunRowStep ==
    ASSUME TypeOK, NEW r \in Runs, RunAction(r), NEW k \in Rows
    PROVE  \/ row'[k] = row[k]
           \/ Requeued(k) \/ Claimed(k) \/ Completed(r, k) \/ Inserted(k)
           \/ Expanded(r, k) \/ Settled(r, k)
<1> DEFINE Goal == \/ row'[k] = row[k]
                   \/ Requeued(k) \/ Claimed(k) \/ Completed(r, k) \/ Inserted(k)
                   \/ Expanded(r, k) \/ Settled(r, k)
<1> SUFFICES Goal
  OBVIOUS
<1>0. row \in [Rows -> RowType] /\ row[k] \in RowType
  BY DEF TypeOK, RowType, States
<1>1. CASE RequeueStale(r)
  <2>1. row'[k] = IF ~Stale(k) THEN row[k]
                  ELSE LET next == NextAttempt(row[k].att)
                       IN  IF IsTerminal(next)
                             THEN [st |-> "failed", att |-> next, ripe |-> FALSE]
                             ELSE [st |-> "queued", att |-> next, ripe |-> TRUE]
    BY <1>1 DEF RequeueStale
  <2>q. QED BY <2>1 DEF Stale, Requeued
<1>2. CASE ClaimGeneric(r)
  <2>1. PICK T \in Claimable({x \in Rows : Due(x) /\ Generic(x)}, GenericBatch) :
           row' = Lease(T)
    BY <1>2 DEF ClaimGeneric
  <2>2. \A x \in T : row[x].st = "queued" BY DEF Claimable, Due
  <2>q. QED BY <1>0, <2>1, <2>2 DEF Lease, Claimed, RowType
<1>3. CASE ClaimTargets(r)
  <2>1. PICK T \in Claimable({x \in Rows : Due(x) /\ ~Generic(x)}, TargetBatch) :
           row' = Lease(T)
    BY <1>3 DEF ClaimTargets
  <2>2. \A x \in T : row[x].st = "queued" BY DEF Claimable, Due
  <2>q. QED BY <1>0, <2>1, <2>2 DEF Lease, Claimed, RowType
<1>4. CASE MarkCompleted(r)
  BY <1>0, <1>4 DEF MarkCompleted, Completed, RowType
<1>5. CASE ExpandChunk(r)
  BY <1>5, InsertedRows DEF ExpandChunk, Inserted
<1>6. CASE FinishExpansion(r)
  BY <1>0, <1>6 DEF FinishExpansion, Expanded, RowType
<1>7. CASE FailBlocked(r)
  BY <1>0, <1>7 DEF FailBlocked, Close, Mark, Requeued
<1>8. CASE RecordOutcome(r)
  <2>1. PICK j \in jobs[r] :
           /\ j.ph \in Outcomes
           /\ Close(r, j, StateAfter(NextAttempt(j.att), j.ph),
                    IF j.ph = "ok" THEN row[j.row].att ELSE NextAttempt(j.att))
    BY <1>8 DEF RecordOutcome
  <2>2. CASE j.row # k \/ row[k].st # "in_flight"
    BY <1>0, <2>1, <2>2 DEF Close, Mark
  <2>3. CASE j.row = k /\ row[k].st = "in_flight"
    <3>1. row'[k] = [st |-> StateAfter(NextAttempt(j.att), j.ph),
                     att |-> IF j.ph = "ok" THEN row[k].att ELSE NextAttempt(j.att),
                     ripe |-> FALSE]
      BY <1>0, <2>1, <2>3 DEF Close, Mark
    <3>2. CASE j.ph = "ok"
      BY <2>3, <3>1, <3>2 DEF StateAfter, Settled
    <3>3. CASE j.ph # "ok"
      BY <2>1, <2>3, <3>1, <3>3 DEF StateAfter, Outcomes, Requeued
    <3>q. QED BY <3>2, <3>3
  <2>q. QED BY <2>2, <2>3
<1>9. Start(r) \/ PlanExpansion(r) \/ CheckBlocks(r) \/ Send(r) \/ FinishRun(r)
         \/ Crash(r) \/ ExpandFails(r) => row' = row
  BY DEF Start, PlanExpansion, CheckBlocks, Send, FinishRun, Crash, ExpandFails, table
<1> HIDE DEF Goal
<1>10. row' = row => Goal BY DEF Goal
<1>q. QED
  BY <1>1, <1>2, <1>3, <1>4, <1>5, <1>6, <1>7, <1>8, <1>9, <1>10 DEF RunAction, RunStep

(* Every way anybody else changes one.                                     *)
LEMMA OtherRowStep ==
    ASSUME TypeOK, PeopleAction \/ (\E p \in Posts : AuthorStep(p)), NEW k \in Rows
    PROVE  \/ row'[k] = row[k]
           \/ row'[k] = Absent
           \/ Inserted(k)
           \/ row[k].st \in {"queued", "expanded", "in_flight"} /\ row'[k].st = "failed"
           \/ row[k].st = "failed" /\ row'[k].st = "queued" /\ k \in retried'
           \/ row'[k].st = row[k].st /\ row'[k].att = row[k].att
<1> DEFINE Goal ==
           \/ row'[k] = row[k]
           \/ row'[k] = Absent
           \/ Inserted(k)
           \/ row[k].st \in {"queued", "expanded", "in_flight"} /\ row'[k].st = "failed"
           \/ row[k].st = "failed" /\ row'[k].st = "queued" /\ k \in retried'
           \/ row'[k].st = row[k].st /\ row'[k].att = row[k].att
<1> SUFFICES Goal
  OBVIOUS
<1>0. row \in [Rows -> RowType] /\ row[k] \in RowType
  BY DEF TypeOK, RowType, States
<1>1. ASSUME NEW p \in Posts, AuthorStep(p) PROVE Goal
  BY <1>1, AuthorRows DEF Inserted
<1>2. ASSUME NEW a \in Movers, CancelRows(a) PROVE Goal
  BY <1>0, <1>2 DEF CancelRows, RowType
<1>3. ASSUME NEW x \in Rows, AdminRetry(x) PROVE Goal
  <2>1. CASE x = k BY <1>0, <1>3, <2>1 DEF AdminRetry, RowType
  <2>2. CASE x # k BY <1>0, <1>3, <2>2 DEF AdminRetry
  <2>q. QED BY <2>1, <2>2
<1>4. ASSUME NEW x \in Rows, Age(x) PROVE Goal
  <2>1. CASE x = k BY <1>0, <1>4, <2>1 DEF Age, RowType
  <2>2. CASE x # k BY <1>0, <1>4, <2>2 DEF Age
  <2>q. QED BY <2>1, <2>2
<1>5. ASSUME NEW a \in Movers, Follow(a) \/ Unfollow(a) \/ CancelLost(a) PROVE Goal
  BY <1>5 DEF Follow, Unfollow, CancelLost, table
<1>6. ASSUME NEW i \in Blockable, Block(i) \/ Unblock(i) PROVE Goal
  BY <1>6 DEF Block, Unblock, table
<1>7. CASE Kick BY <1>7 DEF Kick, table
<1> HIDE DEF Goal
<1>q. QED
  BY <1>1, <1>2, <1>3, <1>4, <1>5, <1>6, <1>7 DEF PeopleAction, FollowerStep

-----------------------------------------------------------------------------
(* A delivery is marked delivered only if its POST reached the inbox.      *)

(* A run believes in a success only if the remote server took the POST.    *)
Honest == \A r \in Runs : \A j \in jobs[r] : j.ph = "ok" => j.row \in received

ReceivedInv == TypeOK /\ Shape /\ Honest /\ DeliveredWasReceived

(* What was received stays received.                                       *)
LEMMA ReceivedGrows ==
    ASSUME [Next]_vars PROVE received \subseteq received'
<1>1. ASSUME NEW r \in Runs, RunAction(r) PROVE received \subseteq received'
  <2>1. CASE Send(r) BY <2>1 DEF Send
  <2>2. CASE ~Send(r)
    BY <1>1, <2>2
       DEF RunAction, RunStep, Start, RequeueStale, ClaimGeneric, PlanExpansion,
           MarkCompleted, ExpandChunk, ExpandFails, FinishExpansion, ClaimTargets,
           CheckBlocks, FailBlocked, RecordOutcome, FinishRun, Crash, history
  <2>q. QED BY <2>1, <2>2
<1>2. CASE PeopleAction \/ \E p \in Posts : AuthorStep(p)
  BY <1>2, OtherFrame DEF PeopleAction
<1>3. CASE UNCHANGED vars BY <1>3 DEF vars, history
<1>q. QED BY <1>1, <1>2, <1>3 DEF Next, PeopleAction, RunAction

(* A run keeps honest about its jobs: only an accepted POST is a success.  *)
LEMMA HonestByRun ==
    ASSUME TypeOK, Honest, NEW r \in Runs, RunAction(r)
    PROVE  Honest'
<1> DEFINE Good == /\ \A j \in jobs'[r] : j.ph = "ok" => j.row \in received'
                   /\ \A q \in Runs \ {r} : jobs'[q] = jobs[q]
<1>0. jobs \in [Runs -> SUBSET JobType] BY DEF TypeOK, JobType
<1>1. received \subseteq received' BY ReceivedGrows DEF Next, RunAction
<1>2. \A j \in jobs[r] : j.ph = "ok" => j.row \in received' BY <1>1 DEF Honest
<1>3. Good
  <2>1. CASE Send(r)
    <3>1. PICK j \in jobs[r], answer \in Seen :
             /\ jobs' = [jobs EXCEPT ![r] = (@ \ {j}) \cup {[j EXCEPT !.ph = OutcomeOf(answer)]}]
             /\ received' = IF Reaches(answer) THEN received \cup {j.row} ELSE received
      BY <2>1 DEF Send
    <3>2. OutcomeOf(answer) = "ok" => answer = "accepted"
      BY FanoutAssumption DEF OutcomeOf, Answers
    <3>3. OutcomeOf(answer) = "ok" => j.row \in received'
      BY <3>1, <3>2 DEF Reaches
    <3>4. /\ [j EXCEPT !.ph = OutcomeOf(answer)].row = j.row
          /\ [j EXCEPT !.ph = OutcomeOf(answer)].ph = OutcomeOf(answer)
      BY <1>0 DEF JobType
    <3>q. QED BY <1>0, <1>2, <3>1, <3>3, <3>4
  <2>2. CASE ClaimTargets(r)
    <3>1. PICK T \in Claimable({k \in Rows : Due(k) /\ ~Generic(k)}, TargetBatch) :
             jobs' = [jobs EXCEPT ![r] =
                      {[row |-> k, att |-> row[k].att, ph |-> "claimed"] : k \in T}]
      BY <2>2 DEF ClaimTargets
    <3>q. QED BY <1>0, <3>1
  <2>3. CASE CheckBlocks(r)
    <3>1. PICK view \in BlockViews :
             jobs' = [jobs EXCEPT ![r] =
                   {[j EXCEPT !.ph = IF Inbox(j.row) \in view THEN "blocked" ELSE "todo"]
                      : j \in jobs[r]}]
      BY <2>3 DEF CheckBlocks
    <3>2. \A x \in jobs'[r] : x.ph # "ok" BY <1>0, <3>1 DEF JobType
    <3>q. QED BY <1>0, <3>1, <3>2
  <2>4. CASE FailBlocked(r) \/ RecordOutcome(r)
    BY <1>0, <1>2, <2>4 DEF FailBlocked, RecordOutcome, Close
  <2>5. CASE Crash(r) \/ ExpandFails(r)
    BY <1>0, <2>5 DEF Crash, ExpandFails, Stop
  <2>6. CASE jobs' = jobs BY <1>2, <2>6
  <2>7. Start(r) \/ RequeueStale(r) \/ ClaimGeneric(r) \/ PlanExpansion(r)
          \/ MarkCompleted(r) \/ ExpandChunk(r) \/ FinishExpansion(r) \/ FinishRun(r)
          => jobs' = jobs
    BY DEF Start, RequeueStale, ClaimGeneric, PlanExpansion, MarkCompleted,
           ExpandChunk, FinishExpansion, FinishRun
  <2> HIDE DEF Good
  <2>q. QED BY <2>1, <2>2, <2>3, <2>4, <2>5, <2>6, <2>7 DEF RunAction, RunStep
<1>q. QED BY <1>1, <1>3 DEF Honest

(* The invariant is inductive.                                             *)
LEMMA ReceivedStep == ASSUME ReceivedInv, [Next]_vars PROVE ReceivedInv'
<1>0. TypeOK /\ Shape /\ Honest /\ DeliveredWasReceived BY DEF ReceivedInv
<1>1. TypeOK' /\ Shape' BY <1>0, TypeStep, ShapeKept
<1>2. received \subseteq received' BY ReceivedGrows
<1>3. ASSUME NEW r \in Runs, RunAction(r)
      PROVE  Honest' /\ DeliveredWasReceived'
  <2>1. Honest' BY <1>0, <1>3, HonestByRun
  <2>2. ASSUME NEW k \in Rows, row'[k].st = "delivered", ~Generic(k)
        PROVE  k \in received'
    <3>1. CASE row[k].st = "delivered" BY <1>0, <1>2, <2>2, <3>1 DEF DeliveredWasReceived
    <3>2. CASE Completed(r, k) BY <1>0, <2>2, <3>2 DEF Completed, Shape
    <3>3. CASE Settled(r, k) BY <1>0, <1>2, <3>3 DEF Settled, Honest
    <3>q. QED
      BY <1>0, <1>3, <2>2, <3>1, <3>2, <3>3, RunRowStep
         DEF Requeued, Claimed, Inserted, Queued, Expanded
  <2>q. QED BY <2>1, <2>2 DEF DeliveredWasReceived
<1>4. CASE PeopleAction \/ \E p \in Posts : AuthorStep(p)
  <2>1. UNCHANGED <<jobs, received>> BY <1>4, OtherFrame DEF PeopleAction
  <2>2. ASSUME NEW k \in Rows, row'[k].st = "delivered" PROVE row[k].st = "delivered"
    BY <1>0, <1>4, <2>2, OtherRowStep DEF Absent, Inserted, Queued
  <2>q. QED BY <1>0, <1>1, <2>1, <2>2 DEF ReceivedInv, Honest, DeliveredWasReceived
<1>5. CASE UNCHANGED vars
  BY <1>0, <1>1, <1>5 DEF ReceivedInv, Honest, DeliveredWasReceived, vars, table, workers, history
<1>q. QED
  BY <1>1, <1>3, <1>4, <1>5 DEF Next, PeopleAction, RunAction, ReceivedInv

(* However late a run closes a delivery, after its row was requeued, sent  *)
(* by another run, cancelled or put back, `delivered' is never written     *)
(* unless the remote inbox took the POST (mark_outbox_delivery_delivered). *)
THEOREM DeliveredReached == Spec => []DeliveredWasReceived
<1>1. Init => ReceivedInv
  <2>1. Init => TypeOK BY TypeInit
  <2>2. Init => Shape /\ Honest /\ DeliveredWasReceived
    BY KeyParts DEF Init, Shape, Honest, DeliveredWasReceived, Absent
  <2>q. QED BY <2>1, <2>2 DEF ReceivedInv
<1>2. ReceivedInv /\ [Next]_vars => ReceivedInv' BY ReceivedStep
<1>3. ReceivedInv => DeliveredWasReceived BY DEF ReceivedInv
<1>q. QED BY <1>1, <1>2, <1>3, PTL DEF Spec

-----------------------------------------------------------------------------
(* The retry budget, and the finality of a delivery.                       *)

(* Every step leaves an attempt to the rows it queues.                     *)
LEMMA BudgetStep ==
    ASSUME TypeOK, QueuedHasBudget, [Next]_vars PROVE QueuedHasBudget'
<1>1. retried \subseteq retried'
  <2>1. ASSUME NEW r \in Runs, RunAction(r) PROVE retried' = retried BY <2>1, RunFrame
  <2>2. CASE PeopleAction \/ \E p \in Posts : AuthorStep(p)
    BY <2>2 DEF PeopleAction, AuthorStep, StoreWithMedia, Publish, EnqueueAddressed,
                EnqueueDeletes, DeleteStatus, FollowerStep, Follow, Unfollow,
                CancelRows, CancelLost, Block, Unblock, AdminRetry, Age, Kick, history
  <2>q. QED BY <2>1, <2>2 DEF Next, PeopleAction, RunAction, vars, history
<1>2. ASSUME NEW k \in Rows, row'[k].st = "queued"
      PROVE  row'[k].att < MaxAttempts \/ k \in retried'
  <2>1. CASE row'[k].st = row[k].st /\ row'[k].att = row[k].att
    BY <1>1, <1>2, <2>1 DEF QueuedHasBudget
  <2>2. CASE Inserted(k)
    BY <2>2, MaxAttemptsAssumption DEF Inserted, Queued
  <2>3. CASE Requeued(k)
    <3>1. row'[k].att \in Nat BY TypeStep DEF TypeOK
    <3>q. QED BY <1>2, <2>3, <3>1, MaxAttemptsAssumption DEF Requeued, IsTerminal
  <2>4. CASE k \in retried' BY <2>4
  <2>5. ASSUME NEW r \in Runs, RunAction(r)
        PROVE  row'[k].att < MaxAttempts \/ k \in retried'
    BY <1>2, <2>1, <2>2, <2>3, <2>5, RunRowStep
       DEF Claimed, Completed, Expanded, Settled
  <2>6. CASE PeopleAction \/ \E p \in Posts : AuthorStep(p)
    BY <1>2, <2>1, <2>2, <2>4, <2>6, OtherRowStep DEF Absent
  <2>7. CASE UNCHANGED vars BY <2>1, <2>7 DEF vars, table
  <2>q. QED BY <2>5, <2>6, <2>7 DEF Next, PeopleAction, RunAction
<1>q. QED BY <1>2 DEF QueuedHasBudget

(* The requeue of stale rows, the back-off after a failed attempt and the  *)
(* first enqueue all leave an attempt to a queued row (is_delivery_terminal*)
(* and requeue_stale_in_flight_outbox_deliveries); only retry_outbox does  *)
(* not.                                                                    *)
THEOREM BudgetKept == Spec => []QueuedHasBudget
<1>1. Init => TypeOK /\ QueuedHasBudget
  <2>1. Init => QueuedHasBudget BY DEF Init, QueuedHasBudget, Absent
  <2>q. QED BY <2>1, TypeInit
<1>2. TypeOK /\ QueuedHasBudget /\ [Next]_vars => (TypeOK /\ QueuedHasBudget)'
  BY TypeStep, BudgetStep
<1>q. QED BY <1>1, <1>2, PTL DEF Spec

(* No step takes a row out of `delivered' except by removing it.           *)
LEMMA FinalStep ==
    ASSUME TypeOK, [Next]_vars, NEW k \in Rows, row[k].st = "delivered"
    PROVE  row'[k].st \in {"delivered", "absent"}
<1>1. ASSUME NEW r \in Runs, RunAction(r)
      PROVE  row'[k].st \in {"delivered", "absent"}
  BY <1>1, RunRowStep DEF Requeued, Claimed, Completed, Inserted, Expanded, Settled
<1>2. CASE PeopleAction \/ \E p \in Posts : AuthorStep(p)
  BY <1>2, OtherRowStep DEF Absent, Inserted
<1>3. CASE UNCHANGED vars BY <1>3 DEF vars, table
<1>q. QED BY <1>1, <1>2, <1>3 DEF Next, PeopleAction, RunAction

(* A delivered row is closed for good: every later statement on it is      *)
(* guarded by the state it expects, except the one that marks generic rows *)
(* complete, which writes `delivered' itself.                              *)
THEOREM DeliveredStays == Spec => DeliveredIsFinal
<1> DEFINE Final == \A k \in Rows : row[k].st = "delivered"
                                       => row'[k].st \in {"delivered", "absent"}
<1>1. TypeOK /\ [Next]_vars => [Final]_vars
  <2>1. ASSUME TypeOK, [Next]_vars PROVE Final BY <2>1, FinalStep
  <2>q. QED BY <2>1
<1>2. Spec => [][Final]_vars
  <2> HIDE DEF Final
  <2>q. QED BY <1>1, TypesKept, PTL DEF Spec
<1>q. QED BY <1>2 DEF DeliveredIsFinal
=============================================================================
