------------------------- MODULE BackgroundJobsProofs -------------------------
(***************************************************************************)
(* Proofs about the job queue, for any statuses and notes, any number of   *)
(* runs, rows, attempts and revisions.                                     *)
(***************************************************************************)
EXTENDS BackgroundJobs, TLAPS

JobType == [st : {"absent"} \cup Live \cup Finished, att : Nat, due : BOOLEAN]
TextType == [rev : 0 .. MaxEdits, link : BOOLEAN]
CurType == [row : Rows \cup {<<>>}, att : Nat, step : {"idle", "fetched", "ok", "err"},
            seen : 0 .. MaxEdits]

(* A run is idle or at a job; only the job of a status fetches a page.     *)
Fits(x) == \/ x = Idle
           \/ /\ x.row \in Rows /\ x.step # "idle"
              /\ x.step = "fetched" => x.row[1] \in Statuses

TInv ==
    /\ job \in [Rows -> JobType]
    /\ text \in [Statuses -> TextType]
    /\ card \in [Statuses -> 0 .. MaxEdits]
    /\ owed \subseteq Payloads /\ soon \subseteq Notes
    /\ claimed \in [Runs -> SUBSET Claims]
    /\ cur \in [Runs -> CurType]
    /\ \A r \in Runs : Fits(cur[r])
    /\ overrun \subseteq Rows /\ retried \subseteq Rows
    /\ raced \subseteq Statuses /\ skipped \subseteq Statuses /\ read \subseteq Statuses

(* The invariant is at least what the run checks.                          *)
LEMMA TInvIsTypeOK == TInv => TypeOK
<1> SUFFICES ASSUME TInv PROVE TypeOK OBVIOUS
<1>1. ASSUME NEW r \in Runs
      PROVE  \/ cur[r] = Idle
             \/ /\ cur[r] \in [row : Rows, att : Nat, seen : 0 .. MaxEdits,
                               step : {"fetched", "ok", "err"}]
                /\ cur[r].step = "fetched" => cur[r].row[1] \in Statuses
  <2>1. cur[r] \in CurType /\ Fits(cur[r]) BY DEF TInv
  <2>q. QED BY <2>1 DEF CurType, Fits
<1>q. QED BY <1>1 DEF TInv, TypeOK, JobType, TextType

(* The empty row of an idle run is no row.                                 *)
LEMMA NoRow == <<>> \notin Rows
  BY DEF Rows

(* A row belongs to one payload.                                           *)
LEMMA RowPayload == \A k \in Rows : k[1] \in Payloads /\ k \in RowsOf(k[1])
  BY DEF Rows, RowsOf, Payloads

(* The initial state.                                                      *)
LEMMA TInit == Init => TInv
<1> SUFFICES ASSUME Init PROVE TInv OBVIOUS
<1> USE JobsAssumption DEF Init
<1>1. NoJob \in JobType BY DEF NoJob, JobType
<1>2. Idle \in CurType /\ Fits(Idle) BY DEF Idle, CurType, Fits
<1>3. [rev |-> 0, link |-> FALSE] \in TextType BY DEF TextType
<1>4. job \in [Rows -> JobType] BY <1>1
<1>5. cur \in [Runs -> CurType] /\ \A r \in Runs : Fits(cur[r]) BY <1>2
<1>6. text \in [Statuses -> TextType] BY <1>3
<1>q. QED BY <1>4, <1>5, <1>6 DEF TInv

(* The rows a run takes go to running, and into its batch.                 *)
LEMMA TTake ==
    ASSUME TInv, NEW r \in Runs, NEW ks \in SUBSET Rows, Take(r, ks)
    PROVE  /\ job' \in [Rows -> JobType] /\ claimed' \in [Runs -> SUBSET Claims]
           /\ \A k \in Rows : job'[k].st = IF k \in ks THEN "running" ELSE job[k].st
           /\ \A q \in Runs \ {r} : claimed'[q] = claimed[q]
           /\ \A c \in claimed'[r] : c.row \in ks
           /\ \A c, d \in claimed'[r] : c.row = d.row => c = d
<1> DEFINE batch == {[row |-> k, att |-> job[k].att] : k \in ks}
<1>t. job \in [Rows -> JobType] /\ claimed \in [Runs -> SUBSET Claims] BY DEF TInv
<1>1. ASSUME NEW k \in Rows
      PROVE  job'[k] \in JobType /\ job'[k].st = IF k \in ks THEN "running" ELSE job[k].st
  <2>1. job[k] \in JobType BY <1>t
  <2>2. job'[k] = IF k \in ks THEN [job[k] EXCEPT !.st = "running", !.due = FALSE] ELSE job[k]
    BY DEF Take
  <2>q. QED BY <2>1, <2>2 DEF JobType, Live
<1>2. job' \in [Rows -> JobType] BY <1>1 DEF Take
<1>3. batch \in SUBSET Claims
  <2>1. ASSUME NEW k \in ks PROVE [row |-> k, att |-> job[k].att] \in Claims
    <3>1. job[k] \in JobType BY <1>t
    <3>q. QED BY <3>1 DEF Claims, JobType
  <2>q. QED BY <2>1
<1>4. /\ \A c \in batch : c.row \in ks
      /\ \A c, d \in batch : c.row = d.row => c = d
  OBVIOUS
<1>5. claimed' = [claimed EXCEPT ![r] = batch] BY DEF Take
<1> HIDE DEF batch
<1>6. claimed' \in [Runs -> SUBSET Claims] /\ claimed'[r] = batch
      /\ \A q \in Runs \ {r} : claimed'[q] = claimed[q]
  BY <1>t, <1>3, <1>5
<1>q. QED BY <1>1, <1>2, <1>4, <1>6

(* What a run does next to the job it is at.                               *)
LEMMA TBegin == ASSUME TInv, NEW r \in Runs, Begin(r) PROVE TInv'
<1>t. cur \in [Runs -> CurType] /\ claimed \in [Runs -> SUBSET Claims]
      /\ text \in [Statuses -> TextType]
  BY DEF TInv
<1>1. PICK c \in claimed[r], ok \in BOOLEAN :
         /\ claimed' = [claimed EXCEPT ![r] = @ \ {c}]
         /\ LET p == c.row[1]
                unfurl == p \in Statuses /\ text[p].link
            IN /\ cur' = [cur EXCEPT ![r] =
                 [row |-> c.row, att |-> IF ok /\ ~unfurl THEN 0 ELSE c.att,
                  step |-> IF ~ok THEN "err" ELSE IF unfurl THEN "fetched" ELSE "ok",
                  seen |-> IF ok /\ unfurl THEN text[p].rev ELSE 0]]
               /\ read' = IF ok /\ unfurl THEN read \cup {p} ELSE read
  BY DEF Begin
<1> DEFINE p == c.row[1]
           unfurl == p \in Statuses /\ text[p].link
           x == [row |-> c.row, att |-> IF ok /\ ~unfurl THEN 0 ELSE c.att,
                 step |-> IF ~ok THEN "err" ELSE IF unfurl THEN "fetched" ELSE "ok",
                 seen |-> IF ok /\ unfurl THEN text[p].rev ELSE 0]
<1>2. c \in Claims BY <1>t
<1>3. c.row \in Rows /\ c.att \in Nat BY <1>2 DEF Claims
<1>4. p \in Statuses => text[p].rev \in 0 .. MaxEdits BY <1>t DEF TextType
<1>5. x \in CurType
  <2>1. x.seen \in 0 .. MaxEdits BY <1>4, JobsAssumption
  <2>2. x.att \in Nat BY <1>3
  <2>q. QED BY <1>3, <2>1, <2>2 DEF CurType
<1>6. Fits(x) BY <1>3 DEF Fits
<1>7. cur' = [cur EXCEPT ![r] = x] BY <1>1
<1>8. read' \subseteq Statuses BY <1>1 DEF TInv
<1> HIDE DEF x
<1>9. cur' \in [Runs -> CurType] BY <1>t, <1>5, <1>7
<1>10. ASSUME NEW q \in Runs PROVE Fits(cur[q])'
  BY <1>t, <1>6, <1>7 DEF TInv, Fits, Idle
<1>11. claimed' \in [Runs -> SUBSET Claims] BY <1>1, <1>t
<1>q. QED BY <1>8, <1>9, <1>10, <1>11 DEF Begin, TInv, site

(* A run that wrote goes on with the outcome, or with its failure.         *)
LEMMA Wrote ==
    ASSUME TInv, NEW r \in Runs, Write(r)
    PROVE  \E x : /\ cur' = [cur EXCEPT ![r] = x]
                  /\ \/ x = [cur[r] EXCEPT !.step = "ok", !.att = 0, !.seen = 0]
                     \/ x = [cur[r] EXCEPT !.step = "err", !.seen = 0]
<1>t. cur \in [Runs -> CurType] BY DEF TInv
<1>1. CASE cur' = [cur EXCEPT ![r].step = "ok", ![r].att = 0, ![r].seen = 0]
  <2>1. cur' = [cur EXCEPT ![r] = [cur[r] EXCEPT !.step = "ok", !.att = 0, !.seen = 0]]
    BY <1>1, <1>t
  <2>q. QED BY <2>1
<1>2. CASE cur' = [cur EXCEPT ![r].step = "err", ![r].seen = 0]
  <2>1. cur' = [cur EXCEPT ![r] = [cur[r] EXCEPT !.step = "err", !.seen = 0]]
    BY <1>2, <1>t
  <2>q. QED BY <2>1
<1>q. QED BY <1>1, <1>2 DEF Write

(* The other steps of a run keep the types.                                *)
LEMMA TRun ==
    ASSUME TInv, NEW r \in Runs,
           Write(r) \/ Finish(r) \/ FinishLost(r) \/ RunDies(r)
    PROVE  TInv'
<1>t. /\ cur \in [Runs -> CurType] /\ claimed \in [Runs -> SUBSET Claims]
      /\ cur[r] \in CurType /\ Fits(cur[r])
  BY DEF TInv
<1>i. Idle \in CurType BY JobsAssumption DEF Idle, CurType
<1>1. CASE Write(r)
  <2>1. cur[r].row[1] \in Statuses /\ cur[r].row \in Rows /\ cur[r].seen \in 0 .. MaxEdits
    BY <1>1, <1>t DEF Write, Fits, Idle, CurType
  <2>2. card' \in [Statuses -> 0 .. MaxEdits] BY <1>1, <2>1 DEF Write, TInv
  <2>3. PICK x : /\ cur' = [cur EXCEPT ![r] = x]
                 /\ \/ x = [cur[r] EXCEPT !.step = "ok", !.att = 0, !.seen = 0]
                    \/ x = [cur[r] EXCEPT !.step = "err", !.seen = 0]
    BY <1>1, Wrote
  <2>4. x \in CurType /\ Fits(x)
    <3>0. 0 \in 0 .. MaxEdits BY JobsAssumption
    <3>1. CASE x = [cur[r] EXCEPT !.step = "ok", !.att = 0, !.seen = 0]
      BY <1>t, <2>1, <3>0, <3>1 DEF CurType, Fits
    <3>2. CASE x = [cur[r] EXCEPT !.step = "err", !.seen = 0]
      BY <1>t, <2>1, <3>0, <3>2 DEF CurType, Fits
    <3>q. QED BY <2>3, <3>1, <3>2
  <2>5. cur' \in [Runs -> CurType] BY <1>t, <2>3, <2>4
  <2>6. ASSUME NEW q \in Runs PROVE Fits(cur[q])'
    BY <1>t, <2>3, <2>4 DEF TInv, Fits, Idle
  <2>q. QED BY <1>1, <2>2, <2>5, <2>6 DEF Write, TInv, history
<1>2. CASE cur' = [cur EXCEPT ![r] = Idle]
  <2>1. cur' \in [Runs -> CurType] BY <1>2, <1>t, <1>i
  <2>2. ASSUME NEW q \in Runs PROVE Fits(cur[q])' BY <1>2, <1>t DEF TInv, Fits, Idle
  <2>3. CASE Finish(r)
    <3>1. cur[r].row \in Rows /\ cur[r].att \in Nat BY <2>3, <1>t DEF Finish, Fits, Idle, CurType
    <3>2. StateAfter(cur[r].step = "ok", cur[r].att) \in JobType
      BY <3>1 DEF StateAfter, JobType, Live, Finished
    <3>3. job' \in [Rows -> JobType] BY <2>3, <3>2 DEF Finish, TInv
    <3>q. QED BY <2>3, <2>1, <2>2, <3>3 DEF Finish, TInv, site, history
  <2>4. CASE FinishLost(r) BY <2>4, <2>1, <2>2 DEF FinishLost, TInv, site, history
  <2>5. CASE RunDies(r)
    <3>1. claimed' \in [Runs -> SUBSET Claims] BY <2>5, <1>t DEF RunDies
    <3>q. QED BY <2>5, <2>1, <2>2, <3>1 DEF RunDies, TInv, site, history
  <2>6. CASE Write(r) BY <2>6, <1>1
  <2>q. QED BY <2>3, <2>4, <2>5, <2>6
<1>q. QED BY <1>1, <1>2 DEF Finish, FinishLost, RunDies

(* So do the requests, the claims and what time brings.                    *)
LEMMA TOthers ==
    ASSUME TInv,
           \/ \E s \in Statuses, link \in BOOLEAN : Edit(s, link)
           \/ \E n \in Notes : Arrive(n) \/ SoonDropped(n)
           \/ \E p \in Payloads : Enqueue(p) \/ EnqueueLost(p)
           \/ \E r \in Runs : ClaimDue(r)
           \/ \E r \in Runs, n \in Notes : RunNow(r, n)
           \/ \E k \in Rows : Reclaim(k) \/ Ripen(k) \/ AdminRetry(k)
    PROVE  TInv'
<1>t. job \in [Rows -> JobType] /\ \A r \in Runs : Fits(cur[r]) BY DEF TInv
<1>0. UNCHANGED cur => \A r \in Runs : Fits(cur[r])' BY <1>t DEF Fits, Idle
<1>1. ASSUME NEW s \in Statuses, NEW link \in BOOLEAN, Edit(s, link) PROVE TInv'
  <2>1. text[s] \in TextType BY DEF TInv
  <2>2. text[s].rev + 1 \in 0 .. MaxEdits BY <1>1, <2>1, JobsAssumption DEF Edit, TextType
  <2>3. [rev |-> text[s].rev + 1, link |-> link] \in TextType BY <2>2 DEF TextType
  <2>4. text' \in [Statuses -> TextType] BY <1>1, <2>3 DEF Edit, TInv
  <2>5. PlainCard(s, link) \in 0 .. MaxEdits BY <2>2, JobsAssumption DEF PlainCard
  <2>6. card' \in [Statuses -> 0 .. MaxEdits] BY <1>1, <2>5 DEF Edit, TInv
  <2>q. QED BY <1>0, <1>1, <2>4, <2>6 DEF Edit, TInv, workers, Payloads
<1>2. ASSUME NEW n \in Notes, Arrive(n) \/ SoonDropped(n) PROVE TInv'
  BY <1>0, <1>2 DEF Arrive, SoonDropped, TInv, site, workers, history, Payloads
<1>3. ASSUME NEW p \in Payloads, Enqueue(p) \/ EnqueueLost(p) PROVE TInv'
  <2>1. job' \in [Rows -> JobType]
    <3>1. CASE job' = job BY <3>1, <1>t
    <3>2. ASSUME NEW k \in In(p, {"absent"}),
                 job' = [job EXCEPT ![k] = [st |-> "pending", att |-> 0, due |-> TRUE]]
          PROVE  job' \in [Rows -> JobType]
      <4>1. [st |-> "pending", att |-> 0, due |-> TRUE] \in JobType BY DEF JobType, Live
      <4>q. QED BY <3>2, <4>1, <1>t
    <3>q. QED BY <1>3, <3>1, <3>2 DEF Enqueue, EnqueueLost
  <2>2. skipped' \subseteq Statuses /\ soon' \subseteq Notes
    BY <1>3 DEF Enqueue, EnqueueLost, TInv
  <2>q. QED BY <1>0, <1>3, <2>1, <2>2 DEF Enqueue, EnqueueLost, TInv, site, workers
<1>4. ASSUME NEW r \in Runs, NEW ks \in SUBSET Rows, Take(r, ks),
             soon' \subseteq Notes, UNCHANGED <<site, owed, cur, history>>
      PROVE  TInv'
  <2>1. job' \in [Rows -> JobType] /\ claimed' \in [Runs -> SUBSET Claims] BY <1>4, TTake
  <2>q. QED BY <1>0, <1>4, <2>1 DEF TInv, site, history
<1>5. ASSUME NEW r \in Runs, ClaimDue(r) PROVE TInv'
  <2>1. PICK ks \in SUBSET Due : Take(r, ks) BY <1>5 DEF ClaimDue
  <2>2. soon' \subseteq Notes BY <1>5 DEF ClaimDue, TInv
  <2>3. ks \in SUBSET Rows BY DEF Due
  <2>q. QED BY <1>4, <1>5, <2>1, <2>2, <2>3 DEF ClaimDue
<1>6. ASSUME NEW r \in Runs, NEW n \in Notes, RunNow(r, n) PROVE TInv'
  <2>2. soon' \subseteq Notes BY <1>6 DEF RunNow, TInv
  <2>3. CASE UNCHANGED <<job, claimed>>
    BY <1>0, <1>6, <2>2, <2>3 DEF RunNow, TInv, site, history
  <2>4. ASSUME NEW k \in Due \cap RowsOf(n), Take(r, {k}) PROVE TInv'
    <3>1. {k} \in SUBSET Rows BY DEF Due
    <3>q. QED BY <1>4, <1>6, <2>2, <2>4, <3>1 DEF RunNow
  <2>q. QED BY <1>6, <2>3, <2>4 DEF RunNow
<1>7. ASSUME NEW k \in Rows, Reclaim(k) \/ Ripen(k) \/ AdminRetry(k) PROVE TInv'
  <2>1. job[k] \in JobType BY <1>t
  <2>2. PICK x \in JobType : job' = [job EXCEPT ![k] = x]
    <3>1. CASE Reclaim(k)
      <4>1. Reclaimed(job[k].att) \in JobType BY <2>1 DEF Reclaimed, JobType, Live, Finished
      <4>q. QED BY <3>1, <4>1 DEF Reclaim
    <3>2. CASE Ripen(k)
      <4>1. [job[k] EXCEPT !.due = TRUE] \in JobType BY <2>1 DEF JobType
      <4>2. job' = [job EXCEPT ![k] = [job[k] EXCEPT !.due = TRUE]] BY <3>2 DEF Ripen
      <4>q. QED BY <4>1, <4>2
    <3>3. CASE AdminRetry(k)
      <4>1. [job[k] EXCEPT !.st = "pending", !.due = TRUE] \in JobType
        BY <2>1 DEF JobType, Live
      <4>2. job' = [job EXCEPT ![k] = [job[k] EXCEPT !.st = "pending", !.due = TRUE]]
        BY <3>3 DEF AdminRetry
      <4>q. QED BY <4>1, <4>2
    <3>q. QED BY <1>7, <3>1, <3>2, <3>3
  <2>3. job' \in [Rows -> JobType] BY <1>t, <2>2
  <2>4. overrun' \subseteq Rows /\ retried' \subseteq Rows
    BY <1>7 DEF Reclaim, Ripen, AdminRetry, TInv, history
  <2>q. QED BY <1>0, <1>7, <2>3, <2>4
        DEF Reclaim, Ripen, AdminRetry, TInv, site, workers, history
<1>q. QED BY <1>1, <1>2, <1>3, <1>5, <1>6, <1>7

(* Every step is one of these.                                             *)
LEMMA TNext == TInv /\ [Next]_vars => TInv'
<1> SUFFICES ASSUME TInv, [Next]_vars PROVE TInv' OBVIOUS
<1>1. CASE UNCHANGED vars BY <1>1 DEF TInv, Fits, Idle, vars, site, workers, history
<1>2. CASE Next BY <1>2, TBegin, TRun, TOthers DEF Next, RunStep
<1>q. QED BY <1>1, <1>2

(* What every later argument rests on.                                     *)
THEOREM TypeCorrect == Spec => []TInv
<1>q. QED BY TInit, TNext, PTL DEF Spec

(* The values of all variables are of their types (background_jobs.rs,     *)
(* statuses/status_update.rs).                                             *)
THEOREM JobsAreTyped == Spec => []TypeOK
<1>q. QED BY TypeCorrect, TInvIsTypeOK, PTL

-----------------------------------------------------------------------------
(* The rows of a batch are distinct, and none is under way.                *)
Once(r) == /\ \A c, d \in claimed[r] : c.row = d.row => c = d
           /\ \A c \in claimed[r] : c.row # cur[r].row

(* A row that is held is running, unless it was taken away.                *)
HeldRuns == \A r \in Runs : \A k \in Rows :
              Holds(r, k) => job[k].st = "running" \/ k \in overrun
HInv == HeldRuns /\ ClaimIsExclusive /\ \A r \in Runs : Once(r)

(* Nobody holds a row at first.                                            *)
LEMMA HInit == Init => HInv
  BY NoRow DEF Init, HInv, HeldRuns, ClaimIsExclusive, Once, Holds, Idle

(* A step that no run takes, and that takes no row from its run unnoticed. *)
LEMMA HOutside ==
    ASSUME HInv, UNCHANGED workers, overrun \subseteq overrun',
           \A k \in Rows : \/ job'[k].st = job[k].st \/ job[k].st # "running"
                           \/ ~Held(k) \/ k \in overrun'
    PROVE  HInv'
<1>1. HeldRuns' BY DEF HInv, HeldRuns, Held, Holds, workers
<1>2. ClaimIsExclusive' BY DEF HInv, ClaimIsExclusive, Holds, workers
<1>3. \A r \in Runs : Once(r)' BY DEF HInv, Once, workers
<1>q. QED BY <1>1, <1>2, <1>3 DEF HInv

(* A claim takes rows that were pending, so nobody's.                      *)
LEMMA HTake ==
    ASSUME TInv, HInv, NEW r \in Runs, Free(r), NEW ks \in SUBSET Rows, Take(r, ks),
           \A k \in ks : job[k].st = "pending", UNCHANGED <<cur, overrun>>
    PROVE  HInv'
<1>1. \A q \in Runs \ {r} : \A k \in Rows : Holds(q, k)' <=> Holds(q, k)
  BY TTake DEF Holds
<1>2. \A k \in Rows : Holds(r, k)' => k \in ks
  BY TTake, NoRow DEF Holds, Free, Idle
<1>3. \A k \in Rows : job'[k].st = IF k \in ks THEN "running" ELSE job[k].st
  BY TTake
<1>4. \A q \in Runs \ {r} : \A k \in Rows : Holds(q, k)' /\ k \in ks => k \in overrun
  BY <1>1 DEF HInv, HeldRuns
<1>5. HeldRuns'
  <2> SUFFICES ASSUME NEW q \in Runs, NEW k \in Rows, Holds(q, k)'
               PROVE  job'[k].st = "running" \/ k \in overrun'
    BY DEF HeldRuns, Holds
  <2>1. CASE q = r BY <1>2, <1>3, <2>1
  <2>2. CASE q # r BY <1>1, <1>3, <2>2 DEF HInv, HeldRuns
  <2>q. QED BY <2>1, <2>2
<1>6. ClaimIsExclusive'
  <2> SUFFICES ASSUME NEW q \in Runs, NEW s \in Runs, NEW k \in Rows, Holds(q, k)',
                      Holds(s, k)', q # s
               PROVE  k \in overrun'
    BY DEF ClaimIsExclusive, Holds
  <2>1. CASE q # r /\ s # r BY <1>1, <2>1 DEF HInv, ClaimIsExclusive
  <2>2. CASE q = r \/ s = r BY <1>2, <1>4, <2>2
  <2>q. QED BY <2>1, <2>2
<1>7. ASSUME NEW q \in Runs PROVE Once(q)'
  <2>1. CASE q = r BY <2>1, TTake, NoRow DEF Once, Free, Idle
  <2>2. CASE q # r BY <2>2, TTake DEF Once, HInv
  <2>q. QED BY <2>1, <2>2
<1>q. QED BY <1>5, <1>6, <1>7 DEF HInv

(* A run begins what it has claimed.                                       *)
LEMMA HBegin == ASSUME TInv, HInv, NEW r \in Runs, Begin(r) PROVE HInv'
<1>t. cur \in [Runs -> CurType] /\ claimed \in [Runs -> SUBSET Claims] BY DEF TInv
<1>1. PICK c \in claimed[r] :
         /\ claimed' = [claimed EXCEPT ![r] = @ \ {c}]
         /\ \E x : cur' = [cur EXCEPT ![r] = x] /\ x.row = c.row
  <2>1. PICK c \in claimed[r], ok \in BOOLEAN :
         /\ claimed' = [claimed EXCEPT ![r] = @ \ {c}]
         /\ LET p == c.row[1]
                unfurl == p \in Statuses /\ text[p].link
            IN /\ cur' = [cur EXCEPT ![r] =
                 [row |-> c.row, att |-> IF ok /\ ~unfurl THEN 0 ELSE c.att,
                  step |-> IF ~ok THEN "err" ELSE IF unfurl THEN "fetched" ELSE "ok",
                  seen |-> IF ok /\ unfurl THEN text[p].rev ELSE 0]]
               /\ read' = IF ok /\ unfurl THEN read \cup {p} ELSE read
    BY DEF Begin
  <2> DEFINE x == [row |-> c.row, att |-> IF ok /\ ~(c.row[1] \in Statuses /\ text[c.row[1]].link) THEN 0 ELSE c.att,
                  step |-> IF ~ok THEN "err" ELSE IF c.row[1] \in Statuses /\ text[c.row[1]].link THEN "fetched" ELSE "ok",
                  seen |-> IF ok /\ (c.row[1] \in Statuses /\ text[c.row[1]].link) THEN text[c.row[1]].rev ELSE 0]
  <2>2. cur' = [cur EXCEPT ![r] = x] /\ x.row = c.row BY <2>1
  <2> HIDE DEF x
  <2>q. QED BY <2>1, <2>2
<1>2. PICK x : cur' = [cur EXCEPT ![r] = x] /\ x.row = c.row BY <1>1
<1>3. /\ claimed'[r] = claimed[r] \ {c} /\ cur'[r].row = c.row
      /\ \A q \in Runs \ {r} : claimed'[q] = claimed[q] /\ cur'[q] = cur[q]
  BY <1>t, <1>1, <1>2
<1>4. \A q \in Runs : \A k \in Rows : Holds(q, k)' => Holds(q, k)
  BY <1>3 DEF Holds
<1>5. UNCHANGED <<job, overrun>> BY DEF Begin
<1>6. HeldRuns' BY <1>4, <1>5 DEF HInv, HeldRuns
<1>7. ClaimIsExclusive' BY <1>4, <1>5 DEF HInv, ClaimIsExclusive
<1>8. ASSUME NEW q \in Runs PROVE Once(q)'
  BY <1>3 DEF HInv, Once
<1>q. QED BY <1>6, <1>7, <1>8 DEF HInv

(* A run fetches, writes and lets go; the row it writes the outcome of is  *)
(* nobody else's, or was taken from it.                                    *)
LEMMA HRun ==
    ASSUME TInv, HInv, NEW r \in Runs, Write(r) \/ Finish(r) \/ FinishLost(r) \/ RunDies(r)
    PROVE  HInv'
<1>t. /\ cur \in [Runs -> CurType] /\ claimed \in [Runs -> SUBSET Claims]
      /\ job \in [Rows -> JobType] /\ cur[r] \in CurType /\ Fits(cur[r])
  BY DEF TInv
<1>1. /\ cur'[r].row \in {cur[r].row, <<>>} /\ claimed'[r] \in {claimed[r], {}}
      /\ \A q \in Runs \ {r} : claimed'[q] = claimed[q] /\ cur'[q] = cur[q]
      /\ UNCHANGED overrun
  <2>1. CASE Write(r)
    <3>1. PICK x : /\ cur' = [cur EXCEPT ![r] = x]
                   /\ \/ x = [cur[r] EXCEPT !.step = "ok", !.att = 0, !.seen = 0]
                      \/ x = [cur[r] EXCEPT !.step = "err", !.seen = 0]
      BY <2>1, Wrote
    <3>2. x.row = cur[r].row BY <3>1, <1>t DEF CurType
    <3>q. QED BY <2>1, <3>1, <3>2, <1>t DEF Write, history
  <2>2. CASE Finish(r) \/ FinishLost(r)
    BY <2>2, <1>t DEF Finish, FinishLost, Idle, history
  <2>3. CASE RunDies(r) BY <2>3, <1>t DEF RunDies, Idle, history
  <2>q. QED BY <2>1, <2>2, <2>3
<1>2. \A q \in Runs : \A k \in Rows : Holds(q, k)' => Holds(q, k)
  BY <1>1, NoRow DEF Holds
<1>3. ClaimIsExclusive' BY <1>1, <1>2 DEF HInv, ClaimIsExclusive
<1>4. ASSUME NEW q \in Runs PROVE Once(q)'
  <2>1. \A c \in claimed[q] : c.row # <<>> BY <1>t, NoRow DEF Claims
  <2>q. QED BY <1>1, <2>1 DEF HInv, Once
<1>5. HeldRuns'
  <2>1. CASE Finish(r)
    <3>1. PICK own \in Rows : own = cur[r].row /\ Holds(r, own)
      BY <2>1, <1>t DEF Finish, Fits, Idle, Holds
    <3>2. \A k \in Rows \ {own} : job'[k] = job[k]
      BY <2>1, <3>1, <1>t DEF Finish
    <3>3. ~Holds(r, own)'
      <4>1. cur'[r].row = <<>> /\ claimed'[r] = claimed[r] BY <2>1, <1>t DEF Finish, Idle
      <4>2. Once(r) BY DEF HInv
      <4>q. QED BY <3>1, <4>1, <4>2, NoRow DEF Holds, Once
    <3>4. ASSUME NEW q \in Runs, NEW k \in Rows, Holds(q, k)'
          PROVE  job'[k].st = "running" \/ k \in overrun'
      <4>1. CASE k = own
        <5>1. Holds(q, k) BY <1>2, <3>4
        <5>2. q # r BY <3>3, <3>4, <4>1
        <5>q. QED BY <1>1, <3>1, <4>1, <5>1, <5>2 DEF HInv, ClaimIsExclusive
      <4>2. CASE k # own BY <1>1, <1>2, <3>2, <3>4, <4>2 DEF HInv, HeldRuns
      <4>q. QED BY <4>1, <4>2
    <3>q. QED BY <3>4 DEF HeldRuns
  <2>2. CASE UNCHANGED job BY <1>1, <1>2, <2>2 DEF HInv, HeldRuns
  <2>q. QED BY <2>1, <2>2 DEF Write, FinishLost, RunDies
<1>q. QED BY <1>3, <1>4, <1>5 DEF HInv

(* Every step keeps who holds which row.                                   *)
LEMMA HStep == TInv /\ HInv /\ [Next]_vars => HInv'
<1> SUFFICES ASSUME TInv, HInv, [Next]_vars PROVE HInv' OBVIOUS
<1>t. job \in [Rows -> JobType] BY DEF TInv
<1>1. CASE \/ \E s \in Statuses, link \in BOOLEAN : Edit(s, link)
           \/ \E n \in Notes : Arrive(n) \/ SoonDropped(n)
           \/ \E p \in Payloads : EnqueueLost(p)
           \/ UNCHANGED vars
  <2>1. UNCHANGED <<job, workers, overrun>>
    BY <1>1 DEF Edit, Arrive, SoonDropped, EnqueueLost, history, vars
  <2>q. QED BY <2>1, HOutside
<1>2. ASSUME NEW p \in Payloads, Enqueue(p) PROVE HInv'
  <2>1. UNCHANGED <<workers, overrun>> BY <1>2 DEF Enqueue
  <2>2. \A k \in Rows : job'[k] = job[k] \/ job[k].st = "absent"
    BY <1>2, <1>t DEF Enqueue, In, RowsOf
  <2>q. QED BY <2>1, <2>2, HOutside
<1>3. ASSUME NEW r \in Runs, ClaimDue(r) PROVE HInv'
  <2>1. PICK ks \in SUBSET Due : Take(r, ks) BY <1>3 DEF ClaimDue
  <2>2. ks \in SUBSET Rows /\ \A k \in ks : job[k].st = "pending" BY DEF Due
  <2>q. QED BY <1>3, <2>1, <2>2, HTake DEF ClaimDue, history
<1>4. ASSUME NEW r \in Runs, NEW n \in Notes, RunNow(r, n) PROVE HInv'
  <2>1. CASE UNCHANGED <<job, claimed>>
    BY <1>4, <2>1, HOutside DEF RunNow, workers, history
  <2>2. ASSUME NEW k \in Due \cap RowsOf(n), Take(r, {k}) PROVE HInv'
    <3>1. {k} \in SUBSET Rows /\ \A j \in {k} : job[j].st = "pending" BY DEF Due
    <3>q. QED BY <1>4, <2>2, <3>1, HTake DEF RunNow, history
  <2>q. QED BY <1>4, <2>1, <2>2 DEF RunNow
<1>5. ASSUME NEW r \in Runs, RunStep(r) \/ RunDies(r) PROVE HInv'
  BY <1>5, HBegin, HRun DEF RunStep
<1>6. ASSUME NEW k \in Rows, Reclaim(k) PROVE HInv'
  BY <1>6, <1>t, HOutside DEF Reclaim
<1>7. ASSUME NEW k \in Rows, Ripen(k) PROVE HInv'
  <2>1. job' = [job EXCEPT ![k] = [job[k] EXCEPT !.due = TRUE]] /\ job[k] \in JobType
    BY <1>7, <1>t DEF Ripen
  <2>2. \A j \in Rows : job'[j].st = job[j].st BY <1>t, <2>1 DEF JobType
  <2>q. QED BY <1>7, <2>2, HOutside DEF Ripen, history
<1>8. ASSUME NEW k \in Rows, AdminRetry(k) PROVE HInv'
  <2>1. \A j \in Rows : job'[j] = job[j] \/ job[j].st = "failed"
    BY <1>8, <1>t DEF AdminRetry
  <2>q. QED BY <1>8, <2>1, HOutside DEF AdminRetry
<1>q. QED BY <1>1, <1>2, <1>3, <1>4, <1>5, <1>6, <1>7, <1>8 DEF Next

(* The invariant of the claims.                                            *)
THEOREM RowsAreHeld == Spec => [](TInv /\ HInv)
<1>q. QED BY TypeCorrect, HInit, HStep, PTL DEF Spec

(* The cron and the run after the response never hold one row at the same  *)
(* time, unless it was reclaimed under a run that outlived its lease       *)
(* (process_due_background_jobs, run_pending_background_job_now).          *)
THEOREM ClaimedOnce == Spec => []ClaimIsExclusive
<1>1. HInv => ClaimIsExclusive BY DEF HInv
<1>q. QED BY <1>1, RowsAreHeld, PTL

-----------------------------------------------------------------------------
(* How the state of a job may change.                                      *)
LEMMA StateSteps ==
    ASSUME TInv, HInv, [Next]_vars
    PROVE  /\ overrun \subseteq overrun' /\ retried \subseteq retried'
           /\ \A k \in Rows :
                \/ job'[k].st = job[k].st
                \/ job[k].st \in Live
                \/ /\ job[k].st = "absent" /\ ~AlreadyQueued(k[1])
                   /\ \A j \in Rows \ {k} : job'[j] = job[j]
                \/ job[k].st = "failed" /\ k \in retried'
                \/ k \in overrun
<1> DEFINE Goal == /\ overrun \subseteq overrun' /\ retried \subseteq retried'
           /\ \A k \in Rows :
                \/ job'[k].st = job[k].st
                \/ job[k].st \in Live
                \/ /\ job[k].st = "absent" /\ ~AlreadyQueued(k[1])
                   /\ \A j \in Rows \ {k} : job'[j] = job[j]
                \/ job[k].st = "failed" /\ k \in retried'
                \/ k \in overrun
<1> SUFFICES Goal OBVIOUS
<1>t. job \in [Rows -> JobType] BY DEF TInv
<1>0. CASE UNCHANGED <<job, overrun, retried>> BY <1>0
<1>1. CASE \/ \E s \in Statuses, link \in BOOLEAN : Edit(s, link)
           \/ \E n \in Notes : Arrive(n) \/ SoonDropped(n)
           \/ \E p \in Payloads : EnqueueLost(p)
           \/ \E r \in Runs : Begin(r) \/ Write(r) \/ FinishLost(r) \/ RunDies(r)
           \/ UNCHANGED vars
  <2>1. UNCHANGED <<job, overrun, retried>>
    BY <1>1 DEF Edit, Arrive, SoonDropped, EnqueueLost, Begin, Write, FinishLost, RunDies,
                history, vars
  <2>q. QED BY <1>0, <2>1
<1>2. ASSUME NEW p \in Payloads, Enqueue(p) PROVE Goal
  <2>1. UNCHANGED <<overrun, retried>> BY <1>2 DEF Enqueue
  <2>2. CASE AlreadyQueued(p) BY <1>0, <1>2, <2>1, <2>2 DEF Enqueue
  <2>3. CASE ~AlreadyQueued(p)
    <3>1. PICK k \in In(p, {"absent"}) :
            job' = [job EXCEPT ![k] = [st |-> "pending", att |-> 0, due |-> TRUE]]
      BY <1>2, <2>3 DEF Enqueue
    <3>2. k \in Rows /\ k[1] = p /\ job[k].st = "absent" BY DEF In, RowsOf
    <3>3. \A j \in Rows \ {k} : job'[j] = job[j] BY <3>1, <1>t
    <3>q. QED BY <2>1, <2>3, <3>2, <3>3
  <2>q. QED BY <2>2, <2>3
<1>3. ASSUME NEW r \in Runs, NEW ks \in SUBSET Due, Take(r, ks), UNCHANGED <<overrun, retried>>
      PROVE  Goal
  <2>1. ks \in SUBSET Rows /\ \A k \in ks : job[k].st = "pending" BY DEF Due
  <2>2. \A k \in Rows : job'[k].st = IF k \in ks THEN "running" ELSE job[k].st
    BY <1>3, <2>1, TTake
  <2>q. QED BY <1>3, <2>1, <2>2 DEF Live
<1>4. ASSUME NEW r \in Runs, ClaimDue(r) PROVE Goal
  BY <1>3, <1>4 DEF ClaimDue, history
<1>5. ASSUME NEW r \in Runs, NEW n \in Notes, RunNow(r, n) PROVE Goal
  <2>1. UNCHANGED <<overrun, retried>> BY <1>5 DEF RunNow, history
  <2>2. CASE UNCHANGED job BY <1>0, <2>1, <2>2
  <2>3. ASSUME NEW k \in Due \cap RowsOf(n), Take(r, {k}) PROVE Goal
    <3>1. {k} \in SUBSET Due OBVIOUS
    <3>q. QED BY <1>3, <2>1, <2>3, <3>1
  <2>q. QED BY <1>5, <2>2, <2>3 DEF RunNow
<1>6. ASSUME NEW r \in Runs, Finish(r) PROVE Goal
  <2>1. cur[r].row \in Rows BY <1>6 DEF Finish, TInv, Fits, Idle
  <2>2. job[cur[r].row].st = "running" \/ cur[r].row \in overrun
    BY <2>1 DEF HInv, HeldRuns, Holds
  <2>3. \A k \in Rows \ {cur[r].row} : job'[k] = job[k] BY <1>6, <1>t DEF Finish
  <2>q. QED BY <1>6, <2>1, <2>2, <2>3 DEF Finish, history, Live
<1>7. ASSUME NEW k \in Rows, Reclaim(k) \/ Ripen(k) \/ AdminRetry(k) PROVE Goal
  <2>1. overrun \subseteq overrun' /\ retried \subseteq retried'
    BY <1>7 DEF Reclaim, Ripen, AdminRetry, history
  <2>2. \A j \in Rows \ {k} : job'[j] = job[j]
    BY <1>7, <1>t DEF Reclaim, Ripen, AdminRetry
  <2>3. job[k].st \in Live \/ (job[k].st = "failed" /\ k \in retried')
    BY <1>7 DEF Reclaim, Ripen, AdminRetry, Live
  <2>q. QED BY <2>1, <2>2, <2>3
<1>q. QED BY <1>1, <1>2, <1>4, <1>5, <1>6, <1>7 DEF Next, RunStep

(* A job that is over stays over: only an administrator's retry of a       *)
(* failed one or the late word of a run that lost its row reopens it       *)
(* (finish of process_due_background_jobs writes by id alone).             *)
THEOREM FinishedStays == Spec => FinishedIsFinal
<1>1. TInv /\ HInv /\ [Next]_vars =>
        [\A k \in Rows : job[k].st \in Finished /\ job'[k].st # job[k].st
           => \/ k \in overrun
              \/ job[k].st = "failed" /\ k \in retried']_vars
  BY StateSteps DEF Finished, Live
<1>q. QED BY <1>1, RowsAreHeld, PTL DEF Spec, FinishedIsFinal

(* A payload has one live job, whatever the order of edits, runs, crashes  *)
(* and reclaims (soft_enqueue_background_job).                             *)
THEOREM OneJobAtATime == Spec => []OneLiveJob
<1>1. Init => OneLiveJob BY DEF Init, OneLiveJob, In, RowsOf, NoJob, Live
<1>2. TInv /\ HInv /\ OneLiveJob /\ [Next]_vars => OneLiveJob'
  <2> SUFFICES ASSUME TInv, HInv, OneLiveJob, [Next]_vars, NEW p \in Payloads,
                      NEW j \in Rows, NEW k \in Rows, j[1] = p, k[1] = p,
                      job'[j].st \in Live, job'[k].st \in Live, j # k
               PROVE  {j, k} \cap (overrun' \cup retried') # {}
    BY DEF OneLiveJob, In, RowsOf
  <2>1. job[j].st \in Live /\ job[k].st \in Live => {j, k} \cap (overrun \cup retried) # {}
    BY DEF OneLiveJob, In, RowsOf
  <2>2. AlreadyQueued(p) <=> \E i \in Rows : i[1] = p /\ job[i].st \in Live
    BY DEF AlreadyQueued, In, RowsOf
  <2>q. QED BY <2>1, <2>2, StateSteps
<1>q. QED BY <1>1, <1>2, RowsAreHeld, PTL DEF Spec

-----------------------------------------------------------------------------
(* A page is fetched for the present text, unless the status was edited    *)
(* meanwhile.                                                              *)
FetchIsOfText ==
    \A r \in Runs : cur[r].step = "fetched" =>
        LET s == cur[r].row[1] IN
        s \in raced \/ (text[s].link /\ cur[r].seen = text[s].rev)

CInv == CardIsOfText /\ FetchIsOfText

(* What a beginning run is at: it has read the present text of a status    *)
(* with a link, or has nothing to do, or has failed.                       *)
LEMMA BeginReads ==
    ASSUME TInv, NEW r \in Runs, Begin(r)
    PROVE  /\ \A q \in Runs \ {r} : cur'[q] = cur[q] /\ claimed'[q] = claimed[q]
           /\ cur'[r].row \in Rows /\ \E c \in claimed[r] : cur'[r].row = c.row
           /\ UNCHANGED <<job, text, card, owed, overrun, raced, skipped>> /\ read \subseteq read'
           /\ LET s == cur'[r].row[1] IN
              \/ cur'[r].step = "fetched" /\ s \in Statuses /\ text[s].link /\ s \in read'
                 /\ cur'[r].seen = text[s].rev
              \/ cur'[r].step = "ok" /\ ~(s \in Statuses /\ text[s].link)
              \/ cur'[r].step = "err"
<1>t. cur \in [Runs -> CurType] /\ claimed \in [Runs -> SUBSET Claims] BY DEF TInv
<1>1. PICK c \in claimed[r], ok \in BOOLEAN :
         /\ claimed' = [claimed EXCEPT ![r] = @ \ {c}]
         /\ LET p == c.row[1]
                unfurl == p \in Statuses /\ text[p].link
            IN /\ cur' = [cur EXCEPT ![r] =
                 [row |-> c.row, att |-> IF ok /\ ~unfurl THEN 0 ELSE c.att,
                  step |-> IF ~ok THEN "err" ELSE IF unfurl THEN "fetched" ELSE "ok",
                  seen |-> IF ok /\ unfurl THEN text[p].rev ELSE 0]]
               /\ read' = IF ok /\ unfurl THEN read \cup {p} ELSE read
  BY DEF Begin
<1> DEFINE p == c.row[1]
           unfurl == p \in Statuses /\ text[p].link
           x == [row |-> c.row, att |-> IF ok /\ ~unfurl THEN 0 ELSE c.att,
                 step |-> IF ~ok THEN "err" ELSE IF unfurl THEN "fetched" ELSE "ok",
                 seen |-> IF ok /\ unfurl THEN text[p].rev ELSE 0]
<1>2. cur'[r] = x /\ \A q \in Runs \ {r} : cur'[q] = cur[q] /\ claimed'[q] = claimed[q]
  BY <1>1, <1>t
<1>3. cur'[r].row = c.row /\ c.row \in Rows BY <1>2, <1>t DEF Claims
<1>4. \/ x.step = "fetched" /\ p \in Statuses /\ text[p].link /\ p \in read' /\ x.seen = text[p].rev
      \/ x.step = "ok" /\ ~(p \in Statuses /\ text[p].link)
      \/ x.step = "err"
  BY <1>1
<1>5. UNCHANGED <<job, text, card, owed, overrun, raced, skipped>> BY DEF Begin, site
<1>6. read \subseteq read' BY <1>1
<1>q. QED BY <1>2, <1>3, <1>4, <1>5, <1>6

(* What the others steps of a run do to its own place.                     *)
LEMMA RunPlaces ==
    ASSUME TInv, NEW r \in Runs, Write(r) \/ Finish(r) \/ FinishLost(r) \/ RunDies(r)
    PROVE  /\ \A q \in Runs \ {r} : cur'[q] = cur[q] /\ claimed'[q] = claimed[q]
           /\ cur'[r].step # "fetched"
           /\ \/ cur'[r] = Idle
              \/ cur'[r].row = cur[r].row /\ cur[r].step = "fetched"
           /\ UNCHANGED <<text, owed, overrun, raced, skipped, read>>
<1>t. /\ cur \in [Runs -> CurType] /\ claimed \in [Runs -> SUBSET Claims]
      /\ cur[r] \in CurType
  BY DEF TInv
<1>1. CASE Write(r)
  <2>1. PICK x : /\ cur' = [cur EXCEPT ![r] = x]
                 /\ \/ x = [cur[r] EXCEPT !.step = "ok", !.att = 0, !.seen = 0]
                    \/ x = [cur[r] EXCEPT !.step = "err", !.seen = 0]
    BY <1>1, Wrote
  <2>2. x.row = cur[r].row /\ x.step # "fetched" BY <2>1, <1>t DEF CurType
  <2>q. QED BY <1>1, <2>1, <2>2, <1>t DEF Write, history
<1>2. CASE Finish(r) \/ FinishLost(r)
  BY <1>2, <1>t DEF Finish, FinishLost, Idle, history, site
<1>3. CASE RunDies(r) BY <1>3, <1>t DEF RunDies, Idle, history, site
<1>q. QED BY <1>1, <1>2, <1>3

(* Who is neither edited nor fetched for keeps its card.                   *)
LEMMA CSame ==
    ASSUME CInv, UNCHANGED <<text, card, raced, cur>> PROVE CInv'
  BY DEF CInv, CardIsOfText, FetchIsOfText

(* Every step keeps cards and fetches in line with the texts.              *)
LEMMA CStep == TInv /\ CInv /\ [Next]_vars => CInv'
<1> SUFFICES ASSUME TInv, CInv, [Next]_vars PROVE CInv' OBVIOUS
<1>t. /\ cur \in [Runs -> CurType] /\ text \in [Statuses -> TextType]
      /\ card \in [Statuses -> 0 .. MaxEdits] /\ \A r \in Runs : Fits(cur[r])
  BY DEF TInv
<1>f. \A r \in Runs : cur[r].step = "fetched" => cur[r].row[1] \in Statuses
  BY <1>t DEF Fits, Idle
<1>1. ASSUME NEW s \in Statuses, NEW link \in BOOLEAN, Edit(s, link) PROVE CInv'
  <2>1. text' = [text EXCEPT ![s] = [rev |-> text[s].rev + 1, link |-> link]]
        /\ card' = [card EXCEPT ![s] = PlainCard(s, link)] /\ UNCHANGED cur
        /\ raced' = IF Fetching(s) THEN raced \cup {s} ELSE raced \ {s}
    BY <1>1 DEF Edit, workers
  <2>2. card'[s] = IF text'[s].link THEN text'[s].rev ELSE 0
    BY <2>1, <1>t DEF PlainCard
  <2>3. CardIsOfText' BY <2>1, <2>2, <1>t DEF CInv, CardIsOfText
  <2>4. ASSUME NEW r \in Runs, cur'[r].step = "fetched"
        PROVE  LET q == cur'[r].row[1] IN
               q \in raced' \/ (text'[q].link /\ cur'[r].seen = text'[q].rev)
    <3>1. CASE cur[r].row[1] = s BY <2>1, <2>4, <3>1 DEF Fetching
    <3>2. CASE cur[r].row[1] # s
      BY <2>1, <2>4, <3>2, <1>t, <1>f DEF CInv, FetchIsOfText
    <3>q. QED BY <3>1, <3>2
  <2>q. QED BY <2>3, <2>4 DEF CInv, FetchIsOfText
<1>2. ASSUME NEW r \in Runs, Begin(r) PROVE CInv'
  <2>1. CardIsOfText' BY <1>2, BeginReads DEF CInv, CardIsOfText
  <2>2. FetchIsOfText' BY <1>2, BeginReads DEF CInv, FetchIsOfText
  <2>q. QED BY <2>1, <2>2 DEF CInv
<1>3. ASSUME NEW r \in Runs, Write(r) \/ Finish(r) \/ FinishLost(r) \/ RunDies(r) PROVE CInv'
  <2>1. FetchIsOfText' BY <1>3, RunPlaces DEF CInv, FetchIsOfText
  <2>2. CardIsOfText'
    <3>1. CASE UNCHANGED card BY <1>3, <3>1, RunPlaces DEF CInv, CardIsOfText
    <3>2. CASE cur[r].step = "fetched" /\ card' = [card EXCEPT ![cur[r].row[1]] = cur[r].seen]
      BY <1>3, <3>2, <1>t, <1>f, RunPlaces DEF CInv, CardIsOfText, FetchIsOfText
    <3>q. QED BY <1>3, <3>1, <3>2 DEF Write, Finish, FinishLost, RunDies, site
  <2>q. QED BY <2>1, <2>2 DEF CInv
<1>4. CASE \/ \E n \in Notes : Arrive(n) \/ SoonDropped(n)
           \/ \E p \in Payloads : Enqueue(p) \/ EnqueueLost(p)
           \/ \E r \in Runs : ClaimDue(r) \/ \E n \in Notes : RunNow(r, n)
           \/ \E k \in Rows : Reclaim(k) \/ Ripen(k) \/ AdminRetry(k)
           \/ UNCHANGED vars
  <2>1. UNCHANGED <<text, card, raced, cur>>
    BY <1>4 DEF Arrive, SoonDropped, Enqueue, EnqueueLost, ClaimDue, RunNow, Reclaim, Ripen,
                AdminRetry, site, workers, history, vars
  <2>q. QED BY <2>1, CSame
<1>q. QED BY <1>1, <1>2, <1>3, <1>4 DEF Next, RunStep

(* The card under a status is that of its present text; only an edit made  *)
(* while a run was fetching for the text before it can leave another       *)
(* (handle_card_unfurl, update_local_status).                              *)
THEOREM CardsFollowTexts == Spec => []CardIsOfText
<1>1. Init => CInv
  BY DEF Init, CInv, CardIsOfText, FetchIsOfText, Idle
<1>2. CInv => CardIsOfText BY DEF CInv
<1>q. QED BY <1>1, <1>2, CStep, TypeCorrect, PTL DEF Spec

-----------------------------------------------------------------------------
(* A job that no run can complete with what it read before: it is to be    *)
(* claimed, was given up, or is at most held by runs that failed.          *)
ToCome(k) == \/ job[k].st \in {"pending", "failed"}
             \/ /\ job[k].st = "running"
                /\ \A r \in Runs : cur[r].row = k => cur[r].step = "err"

UInv == \A s \in Statuses :
          text[s].link => \/ s \in owed \cup read \cup skipped
                          \/ RowsOf(s) \cap overrun # {}
                          \/ \E k \in RowsOf(s) : ToCome(k)

(* A job to come stays one when neither it nor a run at it moves.          *)
LEMMA ComeSame ==
    ASSUME NEW k, ToCome(k), job'[k].st = job[k].st,
           \A r \in Runs : cur'[r].row = k => cur'[r] = cur[r]
    PROVE  ToCome(k)'
  BY DEF ToCome

(* A claim does not harm a job to come.                                    *)
LEMMA ComeTake ==
    ASSUME TInv, HInv, NEW r \in Runs, NEW ks \in SUBSET Due, Take(r, ks), UNCHANGED cur,
           NEW k \in Rows, k \notin overrun, ToCome(k)
    PROVE  ToCome(k)'
<1>1. ks \in SUBSET Rows /\ \A j \in ks : job[j].st = "pending" BY DEF Due
<1>2. job'[k].st = IF k \in ks THEN "running" ELSE job[k].st BY <1>1, TTake
<1>3. CASE k \in ks
  <2>1. \A q \in Runs : cur[q].row # k BY <1>1, <1>3 DEF HInv, HeldRuns, Holds
  <2>q. QED BY <1>2, <1>3, <2>1 DEF ToCome
<1>4. CASE k \notin ks BY <1>2, <1>4, ComeSame
<1>q. QED BY <1>3, <1>4

(* After every step each status with a link has been read, is owed a job,  *)
(* or has one to come.                                                     *)
LEMMA UStep == TInv /\ HInv /\ UInv /\ [Next]_vars => UInv'
<1> SUFFICES ASSUME TInv, HInv, UInv, [Next]_vars, NEW s \in Statuses, text'[s].link,
                    s \notin owed' \cup read' \cup skipped',
                    RowsOf(s) \cap overrun' = {}
             PROVE  \E k \in RowsOf(s) : ToCome(k)'
  BY DEF UInv, RowsOf
<1> DEFINE Goal == \E k \in RowsOf(s) : ToCome(k)'
<1>t. /\ job \in [Rows -> JobType] /\ cur \in [Runs -> CurType] /\ text \in [Statuses -> TextType]
      /\ \A r \in Runs : Fits(cur[r])
  BY DEF TInv
<1>a. RowsOf(s) \cap overrun = {} BY StateSteps
<1>r. \A k \in RowsOf(s) : k \in Rows /\ k[1] = s /\ k \notin overrun BY <1>a DEF RowsOf
<1>u. text[s].link /\ s \notin owed \cup read \cup skipped => \E k \in RowsOf(s) : ToCome(k)
  BY <1>a DEF UInv
<1>0. CASE UNCHANGED <<job, cur, text, owed, read, skipped>>
  BY <1>0, <1>u, ComeSame
<1>1. ASSUME NEW q \in Statuses, NEW link \in BOOLEAN, Edit(q, link) PROVE Goal
  <2>1. UNCHANGED <<job, cur>> /\ text' = [text EXCEPT ![q] = [rev |-> text[q].rev + 1, link |-> link]]
        /\ owed' = (IF link THEN owed \cup {q} ELSE owed)
        /\ skipped' = skipped \ {q} /\ read' = read \ {q}
    BY <1>1 DEF Edit, workers
  <2>2. q # s BY <2>1, <1>t
  <2>3. text[s].link /\ s \notin owed \cup read \cup skipped BY <2>1, <2>2, <1>t
  <2>q. QED BY <2>1, <2>3, <1>u, ComeSame
<1>2. ASSUME NEW p \in Payloads, Enqueue(p), p # s PROVE Goal
  <2>1. UNCHANGED <<text, cur, read>> /\ owed' = owed \ {p} /\ skipped \subseteq skipped'
    BY <1>2 DEF Enqueue, site, workers
  <2>2. \A k \in Rows : job'[k] = job[k] \/ job[k].st = "absent"
    BY <1>2, <1>t DEF Enqueue, In, RowsOf
  <2>3. PICK k \in RowsOf(s) : ToCome(k) BY <1>2, <2>1, <1>u
  <2>4. job'[k].st = job[k].st BY <2>2, <2>3, <1>r DEF ToCome
  <2>q. QED BY <2>1, <2>3, <2>4, ComeSame
<1>3. CASE Enqueue(s)
  <2>1. UNCHANGED <<text, cur, read>> BY <1>3 DEF Enqueue, site, workers
  <2>2. CASE ~AlreadyQueued(s)
    <3>1. PICK k \in In(s, {"absent"}) :
            job' = [job EXCEPT ![k] = [st |-> "pending", att |-> 0, due |-> TRUE]]
      BY <1>3, <2>2 DEF Enqueue
    <3>2. k \in RowsOf(s) /\ k \in Rows BY DEF In, RowsOf
    <3>q. QED BY <3>1, <3>2, <1>t DEF ToCome
  <2>3. CASE AlreadyQueued(s)
    <3>1. UNCHANGED job /\ (In(s, {"pending"}) # {} \/ ~PastReading(s))
      BY <1>3, <2>3 DEF Enqueue
    <3>2. CASE In(s, {"pending"}) # {}
      BY <3>1, <3>2 DEF In, ToCome
    <3>3. CASE In(s, {"pending"}) = {} /\ ~PastReading(s)
      <4>1. PICK k \in RowsOf(s) : job[k].st = "running"
        BY <2>3, <3>3 DEF AlreadyQueued, In, Live
      <4>2. s \notin read BY <2>1
      <4>3. \A r \in Runs : cur[r].row # k
        <5> SUFFICES ASSUME NEW r \in Runs, cur[r].row = k PROVE FALSE OBVIOUS
        <5>1. cur[r].step # "idle" BY <1>t, <1>r, NoRow DEF Fits, Idle
        <5>q. QED BY <1>r, <3>3, <4>2, <5>1 DEF PastReading
      <4>q. QED BY <2>1, <3>1, <4>1, <4>3 DEF ToCome
    <3>q. QED BY <3>1, <3>2, <3>3
  <2>q. QED BY <2>2, <2>3
<1>4. CASE \/ \E n \in Notes : Arrive(n) \/ SoonDropped(n)
           \/ \E p \in Payloads : EnqueueLost(p)
           \/ UNCHANGED vars
  <2>1. UNCHANGED <<job, cur, text>>
        /\ (s \notin owed \cup read \cup skipped)
    BY <1>4 DEF Arrive, SoonDropped, EnqueueLost, site, workers, history, vars
  <2>q. QED BY <2>1, <1>u, ComeSame
<1>5. ASSUME NEW r \in Runs, ClaimDue(r) PROVE Goal
  <2>1. UNCHANGED <<text, owed, cur, read, skipped>> BY <1>5 DEF ClaimDue, site, history
  <2>2. PICK ks \in SUBSET Due : Take(r, ks) BY <1>5 DEF ClaimDue
  <2>3. PICK k \in RowsOf(s) : ToCome(k) BY <2>1, <1>u
  <2>q. QED BY <2>1, <2>2, <2>3, <1>r, ComeTake
<1>6. ASSUME NEW r \in Runs, NEW n \in Notes, RunNow(r, n) PROVE Goal
  <2>1. UNCHANGED <<text, owed, cur, read, skipped>> BY <1>6 DEF RunNow, site, history
  <2>2. CASE UNCHANGED job BY <1>0, <2>1, <2>2
  <2>3. ASSUME NEW j \in Due \cap RowsOf(n), Take(r, {j}) PROVE Goal
    <3>1. {j} \in SUBSET Due OBVIOUS
    <3>2. PICK k \in RowsOf(s) : ToCome(k) BY <2>1, <1>u
    <3>q. QED BY <2>1, <2>3, <3>1, <3>2, <1>r, ComeTake
  <2>q. QED BY <1>6, <2>2, <2>3 DEF RunNow
<1>7. ASSUME NEW r \in Runs, Begin(r) PROVE Goal
  <2>1. s \notin owed \cup read \cup skipped /\ text[s].link BY <1>7, BeginReads
  <2>2. PICK k \in RowsOf(s) : ToCome(k) BY <2>1, <1>u
  <2>3. UNCHANGED job /\ \A q \in Runs \ {r} : cur'[q] = cur[q] BY <1>7, BeginReads
  <2>4. cur'[r].row = k => cur'[r].step = "err" BY <1>7, <1>r, <2>1, BeginReads
  <2>q. QED BY <2>2, <2>3, <2>4 DEF ToCome
<1>8. ASSUME NEW r \in Runs, Write(r) \/ Finish(r) \/ FinishLost(r) \/ RunDies(r) PROVE Goal
  <2>1. s \notin owed \cup read \cup skipped /\ text[s].link BY <1>8, RunPlaces
  <2>2. PICK k \in RowsOf(s) : ToCome(k) BY <2>1, <1>u
  <2>3. job[k].st = "running" => \A q \in Runs : cur'[q].row = k => cur'[q].step = "err"
    <3>1. ASSUME job[k].st = "running", NEW q \in Runs, cur'[q].row = k
          PROVE  cur'[q].step = "err"
      <4>1. \A x \in Runs : cur[x].row = k => cur[x].step = "err" BY <2>2, <3>1 DEF ToCome
      <4>2. CASE q # r BY <1>8, <3>1, <4>1, <4>2, RunPlaces
      <4>3. CASE q = r
        BY <1>8, <1>r, <2>2, <3>1, <4>1, <4>3, RunPlaces, NoRow DEF Idle
      <4>q. QED BY <4>2, <4>3
    <3>q. QED BY <3>1
  <2>4. CASE Finish(r) /\ cur[r].row = k
    <3>1. job[k].st = "running" BY <2>4, <1>r, <2>2 DEF HInv, HeldRuns, Holds
    <3>2. cur[r].step = "err" BY <2>2, <2>4, <3>1 DEF ToCome
    <3>3. job'[k] = StateAfter(FALSE, cur[r].att) BY <2>4, <3>2, <1>r, <1>t DEF Finish
    <3>4. job'[k].st \in {"pending", "failed"} BY <3>3 DEF StateAfter
    <3>q. QED BY <2>2, <3>4 DEF ToCome
  <2>5. CASE ~(Finish(r) /\ cur[r].row = k)
    <3>1. job'[k] = job[k]
      BY <1>8, <2>5, <1>r, <1>t DEF Write, Finish, FinishLost, RunDies
    <3>q. QED BY <2>2, <2>3, <3>1 DEF ToCome
  <2>q. QED BY <2>4, <2>5
<1>9. ASSUME NEW j \in Rows, Reclaim(j) \/ Ripen(j) \/ AdminRetry(j) PROVE Goal
  <2>1. UNCHANGED <<text, cur, owed, read, skipped>>
    BY <1>9 DEF Reclaim, Ripen, AdminRetry, site, workers, history
  <2>2. PICK k \in RowsOf(s) : ToCome(k) BY <2>1, <1>u
  <2>3. CASE k = j
    <3>1. job'[k].st \in {"pending", "failed"}
      <4>0. job[k] \in JobType BY <1>t, <1>r
      <4>1. CASE Reclaim(j) BY <2>3, <4>1, <1>t DEF Reclaim, Reclaimed
      <4>2. CASE Ripen(j)
        <5>1. job' = [job EXCEPT ![k] = [job[k] EXCEPT !.due = TRUE]] /\ job[k].st = "pending"
          BY <2>3, <4>2 DEF Ripen
        <5>q. QED BY <5>1, <4>0, <1>r, <1>t DEF JobType
      <4>3. CASE AdminRetry(j)
        <5>1. job' = [job EXCEPT ![k] = [job[k] EXCEPT !.st = "pending", !.due = TRUE]]
          BY <2>3, <4>3 DEF AdminRetry
        <5>q. QED BY <5>1, <4>0, <1>r, <1>t DEF JobType
      <4>q. QED BY <1>9, <4>1, <4>2, <4>3
    <3>q. QED BY <2>2, <3>1 DEF ToCome
  <2>4. CASE k # j
    <3>1. job'[k] = job[k] BY <1>9, <2>4, <1>r, <1>t DEF Reclaim, Ripen, AdminRetry
    <3>q. QED BY <2>1, <2>2, <3>1, ComeSame
  <2>q. QED BY <2>3, <2>4
<1>q. QED BY <1>1, <1>2, <1>3, <1>4, <1>5, <1>6, <1>7, <1>8, <1>9 DEF Next, RunStep

(* No status is forgotten: its present text was read by a run, its job is  *)
(* still to come or was given up, or the edit enqueued nothing             *)
(* (soft_enqueue_background_job, handle_card_unfurl).                      *)
THEOREM NoUnfurlLost == Spec => []UnfurlNotForgotten
<1>1. Init => UInv BY DEF Init, UInv
<1>2. UInv => UnfurlNotForgotten BY DEF UInv, UnfurlNotForgotten, ToCome, In, Live
<1>q. QED BY <1>1, <1>2, UStep, RowsAreHeld, PTL DEF Spec
=============================================================================
