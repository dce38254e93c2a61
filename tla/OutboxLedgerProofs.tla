-------------------------- MODULE OutboxLedgerProofs --------------------------
(***************************************************************************)
(* Proof that the outbox pipeline implements the delivery ledger.          *)
(***************************************************************************)
EXTENDS OutboxLeaseProofs, OutboxLedger

-----------------------------------------------------------------------------
(* Steps of the ledger, debt by debt.                                      *)

Same(d)    == Standing(d)' = Standing(d) /\ (IsSpent(d)' <=> IsSpent(d))
Offered(d) == Standing(d) \in {"none", "abandoned"} /\ Standing(d)' = "owed"
GivenUp(d) ==
    /\ Standing(d) = "owed" /\ Standing(d)' = "abandoned"
    /\ IsSpent(d)' \/ d \in Rejected \/ d \notin Entitled

Quiet == UNCHANGED <<Entitled, Reached, Rejected>>

(* Only an abandoned debt is spent.                                        *)
LEMMA SpentIs ==
    ASSUME NEW d \in Debts
    PROVE  /\ IsSpent(d) => Standing(d) = "abandoned"
           /\ IsSpent(d)' => Standing(d)' = "abandoned"
  BY DEF IsSpent, Standing, DebtOf

(* A step that at most offers debts is Offer.                              *)
LEMMA OfferIs ==
    ASSUME Quiet, \A d \in Debts : Same(d) \/ Offered(d)
    PROVE  Ledger!Next
<1> DEFINE S == {d \in Debts : Standing(d) # Standing(d)'}
<1>1. Standings' = [d \in Debts |-> IF d \in S THEN "owed" ELSE Standings[d]]
  BY DEF Standings, Same, Offered
<1>2. \A d \in S : Standings[d] \in {"none", "abandoned"}
  BY DEF Standings, Same, Offered
<1>3. Spent' = Spent \ S
  BY SpentIs DEF Spent, Same, Offered
<1>4. Ledger!Offer(S)
  BY <1>1, <1>2, <1>3 DEF Ledger!Offer, Ledger!Set, Ledger!Debts, Debts, Quiet
<1>q. QED BY <1>4 DEF Ledger!Next, Ledger!Debts, Debts

(* A step that at most gives debts up, for a cause, is GiveUp.             *)
LEMMA GiveUpIs ==
    ASSUME Quiet, \A d \in Debts : Same(d) \/ GivenUp(d)
    PROVE  Ledger!Next
<1> DEFINE S == {d \in Debts : Standing(d) # Standing(d)'}
           X == {d \in S : IsSpent(d)'}
<1>1. Standings' = [d \in Debts |-> IF d \in S THEN "abandoned" ELSE Standings[d]]
  BY DEF Standings, Same, GivenUp
<1>2. \A d \in S : Standings[d] = "owed"
  BY DEF Standings, Same, GivenUp
<1>3. Spent' = Spent \cup X
  BY SpentIs DEF Spent, Same, GivenUp
<1>4. \A d \in S \ X : d \in Rejected \/ d \notin Entitled
  BY DEF Same, GivenUp
<1>5. Ledger!GiveUp(S)
  <2> X \in SUBSET S OBVIOUS
  <2>q. QED
    BY <1>1, <1>2, <1>3, <1>4
       DEF Ledger!GiveUp, Ledger!InState, Ledger!Set, Ledger!Debts, Debts, Quiet
<1>q. QED BY <1>5 DEF Ledger!Next, Ledger!Debts, Debts

(* A step that settles one debt that was reached is Settle.                *)
LEMMA SettleIs ==
    ASSUME Quiet, NEW d \in Debts, Standing(d) = "owed", Standing(d)' = "settled",
           d \in Reached, \A e \in Debts \ {d} : Same(e)
    PROVE  Ledger!Next
<1>1. Standings' = [e \in Debts |-> IF e \in {d} THEN "settled" ELSE Standings[e]]
  BY DEF Standings, Same
<1>2. Standings[d] = "owed" BY DEF Standings
<1>3. Spent' = Spent BY SpentIs DEF Spent, Same
<1>4. Ledger!Settle(d)
  BY <1>1, <1>2, <1>3 DEF Ledger!Settle, Ledger!Set, Ledger!Debts, Debts, Quiet
<1>q. QED BY <1>4 DEF Ledger!Next, Ledger!Debts, Debts

(* A step that owes what it entitles to, and only that, is Promise.        *)
LEMMA PromiseIs ==
    ASSUME UNCHANGED <<Reached, Rejected>>, Entitled \subseteq Entitled',
           \A d \in Debts : \/ Same(d) /\ (d \in Entitled' => d \in Entitled)
                            \/ /\ Standing(d) = "none" /\ Standing(d)' = "owed"
                               /\ d \in Entitled' \ Entitled
    PROVE  Ledger!Next
<1> DEFINE S == Entitled' \ Entitled
<1>0. S \subseteq Debts BY DEF Entitled
<1>1. Standings' = [d \in Debts |-> IF d \in S THEN "owed" ELSE Standings[d]]
  BY DEF Standings, Same
<1>2. \A d \in S : Standings[d] = "none" BY <1>0 DEF Standings
<1>3. Spent' = Spent BY SpentIs DEF Spent, Same
<1>4. Entitled' = Entitled \cup S OBVIOUS
<1> HIDE DEF S
<1>5. Ledger!Promise(S)
  BY <1>1, <1>2, <1>3, <1>4 DEF Ledger!Promise, Ledger!InState, Ledger!Set, Ledger!Debts, Debts
<1>q. QED BY <1>0, <1>5 DEF Ledger!Next, Ledger!Debts, Debts

(* A step that forgets only debts whose entitlement it ends is Disentitle. *)
LEMMA DisentitleIs ==
    ASSUME UNCHANGED <<Reached, Rejected>>, Entitled' \subseteq Entitled,
           \A d \in Debts :
               \/ Same(d)
               \/ /\ d \in Entitled \ Entitled'
                  /\ Standing(d) \in {"owed", "abandoned"} /\ Standing(d)' = "none"
    PROVE  Ledger!Next
<1> DEFINE S == Entitled \ Entitled'
           F == {d \in S : Standing(d) # Standing(d)'}
<1>0. S \subseteq Entitled /\ F \subseteq S /\ S \subseteq Debts BY DEF Entitled
<1>1. Standings' = [d \in Debts |-> IF d \in F THEN "none" ELSE Standings[d]]
  BY DEF Standings, Same
<1>2. \A d \in F : Standings[d] \in {"owed", "abandoned"} BY <1>0 DEF Standings, Same
<1>3. Spent' = Spent \ F BY SpentIs DEF Spent, Same
<1>4. Entitled' = Entitled \ S OBVIOUS
<1> HIDE DEF S, F
<1>5. Ledger!Disentitle(S, F)
  BY <1>0, <1>1, <1>2, <1>3, <1>4 DEF Ledger!Disentitle, Ledger!Set, Ledger!Debts, Debts
<1>q. QED BY <1>0, <1>5 DEF Ledger!Next, Ledger!Debts, Debts

(* A step that ends all that was owed for one post is Delete.              *)
LEMMA DeleteIs ==
    ASSUME UNCHANGED <<Reached, Rejected>>, NEW p \in Posts,
           Entitled' = Entitled \ ({p} \X Inboxes),
           \A d \in Debts : IF d[1] = p THEN Standing(d)' = "none" ELSE Same(d)
    PROVE  Ledger!Next
<1> DEFINE S == {p} \X Inboxes
<1>0. \A d \in Debts : d \in S <=> d[1] = p BY DEF Debts
<1>1. Standings' = [d \in Debts |-> IF d \in S THEN "none" ELSE Standings[d]]
  BY <1>0 DEF Standings, Same
<1>3. Spent' = Spent \ S BY <1>0, SpentIs DEF Spent, Same
<1>5. Ledger!Delete(p)
  BY <1>1, <1>3 DEF Ledger!Delete, Ledger!Set, Ledger!Debts, Debts
<1>q. QED BY <1>5 DEF Ledger!Next

(* A step that adds one debt to those reached or rejected is Post.         *)
LEMMA PostIs ==
    ASSUME UNCHANGED <<Standings, Entitled, Spent>>, NEW d \in Debts,
           \/ Reached' = Reached \cup {d} /\ UNCHANGED Rejected
           \/ Rejected' = Rejected \cup {d} /\ UNCHANGED Reached
    PROVE  Ledger!Next
  BY DEF Ledger!Next, Ledger!Post, Ledger!Debts, Debts

-----------------------------------------------------------------------------
(* The rows that bear debts.                                               *)

(* The keys of a debt's two rows, and their parts.                         *)
LEMMA Keys ==
    ASSUME NEW d \in Debts
    PROVE  /\ d[1] \in Posts /\ d[2] \in Inboxes
           /\ TargetKey(d) \in Rows /\ ~Generic(TargetKey(d))
           /\ Post(TargetKey(d)) = d[1] /\ Inbox(TargetKey(d)) = d[2]
           /\ GenericKey(d) \in Rows /\ Generic(GenericKey(d)) /\ Post(GenericKey(d)) = d[1]
           /\ Kind(TargetKey(d)) = "Create" /\ Kind(GenericKey(d)) = "Create"
           /\ Bearer(d) \in {TargetKey(d), GenericKey(d)}
<1>1. d[1] \in Posts /\ d[2] \in Inboxes BY DEF Debts
<1>2. d[2] # NoInbox BY <1>1, FanoutAssumption
<1>q. QED BY <1>1, <1>2, KeyMade DEF TargetKey, GenericKey, Generic, Bearer

(* Every target row of a Create is the row of one debt.                    *)
LEMMA DebtOfKey ==
    ASSUME NEW k \in Rows, ~Generic(k), Kind(k) = "Create"
    PROVE  <<Post(k), Inbox(k)>> \in Debts /\ TargetKey(<<Post(k), Inbox(k)>>) = k
  BY KeyParts DEF Debts, TargetKey, Generic

(* An unwritten debt of an entitled inbox is carried by a generic row that *)
(* is not closed: no follower is skipped.                                  *)
LEMMA CarrierOpen ==
    ASSUME NoFollowerSkipped, TypeOK, NEW d \in Debts, Bearer(d) # TargetKey(d)
    PROVE  /\ Bearer(d) = GenericKey(d) /\ d \in Entitled
           /\ row[TargetKey(d)].st = "absent"
           /\ row[GenericKey(d)].st \notin {"expanded", "delivered"}
<1>1. row[TargetKey(d)].st = "absent" /\ d \in Entitled /\ Bearer(d) = GenericKey(d)
  BY DEF Bearer
<1>2. PICK a \in loyal[d[1]] : InboxOf[a] = d[2] BY <1>1 DEF Entitled
<1>q. QED BY <1>1, <1>2, Keys DEF NoFollowerSkipped, TargetKey, GenericKey

(* Steps that change nobody's entitlement nor what was received.           *)
LEMMA QuietIs ==
    ASSUME UNCHANGED <<loyal, received, refused>>
    PROVE  Quiet
  BY DEF Quiet, Entitled, Reached, Rejected, Creates

(* As long as rows neither appear nor go, debts stay with their rows.      *)
LEMMA Steady ==
    ASSUME UNCHANGED loyal,
           \A k \in Rows : row'[k].st = "absent" <=> row[k].st = "absent"
    PROVE  \A d \in Debts : Bearer(d)' = Bearer(d)
<1>1. Entitled' = Entitled BY DEF Entitled
<1>2. \A d \in Debts : row'[TargetKey(d)].st = "absent" <=> row[TargetKey(d)].st = "absent"
  BY Keys
<1>q. QED BY <1>1, <1>2 DEF Bearer, TargetKey, GenericKey

SameRow(k) ==
    /\ DebtOf(row'[k].st) = DebtOf(row[k].st)
    /\ row[k].st = "failed" => row'[k].att = row[k].att

(* Nothing happens to the debts when nothing happens to their bearers.     *)
LEMMA SameIs ==
    ASSUME NEW d \in Debts, Bearer(d)' = Bearer(d), SameRow(Bearer(d))
    PROVE  Same(d)
<1>1. Standing(d)' = DebtOf(row'[Bearer(d)].st) /\ Standing(d) = DebtOf(row[Bearer(d)].st)
  BY DEF Standing
<1>2. /\ IsSpent(d)' <=> row'[Bearer(d)].st = "failed" /\ row'[Bearer(d)].att >= MaxAttempts
      /\ IsSpent(d) <=> row[Bearer(d)].st = "failed" /\ row[Bearer(d)].att >= MaxAttempts
  BY DEF IsSpent
<1>3. row'[Bearer(d)].st = "failed" <=> row[Bearer(d)].st = "failed"
  BY DEF SameRow, DebtOf
<1>q. QED BY <1>1, <1>2, <1>3 DEF Same, SameRow

(* A step under which no bearer changes is a step that offers nothing.     *)
LEMMA AllSame ==
    ASSUME UNCHANGED <<loyal, received, refused>>,
           \A k \in Rows : row'[k].st = "absent" <=> row[k].st = "absent",
           \A d \in Debts : SameRow(Bearer(d))
    PROVE  Ledger!Next
<1>1. \A d \in Debts : Same(d) BY Steady, SameIs
<1>q. QED BY <1>1, QuietIs, OfferIs

(* INSERT OR IGNORE only writes down debts, or offers them again.          *)
LEMMA InsertIs ==
    ASSUME TypeOK, NoFollowerSkipped, UNCHANGED <<loyal, received, refused>>,
           NEW C, row' = InsertRows(C)
    PROVE  Ledger!Next
<1>1. Entitled' = Entitled BY DEF Entitled
<1>2. ASSUME NEW d \in Debts PROVE Same(d) \/ Offered(d)
  <2> DEFINE t == TargetKey(d)  g == GenericKey(d)
  <2>0. t \in Rows /\ g \in Rows /\ d[1] \in Posts BY Keys
  <2>1. /\ row'[t] = row[t] \/ (row[t].st = "absent" /\ row'[t] = Queued)
        /\ row'[g] = row[g] \/ (row[g].st = "absent" /\ row'[g] = Queued)
    BY <2>0, InsertedRows
  <2>2. Bearer(d)' = IF row'[t].st = "absent" /\ d \in Entitled THEN g ELSE t
    BY <1>1 DEF Bearer, TargetKey, GenericKey
  <2>3. Bearer(d) = IF row[t].st = "absent" /\ d \in Entitled THEN g ELSE t
    BY DEF Bearer
  <2>4. Standing(d)' = DebtOf(row'[Bearer(d)'].st) /\ Standing(d) = DebtOf(row[Bearer(d)].st)
    BY DEF Standing
  <2>5. /\ IsSpent(d)' <=> row'[Bearer(d)'].st = "failed" /\ row'[Bearer(d)'].att >= MaxAttempts
        /\ IsSpent(d) <=> row[Bearer(d)].st = "failed" /\ row[Bearer(d)].att >= MaxAttempts
    BY DEF IsSpent
  <2> HIDE DEF t, g
  <2>6. CASE Bearer(d)' = Bearer(d) /\ row'[Bearer(d)] = row[Bearer(d)]
    BY <2>4, <2>5, <2>6 DEF Same
  <2>7. CASE Bearer(d)' = Bearer(d) /\ row[Bearer(d)].st = "absent" /\ row'[Bearer(d)] = Queued
    BY <2>4, <2>7 DEF Offered, DebtOf, Queued
  <2>8. CASE Bearer(d) = g /\ Bearer(d)' = t /\ row'[t] = Queued /\ g # t
    <3>1. row[g].st \notin {"expanded", "delivered"} BY <2>8, CarrierOpen DEF t, g
    <3>2. row[g].st \in States BY <2>0 DEF TypeOK, States
    <3>3. Standing(d)' = "owed" /\ ~IsSpent(d)' BY <2>4, <2>5, <2>8 DEF DebtOf, Queued
    <3>4. Standing(d) \in {"owed", "none", "abandoned"} /\ (Standing(d) = "owed" => ~IsSpent(d))
      BY <2>4, <2>5, <2>8, <3>1, <3>2 DEF DebtOf, States
    <3>q. QED BY <3>3, <3>4 DEF Same, Offered
  <2>9. Queued.st # "absent" BY DEF Queued
  <2>q. QED BY <2>1, <2>2, <2>3, <2>6, <2>7, <2>8, <2>9
<1>q. QED BY <1>2, QuietIs, OfferIs

-----------------------------------------------------------------------------
(* What the promise rests on.                                              *)

(* Every host is resolved, and who leaves shares his inbox with nobody:    *)
(* otherwise a delivery ends at its first attempt, or with the rows that   *)
(* are cancelled for somebody else (dns_failure, delete_follower_by_actor).*)
Regular ==
    /\ "unresolved" \notin Seen
    /\ \A a \in Movers, b \in Actors : InboxOf[a] = InboxOf[b] => a = b

(* Only what an inbox rejected counts as refused, and only who has lost    *)
(* his entitlement is found blocked.                                       *)
JobFits(j) ==
    /\ Written(Post(j.row))
    /\ j.ph = "refused" => j.row \in refused
    /\ j.ph = "blocked" => \A a \in loyal[Post(j.row)] : InboxOf[a] # Inbox(j.row)

JobsFit == \A r \in Runs : \A j \in jobs[r] : JobFits(j)

TargetsOpen == \A k \in Rows : row[k].st = "expanded" => Generic(k)

LeftAlone == \A a \in leaving, p \in Posts : \A b \in loyal[p] : InboxOf[b] # InboxOf[a]

LedgerInv == FanoutInv /\ ReceivedInv /\ JobsFit /\ TargetsOpen /\ LeftAlone

(* What was rejected stays rejected.                                       *)
LEMMA RefusedGrows ==
    ASSUME NEW r \in Runs, RunAction(r) PROVE refused \subseteq refused'
<1>1. CASE Send(r) BY <1>1 DEF Send
<1>2. CASE ~Send(r)
  BY <1>2 DEF RunAction, RunStep, Start, RequeueStale, ClaimGeneric, PlanExpansion,
              MarkCompleted, ExpandChunk, ExpandFails, FinishExpansion, ClaimTargets,
              CheckBlocks, FailBlocked, RecordOutcome, FinishRun, Crash, history
<1>q. QED BY <1>1, <1>2

(* A run files its jobs under blocked and refused only for that cause.     *)
LEMMA FitsByRun ==
    ASSUME Regular, TypeOK, Shape, Entitlement, JobsFit, NEW r \in Runs, RunAction(r)
    PROVE  JobsFit'
<1>0. /\ jobs \in [Runs -> SUBSET JobType] /\ row \in [Rows -> RowType]
      /\ UNCHANGED <<post, loyal>> /\ refused \subseteq refused'
  BY RunFrame, RefusedGrows DEF TypeOK, JobType, RowType, States
<1>1. ASSUME NEW j, JobFits(j) PROVE JobFits(j)'
  BY <1>0, <1>1 DEF JobFits, Written
<1>2. \A q \in Runs \ {r} : \A j \in jobs'[q] : JobFits(j)'
  BY <1>1, OtherJobs DEF JobsFit
<1>3. \A j \in jobs'[r] : JobFits(j)'
  <2>1. CASE ClaimTargets(r)
    <3>1. PICK T \in Claimable({k \in Rows : Due(k) /\ ~Generic(k)}, TargetBatch) :
             jobs' = [jobs EXCEPT ![r] =
                        {[row |-> k, att |-> row[k].att, ph |-> "claimed"] : k \in T}]
      BY <2>1 DEF ClaimTargets
    <3>2. \A k \in T : k \in Rows /\ row[k].st = "queued" BY DEF Claimable, Due
    <3>3. \A k \in T : Written(Post(k)) BY <3>2 DEF Shape
    <3>4. ASSUME NEW j \in jobs'[r] PROVE JobFits(j)
      <4>1. PICK k \in T : j = [row |-> k, att |-> row[k].att, ph |-> "claimed"]
        BY <1>0, <3>1
      <4>q. QED BY <3>3, <4>1 DEF JobFits
    <3>q. QED BY <1>1, <3>4
  <2>2. CASE CheckBlocks(r)
    <3>1. PICK view \in BlockViews :
             jobs' = [jobs EXCEPT ![r] =
                        {[j EXCEPT !.ph = IF Inbox(j.row) \in view THEN "blocked" ELSE "todo"]
                           : j \in jobs[r]}]
      BY <2>2 DEF CheckBlocks
    <3>2. view \subseteq blocked BY DEF BlockViews
    <3>3. ASSUME NEW j \in jobs'[r] PROVE JobFits(j)
      <4>1. PICK i \in jobs[r] :
               j = [i EXCEPT !.ph = IF Inbox(i.row) \in view THEN "blocked" ELSE "todo"]
        BY <1>0, <3>1
      <4>2. i \in JobType /\ JobFits(i) /\ Post(i.row) \in Posts
        BY <1>0, KeyParts DEF JobsFit, JobType
      <4>3. /\ j.row = i.row /\ j.ph # "refused"
            /\ j.ph = "blocked" => Inbox(i.row) \in blocked
        BY <3>2, <4>1, <4>2 DEF JobType
      <4>q. QED BY <4>2, <4>3 DEF JobFits, Entitlement
    <3>q. QED BY <1>1, <3>3
  <2>3. CASE Send(r)
    <3>1. PICK j \in jobs[r], answer \in Seen :
             /\ jobs' = [jobs EXCEPT ![r] = (@ \ {j}) \cup {[j EXCEPT !.ph = OutcomeOf(answer)]}]
             /\ refused' = IF answer = "rejected" THEN refused \cup {j.row} ELSE refused
      BY <2>3 DEF Send
    <3>2. j \in JobType /\ JobFits(j) BY <1>0 DEF JobsFit
    <3>3. OutcomeOf(answer) = "refused" => answer = "rejected"
      BY FanoutAssumption DEF Regular, Answers, OutcomeOf
    <3>4. OutcomeOf(answer) # "blocked"
      BY FanoutAssumption DEF Answers, OutcomeOf
    <3>5. JobFits([j EXCEPT !.ph = OutcomeOf(answer)])'
      <4> DEFINE i == [j EXCEPT !.ph = OutcomeOf(answer)]
      <4>1. i.row = j.row /\ i.ph = OutcomeOf(answer) BY <3>2 DEF JobType
      <4>2. Written(Post(j.row))' BY <1>0, <3>2 DEF JobFits, Written
      <4>3. i.ph = "refused" => i.row \in refused' BY <3>1, <3>3, <4>1
      <4> HIDE DEF i
      <4>4. JobFits(i)' BY <3>4, <4>1, <4>2, <4>3 DEF JobFits
      <4>q. QED BY <4>4 DEF i
    <3>6. \A i \in jobs[r] : JobFits(i)' BY <1>1 DEF JobsFit
    <3>7. jobs'[r] = (jobs[r] \ {j}) \cup {[j EXCEPT !.ph = OutcomeOf(answer)]}
      BY <1>0, <3>1
    <3>q. QED BY <3>5, <3>6, <3>7
  <2>4. CASE jobs'[r] \subseteq jobs[r] BY <1>1, <2>4 DEF JobsFit
  <2>5. CASE FailBlocked(r) \/ RecordOutcome(r) \/ Crash(r) \/ ExpandFails(r)
    BY <1>0, <2>4, <2>5 DEF FailBlocked, RecordOutcome, Close, Crash, ExpandFails, Stop
  <2>6. CASE \/ Start(r) \/ RequeueStale(r) \/ ClaimGeneric(r) \/ PlanExpansion(r)
             \/ MarkCompleted(r) \/ ExpandChunk(r) \/ FinishExpansion(r) \/ FinishRun(r)
    <3>1. jobs' = jobs
      BY <2>6 DEF Start, RequeueStale, ClaimGeneric, PlanExpansion, MarkCompleted,
                  ExpandChunk, FinishExpansion, FinishRun
    <3>q. QED BY <2>4, <3>1
  <2>q. QED BY <2>1, <2>2, <2>3, <2>5, <2>6 DEF RunAction, RunStep
<1>q. QED BY <1>2, <1>3 DEF JobsFit

(* Every step keeps the jobs fitting: causes do not go away.               *)
LEMMA FitsStep ==
    ASSUME Regular, TypeOK, Shape, Entitlement, JobsFit, [Next]_vars
    PROVE  JobsFit'
<1>0. jobs \in [Runs -> SUBSET JobType] BY DEF TypeOK, JobType
<1>1. ASSUME UNCHANGED <<jobs, refused>>,
             \A q \in Posts : Written(q) => Written(q)' /\ loyal'[q] \subseteq loyal[q]
      PROVE  JobsFit'
  <2>1. ASSUME NEW r \in Runs, NEW j \in jobs[r] PROVE JobFits(j)'
    <3>1. Post(j.row) \in Posts BY <1>0, KeyParts DEF JobType
    <3>2. JobFits(j) BY DEF JobsFit
    <3>q. QED BY <1>1, <3>1, <3>2 DEF JobFits
  <2>q. QED BY <1>1, <2>1 DEF JobsFit
<1>2. ASSUME NEW p \in Posts, AuthorStep(p) PROVE JobsFit'
  BY <1>1, <1>2, OtherFrame, AuthorWritten, AuthorLoyal
<1>3. CASE PeopleAction
  <2>1. UNCHANGED <<jobs, refused>> BY <1>3, OtherFrame DEF PeopleAction
  <2>q. QED BY <1>1, <1>3, <2>1, PeopleRows DEF Written
<1>4. ASSUME NEW r \in Runs, RunAction(r) PROVE JobsFit' BY <1>4, FitsByRun
<1>5. CASE UNCHANGED vars
  BY <1>1, <1>5 DEF vars, table, workers, history, Written
<1>q. QED BY <1>2, <1>3, <1>4, <1>5 DEF Next, PeopleAction, RunAction

(* Every step leaves target rows unexpanded.                               *)
LEMMA OpenStep ==
    ASSUME TypeOK, Shape, TargetsOpen, [Next]_vars PROVE TargetsOpen'
<1>1. ASSUME NEW k \in Rows, row'[k].st = "expanded", ~Generic(k) PROVE FALSE
  <2>1. ASSUME NEW r \in Runs, RunAction(r) PROVE FALSE
    BY <1>1, <2>1, RunRowStep DEF Requeued, Claimed, Completed, Inserted, Queued,
                                  Expanded, Settled, TargetsOpen, Shape
  <2>2. CASE PeopleAction \/ \E p \in Posts : AuthorStep(p)
    BY <1>1, <2>2, OtherRowStep DEF Absent, Inserted, Queued, TargetsOpen
  <2>3. CASE UNCHANGED vars BY <1>1, <2>3 DEF vars, table, TargetsOpen
  <2>q. QED BY <2>1, <2>2, <2>3 DEF Next, PeopleAction, RunAction
<1>q. QED BY <1>1 DEF TargetsOpen

(* Every step keeps those who leave apart from the entitled.               *)
LEMMA LeftStep ==
    ASSUME Regular, TypeOK, LeftAlone, [Next]_vars PROVE LeftAlone'
<1>0. loyal \in [Posts -> SUBSET Actors] /\ Movers \subseteq Actors
  BY FanoutAssumption DEF TypeOK
<1>1. ASSUME NEW p \in Posts, AuthorStep(p) PROVE LeftAlone'
  <2>1. leaving' = leaving /\ loyal'[p] \subseteq loyal[p] \cup EntitledNow BY <1>1, AuthorLoyal
  <2>2. \A q \in Posts \ {p} : loyal'[q] = loyal[q] BY <1>1, AuthorWritten
  <2>3. \A b \in EntitledNow : \A a \in leaving : InboxOf[b] # InboxOf[a] BY DEF EntitledNow
  <2>q. QED BY <2>1, <2>2, <2>3 DEF LeftAlone
<1>2. ASSUME NEW a \in Movers, Unfollow(a) PROVE LeftAlone'
  <2>1. leaving' = leaving \cup {a} /\ \A p \in Posts : loyal'[p] = loyal[p] \ {a}
    BY <1>2 DEF Unfollow
  <2>q. QED BY <1>0, <2>1 DEF LeftAlone, Regular
<1>3. CASE leaving' \subseteq leaving /\ \A p \in Posts : loyal'[p] \subseteq loyal[p]
  BY <1>3 DEF LeftAlone
<1>4. CASE PeopleAction /\ ~\E a \in Movers : Unfollow(a)
  <2>1. leaving' \subseteq leaving
    BY <1>4 DEF PeopleAction, FollowerStep, Follow, CancelRows, CancelLost, Block, Unblock,
                AdminRetry, Age, Kick, people
  <2>q. QED BY <1>3, <1>4, <2>1, PeopleRows
<1>5. ASSUME NEW r \in Runs, RunAction(r) PROVE LeftAlone'
  BY <1>3, <1>5, RunFrame
<1>6. CASE UNCHANGED vars BY <1>3, <1>6 DEF vars, people, history
<1>q. QED BY <1>1, <1>2, <1>4, <1>5, <1>6 DEF Next, PeopleAction, RunAction

(* Every step keeps all the promise rests on.                              *)
LEMMA LedgerInvStep ==
    ASSUME Regular, LedgerInv, [Next]_vars PROVE LedgerInv'
<1>1. FanoutInv' /\ ReceivedInv' BY FanoutStep, ReceivedStep DEF LedgerInv
<1>2. JobsFit' /\ TargetsOpen' /\ LeftAlone'
  BY FitsStep, OpenStep, LeftStep DEF LedgerInv, FanoutInv
<1>q. QED BY <1>1, <1>2 DEF LedgerInv

(* It holds initially.                                                     *)
LEMMA LedgerInvInit == Init => LedgerInv
<1>1. Init => FanoutInv BY FanoutInit
<1>2. Init => ReceivedInv
  BY <1>1, KeyParts DEF FanoutInv, Init, ReceivedInv, Honest, DeliveredWasReceived, Absent
<1>3. Init => JobsFit /\ TargetsOpen /\ LeftAlone
  BY DEF Init, JobsFit, TargetsOpen, LeftAlone, Absent
<1>q. QED BY <1>1, <1>2, <1>3 DEF LedgerInv

-----------------------------------------------------------------------------

(* The steps of the pipeline, one by one.                                  *)

Dropped(k) ==
    /\ row[k].st \in {"queued", "in_flight"} /\ row'[k].st = "failed"
    /\ \/ row'[k].att >= MaxAttempts
       \/ \A d \in Debts : Bearer(d) = k => d \in Rejected \/ d \notin Entitled

(* Rows that fail give up what they bear.                                  *)
LEMMA DroppedIs ==
    ASSUME UNCHANGED <<loyal, received, refused>>,
           \A k \in Rows : row'[k].st = "absent" <=> row[k].st = "absent",
           \A k \in Rows : SameRow(k) \/ Dropped(k)
    PROVE  Ledger!Next
<1>1. ASSUME NEW d \in Debts PROVE Same(d) \/ GivenUp(d)
  <2>0. Bearer(d) \in Rows BY Keys
  <2>1. Bearer(d)' = Bearer(d) BY Steady
  <2>2. CASE SameRow(Bearer(d)) BY <2>1, <2>2, SameIs
  <2>3. CASE Dropped(Bearer(d))
    <3>1. /\ Standing(d)' = DebtOf(row'[Bearer(d)].st)
          /\ IsSpent(d)' <=> row'[Bearer(d)].st = "failed" /\ row'[Bearer(d)].att >= MaxAttempts
      BY <2>1 DEF Standing, IsSpent
    <3>q. QED BY <2>3, <3>1 DEF Dropped, GivenUp, Standing, DebtOf
  <2>q. QED BY <2>0, <2>2, <2>3
<1>q. QED BY <1>1, QuietIs, GiveUpIs

(* A row a run is about to close bears nothing: all it stood for has rows. *)
LEMMA BatchBearsNone ==
    ASSUME FanoutInv, NEW r \in Runs, NEW k \in batch[r], NEW d \in Debts,
           pc[r] = "complete" \/ (pc[r] = "expand" /\ plan[r] = {})
    PROVE  Bearer(d) # k
<1> SUFFICES ASSUME Bearer(d) = k PROVE FALSE OBVIOUS
<1>1. Generic(k) BY DEF FanoutInv, Shape
<1>2. /\ d \in Entitled /\ row[TargetKey(d)].st = "absent"
      /\ Kind(k) = "Create" /\ Post(k) = d[1]
  BY <1>1, Keys, CarrierOpen DEF FanoutInv
<1>3. PICK a \in loyal[d[1]] : InboxOf[a] = d[2] BY <1>2 DEF Entitled
<1>4. CopyOf(Post(k), a) = TargetKey(d) BY <1>2, <1>3 DEF CopyOf, TargetKey
<1>q. QED BY <1>2, <1>3, <1>4 DEF FanoutInv, Covered

(* A target row bears one debt, the one its key names.                     *)
LEMMA TargetBears ==
    ASSUME NEW d \in Debts, NEW k \in Rows, ~Generic(k), Bearer(d) = k
    PROVE  k = TargetKey(d) /\ Post(k) = d[1] /\ Inbox(k) = d[2]
  BY Keys
LedgerStep == Ledger!Next \/ UNCHANGED <<Standings, Entitled, Spent, Reached, Rejected>>

(* The first half of a run requeues, claims and expands: what it touches   *)
(* stays owed, is given up after the last attempt or is written down.      *)
LEMMA LedgerByExpansion ==
    ASSUME LedgerInv, NEW r \in Runs,
           \/ RequeueStale(r) \/ ClaimGeneric(r) \/ ExpandChunk(r)
           \/ MarkCompleted(r) \/ FinishExpansion(r) \/ ClaimTargets(r)
    PROVE  Ledger!Next
<1>0. /\ TypeOK /\ FanoutInv /\ NoFollowerSkipped /\ RunAction(r)
      /\ row \in [Rows -> RowType] /\ \A k \in Rows : row[k] \in RowType
  BY DEF LedgerInv, FanoutInv, TypeOK, RowType, States, RunAction, RunStep
<1>1. UNCHANGED <<loyal, received, refused>>
  BY DEF RequeueStale, ClaimGeneric, ExpandChunk, MarkCompleted, FinishExpansion,
         ClaimTargets, history
<1>2. CASE RequeueStale(r)
  <2>1. ASSUME NEW k \in Rows
        PROVE  (row'[k].st = "absent" <=> row[k].st = "absent") /\ (SameRow(k) \/ Dropped(k))
    <3>1. row'[k] = IF ~Stale(k) THEN row[k]
                    ELSE LET next == NextAttempt(row[k].att)
                         IN  IF IsTerminal(next)
                               THEN [st |-> "failed", att |-> next, ripe |-> FALSE]
                               ELSE [st |-> "queued", att |-> next, ripe |-> TRUE]
      BY <1>2 DEF RequeueStale
    <3>2. CASE ~Stale(k) BY <3>1, <3>2 DEF SameRow
    <3>3. CASE Stale(k) /\ IsTerminal(NextAttempt(row[k].att))
      BY <3>1, <3>3 DEF Stale, Dropped, IsTerminal
    <3>4. CASE Stale(k) /\ ~IsTerminal(NextAttempt(row[k].att))
      BY <3>1, <3>4 DEF Stale, SameRow, DebtOf
    <3>q. QED BY <3>2, <3>3, <3>4
  <2>q. QED BY <1>1, <2>1, DroppedIs
<1>3. CASE ClaimGeneric(r) \/ ClaimTargets(r)
  <2>1. PICK T \in SUBSET Rows : row' = Lease(T) /\ \A k \in T : row[k].st = "queued"
    <3>1. CASE ClaimGeneric(r)
      <4>1. PICK T \in Claimable({k \in Rows : Due(k) /\ Generic(k)}, GenericBatch) :
               row' = Lease(T)
        BY <3>1 DEF ClaimGeneric
      <4>2. T \in SUBSET Rows /\ \A k \in T : row[k].st = "queued" BY DEF Claimable, Due
      <4>q. QED BY <4>1, <4>2
    <3>2. CASE ClaimTargets(r)
      <4>1. PICK T \in Claimable({k \in Rows : Due(k) /\ ~Generic(k)}, TargetBatch) :
               row' = Lease(T)
        BY <3>2 DEF ClaimTargets
      <4>2. T \in SUBSET Rows /\ \A k \in T : row[k].st = "queued" BY DEF Claimable, Due
      <4>q. QED BY <4>1, <4>2
    <3>q. QED BY <1>3, <3>1, <3>2
  <2>2. ASSUME NEW k \in Rows
        PROVE  (row'[k].st = "absent" <=> row[k].st = "absent") /\ SameRow(k)
    BY <1>0, <2>1 DEF Lease, SameRow, DebtOf, RowType
  <2>q. QED BY <1>1, <2>2, DroppedIs
<1>4. CASE ExpandChunk(r)
  <2>1. PICK C \in Chunks(r) : row' = InsertRows(C) BY <1>4 DEF ExpandChunk
  <2>q. QED BY <1>0, <1>1, <2>1, InsertIs
<1>5. CASE MarkCompleted(r) \/ FinishExpansion(r)
  <2>1. pc[r] = "complete" \/ (pc[r] = "expand" /\ plan[r] = {})
    BY <1>5 DEF MarkCompleted, FinishExpansion, AllInserted
  <2>2. \A k \in Rows \ batch[r] : row'[k] = row[k]
    BY <1>5 DEF MarkCompleted, FinishExpansion
  <2>3. \A d \in Debts : Bearer(d) \in Rows /\ Bearer(d) \notin batch[r]
    BY <1>0, <2>1, Keys, BatchBearsNone
  <2>4. \A d \in Debts : SameRow(Bearer(d)) BY <2>2, <2>3 DEF SameRow
  <2>5. ASSUME NEW k \in Rows PROVE row'[k].st = "absent" <=> row[k].st = "absent"
    <3>1. row[k] \in RowType BY <1>0
    <3>2. CASE MarkCompleted(r)
      <4>1. row'[k] = IF k \in batch[r] /\ row[k].st # "absent"
                        THEN [row[k] EXCEPT !.st = "delivered", !.ripe = FALSE] ELSE row[k]
        BY <3>2 DEF MarkCompleted
      <4>q. QED BY <3>1, <4>1 DEF RowType
    <3>3. CASE FinishExpansion(r)
      <4>1. row'[k] = IF k \in batch[r] /\ row[k].st = "in_flight"
                        THEN [row[k] EXCEPT !.st = "expanded", !.ripe = FALSE] ELSE row[k]
        BY <3>3 DEF FinishExpansion
      <4>q. QED BY <3>1, <4>1 DEF RowType
    <3>q. QED BY <1>5, <3>2, <3>3
  <2>q. QED BY <1>1, <2>4, <2>5, AllSame
<1>q. QED BY <1>2, <1>3, <1>4, <1>5

(* Who gives a target row up knows that nobody is entitled to it, that it  *)
(* was rejected, or that its attempts are spent.                           *)
LEMMA LedgerByDrop ==
    ASSUME LedgerInv, UNCHANGED <<loyal, received, refused>>,
           NEW k \in Rows, ~Generic(k), NEW st, NEW att \in Nat, row' = Mark(k, st, att),
           \/ st = "queued"
           \/ st = "failed" /\ att >= MaxAttempts
           \/ st = "failed" /\ k \in refused
           \/ st = "failed" /\ \A a \in loyal[Post(k)] : InboxOf[a] # Inbox(k)
    PROVE  Ledger!Next
<1>0. row \in [Rows -> RowType] BY DEF LedgerInv, FanoutInv, TypeOK, RowType, States
<1>1. \A x \in Rows : row'[x] = IF x = k /\ row[k].st = "in_flight"
                                  THEN [st |-> st, att |-> att, ripe |-> FALSE] ELSE row[x]
  BY <1>0 DEF Mark
<1>2. \A x \in Rows : row'[x].st = "absent" <=> row[x].st = "absent" BY <1>1
<1>3. ASSUME NEW x \in Rows PROVE SameRow(x) \/ Dropped(x)
  <2>1. CASE ~(x = k /\ row[k].st = "in_flight") BY <1>1, <2>1 DEF SameRow
  <2>2. CASE x = k /\ row[k].st = "in_flight" /\ st = "queued"
    BY <1>1, <2>2 DEF SameRow, DebtOf
  <2>3. CASE x = k /\ row[k].st = "in_flight" /\ st = "failed"
    <3>1. ASSUME NEW d \in Debts, Bearer(d) = k, att < MaxAttempts
          PROVE  d \in Rejected \/ d \notin Entitled
      <4>1. k = TargetKey(d) /\ Post(k) = d[1] /\ Inbox(k) = d[2] BY <3>1, TargetBears
      <4>q. QED BY <2>3, <3>1, <4>1, MaxAttemptsAssumption DEF Rejected, Creates, Entitled
    <3>2. row'[k].st = "failed" /\ row'[k].att = att BY <1>1, <2>3
    <3>3. att >= MaxAttempts \/ att < MaxAttempts BY MaxAttemptsAssumption
    <3>q. QED BY <2>3, <3>1, <3>2, <3>3 DEF Dropped
  <2>q. QED BY <2>1, <2>2, <2>3
<1>q. QED BY <1>2, <1>3, DroppedIs

(* A success settles the debt whose POST reached the inbox.                *)
LEMMA LedgerBySuccess ==
    ASSUME LedgerInv, UNCHANGED <<loyal, received, refused>>,
           NEW k \in Rows, ~Generic(k), k \in received, NEW att \in Nat,
           row' = Mark(k, "delivered", att)
    PROVE  Ledger!Next
<1>0. row \in [Rows -> RowType] BY DEF LedgerInv, FanoutInv, TypeOK, RowType, States
<1>1. \A x \in Rows : row'[x] = IF x = k /\ row[k].st = "in_flight"
                                  THEN [st |-> "delivered", att |-> att, ripe |-> FALSE]
                                  ELSE row[x]
  BY <1>0 DEF Mark
<1>2. \A x \in Rows : row'[x].st = "absent" <=> row[x].st = "absent" BY <1>1
<1>3. \A x \in Rows \ {k} : SameRow(x) BY <1>1 DEF SameRow
<1>4. CASE SameRow(k)
  <2>1. \A d \in Debts : SameRow(Bearer(d)) BY <1>3, <1>4, Keys
  <2>q. QED BY <1>2, <2>1, AllSame
<1>5. CASE ~SameRow(k) /\ Kind(k) # "Create"
  <2>1. \A d \in Debts : Bearer(d) \in Rows \ {k} BY <1>5, Keys
  <2>2. \A d \in Debts : SameRow(Bearer(d)) BY <1>3, <2>1
  <2>q. QED BY <1>2, <2>2, AllSame
<1>6. CASE ~SameRow(k) /\ Kind(k) = "Create"
  <2>1. row[k].st = "in_flight" /\ row'[k].st = "delivered" BY <1>1, <1>6 DEF SameRow
  <2>2. PICK d \in Debts : TargetKey(d) = k BY <1>6, DebtOfKey
  <2>3. Bearer(d) = k BY <2>1, <2>2 DEF Bearer
  <2>4. \A e \in Debts : Bearer(e)' = Bearer(e) BY <1>2, Steady
  <2>5. Standing(d) = "owed" /\ Standing(d)' = "settled"
    <3>1. Standing(d)' = DebtOf(row'[Bearer(d)].st) BY <2>4 DEF Standing
    <3>q. QED BY <2>1, <2>3, <3>1 DEF Standing, DebtOf
  <2>6. ASSUME NEW e \in Debts \ {d} PROVE Same(e)
    <3>1. Bearer(e) # k
      <4>1. d = <<d[1], d[2]>> /\ e = <<e[1], e[2]>> BY DEF Debts
      <4>2. Post(k) = d[1] /\ Inbox(k) = d[2] BY <2>2, Keys
      <4>3. Bearer(e) = k => Post(k) = e[1] /\ Inbox(k) = e[2] BY TargetBears
      <4>q. QED BY <4>1, <4>2, <4>3
    <3>q. QED BY <1>3, <2>4, <3>1, Keys, SameIs
  <2>7. d \in Reached BY <2>2 DEF Reached, Creates
  <2>q. QED BY <2>5, <2>6, <2>7, QuietIs, SettleIs
<1>q. QED BY <1>4, <1>5, <1>6

(* The half of a run that delivers.                                        *)
LEMMA LedgerByDelivery ==
    ASSUME LedgerInv, NEW r \in Runs, FailBlocked(r) \/ RecordOutcome(r)
    PROVE  Ledger!Next
<1>0. /\ jobs \in [Runs -> SUBSET JobType] /\ row \in [Rows -> RowType]
      /\ Shape /\ JobsFit /\ Honest
  BY DEF LedgerInv, FanoutInv, TypeOK, JobType, RowType, States, ReceivedInv
<1>1. UNCHANGED <<loyal, received, refused>>
  BY DEF FailBlocked, RecordOutcome, history
<1>2. ASSUME NEW j \in jobs[r]
      PROVE  /\ j \in JobType /\ j.row \in Rows /\ ~Generic(j.row) /\ JobFits(j)
             /\ NextAttempt(j.att) \in Nat /\ row[j.row].att \in Nat
             /\ j.ph = "ok" => j.row \in received
  BY <1>0 DEF JobType, RowType, Shape, JobsFit, Honest, NextAttempt
<1>3. CASE FailBlocked(r)
  <2>1. PICK j \in jobs[r] :
           j.ph = "blocked" /\ row' = Mark(j.row, "failed", NextAttempt(j.att))
    BY <1>3 DEF FailBlocked, Close
  <2>2. \A a \in loyal[Post(j.row)] : InboxOf[a] # Inbox(j.row)
    BY <1>2, <2>1 DEF JobFits
  <2>q. QED BY <1>1, <1>2, <2>1, <2>2, LedgerByDrop
<1>4. CASE RecordOutcome(r)
  <2>1. PICK j \in jobs[r] :
           /\ j.ph \in Outcomes
           /\ row' = Mark(j.row, StateAfter(NextAttempt(j.att), j.ph),
                          IF j.ph = "ok" THEN row[j.row].att ELSE NextAttempt(j.att))
    BY <1>4 DEF RecordOutcome, Close
  <2>2. CASE j.ph = "ok"
    <3>1. row' = Mark(j.row, "delivered", row[j.row].att) BY <2>1, <2>2 DEF StateAfter
    <3>q. QED BY <1>1, <1>2, <2>2, <3>1, LedgerBySuccess
  <2>3. CASE j.ph = "refused"
    <3>1. row' = Mark(j.row, "failed", NextAttempt(j.att)) BY <2>1, <2>3 DEF StateAfter
    <3>2. j.row \in refused BY <1>2, <2>3 DEF JobFits
    <3>q. QED BY <1>1, <1>2, <3>1, <3>2, LedgerByDrop
  <2>4. CASE j.ph = "retry"
    <3>1. CASE IsTerminal(NextAttempt(j.att))
      <4>1. row' = Mark(j.row, "failed", NextAttempt(j.att))
        BY <2>1, <2>4, <3>1 DEF StateAfter
      <4>2. NextAttempt(j.att) >= MaxAttempts BY <3>1 DEF IsTerminal
      <4>q. QED BY <1>1, <1>2, <4>1, <4>2, LedgerByDrop
    <3>2. CASE ~IsTerminal(NextAttempt(j.att))
      <4>1. row' = Mark(j.row, "queued", NextAttempt(j.att))
        BY <2>1, <2>4, <3>2 DEF StateAfter
      <4>q. QED BY <1>1, <1>2, <4>1, LedgerByDrop
    <3>q. QED BY <3>1, <3>2
  <2>q. QED BY <2>1, <2>2, <2>3, <2>4 DEF Outcomes
<1>q. QED BY <1>3, <1>4

(* A POST reaches the inbox of one debt, or is rejected by it.             *)
LEMMA CreatesGrow ==
    ASSUME NEW S, NEW k \in Rows, ~Generic(k)
    PROVE  IF Kind(k) = "Create"
             THEN Creates(S \cup {k}) = Creates(S) \cup {<<Post(k), Inbox(k)>>}
             ELSE Creates(S \cup {k}) = Creates(S)
<1>1. CASE Kind(k) # "Create"
  <2>1. \A d \in Debts : TargetKey(d) # k BY <1>1, Keys
  <2>q. QED BY <1>1, <2>1 DEF Creates
<1>2. CASE Kind(k) = "Create"
  <2>1. <<Post(k), Inbox(k)>> \in Debts /\ TargetKey(<<Post(k), Inbox(k)>>) = k
    BY <1>2, DebtOfKey
  <2>2. ASSUME NEW d \in Debts, TargetKey(d) = k PROVE d = <<Post(k), Inbox(k)>>
    <3>1. d = <<d[1], d[2]>> BY DEF Debts
    <3>q. QED BY <2>2, <3>1, Keys
  <2>q. QED BY <1>2, <2>1, <2>2 DEF Creates
<1>q. QED BY <1>1, <1>2

(* A POST adds at most one debt to those reached or rejected.              *)
LEMMA LedgerBySend ==
    ASSUME LedgerInv, NEW r \in Runs, Send(r)
    PROVE  LedgerStep
<1>0. /\ jobs \in [Runs -> SUBSET JobType] /\ Shape
  BY DEF LedgerInv, FanoutInv, TypeOK, JobType
<1>1. UNCHANGED <<row, loyal>> BY DEF Send, table
<1>2. UNCHANGED <<Standings, Entitled, Spent>>
  BY <1>1 DEF Standings, Standing, Bearer, Entitled, Spent, IsSpent
<1>3. PICK j \in jobs[r], answer \in Seen :
         /\ received' = IF Reaches(answer) THEN received \cup {j.row} ELSE received
         /\ refused' = IF answer = "rejected" THEN refused \cup {j.row} ELSE refused
  BY DEF Send
<1>4. j.row \in Rows /\ ~Generic(j.row) BY <1>0 DEF JobType, Shape
<1>5. CASE Kind(j.row) # "Create"
  <2>1. UNCHANGED <<Reached, Rejected>>
    BY <1>3, <1>4, <1>5, CreatesGrow DEF Reached, Rejected, Creates
  <2>q. QED BY <1>2, <2>1 DEF LedgerStep
<1>6. CASE Kind(j.row) = "Create"
  <2> DEFINE d == <<Post(j.row), Inbox(j.row)>>
  <2>1. d \in Debts BY <1>4, <1>6, DebtOfKey
  <2>2. CASE Reaches(answer)
    <3>1. Reached' = Reached \cup {d} /\ Rejected' = Rejected
      BY <1>3, <1>4, <1>6, <2>2, CreatesGrow DEF Reached, Rejected, Creates, Reaches
    <3>q. QED BY <1>2, <2>1, <3>1, PostIs DEF LedgerStep
  <2>3. CASE answer = "rejected"
    <3>1. Rejected' = Rejected \cup {d} /\ Reached' = Reached
      BY <1>3, <1>4, <1>6, <2>3, CreatesGrow DEF Reached, Rejected, Creates, Reaches
    <3>q. QED BY <1>2, <2>1, <3>1, PostIs DEF LedgerStep
  <2>4. CASE ~Reaches(answer) /\ answer # "rejected"
    <3>1. UNCHANGED <<Reached, Rejected>> BY <1>3, <2>4 DEF Reached, Rejected, Creates
    <3>q. QED BY <1>2, <3>1 DEF LedgerStep
  <2>q. QED BY <2>2, <2>3, <2>4
<1>q. QED BY <1>5, <1>6

(* Steps that leave rows, entitlement and what was received alone.         *)
LEMMA LedgerStutters ==
    ASSUME UNCHANGED <<row, loyal, received, refused>> PROVE LedgerStep
  BY DEF LedgerStep, Standings, Standing, Bearer, Entitled, Spent, IsSpent,
         Reached, Rejected, Creates

(* Losing the entitlement forgets what has no row of its own yet.          *)
LEMMA LedgerByLoss ==
    ASSUME LedgerInv, UNCHANGED <<row, received, refused>>,
           \A p \in Posts : loyal'[p] \subseteq loyal[p]
    PROVE  Ledger!Next
<1>0. TypeOK /\ NoFollowerSkipped /\ row \in [Rows -> RowType]
  BY DEF LedgerInv, FanoutInv, TypeOK, RowType, States
<1>1. Entitled' \subseteq Entitled
  <2>1. \A d \in Debts : d[1] \in Posts BY DEF Debts
  <2>q. QED BY <2>1 DEF Entitled
<1>2. UNCHANGED <<Reached, Rejected>> BY DEF Reached, Rejected, Creates
<1>3. ASSUME NEW d \in Debts
      PROVE  \/ Same(d)
             \/ /\ d \in Entitled \ Entitled'
                /\ Standing(d) \in {"owed", "abandoned"} /\ Standing(d)' = "none"
  <2>1. CASE Bearer(d)' = Bearer(d)
    <3>1. SameRow(Bearer(d)) BY DEF SameRow
    <3>q. QED BY <2>1, <3>1, SameIs
  <2>2. CASE Bearer(d)' # Bearer(d)
    <3>1. /\ Bearer(d)' = TargetKey(d) /\ d \notin Entitled'
          /\ Bearer(d) = GenericKey(d) /\ d \in Entitled /\ row[TargetKey(d)].st = "absent"
      BY <1>1, <2>2 DEF Bearer, TargetKey, GenericKey
    <3>2. row[GenericKey(d)].st \in {"absent", "queued", "in_flight", "failed"}
      <4>1. Bearer(d) # TargetKey(d) BY <3>1, Keys
      <4>2. row[GenericKey(d)].st \in States BY <1>0, Keys DEF RowType
      <4>q. QED BY <1>0, <4>1, <4>2, CarrierOpen DEF States
    <3>3. Standing(d)' = "none" /\ ~IsSpent(d)'
      <4>1. /\ Standing(d)' = DebtOf(row'[Bearer(d)'].st)
            /\ IsSpent(d)' => row'[Bearer(d)'].st = "failed"
        BY DEF Standing, IsSpent
      <4>2. row'[Bearer(d)'].st = "absent" BY <3>1
      <4>q. QED BY <4>1, <4>2 DEF DebtOf
    <3>4. Standing(d) \in {"none", "owed", "abandoned"}
      BY <3>1, <3>2 DEF Standing, DebtOf
    <3>5. CASE Standing(d) = "none" BY <3>3, <3>5, SpentIs DEF Same
    <3>q. QED BY <3>1, <3>3, <3>4, <3>5
  <2>q. QED BY <2>1, <2>2
<1>q. QED BY <1>1, <1>2, <1>3, DisentitleIs

(* Followers, blocks, the administrator and the clock.                     *)
LEMMA LedgerByPeople ==
    ASSUME LedgerInv, PeopleAction PROVE LedgerStep
<1>0. /\ row \in [Rows -> RowType] /\ TargetsOpen /\ LeftAlone
      /\ \A k \in Rows : row[k] \in RowType
  BY DEF LedgerInv, FanoutInv, TypeOK, RowType, States
<1>1. UNCHANGED <<received, refused>> BY OtherFrame DEF PeopleAction
<1>2. ASSUME NEW a \in Movers, Follow(a) \/ CancelLost(a) PROVE LedgerStep
  <2>1. UNCHANGED <<row, loyal>> BY <1>2 DEF Follow, CancelLost, table, history
  <2>q. QED BY <1>1, <2>1, LedgerStutters
<1>3. ASSUME NEW a \in Movers, Unfollow(a) PROVE LedgerStep
  <2>1. row' = row /\ \A p \in Posts : loyal'[p] \subseteq loyal[p]
    BY <1>3 DEF Unfollow, table
  <2>q. QED BY <1>1, <2>1, LedgerByLoss DEF LedgerStep
<1>4. ASSUME NEW a \in Movers, CancelRows(a) PROVE LedgerStep
  <2>1. \A k \in Rows : row'[k] = IF /\ Inbox(k) = InboxOf[a]
                                    /\ row[k].st \in {"queued", "expanded", "in_flight"}
                                   THEN [row[k] EXCEPT !.st = "failed", !.ripe = FALSE]
                                   ELSE row[k]
    BY <1>4 DEF CancelRows
  <2>2. a \in leaving /\ a \in Actors /\ InboxOf[a] \in Inboxes /\ loyal' = loyal
    BY <1>4, FanoutAssumption DEF CancelRows, history
  <2>3. ASSUME NEW k \in Rows
        PROVE  (row'[k].st = "absent" <=> row[k].st = "absent") /\ (SameRow(k) \/ Dropped(k))
    <3>1. CASE Inbox(k) = InboxOf[a] /\ row[k].st \in {"queued", "expanded", "in_flight"}
      <4>1. ~Generic(k) BY <2>2, <3>1, FanoutAssumption DEF Generic
      <4>2. row[k].st \in {"queued", "in_flight"} BY <1>0, <3>1, <4>1 DEF TargetsOpen
      <4>3. row'[k].st = "failed" BY <1>0, <2>1, <3>1 DEF RowType
      <4>4. ASSUME NEW d \in Debts, Bearer(d) = k PROVE d \notin Entitled
        <5>1. d[1] \in Posts /\ d[2] = InboxOf[a] BY <3>1, <4>1, <4>4, TargetBears, Keys
        <5>q. QED BY <1>0, <2>2, <5>1 DEF LeftAlone, Entitled
      <4>q. QED BY <4>2, <4>3, <4>4 DEF Dropped
    <3>2. CASE ~(Inbox(k) = InboxOf[a] /\ row[k].st \in {"queued", "expanded", "in_flight"})
      BY <2>1, <3>2 DEF SameRow
    <3>q. QED BY <3>1, <3>2
  <2>q. QED BY <1>1, <2>2, <2>3, DroppedIs DEF LedgerStep
<1>5. ASSUME NEW i \in Blockable, Block(i) \/ Unblock(i) PROVE LedgerStep
  <2>1. row' = row /\ \A p \in Posts : loyal'[p] \subseteq loyal[p]
    BY <1>5 DEF Block, Unblock, table, history
  <2>q. QED BY <1>1, <2>1, LedgerByLoss DEF LedgerStep
<1>6. ASSUME NEW k \in Rows, AdminRetry(k) PROVE LedgerStep
  <2>1. /\ loyal' = loyal /\ row[k].st = "failed"
        /\ \A x \in Rows : row'[x] = IF x = k THEN [row[k] EXCEPT !.st = "queued", !.ripe = TRUE]
                                              ELSE row[x]
    BY <1>0, <1>6 DEF AdminRetry
  <2>2. row'[k].st = "queued" BY <1>0, <2>1 DEF RowType
  <2>3. \A x \in Rows : row'[x].st = "absent" <=> row[x].st = "absent" BY <2>1, <2>2
  <2>4. ASSUME NEW d \in Debts PROVE Same(d) \/ Offered(d)
    <3>0. Bearer(d) \in Rows /\ Bearer(d)' = Bearer(d) BY <2>1, <2>3, Keys, Steady
    <3>1. CASE Bearer(d) # k
      <4>1. SameRow(Bearer(d)) BY <2>1, <3>0, <3>1 DEF SameRow
      <4>q. QED BY <3>0, <4>1, SameIs
    <3>2. CASE Bearer(d) = k
      <4>1. Standing(d)' = DebtOf(row'[Bearer(d)].st) BY <3>0 DEF Standing
      <4>q. QED BY <2>1, <2>2, <3>2, <4>1 DEF Offered, Standing, DebtOf
    <3>q. QED BY <3>1, <3>2
  <2>q. QED BY <1>1, <2>1, <2>4, QuietIs, OfferIs DEF LedgerStep
<1>7. ASSUME NEW k \in Rows, Age(k) PROVE LedgerStep
  <2>1. /\ loyal' = loyal
        /\ \A x \in Rows : row'[x] = IF x = k THEN [row[k] EXCEPT !.ripe = TRUE] ELSE row[x]
    BY <1>0, <1>7 DEF Age, history
  <2>2. ASSUME NEW x \in Rows PROVE row'[x].st = row[x].st /\ row'[x].att = row[x].att
    BY <1>0, <2>1 DEF RowType
  <2>3. \A x \in Rows : SameRow(x) BY <2>2 DEF SameRow
  <2>4. \A d \in Debts : SameRow(Bearer(d)) BY <2>3, Keys
  <2>q. QED BY <1>1, <2>1, <2>2, <2>4, AllSame DEF LedgerStep
<1>8. CASE Kick
  <2>1. UNCHANGED <<row, loyal>> BY <1>8 DEF Kick, table, history
  <2>q. QED BY <1>1, <2>1, LedgerStutters
<1>q. QED BY <1>2, <1>3, <1>4, <1>5, <1>6, <1>7, <1>8 DEF PeopleAction, FollowerStep

(* Publishing promises the post to all who are entitled to it.             *)
LEMMA LedgerByPublish ==
    ASSUME LedgerInv, NEW p \in Posts, Publish(p) PROVE LedgerStep
<1>0. /\ TypeOK /\ Shape /\ Entitlement /\ row \in [Rows -> RowType]
      /\ loyal \in [Posts -> SUBSET Actors]
      /\ UNCHANGED <<received, refused>>
  BY DEF LedgerInv, FanoutInv, TypeOK, RowType, States, Publish
<1>1. CASE Audience[p] = "direct"
  <2>1. UNCHANGED <<row, loyal>> BY <1>1 DEF Publish
  <2>q. QED BY <1>0, <2>1, LedgerStutters
<1>2. CASE Audience[p] # "direct"
  <2> DEFINE g == <<"Create", p, NoInbox>>
  <2>0. g \in Rows /\ post[p] \in {"new", "stored"} BY KeyMade DEF Publish
  <2>1. /\ row' = InsertRows({g})
        /\ loyal' = [loyal EXCEPT ![p] = EntitledNow] /\ loyal[p] = {}
    BY <1>0, <1>2, <2>0 DEF Publish, Entitlement
  <2>2. \A k \in Rows : Post(k) = p => row[k].st = "absent"
    BY <1>0, <2>0 DEF Shape, Written
  <2>3. \A k \in Rows : row'[k] = IF k = g THEN Queued ELSE row[k]
    BY <2>0, <2>1, <2>2, KeyMade DEF InsertRows
  <2>4. \A d \in Debts : d[1] = p => d \notin Entitled BY <2>1 DEF Entitled
  <2>5. \A d \in Debts : d[1] # p => (d \in Entitled' <=> d \in Entitled)
    BY <1>0, <2>1, Keys DEF Entitled
  <2>6. Entitled \subseteq Entitled' BY <2>4, <2>5 DEF Entitled
  <2>7. UNCHANGED <<Reached, Rejected>> BY <1>0 DEF Reached, Rejected, Creates
  <2>8. ASSUME NEW d \in Debts
        PROVE  \/ Same(d) /\ (d \in Entitled' => d \in Entitled)
               \/ /\ Standing(d) = "none" /\ Standing(d)' = "owed"
                  /\ d \in Entitled' \ Entitled
    <3>0. /\ TargetKey(d) \in Rows /\ GenericKey(d) \in Rows /\ TargetKey(d) # g
          /\ Post(TargetKey(d)) = d[1]
          /\ GenericKey(d) = g <=> d[1] = p
      BY <2>0, Keys, KeyMade DEF GenericKey, Generic
    <3>1. row'[TargetKey(d)] = row[TargetKey(d)] BY <2>3, <3>0
    <3>2. Bearer(d)' = IF row'[TargetKey(d)].st = "absent" /\ d \in Entitled'
                         THEN GenericKey(d) ELSE TargetKey(d)
      BY DEF Bearer, TargetKey, GenericKey
    <3>3. /\ Standing(d)' = DebtOf(row'[Bearer(d)'].st)
          /\ Standing(d) = DebtOf(row[Bearer(d)].st)
      BY DEF Standing
    <3>4. CASE d[1] # p
      <4>1. Bearer(d)' = Bearer(d) BY <2>5, <3>1, <3>2, <3>4 DEF Bearer
      <4>2. row'[Bearer(d)] = row[Bearer(d)] BY <2>3, <3>0, <3>4 DEF Bearer
      <4>3. SameRow(Bearer(d)) BY <4>2 DEF SameRow
      <4>q. QED BY <2>5, <3>4, <4>1, <4>3, SameIs
    <3>5. CASE d[1] = p /\ d \notin Entitled'
      <4>1. Bearer(d) = TargetKey(d) /\ Bearer(d)' = TargetKey(d)
        BY <2>4, <3>2, <3>5 DEF Bearer
      <4>2. SameRow(Bearer(d)) BY <3>1, <4>1 DEF SameRow
      <4>q. QED BY <3>5, <4>1, <4>2, SameIs
    <3>6. CASE d[1] = p /\ d \in Entitled'
      <4>1. row[TargetKey(d)].st = "absent" BY <2>2, <3>0, <3>6
      <4>2. Bearer(d) = TargetKey(d) /\ Bearer(d)' = g
        BY <2>4, <3>0, <3>1, <3>2, <3>6, <4>1 DEF Bearer
      <4>3. row'[g].st = "queued" BY <2>0, <2>3 DEF Queued
      <4>q. QED BY <2>4, <3>3, <3>6, <4>1, <4>2, <4>3 DEF DebtOf
    <3>q. QED BY <3>4, <3>5, <3>6
  <2>q. QED BY <2>6, <2>7, <2>8, PromiseIs DEF LedgerStep
<1>q. QED BY <1>1, <1>2

(* Deleting the post ends all that was owed for it.                        *)
LEMMA LedgerByDelete ==
    ASSUME LedgerInv, NEW p \in Posts, DeleteStatus(p) PROVE Ledger!Next
<1>0. loyal \in [Posts -> SUBSET Actors] BY DEF LedgerInv, FanoutInv, TypeOK
<1>1. loyal' = [loyal EXCEPT ![p] = {}] BY DEF DeleteStatus
<1>2. \A k \in Rows : row'[k] = IF Post(k) = p THEN Absent ELSE row[k]
  BY KeyMade DEF DeleteStatus, Cascade, InsertRows
<1>3. UNCHANGED <<Reached, Rejected>> BY DEF DeleteStatus, Reached, Rejected, Creates
<1>4. ASSUME NEW d \in Debts
      PROVE  d \in Entitled' <=> d \in Entitled /\ d[1] # p
  BY <1>0, <1>1, Keys DEF Entitled
<1>5. Entitled' = Entitled \ ({p} \X Inboxes)
  <2>1. \A d \in Debts : d \in {p} \X Inboxes <=> d[1] = p BY DEF Debts
  <2>2. Entitled \subseteq Debts /\ Entitled' \subseteq Debts BY DEF Entitled
  <2>q. QED BY <1>4, <2>1, <2>2
<1>6. ASSUME NEW d \in Debts
      PROVE  IF d[1] = p THEN Standing(d)' = "none" ELSE Same(d)
  <2>0. /\ TargetKey(d) \in Rows /\ GenericKey(d) \in Rows
        /\ Post(TargetKey(d)) = d[1] /\ Post(GenericKey(d)) = d[1]
    BY Keys
  <2>1. Bearer(d)' = IF row'[TargetKey(d)].st = "absent" /\ d \in Entitled'
                       THEN GenericKey(d) ELSE TargetKey(d)
    BY DEF Bearer, TargetKey, GenericKey
  <2>2. CASE d[1] = p
    <3>1. Bearer(d)' = TargetKey(d) BY <1>4, <2>1, <2>2
    <3>2. row'[TargetKey(d)].st = "absent" BY <1>2, <2>0, <2>2 DEF Absent
    <3>3. Standing(d)' = DebtOf(row'[Bearer(d)'].st) BY DEF Standing
    <3>q. QED BY <2>2, <3>1, <3>2, <3>3 DEF DebtOf
  <2>3. CASE d[1] # p
    <3>1. row'[TargetKey(d)] = row[TargetKey(d)] /\ row'[GenericKey(d)] = row[GenericKey(d)]
      BY <1>2, <2>0, <2>3
    <3>2. Bearer(d)' = Bearer(d) BY <1>4, <2>1, <2>3, <3>1 DEF Bearer
    <3>3. SameRow(Bearer(d)) BY <3>1 DEF SameRow, Bearer
    <3>q. QED BY <2>3, <3>2, <3>3, SameIs
  <2>q. QED BY <2>2, <2>3
<1>q. QED BY <1>3, <1>5, <1>6, DeleteIs

(* The publishing and deleting handlers.                                   *)
LEMMA LedgerByAuthor ==
    ASSUME LedgerInv, NEW p \in Posts, AuthorStep(p) PROVE LedgerStep
<1>0. TypeOK /\ NoFollowerSkipped BY DEF LedgerInv, FanoutInv
<1>1. CASE StoreWithMedia(p)
  <2>1. UNCHANGED <<row, loyal, received, refused>> BY <1>1 DEF StoreWithMedia, history
  <2>q. QED BY <2>1, LedgerStutters
<1>2. CASE Publish(p) BY <1>2, LedgerByPublish
<1>3. CASE EnqueueAddressed(p)
  <2>1. PICK view \in BlockViews : row' = InsertRows(Addressed("Create", p, view))
    BY <1>3 DEF EnqueueAddressed
  <2>2. UNCHANGED <<loyal, received, refused>> BY <1>3 DEF EnqueueAddressed, history
  <2>q. QED BY <1>0, <2>1, <2>2, InsertIs DEF LedgerStep
<1>4. CASE EnqueueDeletes(p)
  <2>1. PICK view \in BlockViews : row' = InsertRows(Addressed("Delete", p, view))
    BY <1>4 DEF EnqueueDeletes
  <2>2. UNCHANGED <<loyal, received, refused>> BY <1>4 DEF EnqueueDeletes, history
  <2>q. QED BY <1>0, <2>1, <2>2, InsertIs DEF LedgerStep
<1>5. CASE DeleteStatus(p) BY <1>5, LedgerByDelete DEF LedgerStep
<1>q. QED BY <1>1, <1>2, <1>3, <1>4, <1>5 DEF AuthorStep

(* Every step of the pipeline is a step of the ledger or none at all.      *)
LEMMA LedgerByStep ==
    ASSUME LedgerInv, [Next]_vars PROVE LedgerStep
<1>1. ASSUME NEW p \in Posts, AuthorStep(p) PROVE LedgerStep BY <1>1, LedgerByAuthor
<1>2. CASE PeopleAction BY <1>2, LedgerByPeople
<1>3. ASSUME NEW r \in Runs, RunAction(r) PROVE LedgerStep
  <2>1. CASE \/ RequeueStale(r) \/ ClaimGeneric(r) \/ ExpandChunk(r)
             \/ MarkCompleted(r) \/ FinishExpansion(r) \/ ClaimTargets(r)
    BY <2>1, LedgerByExpansion DEF LedgerStep
  <2>2. CASE FailBlocked(r) \/ RecordOutcome(r) BY <2>2, LedgerByDelivery DEF LedgerStep
  <2>3. CASE Send(r) BY <2>3, LedgerBySend
  <2>4. CASE \/ Start(r) \/ PlanExpansion(r) \/ CheckBlocks(r) \/ FinishRun(r)
             \/ Crash(r) \/ ExpandFails(r)
    <3>1. UNCHANGED <<row, loyal, received, refused>>
      BY <2>4 DEF Start, PlanExpansion, CheckBlocks, FinishRun, Crash, ExpandFails,
                  table, history
    <3>q. QED BY <3>1, LedgerStutters
  <2>q. QED BY <1>3, <2>1, <2>2, <2>3, <2>4 DEF RunAction, RunStep
<1>4. CASE UNCHANGED vars
  <2>1. UNCHANGED <<row, loyal, received, refused>> BY <1>4 DEF vars, table, history
  <2>q. QED BY <2>1, LedgerStutters
<1>q. QED BY <1>1, <1>2, <1>3, <1>4 DEF Next, PeopleAction, RunAction

(* Nothing is owed initially.                                              *)
LEMMA LedgerByInit == Init => Ledger!Init
<1> SUFFICES ASSUME Init PROVE Ledger!Init OBVIOUS
<1>1. ASSUME NEW d \in Debts PROVE d \notin Entitled /\ Standing(d) = "none" /\ ~IsSpent(d)
  <2>1. d \notin Entitled BY Keys DEF Init, Entitled
  <2>2. row[Bearer(d)].st = "absent" BY Keys DEF Init, Absent
  <2>q. QED BY <2>1, <2>2 DEF Standing, DebtOf, IsSpent
<1>2. Standings = [d \in Debts |-> "none"] BY <1>1 DEF Standings
<1>3. Entitled = {} /\ Spent = {} BY <1>1 DEF Entitled, Spent
<1>4. Reached = {} /\ Rejected = {} BY DEF Init, Reached, Rejected, Creates
<1>q. QED BY <1>2, <1>3, <1>4 DEF Ledger!Init, Ledger!Debts, Debts

(* With every host resolved and nobody who leaves sharing his inbox, the   *)
(* pipeline keeps the promise of the delivery ledger: no debt to an        *)
(* entitled inbox is forgotten, none is settled unless the inbox received  *)
(* the post, none is given up before its attempts are spent, however runs  *)
(* overlap, die or outlive their leases.                                   *)
THEOREM PromiseKept == Regular => (Spec => ImplementsLedger)
<1> SUFFICES ASSUME Regular PROVE Spec => ImplementsLedger OBVIOUS
<1>1. Init => Ledger!Init BY LedgerByInit
<1>2. Init => LedgerInv BY LedgerInvInit
<1>3. LedgerInv /\ [Next]_vars => LedgerInv' BY LedgerInvStep
<1>4. LedgerInv /\ [Next]_vars => [Ledger!Next]_(Ledger!ledgerVars)
  BY LedgerByStep DEF LedgerStep, Ledger!ledgerVars
<1>q. QED BY <1>1, <1>2, <1>3, <1>4, PTL DEF Spec, ImplementsLedger, Ledger!Spec
=============================================================================
