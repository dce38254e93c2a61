------------------------ MODULE OutboundFollowProofs -------------------------
(***************************************************************************)
(* Proofs about the follow handshake, for every set of requests and runs,  *)
(* any number of activities and every value of the limits.                 *)
(***************************************************************************)
EXTENDS FollowHandshake, TLAPS

States == {"absent", "queued", "in_flight", "delivered", "failed"}
RowType == [type : {"none", "Follow", "Undo"}, st : States, att : Nat, ripe : BOOLEAN]
JobType == [id : Ids, att : Nat, ph : {"claimed", "blocked", "todo"} \cup Outcomes]
FollowType == [id : {0} \cup Ids, st : {"none", "pending", "accepted", "rejected", "failed"}]
ClientType == [at : {"idle", "upsert", "undo", "delete"}, id : {0} \cup Ids]

(* The delivery rules return outcomes, states and counts.                  *)
LEMMA OutcomeTypes ==
    /\ \A answer \in Answers : OutcomeOf(answer) \in Outcomes
    /\ \A next \in Nat, outcome \in Outcomes : StateAfter(next, outcome) \in States
    /\ \A att \in Nat : NextAttempt(att) \in Nat
  BY DEF Answers, OutcomeOf, Outcomes, StateAfter, States, NextAttempt

(* The next unused id is an id.                                            *)
LEMMA NextId == ASSUME used \in 0 .. MaxIds, used < MaxIds
                PROVE  used + 1 \in Ids /\ used + 1 \in 0 .. MaxIds
  BY FollowAssumption DEF Ids

(* A mark and a new activity keep the table's type.                        *)
LEMMA RowWrites ==
    ASSUME row \in [Ids -> RowType], NEW n \in Ids, NEW st \in States, NEW att \in Nat
    PROVE  /\ Mark(n, st, att) \in [Ids -> RowType]
           /\ \A type \in {"Follow", "Undo"} : Enqueue(n, type) => row' \in [Ids -> RowType]
<1>1. row[n] \in RowType OBVIOUS
<1>2. [row[n] EXCEPT !.st = st, !.att = att, !.ripe = FALSE] \in RowType
  BY <1>1 DEF RowType
<1>3. Mark(n, st, att) \in [Ids -> RowType] BY <1>2 DEF Mark
<1>4. ASSUME NEW type \in {"Follow", "Undo"}, Enqueue(n, type)
      PROVE  row' \in [Ids -> RowType]
  BY <1>4 DEF Enqueue, RowType, States
<1>q. QED BY <1>3, <1>4

-----------------------------------------------------------------------------
(* The initial state is typed.                                             *)
LEMMA TypeInit == Init => TypeOK
<1> SUFFICES ASSUME Init PROVE TypeOK OBVIOUS
<1> USE FollowAssumption DEF Init
<1>1. follow \in FollowType /\ row \in [Ids -> RowType] /\ client \in [Clients -> ClientType]
  BY DEF NoFollow, NoRow, Idle, FollowType, RowType, ClientType, States
<1>2. used \in 0 .. MaxIds /\ crashes \in 0 .. MaxCrashes OBVIOUS
<1>3. (\A c \in Clients : client[c].at # "upsert") /\ follow = NoFollow BY DEF Idle
<1>q. QED BY <1>1, <1>2, <1>3 DEF TypeOK, FollowType, RowType, ClientType, States

(* The steps of a request keep the types.                                  *)
LEMMA TypeClient == ASSUME TypeOK, NEW c \in Clients, ClientStep(c) PROVE TypeOK'
<1> USE FollowAssumption DEF TypeOK
<1>0. row \in [Ids -> RowType] /\ client \in [Clients -> ClientType]
  BY DEF RowType, States, ClientType
<1>c. client[c] \in ClientType BY <1>0
<1>1. CASE QueueFollow(c)
  <2>1. used + 1 \in Ids /\ used' \in 0 .. MaxIds /\ used' = used + 1
    BY <1>1, NextId DEF QueueFollow
  <2>2. row' \in [Ids -> RowType]
    BY <1>0, <1>1, <2>1, RowWrites DEF QueueFollow, States
  <2>3. client' \in [Clients -> ClientType]
    BY <1>0, <1>1, <2>1 DEF QueueFollow, ClientType
  <2>q. QED BY <1>1, <2>1, <2>2, <2>3 DEF QueueFollow, workers, history, limits, RowType, States, ClientType
<1>2. CASE UpsertFollow(c)
  <2>1. PICK locked \in BOOLEAN :
           /\ follow' = [id |-> client[c].id,
                         st |-> IF locked THEN "pending" ELSE "accepted"]
           /\ assumed' = IF locked THEN assumed ELSE assumed \cup {client[c].id}
    BY <1>2 DEF UpsertFollow
  <2>2. client' \in [Clients -> ClientType]
    BY <1>0, <1>2 DEF UpsertFollow, ClientType, Idle
  <2>3. follow' \in FollowType /\ follow'.id # 0
    BY <2>1, <1>c, <1>2 DEF UpsertFollow, FollowType, ClientType
  <2>4. assumed' \subseteq Ids
    BY <2>1, <1>2, <1>c DEF UpsertFollow, ClientType
  <2>q. QED BY <1>2, <2>2, <2>3, <2>4 DEF UpsertFollow, Idle, workers, limits, FollowType, ClientType
<1>3. CASE LoadFollow(c)
  <2>1. client' \in [Clients -> ClientType]
    BY <1>0, <1>3 DEF LoadFollow, ClientType
  <2>q. QED BY <1>3, <2>1 DEF LoadFollow, workers, history, limits, ClientType
<1>4. CASE QueueUndo(c)
  <2>1. client' \in [Clients -> ClientType]
    BY <1>0, <1>c, <1>4 DEF QueueUndo, ClientType
  <2>2. used' \in 0 .. MaxIds /\ row' \in [Ids -> RowType]
    <3>1. CASE UNCHANGED <<row, used>> BY <1>0, <3>1
    <3>2. CASE used < MaxIds /\ used' = used + 1 /\ Enqueue(used', "Undo")
      <4>1. used + 1 \in Ids /\ used' \in 0 .. MaxIds BY <3>2, NextId
      <4>q. QED BY <1>0, <3>2, <4>1, RowWrites DEF States
    <3>q. QED BY <1>4, <3>1, <3>2 DEF QueueUndo
  <2>q. QED BY <1>4, <2>1, <2>2 DEF QueueUndo, workers, history, limits, ClientType, RowType, States
<1>5. CASE DeleteFollow(c)
  <2>1. client' \in [Clients -> ClientType]
    BY <1>0, <1>5 DEF DeleteFollow, ClientType, Idle
  <2>q. QED BY <1>5, <2>1 DEF DeleteFollow, NoFollow, Idle, workers, history, limits, ClientType
<1>6. CASE ClientDies(c)
  <2>1. client' \in [Clients -> ClientType]
    BY <1>0, <1>6 DEF ClientDies, ClientType, Idle
  <2>q. QED BY <1>6, <2>1 DEF ClientDies, Idle, workers, history, ClientType
<1>q. QED BY <1>1, <1>2, <1>3, <1>4, <1>5, <1>6 DEF ClientStep

(* So do answers, blocks, an administrator and the clock.                  *)
LEMMA TypeOthers ==
    ASSUME TypeOK,
           \/ ToggleBlock
           \/ \E n \in Ids : AdminRetry(n) \/ Age(n) \/ Hear(n, "accepted") \/ Hear(n, "rejected")
    PROVE  TypeOK'
<1> USE FollowAssumption DEF TypeOK
<1>1. CASE ToggleBlock BY <1>1 DEF ToggleBlock, requests, workers, history, limits
<1>2. ASSUME NEW n \in Ids, AdminRetry(n) PROVE TypeOK'
  <2>1. row[n] \in RowType BY DEF RowType, States
  <2>2. [row[n] EXCEPT !.st = "queued", !.ripe = TRUE] \in RowType
    BY <2>1 DEF RowType, States
  <2>3. row' = [row EXCEPT ![n] = [row[n] EXCEPT !.st = "queued", !.ripe = TRUE]]
    BY <1>2 DEF AdminRetry
  <2>4. row' \in [Ids -> RowType] BY <2>2, <2>3 DEF RowType, States
  <2>q. QED BY <1>2, <2>4 DEF AdminRetry, requests, workers, history, RowType, States
<1>3. ASSUME NEW n \in Ids, Age(n) PROVE TypeOK'
  <2>1. row[n] \in RowType BY DEF RowType, States
  <2>2. [row[n] EXCEPT !.ripe = TRUE] \in RowType BY <2>1 DEF RowType
  <2>3. row' = [row EXCEPT ![n] = [row[n] EXCEPT !.ripe = TRUE]] BY <1>3 DEF Age
  <2>4. row' \in [Ids -> RowType] BY <2>2, <2>3 DEF RowType, States
  <2>q. QED BY <1>3, <2>4 DEF Age, requests, workers, history, limits, RowType, States
<1>4. ASSUME NEW n \in Ids, NEW answer \in {"accepted", "rejected"}, Hear(n, answer)
      PROVE  TypeOK'
  <2>1. follow' \in FollowType /\ (follow'.id = 0 => follow' = NoFollow)
    BY <1>4 DEF Hear, Answered, FollowType, Ids
  <2>q. QED BY <1>4, <2>1 DEF Hear, workers, limits, FollowType
<1>q. QED BY <1>1, <1>2, <1>3, <1>4

(* Claiming, checking, sending and recording keep the jobs' type.          *)
LEMMA TypeRun ==
    ASSUME TypeOK, NEW r \in Runs, Start(r) \/ RunStep(r) \/ RunDies(r)
    PROVE  TypeOK'
<1> USE FollowAssumption DEF TypeOK
<1>0. row \in [Ids -> RowType] /\ jobs \in [Runs -> SUBSET JobType]
  BY DEF RowType, States, JobType
<1>1. CASE Start(r) BY <1>1 DEF Start, requests, history, limits
<1>2. CASE RequeueStale(r)
  <2>1. row' \in [Ids -> RowType]
    <3>1. ASSUME NEW n \in Ids PROVE row'[n] \in RowType
      <4>1. row[n] \in RowType /\ NextAttempt(row[n].att) \in Nat
        BY <1>0, OutcomeTypes DEF RowType
      <4>q. QED BY <1>2, <4>1 DEF RequeueStale, Requeued, RowType, States
    <3>q. QED BY <1>2, <3>1 DEF RequeueStale
  <2>2. Reported \subseteq Ids BY DEF Reported, FollowsAmong
  <2>q. QED BY <1>2, <2>1, <2>2 DEF RequeueStale, requests, history, limits, RowType, States
<1>3. CASE Reconcile(r)
  <2>1. PICK n \in owed[r] : /\ owed' = [owed EXCEPT ![r] = @ \ {n}]
                             /\ follow' = FailedFollow(n)
                             /\ missed' = IF follow.id = n THEN missed ELSE missed \cup {n}
    BY <1>3 DEF Reconcile
  <2>2. follow' \in FollowType /\ (follow'.id = 0 => follow' = NoFollow)
    BY <2>1 DEF FailedFollow, FollowType, NoFollow
  <2>q. QED BY <1>3, <2>1, <2>2 DEF Reconcile, limits, FollowType
<1>4. CASE Claim(r)
  <2>1. PICK T \in Claimable({n \in Ids : Due(n)}) :
           /\ row' = [n \in Ids |-> IF n \in T
                       THEN [row[n] EXCEPT !.st = "in_flight", !.ripe = FALSE]
                       ELSE row[n]]
           /\ jobs' = [jobs EXCEPT ![r] =
                        {[id |-> n, att |-> row[n].att, ph |-> "claimed"] : n \in T}]
    BY <1>4 DEF Claim
  <2>2. T \subseteq Ids BY DEF Claimable
  <2>3. row' \in [Ids -> RowType]
    <3>1. ASSUME NEW n \in Ids PROVE row'[n] \in RowType
      <4>1. row[n] \in RowType BY <1>0
      <4>2. [row[n] EXCEPT !.st = "in_flight", !.ripe = FALSE] \in RowType
        BY <4>1 DEF RowType, States
      <4>q. QED BY <2>1, <4>1, <4>2
    <3>q. QED BY <2>1, <3>1
  <2>4. jobs' \in [Runs -> SUBSET JobType]
    <3>1. ASSUME NEW n \in T
          PROVE  [id |-> n, att |-> row[n].att, ph |-> "claimed"] \in JobType
      <4>1. n \in Ids /\ row[n] \in RowType BY <1>0, <2>2
      <4>q. QED BY <4>1 DEF RowType, JobType
    <3> DEFINE New == {[id |-> n, att |-> row[n].att, ph |-> "claimed"] : n \in T}
    <3>2. New \subseteq JobType BY <3>1
    <3>3. jobs' = [jobs EXCEPT ![r] = New] BY <2>1
    <3> HIDE DEF New
    <3>q. QED BY <1>0, <3>2, <3>3
  <2>q. QED BY <1>4, <2>3, <2>4 DEF Claim, requests, history, limits, RowType, States, JobType
<1>5. CASE CheckBlocks(r)
  <2>1. jobs' \in [Runs -> SUBSET JobType]
    <3>1. PICK view \in BlockViews : jobs' = [jobs EXCEPT ![r] =
             {[j EXCEPT !.ph = IF view THEN "blocked" ELSE "todo"] : j \in jobs[r]}]
      BY <1>5 DEF CheckBlocks
    <3>q. QED BY <1>0, <3>1 DEF JobType
  <2>q. QED BY <1>5, <2>1 DEF CheckBlocks, requests, history, limits, JobType
<1>c. ASSUME NEW j \in jobs[r], NEW st \in States, NEW att \in Nat, Close(r, j, st, att)
      PROVE  /\ row' \in [Ids -> RowType]
             /\ jobs' \in [Runs -> SUBSET JobType]
             /\ owed' \in [Runs -> SUBSET Ids]
  <2>1. j.id \in Ids BY <1>0 DEF JobType
  <2>2. row' \in [Ids -> RowType] BY <1>0, <1>c, <2>1, RowWrites DEF Close
  <2>3. jobs' \in [Runs -> SUBSET JobType] BY <1>0, <1>c DEF Close
  <2>4. FollowsAmong({j.id}) \subseteq Ids BY <2>1 DEF FollowsAmong
  <2>q. QED BY <1>c, <2>2, <2>3, <2>4 DEF Close
<1>6. CASE FailBlocked(r)
  <2>1. PICK j \in jobs[r] : Close(r, j, "failed", NextAttempt(j.att))
    BY <1>6 DEF FailBlocked
  <2>2. NextAttempt(j.att) \in Nat BY <1>0, OutcomeTypes DEF JobType
  <2>3. "failed" \in States BY DEF States
  <2>q. QED BY <1>6, <1>c, <2>1, <2>2, <2>3 DEF FailBlocked, requests, history, limits, RowType, States, JobType
<1>7. CASE Send(r)
  <2>1. PICK j \in jobs[r], answer \in Seen :
           /\ jobs' = [jobs EXCEPT ![r] = (@ \ {j}) \cup {[j EXCEPT !.ph = OutcomeOf(answer)]}]
           /\ reached' = IF Reaches(answer) THEN reached \cup {j.id} ELSE reached
    BY <1>7 DEF Send
  <2>2. j \in JobType /\ OutcomeOf(answer) \in Outcomes BY <1>0, OutcomeTypes
  <2>3. jobs' \in [Runs -> SUBSET JobType] /\ reached' \subseteq Ids
    BY <1>0, <2>1, <2>2 DEF JobType
  <2>q. QED BY <1>7, <2>3 DEF Send, requests, limits, JobType
<1>8. CASE RecordOutcome(r)
  <2>1. PICK j \in jobs[r] :
           /\ j.ph \in Outcomes
           /\ Close(r, j, StateAfter(NextAttempt(j.att), j.ph),
                    IF j.ph = "ok" THEN row[j.id].att ELSE NextAttempt(j.att))
    BY <1>8 DEF RecordOutcome
  <2>2. j \in JobType /\ row[j.id] \in RowType BY <1>0 DEF JobType
  <2>3. NextAttempt(j.att) \in Nat /\ row[j.id].att \in Nat
    BY <2>2, OutcomeTypes DEF JobType, RowType
  <2>4. StateAfter(NextAttempt(j.att), j.ph) \in States BY <2>1, <2>3, OutcomeTypes
  <2>q. QED BY <1>8, <1>c, <2>1, <2>3, <2>4 DEF RecordOutcome, requests, history, limits, RowType, States, JobType
<1>9. CASE FinishRun(r) BY <1>9 DEF FinishRun, requests, history, limits
<1>10. CASE RunDies(r)
  <2>1. owed[r] \subseteq Ids OBVIOUS
  <2>q. QED BY <1>10, <2>1 DEF RunDies, requests
<1>q. QED BY <1>1, <1>2, <1>3, <1>4, <1>5, <1>6, <1>7, <1>8, <1>9, <1>10 DEF RunStep

(* Every step keeps the types.                                             *)
LEMMA TypeStep == TypeOK /\ [Next]_vars => TypeOK'
<1> SUFFICES ASSUME TypeOK, [Next]_vars PROVE TypeOK' OBVIOUS
<1>1. CASE UNCHANGED vars
  BY <1>1 DEF vars, requests, workers, history, limits, TypeOK
<1>2. CASE Next BY <1>2, TypeClient, TypeOthers, TypeRun DEF Next
<1>q. QED BY <1>1, <1>2

(* Every variable keeps its type, whatever the requests, the runs, the     *)
(* remote server and the clock do.                                         *)
THEOREM FollowTypesKept == Spec => []TypeOK
  BY TypeInit, TypeStep, PTL DEF Spec

-----------------------------------------------------------------------------
(* The steps that are not those of a request.                              *)
Elsewhere ==
    \/ ToggleBlock
    \/ \E n \in Ids : AdminRetry(n) \/ Age(n) \/ Hear(n, "accepted") \/ Hear(n, "rejected")
    \/ \E r \in Runs : Start(r) \/ RunStep(r) \/ RunDies(r)

(* A step is a request's or another one.                                   *)
LEMMA StepKinds == Next <=> (\E c \in Clients : ClientStep(c)) \/ Elsewhere
  BY DEF Next, Elsewhere

(* The answers: only Hear, the upsert and the deletion change the state of *)
(* a follow, besides a pending one that fails.                             *)
LEMMA FollowChange ==
    ASSUME TypeOK, Next
    PROVE  \/ follow' = follow
           \/ follow' = NoFollow
           \/ \E c \in Clients : UpsertFollow(c)
           \/ \E n \in Ids, answer \in {"accepted", "rejected"} :
                Hear(n, answer) /\ follow.id = n /\ follow' = [follow EXCEPT !.st = answer]
           \/ follow.st = "pending" /\ follow' = [follow EXCEPT !.st = "failed"]
<1> DEFINE Goal ==
       \/ follow' = follow
       \/ follow' = NoFollow
       \/ \E c \in Clients : UpsertFollow(c)
       \/ \E n \in Ids, answer \in {"accepted", "rejected"} :
            Hear(n, answer) /\ follow.id = n /\ follow' = [follow EXCEPT !.st = answer]
       \/ follow.st = "pending" /\ follow' = [follow EXCEPT !.st = "failed"]
<1>1. ASSUME NEW c \in Clients, ClientStep(c) PROVE Goal
  BY <1>1 DEF ClientStep, QueueFollow, LoadFollow, QueueUndo, DeleteFollow, ClientDies
<1>2. CASE ToggleBlock BY <1>2 DEF ToggleBlock, requests
<1>3. ASSUME NEW n \in Ids, AdminRetry(n) \/ Age(n) PROVE Goal
  BY <1>3 DEF AdminRetry, Age, requests
<1>4. ASSUME NEW n \in Ids, NEW answer \in {"accepted", "rejected"}, Hear(n, answer)
      PROVE  Goal
  <2>1. CASE follow.id = n BY <1>4, <2>1 DEF Hear, Answered
  <2>2. CASE follow.id # n BY <1>4, <2>2 DEF Hear, Answered
  <2>q. QED BY <2>1, <2>2
<1>5. ASSUME NEW r \in Runs, Start(r) \/ RunStep(r) \/ RunDies(r) PROVE Goal
  <2>1. CASE Reconcile(r)
    <3>1. PICK n \in owed[r] : follow' = FailedFollow(n) BY <2>1 DEF Reconcile
    <3>q. QED BY <3>1 DEF FailedFollow
  <2>2. CASE ~Reconcile(r)
    BY <1>5, <2>2 DEF RunStep, Start, RequeueStale, Claim, CheckBlocks, FailBlocked,
       Send, RecordOutcome, FinishRun, RunDies, requests
  <2>q. QED BY <2>1, <2>2
<1>q. QED BY <1>1, <1>2, <1>3, <1>4, <1>5 DEF Next

(* What has been heard stays heard, and so do the assumed acceptances.     *)
LEMMA HistoryGrows == ASSUME TypeOK, Next PROVE heard \subseteq heard' /\ assumed \subseteq assumed'
<1> DEFINE Goal == heard \subseteq heard' /\ assumed \subseteq assumed'
<1>1. ASSUME NEW c \in Clients, ClientStep(c) PROVE Goal
  BY <1>1 DEF ClientStep, QueueFollow, UpsertFollow, LoadFollow, QueueUndo, DeleteFollow,
     ClientDies, history
<1>2. CASE ToggleBlock BY <1>2 DEF ToggleBlock, history
<1>3. ASSUME NEW n \in Ids,
             AdminRetry(n) \/ Age(n) \/ Hear(n, "accepted") \/ Hear(n, "rejected")
      PROVE  Goal
  BY <1>3 DEF AdminRetry, Age, Hear, history
<1>4. ASSUME NEW r \in Runs, Start(r) \/ RunStep(r) \/ RunDies(r) PROVE Goal
  BY <1>4 DEF RunStep, Start, RequeueStale, Reconcile, Claim, CheckBlocks, FailBlocked,
     Send, RecordOutcome, FinishRun, RunDies, history
<1>q. QED BY <1>1, <1>2, <1>3, <1>4 DEF Next

(* The state a follow shows is the answer to its own Follow, never one to  *)
(* an earlier Follow of the same actor.                                    *)
THEOREM AnswersMatch == Spec => []AnswerIsToThisFollow
<1>1. Init => AnswerIsToThisFollow BY DEF Init, NoFollow, AnswerIsToThisFollow
<1>2. TypeOK /\ AnswerIsToThisFollow /\ [Next]_vars => AnswerIsToThisFollow'
  <2> SUFFICES ASSUME TypeOK, AnswerIsToThisFollow, [Next]_vars
               PROVE  AnswerIsToThisFollow'
    OBVIOUS
  <2> USE DEF AnswerIsToThisFollow
  <2>0. CASE UNCHANGED vars BY <2>0 DEF vars, requests, history
  <2>n. CASE Next
    <3>h. heard \subseteq heard' /\ assumed \subseteq assumed' BY <2>n, HistoryGrows
    <3>f. follow \in FollowType BY DEF TypeOK, FollowType
    <3>1. CASE follow' = follow BY <3>1, <3>h
    <3>2. CASE follow' = NoFollow BY <3>2 DEF NoFollow
    <3>3. ASSUME NEW c \in Clients, UpsertFollow(c) PROVE AnswerIsToThisFollow'
      BY <3>3 DEF UpsertFollow
    <3>4. ASSUME NEW n \in Ids, NEW answer \in {"accepted", "rejected"},
                 Hear(n, answer), follow.id = n, follow' = [follow EXCEPT !.st = answer]
          PROVE  AnswerIsToThisFollow'
      <4>1. follow'.id = n /\ follow'.st = answer BY <3>4, <3>f DEF FollowType
      <4>2. <<n, answer>> \in heard' BY <3>4 DEF Hear
      <4>q. QED BY <4>1, <4>2
    <3>5. CASE follow' = [follow EXCEPT !.st = "failed"] BY <3>5, <3>f DEF FollowType
    <3>q. QED BY <2>n, <3>1, <3>2, <3>3, <3>4, <3>5, FollowChange
  <2>q. QED BY <2>0, <2>n
<1>q. QED BY <1>1, <1>2, FollowTypesKept, PTL DEF Spec

(* An answered follow is never turned into a failed one.                   *)
THEOREM AnswersStay == Spec => AnswerIsKept
<1>1. TypeOK /\ [Next]_vars =>
        [follow.st \in {"accepted", "rejected"} /\ follow'.id = follow.id
           => follow'.st # "failed"]_vars
  <2> SUFFICES ASSUME TypeOK, Next, follow.st \in {"accepted", "rejected"}
               PROVE  follow'.st # "failed"
    BY DEF vars, requests
  <2>f. follow \in FollowType BY DEF TypeOK, FollowType
  <2>1. CASE follow' = follow \/ follow' = NoFollow BY <2>1 DEF NoFollow
  <2>2. ASSUME NEW c \in Clients, UpsertFollow(c) PROVE follow'.st # "failed"
    BY <2>2 DEF UpsertFollow
  <2>3. ASSUME NEW answer \in {"accepted", "rejected"}, follow' = [follow EXCEPT !.st = answer]
        PROVE  follow'.st # "failed"
    BY <2>3, <2>f DEF FollowType
  <2>q. QED BY <2>1, <2>2, <2>3, FollowChange
<1>q. QED BY <1>1, FollowTypesKept, PTL DEF Spec, AnswerIsKept

-----------------------------------------------------------------------------
(* How a step that is not a request's may change a row: the type stays, no *)
(* row appears or goes, and a Follow that fails is owed to its follow.     *)
RowKept(n) ==
    /\ row'[n].type = row[n].type
    /\ row[n].st = "absent" <=> row'[n].st = "absent"
    /\ row'[n].st = "failed" /\ row[n].st # "failed" /\ row[n].type = "Follow" => Told(n)'
    /\ row'[n].st = "queued" /\ row[n].st # "queued" =>
         row'[n].att < MaxAttempts \/ n \in retried'
    /\ row'[n].st = "queued" /\ row[n].st = "queued" => row'[n].att = row[n].att
    /\ n \in retried => n \in retried'

(* Recording a result is such a change.                                    *)
LEMMA CloseKeeps ==
    ASSUME TypeOK, NEW r \in Runs, NEW j \in jobs[r], NEW st \in States, NEW att \in Nat,
           Close(r, j, st, att), st # "absent", st = "queued" => att < MaxAttempts,
           retried' = retried, NEW n \in Ids
    PROVE  RowKept(n)
<1>0. row \in [Ids -> RowType] BY DEF TypeOK, RowType, States
<1>1. row[n] \in RowType BY <1>0
<1>2. CASE j.id = n /\ row[n].st = "in_flight"
  <2>1. row' = [row EXCEPT ![n].st = st, ![n].att = att, ![n].ripe = FALSE]
    BY <1>2 DEF Close, Mark
  <2>2. row'[n] = [row[n] EXCEPT !.st = st, !.att = att, !.ripe = FALSE] BY <1>0, <2>1
  <2>3. row'[n].type = row[n].type /\ row'[n].st = st /\ row'[n].att = att
    BY <1>1, <2>2 DEF RowType
  <2>4. ASSUME st = "failed", row[n].type = "Follow" PROVE Told(n)'
    <3>1. owed' = [owed EXCEPT ![r] = FollowsAmong({n})] BY <1>2, <2>4 DEF Close
    <3>2. n \in FollowsAmong({n}) BY <2>4 DEF FollowsAmong
    <3>3. n \in owed'[r] BY <3>1, <3>2 DEF TypeOK
    <3>q. QED BY <3>3 DEF Told
  <2>q. QED BY <1>2, <2>3, <2>4 DEF RowKept
<1>3. CASE ~(j.id = n /\ row[n].st = "in_flight")
  <2>1. row'[n] = row[n] BY <1>0, <1>3 DEF Close, Mark
  <2>q. QED BY <2>1 DEF RowKept
<1>q. QED BY <1>2, <1>3

(* Every step that is not a request's changes rows in these ways only.     *)
LEMMA RowsKept == ASSUME TypeOK, Elsewhere, NEW n \in Ids PROVE RowKept(n)
<1> USE MaxAttemptsAssumption, FollowAssumption
<1>0. row \in [Ids -> RowType] BY DEF TypeOK, RowType, States
<1>n. row[n] \in RowType BY <1>0
<1>s. ASSUME row' = row, retried' = retried PROVE RowKept(n)
  BY <1>s DEF RowKept
<1>1. CASE ToggleBlock BY <1>1, <1>s DEF ToggleBlock, limits
<1>2. ASSUME NEW i \in Ids, AdminRetry(i) PROVE RowKept(n)
  <2>1. CASE i = n
    <3>1. row' = [row EXCEPT ![n] = [row[n] EXCEPT !.st = "queued", !.ripe = TRUE]]
      BY <1>2, <2>1 DEF AdminRetry
    <3>2. row'[n] = [row[n] EXCEPT !.st = "queued", !.ripe = TRUE] BY <1>0, <3>1
    <3>3. row'[n].type = row[n].type /\ row'[n].st = "queued" BY <1>n, <3>2 DEF RowType
    <3>q. QED BY <1>2, <2>1, <3>3 DEF RowKept, AdminRetry
  <2>2. CASE i # n
    <3>1. row'[n] = row[n] BY <1>0, <1>2, <2>2 DEF AdminRetry
    <3>q. QED BY <1>2, <3>1 DEF RowKept, AdminRetry
  <2>q. QED BY <2>1, <2>2
<1>3. ASSUME NEW i \in Ids, Age(i) PROVE RowKept(n)
  <2>1. CASE i = n
    <3>1. row' = [row EXCEPT ![n] = [row[n] EXCEPT !.ripe = TRUE]]
      BY <1>3, <2>1 DEF Age
    <3>2. row'[n] = [row[n] EXCEPT !.ripe = TRUE] BY <1>0, <3>1
    <3>3. row'[n].type = row[n].type /\ row'[n].st = row[n].st /\ row'[n].att = row[n].att
      BY <1>n, <3>2 DEF RowType
    <3>q. QED BY <1>3, <2>1, <3>3 DEF RowKept, Age, limits
  <2>2. CASE i # n
    <3>1. row'[n] = row[n] BY <1>0, <1>3, <2>2 DEF Age
    <3>q. QED BY <1>3, <3>1 DEF RowKept, Age, limits
  <2>q. QED BY <2>1, <2>2
<1>4. ASSUME NEW i \in Ids, NEW answer \in {"accepted", "rejected"}, Hear(i, answer)
      PROVE  RowKept(n)
  BY <1>4, <1>s DEF Hear, limits
<1>5. ASSUME NEW r \in Runs, Start(r) \/ RunStep(r) \/ RunDies(r) PROVE RowKept(n)
  <2>1. CASE RequeueStale(r)
    <3> DEFINE next == NextAttempt(row[n].att)
    <3>0. retried' = retried BY <2>1 DEF RequeueStale, limits
    <3>1. CASE Stale(n)
      <4>1. row'[n] = [row[n] EXCEPT !.st = Requeued(next).st, !.att = next,
                                     !.ripe = Requeued(next).ripe]
        BY <2>1, <3>1 DEF RequeueStale
      <4>2. next \in Nat BY <1>n, OutcomeTypes DEF RowType
      <4>3. /\ row'[n].type = row[n].type
            /\ row'[n].st = Requeued(next).st
            /\ row'[n].att = next
        BY <1>n, <4>1 DEF RowType
      <4>4. CASE IsTerminal(next)
        <5>1. row'[n].st = "failed" BY <4>3, <4>4 DEF Requeued
        <5>2. ASSUME row[n].type = "Follow" PROVE Told(n)'
          <6>1. n \in Reported BY <3>1, <4>4, <5>2 DEF Reported, FollowsAmong
          <6>2. owed' = [owed EXCEPT ![r] = Reported] BY <2>1 DEF RequeueStale
          <6>3. n \in owed'[r] BY <6>1, <6>2 DEF TypeOK
          <6>q. QED BY <6>3 DEF Told
        <5>q. QED BY <3>0, <3>1, <4>3, <5>1, <5>2 DEF RowKept, Stale
      <4>5. CASE ~IsTerminal(next)
        <5>1. row'[n].st = "queued" BY <4>3, <4>5 DEF Requeued
        <5>2. next < MaxAttempts BY <4>2, <4>5 DEF IsTerminal
        <5>q. QED BY <3>0, <3>1, <4>3, <5>1, <5>2 DEF RowKept, Stale
      <4>q. QED BY <4>4, <4>5
    <3>2. CASE ~Stale(n)
      <4>1. row'[n] = row[n] BY <2>1, <3>2 DEF RequeueStale
      <4>q. QED BY <3>0, <4>1 DEF RowKept
    <3>q. QED BY <3>1, <3>2
  <2>2. CASE Claim(r)
    <3>0. retried' = retried BY <2>2 DEF Claim, limits
    <3>1. PICK T \in Claimable({i \in Ids : Due(i)}) :
             row' = [i \in Ids |-> IF i \in T
                      THEN [row[i] EXCEPT !.st = "in_flight", !.ripe = FALSE]
                      ELSE row[i]]
      BY <2>2 DEF Claim
    <3>2. CASE n \in T
      <4>1. Due(n) BY <3>2 DEF Claimable
      <4>2. row'[n] = [row[n] EXCEPT !.st = "in_flight", !.ripe = FALSE] BY <3>1, <3>2
      <4>3. row'[n].type = row[n].type /\ row'[n].st = "in_flight" BY <1>n, <4>2 DEF RowType
      <4>q. QED BY <3>0, <4>1, <4>3 DEF RowKept, Due
    <3>3. CASE n \notin T
      <4>1. row'[n] = row[n] BY <3>1, <3>3
      <4>q. QED BY <3>0, <4>1 DEF RowKept
    <3>q. QED BY <3>2, <3>3
  <2>3. CASE FailBlocked(r)
    <3>1. PICK j \in jobs[r] : Close(r, j, "failed", NextAttempt(j.att))
      BY <2>3 DEF FailBlocked
    <3>2. NextAttempt(j.att) \in Nat BY OutcomeTypes DEF TypeOK
    <3>3. retried' = retried BY <2>3 DEF FailBlocked, limits
    <3>4. "failed" \in States /\ "failed" # "absent" /\ "failed" # "queued" BY DEF States
    <3>q. QED BY <3>1, <3>2, <3>3, <3>4, CloseKeeps
  <2>4. CASE RecordOutcome(r)
    <3>1. PICK j \in jobs[r] :
             /\ j.ph \in Outcomes
             /\ Close(r, j, StateAfter(NextAttempt(j.att), j.ph),
                      IF j.ph = "ok" THEN row[j.id].att ELSE NextAttempt(j.att))
      BY <2>4 DEF RecordOutcome
    <3> DEFINE next == NextAttempt(j.att)
               st == StateAfter(next, j.ph)
               att == IF j.ph = "ok" THEN row[j.id].att ELSE next
    <3>2. j \in JobType BY DEF TypeOK, JobType
    <3>3. next \in Nat BY <3>2, OutcomeTypes DEF JobType
    <3>4. row[j.id] \in RowType BY <1>0, <3>2 DEF JobType
    <3>5. att \in Nat BY <3>3, <3>4 DEF RowType
    <3>6. st \in States BY <3>1, <3>3, OutcomeTypes
    <3>7. st # "absent" BY <3>1 DEF StateAfter, Outcomes
    <3>8. st = "queued" => att < MaxAttempts
      BY <3>1, <3>3 DEF StateAfter, Outcomes, IsTerminal
    <3>9. retried' = retried BY <2>4 DEF RecordOutcome, limits
    <3>10. Close(r, j, st, att) BY <3>1
    <3> HIDE DEF st, att
    <3>q. QED BY <3>5, <3>6, <3>7, <3>8, <3>9, <3>10, CloseKeeps
  <2>5. CASE Start(r) \/ Reconcile(r) \/ CheckBlocks(r) \/ Send(r) \/ FinishRun(r) \/ RunDies(r)
    BY <2>5, <1>s DEF Start, Reconcile, CheckBlocks, Send, FinishRun, RunDies, limits
  <2>q. QED BY <1>5, <2>1, <2>2, <2>3, <2>4, <2>5 DEF RunStep
<1>q. QED BY <1>1, <1>2, <1>3, <1>4, <1>5 DEF Elsewhere

(* A request adds the row of the next id and touches no other.             *)
LEMMA RowsOfRequests ==
    ASSUME TypeOK, NEW c \in Clients, ClientStep(c)
    PROVE  /\ \A n \in Ids : \/ row'[n] = row[n]
                             \/ /\ n = used + 1 /\ used' = used + 1
                                /\ row'[n].st = "queued" /\ row'[n].att = 0
           /\ used' = used \/ used' = used + 1
           /\ UNCHANGED <<retried, missed, owed, jobs>>
<1>0. row \in [Ids -> RowType] /\ used \in 0 .. MaxIds BY DEF TypeOK, RowType, States
<1>1. ASSUME NEW type \in {"Follow", "Undo"}, used' = used + 1, Enqueue(used', type)
      PROVE  \A n \in Ids : \/ row'[n] = row[n]
                            \/ n = used + 1 /\ row'[n].st = "queued" /\ row'[n].att = 0
  <2> TAKE n \in Ids
  <2>1. row' = [row EXCEPT ![used + 1] =
                  [type |-> type, st |-> "queued", att |-> 0, ripe |-> TRUE]]
    BY <1>1 DEF Enqueue
  <2>2. CASE n = used + 1
    <3>1. row'[n] = [type |-> type, st |-> "queued", att |-> 0, ripe |-> TRUE]
      BY <1>0, <2>1, <2>2
    <3>q. QED BY <2>2, <3>1
  <2>3. CASE n # used + 1
    <3>1. row'[n] = row[n] BY <1>0, <2>1, <2>3
    <3>q. QED BY <3>1
  <2>q. QED BY <2>2, <2>3
<1>2. CASE QueueFollow(c)
  BY <1>1, <1>2 DEF QueueFollow, workers, history, limits
<1>3. CASE QueueUndo(c)
  BY <1>1, <1>3 DEF QueueUndo, workers, history, limits
<1>4. CASE UpsertFollow(c) \/ LoadFollow(c) \/ DeleteFollow(c) \/ ClientDies(c)
  BY <1>4 DEF UpsertFollow, LoadFollow, DeleteFollow, ClientDies, workers, history, limits
<1>q. QED BY <1>2, <1>3, <1>4 DEF ClientStep

(* What is queued for the actor has an attempt left.                       *)
THEOREM FollowBudgetKept == Spec => []QueuedHasBudget
<1> USE MaxAttemptsAssumption
<1>1. Init => QueuedHasBudget BY DEF Init, NoRow, QueuedHasBudget
<1>2. TypeOK /\ QueuedHasBudget /\ [Next]_vars => QueuedHasBudget'
  <2> SUFFICES ASSUME TypeOK, QueuedHasBudget, [Next]_vars, NEW n \in Ids,
                      row'[n].st = "queued"
               PROVE  row'[n].att < MaxAttempts \/ n \in retried'
    BY DEF QueuedHasBudget
  <2>0. CASE UNCHANGED vars BY <2>0 DEF vars, limits, QueuedHasBudget
  <2>1. ASSUME NEW c \in Clients, ClientStep(c)
        PROVE  row'[n].att < MaxAttempts \/ n \in retried'
    BY <2>1, RowsOfRequests DEF QueuedHasBudget
  <2>2. CASE Elsewhere BY <2>2, RowsKept DEF RowKept, QueuedHasBudget
  <2>q. QED BY <2>0, <2>1, <2>2, StepKinds
<1>q. QED BY <1>1, <1>2, FollowTypesKept, PTL DEF Spec

-----------------------------------------------------------------------------
(* The ids: they are drawn in order, the follows row and the requests that *)
(* are about to write it carry ids of Follows, and no two of them the same.*)
Numbering ==
    /\ \A n \in Ids : n > used => row[n].st = "absent"
    /\ follow.id <= used
    /\ follow.id # 0 => row[follow.id].type = "Follow"
    /\ \A c \in Clients, n \in Ids : Upserts(c, n) =>
         /\ n <= used /\ row[n].type = "Follow" /\ n # follow.id
         /\ \A d \in Clients : Upserts(d, n) => d = c

(* Whoever still waits for the outcome of a Follow that has failed is told *)
(* by a run, or the failure is one of those that were missed.              *)
Awaited(n) ==
    \/ follow.id = n /\ follow.st = "pending"
    \/ \E c \in Clients : Upserts(c, n)

Lingering ==
    \A n \in Ids : row[n].st = "failed" /\ Awaited(n) => Told(n) \/ n \in missed

(* The steps that are not a request's leave ids and requests alone.        *)
LEMMA ElsewhereIds ==
    ASSUME TypeOK, Elsewhere
    PROVE  UNCHANGED <<used, client>> /\ follow'.id = follow.id
<1>f. follow \in FollowType BY DEF TypeOK, FollowType
<1>1. CASE ToggleBlock BY <1>1 DEF ToggleBlock, requests
<1>2. ASSUME NEW n \in Ids, AdminRetry(n) \/ Age(n) PROVE UNCHANGED requests
  BY <1>2 DEF AdminRetry, Age
<1>3. ASSUME NEW n \in Ids, NEW answer \in {"accepted", "rejected"}, Hear(n, answer)
      PROVE  UNCHANGED <<used, client>> /\ follow'.id = follow.id
  BY <1>3, <1>f DEF Hear, Answered, FollowType
<1>4. ASSUME NEW r \in Runs, Start(r) \/ RunStep(r) \/ RunDies(r)
      PROVE  UNCHANGED <<used, client>> /\ follow'.id = follow.id
  <2>1. CASE Reconcile(r)
    <3>1. PICK n \in owed[r] : follow' = FailedFollow(n) BY <2>1 DEF Reconcile
    <3>q. QED BY <2>1, <3>1, <1>f DEF Reconcile, FailedFollow, FollowType
  <2>2. CASE ~Reconcile(r)
    BY <1>4, <2>2 DEF RunStep, Start, RequeueStale, Claim, CheckBlocks, FailBlocked,
       Send, RecordOutcome, FinishRun, RunDies, requests
  <2>q. QED BY <2>1, <2>2
<1>q. QED BY <1>1, <1>2, <1>3, <1>4 DEF Elsewhere, requests

(* The numbering holds at first.                                           *)
LEMMA NumberingInit == Init => Numbering
  BY DEF Init, Numbering, NoRow, NoFollow, Idle, Upserts

(* Every step keeps the numbering.                                         *)
LEMMA NumberingStep == TypeOK /\ Numbering /\ [Next]_vars => Numbering'
<1> SUFFICES ASSUME TypeOK, Numbering, [Next]_vars PROVE Numbering' OBVIOUS
<1> USE FollowAssumption
<1>f. /\ follow \in FollowType /\ used \in 0 .. MaxIds
      /\ client \in [Clients -> ClientType] /\ row \in [Ids -> RowType]
  BY DEF TypeOK, FollowType, ClientType, RowType, States
<1>0. CASE UNCHANGED vars BY <1>0 DEF vars, requests, Numbering, Upserts
<1>1. CASE Elsewhere
  <2>1. UNCHANGED <<used, client>> /\ follow'.id = follow.id BY <1>1, ElsewhereIds
  <2>2. \A n \in Ids : /\ row'[n].type = row[n].type
                       /\ row[n].st = "absent" => row'[n].st = "absent"
    BY <1>1, RowsKept DEF RowKept
  <2>3. follow.id # 0 => follow.id \in Ids BY <1>f DEF FollowType
  <2>q. QED BY <2>1, <2>2, <2>3 DEF Numbering, Upserts
<1>2. ASSUME NEW c \in Clients, ClientStep(c) PROVE Numbering'
  <2>1. CASE QueueFollow(c)
    <3>1. /\ used' = used + 1 /\ used + 1 \in Ids
          /\ client' = [client EXCEPT ![c] = [at |-> "upsert", id |-> used']]
          /\ UNCHANGED follow
      BY <2>1, <1>f, NextId DEF QueueFollow
    <3>2. row' = [row EXCEPT ![used + 1] =
                    [type |-> "Follow", st |-> "queued", att |-> 0, ripe |-> TRUE]]
      BY <2>1, <3>1 DEF QueueFollow, Enqueue
    <3>3. \A n \in Ids : n > used' => row'[n].st = "absent"
      BY <1>f, <3>1, <3>2 DEF Numbering, Ids
    <3>4. follow'.id <= used' /\ follow'.id # used + 1
      BY <1>f, <3>1 DEF Numbering, FollowType, Ids
    <3>5. follow'.id # 0 => row'[follow'.id].type = "Follow"
      BY <1>f, <3>1, <3>2, <3>4 DEF Numbering, FollowType
    <3>6. ASSUME NEW d \in Clients, NEW n \in Ids, Upserts(d, n)'
          PROVE  \/ d = c /\ n = used + 1
                 \/ d # c /\ Upserts(d, n) /\ n # used + 1
      <4>1. CASE d = c BY <1>f, <3>1, <3>6, <4>1 DEF Upserts
      <4>2. CASE d # c
        <5>1. Upserts(d, n) BY <1>f, <3>1, <3>6, <4>2 DEF Upserts
        <5>2. n <= used BY <5>1 DEF Numbering
        <5>q. QED BY <1>f, <4>2, <5>1, <5>2 DEF Ids
      <4>q. QED BY <4>1, <4>2
    <3>7. ASSUME NEW d \in Clients, NEW n \in Ids, Upserts(d, n)'
          PROVE  /\ n <= used' /\ row'[n].type = "Follow" /\ n # follow'.id
                 /\ \A e \in Clients : Upserts(e, n)' => e = d
      <4>1. CASE d = c /\ n = used + 1
        BY <1>f, <3>1, <3>2, <3>4, <3>6, <4>1 DEF Ids
      <4>2. CASE d # c /\ Upserts(d, n) /\ n # used + 1
        <5>1. n <= used /\ row[n].type = "Follow" /\ n # follow.id BY <4>2 DEF Numbering
        <5>2. n <= used' BY <1>f, <3>1, <5>1 DEF Ids
        <5>3. row'[n].type = "Follow" BY <1>f, <3>2, <4>2, <5>1
        <5>4. \A e \in Clients : Upserts(e, n)' => e = d BY <3>6, <4>2 DEF Numbering
        <5>q. QED BY <3>1, <5>1, <5>2, <5>3, <5>4
      <4>q. QED BY <3>6, <3>7, <4>1, <4>2
    <3>q. QED BY <3>3, <3>4, <3>5, <3>7 DEF Numbering
  <2>2. CASE UpsertFollow(c)
    <3>1. /\ client[c].at = "upsert"
          /\ follow'.id = client[c].id
          /\ client' = [client EXCEPT ![c] = Idle]
          /\ UNCHANGED <<row, used>>
      BY <2>2 DEF UpsertFollow
    <3>2. client[c].id \in Ids BY <1>f, <3>1 DEF TypeOK, ClientType
    <3>3. Upserts(c, client[c].id) BY <3>1 DEF Upserts
    <3>4. /\ client[c].id <= used /\ row[client[c].id].type = "Follow"
          /\ \A d \in Clients : Upserts(d, client[c].id) => d = c
      BY <3>2, <3>3 DEF Numbering
    <3>5. \A d \in Clients, n \in Ids : Upserts(d, n)' => d # c /\ Upserts(d, n)
      BY <1>f, <3>1 DEF Upserts, Idle
    <3>6. \A d \in Clients, n \in Ids : Upserts(d, n)' => n # follow'.id
      BY <3>1, <3>4, <3>5
    <3>7. \A d \in Clients, n \in Ids : Upserts(d, n)' =>
             /\ n <= used' /\ row'[n].type = "Follow"
             /\ \A e \in Clients : Upserts(e, n)' => e = d
      BY <3>1, <3>5 DEF Numbering
    <3>q. QED BY <3>1, <3>4, <3>6, <3>7 DEF Numbering
  <2>3. CASE LoadFollow(c) \/ DeleteFollow(c) \/ ClientDies(c)
    <3>1. UNCHANGED <<row, used>> /\ (follow' = follow \/ follow' = NoFollow)
      BY <2>3 DEF LoadFollow, DeleteFollow, ClientDies
    <3>2. \A d \in Clients, n \in Ids : Upserts(d, n)' => Upserts(d, n)
      <4>1. CASE LoadFollow(c) BY <1>f, <4>1 DEF LoadFollow, Upserts
      <4>2. CASE DeleteFollow(c) \/ ClientDies(c)
        BY <1>f, <4>2 DEF DeleteFollow, ClientDies, Idle, Upserts
      <4>q. QED BY <2>3, <4>1, <4>2
    <3>3. CASE follow' = follow BY <3>1, <3>2, <3>3 DEF Numbering
    <3>4. CASE follow' = NoFollow
      <4>1. follow'.id = 0 BY <3>4 DEF NoFollow
      <4>2. \A n \in Ids : n # 0 BY DEF Ids
      <4>3. 0 <= used' BY <1>f, <3>1
      <4>q. QED BY <3>1, <3>2, <4>1, <4>2, <4>3 DEF Numbering
    <3>q. QED BY <3>1, <3>3, <3>4
  <2>4. CASE QueueUndo(c)
    <3>1. UNCHANGED follow /\ client' = [client EXCEPT ![c].at = "delete"]
      BY <2>4 DEF QueueUndo
    <3>2. \A d \in Clients, n \in Ids : Upserts(d, n)' => Upserts(d, n)
      BY <1>f, <3>1 DEF Upserts, ClientType
    <3>3. CASE UNCHANGED <<row, used>> BY <3>1, <3>2, <3>3 DEF Numbering
    <3>4. CASE used < MaxIds /\ used' = used + 1 /\ Enqueue(used', "Undo")
      <4>1. used + 1 \in Ids BY <1>f, <3>4, NextId
      <4>2. row' = [row EXCEPT ![used + 1] =
                    [type |-> "Undo", st |-> "queued", att |-> 0, ripe |-> TRUE]]
        BY <3>4 DEF Enqueue
      <4>3. \A n \in Ids : n > used' => row'[n].st = "absent"
        BY <1>f, <3>4, <4>2 DEF Numbering, Ids
      <4>4. \A n \in Ids : n <= used => n <= used' /\ row'[n] = row[n]
        BY <1>f, <3>4, <4>2 DEF Ids
      <4>5. follow.id \in {0} \cup Ids BY <1>f DEF FollowType
      <4>6. follow'.id <= used' BY <1>f, <3>1, <3>4, <4>5 DEF Numbering, Ids
      <4>7. follow'.id # 0 => row'[follow'.id].type = "Follow"
        BY <3>1, <4>4, <4>5 DEF Numbering
      <4>8. \A d \in Clients, n \in Ids : Upserts(d, n)' =>
               /\ n <= used' /\ row'[n].type = "Follow" /\ n # follow'.id
               /\ \A e \in Clients : Upserts(e, n)' => e = d
        BY <3>1, <3>2, <4>4 DEF Numbering
      <4>q. QED BY <4>3, <4>6, <4>7, <4>8 DEF Numbering
    <3>q. QED BY <2>4, <3>3, <3>4 DEF QueueUndo
  <2>q. QED BY <1>2, <2>1, <2>2, <2>3, <2>4 DEF ClientStep
<1>q. QED BY <1>0, <1>1, <1>2, StepKinds

(* A run owes news only while it claims or sends.                          *)
Owing == \A r \in Runs : owed[r] # {} => pc[r] \in {"claim", "send"}

(* So it holds at first and after every step.                              *)
LEMMA OwingStep == TypeOK /\ Owing /\ [Next]_vars => Owing'
<1> SUFFICES ASSUME TypeOK, Owing, [Next]_vars, NEW q \in Runs, owed'[q] # {}
             PROVE  pc'[q] \in {"claim", "send"}
  BY DEF Owing
<1> USE DEF TypeOK, Owing
<1>0. CASE UNCHANGED vars BY <1>0 DEF vars, workers
<1>1. ASSUME NEW c \in Clients, ClientStep(c) PROVE pc'[q] \in {"claim", "send"}
  BY <1>1 DEF ClientStep, QueueFollow, UpsertFollow, LoadFollow, QueueUndo, DeleteFollow,
     ClientDies, workers
<1>2. CASE ToggleBlock BY <1>2 DEF ToggleBlock, workers
<1>3. ASSUME NEW n \in Ids,
             AdminRetry(n) \/ Age(n) \/ Hear(n, "accepted") \/ Hear(n, "rejected")
      PROVE  pc'[q] \in {"claim", "send"}
  BY <1>3 DEF AdminRetry, Age, Hear, workers
<1>4. ASSUME NEW r \in Runs, Start(r) \/ RunStep(r) \/ RunDies(r)
      PROVE  pc'[q] \in {"claim", "send"}
  <2>1. CASE Start(r) BY <2>1 DEF Start
  <2>2. CASE RequeueStale(r) BY <2>2 DEF RequeueStale
  <2>3. CASE Reconcile(r)
    <3>1. owed[q] # {} BY <2>3 DEF Reconcile
    <3>q. QED BY <2>3, <3>1 DEF Reconcile
  <2>4. CASE Claim(r) BY <2>4 DEF Claim
  <2>5. CASE CheckBlocks(r) BY <2>5 DEF CheckBlocks
  <2>6. CASE FailBlocked(r) \/ RecordOutcome(r)
    <3>1. /\ pc[r] = "send" /\ pc' = pc
          /\ \E S : owed' = [owed EXCEPT ![r] = S]
      BY <2>6 DEF FailBlocked, RecordOutcome, Close
    <3>q. QED BY <3>1
  <2>7. CASE Send(r) BY <2>7 DEF Send
  <2>8. CASE FinishRun(r) BY <2>8 DEF FinishRun
  <2>9. CASE RunDies(r) BY <2>9 DEF RunDies
  <2>q. QED BY <1>4, <2>1, <2>2, <2>3, <2>4, <2>5, <2>6, <2>7, <2>8, <2>9 DEF RunStep
<1>q. QED BY <1>0, <1>1, <1>2, <1>3, <1>4 DEF Next

(* News that a run owes stays owed, has been passed on, or is missed.      *)
LEMMA NewsKept ==
    ASSUME TypeOK, Owing, Elsewhere, NEW n \in Ids, Told(n) \/ n \in missed
    PROVE  \/ Told(n)' \/ n \in missed'
           \/ follow.id = n /\ follow'.st # "pending"
<1> DEFINE Goal == Told(n)' \/ n \in missed' \/ (follow.id = n /\ follow'.st # "pending")
<1> USE DEF TypeOK
<1>s. ASSUME owed' = owed, missed' = missed PROVE Goal BY <1>s DEF Told
<1>1. CASE ToggleBlock BY <1>1, <1>s DEF ToggleBlock, workers, history
<1>2. ASSUME NEW i \in Ids,
             AdminRetry(i) \/ Age(i) \/ Hear(i, "accepted") \/ Hear(i, "rejected")
      PROVE  Goal
  BY <1>2, <1>s DEF AdminRetry, Age, Hear, workers, history
<1>3. ASSUME NEW r \in Runs, Start(r) \/ RunStep(r) \/ RunDies(r) PROVE Goal
  <2>1. CASE Start(r) \/ Claim(r) \/ CheckBlocks(r) \/ Send(r) \/ FinishRun(r)
    BY <2>1, <1>s DEF Start, Claim, CheckBlocks, Send, FinishRun, history
  <2>2. CASE RequeueStale(r) \/ FailBlocked(r) \/ RecordOutcome(r)
    <3>1. /\ owed[r] = {} /\ missed' = missed
          /\ \A p \in Runs : p # r => owed'[p] = owed[p]
      BY <2>2 DEF RequeueStale, FailBlocked, RecordOutcome, Close, Owing, history
    <3>2. CASE n \in missed BY <3>1, <3>2
    <3>3. ASSUME NEW q \in Runs, n \in owed[q] PROVE Told(n)'
      <4>1. n \in owed'[q] BY <3>1, <3>3
      <4>q. QED BY <4>1 DEF Told
    <3>q. QED BY <3>2, <3>3 DEF Told
  <2>3. CASE Reconcile(r)
    <3>1. PICK m \in owed[r] :
             /\ owed' = [owed EXCEPT ![r] = @ \ {m}]
             /\ follow' = FailedFollow(m)
             /\ missed' = IF follow.id = m THEN missed ELSE missed \cup {m}
      BY <2>3 DEF Reconcile
    <3>2. CASE m # n
      <4>1. CASE n \in missed BY <3>1, <4>1
      <4>2. ASSUME NEW q \in Runs, n \in owed[q] PROVE Told(n)'
        <5>1. n \in owed'[q] BY <3>1, <3>2, <4>2
        <5>q. QED BY <5>1 DEF Told
      <4>q. QED BY <4>1, <4>2 DEF Told
    <3>3. CASE m = n /\ follow.id # n BY <3>1, <3>3
    <3>4. CASE m = n /\ follow.id = n
      <4>1. follow'.st # "pending" BY <3>1, <3>4 DEF FailedFollow
      <4>q. QED BY <3>4, <4>1
    <3>q. QED BY <3>2, <3>3, <3>4
  <2>4. CASE RunDies(r)
    <3>1. missed' = missed \cup owed[r] /\ owed' = [owed EXCEPT ![r] = {}]
      BY <2>4 DEF RunDies
    <3>2. CASE n \in missed \cup owed[r] BY <3>1, <3>2
    <3>3. ASSUME NEW q \in Runs, n \in owed[q], q # r PROVE Told(n)'
      <4>1. n \in owed'[q] BY <3>1, <3>3
      <4>q. QED BY <4>1 DEF Told
    <3>q. QED BY <3>2, <3>3 DEF Told
  <2>q. QED BY <1>3, <2>1, <2>2, <2>3, <2>4 DEF RunStep
<1>q. QED BY <1>1, <1>2, <1>3 DEF Elsewhere

(* Nobody starts to wait for a Follow that has failed already, except a    *)
(* request that has been about to.                                         *)
LEMMA AwaitedBefore ==
    ASSUME TypeOK, Next, NEW n \in Ids, row'[n].st = "failed", Awaited(n)'
    PROVE  Awaited(n)
<1>f. /\ follow \in FollowType /\ client \in [Clients -> ClientType]
      /\ row \in [Ids -> RowType] /\ used \in 0 .. MaxIds
  BY DEF TypeOK, FollowType, ClientType, RowType, States
<1>1. CASE Elsewhere
  <2>1. client' = client /\ follow'.id = follow.id BY <1>1, ElsewhereIds
  <2>2. ASSUME follow'.st = "pending" PROVE follow.st = "pending"
    <3>1. CASE follow' = follow BY <2>2, <3>1
    <3>2. CASE follow' = NoFollow BY <2>2, <3>2 DEF NoFollow
    <3>3. ASSUME NEW c \in Clients, UpsertFollow(c) PROVE FALSE
      BY <1>f, <2>1, <3>3 DEF UpsertFollow, Idle
    <3>4. ASSUME NEW x \in {"accepted", "rejected", "failed"}, follow' = [follow EXCEPT !.st = x]
          PROVE  FALSE
      BY <1>f, <2>2, <3>4 DEF FollowType
    <3>q. QED BY <3>1, <3>2, <3>3, <3>4, FollowChange
  <2>q. QED BY <2>1, <2>2 DEF Awaited, Upserts
<1>2. ASSUME NEW c \in Clients, ClientStep(c) PROVE Awaited(n)
  <2>1. row'[n] = row[n] BY <1>2, RowsOfRequests
  <2>2. CASE QueueFollow(c)
    <3>1. /\ follow' = follow
          /\ client' = [client EXCEPT ![c] = [at |-> "upsert", id |-> used']]
          /\ used' = used + 1
          /\ row' = [row EXCEPT ![used'] =
               [type |-> "Follow", st |-> "queued", att |-> 0, ripe |-> TRUE]]
      BY <2>2 DEF QueueFollow, Enqueue
    <3>2. n # used' BY <1>f, <3>1
    <3>3. \A d \in Clients : Upserts(d, n)' => Upserts(d, n)
      BY <1>f, <3>1, <3>2 DEF Upserts
    <3>q. QED BY <3>1, <3>3 DEF Awaited
  <2>3. CASE UpsertFollow(c)
    <3>1. /\ client[c].at = "upsert" /\ follow'.id = client[c].id
          /\ client' = [client EXCEPT ![c] = Idle]
      BY <2>3 DEF UpsertFollow
    <3>2. \A d \in Clients : Upserts(d, n)' => Upserts(d, n)
      BY <1>f, <3>1 DEF Upserts, Idle
    <3>3. follow'.id = n => Upserts(c, n) BY <3>1 DEF Upserts
    <3>q. QED BY <3>2, <3>3 DEF Awaited
  <2>4. CASE LoadFollow(c) \/ QueueUndo(c) \/ DeleteFollow(c) \/ ClientDies(c)
    <3>1. follow' = follow \/ follow' = NoFollow
      BY <2>4 DEF LoadFollow, QueueUndo, DeleteFollow, ClientDies
    <3>2. \A d \in Clients : Upserts(d, n)' => Upserts(d, n)
      <4>1. CASE LoadFollow(c) BY <1>f, <4>1 DEF LoadFollow, Upserts
      <4>2. CASE QueueUndo(c) BY <1>f, <4>2 DEF QueueUndo, Upserts, ClientType
      <4>3. CASE DeleteFollow(c) \/ ClientDies(c)
        BY <1>f, <4>3 DEF DeleteFollow, ClientDies, Idle, Upserts
      <4>q. QED BY <2>4, <4>1, <4>2, <4>3
    <3>q. QED BY <3>1, <3>2 DEF Awaited, NoFollow
  <2>q. QED BY <1>2, <2>2, <2>3, <2>4 DEF ClientStep
<1>q. QED BY <1>1, <1>2, StepKinds

(* A failure that somebody waits for is about to be told or was missed.    *)
LEMMA LingeringStep == TypeOK /\ Numbering /\ Owing /\ Lingering /\ [Next]_vars => Lingering'
<1> SUFFICES ASSUME TypeOK, Numbering, Owing, Lingering, [Next]_vars,
                    NEW n \in Ids, row'[n].st = "failed", Awaited(n)'
             PROVE  Told(n)' \/ n \in missed'
  BY DEF Lingering
<1>0. CASE UNCHANGED vars
  BY <1>0 DEF vars, requests, workers, history, Lingering, Awaited, Upserts, Told
<1>1. CASE Next
  <2>1. Awaited(n) BY <1>1, AwaitedBefore
  <2>2. ASSUME NEW c \in Clients, ClientStep(c) PROVE Told(n)' \/ n \in missed'
    <3>1. row'[n] = row[n] /\ owed' = owed /\ missed' = missed BY <2>2, RowsOfRequests
    <3>q. QED BY <2>1, <3>1 DEF Lingering, Told
  <2>3. CASE Elsewhere
    <3>1. CASE row[n].st = "failed"
      <4>1. Told(n) \/ n \in missed BY <2>1, <3>1 DEF Lingering
      <4>2. ASSUME follow.id = n, follow'.st # "pending" PROVE FALSE
        <5>1. client' = client /\ follow'.id = follow.id BY <2>3, ElsewhereIds
        <5>2. PICK c \in Clients : Upserts(c, n) BY <4>2, <5>1 DEF Awaited, Upserts
        <5>q. QED BY <4>2, <5>2 DEF Numbering
      <4>q. QED BY <2>3, <4>1, <4>2, NewsKept
    <3>2. CASE row[n].st # "failed"
      <4>1. row[n].type = "Follow"
        <5>1. n # 0 BY DEF Ids
        <5>q. QED BY <2>1, <5>1 DEF Awaited, Numbering
      <4>q. QED BY <2>3, <3>2, <4>1, RowsKept DEF RowKept
    <3>q. QED BY <3>1, <3>2
  <2>q. QED BY <1>1, <2>2, <2>3, StepKinds
<1>q. QED BY <1>0, <1>1

(* A failure reaches the follow unless a run dies between its two          *)
(* statements or is done before the request has written the follow.        *)
THEOREM FailuresReachFollow == Spec => []OnlyMissedFailuresLinger
<1>1. Init => Numbering /\ Owing /\ Lingering
  BY NumberingInit DEF Init, Owing, Lingering, NoRow
<1>2. TypeOK /\ Numbering /\ Lingering => OnlyMissedFailuresLinger
  <2> SUFFICES ASSUME TypeOK, Lingering, follow.st = "pending", row[follow.id].st = "failed",
                      follow.id \in Ids
               PROVE  Told(follow.id) \/ follow.id \in missed
    BY DEF TypeOK, NoFollow, OnlyMissedFailuresLinger
  <2>q. QED BY DEF Lingering, Awaited
<1>q. QED BY <1>1, <1>2, FollowTypesKept, NumberingStep, OwingStep, LingeringStep, PTL DEF Spec

-----------------------------------------------------------------------------
(* While no run outlives its lease, the word of a run is true: whoever     *)
(* holds a row holds it alone and in flight, and owes only failures that   *)
(* are on record.                                                          *)
HeldBy(r, n) == \E j \in jobs[r] : j.id = n
Once(r) == \A i, j \in jobs[r] : i.id = j.id => i = j

Sole(n) ==
    /\ \A r \in Runs : HeldBy(r, n) => row[n].st = "in_flight" /\ ~row[n].ripe
    /\ \A q, r \in Runs : HeldBy(q, n) /\ HeldBy(r, n) => q = r
    /\ \A r \in Runs : n \in owed[r] => row[n].st = "failed"

(* A run holds an activity once.                                           *)
LEMMA OnceStep ==
    ASSUME TypeOK, [Next]_vars, \A r \in Runs : Once(r) PROVE (\A r \in Runs : Once(r))'
<1>0. jobs \in [Runs -> SUBSET JobType] BY DEF TypeOK, JobType
<1> USE DEF Once
<1>1. CASE UNCHANGED jobs BY <1>1
<1>2. ASSUME NEW r \in Runs, Claim(r) PROVE (\A q \in Runs : Once(q))'
  <2>1. PICK T : jobs' = [jobs EXCEPT ![r] =
                   {[id |-> n, att |-> row[n].att, ph |-> "claimed"] : n \in T}]
    BY <1>2 DEF Claim
  <2>2. \A i, j \in jobs'[r] : i.id = j.id => i = j BY <1>0, <2>1
  <2>3. \A q \in Runs \ {r} : jobs'[q] = jobs[q] BY <1>0, <2>1
  <2>q. QED BY <2>2, <2>3
<1>3. ASSUME NEW r \in Runs, CheckBlocks(r) PROVE (\A q \in Runs : Once(q))'
  <2>1. PICK view \in BlockViews : jobs' = [jobs EXCEPT ![r] =
                   {[j EXCEPT !.ph = IF view THEN "blocked" ELSE "todo"] : j \in jobs[r]}]
    BY <1>3 DEF CheckBlocks
  <2>2. ASSUME NEW i \in jobs'[r], NEW j \in jobs'[r], i.id = j.id PROVE i = j
    <3>1. PICK x \in jobs[r] : i = [x EXCEPT !.ph = IF view THEN "blocked" ELSE "todo"]
      BY <1>0, <2>1
    <3>2. PICK y \in jobs[r] : j = [y EXCEPT !.ph = IF view THEN "blocked" ELSE "todo"]
      BY <1>0, <2>1
    <3>3. x \in JobType /\ y \in JobType BY <1>0
    <3>4. i.id = x.id /\ j.id = y.id BY <3>1, <3>2, <3>3 DEF JobType
    <3>5. x = y BY <2>2, <3>4
    <3>q. QED BY <3>1, <3>2, <3>5
  <2>3. \A q \in Runs \ {r} : jobs'[q] = jobs[q] BY <1>0, <2>1
  <2>q. QED BY <2>2, <2>3
<1>4. ASSUME NEW r \in Runs, Send(r) PROVE (\A q \in Runs : Once(q))'
  <2>1. PICK j \in jobs[r], answer \in Seen :
           jobs' = [jobs EXCEPT ![r] = (@ \ {j}) \cup {[j EXCEPT !.ph = OutcomeOf(answer)]}]
    BY <1>4 DEF Send
  <2>2. jobs'[r] = (jobs[r] \ {j}) \cup {[j EXCEPT !.ph = OutcomeOf(answer)]} BY <1>0, <2>1
  <2>3. j \in JobType BY <1>0
  <2>4. [j EXCEPT !.ph = OutcomeOf(answer)].id = j.id BY <2>3 DEF JobType
  <2>5. \A x, y \in jobs'[r] : x.id = y.id => x = y BY <2>2, <2>4
  <2>6. \A q \in Runs \ {r} : jobs'[q] = jobs[q] BY <1>0, <2>1
  <2>q. QED BY <2>5, <2>6
<1>5. ASSUME NEW r \in Runs, FailBlocked(r) \/ RecordOutcome(r) \/ RunDies(r)
      PROVE  (\A q \in Runs : Once(q))'
  <2>1. \A q \in Runs : jobs'[q] \subseteq jobs[q]
    <3>1. CASE RunDies(r) BY <1>0, <3>1 DEF RunDies
    <3>2. CASE FailBlocked(r) \/ RecordOutcome(r)
      <4>1. \E j \in jobs[r] : jobs' = [jobs EXCEPT ![r] = jobs[r] \ {j}]
        BY <3>2 DEF FailBlocked, RecordOutcome, Close
      <4>q. QED BY <1>0, <4>1
    <3>q. QED BY <1>5, <3>1, <3>2
  <2>q. QED BY <2>1
<1>6. ASSUME NEW r \in Runs, Start(r) \/ RequeueStale(r) \/ Reconcile(r) \/ FinishRun(r)
      PROVE  UNCHANGED jobs
  BY <1>6 DEF Start, RequeueStale, Reconcile, FinishRun
<1>7. ASSUME NEW c \in Clients, ClientStep(c) PROVE UNCHANGED jobs BY <1>7, RowsOfRequests
<1>8. ASSUME ToggleBlock \/ \E n \in Ids : \/ AdminRetry(n) \/ Age(n)
                                         \/ Hear(n, "accepted") \/ Hear(n, "rejected")
      PROVE  UNCHANGED jobs
  BY <1>8 DEF ToggleBlock, AdminRetry, Age, Hear, workers
<1>q. QED BY <1>1, <1>2, <1>3, <1>4, <1>5, <1>6, <1>7, <1>8 DEF Next, RunStep, vars, workers

(* Closing a delivery: the row was in flight and held by this run alone.   *)
LEMMA SoleByClose ==
    ASSUME TypeOK, NEW n \in Ids, Sole(n), NEW r \in Runs, Once(r), NEW j \in jobs[r],
           NEW st, NEW att, Close(r, j, st, att)
    PROVE  Sole(n)' /\ (row[n].st = "failed" => row'[n].st = "failed")
<1>0. /\ row \in [Ids -> RowType] /\ row[n] \in RowType
      /\ jobs \in [Runs -> SUBSET JobType] /\ owed \in [Runs -> SUBSET Ids]
  BY DEF TypeOK, RowType, States, JobType
<1>1. /\ row' = Mark(j.id, st, att)
      /\ jobs' = [jobs EXCEPT ![r] = @ \ {j}]
      /\ owed' = [owed EXCEPT ![r] = IF st = "failed" THEN FollowsAmong({j.id}) ELSE {}]
  BY DEF Close
<1>2. \A q \in Runs \ {r} : jobs'[q] = jobs[q] /\ owed'[q] = owed[q] BY <1>0, <1>1
<1>3. /\ jobs'[r] = jobs[r] \ {j}
      /\ owed'[r] = IF st = "failed" THEN FollowsAmong({j.id}) ELSE {}
  BY <1>0, <1>1
<1>4. CASE j.id = n
  <2>1. HeldBy(r, n) BY <1>4 DEF HeldBy
  <2>2. row[n].st = "in_flight" BY <2>1 DEF Sole
  <2>3. \A q \in Runs : ~HeldBy(q, n)' BY <1>2, <1>3, <1>4, <2>1 DEF Sole, HeldBy, Once
  <2>4. row'[n].st = st
    <3>1. row' = [row EXCEPT ![n] = [row[n] EXCEPT !.st = st, !.att = att, !.ripe = FALSE]]
      BY <1>1, <1>4, <2>2 DEF Mark
    <3>q. QED BY <1>0, <3>1 DEF RowType
  <2>5. \A q \in Runs : n \in owed'[q] => st = "failed"
    BY <1>2, <1>3, <2>2 DEF Sole
  <2>q. QED BY <2>2, <2>3, <2>4, <2>5 DEF Sole
<1>5. CASE j.id # n
  <2>1. row'[n] = row[n] BY <1>0, <1>1, <1>5 DEF Mark
  <2>2. \A q \in Runs : HeldBy(q, n)' => HeldBy(q, n) BY <1>2, <1>3 DEF HeldBy
  <2>3. \A q \in Runs : n \in owed'[q] => n \in owed[q]
    BY <1>2, <1>3, <1>5 DEF FollowsAmong
  <2>q. QED BY <2>1, <2>2, <2>3 DEF Sole
<1>q. QED BY <1>4, <1>5

(* One step: a row nobody put back is still held by one run at most, and a *)
(* failure on record stays on record.                                      *)
LEMMA SoleStep ==
    ASSUME TypeOK, Numbering, \A r \in Runs : Once(r), ~RunsOutliveLease,
           NEW n \in Ids, Sole(n), [Next]_vars, n \notin retried'
    PROVE  Sole(n)' /\ (row[n].st = "failed" => row'[n].st = "failed")
<1> DEFINE Goal == Sole(n)' /\ (row[n].st = "failed" => row'[n].st = "failed")
<1>0. /\ row \in [Ids -> RowType] /\ row[n] \in RowType
      /\ jobs \in [Runs -> SUBSET JobType] /\ owed \in [Runs -> SUBSET Ids]
      /\ used \in 0 .. MaxIds
  BY DEF TypeOK, RowType, States, JobType
<1>s. ASSUME row'[n] = row[n],
             \A q \in Runs : HeldBy(q, n)' => HeldBy(q, n),
             \A q \in Runs : n \in owed'[q] => n \in owed[q]
      PROVE  Goal
  <2>1. \A q \in Runs : HeldBy(q, n)' => row'[n].st = "in_flight" /\ ~row'[n].ripe
    BY <1>s DEF Sole
  <2>2. \A q, r \in Runs : HeldBy(q, n)' /\ HeldBy(r, n)' => q = r BY <1>s DEF Sole
  <2>3. \A q \in Runs : n \in owed'[q] => row'[n].st = "failed" BY <1>s DEF Sole
  <2>q. QED BY <1>s, <2>1, <2>2, <2>3 DEF Sole
<1> SUFFICES Goal OBVIOUS
<1> HIDE DEF Goal
<1>1. CASE UNCHANGED <<row, jobs, owed>> BY <1>1, <1>s DEF HeldBy
<1>2. ASSUME NEW c \in Clients, ClientStep(c) PROVE Goal
  <2>1. UNCHANGED <<owed, jobs>> BY <1>2, RowsOfRequests
  <2>2. row'[n] = row[n] \/ n = used + 1 BY <1>2, RowsOfRequests
  <2>3. CASE row'[n] = row[n] BY <1>s, <2>1, <2>3 DEF HeldBy
  <2>4. CASE n = used + 1
    <3>1. row[n].st = "absent" BY <1>0, <2>4 DEF Numbering
    <3>2. \A q \in Runs : ~HeldBy(q, n) /\ n \notin owed[q] BY <3>1 DEF Sole
    <3>q. QED BY <2>1, <3>1, <3>2 DEF Goal, Sole, HeldBy
  <2>q. QED BY <2>2, <2>3, <2>4
<1>3. ASSUME NEW x \in Ids, AdminRetry(x) PROVE Goal
  <2>1. x # n /\ UNCHANGED <<jobs, owed>> BY <1>3 DEF AdminRetry, workers
  <2>2. row'[n] = row[n] BY <1>0, <1>3, <2>1 DEF AdminRetry
  <2>q. QED BY <1>s, <2>1, <2>2 DEF HeldBy
<1>4. ASSUME NEW x \in Ids, Age(x) PROVE Goal
  <2>1. UNCHANGED <<jobs, owed>> BY <1>4 DEF Age, workers
  <2>2. CASE x # n
    <3>1. row'[n] = row[n] BY <1>0, <1>4, <2>2 DEF Age
    <3>q. QED BY <1>s, <2>1, <3>1 DEF HeldBy
  <2>3. CASE x = n
    <3>1. row[n].st \in {"queued", "in_flight"} BY <1>4, <2>3 DEF Age
    <3>2. \A q \in Runs : ~HeldBy(q, n) /\ n \notin owed[q]
      BY <1>4, <2>3, <3>1 DEF Age, Held, HeldBy, Sole
    <3>q. QED BY <2>1, <3>1, <3>2 DEF Goal, Sole, HeldBy
  <2>q. QED BY <2>2, <2>3
<1>5. ASSUME NEW r \in Runs, RequeueStale(r) PROVE Goal
  <2>1. jobs' = jobs /\ \A q \in Runs \ {r} : owed'[q] = owed[q]
    BY <1>0, <1>5 DEF RequeueStale
  <2>2. owed'[r] = Reported BY <1>0, <1>5 DEF RequeueStale
  <2>3. CASE ~Stale(n)
    <3>1. row'[n] = row[n] BY <1>5, <2>3 DEF RequeueStale
    <3>2. n \notin Reported BY <2>3 DEF Reported, FollowsAmong
    <3>q. QED BY <1>s, <2>1, <2>2, <3>1, <3>2 DEF HeldBy
  <2>4. CASE Stale(n)
    <3> DEFINE next == NextAttempt(row[n].att)
    <3>1. row'[n] = [row[n] EXCEPT !.st = Requeued(next).st, !.att = next,
                                   !.ripe = Requeued(next).ripe]
      BY <1>5, <2>4 DEF RequeueStale
    <3>2. row'[n].st = Requeued(next).st BY <1>0, <3>1 DEF RowType
    <3>3. n \in Reported => row'[n].st = "failed"
      BY <3>2 DEF Reported, FollowsAmong, Requeued
    <3>4. \A q \in Runs : ~HeldBy(q, n) /\ n \notin owed[q] BY <2>4 DEF Stale, Sole
    <3>q. QED BY <2>1, <2>2, <2>4, <3>3, <3>4 DEF Goal, Sole, HeldBy, Stale
  <2>q. QED BY <2>3, <2>4
<1>6. ASSUME NEW r \in Runs, Claim(r) PROVE Goal
  <2>1. PICK T \in Claimable({i \in Ids : Due(i)}) :
           /\ row' = [i \in Ids |-> IF i \in T
                        THEN [row[i] EXCEPT !.st = "in_flight", !.ripe = FALSE]
                        ELSE row[i]]
           /\ jobs' = [jobs EXCEPT ![r] =
                        {[id |-> i, att |-> row[i].att, ph |-> "claimed"] : i \in T}]
    BY <1>6 DEF Claim
  <2>2. owed' = owed /\ \A q \in Runs \ {r} : jobs'[q] = jobs[q]
    BY <1>0, <1>6, <2>1 DEF Claim
  <2>3. \A i \in jobs'[r] : i.id \in T
    <3>1. jobs'[r] = {[id |-> i, att |-> row[i].att, ph |-> "claimed"] : i \in T}
      BY <1>0, <2>1
    <3>q. QED BY <3>1
  <2>4. CASE n \notin T
    <3>1. row'[n] = row[n] BY <2>1, <2>4
    <3>2. \A q \in Runs : HeldBy(q, n)' => HeldBy(q, n) BY <2>2, <2>3, <2>4 DEF HeldBy
    <3>q. QED BY <1>s, <2>2, <3>1, <3>2
  <2>5. CASE n \in T
    <3>1. row[n].st = "queued" BY <2>5 DEF Claimable, Due
    <3>2. \A q \in Runs : ~HeldBy(q, n) /\ n \notin owed[q] BY <3>1 DEF Sole
    <3>3. \A q \in Runs : HeldBy(q, n)' => q = r BY <2>2, <3>2 DEF HeldBy
    <3>4. row'[n] = [row[n] EXCEPT !.st = "in_flight", !.ripe = FALSE] BY <2>1, <2>5
    <3>5. row'[n].st = "in_flight" /\ ~row'[n].ripe BY <1>0, <3>4 DEF RowType
    <3>q. QED BY <2>2, <3>1, <3>2, <3>3, <3>5 DEF Goal, Sole
  <2>q. QED BY <2>4, <2>5
<1>7. ASSUME NEW r \in Runs, CheckBlocks(r) PROVE Goal
  <2>1. PICK view \in BlockViews : jobs' = [jobs EXCEPT ![r] =
                   {[j EXCEPT !.ph = IF view THEN "blocked" ELSE "todo"] : j \in jobs[r]}]
    BY <1>7 DEF CheckBlocks
  <2>2. \A q \in Runs : HeldBy(q, n)' => HeldBy(q, n)
    <3>1. ASSUME NEW q \in Runs, NEW i \in jobs'[q], i.id = n PROVE HeldBy(q, n)
      <4>1. CASE q # r BY <1>0, <2>1, <3>1, <4>1 DEF HeldBy
      <4>2. CASE q = r
        <5>1. PICK x \in jobs[r] : i = [x EXCEPT !.ph = IF view THEN "blocked" ELSE "todo"]
          BY <1>0, <2>1, <3>1, <4>2
        <5>2. x \in JobType BY <1>0
        <5>3. x.id = n BY <3>1, <5>1, <5>2 DEF JobType
        <5>q. QED BY <4>2, <5>3 DEF HeldBy
      <4>q. QED BY <4>1, <4>2
    <3>q. QED BY <3>1 DEF HeldBy
  <2>3. UNCHANGED <<row, owed>> BY <1>7 DEF CheckBlocks
  <2>q. QED BY <1>s, <2>2, <2>3
<1>8. ASSUME NEW r \in Runs, Send(r) PROVE Goal
  <2>1. PICK j \in jobs[r], answer \in Seen :
           jobs' = [jobs EXCEPT ![r] = (@ \ {j}) \cup {[j EXCEPT !.ph = OutcomeOf(answer)]}]
    BY <1>8 DEF Send
  <2>2. j \in JobType BY <1>0
  <2>3. [j EXCEPT !.ph = OutcomeOf(answer)].id = j.id BY <2>2 DEF JobType
  <2>4. \A q \in Runs : HeldBy(q, n)' => HeldBy(q, n) BY <1>0, <2>1, <2>3 DEF HeldBy
  <2>5. UNCHANGED <<row, owed>> BY <1>8 DEF Send
  <2>q. QED BY <1>s, <2>4, <2>5
<1>9. ASSUME NEW r \in Runs, FailBlocked(r) \/ RecordOutcome(r) PROVE Goal
  <2>1. PICK j \in jobs[r] : \E st, att : Close(r, j, st, att)
    BY <1>9 DEF FailBlocked, RecordOutcome
  <2>2. PICK st, att : Close(r, j, st, att) BY <2>1
  <2>q. QED BY <2>2, SoleByClose DEF Goal
<1>10. ASSUME NEW r \in Runs, Reconcile(r) \/ RunDies(r) PROVE Goal
  <2>1. row' = row /\ \A q \in Runs : jobs'[q] \subseteq jobs[q] /\ owed'[q] \subseteq owed[q]
    BY <1>0, <1>10 DEF Reconcile, RunDies
  <2>2. \A q \in Runs : HeldBy(q, n)' => HeldBy(q, n) BY <2>1 DEF HeldBy
  <2>q. QED BY <1>s, <2>1, <2>2
<1>11. ASSUME \/ \E r \in Runs : Start(r) \/ FinishRun(r)
              \/ ToggleBlock
              \/ \E i \in Ids : Hear(i, "accepted") \/ Hear(i, "rejected")
              \/ UNCHANGED vars
       PROVE  UNCHANGED <<row, jobs, owed>>
  BY <1>11 DEF Start, FinishRun, ToggleBlock, Hear, workers, vars
<1>q. QED
  BY <1>1, <1>2, <1>3, <1>4, <1>5, <1>6, <1>7, <1>8, <1>9, <1>10, <1>11 DEF Next, RunStep

(* Only a run that owes a follow the news of its failure fails it.         *)
LEMMA FailedBy ==
    ASSUME TypeOK, [Next]_vars, follow.st = "pending", follow' = [follow EXCEPT !.st = "failed"]
    PROVE  \E r \in Runs : Reconcile(r) /\ follow.id \in owed[r]
<1>0. follow \in FollowType BY DEF TypeOK, FollowType
<1>1. follow' # follow /\ follow'.st = "failed" /\ follow' # NoFollow
  BY <1>0 DEF FollowType, NoFollow
<1>2. ASSUME NEW c \in Clients, ClientStep(c) PROVE follow' = follow \/ follow'.st # "failed"
  BY <1>2 DEF ClientStep, QueueFollow, UpsertFollow, LoadFollow, QueueUndo, DeleteFollow,
     ClientDies, NoFollow
<1>3. ASSUME ToggleBlock \/ \E n \in Ids : AdminRetry(n) \/ Age(n) PROVE follow' = follow
  BY <1>3 DEF ToggleBlock, AdminRetry, Age, requests
<1>4. ASSUME NEW n \in Ids, NEW answer \in {"accepted", "rejected"}, Hear(n, answer)
      PROVE  follow' = follow \/ follow'.st # "failed"
  BY <1>0, <1>4 DEF Hear, Answered, FollowType
<1>5. ASSUME NEW r \in Runs, Start(r) \/ RunStep(r) \/ RunDies(r), ~Reconcile(r)
      PROVE  follow' = follow
  BY <1>5 DEF RunStep, Start, RequeueStale, Claim, CheckBlocks, FailBlocked,
     Send, RecordOutcome, FinishRun, RunDies, requests
<1>6. ASSUME NEW r \in Runs, Reconcile(r) PROVE follow.id \in owed[r]
  <2>1. PICK n \in owed[r] : follow' = FailedFollow(n) BY <1>6 DEF Reconcile
  <2>q. QED BY <1>1, <2>1 DEF FailedFollow
<1>7. CASE UNCHANGED vars BY <1>1, <1>7 DEF vars, requests
<1>q. QED BY <1>1, <1>2, <1>3, <1>4, <1>5, <1>6, <1>7 DEF Next

FailedInv ==
    /\ TypeOK /\ Numbering
    /\ \A r \in Runs : Once(r)
    /\ ~RunsOutliveLease => \A n \in Ids \ retried : Sole(n)
    /\ FailedFollowIsTerminal

(* A follow that is shown as failed was failed by a run that owed the      *)
(* news, and the failure it stands for is still on record.                 *)
LEMMA FailedStep == FailedInv /\ [Next]_vars => FailedInv'
<1> SUFFICES ASSUME FailedInv, [Next]_vars PROVE FailedInv' OBVIOUS
<1>1. TypeOK' /\ Numbering' /\ (\A r \in Runs : Once(r))'
  BY TypeStep, NumberingStep, OnceStep DEF FailedInv
<1>2. retried \subseteq retried'
  <2>1. CASE UNCHANGED vars BY <2>1 DEF vars, limits
  <2>2. CASE Elsewhere
    <3>1. \A n \in Ids : n \in retried => n \in retried' BY <2>2, RowsKept DEF RowKept, FailedInv
    <3>q. QED BY <3>1 DEF FailedInv, TypeOK
  <2>3. ASSUME NEW c \in Clients, ClientStep(c) PROVE retried' = retried
    BY <2>3, RowsOfRequests DEF FailedInv
  <2>q. QED BY <2>1, <2>2, <2>3, StepKinds
<1>3. ASSUME ~RunsOutliveLease, NEW n \in Ids, n \notin retried'
      PROVE  Sole(n) /\ Sole(n)' /\ (row[n].st = "failed" => row'[n].st = "failed")
  <2>1. Sole(n) BY <1>2, <1>3 DEF FailedInv
  <2>q. QED BY <1>3, <2>1, SoleStep DEF FailedInv
<1>4. ASSUME ~RunsOutliveLease, follow'.st = "failed", follow'.id \notin retried'
      PROVE  row'[follow'.id].st = "failed"
  <2>0. follow \in FollowType /\ follow' \in FollowType /\ (follow'.id = 0 => follow' = NoFollow)
    BY <1>1 DEF FailedInv, TypeOK, FollowType
  <2>1. follow'.id \in Ids BY <1>4, <2>0 DEF FollowType, NoFollow
  <2>2. CASE follow' = follow
    BY <1>2, <1>3, <1>4, <2>1, <2>2 DEF FailedInv, FailedFollowIsTerminal
  <2>3. CASE follow.st = "pending" /\ follow' = [follow EXCEPT !.st = "failed"]
    <3>1. follow'.id = follow.id /\ follow' # follow BY <2>0, <2>3 DEF FollowType
    <3>2. PICK r \in Runs : Reconcile(r) /\ follow.id \in owed[r]
      BY <2>3, <3>1, FailedBy DEF FailedInv
    <3>3. row[follow.id].st = "failed" BY <1>3, <1>4, <2>1, <3>1, <3>2 DEF Sole
    <3>q. QED BY <1>3, <1>4, <2>1, <3>1, <3>3
  <2>4. CASE \E c \in Clients : UpsertFollow(c)
    <3>1. follow'.st # "failed" BY <2>4 DEF UpsertFollow
    <3>q. QED BY <1>4, <3>1
  <2>5. CASE follow' = NoFollow BY <1>4, <2>5 DEF NoFollow
  <2>6. ASSUME NEW answer \in {"accepted", "rejected"}, follow' = [follow EXCEPT !.st = answer]
        PROVE  FALSE
    BY <1>4, <2>0, <2>6 DEF FollowType
  <2>7. CASE UNCHANGED vars BY <2>2, <2>7 DEF vars, requests
  <2>q. QED BY <2>2, <2>3, <2>4, <2>5, <2>6, <2>7, FollowChange DEF FailedInv
<1>q. QED BY <1>1, <1>3, <1>4 DEF FailedInv, FailedFollowIsTerminal

(* Nothing has been sent at first.                                         *)
LEMMA FailedInit == Init => FailedInv
<1>1. Init => \A r \in Runs : Once(r) BY DEF Init, Once
<1>2. Init => \A n \in Ids : Sole(n) BY DEF Init, Sole, HeldBy
<1>3. Init => FailedFollowIsTerminal BY DEF Init, NoFollow, FailedFollowIsTerminal
<1>q. QED BY <1>1, <1>2, <1>3, TypeInit, NumberingInit DEF FailedInv

(* A follow is shown as failed only while its Follow has failed for good:  *)
(* the state a run reconciles with is the state of a row that it alone     *)
(* worked on and that nobody has reopened since, except an administrator.  *)
THEOREM FailedIsTerminal == Spec => []FailedFollowIsTerminal
<1>1. FailedInv => FailedFollowIsTerminal BY DEF FailedInv
<1>q. QED BY <1>1, FailedInit, FailedStep, PTL DEF Spec

-----------------------------------------------------------------------------
(* What is on record happened: an id that was not drawn has no row, no job *)
(* and no history, and a job that is a success has got to the actor.       *)
Recorded ==
    /\ \A n \in Ids : row[n].st = "absent" =>
         row[n].type = "none" /\ n \notin reached /\ n \notin retried
    /\ \A r \in Runs : \A j \in jobs[r] :
         row[j.id].st # "absent" /\ (j.ph = "ok" => j.id \in reached)

(* A row, once written, is never removed.                                  *)
LEMMA WrittenStays ==
    ASSUME TypeOK, [Next]_vars, NEW n \in Ids
    PROVE  /\ row'[n].st = "absent" => row[n].st = "absent" /\ row'[n].type = row[n].type
           /\ n \in retried' /\ n \notin retried => row[n].st # "absent"
<1>1. CASE Elsewhere
  <2>1. RowKept(n) BY <1>1, RowsKept
  <2>2. n \in retried' /\ n \notin retried => row[n].st # "absent"
    <3>1. ASSUME NEW i \in Ids, AdminRetry(i) PROVE n = i \/ retried' = retried \cup {i}
      BY <3>1 DEF AdminRetry
    <3>2. ASSUME NEW i \in Ids, AdminRetry(i), n \in retried', n \notin retried
          PROVE  row[n].st # "absent"
      BY <3>2 DEF AdminRetry
    <3>3. ASSUME ~(\E i \in Ids : AdminRetry(i)) PROVE retried' = retried
      BY <1>1, <3>3 DEF Elsewhere, ToggleBlock, Age, Hear, Start, RunStep, RequeueStale,
         Reconcile, Claim, CheckBlocks, FailBlocked, Send, RecordOutcome, FinishRun,
         RunDies, limits
    <3>q. QED BY <3>2, <3>3
  <2>q. QED BY <2>1, <2>2 DEF RowKept
<1>2. ASSUME NEW c \in Clients, ClientStep(c)
      PROVE  /\ row'[n].st = "absent" => row'[n] = row[n]
             /\ retried' = retried
  BY <1>2, RowsOfRequests
<1>3. CASE UNCHANGED vars BY <1>3 DEF vars, limits
<1>q. QED BY <1>1, <1>2, <1>3, StepKinds

(* The actor's server forgets nothing, and gets what a run sends.          *)
LEMMA ReachedGrows ==
    ASSUME TypeOK, [Next]_vars
    PROVE  /\ reached \subseteq reached'
           /\ \A n \in reached' \ reached : \E r \in Runs : Send(r) /\ HeldBy(r, n)
<1> DEFINE Goal == /\ reached \subseteq reached'
                   /\ \A n \in reached' \ reached : \E r \in Runs : Send(r) /\ HeldBy(r, n)
<1>1. ASSUME NEW c \in Clients, ClientStep(c) PROVE reached' = reached
  BY <1>1 DEF ClientStep, QueueFollow, UpsertFollow, LoadFollow, QueueUndo, DeleteFollow,
     ClientDies, history
<1>2. ASSUME ToggleBlock \/ \E n \in Ids : \/ AdminRetry(n) \/ Age(n)
                                         \/ Hear(n, "accepted") \/ Hear(n, "rejected")
      PROVE  reached' = reached
  BY <1>2 DEF ToggleBlock, AdminRetry, Age, Hear, history
<1>3. ASSUME NEW r \in Runs, Start(r) \/ RunStep(r) \/ RunDies(r), ~Send(r)
      PROVE  reached' = reached
  BY <1>3 DEF RunStep, Start, RequeueStale, Reconcile, Claim, CheckBlocks, FailBlocked,
     RecordOutcome, FinishRun, RunDies, history
<1>4. ASSUME NEW r \in Runs, Send(r) PROVE Goal
  <2>1. PICK j \in jobs[r] : reached' = reached \/ reached' = reached \cup {j.id}
    BY <1>4 DEF Send
  <2>q. QED BY <1>4, <2>1 DEF HeldBy
<1>5. CASE UNCHANGED vars BY <1>5 DEF vars, history
<1>q. QED BY <1>1, <1>2, <1>3, <1>4, <1>5 DEF Next, RunStep

(* Every step leaves the record true.                                      *)
LEMMA RecordedStep == TypeOK /\ Recorded /\ [Next]_vars => Recorded'
<1> SUFFICES ASSUME TypeOK, Recorded, [Next]_vars PROVE Recorded' OBVIOUS
<1>0. /\ jobs \in [Runs -> SUBSET JobType] BY DEF TypeOK, JobType
<1>1. ASSUME NEW n \in Ids, row'[n].st = "absent"
      PROVE  row'[n].type = "none" /\ n \notin reached' /\ n \notin retried'
  <2>1. row[n].st = "absent" /\ row'[n].type = row[n].type
    BY <1>1, WrittenStays
  <2>2. n \notin retried' BY <2>1, WrittenStays DEF Recorded
  <2>3. \A r \in Runs : ~HeldBy(r, n) BY <2>1 DEF Recorded, HeldBy
  <2>4. n \notin reached' BY <2>1, <2>3, ReachedGrows DEF Recorded
  <2>q. QED BY <2>1, <2>2, <2>4 DEF Recorded
<1> DEFINE True(j) == row[j.id].st # "absent" /\ (j.ph = "ok" => j.id \in reached)
<1>k. ASSUME NEW j \in JobType, True(j) PROVE True(j)'
  <2>1. j.id \in Ids BY DEF JobType
  <2>2. row'[j.id].st # "absent" BY <1>k, <2>1, WrittenStays
  <2>3. reached \subseteq reached' BY ReachedGrows
  <2>q. QED BY <1>k, <2>2, <2>3
<1>t. ASSUME NEW r \in Runs, NEW j \in jobs[r] PROVE j \in JobType /\ True(j)
  BY <1>0 DEF Recorded
<1> DEFINE Goal == \A r \in Runs : \A j \in jobs'[r] : True(j)'
<1>2. ASSUME \A q \in Runs : jobs'[q] \subseteq jobs[q] PROVE Goal
  BY <1>2, <1>k, <1>t
<1>3. ASSUME NEW r \in Runs, Claim(r) PROVE Goal
  <2>1. PICK T \in Claimable({n \in Ids : Due(n)}) :
           jobs' = [jobs EXCEPT ![r] =
                     {[id |-> n, att |-> row[n].att, ph |-> "claimed"] : n \in T}]
    BY <1>3 DEF Claim
  <2>2. \A q \in Runs \ {r} : jobs'[q] = jobs[q] BY <1>0, <2>1
  <2>3. ASSUME NEW j \in jobs'[r] PROVE True(j)'
    <3>1. PICK n \in T : j = [id |-> n, att |-> row[n].att, ph |-> "claimed"]
      BY <1>0, <2>1
    <3>2. n \in Ids /\ row[n].st = "queued" BY DEF Claimable, Due
    <3>3. row'[n].st # "absent" BY <3>2, WrittenStays
    <3>q. QED BY <3>1, <3>3
  <2>q. QED BY <1>k, <1>t, <2>2, <2>3
<1>4. ASSUME NEW r \in Runs, CheckBlocks(r) PROVE Goal
  <2>1. PICK view \in BlockViews : jobs' = [jobs EXCEPT ![r] =
                   {[j EXCEPT !.ph = IF view THEN "blocked" ELSE "todo"] : j \in jobs[r]}]
    BY <1>4 DEF CheckBlocks
  <2>2. \A q \in Runs \ {r} : jobs'[q] = jobs[q] BY <1>0, <2>1
  <2>3. ASSUME NEW j \in jobs'[r] PROVE True(j)'
    <3>1. PICK i \in jobs[r] : j = [i EXCEPT !.ph = IF view THEN "blocked" ELSE "todo"]
      BY <1>0, <2>1
    <3>2. i \in JobType /\ True(i)' BY <1>k, <1>t
    <3>3. j.id = i.id /\ j.ph # "ok" BY <3>1, <3>2 DEF JobType
    <3>q. QED BY <3>2, <3>3
  <2>q. QED BY <1>k, <1>t, <2>2, <2>3
<1>5. ASSUME NEW r \in Runs, Send(r) PROVE Goal
  <2>1. PICK i \in jobs[r], answer \in Seen :
           /\ jobs' = [jobs EXCEPT ![r] = (@ \ {i}) \cup {[i EXCEPT !.ph = OutcomeOf(answer)]}]
           /\ reached' = IF Reaches(answer) THEN reached \cup {i.id} ELSE reached
    BY <1>5 DEF Send
  <2>2. \A q \in Runs \ {r} : jobs'[q] = jobs[q] BY <1>0, <2>1
  <2>3. i \in JobType /\ True(i)' BY <1>k, <1>t
  <2> DEFINE sent == [i EXCEPT !.ph = OutcomeOf(answer)]
  <2>4. sent.id = i.id /\ sent.ph = OutcomeOf(answer) BY <2>3 DEF JobType
  <2>5. OutcomeOf(answer) = "ok" => Reaches(answer)
    BY FollowAssumption DEF OutcomeOf, Reaches, Answers
  <2>6. True(sent)' BY <2>1, <2>3, <2>4, <2>5
  <2>7. jobs'[r] = (jobs[r] \ {i}) \cup {sent} BY <1>0, <2>1
  <2> HIDE DEF sent
  <2>8. \A j \in jobs'[r] : True(j)' BY <1>k, <1>t, <2>6, <2>7
  <2>q. QED BY <1>k, <1>t, <2>2, <2>8
<1>6. ASSUME NEW r \in Runs, FailBlocked(r) \/ RecordOutcome(r) \/ RunDies(r)
      PROVE  \A q \in Runs : jobs'[q] \subseteq jobs[q]
  <2>1. CASE RunDies(r) BY <1>0, <2>1 DEF RunDies
  <2>2. CASE FailBlocked(r) \/ RecordOutcome(r)
    <3>1. \E j \in jobs[r] : jobs' = [jobs EXCEPT ![r] = jobs[r] \ {j}]
      BY <2>2 DEF FailBlocked, RecordOutcome, Close
    <3>q. QED BY <1>0, <3>1
  <2>q. QED BY <1>6, <2>1, <2>2
<1>7. ASSUME \/ \E r \in Runs : Start(r) \/ RequeueStale(r) \/ Reconcile(r) \/ FinishRun(r)
             \/ ToggleBlock
             \/ \E n \in Ids : \/ AdminRetry(n) \/ Age(n)
                               \/ Hear(n, "accepted") \/ Hear(n, "rejected")
             \/ UNCHANGED vars
      PROVE  jobs' = jobs
  BY <1>7 DEF Start, RequeueStale, Reconcile, FinishRun, ToggleBlock, AdminRetry, Age, Hear,
     vars, workers
<1>8. ASSUME NEW c \in Clients, ClientStep(c) PROVE jobs' = jobs BY <1>8, RowsOfRequests
<1> HIDE DEF True
<1>9. Goal
  <2> HIDE DEF Goal
  <2>1. ASSUME jobs' = jobs PROVE Goal BY <1>2, <2>1
  <2>q. QED BY <1>2, <1>3, <1>4, <1>5, <1>6, <1>7, <1>8, <2>1 DEF Next, RunStep
<1>q. QED BY <1>1, <1>9 DEF Recorded, True

-----------------------------------------------------------------------------
(* The steps of the handshake.                                             *)
PactStep == Pact!Next \/ UNCHANGED <<follow, Fates, Waiting, Got, Revived>>

(* What a Follow has come to is told by its row.                           *)
FateKept(n) == FateOf(n)' = FateOf(n)

(* If no Follow's fate changes, nothing does.                              *)
LEMMA FatesKept == ASSUME \A n \in Ids : FateKept(n) PROVE Fates' = Fates
  BY DEF Fates, FateKept

(* A row left alone tells the same.                                        *)
LEMMA RowKeepsFate == ASSUME NEW n \in Ids, row'[n] = row[n] PROVE FateKept(n)
  BY DEF FateKept, FateOf, IsFollow

(* What a step that is not a request's leaves alone.                       *)
LEMMA PactElsewhere ==
    ASSUME TypeOK, Elsewhere
    PROVE  /\ \A n \in Ids : IsFollow(n)' = IsFollow(n)
           /\ Waiting' = Waiting
           /\ Got' = {n \in reached' : IsFollow(n)}
           /\ Revived' = {n \in retried' : IsFollow(n)}
<1>1. \A n \in Ids : row'[n].type = row[n].type BY RowsKept DEF RowKept
<1>2. Waiting' = Waiting BY ElsewhereIds DEF Waiting, Upserts
<1>3. reached' \subseteq Ids /\ retried' \subseteq Ids
  <2>1. TypeOK' BY TypeStep, StepKinds
  <2>q. QED BY <2>1 DEF TypeOK
<1>q. QED BY <1>1, <1>2, <1>3 DEF Got, Revived, FollowsAmong, IsFollow

(* The queueing of an activity: the id is fresh.                           *)
LEMMA PactEnqueue ==
    ASSUME TypeOK, Numbering, Recorded, NEW n \in Ids, n = used + 1, used' = n,
           NEW type \in {"Follow", "Undo"}, Enqueue(used', type), UNCHANGED <<reached, retried>>
    PROVE  /\ FateOf(n) = "unasked"
           /\ Fates' = [Fates EXCEPT ![n] = IF type = "Follow" THEN "asked" ELSE "unasked"]
           /\ UNCHANGED <<Got, Revived>>
<1>0. row \in [Ids -> RowType] /\ reached \subseteq Ids /\ retried \subseteq Ids
  BY DEF TypeOK, RowType, States
<1>1. n > used BY FollowAssumption DEF TypeOK
<1>2. row[n].st = "absent" BY <1>1 DEF Numbering
<1>3. row[n].type = "none" /\ n \notin reached /\ n \notin retried BY <1>2 DEF Recorded
<1>4. row' = [row EXCEPT ![n] = [type |-> type, st |-> "queued", att |-> 0, ripe |-> TRUE]]
  BY DEF Enqueue
<1>5. \A i \in Ids : i # n => row'[i] = row[i] BY <1>0, <1>4
<1>6. row'[n].type = type /\ row'[n].st = "queued" BY <1>0, <1>4
<1>7. FateOf(n) = "unasked" BY <1>3 DEF FateOf, IsFollow
<1>8. FateOf(n)' = IF type = "Follow" THEN "asked" ELSE "unasked"
  BY <1>6 DEF FateOf, IsFollow
<1>9. \A i \in Ids : i # n => FateOf(i)' = FateOf(i)
  BY <1>5, RowKeepsFate DEF FateKept
<1>10. Fates' = [Fates EXCEPT ![n] = IF type = "Follow" THEN "asked" ELSE "unasked"]
  BY <1>8, <1>9 DEF Fates
<1>11. UNCHANGED <<Got, Revived>>
  BY <1>0, <1>3, <1>5 DEF Got, Revived, FollowsAmong
<1>q. QED BY <1>7, <1>10, <1>11

(* The steps of a request.                                                 *)
LEMMA PactByClient ==
    ASSUME TypeOK, Numbering, Recorded, NEW c \in Clients, ClientStep(c)
    PROVE  PactStep
<1>0. /\ client \in [Clients -> ClientType] /\ used \in 0 .. MaxIds
  BY DEF TypeOK, ClientType
<1>1. CASE QueueFollow(c)
  <2>0. PICK n \in Ids : n = used + 1 BY <1>0, <1>1, NextId DEF QueueFollow
  <2>1. /\ used' = n /\ Enqueue(used', "Follow")
        /\ client' = [client EXCEPT ![c] = [at |-> "upsert", id |-> n]]
        /\ client[c] = Idle
        /\ UNCHANGED <<follow, reached, retried>>
    BY <1>1, <2>0 DEF QueueFollow, history, limits
  <2>2. /\ FateOf(n) = "unasked" /\ Fates' = [Fates EXCEPT ![n] = "asked"]
        /\ UNCHANGED <<Got, Revived>>
    BY <2>0, <2>1, PactEnqueue
  <2>3. \A d \in Clients, i \in Ids : Upserts(d, i)' <=> Upserts(d, i) \/ (d = c /\ i = n)
    <3>1. \A d \in Clients \ {c} : client'[d] = client[d] BY <1>0, <2>1
    <3>2. client'[c] = [at |-> "upsert", id |-> n] BY <1>0, <2>1
    <3>q. QED BY <2>1, <3>1, <3>2 DEF Upserts, Idle
  <2>4. Waiting' = Waiting \cup {n} BY <2>2, <2>3 DEF Waiting
  <2>5. Fates[n] = "unasked" BY <2>2 DEF Fates
  <2>6. Pact!Ask(n) BY <2>1, <2>2, <2>4, <2>5 DEF Pact!Ask
  <2>q. QED BY <2>2, <2>6 DEF PactStep, Pact!Next
<1>2. CASE UpsertFollow(c)
  <2> DEFINE n == client[c].id
  <2>1. /\ client[c].at = "upsert"
        /\ \E st \in {"pending", "accepted"} : follow' = [id |-> n, st |-> st]
        /\ client' = [client EXCEPT ![c] = Idle]
        /\ UNCHANGED <<row, reached, retried>>
    BY <1>2 DEF UpsertFollow, limits
  <2>2. n \in Ids BY <2>1 DEF TypeOK
  <2>3. \A i \in Ids : Upserts(c, i) <=> i = n BY <2>1 DEF Upserts
  <2>4. \A d \in Clients, i \in Ids : Upserts(d, i)' <=> Upserts(d, i) /\ d # c
    <3>1. \A d \in Clients \ {c} : client'[d] = client[d] BY <1>0, <2>1
    <3>2. client'[c] = Idle BY <1>0, <2>1
    <3>q. QED BY <3>1, <3>2 DEF Upserts, Idle
  <2>5. \A d \in Clients : Upserts(d, n) => d = c BY <2>2, <2>3 DEF Numbering
  <2> HIDE DEF n
  <2>6. n \in Waiting /\ Waiting' = Waiting \ {n}
    BY <2>2, <2>3, <2>4, <2>5 DEF Waiting
  <2>7. UNCHANGED <<Fates, Got, Revived>>
    BY <2>1 DEF Fates, FateOf, IsFollow, Got, Revived, FollowsAmong
  <2>8. Pact!Stand(n) BY <2>1, <2>6, <2>7 DEF Pact!Stand
  <2>q. QED BY <2>2, <2>8 DEF PactStep, Pact!Next
<1>3. CASE ClientDies(c) /\ client[c].at = "upsert"
  <2> DEFINE n == client[c].id
  <2>1. /\ client[c].at = "upsert"
        /\ client' = [client EXCEPT ![c] = Idle]
        /\ UNCHANGED <<follow, row, reached, retried>>
    BY <1>3 DEF ClientDies, history
  <2>2. n \in Ids BY <2>1 DEF TypeOK
  <2>3. \A i \in Ids : Upserts(c, i) <=> i = n BY <2>1 DEF Upserts
  <2>4. \A d \in Clients, i \in Ids : Upserts(d, i)' <=> Upserts(d, i) /\ d # c
    <3>1. \A d \in Clients \ {c} : client'[d] = client[d] BY <1>0, <2>1
    <3>2. client'[c] = Idle BY <1>0, <2>1
    <3>q. QED BY <3>1, <3>2 DEF Upserts, Idle
  <2>5. \A d \in Clients : Upserts(d, n) => d = c BY <2>2, <2>3 DEF Numbering
  <2> HIDE DEF n
  <2>6. n \in Waiting /\ Waiting' = Waiting \ {n}
    BY <2>2, <2>3, <2>4, <2>5 DEF Waiting
  <2>7. UNCHANGED <<Fates, Got, Revived>>
    BY <2>1 DEF Fates, FateOf, IsFollow, Got, Revived, FollowsAmong
  <2>8. Pact!Forget(n) BY <2>1, <2>6, <2>7 DEF Pact!Forget
  <2>q. QED BY <2>2, <2>8 DEF PactStep, Pact!Next
<1>w. ASSUME client[c].at # "upsert", client'[c].at # "upsert",
             \A d \in Clients \ {c} : client'[d] = client[d]
      PROVE  Waiting' = Waiting
  BY <1>w DEF Waiting, Upserts
<1>4. CASE LoadFollow(c) \/ (ClientDies(c) /\ client[c].at # "upsert")
  <2>1. /\ UNCHANGED <<follow, row, reached, retried>>
        /\ client[c].at # "upsert"
        /\ \A d \in Clients \ {c} : client'[d] = client[d]
    BY <1>0, <1>4 DEF LoadFollow, ClientDies, history, limits, Idle
  <2>2. client'[c].at # "upsert" BY <1>0, <1>4 DEF LoadFollow, ClientDies, Idle
  <2>3. Waiting' = Waiting BY <1>w, <2>1, <2>2
  <2>4. UNCHANGED <<Fates, Got, Revived>>
    BY <2>1 DEF Fates, FateOf, IsFollow, Got, Revived, FollowsAmong
  <2>q. QED BY <2>1, <2>3, <2>4 DEF PactStep
<1>5. CASE QueueUndo(c)
  <2>1. /\ client[c].at = "undo" /\ client' = [client EXCEPT ![c].at = "delete"]
        /\ UNCHANGED <<follow, reached, retried>>
        /\ \/ UNCHANGED <<row, used>>
           \/ used < MaxIds /\ used' = used + 1 /\ Enqueue(used', "Undo")
    BY <1>5 DEF QueueUndo, history, limits
  <2>2. client'[c].at = "delete" BY <1>0, <2>1 DEF ClientType
  <2>3. \A d \in Clients \ {c} : client'[d] = client[d] BY <1>0, <2>1
  <2>4. Waiting' = Waiting BY <1>w, <2>1, <2>2, <2>3
  <2>5. UNCHANGED <<Fates, Got, Revived>>
    <3>1. CASE UNCHANGED <<row, used>>
      BY <2>1, <3>1 DEF Fates, FateOf, IsFollow, Got, Revived, FollowsAmong
    <3>2. CASE used < MaxIds /\ used' = used + 1 /\ Enqueue(used', "Undo")
      <4>0. PICK n \in Ids : n = used + 1 BY <1>0, <3>2, NextId
      <4>1. /\ FateOf(n) = "unasked" /\ Fates' = [Fates EXCEPT ![n] = "unasked"]
            /\ UNCHANGED <<Got, Revived>>
        BY <2>1, <3>2, <4>0, PactEnqueue
      <4>2. Fates' = Fates BY <4>1 DEF Fates
      <4>q. QED BY <4>1, <4>2
    <3>q. QED BY <2>1, <3>1, <3>2
  <2>q. QED BY <2>1, <2>4, <2>5 DEF PactStep
<1>6. CASE DeleteFollow(c)
  <2>1. /\ client[c].at = "delete" /\ follow' = NoFollow
        /\ client' = [client EXCEPT ![c] = Idle]
        /\ UNCHANGED <<row, reached, retried>>
    BY <1>6 DEF DeleteFollow, history, limits
  <2>2. client'[c].at # "upsert" BY <1>0, <2>1 DEF Idle
  <2>3. \A d \in Clients \ {c} : client'[d] = client[d] BY <1>0, <2>1
  <2>4. Waiting' = Waiting BY <1>w, <2>1, <2>2, <2>3
  <2>5. UNCHANGED <<Fates, Got, Revived>>
    BY <2>1 DEF Fates, FateOf, IsFollow, Got, Revived, FollowsAmong
  <2>6. Pact!Withdraw BY <2>1, <2>4, <2>5 DEF Pact!Withdraw, Pact!Nobody, NoFollow
  <2>q. QED BY <2>6 DEF PactStep, Pact!Next
<1>q. QED BY <1>1, <1>2, <1>3, <1>4, <1>5, <1>6 DEF ClientStep

(* A closed delivery settles its Follow, fails it or leaves it as it is.   *)
LEMMA PactByClose ==
    ASSUME TypeOK, Recorded, Elsewhere, NEW r \in Runs, NEW j \in jobs[r],
           NEW st \in {"queued", "delivered", "failed"}, NEW att, Close(r, j, st, att),
           st = "delivered" => j.ph = "ok",
           UNCHANGED <<follow, reached, retried>>
    PROVE  PactStep
<1>0. /\ row \in [Ids -> RowType] /\ j \in JobType
      /\ reached \subseteq Ids /\ retried \subseteq Ids
  BY DEF TypeOK, RowType, States, JobType
<1> DEFINE n == j.id
<1>1. n \in Ids /\ row[n] \in RowType BY <1>0 DEF JobType
<1>2. UNCHANGED <<follow, Waiting, Got, Revived>>
  BY <1>0, PactElsewhere DEF Got, Revived, FollowsAmong, IsFollow
<1>3. row' = Mark(n, st, att) BY DEF Close
<1>4. j.ph = "ok" => n \in reached BY DEF Recorded
<1> HIDE DEF n
<1>5. \A i \in Ids : i # n => FateKept(i) BY <1>0, <1>3, RowKeepsFate DEF Mark
<1>6. CASE row[n].st = "in_flight" /\ IsFollow(n) /\ st # "queued"
  <2>1. row' = [row EXCEPT ![n] = [row[n] EXCEPT !.st = st, !.att = att, !.ripe = FALSE]]
    BY <1>3, <1>6 DEF Mark
  <2>2. row'[n] = [row[n] EXCEPT !.st = st, !.att = att, !.ripe = FALSE]
    BY <1>0, <1>1, <2>1
  <2>3. row'[n].type = "Follow" /\ row'[n].st = st BY <1>1, <1>6, <2>2 DEF RowType, IsFollow
  <2>4. FateOf(n) = "asked" BY <1>6 DEF FateOf
  <2>5. row'[n].type = "Follow" /\ st \in {"delivered", "failed"} BY <1>6, <2>3
  <2>6. \A i \in Ids : Fates[i] = FateOf(i) /\ Fates'[i] = FateOf(i)' BY DEF Fates
  <2>7. CASE st = "delivered"
    <3>1. row'[n].st = "delivered" BY <2>3, <2>7
    <3>2. row[n].type = "Follow" BY <1>6 DEF IsFollow
    <3>3. \A i \in Ids : Fates'[i] = IF i = n THEN "delivered" ELSE Fates[i]
      <4>1. Fates'[n] = "delivered" BY <1>1, <2>3, <3>1 DEF Fates, FateOf, IsFollow
      <4>q. QED BY <1>5, <2>6, <4>1 DEF FateKept
    <3>4. Fates' = [Fates EXCEPT ![n] = "delivered"] BY <3>3 DEF Fates
    <3>5. n \in Got BY <1>1, <1>4, <2>7, <3>2 DEF Got, FollowsAmong
    <3>6. Fates[n] = "asked" BY <1>1, <2>4, <2>6
    <3>7. Pact!Deliver(n) BY <1>2, <3>4, <3>5, <3>6 DEF Pact!Deliver
    <3>q. QED BY <1>1, <3>7 DEF PactStep, Pact!Next
  <2>8. CASE st = "failed"
    <3>1. row'[n].st = "failed" BY <2>3, <2>8
    <3>2. Fates'[n] = "failed" BY <1>1, <2>3, <3>1 DEF Fates, FateOf, IsFollow
    <3>3. \A i \in Ids : Fates'[i] = IF i \in {n} THEN "failed" ELSE Fates[i]
      BY <1>5, <2>6, <3>2 DEF FateKept
    <3>4. Fates' = [i \in Ids |-> IF i \in {n} THEN "failed" ELSE Fates[i]] BY <3>3 DEF Fates
    <3>5. \A i \in {n} : Fates[i] = "asked" BY <1>1, <2>4, <2>6
    <3>6. Pact!Fail({n}) BY <1>2, <3>4, <3>5 DEF Pact!Fail
    <3>q. QED BY <1>1, <3>6 DEF PactStep, Pact!Next
  <2>q. QED BY <2>5, <2>7, <2>8
<1>7. CASE ~(row[n].st = "in_flight" /\ IsFollow(n) /\ st # "queued")
  <2>1. Fates'[n] = Fates[n]
    <3>1. CASE row[n].st # "in_flight"
      <4>1. row' = row BY <1>3, <3>1 DEF Mark
      <4>q. QED BY <4>1 DEF Fates, FateOf, IsFollow
    <3>2. CASE row[n].st = "in_flight"
      <4>1. row' = [row EXCEPT ![n] = [row[n] EXCEPT !.st = st, !.att = att, !.ripe = FALSE]]
        BY <1>3, <3>2 DEF Mark
      <4>2. row'[n] = [row[n] EXCEPT !.st = st, !.att = att, !.ripe = FALSE]
        BY <1>0, <1>1, <4>1
      <4>3. row'[n].type = row[n].type /\ row'[n].st = st BY <1>1, <4>2 DEF RowType
      <4>4. CASE ~IsFollow(n) BY <1>1, <4>3, <4>4 DEF Fates, FateOf, IsFollow
      <4>5. CASE IsFollow(n)
        <5>1. st = "queued" BY <1>7, <3>2, <4>5
        <5>2. row[n].type = "Follow" BY <4>5 DEF IsFollow
        <5>3. row'[n].type = "Follow" /\ row'[n].st = "queued" BY <4>3, <5>1, <5>2
        <5>q. QED BY <1>1, <3>2, <5>2, <5>3 DEF Fates, FateOf, IsFollow
      <4>q. QED BY <4>4, <4>5
    <3>q. QED BY <3>1, <3>2
  <2>2. \A i \in Ids : Fates[i] = FateOf(i) /\ Fates'[i] = FateOf(i)' BY DEF Fates
  <2>3. \A i \in Ids : FateKept(i) BY <1>5, <2>1, <2>2 DEF FateKept
  <2>q. QED BY <1>2, <2>3, FatesKept DEF PactStep
<1>q. QED BY <1>6, <1>7

(* The stale rows that have spent their attempts fail.                     *)
LEMMA PactByRequeue ==
    ASSUME TypeOK, NEW r \in Runs, RequeueStale(r)
    PROVE  PactStep
<1>0. /\ row \in [Ids -> RowType] /\ reached \subseteq Ids /\ retried \subseteq Ids
  BY DEF TypeOK, RowType, States
<1>1. Elsewhere BY DEF Elsewhere, RunStep
<1>2. UNCHANGED <<follow, reached, retried>>
  BY DEF RequeueStale, requests, history, limits
<1>3. UNCHANGED <<Waiting, Got, Revived>>
  BY <1>0, <1>1, <1>2, PactElsewhere DEF Got, Revived, FollowsAmong, IsFollow
<1>4. ASSUME NEW n \in Ids, n \notin Reported PROVE FateKept(n)
  <2>1. CASE ~Stale(n)
    <3>1. row'[n] = row[n] BY <2>1 DEF RequeueStale
    <3>q. QED BY <3>1, RowKeepsFate
  <2>2. CASE Stale(n) /\ ~IsFollow(n)
    <3>1. ~IsFollow(n)' BY <1>1, <2>2, PactElsewhere
    <3>q. QED BY <2>2, <3>1 DEF FateKept, FateOf
  <2>3. CASE Stale(n) /\ IsFollow(n)
    <3> DEFINE next == NextAttempt(row[n].att)
    <3>1. ~IsTerminal(next) BY <1>4, <2>3 DEF Reported, FollowsAmong, IsFollow
    <3>2. row'[n] = [row[n] EXCEPT !.st = Requeued(next).st, !.att = next,
                                   !.ripe = Requeued(next).ripe]
      BY <2>3 DEF RequeueStale
    <3>3. Requeued(next).st = "queued" BY <3>1 DEF Requeued
    <3> HIDE DEF next
    <3>4. row'[n].st = "queued" BY <1>0, <3>2, <3>3 DEF RowType
    <3>5. row'[n].type = "Follow" BY <1>1, <2>3, PactElsewhere DEF IsFollow
    <3>6. row[n].type = "Follow" /\ row[n].st = "in_flight" BY <2>3 DEF Stale, IsFollow
    <3>q. QED BY <3>4, <3>5, <3>6 DEF FateKept, FateOf, IsFollow
  <2>q. QED BY <2>1, <2>2, <2>3
<1>5. ASSUME NEW n \in Reported PROVE n \in Ids /\ FateOf(n) = "asked" /\ FateOf(n)' = "failed"
  <2> DEFINE next == NextAttempt(row[n].att)
  <2>1. n \in Ids /\ Stale(n) /\ IsFollow(n) /\ IsTerminal(next)
    BY DEF Reported, FollowsAmong, IsFollow
  <2>2. row'[n] = [row[n] EXCEPT !.st = Requeued(next).st, !.att = next,
                                 !.ripe = Requeued(next).ripe]
    BY <2>1 DEF RequeueStale
  <2>3. Requeued(next).st = "failed" BY <2>1 DEF Requeued
  <2> HIDE DEF next
  <2>4. row'[n].st = "failed" BY <1>0, <2>1, <2>2, <2>3 DEF RowType
  <2>5. row'[n].type = "Follow" BY <1>1, <2>1, PactElsewhere DEF IsFollow
  <2>6. row[n].type = "Follow" /\ row[n].st = "in_flight" BY <2>1 DEF Stale, IsFollow
  <2>q. QED BY <2>1, <2>4, <2>5, <2>6 DEF FateOf, IsFollow
<1> DEFINE S == Reported
<1>6. S \subseteq Ids /\ \A n \in S : Fates[n] = "asked" BY <1>5 DEF Fates
<1>7. Fates' = [n \in Ids |-> IF n \in S THEN "failed" ELSE Fates[n]]
  BY <1>4, <1>5 DEF Fates, FateKept
<1> HIDE DEF S
<1>8. Pact!Fail(S) BY <1>2, <1>3, <1>6, <1>7 DEF Pact!Fail
<1>q. QED BY <1>6, <1>8 DEF PactStep, Pact!Next

(* A run that fails a follow knows of a failure on record, or of one that  *)
(* an administrator has put back since.                                    *)
LEMMA PactByReconcile ==
    ASSUME FailedInv, ~RunsOutliveLease, NEW r \in Runs, Reconcile(r)
    PROVE  PactStep
<1>0. /\ TypeOK /\ Numbering /\ Elsewhere
      /\ reached \subseteq Ids /\ retried \subseteq Ids
  BY DEF FailedInv, TypeOK, Elsewhere, RunStep
<1>1. UNCHANGED <<row, reached, retried>> BY DEF Reconcile, limits
<1>2. UNCHANGED <<Fates, Waiting, Got, Revived>>
  BY <1>0, <1>1, PactElsewhere DEF Fates, FateOf, IsFollow, Got, Revived, FollowsAmong
<1>3. PICK n \in owed[r] : follow' = FailedFollow(n) BY DEF Reconcile
<1>4. n \in Ids BY <1>0 DEF TypeOK
<1>5. CASE follow.id = n /\ follow.st = "pending"
  <2>1. follow' = [follow EXCEPT !.st = "failed"] BY <1>3, <1>5 DEF FailedFollow
  <2>2. follow.id # 0 BY <1>4, <1>5, FollowAssumption DEF Ids
  <2>3. row[n].type = "Follow" BY <1>0, <1>5, <2>2 DEF Numbering
  <2>4. n \in retried \/ row[n].st = "failed"
    <3>1. n \notin retried => Sole(n) BY <1>4 DEF FailedInv
    <3>q. QED BY <3>1 DEF Sole
  <2>5. Fates[n] = "failed" \/ n \in Revived
    BY <1>4, <2>3, <2>4 DEF Fates, FateOf, IsFollow, Revived, FollowsAmong
  <2>6. Pact!GiveUp(n) BY <1>2, <1>5, <2>1, <2>5 DEF Pact!GiveUp
  <2>q. QED BY <1>4, <2>6 DEF PactStep, Pact!Next
<1>6. CASE ~(follow.id = n /\ follow.st = "pending")
  BY <1>2, <1>3, <1>6 DEF FailedFollow, PactStep
<1>q. QED BY <1>5, <1>6

(* A POST that gets through brings its Follow to the actor's server.       *)
LEMMA PactBySend ==
    ASSUME TypeOK, NEW r \in Runs, Send(r) PROVE PactStep
<1>0. Elsewhere /\ reached \subseteq Ids /\ retried \subseteq Ids
  BY DEF TypeOK, Elsewhere, RunStep
<1>1. PICK j \in jobs[r] : reached' = reached \/ reached' = reached \cup {j.id}
  BY DEF Send
<1>2. j.id \in Ids BY DEF TypeOK
<1>3. UNCHANGED <<follow, row, retried>> BY DEF Send, requests, limits
<1>4. UNCHANGED <<Fates, Waiting, Revived>>
  BY <1>0, <1>3, PactElsewhere DEF Fates, FateOf, IsFollow, Revived, FollowsAmong
<1>5. Got' = {n \in reached' : IsFollow(n)} BY <1>0, PactElsewhere
<1>6. CASE IsFollow(j.id) /\ reached' = reached \cup {j.id}
  <2>1. Got' = Got \cup {j.id} BY <1>5, <1>6 DEF Got, FollowsAmong, IsFollow
  <2>2. Fates[j.id] # "unasked" BY <1>2, <1>6 DEF Fates, FateOf
  <2>3. Pact!Arrive(j.id) BY <1>3, <1>4, <2>1, <2>2 DEF Pact!Arrive
  <2>q. QED BY <1>2, <2>3 DEF PactStep, Pact!Next
<1>7. CASE ~(IsFollow(j.id) /\ reached' = reached \cup {j.id})
  <2>1. Got' = Got BY <1>1, <1>5, <1>7 DEF Got, FollowsAmong, IsFollow
  <2>q. QED BY <1>3, <1>4, <2>1 DEF PactStep
<1>q. QED BY <1>6, <1>7

(* The other steps of the runs leave every fate alone.                     *)
LEMMA PactByQuietRun ==
    ASSUME TypeOK, NEW r \in Runs,
           Start(r) \/ Claim(r) \/ CheckBlocks(r) \/ FinishRun(r) \/ RunDies(r)
    PROVE  PactStep
<1>0. /\ Elsewhere /\ row \in [Ids -> RowType]
      /\ reached \subseteq Ids /\ retried \subseteq Ids
  BY DEF TypeOK, Elsewhere, RunStep, RowType, States
<1>1. UNCHANGED <<follow, reached, retried>>
  BY DEF Start, Claim, CheckBlocks, FinishRun, RunDies, requests, history, limits
<1>2. UNCHANGED <<Waiting, Got, Revived>>
  BY <1>0, <1>1, PactElsewhere DEF Got, Revived, FollowsAmong, IsFollow
<1>3. ASSUME NEW n \in Ids PROVE FateKept(n)
  <2>1. CASE row' = row BY <2>1, RowKeepsFate
  <2>2. CASE Claim(r)
    <3>1. PICK T \in Claimable({i \in Ids : Due(i)}) :
             row' = [i \in Ids |-> IF i \in T
                      THEN [row[i] EXCEPT !.st = "in_flight", !.ripe = FALSE]
                      ELSE row[i]]
      BY <2>2 DEF Claim
    <3>2. CASE n \in T
      <4>1. row[n].st = "queued" BY <3>2 DEF Claimable, Due
      <4>2. row'[n] = [row[n] EXCEPT !.st = "in_flight", !.ripe = FALSE] BY <3>1, <3>2
      <4>3. row[n] \in RowType BY <1>0
      <4>4. row'[n].type = row[n].type /\ row'[n].st = "in_flight" BY <4>2, <4>3 DEF RowType
      <4>q. QED BY <4>1, <4>4 DEF FateKept, FateOf, IsFollow
    <3>3. CASE n \notin T
      <4>1. row'[n] = row[n] BY <3>1, <3>3
      <4>q. QED BY <4>1, RowKeepsFate
    <3>q. QED BY <3>2, <3>3
  <2>3. Claim(r) \/ row' = row BY DEF Start, CheckBlocks, FinishRun, RunDies
  <2>q. QED BY <2>1, <2>2, <2>3
<1>q. QED BY <1>1, <1>2, <1>3, FatesKept DEF PactStep

(* An answer decides the follow it is an answer to.                        *)
LEMMA PactByAnswer ==
    ASSUME TypeOK, NEW n \in Ids, NEW answer \in {"accepted", "rejected"}, Hear(n, answer)
    PROVE  PactStep
<1>0. /\ Elsewhere /\ reached \subseteq Ids /\ retried \subseteq Ids
  BY DEF TypeOK, Elsewhere
<1>1. /\ UNCHANGED <<row, reached, retried>> /\ follow' = Answered(n, answer)
      /\ n \in reached /\ IsFollow(n)
  BY DEF Hear, limits, IsFollow
<1>2. UNCHANGED <<Fates, Waiting, Got, Revived>>
  BY <1>0, <1>1, PactElsewhere DEF Fates, FateOf, IsFollow, Got, Revived, FollowsAmong
<1>3. n \in Got BY <1>1 DEF Got, FollowsAmong, IsFollow
<1>4. CASE follow.id = n
  <2>1. follow' = [follow EXCEPT !.st = answer] BY <1>1, <1>4 DEF Answered
  <2>2. Pact!Answer(n, answer) BY <1>2, <1>3, <1>4, <2>1 DEF Pact!Answer
  <2>q. QED BY <2>2 DEF PactStep, Pact!Next
<1>5. CASE follow.id # n BY <1>1, <1>2, <1>5 DEF Answered, PactStep
<1>q. QED BY <1>4, <1>5

(* An administrator sends a failed Follow again.                           *)
LEMMA PactByRetry ==
    ASSUME TypeOK, NEW n \in Ids, AdminRetry(n) PROVE PactStep
<1>0. /\ Elsewhere /\ row \in [Ids -> RowType] /\ row[n] \in RowType
      /\ reached \subseteq Ids /\ retried \subseteq Ids
  BY DEF TypeOK, Elsewhere, RowType, States
<1>1. /\ UNCHANGED <<follow, reached>> /\ retried' = retried \cup {n} /\ n \notin retried
      /\ row[n].st = "failed"
      /\ row' = [row EXCEPT ![n] = [row[n] EXCEPT !.st = "queued", !.ripe = TRUE]]
  BY DEF AdminRetry, requests, history
<1>2. row'[n] = [row[n] EXCEPT !.st = "queued", !.ripe = TRUE] BY <1>0, <1>1
<1>3. row'[n].type = row[n].type /\ row'[n].st = "queued" BY <1>0, <1>2 DEF RowType
<1>4. \A i \in Ids : i # n => FateKept(i) BY <1>0, <1>1, RowKeepsFate
<1>5. UNCHANGED <<Waiting, Got>>
  BY <1>0, <1>1, PactElsewhere DEF Got, FollowsAmong, IsFollow
<1>6. Revived' = {i \in retried' : IsFollow(i)} BY <1>0, PactElsewhere
<1>7. CASE IsFollow(n)
  <2>1. Revived' = Revived \cup {n} /\ n \notin Revived
    BY <1>1, <1>6, <1>7 DEF Revived, FollowsAmong, IsFollow
  <2>2. FateOf(n) = "failed" BY <1>1, <1>7 DEF FateOf
  <2>3. row'[n].type = "Follow" BY <1>3, <1>7 DEF IsFollow
  <2>4. FateOf(n)' = "asked" BY <1>3, <2>3 DEF FateOf, IsFollow
  <2>5. Fates[n] = "failed" BY <2>2 DEF Fates
  <2>6. Fates' = [Fates EXCEPT ![n] = "asked"] BY <1>4, <2>4 DEF Fates, FateKept
  <2>7. Pact!Revive(n) BY <1>1, <1>5, <2>1, <2>5, <2>6 DEF Pact!Revive
  <2>q. QED BY <2>7 DEF PactStep, Pact!Next
<1>8. CASE ~IsFollow(n)
  <2>1. Revived' = Revived BY <1>1, <1>6, <1>8 DEF Revived, FollowsAmong, IsFollow
  <2>2. FateKept(n) BY <1>3, <1>8 DEF FateKept, FateOf, IsFollow
  <2>q. QED BY <1>1, <1>4, <1>5, <2>1, <2>2, FatesKept DEF PactStep
<1>q. QED BY <1>7, <1>8

(* Blocking a domain and the passing of time are no steps of the handshake.*)
LEMMA PactByTime ==
    ASSUME TypeOK, ToggleBlock \/ \E n \in Ids : Age(n) PROVE PactStep
<1>0. /\ Elsewhere /\ row \in [Ids -> RowType]
      /\ reached \subseteq Ids /\ retried \subseteq Ids
  BY DEF TypeOK, Elsewhere, RowType, States
<1>1. UNCHANGED <<follow, reached, retried>>
  BY DEF ToggleBlock, Age, requests, history, limits
<1>2. UNCHANGED <<Waiting, Got, Revived>>
  BY <1>0, <1>1, PactElsewhere DEF Got, Revived, FollowsAmong, IsFollow
<1>3. ASSUME NEW i \in Ids PROVE FateKept(i)
  <2>1. CASE ToggleBlock BY <2>1, RowKeepsFate DEF ToggleBlock
  <2>2. ASSUME NEW n \in Ids, Age(n) PROVE FateKept(i)
    <3>1. row' = [row EXCEPT ![n] = [row[n] EXCEPT !.ripe = TRUE]] BY <2>2 DEF Age
    <3>2. CASE i # n
      <4>1. row'[i] = row[i] BY <1>0, <3>1, <3>2
      <4>q. QED BY <4>1, RowKeepsFate
    <3>3. CASE i = n
      <4>1. row'[i] = [row[i] EXCEPT !.ripe = TRUE] /\ row[i] \in RowType
        BY <1>0, <3>1, <3>3
      <4>2. row'[i].type = row[i].type /\ row'[i].st = row[i].st BY <4>1 DEF RowType
      <4>q. QED BY <4>2 DEF FateKept, FateOf, IsFollow
    <3>q. QED BY <3>2, <3>3
  <2>q. QED BY <2>1, <2>2
<1>q. QED BY <1>1, <1>2, <1>3, FatesKept DEF PactStep

(* What a run writes back of an attempt.                                   *)
LEMMA PactByResult ==
    ASSUME TypeOK, Recorded, NEW r \in Runs, FailBlocked(r) \/ RecordOutcome(r)
    PROVE  PactStep
<1>0. Elsewhere BY DEF Elsewhere, RunStep
<1>1. UNCHANGED <<follow, reached, retried>>
  BY DEF FailBlocked, RecordOutcome, requests, history, limits
<1>2. CASE FailBlocked(r)
  <2>1. PICK j \in jobs[r] : Close(r, j, "failed", NextAttempt(j.att))
    BY <1>2 DEF FailBlocked
  <2>q. QED BY <1>0, <1>1, <2>1, PactByClose
<1>3. CASE RecordOutcome(r)
  <2>0. PICK j \in jobs[r] :
           /\ j.ph \in Outcomes
           /\ \E att : Close(r, j, StateAfter(NextAttempt(j.att), j.ph), att)
    BY <1>3 DEF RecordOutcome
  <2>1. PICK att :
           j.ph \in Outcomes /\ Close(r, j, StateAfter(NextAttempt(j.att), j.ph), att)
    BY <2>0
  <2> DEFINE st == StateAfter(NextAttempt(j.att), j.ph)
  <2>2. st \in {"queued", "delivered", "failed"} /\ (st = "delivered" => j.ph = "ok")
    BY <2>1 DEF StateAfter, Outcomes
  <2>3. Close(r, j, st, att) BY <2>1
  <2> HIDE DEF st
  <2>q. QED BY <1>0, <1>1, <2>2, <2>3, PactByClose
<1>q. QED BY <1>2, <1>3

(* The empty database and the handshake begin alike.                       *)
LEMMA PactByInit == Init => Pact!Init
  BY DEF Init, Pact!Init, Pact!Nobody, NoFollow, NoRow, Idle, Fates, FateOf, IsFollow,
     Waiting, Upserts, Got, Revived, FollowsAmong

(* Every step maps to a step of the handshake or to none.                  *)
LEMMA PactByStep ==
    ASSUME FailedInv, Recorded, ~RunsOutliveLease, [Next]_vars PROVE PactStep
<1>0. TypeOK /\ Numbering BY DEF FailedInv
<1>1. CASE UNCHANGED vars
  BY <1>1 DEF vars, requests, history, limits, PactStep, Fates, FateOf, IsFollow,
     Waiting, Upserts, Got, Revived, FollowsAmong
<1>2. ASSUME NEW c \in Clients, ClientStep(c) PROVE PactStep BY <1>0, <1>2, PactByClient
<1>3. ASSUME NEW r \in Runs, Start(r) \/ RunStep(r) \/ RunDies(r) PROVE PactStep
  BY <1>0, <1>3, PactByRequeue, PactByReconcile, PactBySend, PactByResult, PactByQuietRun
     DEF RunStep
<1>q. QED BY <1>0, <1>1, <1>2, <1>3, PactByTime, PactByRetry, PactByAnswer DEF Next

(* Requests and runs keep the promise of the handshake, however many there *)
(* are, whatever the answers, the blocks, the retries and the crashes, as  *)
(* long as no run outlives its lease.                                      *)
THEOREM HandshakeKept == ~RunsOutliveLease => (Spec => ImplementsHandshake)
<1> SUFFICES ASSUME ~RunsOutliveLease PROVE Spec => ImplementsHandshake OBVIOUS
<1>1. Init => Pact!Init BY PactByInit
<1>2. Init => FailedInv /\ Recorded
  <2>1. Init => FailedInv BY FailedInit
  <2>2. Init => Recorded BY DEF Init, Recorded, NoRow
  <2>q. QED BY <2>1, <2>2
<1>3. FailedInv /\ Recorded /\ [Next]_vars => FailedInv' /\ Recorded'
  BY FailedStep, RecordedStep DEF FailedInv
<1>4. FailedInv /\ Recorded /\ [Next]_vars => [Pact!Next]_(Pact!handshakeVars)
  BY PactByStep DEF PactStep, Pact!handshakeVars
<1>q. QED BY <1>1, <1>2, <1>3, <1>4, PTL DEF Spec, ImplementsHandshake, Pact!Spec
=============================================================================
