------------------------- MODULE InboxReceiptsProofs --------------------------
(***************************************************************************)
(* Proofs about the receipt of activities, for every set of activities,    *)
(* receipts and owners and any number of faults.                           *)
(***************************************************************************)
EXTENDS InboxReceipts, TLAPS

RowStates == {"absent", "fresh", "stale", "processed"}
AllSteps == HandlerSteps \cup {"idle", "begin", "ok", "err"}
RcType == [act : Maybe(Acts), locked : BOOLEAN, step : AllSteps]
OwnerType == [step : {"idle", "authorize", "accept", "reject", "finalize"},
              of : Maybe(Follows)]

(* The step of a receipt is one of the handler of its activity.            *)
Fits(x) ==
    /\ x.act \in plan \cup {None}
    /\ x.step = "idle" <=> x.act = None
    /\ x.step \in {"ask", "unask", "follow", "accept"} => x.act \in Follows
    /\ x.step \in {"match", "unfollow", "unasku"} => x.act \in Undos
    /\ x.step = "store" => x.act \in Statuses
    /\ x.step = "remove" => x.act \in Deletes

OwnerFits(x) == x.step # "idle" => x.of \in Follows

(* TypeOK with what a step needs to know of its activity.                  *)
TInv ==
    /\ plan \subseteq Acts /\ acked \subseteq plan
    /\ row \in [Acts -> RowStates]
    /\ rc \in [Receipts -> RcType]
    /\ \A r \in Receipts : Fits(rc[r])
    /\ locked \in BOOLEAN
    /\ follower \in Maybe(Follows) /\ request \in Maybe(Follows)
    /\ told \subseteq {"Accept", "Reject"} \X Follows
    /\ owner \in [Owners -> OwnerType]
    /\ \A o \in Owners : OwnerFits(owner[o])
    /\ status \in Maybe(Statuses)
    /\ faults \in 0 .. MaxFaults
    /\ handled \subseteq Acts /\ replayed \subseteq Acts /\ presumed \subseteq Acts
    /\ overrun \subseteq Acts /\ half \subseteq Acts /\ revived \subseteq Acts

(* The invariant is at least what the runs check.                          *)
LEMMA TInvIsTypeOK == TInv => TypeOK
  BY DEF TInv, TypeOK, RowStates, RcType, OwnerType, AllSteps, Fits

(* The initial state.                                                      *)
LEMMA TInit == Init => TInv
<1> SUFFICES ASSUME Init PROVE TInv OBVIOUS
<1> USE InboxAssumption DEF Init
<1>1. Idle \in RcType /\ Fits(Idle) /\ AtRest \in OwnerType /\ OwnerFits(AtRest)
  BY DEF Idle, AtRest, RcType, OwnerType, Fits, OwnerFits, AllSteps, Maybe
<1>2. rc \in [Receipts -> RcType] /\ \A r \in Receipts : Fits(rc[r]) BY <1>1
<1>3. owner \in [Owners -> OwnerType] /\ \A o \in Owners : OwnerFits(owner[o]) BY <1>1
<1>q. QED BY <1>2, <1>3 DEF TInv, RowStates, Maybe

(* A receipt that goes on with another step of its handler.                *)
LEMMA GotoFits ==
    ASSUME TInv, UNCHANGED plan, NEW r \in Receipts, NEW s \in AllSteps, Goto(r, s),
           Fits([rc[r] EXCEPT !.step = s])
    PROVE  rc' \in [Receipts -> RcType] /\ \A q \in Receipts : Fits(rc[q])'
<1>1. rc[r] \in RcType BY DEF TInv
<1>2. [rc[r] EXCEPT !.step = s] \in RcType BY <1>1 DEF RcType
<1>3. rc' = [rc EXCEPT ![r] = [rc[r] EXCEPT !.step = s]] BY DEF Goto
<1>4. rc' \in [Receipts -> RcType] BY <1>2, <1>3 DEF TInv
<1>5. ASSUME NEW q \in Receipts PROVE Fits(rc[q])'
  BY <1>3 DEF TInv, Fits
<1>q. QED BY <1>4, <1>5

(* What is carried out is an activity.                                     *)
LEMMA RevivedType ==
    ASSUME TInv, NEW a \in Acts PROVE Revived(a) \subseteq Acts
  BY DEF TInv, Revived

(* The handlers keep the types.                                            *)
LEMMA THandle == ASSUME TInv, NEW r \in Receipts, Handle(r) PROVE TInv'
<1> USE InboxAssumption, NoneIsNoAct
<1> USE DEF AllSteps, HandlerSteps
<1>a. rc[r] \in RcType /\ Fits(rc[r]) BY DEF TInv
<1>1. CASE AskOwner(r)
  <2>1. rc[r].act \in Follows /\ Fits([rc[r] EXCEPT !.step = "ok"])
    BY <1>1, <1>a DEF AskOwner, Fits, RcType, Statuses, Acts
  <2>2. rc' \in [Receipts -> RcType] /\ \A q \in Receipts : Fits(rc[q])'
    BY <1>1, <2>1, GotoFits DEF AskOwner, remote
  <2>3. revived' \subseteq Acts BY <1>1, <2>1, RevivedType DEF AskOwner, Acts
  <2>q. QED BY <1>1, <2>1, <2>2, <2>3 DEF AskOwner, TInv, remote, Maybe
<1>2. CASE DropRequest(r)
  <2>1. Fits([rc[r] EXCEPT !.step = "follow"])
    BY <1>2, <1>a DEF DropRequest, Fits, RcType
  <2>2. rc' \in [Receipts -> RcType] /\ \A q \in Receipts : Fits(rc[q])'
    BY <1>2, <2>1, GotoFits DEF DropRequest, remote
  <2>q. QED BY <1>2, <2>2 DEF DropRequest, TInv, remote, history, Maybe
<1>3. CASE AddFollower(r)
  <2>1. rc[r].act \in Follows /\ Fits([rc[r] EXCEPT !.step = "accept"])
    BY <1>3, <1>a DEF AddFollower, Fits, RcType
  <2>2. rc' \in [Receipts -> RcType] /\ \A q \in Receipts : Fits(rc[q])'
    BY <1>3, <2>1, GotoFits DEF AddFollower, AfterFollow, remote
  <2>3. revived' \subseteq Acts BY <1>3, <2>1, RevivedType DEF AddFollower, Acts
  <2>q. QED BY <1>3, <2>1, <2>2, <2>3 DEF AddFollower, TInv, remote, Maybe
<1>4. CASE QueueAccept(r)
  <2>1. rc[r].act \in Follows /\ Fits([rc[r] EXCEPT !.step = "ok"])
    BY <1>4, <1>a DEF QueueAccept, Fits, RcType
  <2>2. rc' \in [Receipts -> RcType] /\ \A q \in Receipts : Fits(rc[q])'
    BY <1>4, <2>1, GotoFits DEF QueueAccept, remote
  <2>q. QED BY <1>4, <2>1, <2>2 DEF QueueAccept, TInv, remote, history
<1>5. CASE MatchUndo(r)
  <2>1. \A s \in {"unfollow", "ok"} : Fits([rc[r] EXCEPT !.step = s])
    BY <1>5, <1>a DEF MatchUndo, Fits, RcType
  <2>2. PICK s \in {"unfollow", "ok"} : Goto(r, s) BY <1>5 DEF MatchUndo
  <2>3. rc' \in [Receipts -> RcType] /\ \A q \in Receipts : Fits(rc[q])'
    BY <1>5, <2>1, <2>2, GotoFits DEF MatchUndo, remote
  <2>q. QED BY <1>5, <2>3 DEF MatchUndo, TInv, remote, follows, history
<1>6. CASE DropFollower(r)
  <2>1. Fits([rc[r] EXCEPT !.step = "unasku"])
    BY <1>6, <1>a DEF DropFollower, Fits, RcType
  <2>2. rc' \in [Receipts -> RcType] /\ \A q \in Receipts : Fits(rc[q])'
    BY <1>6, <2>1, GotoFits DEF DropFollower, remote
  <2>q. QED BY <1>6, <2>2 DEF DropFollower, TInv, remote, history, Maybe
<1>7. CASE DropAsked(r)
  <2>1. Fits([rc[r] EXCEPT !.step = "ok"])
    BY <1>7, <1>a DEF DropAsked, Fits, RcType
  <2>2. rc' \in [Receipts -> RcType] /\ \A q \in Receipts : Fits(rc[q])'
    BY <1>7, <2>1, GotoFits DEF DropAsked, remote
  <2>q. QED BY <1>7, <2>2 DEF DropAsked, TInv, remote, history, Maybe
<1>8. CASE Store(r)
  <2>1. rc[r].act \in Statuses /\ \A s \in {"ok", "err"} : Fits([rc[r] EXCEPT !.step = s])
    BY <1>8, <1>a DEF Store, Fits, RcType
  <2>2. PICK s \in {"ok", "err"} : Goto(r, s) BY <1>8 DEF Store
  <2>3. rc' \in [Receipts -> RcType] /\ \A q \in Receipts : Fits(rc[q])'
    BY <1>8, <2>1, <2>2, GotoFits DEF Store, remote
  <2>4. revived' \subseteq Acts BY <1>8, <2>1, RevivedType DEF Store, Acts
  <2>5. faults' \in 0 .. MaxFaults BY <1>8 DEF Store, Fault, TInv
  <2>q. QED BY <1>8, <2>1, <2>3, <2>4, <2>5 DEF Store, TInv, remote, follows, Maybe
<1>9. CASE Remove(r)
  <2>1. Fits([rc[r] EXCEPT !.step = "ok"])
    BY <1>9, <1>a DEF Remove, Fits, RcType
  <2>2. rc' \in [Receipts -> RcType] /\ \A q \in Receipts : Fits(rc[q])'
    BY <1>9, <2>1, GotoFits DEF Remove, remote
  <2>q. QED BY <1>9, <2>2 DEF Remove, Removed, TInv, remote, follows, history, Maybe
<1>q. QED BY <1>1, <1>2, <1>3, <1>4, <1>5, <1>6, <1>7, <1>8, <1>9 DEF Handle

(* A receipt that ends is idle.                                            *)
LEMMA EndFits ==
    ASSUME TInv, UNCHANGED plan, NEW r \in Receipts, rc' = [rc EXCEPT ![r] = Idle]
    PROVE  rc' \in [Receipts -> RcType] /\ \A q \in Receipts : Fits(rc[q])'
<1>1. Idle \in RcType BY DEF Idle, RcType, AllSteps, Maybe
<1>2. ASSUME NEW q \in Receipts PROVE Fits(rc[q])'
  BY DEF TInv, Fits, Idle
<1>q. QED BY <1>1, <1>2 DEF TInv

(* So do the beginning and the end of a receipt.                           *)
LEMMA TReceipt ==
    ASSUME TInv, NEW r \in Receipts,
           \/ \E a \in Acts : Post(r, a)
           \/ BeginOrReplay(r) \/ Finish(r) \/ Release(r) \/ Fail(r) \/ ReceiptDies(r)
    PROVE  TInv'
<1> USE InboxAssumption, NoneIsNoAct
<1>a. rc[r] \in RcType /\ Fits(rc[r]) BY DEF TInv
<1>b. rc[r].step # "idle" => rc[r].act \in Acts /\ rc[r].act \in plan
  BY <1>a DEF Fits, RcType, Maybe
<1>1. ASSUME NEW a \in Acts, Post(r, a) PROVE TInv'
  <2>1. rc' = [rc EXCEPT ![r] = [act |-> a, step |-> "begin", locked |-> locked /\ a \in Follows]]
    BY <1>1 DEF Post
  <2>2. [act |-> a, step |-> "begin", locked |-> locked /\ a \in Follows] \in RcType
    BY DEF RcType, AllSteps, Maybe
  <2>3. rc' \in [Receipts -> RcType] BY <2>1, <2>2 DEF TInv
  <2>4. \A q \in Receipts : Fits(rc[q])' BY <1>1, <2>1 DEF Post, TInv, Fits, remote
  <2>5. row' \in [Acts -> RowStates] BY <1>1 DEF Post, TInv, RowStates
  <2>q. QED BY <1>1, <2>3, <2>4, <2>5 DEF Post, TInv, remote, follows, history
<1>2. CASE BeginOrReplay(r)
  <2> DEFINE a == rc[r].act
  <2>1. a \in Acts /\ a \in plan BY <1>2, <1>b DEF BeginOrReplay
  <2>2. CASE row[a] = "absent"
    <3>1. Handler(r, a) \in {"ask", "unask", "match", "store", "remove"}
      BY <2>1 DEF Handler, Acts
    <3>2. rc' = [rc EXCEPT ![r] = [rc[r] EXCEPT !.step = Handler(r, a), !.locked = FALSE]]
      <4>1. rc' = [rc EXCEPT ![r].step = Handler(r, a), ![r].locked = FALSE]
        BY <1>2, <2>2 DEF BeginOrReplay
      <4>2. rc \in [Receipts -> RcType] BY DEF TInv
      <4> HIDE DEF a
      <4>q. QED BY <4>1, <4>2
    <3>3. [rc[r] EXCEPT !.step = Handler(r, a), !.locked = FALSE] \in RcType
      BY <1>a, <3>1 DEF RcType, AllSteps, HandlerSteps
    <3>4. rc' \in [Receipts -> RcType] BY <3>2, <3>3 DEF TInv
    <3>5. Fits([rc[r] EXCEPT !.step = Handler(r, a), !.locked = FALSE])
      BY <1>a, <2>1 DEF Fits, RcType, Handler, Acts
    <3>6. \A q \in Receipts : Fits(rc[q])'
      BY <1>2, <3>2, <3>5 DEF BeginOrReplay, TInv, Fits
    <3>7. row' \in [Acts -> RowStates] BY <1>2, <2>2 DEF BeginOrReplay, TInv, RowStates
    <3>q. QED BY <1>2, <2>2, <3>4, <3>6, <3>7 DEF BeginOrReplay, TInv, follows
  <2>3. CASE row[a] # "absent"
    <3>1. rc' \in [Receipts -> RcType] /\ \A q \in Receipts : Fits(rc[q])'
      BY <1>2, <2>3, EndFits DEF BeginOrReplay
    <3>q. QED BY <1>2, <2>1, <2>3, <3>1 DEF BeginOrReplay, AckReplay, TInv, follows
  <2>q. QED BY <2>2, <2>3
<1>3. CASE Finish(r)
  <2>1. rc[r].act \in Acts /\ rc[r].act \in plan BY <1>3, <1>b DEF Finish
  <2>2. rc' \in [Receipts -> RcType] /\ \A q \in Receipts : Fits(rc[q])'
    BY <1>3, EndFits DEF Finish
  <2>3. row' \in [Acts -> RowStates] BY <1>3, <2>1 DEF Finish, TInv, RowStates
  <2>4. faults' \in 0 .. MaxFaults /\ acked' \subseteq plan
    BY <1>3, <2>1 DEF Finish, Fault, TInv
  <2>q. QED BY <1>3, <2>1, <2>2, <2>3, <2>4 DEF Finish, TInv, follows
<1>4. CASE Release(r)
  <2>1. rc' \in [Receipts -> RcType] /\ \A q \in Receipts : Fits(rc[q])'
    BY <1>4, EndFits DEF Release, remote
  <2>2. row' \in [Acts -> RowStates] BY <1>4 DEF Release, Released, TInv, RowStates
  <2>q. QED BY <1>4, <2>1, <2>2 DEF Release, TInv, remote, follows, history
<1>5. CASE Fail(r)
  <2>1. rc[r].act \in Acts BY <1>5, <1>b DEF Fail, Works
  <2>2. Fits([rc[r] EXCEPT !.step = "err"])
    BY <1>5, <1>a DEF Fail, Works, Fits, RcType
  <2>3. rc' \in [Receipts -> RcType] /\ \A q \in Receipts : Fits(rc[q])'
    BY <1>5, <2>2, GotoFits DEF Fail, remote, AllSteps
  <2>4. faults' \in 0 .. MaxFaults BY <1>5 DEF Fail, Fault, TInv
  <2>q. QED BY <1>5, <2>1, <2>3, <2>4 DEF Fail, TInv, remote, follows
<1>6. CASE ReceiptDies(r)
  <2>1. rc[r].step = "accept" => rc[r].act \in Acts BY <1>b
  <2>2. rc' \in [Receipts -> RcType] /\ \A q \in Receipts : Fits(rc[q])'
    BY <1>6, EndFits DEF ReceiptDies, remote
  <2>3. faults' \in 0 .. MaxFaults BY <1>6 DEF ReceiptDies, Fault, TInv
  <2>q. QED BY <1>6, <2>1, <2>2, <2>3 DEF ReceiptDies, TInv, remote, follows
<1>q. QED BY <1>1, <1>2, <1>3, <1>4, <1>5, <1>6

(* And so do time, the reclaim and the owner.                              *)
LEMMA TOthers ==
    ASSUME TInv,
           \/ \E a \in Acts : Age(a) \/ Reclaim(a)
           \/ ToggleLock
           \/ \E o \in Owners : OwnerStep(o) \/ OwnerDies(o)
           \/ \E o \in Owners, step \in {"authorize", "reject"} : Answer(o, step)
    PROVE  TInv'
<1> USE InboxAssumption
<1>1. ASSUME NEW a \in Acts, Age(a) PROVE TInv'
  BY <1>1 DEF Age, TInv, RowStates, Fits, OwnerFits, remote, follows
<1>2. ASSUME NEW a \in Acts, Reclaim(a) PROVE TInv'
  BY <1>2 DEF Reclaim, TInv, RowStates, Fits, OwnerFits, remote, follows
<1>3. CASE ToggleLock BY <1>3 DEF ToggleLock, TInv, Fits, OwnerFits, remote, history
<1>4. ASSUME NEW o \in Owners, OwnerStep(o) \/ OwnerDies(o) PROVE TInv'
  <2>a. owner[o] \in OwnerType /\ OwnerFits(owner[o]) BY DEF TInv
  <2>d. \A q \in Receipts : Fits(rc[q]) BY DEF TInv
  <2>1. CASE Authorize(o)
    <3>1. owner[o].of \in Follows BY <2>1, <2>a DEF Authorize, OwnerFits
    <3>2. owner' = [owner EXCEPT ![o] = [owner[o] EXCEPT !.step = "accept"]]
      BY <2>1 DEF Authorize
    <3>3. [owner[o] EXCEPT !.step = "accept"] \in OwnerType BY <2>a DEF OwnerType
    <3>4. owner' \in [Owners -> OwnerType] BY <3>2, <3>3 DEF TInv
    <3>5. \A x \in Owners : OwnerFits(owner[x])' BY <3>1, <3>2, <2>a DEF TInv, OwnerFits
    <3>6. revived' \subseteq Acts BY <2>1, <3>1, RevivedType DEF Authorize, Acts
    <3>q. QED BY <2>1, <2>d, <3>1, <3>4, <3>5, <3>6 DEF Authorize, TInv, Fits, remote, Maybe
  <2>2. CASE QueueAnswer(o)
    <3>1. owner[o].of \in Follows BY <2>2, <2>a DEF QueueAnswer, OwnerFits
    <3>2. owner' = [owner EXCEPT ![o] = [owner[o] EXCEPT !.step = "finalize"]]
      BY <2>2 DEF QueueAnswer
    <3>3. [owner[o] EXCEPT !.step = "finalize"] \in OwnerType BY <2>a DEF OwnerType
    <3>4. owner' \in [Owners -> OwnerType] BY <3>2, <3>3 DEF TInv
    <3>5. \A x \in Owners : OwnerFits(owner[x])' BY <3>1, <3>2, <2>a DEF TInv, OwnerFits
    <3>q. QED BY <2>2, <2>d, <3>1, <3>4, <3>5 DEF QueueAnswer, TInv, Fits, remote, history
  <2>3. CASE owner' = [owner EXCEPT ![o] = AtRest]
    <3>1. AtRest \in OwnerType /\ OwnerFits(AtRest)
      BY DEF AtRest, OwnerType, OwnerFits, Maybe
    <3>2. owner' \in [Owners -> OwnerType] BY <2>3, <3>1 DEF TInv
    <3>3. \A x \in Owners : OwnerFits(owner[x])' BY <2>3, <3>1 DEF TInv, OwnerFits
    <3>4. CASE Finalize(o)
      BY <3>4, <2>d, <3>2, <3>3 DEF Finalize, TInv, Fits, remote, history, Maybe
    <3>5. CASE OwnerDies(o)
      <4>1. half' \subseteq Acts BY <3>5, <2>a DEF OwnerDies, TInv, OwnerFits, Acts
      <4>2. faults' \in 0 .. MaxFaults BY <3>5 DEF OwnerDies, Fault, TInv
      <4>q. QED BY <3>5, <2>d, <3>2, <3>3, <4>1, <4>2
            DEF OwnerDies, TInv, Fits, remote, follows
    <3>6. CASE Authorize(o) \/ QueueAnswer(o) BY <3>6, <2>1, <2>2
    <3>q. QED BY <1>4, <3>4, <3>5, <3>6 DEF OwnerStep
  <2>q. QED BY <1>4, <2>1, <2>2, <2>3 DEF OwnerStep, Finalize, OwnerDies
<1>5. ASSUME NEW o \in Owners, NEW step \in {"authorize", "reject"}, Answer(o, step)
      PROVE  TInv'
  <2>1. request \in Follows BY <1>5 DEF Answer, TInv, Maybe
  <2>2. [step |-> step, of |-> request] \in OwnerType BY <2>1 DEF OwnerType, Maybe
  <2>3. owner' \in [Owners -> OwnerType] BY <1>5, <2>2 DEF Answer, TInv
  <2>4. \A x \in Owners : OwnerFits(owner[x])' BY <1>5, <2>1 DEF Answer, TInv, OwnerFits
  <2>q. QED BY <1>5, <2>3, <2>4 DEF Answer, TInv, Fits, remote, follows, history
<1>q. QED BY <1>1, <1>2, <1>3, <1>4, <1>5

(* Every step is one of the three groups.                                  *)
LEMMA TNext == TInv /\ [Next]_vars => TInv'
<1> SUFFICES ASSUME TInv, [Next]_vars PROVE TInv' OBVIOUS
<1>1. CASE UNCHANGED vars
  BY <1>1 DEF TInv, Fits, OwnerFits, vars, remote, follows, history
<1>2. CASE Next
  BY <1>2, THandle, TReceipt, TOthers DEF Next, ReceiptStep
<1>q. QED BY <1>1, <1>2

(* What every later argument rests on: the step of a receipt belongs to    *)
(* the handler of its activity.                                            *)
THEOREM TypeCorrect == Spec => []TInv
<1>q. QED BY TInit, TNext, PTL DEF Spec

(* The values of all variables are of their types (inbox.rs,               *)
(* activity_store.rs, follow_requests.rs).                                 *)
THEOREM ReceiptsAreTyped == Spec => []TypeOK
<1>q. QED BY TypeCorrect, TInvIsTypeOK, PTL

-----------------------------------------------------------------------------
(* Whoever works on an activity and did not outlive its row holds it.      *)
RowIsHeld ==
    \A r \in Receipts :
        Works(r) /\ rc[r].act \notin overrun => row[rc[r].act] = "fresh"
HInv == RowIsHeld /\ HandledByOne

(* A receipt that works, works on an activity.                             *)
LEMMA WorksOnAct == ASSUME TInv, NEW r \in Receipts, Works(r) PROVE rc[r].act \in Acts
<1>1. rc[r] \in RcType /\ Fits(rc[r]) BY DEF TInv
<1>q. QED BY <1>1 DEF Works, Fits, RcType, Maybe

(* A handler's step lets rows, activities and who works be.                *)
LEMMA HandleKeepsWork ==
    ASSUME TInv, NEW r \in Receipts, Handle(r) \/ Fail(r)
    PROVE  /\ UNCHANGED <<row, overrun>>
           /\ \A q \in Receipts : rc'[q].act = rc[q].act /\ Works(q)' = Works(q)
<1>1. PICK s \in {"ok", "err", "follow", "accept", "unfollow", "unasku"} : Goto(r, s)
  BY DEF Handle, Fail, AskOwner, DropRequest, AddFollower, AfterFollow, QueueAccept, MatchUndo,
         DropFollower, DropAsked, Store, Remove
<1>2. rc' = [rc EXCEPT ![r] = [rc[r] EXCEPT !.step = s]] BY <1>1 DEF Goto
<1>3. Works(r)
  BY DEF Handle, Fail, Works, AskOwner, DropRequest, AddFollower, QueueAccept, MatchUndo,
         DropFollower, DropAsked, Store, Remove
<1>4. \A q \in Receipts : rc[q] \in RcType BY DEF TInv
<1>5. \A q \in Receipts : rc'[q].act = rc[q].act /\ (Works(q)' <=> Works(q))
  BY <1>2, <1>3, <1>4 DEF Works, TInv, RcType
<1>6. UNCHANGED <<row, overrun>>
  BY DEF Handle, Fail, AskOwner, DropRequest, AddFollower, QueueAccept, MatchUndo, DropFollower,
         DropAsked, Store, Remove, history
<1>q. QED BY <1>5, <1>6 DEF Works

(* Every step keeps who holds which row.                                   *)
LEMMA HStep == TInv /\ HInv /\ [Next]_vars => HInv'
<1> SUFFICES ASSUME TInv, HInv, [Next]_vars PROVE HInv' OBVIOUS
<1> USE NoneIsNoAct
<1>t. rc \in [Receipts -> RcType] /\ row \in [Acts -> RowStates] BY DEF TInv
<1>w. \A r \in Receipts : Works(r) => rc[r].act \in Acts BY WorksOnAct
<1>0. CASE UNCHANGED <<row, rc, overrun>>
  BY <1>0 DEF HInv, RowIsHeld, HandledByOne, Works
<1>1. ASSUME NEW r \in Receipts, Handle(r) \/ Fail(r) PROVE HInv'
  <2>1. UNCHANGED <<row, overrun>> BY <1>1, HandleKeepsWork
  <2>2. \A q \in Receipts : rc'[q].act = rc[q].act /\ Works(q)' = Works(q)
    BY <1>1, HandleKeepsWork
  <2>q. QED BY <2>1, <2>2 DEF HInv, RowIsHeld, HandledByOne
<1>2. ASSUME NEW r \in Receipts, NEW a \in Acts, Post(r, a) PROVE HInv'
  <2>1. rc' = [rc EXCEPT ![r] = [act |-> a, step |-> "begin", locked |-> locked /\ a \in Follows]]
    BY <1>2 DEF Post
  <2>2. \A q \in Receipts : Works(q)' => q # r /\ Works(q) /\ rc'[q] = rc[q]
    BY <1>t, <2>1 DEF Works
  <2>3. \A b \in Acts : row[b] = "fresh" => row'[b] = "fresh"
    BY <1>2, <1>t DEF Post, Expired
  <2>4. UNCHANGED overrun BY <1>2 DEF Post, history
  <2>q. QED BY <1>w, <2>2, <2>3, <2>4 DEF HInv, RowIsHeld, HandledByOne
<1>3. ASSUME NEW r \in Receipts, BeginOrReplay(r) PROVE HInv'
  <2> DEFINE a == rc[r].act
  <2>a. a \in Acts
    <3>1. rc[r] \in RcType /\ Fits(rc[r]) BY DEF TInv
    <3>q. QED BY <1>3, <3>1 DEF BeginOrReplay, Fits, RcType, Maybe
  <2>b. UNCHANGED overrun BY <1>3 DEF BeginOrReplay
  <2>1. CASE row[a] = "absent"
    <3>1. row' = [row EXCEPT ![a] = "fresh"] BY <1>3, <2>1 DEF BeginOrReplay
    <3>2. \A q \in Receipts : q # r => rc'[q] = rc[q] BY <1>3, <2>1, <1>t DEF BeginOrReplay
    <3>3. rc'[r].act = a BY <1>3, <2>1, <1>t DEF BeginOrReplay, RcType
    <3>4. \A q \in Receipts : Works(q)' /\ q # r => Works(q) BY <3>2 DEF Works
    <3>5. \A q \in Receipts : Works(q) /\ rc[q].act = a => a \in overrun
      BY <2>1 DEF HInv, RowIsHeld
    <3>6. RowIsHeld'
      BY <1>t, <1>w, <2>a, <2>b, <3>1, <3>2, <3>3, <3>4 DEF HInv, RowIsHeld
    <3>7. HandledByOne'
      BY <2>b, <3>2, <3>3, <3>4, <3>5 DEF HInv, HandledByOne
    <3>q. QED BY <3>6, <3>7 DEF HInv
  <2>2. CASE row[a] # "absent"
    <3>1. rc' = [rc EXCEPT ![r] = Idle] /\ UNCHANGED row BY <1>3, <2>2 DEF BeginOrReplay
    <3>2. \A q \in Receipts : Works(q)' => Works(q) /\ rc'[q] = rc[q]
      BY <1>t, <3>1 DEF Works, Idle
    <3>q. QED BY <2>b, <3>1, <3>2 DEF HInv, RowIsHeld, HandledByOne
  <2>q. QED BY <2>1, <2>2
<1>4. ASSUME NEW r \in Receipts, Finish(r) \/ Release(r) \/ ReceiptDies(r) PROVE HInv'
  <2> DEFINE a == rc[r].act
  <2>1. rc' = [rc EXCEPT ![r] = Idle] /\ UNCHANGED overrun
    BY <1>4 DEF Finish, Release, ReceiptDies, history
  <2>2. \A q \in Receipts : Works(q)' => q # r /\ Works(q) /\ rc'[q] = rc[q]
    BY <1>t, <2>1 DEF Works, Idle
  <2>3. \A b \in Acts : b # a => row'[b] = row[b]
    BY <1>4, <1>t DEF Finish, Release, ReceiptDies
  <2>4. ReceiptDies(r) => UNCHANGED row BY DEF ReceiptDies
  <2>5. Finish(r) \/ Release(r) => Works(r) BY DEF Finish, Release, Works
  <2>6. \A q \in Receipts : Works(q)' /\ rc[q].act = a /\ Works(r) => a \in overrun
    BY <2>2 DEF HInv, HandledByOne
  <2>q. QED BY <1>4, <1>w, <2>1, <2>2, <2>3, <2>4, <2>5, <2>6 DEF HInv, RowIsHeld, HandledByOne
<1>5. ASSUME NEW a \in Acts, Age(a) PROVE HInv'
  <2>1. rc' = rc /\ \A b \in Acts : b # a => row'[b] = row[b] BY <1>5, <1>t DEF Age
  <2>2. overrun \subseteq overrun' /\ (Working(a) => a \in overrun') BY <1>5 DEF Age
  <2>q. QED BY <1>w, <2>1, <2>2 DEF HInv, RowIsHeld, HandledByOne, Working, Works
<1>6. ASSUME NEW a \in Acts, Reclaim(a) PROVE HInv'
  <2>1. rc' = rc /\ UNCHANGED overrun /\ row[a] = "stale" BY <1>6 DEF Reclaim
  <2>2. \A b \in Acts : b # a => row'[b] = row[b] BY <1>6, <1>t DEF Reclaim
  <2>q. QED BY <1>w, <2>1, <2>2 DEF HInv, RowIsHeld, HandledByOne, Works
<1>7. CASE \/ ToggleLock
           \/ \E o \in Owners : OwnerStep(o) \/ OwnerDies(o)
           \/ \E o \in Owners, step \in {"authorize", "reject"} : Answer(o, step)
  <2>1. UNCHANGED <<row, rc, overrun>>
    BY <1>7 DEF ToggleLock, OwnerStep, OwnerDies, Answer, Authorize, QueueAnswer, Finalize, history
  <2>q. QED BY <2>1, <1>0
<1>8. CASE UNCHANGED vars BY <1>0, <1>8 DEF vars, history
<1>q. QED BY <1>1, <1>2, <1>3, <1>4, <1>5, <1>6, <1>7, <1>8 DEF Next, ReceiptStep

(* Two receipts never work on one activity, unless one of them outlived    *)
(* the fifteen minutes of its row (begin_inbox_activity_processing).       *)
THEOREM HandledOnce == Spec => []HandledByOne
<1>1. Init => HInv
  BY DEF Init, HInv, RowIsHeld, HandledByOne, Works, Idle
<1>2. HInv => HandledByOne BY DEF HInv
<1>q. QED BY <1>1, <1>2, HStep, TypeCorrect, PTL DEF Spec
-----------------------------------------------------------------------------
(* A processed row stays; a row becomes processed when its handler has run *)
(* or the reclaim presumes so; what is acknowledged was processed, had run *)
(* or was in flight.                                                       *)
LEMMA RowSteps ==
    ASSUME TInv, [Next]_vars
    PROVE  /\ \A a \in Acts : row[a] = "processed" => row'[a] = "processed"
           /\ \A a \in Acts : row'[a] = "processed" =>
                row[a] = "processed" \/ a \in handled' \cup presumed'
           /\ \A a \in acked' : \/ a \in acked \/ a \in handled' \cup replayed'
                                \/ a \in Acts /\ row[a] = "processed"
           /\ handled \subseteq handled' /\ replayed \subseteq replayed'
           /\ presumed \subseteq presumed'
<1> DEFINE Goal ==
           /\ \A a \in Acts : row[a] = "processed" => row'[a] = "processed"
           /\ \A a \in Acts : row'[a] = "processed" =>
                row[a] = "processed" \/ a \in handled' \cup presumed'
           /\ \A a \in acked' : \/ a \in acked \/ a \in handled' \cup replayed'
                                \/ a \in Acts /\ row[a] = "processed"
           /\ handled \subseteq handled' /\ replayed \subseteq replayed'
           /\ presumed \subseteq presumed'
<1> SUFFICES Goal OBVIOUS
<1>t. row \in [Acts -> RowStates] BY DEF TInv
<1>0. CASE UNCHANGED <<row, acked, handled, replayed, presumed>> BY <1>0
<1>1. ASSUME NEW r \in Receipts, Handle(r) \/ Fail(r) \/ ReceiptDies(r) PROVE Goal
  <2>1. UNCHANGED <<row, acked, handled, replayed, presumed>>
    BY <1>1 DEF Handle, Fail, ReceiptDies, AskOwner, DropRequest, AddFollower, QueueAccept,
                MatchUndo, DropFollower, DropAsked, Store, Remove, remote, history
  <2>q. QED BY <2>1, <1>0
<1>2. ASSUME NEW r \in Receipts, NEW a \in Acts, Post(r, a) PROVE Goal
  BY <1>2, <1>t DEF Post, Expired, remote, history
<1>3. ASSUME NEW r \in Receipts, BeginOrReplay(r) PROVE Goal
  <2>1. rc[r].act \in Acts
    <3>1. rc[r] \in RcType /\ Fits(rc[r]) BY DEF TInv
    <3>q. QED BY <1>3, <3>1 DEF BeginOrReplay, Fits, RcType, Maybe
  <2>2. CASE row[rc[r].act] = "absent" BY <1>3, <2>1, <2>2, <1>t DEF BeginOrReplay
  <2>3. CASE row[rc[r].act] # "absent"
    BY <1>3, <2>1, <2>3, <1>t DEF BeginOrReplay, AckReplay
  <2>q. QED BY <2>2, <2>3
<1>4. ASSUME NEW r \in Receipts, Finish(r) PROVE Goal
  <2>1. acked' \subseteq acked \cup {rc[r].act} BY <1>4 DEF Finish
  <2>2. handled' = handled \cup {rc[r].act} /\ UNCHANGED <<replayed, presumed>>
    BY <1>4 DEF Finish
  <2>3. row' = row \/ row' = [row EXCEPT ![rc[r].act] = "processed"] BY <1>4 DEF Finish
  <2>q. QED BY <2>1, <2>2, <2>3, <1>t
<1>5. ASSUME NEW r \in Receipts, Release(r) PROVE Goal
  BY <1>5, <1>t DEF Release, Released, remote, history
<1>6. ASSUME NEW a \in Acts, Age(a) PROVE Goal
  BY <1>6, <1>t DEF Age, remote
<1>7. ASSUME NEW a \in Acts, Reclaim(a) PROVE Goal
  BY <1>7, <1>t DEF Reclaim, remote
<1>8. CASE \/ ToggleLock
           \/ \E o \in Owners : OwnerStep(o) \/ OwnerDies(o)
           \/ \E o \in Owners, step \in {"authorize", "reject"} : Answer(o, step)
  <2>1. UNCHANGED <<row, acked, handled, replayed, presumed>>
    BY <1>8 DEF ToggleLock, OwnerStep, OwnerDies, Answer, Authorize, QueueAnswer, Finalize,
                remote, history
  <2>q. QED BY <2>1, <1>0
<1>9. CASE UNCHANGED vars BY <1>0, <1>9 DEF vars, history, remote
<1>q. QED BY <1>1, <1>2, <1>3, <1>4, <1>5, <1>6, <1>7, <1>8, <1>9 DEF Next, ReceiptStep

(* An activity once processed stays so (mark_, release_ and begin_ of      *)
(* inbox/activity_store.rs, and the reclaim).                              *)
THEOREM ProcessedForGood == Spec => ProcessedIsFinal
<1>1. TInv /\ [Next]_vars =>
        [\A a \in Acts : row[a] = "processed" => row'[a] = "processed"]_vars
  BY RowSteps
<1>q. QED BY <1>1, TypeCorrect, PTL DEF Spec, ProcessedIsFinal

(* A processed row tells of a handler that ran, or of the reclaim.         *)
AInv == /\ AckedIsHandled
        /\ \A a \in Acts : row[a] = "processed" => a \in handled \cup presumed

(* An activity is acknowledged only after its handler ran, unless it was   *)
(* acknowledged as a replay of one in flight, or the reclaim took it for   *)
(* done (inbox.rs:379, activity_store.rs:86).                              *)
THEOREM AckedForCause == Spec => []AckedIsHandled
<1>1. Init => AInv BY DEF Init, AInv, AckedIsHandled
<1>2. TInv /\ AInv /\ [Next]_vars => AInv'
  <2> SUFFICES ASSUME TInv, AInv, [Next]_vars PROVE AInv' OBVIOUS
  <2>1. AckedIsHandled' BY RowSteps DEF AInv, AckedIsHandled
  <2>2. \A a \in Acts : row'[a] = "processed" => a \in handled' \cup presumed'
    BY RowSteps DEF AInv
  <2>q. QED BY <2>1, <2>2 DEF AInv
<1>3. AInv => AckedIsHandled BY DEF AInv
<1>q. QED BY <1>1, <1>2, <1>3, TypeCorrect, PTL DEF Spec
-----------------------------------------------------------------------------
(* An Accept under way stays under way until it is queued or its request   *)
(* has failed, and a new follower comes with an Accept under way.          *)
LEMMA ToldSteps ==
    ASSUME TInv, [Next]_vars
    PROVE  /\ told \subseteq told' /\ half \subseteq half'
           /\ \A q \in Receipts : rc[q].step = "accept" =>
                \/ rc'[q] = rc[q]
                \/ <<"Accept", rc[q].act>> \in told' \/ rc[q].act \in half'
           /\ \A o \in Owners : owner[o].step = "accept" =>
                \/ owner'[o] = owner[o]
                \/ <<"Accept", owner[o].of>> \in told' \/ owner[o].of \in half'
           /\ \/ follower' = follower \/ follower' = None
              \/ \E r \in Receipts : rc'[r].step = "accept" /\ rc'[r].act = follower'
              \/ \E o \in Owners : owner'[o].step = "accept" /\ owner'[o].of = follower'
<1> DEFINE Goal ==
           /\ told \subseteq told' /\ half \subseteq half'
           /\ \A q \in Receipts : rc[q].step = "accept" =>
                \/ rc'[q] = rc[q]
                \/ <<"Accept", rc[q].act>> \in told' \/ rc[q].act \in half'
           /\ \A o \in Owners : owner[o].step = "accept" =>
                \/ owner'[o] = owner[o]
                \/ <<"Accept", owner[o].of>> \in told' \/ owner[o].of \in half'
           /\ \/ follower' = follower \/ follower' = None
              \/ \E r \in Receipts : rc'[r].step = "accept" /\ rc'[r].act = follower'
              \/ \E o \in Owners : owner'[o].step = "accept" /\ owner'[o].of = follower'
<1> SUFFICES Goal OBVIOUS
<1>t. rc \in [Receipts -> RcType] /\ owner \in [Owners -> OwnerType] BY DEF TInv
<1>0. ASSUME UNCHANGED <<told, half, owner, follower>>, NEW r \in Receipts,
             rc[r].step # "accept", NEW x, rc' = [rc EXCEPT ![r] = x]
      PROVE  Goal
  BY <1>0, <1>t
<1>1. ASSUME NEW r \in Receipts, Handle(r) PROVE Goal
  <2>1. CASE AddFollower(r)
    <3>1. rc' = [rc EXCEPT ![r] = [rc[r] EXCEPT !.step = "accept"]]
      BY <2>1 DEF AddFollower, AfterFollow, Goto
    <3>2. rc[r] \in RcType BY <1>t
    <3>3. rc'[r].step = "accept" /\ rc'[r].act = rc[r].act BY <1>t, <3>1, <3>2 DEF RcType
    <3>4. follower' = rc[r].act /\ rc[r].step = "follow" /\ UNCHANGED <<told, half, owner>>
      BY <2>1 DEF AddFollower
    <3>q. QED BY <1>t, <3>1, <3>3, <3>4
  <2>2. CASE QueueAccept(r)
    <3>1. rc' = [rc EXCEPT ![r] = [rc[r] EXCEPT !.step = "ok"]] BY <2>2 DEF QueueAccept, Goto
    <3>2. told' = told \cup {<<"Accept", rc[r].act>>} /\ UNCHANGED <<half, owner, follower>>
      BY <2>2 DEF QueueAccept, history
    <3>q. QED BY <1>t, <3>1, <3>2
  <2>3. CASE DropFollower(r)
    <3>1. rc' = [rc EXCEPT ![r] = [rc[r] EXCEPT !.step = "unasku"]] /\ rc[r].step = "unfollow"
      BY <2>3 DEF DropFollower, Goto
    <3>2. follower' = None /\ UNCHANGED <<told, half, owner>> BY <2>3 DEF DropFollower, history
    <3>q. QED BY <1>t, <3>1, <3>2
  <2>4. CASE \/ AskOwner(r) \/ DropRequest(r) \/ MatchUndo(r) \/ DropAsked(r)
             \/ Store(r) \/ Remove(r)
    <3>1. UNCHANGED <<told, half, owner, follower>> /\ rc[r].step # "accept"
      BY <2>4 DEF AskOwner, DropRequest, MatchUndo, DropAsked, Store, Remove, follows, history
    <3>2. PICK s : rc' = [rc EXCEPT ![r].step = s]
      BY <2>4 DEF AskOwner, DropRequest, MatchUndo, DropAsked, Store, Remove, Goto
    <3>q. QED BY <1>0, <3>1, <3>2
  <2>q. QED BY <1>1, <2>1, <2>2, <2>3, <2>4 DEF Handle
<1>2. ASSUME NEW r \in Receipts, NEW a \in Acts, Post(r, a) PROVE Goal
  <2>1. UNCHANGED <<told, half, owner, follower>> /\ rc[r].step # "accept"
    BY <1>2 DEF Post, follows, history, Idle
  <2>2. PICK x : rc' = [rc EXCEPT ![r] = x] BY <1>2 DEF Post
  <2>q. QED BY <1>0, <2>1, <2>2
<1>3. ASSUME NEW r \in Receipts, BeginOrReplay(r) \/ Finish(r) \/ Release(r) PROVE Goal
  <2>1. UNCHANGED <<told, half, owner, follower>> /\ rc[r].step # "accept"
    BY <1>3 DEF BeginOrReplay, Finish, Release, follows, history
  <2>2. PICK x : rc' = [rc EXCEPT ![r] = x]
    <3>1. CASE BeginOrReplay(r) /\ row[rc[r].act] = "absent"
      <4>1. rc' = [rc EXCEPT ![r] = [rc[r] EXCEPT !.step = Handler(r, rc[r].act), !.locked = FALSE]]
        BY <3>1, <1>t DEF BeginOrReplay
      <4>q. QED BY <4>1
    <3>2. CASE ~(BeginOrReplay(r) /\ row[rc[r].act] = "absent")
      BY <1>3, <3>2 DEF BeginOrReplay, Finish, Release
    <3>q. QED BY <3>1, <3>2
  <2>q. QED BY <1>0, <2>1, <2>2
<1>4. ASSUME NEW r \in Receipts, Fail(r) \/ ReceiptDies(r) PROVE Goal
  <2>1. PICK x : rc' = [rc EXCEPT ![r] = x] BY <1>4 DEF Fail, ReceiptDies, Goto
  <2>2. UNCHANGED <<told, owner, follower>> BY <1>4 DEF Fail, ReceiptDies, follows
  <2>3. half' = IF rc[r].step = "accept" THEN half \cup {rc[r].act} ELSE half
    BY <1>4 DEF Fail, ReceiptDies
  <2>q. QED BY <1>t, <2>1, <2>2, <2>3
<1>5. CASE \/ \E a \in Acts : Age(a) \/ Reclaim(a)
           \/ ToggleLock \/ UNCHANGED vars
  BY <1>5 DEF Age, Reclaim, ToggleLock, vars, follows, history
<1>6. ASSUME NEW o \in Owners, NEW step \in {"authorize", "reject"}, Answer(o, step) PROVE Goal
  <2>1. owner' = [owner EXCEPT ![o] = [step |-> step, of |-> request]] /\ owner[o].step = "idle"
    BY <1>6 DEF Answer, AtRest
  <2>2. UNCHANGED <<told, half, rc, follower>> BY <1>6 DEF Answer, follows, history
  <2>q. QED BY <1>t, <2>1, <2>2
<1>7. ASSUME NEW o \in Owners, OwnerStep(o) \/ OwnerDies(o) PROVE Goal
  <2>t. owner[o] \in OwnerType BY <1>t
  <2>1. CASE Authorize(o)
    <3>1. owner' = [owner EXCEPT ![o] = [owner[o] EXCEPT !.step = "accept"]]
      BY <2>1 DEF Authorize
    <3>2. owner'[o].step = "accept" /\ owner'[o].of = owner[o].of
      BY <1>t, <2>t, <3>1 DEF OwnerType
    <3>3. follower' = owner[o].of /\ owner[o].step = "authorize" /\ UNCHANGED <<told, half, rc>>
      BY <2>1 DEF Authorize
    <3>q. QED BY <1>t, <3>1, <3>2, <3>3
  <2>2. CASE QueueAnswer(o)
    <3>1. owner' = [owner EXCEPT ![o] = [owner[o] EXCEPT !.step = "finalize"]]
      BY <2>2 DEF QueueAnswer
    <3>2. told \subseteq told' /\ UNCHANGED <<half, rc, follower>>
      BY <2>2 DEF QueueAnswer, history
    <3>3. owner[o].step = "accept" => <<"Accept", owner[o].of>> \in told'
      BY <2>2 DEF QueueAnswer
    <3>q. QED BY <1>t, <3>1, <3>2, <3>3
  <2>3. CASE Finalize(o) BY <1>t, <2>3 DEF Finalize, history
  <2>4. CASE OwnerDies(o) BY <1>t, <2>4 DEF OwnerDies, follows
  <2>q. QED BY <1>7, <2>1, <2>2, <2>3, <2>4 DEF OwnerStep
<1>q. QED BY <1>1, <1>2, <1>3, <1>4, <1>5, <1>6, <1>7 DEF Next, ReceiptStep

(* Whoever is a follower was sent an Accept, is about to be, or the        *)
(* request that should have sent it failed (handle_inbox_follow,           *)
(* authorize_pending_follow_request).                                      *)
THEOREM FollowersAreTold == Spec => []FollowerWasTold
<1>1. Init => FollowerWasTold BY DEF Init, FollowerWasTold
<1>2. TInv /\ FollowerWasTold /\ [Next]_vars => FollowerWasTold'
  <2> SUFFICES ASSUME TInv, FollowerWasTold, [Next]_vars, follower' # None
               PROVE  FollowerWasTold'
    BY DEF FollowerWasTold
  <2>1. CASE follower' = follower
    <3>1. CASE <<"Accept", follower>> \in told \/ follower \in half
      BY <2>1, <3>1, ToldSteps DEF FollowerWasTold
    <3>2. ASSUME NEW r \in Receipts, rc[r].step = "accept", rc[r].act = follower
          PROVE  FollowerWasTold'
      BY <2>1, <3>2, ToldSteps DEF FollowerWasTold
    <3>3. ASSUME NEW o \in Owners, owner[o].step = "accept", owner[o].of = follower
          PROVE  FollowerWasTold'
      BY <2>1, <3>3, ToldSteps DEF FollowerWasTold
    <3>q. QED BY <2>1, <3>1, <3>2, <3>3 DEF FollowerWasTold
  <2>2. CASE follower' # follower BY <2>2, ToldSteps DEF FollowerWasTold
  <2>q. QED BY <2>1, <2>2
<1>q. QED BY <1>1, <1>2, TypeCorrect, PTL DEF Spec
-----------------------------------------------------------------------------
(* What the activity of a receipt takes back is gone once the receipt has  *)
(* removed it, unless it was carried out again meanwhile.                  *)
Cleared(r) ==
    /\ rc[r].step \in {"unasku", "ok"} /\ follower # None /\ Supersedes(rc[r].act, follower)
         => follower \in revived
    /\ rc[r].step = "ok" /\ request # None /\ Supersedes(rc[r].act, request)
         => request \in revived
    /\ rc[r].step = "ok" /\ status # None /\ Supersedes(rc[r].act, status)
         => status \in revived

UInv == TakenBackStaysSo /\ \A r \in Receipts : Cleared(r)

(* The follower, the request and the status are kept, removed or carried   *)
(* out by a step that minds what supersedes them.                          *)
Effect(old, new) == new = old \/ new = None \/ revived' = Revived(new)
Effects == /\ Effect(follower, follower') /\ Effect(request, request')
           /\ Effect(status, status') /\ revived \subseteq revived'

(* Every step has such effects, and only a finish ends a handler.          *)
LEMMA EffectSteps ==
    ASSUME TInv, [Next]_vars
    PROVE  /\ Effects
           /\ \/ UNCHANGED handled
              \/ \E r \in Receipts : Finish(r) /\ handled' = handled \cup {rc[r].act}
<1> DEFINE Goal == /\ Effects
                   /\ \/ UNCHANGED handled
                      \/ \E r \in Receipts : Finish(r) /\ handled' = handled \cup {rc[r].act}
<1> SUFFICES Goal OBVIOUS
<1>a. \A a : revived \subseteq Revived(a) BY DEF Revived
<1>0. CASE UNCHANGED <<follower, request, status, revived, handled>>
  BY <1>0 DEF Effects, Effect
<1>1. ASSUME NEW r \in Receipts, Handle(r) PROVE Goal
  <2>1. UNCHANGED handled
    BY <1>1 DEF Handle, AskOwner, DropRequest, AddFollower, QueueAccept, MatchUndo, DropFollower,
                DropAsked, Store, Remove, history
  <2>2. CASE AskOwner(r) BY <1>a, <2>1, <2>2 DEF AskOwner, Effects, Effect
  <2>3. CASE AddFollower(r) BY <1>a, <2>1, <2>3 DEF AddFollower, Effects, Effect
  <2>4. CASE Store(r) BY <1>a, <2>1, <2>4 DEF Store, Effects, Effect, follows
  <2>5. CASE \/ DropRequest(r) \/ QueueAccept(r) \/ MatchUndo(r) \/ DropFollower(r)
             \/ DropAsked(r) \/ Remove(r)
    BY <2>1, <2>5 DEF DropRequest, QueueAccept, MatchUndo, DropFollower, DropAsked, Remove,
                      Removed, Effects, Effect, follows, history
  <2>q. QED BY <1>1, <2>2, <2>3, <2>4, <2>5 DEF Handle
<1>2. ASSUME NEW r \in Receipts, Finish(r) PROVE Goal
  BY <1>2 DEF Finish, Effects, Effect, follows
<1>3. CASE \E r \in Receipts : \/ BeginOrReplay(r) \/ Release(r) \/ Fail(r) \/ ReceiptDies(r)
                               \/ \E a \in Acts : Post(r, a)
  <2>1. UNCHANGED <<follower, request, status, revived, handled>>
    BY <1>3 DEF BeginOrReplay, Release, Fail, ReceiptDies, Post, follows, history
  <2>q. QED BY <1>0, <2>1
<1>4. CASE \/ \E a \in Acts : Age(a) \/ Reclaim(a)
           \/ ToggleLock \/ UNCHANGED vars
           \/ \E o \in Owners, step \in {"authorize", "reject"} : Answer(o, step)
  <2>1. UNCHANGED <<follower, request, status, revived, handled>>
    BY <1>4 DEF Age, Reclaim, ToggleLock, Answer, vars, follows, history
  <2>q. QED BY <1>0, <2>1
<1>5. ASSUME NEW o \in Owners, OwnerStep(o) \/ OwnerDies(o) PROVE Goal
  <2>1. CASE Authorize(o) BY <1>a, <2>1 DEF Authorize, Effects, Effect
  <2>2. CASE QueueAnswer(o) \/ Finalize(o) \/ OwnerDies(o)
    BY <2>2 DEF QueueAnswer, Finalize, OwnerDies, Effects, Effect, follows, history
  <2>q. QED BY <1>5, <2>1, <2>2 DEF OwnerStep
<1>q. QED BY <1>1, <1>2, <1>3, <1>4, <1>5 DEF Next, ReceiptStep

(* What supersedes an activity is an activity.                             *)
LEMMA SupersedesActs == ASSUME NEW a, NEW b, Supersedes(b, a) PROVE b \in Acts
  BY DEF Supersedes, Acts, Statuses

(* A step minds what was handled and what is being handled.                *)
LEMMA EffectMinds ==
    ASSUME TInv, NEW old, NEW new, Effect(old, new), revived \subseteq revived', new # None,
           NEW b, Supersedes(b, new), b \in handled \/ Working(b),
           new = old => old \in revived
    PROVE  new \in revived'
<1>1. CASE revived' = Revived(new) BY <1>1, SupersedesActs DEF Revived
<1>q. QED BY <1>1 DEF Effect

(* A receipt that a step leaves alone stays cleared.                       *)
LEMMA OthersCleared ==
    ASSUME TInv, Effects, NEW q \in Receipts, Cleared(q), rc'[q] = rc[q]
    PROVE  Cleared(q)'
<1>1. rc[q].step \in {"unasku", "ok"} => Working(rc[q].act) BY DEF Working, Works
<1>2. ASSUME rc[q].step \in {"unasku", "ok"}, follower' # None,
             Supersedes(rc[q].act, follower')
      PROVE  follower' \in revived'
  BY <1>1, <1>2, EffectMinds DEF Effects, Cleared
<1>3. ASSUME rc[q].step = "ok", request' # None, Supersedes(rc[q].act, request')
      PROVE  request' \in revived'
  BY <1>1, <1>3, EffectMinds DEF Effects, Cleared
<1>4. ASSUME rc[q].step = "ok", status' # None, Supersedes(rc[q].act, status')
      PROVE  status' \in revived'
  BY <1>1, <1>4, EffectMinds DEF Effects, Cleared
<1>q. QED BY <1>2, <1>3, <1>4 DEF Cleared, Supersedes

(* What each type of activity supersedes.                                  *)
LEMMA WhatSupersedes ==
    ASSUME NEW a
    PROVE  /\ \A b \in Follows \cup Creates : ~Supersedes(b, a)
           /\ \A b \in Undos : Supersedes(b, a) => a = Undoes[b] /\ a \in Follows
           /\ \A b \in Deletes : Supersedes(b, a) => a \in Statuses
           /\ \A b \in Updates : Supersedes(b, a) => a \in Creates
           /\ ~(a \in Follows /\ a \in Statuses)
  BY InboxAssumption DEF Supersedes, Statuses

(* A receipt that goes on has the same activity and the new step.          *)
LEMMA GotoStep ==
    ASSUME TInv, NEW r \in Receipts, NEW s, Goto(r, s)
    PROVE  /\ rc'[r].step = s /\ rc'[r].act = rc[r].act
           /\ \A q \in Receipts \ {r} : rc'[q] = rc[q]
<1>1. rc' = [rc EXCEPT ![r] = [rc[r] EXCEPT !.step = s]] BY DEF Goto
<1>2. rc[r] \in RcType /\ rc \in [Receipts -> RcType] BY DEF TInv
<1>q. QED BY <1>1, <1>2 DEF RcType

(* A handler that removes something has it cleared when it goes on.        *)
LEMMA HandlerCleared ==
    ASSUME TInv, NEW r \in Receipts, Cleared(r), Handle(r)
    PROVE  Cleared(r)' /\ \A q \in Receipts \ {r} : rc'[q] = rc[q]
<1> DEFINE Goal == Cleared(r)' /\ \A q \in Receipts \ {r} : rc'[q] = rc[q]
<1> SUFFICES Goal OBVIOUS
<1> USE NoneIsNoAct
<1>a. Fits(rc[r]) BY DEF TInv
<1>f. follower # None => follower \in Follows BY DEF TInv, Maybe
<1>g. request # None => request \in Follows BY DEF TInv, Maybe
<1>h. status # None => status \in Statuses BY DEF TInv, Maybe
<1>1. CASE AskOwner(r) \/ QueueAccept(r)
  <2>1. Goto(r, "ok") /\ rc[r].act \in Follows BY <1>1, <1>a DEF AskOwner, QueueAccept, Fits
  <2>q. QED BY <2>1, GotoStep, WhatSupersedes DEF Cleared, Supersedes
<1>2. CASE DropRequest(r) \/ AddFollower(r)
  <2>1. PICK s \in {"follow", "accept"} : Goto(r, s)
    BY <1>2 DEF DropRequest, AddFollower, AfterFollow
  <2>q. QED BY <2>1, GotoStep DEF Cleared
<1>3. CASE MatchUndo(r)
  <2>1. rc[r].act \in Undos /\ UNCHANGED <<follower, request, status, revived>>
    BY <1>3, <1>a DEF MatchUndo, Fits, follows, history
  <2>2. CASE Matches(rc[r].act)
    <3>1. Goto(r, "unfollow") BY <1>3, <2>2 DEF MatchUndo
    <3>q. QED BY <3>1, GotoStep DEF Cleared
  <2>3. CASE ~Matches(rc[r].act)
    <3>1. Goto(r, "ok") BY <1>3, <2>3 DEF MatchUndo
    <3>2. follower # Undoes[rc[r].act] /\ request # Undoes[rc[r].act] BY <2>3 DEF Matches
    <3>3. \A a : Supersedes(rc[r].act, a) => a = Undoes[rc[r].act] /\ ~(a \in Statuses)
      BY <2>1, WhatSupersedes
    <3>4. rc'[r].act = rc[r].act /\ \A q \in Receipts \ {r} : rc'[q] = rc[q]
      BY <3>1, GotoStep
    <3>5. Cleared(r)' BY <1>h, <2>1, <3>2, <3>3, <3>4 DEF Cleared, Supersedes
    <3>q. QED BY <3>4, <3>5
  <2>q. QED BY <2>2, <2>3
<1>4. CASE DropFollower(r)
  <2>1. Goto(r, "unasku") /\ follower' = None BY <1>4 DEF DropFollower
  <2>q. QED BY <2>1, GotoStep DEF Cleared
<1>5. CASE DropAsked(r)
  <2>1. /\ Goto(r, "ok") /\ request' = None /\ rc[r].act \in Undos
        /\ UNCHANGED <<follower, status, revived>> /\ rc[r].step = "unasku"
    BY <1>5, <1>a DEF DropAsked, Fits, history
  <2>2. \A a : Supersedes(rc[r].act, a) => ~(a \in Statuses) BY <2>1, WhatSupersedes
  <2>3. rc'[r].act = rc[r].act /\ \A q \in Receipts \ {r} : rc'[q] = rc[q] BY <2>1, GotoStep
  <2>4. Cleared(r)' BY <1>h, <2>1, <2>2, <2>3 DEF Cleared, Supersedes
  <2>q. QED BY <2>3, <2>4
<1>6. CASE Store(r)
  <2>1. PICK s \in {"ok", "err"} : Goto(r, s) BY <1>6 DEF Store
  <2>2. rc'[r].act = rc[r].act /\ \A q \in Receipts \ {r} : rc'[q] = rc[q] BY <2>1, GotoStep
  <2>3. /\ rc[r].act \in Creates \cup Updates /\ status' = rc[r].act
        /\ UNCHANGED <<follower, request>>
    BY <1>6, <1>a DEF Store, Fits, Statuses, follows
  <2>4. \A a : Supersedes(rc[r].act, a) => a \in Creates /\ ~(a \in Follows) /\ a # rc[r].act
    BY <2>3, WhatSupersedes, InboxAssumption DEF Statuses
  <2>5. Cleared(r)' BY <1>f, <1>g, <2>2, <2>3, <2>4 DEF Cleared, Supersedes
  <2>q. QED BY <2>2, <2>5
<1>7. CASE Remove(r)
  <2>1. /\ Goto(r, "ok") /\ status' = None /\ rc[r].act \in Deletes
        /\ UNCHANGED <<follower, request>>
    BY <1>7, <1>a DEF Remove, Removed, Fits, follows
  <2>2. rc'[r].act = rc[r].act /\ \A q \in Receipts \ {r} : rc'[q] = rc[q] BY <2>1, GotoStep
  <2>3. \A a : Supersedes(rc[r].act, a) => ~(a \in Follows) BY <2>1, WhatSupersedes
  <2>4. Cleared(r)' BY <1>f, <1>g, <2>1, <2>2, <2>3 DEF Cleared, Supersedes
  <2>q. QED BY <2>2, <2>4
<1>q. QED BY <1>1, <1>2, <1>3, <1>4, <1>5, <1>6, <1>7 DEF Handle

(* Every step leaves every receipt cleared.                                *)
LEMMA AllCleared ==
    ASSUME TInv, [Next]_vars, \A r \in Receipts : Cleared(r)
    PROVE  \A r \in Receipts : Cleared(r)'
<1> USE EffectSteps
<1>t. rc \in [Receipts -> RcType] BY DEF TInv
<1>1. ASSUME NEW r \in Receipts, Handle(r) PROVE \A q \in Receipts : Cleared(q)'
  BY <1>1, HandlerCleared, OthersCleared
<1>2. ASSUME NEW r \in Receipts,
             \/ BeginOrReplay(r) \/ Finish(r) \/ Release(r) \/ Fail(r) \/ ReceiptDies(r)
             \/ \E a \in Acts : Post(r, a)
      PROVE  \A q \in Receipts : Cleared(q)'
  <2>1. rc'[r].step \notin {"unasku", "ok"} /\ \A q \in Receipts \ {r} : rc'[q] = rc[q]
    <3>1. CASE BeginOrReplay(r) /\ row[rc[r].act] = "absent"
      <4>1. rc' = [rc EXCEPT ![r] = [rc[r] EXCEPT !.step = Handler(r, rc[r].act), !.locked = FALSE]]
        BY <3>1, <1>t DEF BeginOrReplay
      <4>2. rc[r].act \in Acts BY <3>1, <1>t DEF BeginOrReplay, TInv, Fits, RcType, Maybe
      <4>3. Handler(r, rc[r].act) \in {"ask", "unask", "match", "store", "remove"}
        BY <4>2 DEF Handler, Acts
      <4>4. rc[r] \in RcType BY <1>t
      <4>5. rc'[r].step = Handler(r, rc[r].act) BY <1>t, <4>1, <4>4 DEF RcType
      <4>q. QED BY <1>t, <4>1, <4>3, <4>5
    <3>2. CASE Fail(r)
      <4>1. Goto(r, "err") BY <3>2 DEF Fail
      <4>q. QED BY <4>1, GotoStep
    <3>3. CASE \E a \in Acts : Post(r, a)
      <4>1. PICK a \in Acts : Post(r, a) BY <3>3
      <4>q. QED BY <1>t, <4>1 DEF Post
    <3>4. CASE rc' = [rc EXCEPT ![r] = Idle] BY <1>t, <3>4 DEF Idle
    <3>q. QED BY <1>2, <3>1, <3>2, <3>3, <3>4 DEF BeginOrReplay, Finish, Release, ReceiptDies
  <2>2. Cleared(r)' BY <2>1 DEF Cleared
  <2>q. QED BY <2>1, <2>2, OthersCleared
<1>3. CASE UNCHANGED rc BY <1>3, OthersCleared
<1>4. CASE \/ \E a \in Acts : Age(a) \/ Reclaim(a)
           \/ ToggleLock \/ UNCHANGED vars
           \/ \E o \in Owners : OwnerStep(o) \/ OwnerDies(o)
           \/ \E o \in Owners, step \in {"authorize", "reject"} : Answer(o, step)
  <2>1. UNCHANGED rc
    BY <1>4 DEF Age, Reclaim, ToggleLock, Answer, OwnerStep, OwnerDies, Authorize, QueueAnswer,
                Finalize, vars
  <2>q. QED BY <1>3, <2>1
<1>q. QED BY <1>1, <1>2, <1>4 DEF Next, ReceiptStep

(* What an Undo, a Delete or an Update took back stays so unless it was    *)
(* carried out again beside it or after it (handle_inbox_undo,             *)
(* handle_inbox_delete, upsert_remote_status).                             *)
THEOREM TakenBackForGood == Spec => []TakenBackStaysSo
<1>1. Init => UInv BY DEF Init, UInv, TakenBackStaysSo, Cleared
<1>2. TInv /\ UInv /\ [Next]_vars => UInv'
  <2> SUFFICES ASSUME TInv, UInv, [Next]_vars PROVE UInv' OBVIOUS
  <2>1. \A r \in Receipts : Cleared(r)' BY AllCleared DEF UInv
  <2>2. ASSUME NEW b \in handled, NEW old, NEW new, Effect(old, new), new # None,
               old \in {follower, request, status}, Supersedes(b, new)
        PROVE  new \in revived'
    <3>1. new = old => old \in revived BY <2>2 DEF UInv, TakenBackStaysSo
    <3>2. revived \subseteq revived' BY EffectSteps DEF Effects
    <3>q. QED BY <2>2, <3>1, <3>2, EffectMinds
  <2>3. ASSUME NEW b \in handled, NEW new \in {follower', request', status'}, new # None,
               Supersedes(b, new)
        PROVE  new \in revived'
    BY <2>2, <2>3, EffectSteps DEF Effects
  <2>4. ASSUME NEW r \in Receipts, Finish(r), NEW new \in {follower', request', status'},
               new # None, Supersedes(rc[r].act, new)
        PROVE  new \in revived'
    <3>1. UNCHANGED <<follower, request, status, revived>> /\ rc[r].step = "ok"
      BY <2>4 DEF Finish, follows
    <3>2. Cleared(r) BY DEF UInv
    <3>q. QED BY <2>4, <3>1, <3>2 DEF Cleared
  <2>5. TakenBackStaysSo'
    <3> SUFFICES ASSUME NEW b \in handled', NEW new \in {follower', request', status'},
                        new # None, Supersedes(b, new)
                 PROVE  new \in revived'
      BY DEF TakenBackStaysSo, Supersedes
    <3>1. CASE b \in handled BY <2>3, <3>1
    <3>2. ASSUME NEW r \in Receipts, Finish(r), b = rc[r].act PROVE new \in revived'
      BY <2>4, <3>2
    <3>q. QED BY <3>1, <3>2, EffectSteps
  <2>q. QED BY <2>1, <2>5 DEF UInv
<1>3. UInv => TakenBackStaysSo BY DEF UInv
<1>q. QED BY <1>1, <1>2, <1>3, TypeCorrect, PTL DEF Spec
=============================================================================
