--------------------------- MODULE PublishingProofs ---------------------------
(***************************************************************************)
(* Proofs about publishing, for any posts, media, workers, lifetimes and   *)
(* number of faults.  What a sweep lists is left open: nothing here rests  *)
(* on the order or the choice of the rows.                                 *)
(***************************************************************************)
EXTENDS Publishing, TLAPS

Fields == {"kind", "age", "list", "moved", "post", "step", "copy"}

(* The workers are records; what they list is not looked at.               *)
Shape == /\ wk = [w \in Workers |-> wk[w]]
         /\ \A w \in Workers : DOMAIN wk[w] = Fields

(* A worker keeps its post, its status and where it is.                    *)
Same(w) == /\ wk'[w].kind = wk[w].kind /\ wk'[w].post = wk[w].post
           /\ wk'[w].step = wk[w].step /\ wk'[w].copy = wk[w].copy

(* Only w moves.                                                           *)
OnlyMoves(w) == \A v \in Workers \ {w} : Same(v)

(* What an idle worker is.                                                 *)
LEMMA IdleShape ==
    /\ DOMAIN Idle = Fields /\ Idle.step = "idle" /\ Idle.kind = "idle"
    /\ Idle.copy = 0 /\ Idle.post = None
  BY DEF Idle, Fields

(* A worker that goes on keeps its post and its status.                    *)
LEMMA GotoStep ==
    ASSUME Shape, NEW w \in Workers, NEW s, Goto(w, s)
    PROVE  /\ Shape' /\ OnlyMoves(w)
           /\ wk'[w].step = s /\ wk'[w].post = wk[w].post /\ wk'[w].copy = wk[w].copy
           /\ wk'[w].kind = wk[w].kind
  BY DEF Shape, Goto, Fields, OnlyMoves, Same

(* A worker that ends is idle.                                             *)
LEMMA EndStep ==
    ASSUME Shape, NEW w \in Workers, wk' = [wk EXCEPT ![w] = Idle]
    PROVE  /\ Shape' /\ OnlyMoves(w)
           /\ wk'[w].step = "idle" /\ wk'[w].copy = 0 /\ wk'[w].kind = "idle"
  BY IdleShape DEF Shape, OnlyMoves, Same

(* A sweep that leaves a row is about to claim another, or ends.           *)
LEMMA LeaveStep ==
    ASSUME Shape, NEW w \in Workers, Leave(w)
    PROVE  /\ Shape' /\ OnlyMoves(w)
           /\ wk'[w].copy = 0
           /\ \/ wk'[w].step = "idle" /\ wk'[w].kind = "idle"
              \/ wk'[w].step = "claim" /\ wk'[w].kind = "sweep" /\ wk[w].kind = "sweep"
<1>1. CASE Left(w) = Idle
  <2>1. wk' = [wk EXCEPT ![w] = Idle] BY <1>1 DEF Leave
  <2>q. QED BY <2>1, EndStep
<1>2. CASE Left(w) # Idle
  <2>1. wk[w].kind = "sweep" BY <1>2 DEF Left
  <2>2. wk' = [wk EXCEPT ![w] = [wk[w] EXCEPT !.list = Tail(@), !.post = Head(Tail(wk[w].list)),
                                !.step = "claim", !.copy = 0]]
    BY <1>2 DEF Leave, Left
  <2>q. QED BY <2>1, <2>2 DEF Shape, Fields, OnlyMoves, Same
<1>q. QED BY <1>1, <1>2

(* Where each step of a worker leads.                                      *)
Moves(w, steps) ==
    /\ OnlyMoves(w)
    /\ wk'[w].step \in steps /\ wk'[w].kind = wk[w].kind
    /\ wk'[w].post = wk[w].post /\ wk'[w].copy = wk[w].copy
Leaves(w) ==
    /\ OnlyMoves(w)
    /\ wk'[w].copy = 0
    /\ \/ wk'[w].step = "idle" /\ wk'[w].kind = "idle"
       \/ wk'[w].step = "claim" /\ wk'[w].kind = "sweep" /\ wk[w].kind = "sweep"

(* A claim moves to the media, or leaves the row.                          *)
LEMMA ClaimStep ==
    ASSUME Shape, NEW w \in Workers, Claim(w)
    PROVE  /\ Shape'
           /\ \/ Claimable(w, wk[w].post) /\ Moves(w, {"media"})
              \/ ~Claimable(w, wk[w].post) /\ Leaves(w)
<1>1. CASE Claimable(w, wk[w].post)
  <2>1. PICK x : /\ wk' = [wk EXCEPT ![w] = x]
                 /\ \/ x = [wk[w] EXCEPT !.step = "media"]
                    \/ x = [wk[w] EXCEPT !.step = "media", !.age = 0, !.moved = {}]
    BY <1>1 DEF Claim
  <2>2. /\ DOMAIN x = Fields /\ x.step = "media" /\ x.kind = wk[w].kind
        /\ x.post = wk[w].post /\ x.copy = wk[w].copy
    BY <2>1 DEF Shape, Fields
  <2>3. Shape' /\ Moves(w, {"media"}) BY <2>1, <2>2 DEF Shape, Moves, OnlyMoves, Same
  <2>q. QED BY <1>1, <2>3
<1>2. CASE ~Claimable(w, wk[w].post)
  BY <1>2, LeaveStep DEF Claim, Leaves
<1>q. QED BY <1>1, <1>2

(* An insert counts the status it stores.                                  *)
LEMMA InsertStep ==
    ASSUME Shape, NEW w \in Workers, Insert(w)
    PROVE  /\ Shape' /\ OnlyMoves(w)
           /\ wk'[w].step = (IF uses[wk[w].post] # {} THEN "attach" ELSE "done")
           /\ wk'[w].kind = wk[w].kind /\ wk'[w].post = wk[w].post
           /\ wk'[w].copy = stored[wk[w].post] + 1
<1>1. wk' = [wk EXCEPT ![w] = [wk[w] EXCEPT !.copy = stored[wk[w].post] + 1,
                !.step = IF uses[wk[w].post] # {} THEN "attach" ELSE "done"]]
  BY DEF Insert, Shape
<1>q. QED BY <1>1 DEF Shape, Fields, OnlyMoves, Same

(* A sweep and a request begin without a status.                           *)
LEMMA StartStep ==
    ASSUME Shape, NEW w \in Workers, StartSweep(w) \/ \E d \in Direct : Request(w, d)
    PROVE  /\ Shape' /\ OnlyMoves(w) /\ wk[w] = Idle /\ wk'[w].copy = 0
           /\ \/ wk'[w].step = "claim" /\ wk'[w].kind = "sweep"
              \/ /\ wk'[w].step = "find" /\ wk'[w].kind = "request"
                 /\ wk'[w].post \in Direct \cap (DOMAIN uses \ answered)
<1>1. CASE StartSweep(w)
  <2>1. wk' = [wk EXCEPT ![w] = [Idle EXCEPT !.kind = "sweep", !.list = Listed,
                                            !.post = Head(Listed), !.step = "claim"]]
    BY <1>1 DEF StartSweep
  <2>2. PICK x : /\ x = [Idle EXCEPT !.kind = "sweep", !.list = Listed,
                                   !.post = Head(Listed), !.step = "claim"]
                 /\ wk' = [wk EXCEPT ![w] = x]
    BY <2>1
  <2>3. DOMAIN x = Fields /\ x.kind = "sweep" /\ x.step = "claim" /\ x.copy = 0
    BY <2>2 DEF Idle, Fields
  <2>4. Shape' /\ OnlyMoves(w) /\ wk'[w] = x BY <2>2, <2>3 DEF Shape, OnlyMoves, Same
  <2>q. QED BY <1>1, <2>3, <2>4 DEF StartSweep
<1>2. ASSUME NEW d \in Direct, Request(w, d)
      PROVE  /\ Shape' /\ OnlyMoves(w) /\ wk[w] = Idle /\ wk'[w].copy = 0
             /\ wk'[w].step = "find" /\ wk'[w].kind = "request"
             /\ wk'[w].post \in Direct \cap (DOMAIN uses \ answered)
  <2>1. wk' = [wk EXCEPT ![w] = [Idle EXCEPT !.kind = "request", !.post = d, !.step = "find"]]
    BY <1>2 DEF Request
  <2>2. PICK x : /\ x = [Idle EXCEPT !.kind = "request", !.post = d, !.step = "find"]
                 /\ wk' = [wk EXCEPT ![w] = x]
    BY <2>1
  <2>3. DOMAIN x = Fields /\ x.kind = "request" /\ x.step = "find" /\ x.copy = 0 /\ x.post = d
    BY <2>2 DEF Idle, Fields
  <2>4. Shape' /\ OnlyMoves(w) /\ wk'[w] = x BY <2>2, <2>3 DEF Shape, OnlyMoves, Same
  <2>q. QED BY <1>2, <2>3, <2>4 DEF Request
<1>q. QED BY <1>1, <1>2

(* Others only take away what posts refer to.                              *)
LEMMA WorldStep ==
    ASSUME World
    PROVE  /\ UNCHANGED <<plan, row, line, wait, claim, wk, stored, out, att, client, faults>>
           /\ UNCHANGED <<slow, overlapped, broken, expired, refused, late, against>>
           /\ gone \subseteq gone'
  BY DEF World, TargetTurns, FindOrphan, RemoveMedium, schedule, history

(* The author, others, the clock and the purge of keys move nobody.        *)
LEMMA QuietStep ==
    ASSUME Shape,
           \/ \E s \in Scheduled : Schedule(s) \/ Reschedule(s) \/ Cancel(s)
           \/ \E d \in Direct : ExpireKey(d)
           \/ World \/ Tick \/ UNCHANGED vars
    PROVE  Shape' /\ \A w \in Workers : Same(w)
<1>1. CASE UNCHANGED wk BY <1>1 DEF Shape, Same
<1>2. CASE \/ \E s \in Scheduled : Schedule(s) \/ Cancel(s)
           \/ \E d \in Direct : ExpireKey(d)
           \/ World \/ UNCHANGED vars
  BY <1>1, <1>2, WorldStep DEF Schedule, Cancel, ExpireKey, vars
<1>3. ASSUME NEW s \in Scheduled, Reschedule(s) PROVE Shape' /\ \A w \in Workers : Same(w)
  <2>1. wk' = [w \in Workers |->
                 IF Counting(w) THEN [wk[w] EXCEPT !.moved = @ \cup {s}] ELSE wk[w]]
    BY <1>3 DEF Reschedule
  <2>q. QED BY <2>1 DEF Shape, Fields, Same
<1>4. CASE Tick
  <2>1. wk' = [w \in Workers |-> IF Counting(w) THEN [wk[w] EXCEPT !.age = @ + 1] ELSE wk[w]]
    BY <1>4 DEF Tick
  <2>q. QED BY <2>1 DEF Shape, Fields, Same
<1>q. QED BY <1>2, <1>3, <1>4

-----------------------------------------------------------------------------
(* A worker is at a post it may be at: a request at one with a key, a      *)
(* sweep, once it has claimed, at a scheduled one.  It has a status in     *)
(* hand after it stored one.                                               *)
Fit(w) ==
    /\ wk[w].step \in {"find", "answer"} => wk[w].kind = "request"
    /\ wk[w].step = "claim" => wk[w].kind = "sweep"
    /\ wk[w].kind = "request" => wk[w].post \in Direct \cap DOMAIN uses
    /\ AtWork(w) => wk[w].kind \in {"sweep", "request"}
    /\ AtWork(w) /\ wk[w].kind = "sweep" =>
         wk[w].post \in Scheduled \cap DOMAIN uses /\ row[wk[w].post] # "none"
    /\ ~(wk[w].step \in {"attach", "outbox", "done", "answer"}) => wk[w].copy = 0
    /\ wk[w].step \in {"attach", "outbox", "done"} => wk[w].copy # 0
    /\ AtWork(w) => wk[w].copy \in 0 .. stored[wk[w].post]

RowType == [Scheduled -> {"none", "pending", "cancelled", "done"}]

BInv ==
    /\ plan \in Plans
    /\ Shape
    /\ stored \in [Posts -> Nat] /\ row \in RowType
    /\ att = [m \in Media |-> att[m]]
    /\ key = [d \in Direct |-> key[d]]
    /\ \A s \in Scheduled : row[s] # "none" => s \in DOMAIN uses
    /\ \A w \in Workers : Fit(w)

(* The media of a post are media.                                          *)
LEMMA UsesMedia == plan \in Plans => \A p \in DOMAIN uses : uses[p] \subseteq Media
<1> SUFFICES ASSUME plan \in Plans PROVE \A p \in DOMAIN uses : uses[p] \subseteq Media
  OBVIOUS
<1>1. PICK P \in SUBSET Posts : uses \in [P -> SUBSET Media]
  BY PublishingAssumption DEF uses
<1>q. QED BY <1>1

(* A worker at work is at a post.                                          *)
LEMMA WorksOnPost ==
    ASSUME BInv, NEW w \in Workers, AtWork(w)
    PROVE  wk[w].post \in Posts /\ wk[w].post \in DOMAIN uses
  BY DEF BInv, Fit, Posts

(* What was stored and what there is of rows only grows.                   *)
Grows == /\ \A p \in Posts : stored[p] <= stored'[p]
         /\ \A s \in Scheduled : row[s] # "none" => row'[s] # "none"
         /\ UNCHANGED plan

(* A worker that stays where it is, fits there.                            *)
LEMMA FitSame ==
    ASSUME BInv, NEW w \in Workers, Same(w), Grows, stored' \in [Posts -> Nat]
    PROVE  Fit(w)'
<1>1. AtWork(w)' <=> AtWork(w) BY DEF AtWork, Same
<1>2. UNCHANGED uses BY DEF uses, Grows
<1>3. AtWork(w) => wk[w].copy \in 0 .. stored'[wk[w].post]
  <2> SUFFICES ASSUME AtWork(w) PROVE wk[w].copy \in 0 .. stored'[wk[w].post] OBVIOUS
  <2> DEFINE p == wk[w].post
  <2>1. p \in Posts BY WorksOnPost
  <2>2. wk[w].copy \in 0 .. stored[p] BY DEF BInv, Fit
  <2>3. stored[p] \in Nat /\ stored'[p] \in Nat /\ stored[p] <= stored'[p]
    BY <2>1 DEF BInv, Grows
  <2> HIDE DEF p
  <2>q. QED BY <2>2, <2>3 DEF p
<1>4. Fit(w) BY DEF BInv
<1>q. QED BY <1>1, <1>2, <1>3, <1>4 DEF Fit, Same, Grows

(* A step that stores nothing and leaves the tables as they are.           *)
LEMMA BMove ==
    ASSUME BInv, NEW w \in Workers, Shape', OnlyMoves(w), Fit(w)', Grows,
           stored' \in [Posts -> Nat], row' \in RowType,
           att' = [m \in Media |-> att'[m]],
           key' = [d \in Direct |-> key'[d]],
           \A s \in Scheduled : row'[s] # "none" => row[s] # "none"
    PROVE  BInv'
<1>1. \A v \in Workers : Fit(v)' BY FitSame DEF OnlyMoves
<1>2. plan' \in Plans BY DEF BInv, Grows
<1>3. \A s \in Scheduled : row'[s] # "none" => s \in DOMAIN uses'
  BY DEF BInv, Grows, uses
<1>q. QED BY <1>1, <1>2, <1>3 DEF BInv

(* The initial state.                                                      *)
LEMMA BInit == Init => BInv
<1> SUFFICES ASSUME Init PROVE BInv OBVIOUS
<1> USE DEF Init
<1>1. Shape BY IdleShape DEF Shape
<1>2. \A w \in Workers : Fit(w) BY IdleShape DEF Fit, AtWork
<1>q. QED BY <1>1, <1>2 DEF BInv, RowType

(* A step that changes none of the tables the workers are at.              *)
LEMMA BTables ==
    ASSUME BInv, NEW w \in Workers, Shape', OnlyMoves(w), Fit(w)',
           UNCHANGED <<plan, row, stored, att, gone, key>>
    PROVE  BInv'
<1>1. Grows BY DEF Grows, BInv
<1>q. QED BY <1>1, BMove DEF BInv

(* The steps of a worker.                                                  *)
LEMMA BWorker == ASSUME BInv, NEW w \in Workers, WorkerStep(w) PROVE BInv'
<1>s. Shape /\ Fit(w) BY DEF BInv
<1>1. CASE Claim(w)
  <2>1. Shape' /\ UNCHANGED <<plan, row, stored, att, gone, key>>
    BY <1>1, <1>s, ClaimStep DEF Claim, posted, others, client
  <2>2. CASE Claimable(w, wk[w].post) /\ Moves(w, {"media"})
    <3>1. wk[w].post \in Scheduled /\ row[wk[w].post] = "pending"
      BY <2>2 DEF Claimable, Pending
    <3>2. wk[w].step = "claim" BY <1>1 DEF Claim, At
    <3>3. wk[w].post \in DOMAIN uses /\ stored[wk[w].post] \in Nat BY <3>1 DEF BInv, Posts
    <3>4. Fit(w)'
      BY <1>s, <2>1, <2>2, <3>1, <3>2, <3>3 DEF Fit, Moves, AtWork, uses
    <3>q. QED BY <2>1, <2>2, <3>4, BTables DEF Moves
  <2>3. CASE Leaves(w)
    <3>1. Fit(w)' BY <2>1, <2>3 DEF Fit, Leaves, AtWork
    <3>q. QED BY <2>1, <2>3, <3>1, BTables DEF Leaves
  <2>q. QED BY <1>1, <1>s, <2>2, <2>3, ClaimStep
<1>2. CASE FindKey(w)
  <2>1. PICK s \in {"media", "answer"} : Goto(w, s) BY <1>2 DEF FindKey, AfterFind
  <2>2. Shape' /\ Moves(w, {s}) BY <1>s, <2>1, GotoStep DEF Moves
  <2>3. UNCHANGED <<plan, row, stored, att, gone, key>>
    BY <1>2 DEF FindKey, schedule, posted, others, client
  <2>4. wk[w].step = "find" BY <1>2 DEF FindKey, At
  <2>5. stored[wk[w].post] \in Nat BY <1>s, <2>4 DEF Fit, BInv, Posts
  <2>6. Fit(w)' BY <1>s, <2>1, <2>2, <2>3, <2>4, <2>5 DEF Fit, Moves, AtWork, uses
  <2>q. QED BY <2>2, <2>3, <2>6, BTables DEF Moves
<1>3. CASE ResolveMedia(w)
  <2>1. UNCHANGED <<plan, row, stored, att, gone, key>>
    BY <1>3 DEF ResolveMedia, schedule, posted, others
  <2>2. wk[w].step = "media" BY <1>3 DEF ResolveMedia, At
  <2>3. CASE Goto(w, "insert")
    <3>1. Shape' /\ Moves(w, {"insert"}) BY <1>s, <2>3, GotoStep DEF Moves
    <3>2. Fit(w)' BY <1>s, <2>1, <2>2, <3>1 DEF Fit, Moves, AtWork, uses
    <3>q. QED BY <2>1, <3>1, <3>2, BTables DEF Moves
  <2>4. CASE Leave(w)
    <3>1. Shape' /\ Leaves(w) BY <1>s, <2>4, LeaveStep DEF Leaves
    <3>2. Fit(w)' BY <3>1 DEF Fit, Leaves, AtWork
    <3>q. QED BY <2>1, <3>1, <3>2, BTables DEF Leaves
  <2>q. QED BY <1>3, <2>3, <2>4 DEF ResolveMedia
<1>4. CASE Insert(w)
  <2> DEFINE p == wk[w].post
  <2>1. wk[w].step = "insert" BY <1>4 DEF Insert, At
  <2>2. p \in Posts /\ p \in DOMAIN uses BY <2>1, WorksOnPost DEF AtWork
  <2>3. stored[p] \in Nat BY <2>2 DEF BInv
  <2>4. stored' = [stored EXCEPT ![p] = stored[p] + 1] BY <1>4 DEF Insert
  <2>5. UNCHANGED <<plan, row, att, gone, key>> BY <1>4 DEF Insert, schedule, others, client
  <2>6. stored' \in [Posts -> Nat]
    <3>1. stored[p] + 1 \in Nat /\ stored \in [Posts -> Nat] BY <2>3 DEF BInv
    <3> HIDE DEF p
    <3>q. QED BY <2>4, <3>1
  <2>7. Grows
    <3>1. ASSUME NEW q \in Posts PROVE stored[q] <= stored'[q]
      <4>1. stored[q] \in Nat BY DEF BInv
      <4>q. QED BY <2>3, <2>4, <4>1 DEF BInv
    <3>q. QED BY <2>5, <3>1 DEF Grows
  <2>8. /\ Shape' /\ OnlyMoves(w) /\ wk'[w].step \in {"attach", "done"}
        /\ wk'[w].kind = wk[w].kind /\ wk'[w].post = p /\ wk'[w].copy = stored[p] + 1
    BY <1>4, <1>s, InsertStep
  <2>9. stored'[wk'[w].post] = stored[p] + 1 BY <2>2, <2>4, <2>8 DEF BInv
  <2>10. wk'[w].copy \in 0 .. stored'[wk'[w].post] /\ wk'[w].copy # 0
    BY <2>3, <2>8, <2>9
  <2> HIDE DEF p
  <2>11. Fit(w)' BY <1>s, <2>1, <2>5, <2>8, <2>10 DEF Fit, AtWork, uses, p
  <2>q. QED BY <2>5, <2>6, <2>7, <2>8, <2>11, BMove DEF BInv
<1>5. CASE Attach(w)
  <2>1. UNCHANGED <<plan, row, stored, key>> BY <1>5 DEF Attach, schedule, client
  <2>2. wk[w].step = "attach" BY <1>5 DEF Attach, At
  <2>3. att' = [m \in Media |-> att'[m]] BY <1>5 DEF Attach, BInv
  <2>4. Grows BY <2>1 DEF Grows, BInv
  <2>5. CASE Goto(w, "outbox")
    <3>1. Shape' /\ Moves(w, {"outbox"}) BY <1>s, <2>5, GotoStep DEF Moves
    <3>2. Fit(w)' BY <1>s, <2>1, <2>2, <3>1 DEF Fit, Moves, AtWork, uses
    <3>q. QED BY <2>1, <2>3, <2>4, <3>1, <3>2, BMove DEF Moves, BInv
  <2>6. CASE Leave(w)
    <3>1. Shape' /\ Leaves(w) BY <1>s, <2>6, LeaveStep DEF Leaves
    <3>2. Fit(w)' BY <3>1 DEF Fit, Leaves, AtWork
    <3>q. QED BY <2>1, <2>3, <2>4, <3>1, <3>2, BMove DEF Leaves, BInv
  <2>q. QED BY <1>5, <2>5, <2>6 DEF Attach
<1>6. CASE InsertOutbox(w)
  <2>1. UNCHANGED <<plan, row, stored, att, gone, key>>
    BY <1>6 DEF InsertOutbox, schedule, others, client
  <2>2. wk[w].step = "outbox" BY <1>6 DEF InsertOutbox, At
  <2>3. Shape' /\ Moves(w, {"done"}) BY <1>6, <1>s, GotoStep DEF InsertOutbox, Moves
  <2>4. Fit(w)' BY <1>s, <2>1, <2>2, <2>3 DEF Fit, Moves, AtWork, uses
  <2>q. QED BY <2>1, <2>3, <2>4, BTables DEF Moves
<1>7. CASE DeleteRow(w)
  <2>1. UNCHANGED <<plan, stored, att, gone, key>> BY <1>7 DEF DeleteRow, posted, others, client
  <2>2. Shape' /\ Leaves(w) BY <1>7, <1>s, LeaveStep DEF DeleteRow, Leaves
  <2>3. Fit(w)' BY <2>2 DEF Fit, Leaves, AtWork
  <2>4. \/ UNCHANGED row
        \/ row[wk[w].post] = "pending" /\ row' = [row EXCEPT ![wk[w].post] = "done"]
    BY <1>7 DEF DeleteRow, schedule
  <2>5. row' \in RowType /\ \A s \in Scheduled : row'[s] # "none" <=> row[s] # "none"
    BY <2>4 DEF BInv, RowType
  <2>6. Grows BY <2>1, <2>5 DEF Grows, BInv
  <2>q. QED BY <2>1, <2>2, <2>3, <2>5, <2>6, BMove DEF Leaves, BInv
<1>8. CASE RecordKey(w)
  <2>1. UNCHANGED <<plan, row, stored, att, gone>> BY <1>8 DEF RecordKey, schedule, posted, others
  <2>2. wk[w].step = "done" /\ wk[w].kind = "request" BY <1>8 DEF RecordKey, At
  <2>3. Shape' /\ Moves(w, {"answer"}) BY <1>8, <1>s, GotoStep DEF RecordKey, Moves
  <2>4. Fit(w)' BY <1>s, <2>1, <2>2, <2>3 DEF Fit, Moves, AtWork, uses
  <2>5. key' = [d \in Direct |-> key'[d]] BY <1>8 DEF RecordKey, BInv
  <2>6. Grows BY <2>1 DEF Grows, BInv
  <2>q. QED BY <2>1, <2>3, <2>4, <2>5, <2>6, BMove DEF Moves, BInv
<1>9. CASE Answer(w)
  <2>1. UNCHANGED <<plan, row, stored, att, gone, key>> BY <1>9 DEF Answer, schedule, posted, others
  <2>2. /\ Shape' /\ OnlyMoves(w)
        /\ wk'[w].step = "idle" /\ wk'[w].copy = 0 /\ wk'[w].kind = "idle"
    BY <1>9, <1>s, EndStep DEF Answer
  <2>3. Fit(w)' BY <2>2 DEF Fit, AtWork
  <2>q. QED BY <2>1, <2>2, <2>3, BTables
<1>q. QED BY <1>1, <1>2, <1>3, <1>4, <1>5, <1>6, <1>7, <1>8, <1>9 DEF WorkerStep

(* The other steps.                                                        *)
LEMMA BNext == BInv /\ [Next]_vars => BInv'
<1> SUFFICES ASSUME BInv, [Next]_vars PROVE BInv' OBVIOUS
<1>s. Shape BY DEF BInv
<1>1. ASSUME NEW w \in Workers, StartSweep(w) \/ \E d \in Direct : Request(w, d) PROVE BInv'
  <2>1. UNCHANGED <<plan, row, stored, att, gone, key>>
    BY <1>1 DEF StartSweep, Request, schedule, posted, others, client
  <2>2. Fit(w)' BY <1>1, <1>s, <2>1, StartStep DEF Fit, AtWork, uses
  <2>q. QED BY <1>1, <1>s, <2>1, <2>2, StartStep, BTables
<1>2. ASSUME NEW w \in Workers, Fail(w) PROVE BInv'
  <2>1. UNCHANGED <<plan, row, stored, att, gone, key>>
    BY <1>2 DEF Fail, RowsAfterFail, posted, others, client
  <2>2. Shape' /\ Leaves(w) BY <1>2, <1>s, LeaveStep DEF Fail, Leaves
  <2>3. Fit(w)' BY <2>2 DEF Fit, Leaves, AtWork
  <2>q. QED BY <2>1, <2>2, <2>3, BTables DEF Leaves
<1>3. ASSUME NEW w \in Workers, Die(w) PROVE BInv'
  <2>1. UNCHANGED <<plan, row, stored, att, gone, key>> BY <1>3 DEF Die, schedule, posted, others, client
  <2>2. /\ Shape' /\ OnlyMoves(w)
        /\ wk'[w].step = "idle" /\ wk'[w].copy = 0 /\ wk'[w].kind = "idle"
    BY <1>3, <1>s, EndStep DEF Die
  <2>3. Fit(w)' BY <2>2 DEF Fit, AtWork
  <2>q. QED BY <2>1, <2>2, <2>3, BTables
<1>4. CASE \/ \E s \in Scheduled : Schedule(s) \/ Reschedule(s) \/ Cancel(s)
           \/ \E d \in Direct : ExpireKey(d)
           \/ World \/ Tick \/ UNCHANGED vars
  <2>1. Shape' /\ \A w \in Workers : Same(w) BY <1>4, <1>s, QuietStep
  <2>2. UNCHANGED <<plan, stored, att>>
    BY <1>4, WorldStep DEF Schedule, Reschedule, Cancel, ExpireKey, Tick, posted, vars
  <2>3. /\ row' \in RowType
        /\ \A s \in Scheduled : /\ row[s] # "none" => row'[s] # "none"
                                /\ row'[s] # "none" => s \in DOMAIN uses
    BY <1>4, WorldStep
    DEF Schedule, Reschedule, Cancel, ExpireKey, Tick, Pending, schedule, vars, BInv, RowType
  <2>4. Grows BY <2>2, <2>3 DEF Grows, BInv
  <2>5. \A w \in Workers : Fit(w)' BY <2>1, <2>2, <2>4, FitSame DEF BInv
  <2>6. key' = [d \in Direct |-> key'[d]]
    BY <1>4, WorldStep DEF Schedule, Reschedule, Cancel, ExpireKey, Tick, client, vars, BInv
  <2>q. QED BY <2>1, <2>2, <2>3, <2>5, <2>6 DEF BInv, uses
<1>q. QED BY <1>1, <1>2, <1>3, <1>4, BWorker DEF Next

(* What every later argument rests on.                                     *)
THEOREM WorkersFit == Spec => []BInv
<1>q. QED BY BInit, BNext, PTL DEF Spec

-----------------------------------------------------------------------------
(* A status is a post and a number up to how many were made of it.         *)
LEMMA StatusIs ==
    /\ \A p, i : <<p, i>> \in Statuses <=> p \in Posts /\ i \in 1 .. stored[p]
    /\ \A c \in Statuses : c = <<c[1], c[2]>>
    /\ Unattached \notin Statuses
<1>1. \A p \in Posts : \A c : c \in Made(p) <=> \E i \in 1 .. stored[p] : c = <<p, i>>
  BY DEF Made
<1>2. \A c : c \in Statuses <=> \E p \in Posts : c \in Made(p)
  BY DEF Statuses
<1>q. QED BY <1>1, <1>2, NoneIsNoPost DEF Unattached

(* What a worker knows of the status in its hand.                          *)
SFit(w) ==
    /\ AtWork(w) /\ wk[w].copy # 0 =>
         \A v \in Workers : AtWork(v) /\ Copy(v) = Copy(w) => v = w
    /\ wk[w].step = "attach" => /\ uses[wk[w].post] # {} /\ Copy(w) \notin out
                                /\ \A m \in Media : att[m] # Copy(w)
    /\ wk[w].step = "outbox" => /\ uses[wk[w].post] # {}
                                /\ \A m \in Media : att[m] = Copy(w) <=> m \in uses[wk[w].post]
    /\ wk[w].step \in {"done", "answer"} /\ wk[w].copy # 0 => Copy(w) \in out

(* Statuses and their media.                                               *)
Whole(c) == /\ c[1] \in DOMAIN uses
            /\ \/ \A m \in Media : att[m] = c <=> m \in uses[c[1]]
               \/ c \notin out /\ \A m \in Media : att[m] # c
Seen(c) == \/ c \in out \/ c \in broken
           \/ \E w \in Workers : Copy(w) = c
           \/ \E m \in uses[c[1]] \cap Media : (m \in gone \/ att[m] \notin {Unattached, c})

SInv == /\ out \subseteq Statuses
        /\ \A m \in Media : att[m] \in Statuses \cup {Unattached}
        /\ \A w \in Workers : SFit(w)
        /\ \A c \in Statuses : Whole(c)
        /\ \A c \in Statuses : Seen(c)

(* A worker with a status in hand has one of the statuses.                 *)
LEMMA CopyIsStatus ==
    ASSUME BInv, NEW w \in Workers
    PROVE  /\ AtWork(w) /\ wk[w].copy # 0 => Copy(w) \in Statuses
           /\ Copy(w) \in Statuses => wk[w].copy # 0 /\ AtWork(w)
<1>1. Fit(w) BY DEF BInv
<1>2. ASSUME AtWork(w), wk[w].copy # 0 PROVE Copy(w) \in Statuses
  <2>1. wk[w].post \in Posts BY <1>2, WorksOnPost
  <2>2. wk[w].copy \in 0 .. stored[wk[w].post] /\ stored[wk[w].post] \in Nat
    BY <1>1, <1>2, <2>1 DEF Fit, BInv
  <2>3. wk[w].copy \in 1 .. stored[wk[w].post] BY <1>2, <2>2
  <2>q. QED BY <2>1, <2>3, StatusIs DEF Copy
<1>3. ASSUME Copy(w) \in Statuses PROVE wk[w].copy # 0 /\ AtWork(w)
  <2>1. wk[w].copy \in 1 .. stored[wk[w].post] BY <1>3, StatusIs DEF Copy
  <2>2. wk[w].copy # 0 BY <2>1
  <2>q. QED BY <1>1, <2>2 DEF Fit, AtWork
<1>q. QED BY <1>2, <1>3

(* A step that stores, attaches and sends nothing.                         *)
LEMMA SKeeps ==
    ASSUME BInv, SInv, NEW w \in Workers, OnlyMoves(w), UNCHANGED <<plan, stored, out, att, gone>>,
           broken \subseteq broken', SFit(w)',
           AtWork(w)' => wk'[w].copy = 0 \/ (AtWork(w) /\ Copy(w)' = Copy(w)),
           Copy(w) \in Statuses => (Copy(w)' = Copy(w) \/ (Seen(Copy(w)) => \/ Copy(w) \in out \cup broken'
                  \/ \E m \in uses[wk[w].post] \cap Media : (m \in gone \/ att[m] \notin {Unattached, Copy(w)})))
    PROVE  SInv'
<1>1. UNCHANGED <<Statuses, uses>> BY DEF Statuses, Made, uses
<1>2. \A v \in Workers \ {w} : Copy(v)' = Copy(v) /\ (AtWork(v)' <=> AtWork(v))
  BY DEF OnlyMoves, Same, Copy, AtWork
<1>3. ASSUME NEW v \in Workers \ {w} PROVE SFit(v)'
  <2>1. SFit(v) BY DEF SInv
  <2>2. Same(v) BY DEF OnlyMoves
  <2>3. Copy(v)' = Copy(v) /\ (AtWork(v)' <=> AtWork(v)) BY <1>2
  <2>4. ASSUME AtWork(v), wk[v].copy # 0, NEW u \in Workers, AtWork(u)', Copy(u)' = Copy(v)
        PROVE  u = v
    <3>1. CASE u = w
      <4>1. wk'[w].copy = wk[v].copy BY <2>4, <3>1 DEF Copy
      <4>2. AtWork(w) /\ Copy(w) = Copy(v) BY <2>4, <3>1, <4>1
      <4>q. QED BY <2>1, <2>4, <3>1, <4>2 DEF SFit
    <3>2. CASE u # w BY <1>2, <2>1, <2>4, <3>2 DEF SFit
    <3>q. QED BY <3>1, <3>2
  <2>q. QED BY <1>1, <2>1, <2>2, <2>3, <2>4 DEF SFit, Same
<1>4. \A v \in Workers : SFit(v)' BY <1>3
<1>5. \A c \in Statuses : Whole(c)' BY <1>1 DEF SInv, Whole
<1>6. ASSUME NEW c \in Statuses PROVE Seen(c)'
  <2>1. Seen(c) BY DEF SInv
  <2>2. CASE c \in out \/ c \in broken \/ \E m \in uses[c[1]] \cap Media : (m \in gone \/ att[m] \notin {Unattached, c})
    BY <1>1, <2>2 DEF Seen
  <2>3. ASSUME NEW v \in Workers, Copy(v) = c PROVE Seen(c)'
    <3>1. CASE v # w BY <1>2, <2>3, <3>1 DEF Seen
    <3>2. CASE v = w
      <4>1. c[1] = wk[w].post BY <2>3, <3>2 DEF Copy
      <4>q. QED BY <1>1, <2>1, <2>3, <3>2, <4>1 DEF Seen
    <3>q. QED BY <3>1, <3>2
  <2>q. QED BY <2>1, <2>2, <2>3 DEF Seen
<1>q. QED BY <1>1, <1>4, <1>5, <1>6 DEF SInv

(* A worker that is no longer, or not yet, at a status.                    *)
LEMMA SLeaves ==
    ASSUME BInv, SInv, NEW w \in Workers, OnlyMoves(w), UNCHANGED <<plan, stored, out, att, gone>>,
           broken \subseteq broken', wk'[w].copy = 0,
           ~(wk'[w].step \in {"attach", "outbox"}),
           \/ wk[w].copy = 0 \/ Copy(w) \in out \cup broken'
           \/ \E m \in uses[wk[w].post] \cap Media : (m \in gone \/ att[m] \notin {Unattached, Copy(w)})
    PROVE  SInv'
<1>1. SFit(w)' BY DEF SFit
<1>2. Copy(w) \in Statuses =>
        \/ Copy(w) \in out \cup broken'
        \/ \E m \in uses[wk[w].post] \cap Media : (m \in gone \/ att[m] \notin {Unattached, Copy(w)})
  BY CopyIsStatus
<1>q. QED BY <1>1, <1>2, SKeeps

(* A worker without a status that goes on.                                 *)
LEMMA SMoves ==
    ASSUME BInv, SInv, NEW w \in Workers, NEW steps, Moves(w, steps), wk[w].copy = 0,
           ~("attach" \in steps) /\ ~("outbox" \in steps),
           UNCHANGED <<plan, stored, out, att, gone, broken>>
    PROVE  SInv'
  BY SLeaves DEF Moves

(* The steps that touch neither statuses, nor media, nor the outbox.       *)
LEMMA SAround ==
    ASSUME BInv, SInv, NEW w \in Workers,
           \/ Claim(w) \/ FindKey(w) \/ ResolveMedia(w) \/ DeleteRow(w) \/ RecordKey(w)
           \/ Answer(w) \/ Fail(w) \/ Die(w)
           \/ StartSweep(w) \/ \E d \in Direct : Request(w, d)
    PROVE  SInv'
<1>s. Shape /\ Fit(w) /\ SFit(w) BY DEF BInv, SInv
<1>0. UNCHANGED <<plan, stored, out, att, gone>>
  BY DEF Claim, FindKey, ResolveMedia, DeleteRow, RecordKey, Answer, Fail, Die, StartSweep,
         Request, posted, others
<1>c. Cut(w) = broken \/ Cut(w) = broken \cup {Copy(w)} BY DEF Cut
<1>1. CASE Claim(w)
  <2>1. UNCHANGED broken /\ wk[w].copy = 0 BY <1>1, <1>s DEF Claim, Fit, At
  <2>q. QED BY <1>0, <1>1, <1>s, <2>1, ClaimStep, SMoves, SLeaves DEF Leaves
<1>2. CASE FindKey(w)
  <2>1. UNCHANGED broken /\ wk[w].copy = 0 BY <1>2, <1>s DEF FindKey, Fit, At
  <2>2. PICK s \in {"media", "answer"} : Goto(w, s) BY <1>2 DEF FindKey, AfterFind
  <2>3. Moves(w, {s}) BY <1>s, <2>2, GotoStep DEF Moves
  <2>q. QED BY <1>0, <2>1, <2>3, SMoves
<1>3. CASE ResolveMedia(w)
  <2>1. UNCHANGED broken /\ wk[w].copy = 0 BY <1>3, <1>s DEF ResolveMedia, Fit, At
  <2>2. CASE Goto(w, "insert")
    <3>1. Moves(w, {"insert"}) BY <1>s, <2>2, GotoStep DEF Moves
    <3>q. QED BY <1>0, <2>1, <3>1, SMoves
  <2>3. CASE Leave(w) BY <1>0, <1>s, <2>1, <2>3, LeaveStep, SLeaves
  <2>q. QED BY <1>3, <2>2, <2>3 DEF ResolveMedia
<1>4. CASE DeleteRow(w)
  <2>1. broken \subseteq broken' BY <1>4, <1>c DEF DeleteRow
  <2>2. Copy(w) \in out BY <1>4, <1>s DEF DeleteRow, At, SFit, Fit
  <2>q. QED BY <1>0, <1>4, <1>s, <2>1, <2>2, LeaveStep, SLeaves DEF DeleteRow
<1>5. CASE RecordKey(w)
  <2>1. broken \subseteq broken' BY <1>5, <1>c DEF RecordKey
  <2>2. wk[w].step = "done" /\ AtWork(w) BY <1>5 DEF RecordKey, At, AtWork
  <2>3. Moves(w, {"answer"}) BY <1>5, <1>s, GotoStep DEF RecordKey, Moves
  <2>4. Copy(w)' = Copy(w) BY <2>3 DEF Moves, Copy
  <2>5. SFit(w)'
    <3>1. ASSUME wk[w].copy # 0, NEW v \in Workers, AtWork(v)', Copy(v)' = Copy(w) PROVE v = w
      <4>1. CASE v # w
        <5>1. AtWork(v) /\ Copy(v) = Copy(w)
          BY <2>3, <3>1, <4>1 DEF Moves, OnlyMoves, Same, AtWork, Copy
        <5>q. QED BY <1>s, <2>2, <3>1, <5>1 DEF SFit
      <4>q. QED BY <4>1
    <3>2. wk[w].copy # 0 => Copy(w) \in out BY <1>s, <2>2 DEF SFit
    <3>q. QED BY <1>0, <2>3, <2>4, <3>1, <3>2 DEF SFit, Moves
  <2>q. QED BY <1>0, <2>1, <2>2, <2>3, <2>4, <2>5, SKeeps DEF Moves
<1>6. CASE Answer(w)
  <2>1. UNCHANGED broken BY <1>6 DEF Answer, history
  <2>2. wk[w].copy # 0 => Copy(w) \in out BY <1>6, <1>s DEF Answer, At, SFit
  <2>q. QED BY <1>0, <1>6, <1>s, <2>1, <2>2, EndStep, SLeaves DEF Answer
<1>7. CASE Fail(w)
  <2>1. broken \subseteq broken' BY <1>7, <1>c DEF Fail
  <2>2. wk[w].copy # 0 => Copy(w) \in broken'
    <3>1. AtWork(w) BY <1>7 DEF Fail
    <3>2. wk[w].copy \in 0 .. stored[wk[w].post] /\ stored[wk[w].post] \in Nat
      BY <1>s, <3>1, WorksOnPost DEF Fit, BInv
    <3>3. wk[w].copy # 0 => wk[w].copy > 0 BY <3>2
    <3>q. QED BY <1>7, <3>3 DEF Fail, Cut
  <2>q. QED BY <1>0, <1>7, <1>s, <2>1, <2>2, LeaveStep, SLeaves DEF Fail
<1>8. CASE Die(w)
  <2>1. broken \subseteq broken' BY <1>8, <1>c DEF Die
  <2>2. wk[w].copy # 0 => Copy(w) \in out \cup broken'
    <3>1. CASE wk[w].step = "answer" BY <1>s, <3>1 DEF SFit
    <3>2. CASE wk[w].step # "answer" /\ wk[w].copy # 0
      <4>1. AtWork(w) BY <1>s, <3>2 DEF Fit, AtWork
      <4>2. wk[w].copy \in 0 .. stored[wk[w].post] /\ stored[wk[w].post] \in Nat
        BY <1>s, <4>1, WorksOnPost DEF Fit, BInv
      <4>3. wk[w].copy > 0 BY <3>2, <4>2
      <4>q. QED BY <1>8, <3>2, <4>3 DEF Die, Cut
    <3>q. QED BY <3>1, <3>2
  <2>q. QED BY <1>0, <1>8, <1>s, <2>1, <2>2, EndStep, SLeaves DEF Die
<1>9. CASE StartSweep(w) \/ \E d \in Direct : Request(w, d)
  <2>1. UNCHANGED broken BY <1>9 DEF StartSweep, Request, history
  <2>q. QED BY <1>0, <1>9, <1>s, <2>1, StartStep, SLeaves, IdleShape
<1>q. QED BY <1>1, <1>2, <1>3, <1>4, <1>5, <1>6, <1>7, <1>8, <1>9

(* Distinct workers have distinct statuses in hand.                        *)
LEMMA CopiesDiffer ==
    ASSUME BInv, SInv, NEW w \in Workers, AtWork(w), wk[w].copy # 0,
           NEW v \in Workers \ {w}, AtWork(v)
    PROVE  Copy(v) # Copy(w)
  BY DEF SInv, SFit

(* A status is stored: with media it waits for them, without it is sent.   *)
LEMMA SInsert == ASSUME BInv, SInv, NEW w \in Workers, Insert(w) PROVE SInv'
<1>s. Shape /\ Fit(w) BY DEF BInv
<1>1. wk[w].step = "insert" /\ AtWork(w) BY DEF Insert, At, AtWork
<1>2. PICK p, i, c0 : p = wk[w].post /\ i = stored[p] + 1 /\ c0 = <<p, i>> OBVIOUS
<1>3. p \in Posts /\ p \in DOMAIN uses /\ stored[p] \in Nat
  BY <1>1, <1>2, WorksOnPost DEF BInv
<1>4. /\ OnlyMoves(w) /\ wk'[w].post = p /\ wk'[w].copy = i
      /\ wk'[w].step = (IF uses[p] # {} THEN "attach" ELSE "done")
  BY <1>2, <1>s, InsertStep
<1>5. /\ stored' = [stored EXCEPT ![p] = i] /\ UNCHANGED <<plan, att, broken>>
      /\ out' = IF uses[p] # {} THEN out ELSE out \cup {c0}
  BY <1>2 DEF Insert, Deferred
<1>6. UNCHANGED uses BY <1>5 DEF uses
<1>7. c0 \notin Statuses
  <2>1. ~(i \in 1 .. stored[p]) BY <1>2, <1>3
  <2>q. QED BY <1>2, <2>1, StatusIs
<1>8. Statuses' = Statuses \cup {c0}
  <2>1. \A q, j : <<q, j>> \in Statuses' <=> q \in Posts /\ j \in 1 .. stored'[q]
    <3>1. \A q \in Posts : \A c : c \in Made(q)' <=> \E j \in 1 .. stored'[q] : c = <<q, j>>
      BY DEF Made
    <3>2. \A c : c \in Statuses' <=> \E q \in Posts : c \in Made(q)' BY DEF Statuses
    <3>q. QED BY <3>1, <3>2
  <2>2. \A c \in Statuses' : c = <<c[1], c[2]>>
    <3>1. \A q \in Posts : \A c : c \in Made(q)' <=> \E j \in 1 .. stored'[q] : c = <<q, j>>
      BY DEF Made
    <3>2. \A c : c \in Statuses' <=> \E q \in Posts : c \in Made(q)' BY DEF Statuses
    <3>q. QED BY <3>1, <3>2
  <2>3. stored'[p] = i /\ \A q \in Posts \ {p} : stored'[q] = stored[q]
    BY <1>3, <1>5 DEF BInv
  <2>4. \A j : j \in 1 .. i <=> j \in 1 .. stored[p] \/ j = i BY <1>2, <1>3
  <2>5. \A q, j : <<q, j>> \in Statuses' <=> <<q, j>> \in Statuses \/ <<q, j>> = c0
    BY <1>2, <1>3, <2>1, <2>3, <2>4, StatusIs
  <2>q. QED BY <1>2, <2>2, <2>5, StatusIs
<1>9. \A v \in Workers \ {w} : /\ Copy(v)' = Copy(v) /\ (AtWork(v)' <=> AtWork(v))
                               /\ AtWork(v) => Copy(v) # c0
  <2>1. ASSUME NEW v \in Workers \ {w}, AtWork(v), Copy(v) = c0 PROVE FALSE
    <3>1. wk[v].copy = i BY <1>2, <2>1 DEF Copy
    <3>2. wk[v].copy # 0 BY <1>2, <1>3, <3>1
    <3>q. QED BY <1>7, <2>1, <3>2, CopyIsStatus
  <2>q. QED BY <1>4, <2>1 DEF OnlyMoves, Same, Copy, AtWork
<1>10. Copy(w)' = c0 BY <1>2, <1>4 DEF Copy
<1>11. SFit(w)'
  <2>1. \A v \in Workers : AtWork(v)' /\ Copy(v)' = c0 => v = w BY <1>9
  <2>2. c0 \notin out /\ \A m \in Media : att[m] # c0
    BY <1>2, <1>3, <1>7, NoneIsNoPost DEF SInv, Unattached
  <2>q. QED BY <1>4, <1>5, <1>6, <1>10, <2>1, <2>2 DEF SFit
<1>12. ASSUME NEW v \in Workers \ {w} PROVE SFit(v)'
  <2>1. SFit(v) /\ Same(v) BY <1>4 DEF SInv, OnlyMoves
  <2>2. AtWork(v) => \A u \in Workers : AtWork(u)' /\ Copy(u)' = Copy(v) => u # w
    BY <1>9, <1>10
  <2>q. QED BY <1>5, <1>6, <1>9, <2>1, <2>2 DEF SFit, Same, AtWork
<1>13. ASSUME NEW c \in Statuses' PROVE Whole(c)'
  <2>1. CASE c = c0
    <3>1. c[1] = p BY <1>2, <2>1
    <3>2. c0 \notin out /\ \A m \in Media : att[m] # c0
      BY <1>2, <1>3, <1>7, NoneIsNoPost DEF SInv, Unattached
    <3>q. QED BY <1>3, <1>5, <1>6, <2>1, <3>1, <3>2 DEF Whole
  <2>2. CASE c # c0 BY <1>5, <1>6, <1>8, <2>2 DEF SInv, Whole
  <2>q. QED BY <2>1, <2>2
<1>14. ASSUME NEW c \in Statuses' PROVE Seen(c)'
  <2>1. CASE c = c0 BY <1>10, <2>1 DEF Seen
  <2>2. CASE c # c0
    <3>1. c \in Statuses /\ Seen(c) BY <1>8, <2>2 DEF SInv
    <3>2. wk[w].copy = 0 BY <1>s, <1>1 DEF Fit
    <3>3. Copy(w) # c BY <3>1, <3>2, CopyIsStatus
    <3>4. UNCHANGED gone BY DEF Insert, others
    <3>q. QED BY <1>5, <1>6, <1>9, <3>1, <3>3, <3>4 DEF Seen
  <2>q. QED BY <2>1, <2>2
<1>15. out' \subseteq Statuses' /\ \A m \in Media : att'[m] \in Statuses' \cup {Unattached}
  BY <1>5, <1>8 DEF SInv
<1>q. QED BY <1>11, <1>12, <1>13, <1>14, <1>15 DEF SInv

(* All the media are attached, or none and the status stays unseen.        *)
LEMMA SAttach == ASSUME BInv, SInv, NEW w \in Workers, Attach(w) PROVE SInv'
<1>s. Shape /\ Fit(w) /\ SFit(w) BY DEF BInv, SInv
<1>1. wk[w].step = "attach" /\ AtWork(w) /\ wk[w].copy # 0
  BY <1>s DEF Attach, At, AtWork, Fit
<1>2. PICK p, c0 : p = wk[w].post /\ c0 = Copy(w) OBVIOUS
<1>3. c0 \in Statuses /\ p \in DOMAIN uses /\ uses[p] \subseteq Media /\ uses[p] # {}
  BY <1>1, <1>2, <1>s, CopyIsStatus, WorksOnPost, UsesMedia DEF BInv, SFit
<1>4. UNCHANGED <<plan, stored, out, gone, broken, uses, Statuses>>
  BY DEF Attach, others, history, uses, Statuses, Made
<1>5. CASE ~(\A m \in uses[p] : Free(m))
  <2>1. Leave(w) /\ UNCHANGED att BY <1>2, <1>5 DEF Attach, Attachable
  <2>2. PICK m \in uses[p] \cap Media : m \in gone \/ att[m] # Unattached BY <1>3, <1>5 DEF Free
  <2>3. att[m] # Copy(w) BY <1>1, <1>3, <1>s DEF SFit
  <2>q. QED BY <1>2, <1>4, <1>s, <2>1, <2>2, <2>3, LeaveStep, SLeaves
<1>6. CASE \A m \in uses[p] : Free(m)
  <2>1. Goto(w, "outbox") /\ att' = [m \in Media |-> IF m \in uses[p] THEN c0 ELSE att[m]]
    BY <1>2, <1>3, <1>6 DEF Attach, Attachable
  <2>2. Moves(w, {"outbox"}) BY <1>s, <2>1, GotoStep DEF Moves
  <2>3. \A v \in Workers : Copy(v)' = Copy(v) /\ (AtWork(v)' <=> AtWork(v))
    BY <1>1, <2>2 DEF Moves, OnlyMoves, Same, Copy, AtWork
  <2>4. \A m \in Media : m \in uses[p] => att[m] = Unattached BY <1>6 DEF Free
  <2>5. \A m \in Media : att[m] # c0 BY <1>1, <1>2, <1>s DEF SFit
  <2>6. \A c \in Statuses \ {c0} : \A m \in Media : att'[m] = c <=> att[m] = c
    BY <2>1, <2>4, StatusIs
  <2>7. \A m \in Media : att'[m] = c0 <=> m \in uses[p] BY <2>1, <2>5
  <2>8. SFit(w)' BY <1>1, <1>2, <1>3, <1>4, <1>s, <2>2, <2>3, <2>7 DEF SFit, Moves
  <2>9. ASSUME NEW v \in Workers \ {w} PROVE SFit(v)'
    <3>1. SFit(v) /\ Same(v) BY <2>2 DEF SInv, Moves, OnlyMoves
    <3>2. Fit(v) BY DEF BInv
    <3>3. AtWork(v) /\ wk[v].copy # 0 => Copy(v) \in Statuses \ {c0}
      BY <1>1, <1>2, CopyIsStatus, CopiesDiffer
    <3>4. wk[v].step \in {"attach", "outbox"} => AtWork(v) /\ wk[v].copy # 0
      BY <3>2 DEF Fit, AtWork
    <3>q. QED BY <1>4, <2>3, <2>6, <3>1, <3>3, <3>4 DEF SFit, Same
  <2>10. ASSUME NEW c \in Statuses PROVE Whole(c)' /\ Seen(c)'
    <3>1. CASE c = c0
      <4>1. c[1] = p BY <1>2, <3>1 DEF Copy
      <4>q. QED BY <1>2, <1>3, <1>4, <2>3, <2>7, <3>1, <4>1 DEF Whole, Seen
    <3>2. CASE c # c0
      <4>1. Whole(c)' BY <1>4, <2>6, <3>2 DEF SInv, Whole
      <4>2. c \in Statuses \ {c0} /\ Seen(c) BY <3>2 DEF SInv
      <4>3. ASSUME NEW m \in uses[c[1]] \cap Media, att[m] \notin {Unattached, c}
            PROVE  att'[m] \notin {Unattached, c}
        <5>1. ~(m \in uses[p]) BY <2>4, <4>3
        <5>q. QED BY <2>1, <4>3, <5>1
      <4>4. Seen(c)' BY <1>4, <2>3, <4>2, <4>3 DEF Seen
      <4>q. QED BY <4>1, <4>4
    <3>q. QED BY <3>1, <3>2
  <2>11. \A m \in Media : att'[m] \in Statuses \cup {Unattached}
    BY <1>3, <2>1 DEF SInv
  <2>q. QED BY <1>4, <2>8, <2>9, <2>10, <2>11 DEF SInv
<1>q. QED BY <1>5, <1>6

(* The outbox row of a status with all its media.                          *)
LEMMA SOutbox == ASSUME BInv, SInv, NEW w \in Workers, InsertOutbox(w) PROVE SInv'
<1>s. Shape /\ Fit(w) /\ SFit(w) BY DEF BInv, SInv
<1>1. wk[w].step = "outbox" /\ AtWork(w) /\ wk[w].copy # 0
  BY <1>s DEF InsertOutbox, At, AtWork, Fit
<1>2. PICK c0 : c0 = Copy(w) OBVIOUS
<1>3. c0 \in Statuses BY <1>1, <1>2, CopyIsStatus
<1>4. UNCHANGED <<plan, stored, att, gone, broken, uses, Statuses>> /\ out' = out \cup {c0}
  BY <1>2 DEF InsertOutbox, others, history, uses, Statuses, Made
<1>5. Moves(w, {"done"}) BY <1>s, GotoStep DEF InsertOutbox, Moves
<1>6. \A v \in Workers : Copy(v)' = Copy(v) /\ (AtWork(v)' <=> AtWork(v))
  BY <1>1, <1>5 DEF Moves, OnlyMoves, Same, Copy, AtWork
<1>7. SFit(w)' BY <1>1, <1>2, <1>4, <1>5, <1>6, <1>s DEF SFit, Moves
<1>8. ASSUME NEW v \in Workers \ {w} PROVE SFit(v)'
  <2>1. SFit(v) /\ Same(v) BY <1>5 DEF SInv, Moves, OnlyMoves
  <2>2. wk[v].step = "attach" => Copy(v) # c0
    BY <1>1, <1>2, CopiesDiffer DEF AtWork
  <2>q. QED BY <1>4, <1>6, <2>1, <2>2 DEF SFit, Same
<1>9. ASSUME NEW c \in Statuses PROVE Whole(c)' /\ Seen(c)'
  <2>1. CASE c = c0
    <3>1. c[1] = wk[w].post BY <1>2, <2>1 DEF Copy
    <3>2. wk[w].post \in DOMAIN uses BY <1>1, WorksOnPost
    <3>q. QED BY <1>1, <1>2, <1>4, <1>s, <2>1, <3>1, <3>2 DEF Whole, Seen, SFit
  <2>2. CASE c # c0 BY <1>4, <1>6, <2>2 DEF SInv, Whole, Seen
  <2>q. QED BY <2>1, <2>2
<1>q. QED BY <1>3, <1>4, <1>7, <1>8, <1>9 DEF SInv

(* The author, the clock and the purge of keys touch no status.            *)
LEMMA SQuiet ==
    ASSUME BInv, SInv,
           \/ \E s \in Scheduled : Schedule(s) \/ Reschedule(s) \/ Cancel(s)
           \/ \E d \in Direct : ExpireKey(d)
           \/ World \/ Tick \/ UNCHANGED vars
    PROVE  SInv'
<1>1. \A w \in Workers : Same(w) BY QuietStep DEF BInv
<1>2. UNCHANGED <<plan, stored, out, att, broken>> /\ gone \subseteq gone'
  BY WorldStep DEF Schedule, Reschedule, Cancel, ExpireKey, Tick, posted, others, history, vars
<1>3. UNCHANGED <<Statuses, uses>> BY <1>2 DEF Statuses, Made, uses
<1>4. \A w \in Workers : Copy(w)' = Copy(w) /\ (AtWork(w)' <=> AtWork(w))
  BY <1>1 DEF Same, Copy, AtWork
<1>5. \A w \in Workers : SFit(w)' BY <1>1, <1>2, <1>3, <1>4 DEF SInv, SFit, Same
<1>6. \A c \in Statuses : Whole(c)' /\ Seen(c)' BY <1>2, <1>3, <1>4 DEF SInv, Whole, Seen
<1>q. QED BY <1>2, <1>3, <1>5, <1>6 DEF SInv

(* Every step keeps statuses whole and seen.                               *)
LEMMA SNext == BInv /\ SInv /\ [Next]_vars => SInv'
<1>1. BInv /\ SInv /\ Next => SInv'
  BY SAround, SInsert, SAttach, SOutbox, SQuiet DEF Next, WorkerStep
<1>2. BInv /\ SInv /\ UNCHANGED vars => SInv' BY SQuiet
<1>q. QED BY <1>1, <1>2

(* There are no statuses at first.                                         *)
LEMMA SInit == Init => SInv
<1> SUFFICES ASSUME Init PROVE SInv OBVIOUS
<1>1. Statuses = {}
  <2>1. \A p \in Posts : stored[p] = 0 BY DEF Init
  <2>2. \A p, i : ~(p \in Posts /\ i \in 1 .. stored[p]) BY <2>1
  <2>q. QED BY <2>2, StatusIs
<1>2. \A w \in Workers : SFit(w) BY IdleShape DEF Init, SFit
<1>q. QED BY <1>1, <1>2 DEF Init, SInv

(* The invariant of the statuses.                                          *)
THEOREM StatusesAreKept == Spec => [](BInv /\ SInv)
<1>q. QED BY WorkersFit, SInit, SNext, PTL DEF Spec

(* A status has all its media or none, and with none of several it is in   *)
(* no outbox (attach_media_and_enqueue_outbox).                            *)
THEOREM PostsAreWhole == Spec => []MediaWhole
<1>1. BInv /\ SInv => MediaWhole
  <2> SUFFICES ASSUME BInv, SInv, NEW c \in Statuses
               PROVE  LET has == {m \in Media : att[m] = c} IN
                      has = uses[c[1]] \/ (has = {} /\ c \notin out)
    BY DEF MediaWhole
  <2>1. Whole(c) BY DEF SInv
  <2>2. CASE \A m \in Media : att[m] = c <=> m \in uses[c[1]]
    <3>1. uses[c[1]] \subseteq Media BY <2>1, UsesMedia DEF BInv, Whole
    <3>q. QED BY <2>2, <3>1
  <2>3. CASE c \notin out /\ \A m \in Media : att[m] # c BY <2>3
  <2>q. QED BY <2>1, <2>2, <2>3 DEF Whole
<1>q. QED BY <1>1, StatusesAreKept, PTL

(* A status that is in no outbox is under way, was cut short, or lost a    *)
(* medium to another status after the check (create_published.rs:333).     *)
THEOREM SilenceHasACause == Spec => []NoSilentStatus
<1>1. SInv => NoSilentStatus BY DEF SInv, Seen, NoSilentStatus
<1>q. QED BY <1>1, StatusesAreKept, PTL

(* A row is marked published by a worker that has sent its status.         *)
LEMMA DoneStep ==
    ASSUME BInv, SInv, [Next]_vars, NEW s \in Scheduled, row'[s] = "done"
    PROVE  row[s] = "done" \/ \E w \in Workers : wk[w].post = s /\ Copy(w) \in out /\ wk[w].copy # 0
                                                 /\ AtWork(w)
<1>1. ASSUME NEW w \in Workers, DeleteRow(w), row[s] # "done"
      PROVE  wk[w].post = s /\ Copy(w) \in out /\ wk[w].copy # 0 /\ AtWork(w)
  <2>1. wk[w].post = s BY <1>1 DEF DeleteRow, schedule, BInv, RowType
  <2>2. wk[w].step = "done" /\ Fit(w) /\ SFit(w) BY <1>1 DEF DeleteRow, At, BInv, SInv
  <2>q. QED BY <2>1, <2>2 DEF Fit, SFit, AtWork
<1>2. CASE \/ \E x \in Scheduled : Schedule(x) \/ Reschedule(x) \/ Cancel(x)
           \/ \E w \in Workers : StartSweep(w) \/ Fail(w) \/ Die(w) \/ \E d \in Direct : Request(w, d)
           \/ \E w \in Workers : \/ Claim(w) \/ FindKey(w) \/ ResolveMedia(w) \/ Insert(w)
                                 \/ Attach(w) \/ InsertOutbox(w) \/ RecordKey(w) \/ Answer(w)
           \/ \E d \in Direct : ExpireKey(d)
           \/ World \/ Tick \/ UNCHANGED vars
  BY <1>2, WorldStep
          DEF Schedule, Reschedule, Cancel, StartSweep, Fail, RowsAfterFail, Die, Request, Claim,
              FindKey, ResolveMedia, Insert, Attach, InsertOutbox, RecordKey, Answer, ExpireKey,
              Tick, schedule, vars, BInv, RowType
<1>q. QED BY <1>1, <1>2 DEF Next, WorkerStep

(* The outbox keeps what it has, and there are never fewer statuses.       *)
LEMMA PostedGrows ==
    ASSUME BInv, SInv, [Next]_vars
    PROVE  out \subseteq out' /\ \A p \in Posts : stored[p] <= stored'[p]
<1>0. \A p \in Posts : stored[p] \in Nat BY DEF BInv
<1>1. ASSUME NEW w \in Workers, Insert(w)
      PROVE  out \subseteq out' /\ \A p \in Posts : stored[p] <= stored'[p]
  BY <1>0, <1>1 DEF Insert, BInv
<1>2. CASE \/ \E x \in Scheduled : Schedule(x) \/ Reschedule(x) \/ Cancel(x)
           \/ \E w \in Workers : StartSweep(w) \/ Fail(w) \/ Die(w) \/ \E d \in Direct : Request(w, d)
           \/ \E w \in Workers : \/ Claim(w) \/ FindKey(w) \/ ResolveMedia(w) \/ DeleteRow(w)
                                 \/ Attach(w) \/ InsertOutbox(w) \/ RecordKey(w) \/ Answer(w)
           \/ \E d \in Direct : ExpireKey(d)
           \/ World \/ Tick \/ UNCHANGED vars
  <2>1. out \subseteq out' /\ UNCHANGED stored
    BY <1>2, WorldStep
            DEF Schedule, Reschedule, Cancel, StartSweep, Fail, Die, Request, Claim,
                FindKey, ResolveMedia, DeleteRow, Attach, InsertOutbox, RecordKey, Answer, ExpireKey,
                Tick, posted, others, vars
  <2>q. QED BY <1>0, <2>1
<1>q. QED BY <1>1, <1>2 DEF Next, WorkerStep

(* A scheduled row is removed only once a status of it is in the outbox    *)
(* (publish_due_scheduled_status).                                         *)
THEOREM NoScheduleIsLost == Spec => []NothingScheduledIsLost
<1>m. \A p, c : c \in Made(p) <=> \E i \in 1 .. stored[p] : c = <<p, i>> BY DEF Made
<1>1. Init => NothingScheduledIsLost BY DEF Init, NothingScheduledIsLost
<1>2. BInv /\ SInv /\ NothingScheduledIsLost /\ [Next]_vars => NothingScheduledIsLost'
  <2> SUFFICES ASSUME BInv, SInv, NothingScheduledIsLost, [Next]_vars,
                      NEW s \in Scheduled, row'[s] = "done"
               PROVE  (Made(s) \cap out)' # {}
    BY DEF NothingScheduledIsLost
  <2>1. s \in Posts /\ stored[s] \in Nat /\ stored'[s] \in Nat
    <3>1. BInv' BY BNext
    <3>q. QED BY <3>1 DEF Posts, BInv
  <2>2. PICK i \in 1 .. stored[s] : <<s, i>> \in out
    <3>1. CASE row[s] = "done" BY <3>1 DEF NothingScheduledIsLost, Made
    <3>2. ASSUME NEW w \in Workers, wk[w].post = s, Copy(w) \in out, wk[w].copy # 0, AtWork(w)
          PROVE  \E i \in 1 .. stored[s] : <<s, i>> \in out
      <4>1. Copy(w) \in Statuses BY <3>2, CopyIsStatus
      <4>q. QED BY <3>2, <4>1, StatusIs DEF Copy
    <3>q. QED BY <3>1, <3>2, DoneStep
  <2>3. <<s, i>> \in out' /\ i \in 1 .. stored'[s] BY <2>1, <2>2, PostedGrows
  <2>4. <<s, i>> \in Made(s)' BY <2>3 DEF Made
  <2>q. QED BY <2>3, <2>4
<1>q. QED BY <1>1, <1>2, StatusesAreKept, PTL DEF Spec

-----------------------------------------------------------------------------
(* Ages are natural numbers, and a claim has one or is none.               *)
AInv == /\ \A w \in Workers : wk[w].age \in Nat
        /\ claim \in [Scheduled -> Nat \cup {Unclaimed}]

(* A worker that goes on, leaves or ends has an age.                       *)
LEMMA AgeStep ==
    ASSUME Shape, \A w \in Workers : wk[w].age \in Nat, NEW w \in Workers,
           \/ \E s : Goto(w, s)
           \/ Leave(w) \/ wk' = [wk EXCEPT ![w] = Idle]
    PROVE  \A v \in Workers : wk'[v].age \in Nat
<1>1. Idle.age = 0 BY DEF Idle
<1>2. Left(w).age \in Nat
  <2>1. CASE Left(w) = Idle BY <1>1, <2>1
  <2>2. CASE Left(w) # Idle
    <3>1. Left(w) = [wk[w] EXCEPT !.list = Tail(@), !.post = Head(Tail(wk[w].list)),
                                  !.step = "claim", !.copy = 0]
      BY <2>2 DEF Left
    <3>q. QED BY <3>1 DEF Shape, Fields
  <2>q. QED BY <2>1, <2>2
<1>3. CASE \E s : Goto(w, s) BY <1>3 DEF Goto, Shape, Fields
<1>4. CASE Leave(w) BY <1>2, <1>4 DEF Leave, Shape
<1>5. CASE wk' = [wk EXCEPT ![w] = Idle] BY <1>1, <1>5 DEF Shape
<1>q. QED BY <1>3, <1>4, <1>5

(* Every step keeps them so.                                               *)
LEMMA ANext == BInv /\ AInv /\ [Next]_vars => AInv'
<1> SUFFICES ASSUME BInv, AInv, [Next]_vars PROVE AInv' OBVIOUS
<1>s. Shape /\ (\A w \in Workers : wk[w].age \in Nat) /\ claim \in [Scheduled -> Nat \cup {Unclaimed}]
  BY DEF BInv, AInv
<1>1. ASSUME NEW w \in Workers, Claim(w) PROVE AInv'
  <2>1. CASE Claimable(w, wk[w].post)
    <3>1. PICK x : /\ wk' = [wk EXCEPT ![w] = x]
                   /\ \/ x = [wk[w] EXCEPT !.step = "media"]
                      \/ x = [wk[w] EXCEPT !.step = "media", !.age = 0, !.moved = {}]
      BY <1>1, <2>1 DEF Claim
    <3>2. x.age \in Nat
      <4>1. DOMAIN wk[w] = Fields /\ wk[w].age \in Nat BY <1>s DEF Shape
      <4>2. CASE x = [wk[w] EXCEPT !.step = "media"] BY <4>1, <4>2 DEF Fields
      <4>3. CASE x = [wk[w] EXCEPT !.step = "media", !.age = 0, !.moved = {}]
        <5>1. DOMAIN x = Fields /\ x.age = 0 BY <4>1, <4>3 DEF Fields
        <5>q. QED BY <5>1
      <4>q. QED BY <3>1, <4>2, <4>3
    <3>3. \A v \in Workers : wk'[v].age \in Nat BY <1>s, <3>1, <3>2 DEF Shape
    <3>4. claim' = [claim EXCEPT ![wk[w].post] = wk[w].age] BY <1>1, <2>1 DEF Claim
    <3>q. QED BY <1>s, <3>3, <3>4 DEF AInv
  <2>2. CASE ~Claimable(w, wk[w].post)
    BY <1>1, <1>s, <2>2, AgeStep DEF Claim, AInv
  <2>q. QED BY <2>1, <2>2
<1>2. ASSUME NEW w \in Workers,
             \/ FindKey(w) \/ ResolveMedia(w) \/ Attach(w) \/ InsertOutbox(w) \/ RecordKey(w)
             \/ Answer(w) \/ Fail(w) \/ Die(w)
      PROVE  AInv'
  <2>1. (\E s : Goto(w, s)) \/ Leave(w) \/ wk' = [wk EXCEPT ![w] = Idle]
    BY <1>2 DEF FindKey, ResolveMedia, Attach, InsertOutbox, RecordKey, Answer, Fail, Die
  <2>2. UNCHANGED claim
    BY <1>2 DEF FindKey, ResolveMedia, Attach, InsertOutbox, RecordKey, Answer, Fail, Die, schedule
  <2>q. QED BY <1>s, <2>1, <2>2, AgeStep DEF AInv
<1>3. ASSUME NEW w \in Workers, DeleteRow(w) PROVE AInv'
  <2>1. \A v \in Workers : wk'[v].age \in Nat BY <1>3, <1>s, AgeStep DEF DeleteRow
  <2>2. UNCHANGED claim \/ claim' = [claim EXCEPT ![wk[w].post] = Unclaimed]
    BY <1>3 DEF DeleteRow, schedule
  <2>q. QED BY <1>s, <2>1, <2>2 DEF AInv
<1>4. ASSUME NEW w \in Workers, Insert(w) PROVE AInv'
  <2>1. wk' = [wk EXCEPT ![w] = [wk[w] EXCEPT !.copy = stored[wk[w].post] + 1,
                 !.step = IF uses[wk[w].post] # {} THEN "attach" ELSE "done"]]
    BY <1>4, <1>s DEF Insert, Shape
  <2>2. UNCHANGED claim BY <1>4 DEF Insert, schedule
  <2>q. QED BY <1>s, <2>1, <2>2 DEF AInv, Shape, Fields
<1>5. ASSUME NEW w \in Workers, StartSweep(w) \/ \E d \in Direct : Request(w, d) PROVE AInv'
  <2>1. PICK x : wk' = [wk EXCEPT ![w] = x] /\ x.age = 0
    <3>1. CASE StartSweep(w)
      <4>1. PICK x : /\ x = [Idle EXCEPT !.kind = "sweep", !.list = Listed,
                                         !.post = Head(Listed), !.step = "claim"]
                     /\ wk' = [wk EXCEPT ![w] = x]
        BY <3>1 DEF StartSweep
      <4>2. x.age = 0 BY <4>1 DEF Idle
      <4>q. QED BY <4>1, <4>2
    <3>2. ASSUME NEW d \in Direct, Request(w, d)
          PROVE  \E x : wk' = [wk EXCEPT ![w] = x] /\ x.age = 0
      <4>1. PICK x : /\ x = [Idle EXCEPT !.kind = "request", !.post = d, !.step = "find"]
                     /\ wk' = [wk EXCEPT ![w] = x]
        BY <3>2 DEF Request
      <4>2. x.age = 0 BY <4>1 DEF Idle
      <4>q. QED BY <4>1, <4>2
    <3>q. QED BY <1>5, <3>1, <3>2
  <2>2. UNCHANGED claim BY <1>5 DEF StartSweep, Request, schedule
  <2>q. QED BY <1>s, <2>1, <2>2 DEF AInv, Shape
<1>6. CASE \/ \E s \in Scheduled : Schedule(s) \/ Reschedule(s) \/ Cancel(s)
           \/ \E d \in Direct : ExpireKey(d)
           \/ World \/ UNCHANGED vars
  <2>1. \A v \in Workers : wk'[v].age \in Nat
    <3>1. ASSUME NEW s \in Scheduled, Reschedule(s), NEW v \in Workers PROVE wk'[v].age \in Nat
      <4>1. wk' = [w \in Workers |->
                     IF Counting(w) THEN [wk[w] EXCEPT !.moved = @ \cup {s}] ELSE wk[w]]
        BY <3>1 DEF Reschedule
      <4>q. QED BY <1>s, <4>1 DEF Shape, Fields
    <3>2. CASE UNCHANGED wk BY <1>s, <3>2
    <3>q. QED BY <1>6, <3>1, <3>2, WorldStep DEF Schedule, Cancel, ExpireKey, vars
  <2>2. claim' \in [Scheduled -> Nat \cup {Unclaimed}]
    BY <1>6, <1>s, WorldStep DEF Schedule, Reschedule, Cancel, ExpireKey, schedule, vars
  <2>q. QED BY <2>1, <2>2 DEF AInv
<1>7. CASE Tick
  <2>1. wk' = [w \in Workers |-> IF Counting(w) THEN [wk[w] EXCEPT !.age = @ + 1] ELSE wk[w]]
    BY <1>7 DEF Tick
  <2>2. \A v \in Workers : wk'[v].age \in Nat BY <1>s, <2>1 DEF Shape, Fields
  <2>3. claim' = [s \in Scheduled |->
                   IF claim[s] \in {Unclaimed, MaxAge + Ttl} THEN claim[s] ELSE claim[s] + 1]
    BY <1>7 DEF Tick
  <2>4. ASSUME NEW s \in Scheduled PROVE claim'[s] \in Nat \cup {Unclaimed}
    BY <1>s, <2>3
  <2>q. QED BY <2>2, <2>3, <2>4 DEF AInv
<1>q. QED BY <1>1, <1>2, <1>3, <1>4, <1>5, <1>6, <1>7 DEF Next, WorkerStep

-----------------------------------------------------------------------------
(* A worker has claimed post p or found no key of it, and is not through.  *)
On(w, p) == wk[w].post = p /\ wk[w].step \in {"media", "insert", "attach", "outbox", "done"}
Stored(w, p) == On(w, p) /\ wk[w].step \in {"attach", "outbox", "done"}

(* Why post p may become more than one status.                             *)
Excused(p) == \/ IF p \in Direct THEN p \in overlapped \cup expired ELSE p \in slow
              \/ Made(p) \cap broken # {}

(* The ways in which a post that has its status is kept from a second one:  *)
(* its media are in use, its row is gone or its key is on record, or the   *)
(* worker that stored it is still at it.                                   *)
Taken(p)  == p \in DOMAIN uses /\ \E m \in uses[p] \cap Media : ~Free(m)
Closed(p) == IF p \in Direct THEN key[p] # 0 ELSE row[p] \notin {"none", "pending"}

Alone(p)   == \A v, w \in Workers : On(v, p) /\ On(w, p) => v = w
Guarded(p) == \A w \in Workers : On(w, p) =>
                IF p \in Direct THEN key[p] = 0 ELSE row[p] = "pending" => claim[p] # Unclaimed
Own(p)     == p \in Direct =>
                /\ p \notin refused
                /\ \A m \in Media : att[m][1] = p =>
                     \/ key[p] # 0
                     \/ \E w \in Workers : On(w, p) /\ wk[w].step \in {"outbox", "done"}
Count(p)   == \/ stored[p] = 0
              \/ /\ stored[p] = 1
                 /\ \A w \in Workers : On(w, p) => wk[w].step # "insert"
                 /\ \/ Taken(p)
                    \/ Closed(p) /\ \A w \in Workers : On(w, p) => wk[w].step # "media"
                    \/ \E w \in Workers : Stored(w, p)
Once(p) == Alone(p) /\ Guarded(p) /\ Own(p) /\ Count(p)
OInv    == \A p \in Posts : Excused(p) \/ Once(p)
(* Nothing that bears on post p changed.                                   *)
Undisturbed(p) ==
    /\ \A v \in Workers : /\ On(v, p)' <=> On(v, p)
                          /\ On(v, p) => wk'[v].step = wk[v].step
    /\ UNCHANGED plan /\ stored'[p] = stored[p]
    /\ \A m \in Media : /\ ~Free(m) => ~Free(m)'
                        /\ att'[m][1] = p => att[m][1] = p
    /\ p \in Direct => key'[p] = key[p] /\ (p \in refused' => p \in refused)
    /\ p \in Scheduled => row'[p] = row[p] /\ (claim[p] # Unclaimed => claim'[p] # Unclaimed)

(* Then it stays published once.                                           *)
LEMMA Undisturbing == ASSUME NEW p \in Posts, Once(p), Undisturbed(p) PROVE Once(p)'
<1> USE DEF Undisturbed
<1>1. UNCHANGED uses BY DEF uses
<1>2. Alone(p)' BY DEF Once, Alone
<1>3. Guarded(p)' BY DEF Once, Guarded, Posts
<1>4. Own(p)' BY DEF Once, Own
<1>5. Taken(p) => Taken(p)' BY <1>1 DEF Taken
<1>6. Closed(p)' <=> Closed(p) BY DEF Closed, Posts
<1>7. \A w \in Workers : Stored(w, p) => Stored(w, p)' BY DEF Stored
<1>8. Count(p)'
  <2>1. CASE stored[p] = 0 BY <2>1 DEF Count
  <2>2. CASE stored[p] # 0
    <3>1. /\ stored'[p] = 1
          /\ \A w \in Workers : On(w, p)' => wk'[w].step # "insert"
      BY <2>2 DEF Once, Count
    <3>2. \/ Taken(p)'
          \/ Closed(p)' /\ \A w \in Workers : On(w, p)' => wk'[w].step # "media"
          \/ \E w \in Workers : Stored(w, p)'
      BY <1>5, <1>6, <1>7, <2>2 DEF Once, Count
    <3>q. QED BY <3>1, <3>2 DEF Count
  <2>q. QED BY <2>1, <2>2
<1>q. QED BY <1>2, <1>3, <1>4, <1>8 DEF Once

(* A worker at another post, or at none, before and after its step.        *)
LEMMA Elsewhere ==
    ASSUME NEW p \in Posts, NEW w \in Workers, Once(p), OnlyMoves(w), ~On(w, p), ~On(w, p)',
           UNCHANGED plan, stored'[p] = stored[p],
           \A m \in Media : /\ ~Free(m) => ~Free(m)'
                            /\ att'[m][1] = p => att[m][1] = p,
           p \in Direct => key'[p] = key[p] /\ (p \in refused' => p \in refused),
           p \in Scheduled => row'[p] = row[p] /\ (claim[p] # Unclaimed => claim'[p] # Unclaimed)
    PROVE  Once(p)'
<1>1. \A v \in Workers : /\ On(v, p)' <=> On(v, p)
                         /\ On(v, p) => wk'[v].step = wk[v].step
  BY DEF On, OnlyMoves, Same
<1>q. QED BY <1>1, Undisturbing DEF Undisturbed

(* The reasons there are, remain.                                          *)
LEMMA ExcusesStay ==
    ASSUME NEW p \in Posts, Excused(p), stored[p] \in Nat, stored'[p] \in Nat,
           stored[p] <= stored'[p], broken \subseteq broken', slow \subseteq slow',
           overlapped \subseteq overlapped', expired \subseteq expired'
    PROVE  Excused(p)'
<1>1. CASE Made(p) \cap broken # {}
  <2>1. PICK i \in 1 .. stored[p] : <<p, i>> \in broken BY <1>1 DEF Made
  <2>2. i \in 1 .. stored'[p] BY <2>1
  <2>3. <<p, i>> \in Made(p)' /\ <<p, i>> \in broken' BY <2>1, <2>2 DEF Made
  <2>q. QED BY <2>3 DEF Excused
<1>q. QED BY <1>1 DEF Excused

(* A worker cut short with a status in hand is a reason.                   *)
LEMMA CutExcuses ==
    ASSUME BInv, NEW p \in Posts, NEW w \in Workers, On(w, p), wk[w].copy # 0, broken' = Cut(w),
           UNCHANGED stored
    PROVE  Excused(p)'
<1>1. AtWork(w) /\ wk[w].post = p BY DEF On, AtWork
<1>2. stored[p] \in Nat /\ wk[w].copy \in 0 .. stored[p] BY <1>1 DEF BInv, Fit
<1>3. wk[w].copy \in 1 .. stored[p] /\ wk[w].copy > 0 BY <1>2
<1>4. <<p, wk[w].copy>> \in broken' BY <1>1, <1>3 DEF Cut, Copy
<1>5. <<p, wk[w].copy>> \in Made(p)' BY <1>3 DEF Made
<1>q. QED BY <1>4, <1>5 DEF Excused

(* A worker on a scheduled post is a sweep, one on a keyed post a request. *)
LEMMA OnKind ==
    ASSUME BInv, NEW p \in Posts, NEW w \in Workers, On(w, p)
    PROVE  /\ AtWork(w) /\ wk[w].post = p /\ p \in DOMAIN uses
           /\ p \in Direct => wk[w].kind = "request"
           /\ p \notin Direct => wk[w].kind = "sweep" /\ p \in Scheduled /\ row[p] # "none"
<1>1. AtWork(w) /\ wk[w].post = p BY DEF On, AtWork
<1>2. Fit(w) BY DEF BInv
<1>q. QED BY <1>1, <1>2, PublishingAssumption DEF Fit, Posts

(* Claiming a row.                                                         *)
LEMMA OClaim ==
    ASSUME BInv, AInv, NEW p \in Posts, NEW w \in Workers, Claim(w), Once(p), ~Excused(p)'
    PROVE  Once(p)'
<1>s. Shape BY DEF BInv
<1>1. UNCHANGED <<plan, row, stored, att, gone, key, refused>> BY DEF Claim, posted, others, client
<1>2. wk[w].step = "claim" BY DEF Claim, At
<1>3. ~On(w, p) BY <1>2 DEF On
<1>4. CASE ~Claimable(w, wk[w].post)
  <2>1. Leaves(w) /\ UNCHANGED claim BY <1>4, <1>s, ClaimStep DEF Claim
  <2>2. ~On(w, p)' BY <2>1 DEF Leaves, On
  <2>q. QED BY <1>1, <1>3, <2>1, <2>2, Elsewhere DEF Leaves, Free
<1>5. CASE Claimable(w, wk[w].post)
  <2>1. Moves(w, {"media"}) BY <1>5, <1>s, ClaimStep
  <2>2. claim' = [claim EXCEPT ![wk[w].post] = wk[w].age] BY <1>5 DEF Claim
  <2>3. wk[w].post \in Scheduled /\ wk[w].post \notin Direct /\ row[wk[w].post] = "pending"
    BY <1>5, PublishingAssumption DEF Claimable, Pending
  <2>4. CASE p # wk[w].post
    <3>1. ~On(w, p)' BY <2>1, <2>4 DEF Moves, On
    <3>2. p \in Scheduled => claim'[p] = claim[p] BY <2>2, <2>4 DEF AInv
    <3>q. QED BY <1>1, <1>3, <2>1, <3>1, <3>2, Elsewhere DEF Moves, Free
  <2>5. CASE p = wk[w].post
    <3>1. ASSUME NEW v \in Workers, On(v, p) PROVE FALSE
      <4>1. v # w /\ v \in Others(w, p) BY <1>3, <3>1 DEF Others, On, AtWork
      <4>2. claim[p] # Unclaimed BY <2>3, <2>5, <3>1 DEF Once, Guarded
      <4>3. claim[p] >= wk[w].age + Ttl BY <1>5, <2>5, <4>2 DEF Claimable, Lapsed
      <4>4. claim[p] \in Int /\ wk[w].age \in Int /\ Ttl \in Int
        BY <2>3, <2>5, PublishingAssumption DEF AInv, Unclaimed
      <4>5. claim[p] - wk[w].age >= Ttl BY <4>3, <4>4
      <4>6. slow' = slow \cup {p} BY <1>5, <2>5, <4>1, <4>5 DEF Claim
      <4>7. Excused(p)' BY <2>3, <2>5, <4>6 DEF Excused
      <4>q. QED BY <4>7
    <3>2. ASSUME NEW v \in Workers, On(v, p)' PROVE v = w
      BY <2>1, <3>1, <3>2 DEF On, Moves, OnlyMoves, Same
    <3>3. claim'[p] # Unclaimed
      <4>1. claim'[p] = wk[w].age BY <2>2, <2>3, <2>5 DEF AInv
      <4>2. wk[w].age \in Nat BY DEF AInv
      <4>q. QED BY <4>1, <4>2 DEF Unclaimed
    <3>4. Alone(p)' /\ Guarded(p)' /\ Own(p)'
      BY <2>3, <2>5, <3>2, <3>3 DEF Alone, Guarded, Own
    <3>5. ~Closed(p) BY <2>3, <2>5 DEF Closed
    <3>6. Taken(p)' <=> Taken(p) BY <1>1 DEF Taken, Free, uses
    <3>7. wk'[w].step = "media" BY <2>1 DEF Moves
    <3>8. Count(p)' BY <1>1, <3>1, <3>2, <3>5, <3>6, <3>7 DEF Once, Count, Stored
    <3>q. QED BY <3>4, <3>8 DEF Once
  <2>q. QED BY <2>4, <2>5
<1>q. QED BY <1>4, <1>5

(* Looking up a key.                                                       *)
LEMMA OFind ==
    ASSUME BInv, NEW p \in Posts, NEW w \in Workers, FindKey(w), Once(p), ~Excused(p)'
    PROVE  Once(p)'
<1>s. Shape /\ Fit(w) BY DEF BInv
<1>1. UNCHANGED <<plan, row, claim, stored, att, gone, key, refused>>
  BY DEF FindKey, schedule, posted, others, client
<1>2. wk[w].step = "find" BY DEF FindKey, At
<1>3. ~On(w, p) BY <1>2 DEF On
<1>4. wk[w].post \in Direct BY <1>s, <1>2 DEF Fit
<1>5. PICK s : Goto(w, s) /\ s = AfterFind(wk[w].post) BY DEF FindKey
<1>6. OnlyMoves(w) /\ wk'[w].step = s /\ wk'[w].post = wk[w].post BY <1>s, <1>5, GotoStep
<1>7. CASE p # wk[w].post \/ key[p] # 0
  <2>1. ~On(w, p)' BY <1>5, <1>6, <1>7 DEF On, AfterFind
  <2>q. QED BY <1>1, <1>3, <1>6, <2>1, Elsewhere DEF Free
<1>8. CASE p = wk[w].post /\ key[p] = 0
  <2>1. ASSUME NEW v \in Workers, On(v, p) PROVE FALSE
    <3>1. v \in Others(w, p) BY <1>3, <2>1 DEF Others, On, AtWork
    <3>2. overlapped' = overlapped \cup {p} BY <1>8, <3>1 DEF FindKey
    <3>3. Excused(p)' BY <1>4, <1>8, <3>2 DEF Excused
    <3>q. QED BY <3>3
  <2>2. ASSUME NEW v \in Workers, On(v, p)' PROVE v = w
    BY <1>6, <2>1, <2>2 DEF On, OnlyMoves, Same
  <2>3. Alone(p)' /\ Guarded(p)' BY <1>1, <1>4, <1>8, <2>2 DEF Alone, Guarded
  <2>4. Own(p)' BY <1>1, <2>1 DEF Once, Own
  <2>5. ~Closed(p) BY <1>4, <1>8 DEF Closed
  <2>6. Taken(p)' <=> Taken(p) BY <1>1 DEF Taken, Free, uses
  <2>7. wk'[w].step = "media" BY <1>5, <1>6, <1>8 DEF AfterFind
  <2>8. Count(p)' BY <1>1, <2>1, <2>2, <2>5, <2>6, <2>7 DEF Once, Count, Stored
  <2>q. QED BY <2>3, <2>4, <2>8 DEF Once
<1>q. QED BY <1>7, <1>8

(* A worker that leaves a post before it stored a status, or because the   *)
(* media went to another one.                                              *)
LEMMA OLeaves ==
    ASSUME NEW p \in Posts, NEW w \in Workers, Once(p), On(w, p), OnlyMoves(w), ~On(w, p)',
           wk[w].step \in {"media", "insert"} \/ (wk[w].step = "attach" /\ Taken(p)),
           UNCHANGED <<plan, row, claim, stored, att, gone, key>>,
           p \in Direct /\ p \in refused' => p \in refused
    PROVE  Once(p)'
<1>1. \A v \in Workers : On(v, p) => v = w BY DEF Once, Alone
<1>2. \A v \in Workers : ~On(v, p)' BY <1>1 DEF On, OnlyMoves, Same
<1>3. Alone(p)' /\ Guarded(p)' BY <1>2 DEF Alone, Guarded
<1>4. Own(p)' BY <1>1 DEF Once, Own
<1>5. Taken(p)' <=> Taken(p)
  <2>1. uses' = uses /\ \A m : Free(m)' <=> Free(m) BY DEF uses, Free
  <2>q. QED BY <2>1 DEF Taken
<1>6. Closed(p)' <=> Closed(p) BY DEF Closed
<1>7. Count(p)' BY <1>1, <1>2, <1>5, <1>6 DEF Once, Count, Stored
<1>q. QED BY <1>3, <1>4, <1>7 DEF Once

(* Looking at the media.                                                   *)
LEMMA OResolve ==
    ASSUME BInv, NEW p \in Posts, NEW w \in Workers, ResolveMedia(w), Once(p)
    PROVE  Once(p)'
<1>s. Shape BY DEF BInv
<1>1. UNCHANGED <<plan, row, claim, stored, att, gone, key>> BY DEF ResolveMedia, schedule, posted, others
<1>2. wk[w].step = "media" BY DEF ResolveMedia, At
<1>3. p # wk[w].post => (p \in refused' => p \in refused) BY DEF ResolveMedia
<1>4. CASE p # wk[w].post
  <2>1. OnlyMoves(w) /\ ~On(w, p) /\ ~On(w, p)'
    <3>1. CASE Goto(w, "insert") BY <1>s, <1>4, <3>1, GotoStep DEF On
    <3>2. CASE Leave(w) BY <1>s, <1>4, <3>2, LeaveStep DEF On
    <3>q. QED BY <3>1, <3>2 DEF ResolveMedia
  <2>q. QED BY <1>1, <1>3, <1>4, <2>1, Elsewhere DEF Free
<1>5. CASE p = wk[w].post /\ Acceptable(p)
  <2>0. On(w, p) BY <1>2, <1>5 DEF On
  <2>1. Goto(w, "insert") /\ UNCHANGED refused BY <1>5 DEF ResolveMedia
  <2>2. OnlyMoves(w) /\ wk'[w].step = "insert" /\ wk'[w].post = wk[w].post
    BY <1>s, <2>1, GotoStep
  <2>3. \A v \in Workers : On(v, p) => v = w BY <2>0 DEF Once, Alone
  <2>4. \A v \in Workers : On(v, p)' => v = w BY <2>2, <2>3 DEF On, OnlyMoves, Same
  <2>5. Alone(p)' BY <2>4 DEF Alone
  <2>6. Guarded(p)' BY <1>1, <2>0, <2>4 DEF Once, Guarded
  <2>7. Own(p)' BY <1>1, <1>2, <2>1, <2>3 DEF Once, Own
  <2>8. ~Taken(p) BY <1>5 DEF Acceptable, Taken
  <2>9. stored[p] = 0 BY <1>2, <2>0, <2>3, <2>8 DEF Once, Count, Stored
  <2>10. Count(p)' BY <1>1, <2>9 DEF Count
  <2>q. QED BY <2>5, <2>6, <2>7, <2>10 DEF Once
<1>6. CASE p = wk[w].post /\ ~Acceptable(p)
  <2>0. On(w, p) BY <1>2, <1>6 DEF On
  <2>1. Leave(w) BY <1>6 DEF ResolveMedia
  <2>2. OnlyMoves(w) /\ ~On(w, p)' BY <1>s, <2>1, LeaveStep DEF On
  <2>3. p \in Direct /\ p \in refused' => p \in refused
    <3> SUFFICES ASSUME p \in Direct, p \in refused', p \notin refused PROVE FALSE OBVIOUS
    <3>1. PICK m \in uses[p] : att[m][1] = p BY <1>6 DEF ResolveMedia
    <3>2. m \in Media BY <2>0, <3>1, OnKind, UsesMedia DEF BInv
    <3>3. key[p] = 0 BY <2>0 DEF Once, Guarded
    <3>4. PICK v \in Workers : On(v, p) /\ wk[v].step \in {"outbox", "done"}
      BY <3>1, <3>2, <3>3 DEF Once, Own
    <3>5. v = w BY <2>0, <3>4 DEF Once, Alone
    <3>q. QED BY <1>2, <3>4, <3>5
  <2>q. QED BY <1>1, <1>2, <2>0, <2>2, <2>3, OLeaves
<1>q. QED BY <1>4, <1>5, <1>6

(* Storing a status.                                                       *)
LEMMA OInsert ==
    ASSUME BInv, NEW p \in Posts, NEW w \in Workers, Insert(w), Once(p)
    PROVE  Once(p)'
<1>s. Shape BY DEF BInv
<1>1. UNCHANGED <<plan, row, claim, att, gone, key, refused>>
  BY DEF Insert, schedule, others, client
<1>2. wk[w].step = "insert" BY DEF Insert, At
<1>3. /\ OnlyMoves(w) /\ wk'[w].post = wk[w].post
      /\ wk'[w].step = "attach" \/ wk'[w].step = "done"
  BY <1>s, InsertStep
<1>4. wk[w].post \in Posts BY <1>2, WorksOnPost DEF AtWork
<1>5. stored' = [stored EXCEPT ![wk[w].post] = stored[wk[w].post] + 1] BY DEF Insert
<1>6. CASE p # wk[w].post
  <2>1. ~On(w, p) /\ ~On(w, p)' BY <1>3, <1>6 DEF On
  <2>2. stored'[p] = stored[p] BY <1>5, <1>6 DEF BInv
  <2>q. QED BY <1>1, <1>3, <2>1, <2>2, Elsewhere DEF Free
<1>7. CASE p = wk[w].post
  <2>0. On(w, p) BY <1>2, <1>7 DEF On
  <2>1. stored[p] = 0 BY <1>2, <2>0 DEF Once, Count
  <2>2. stored'[p] = 1 BY <1>5, <1>7, <2>1 DEF BInv
  <2>3. \A v \in Workers : On(v, p) => v = w BY <2>0 DEF Once, Alone
  <2>4. \A v \in Workers : On(v, p)' => v = w BY <1>3, <2>3 DEF On, OnlyMoves, Same
  <2>5. Alone(p)' BY <2>4 DEF Alone
  <2>6. Guarded(p)' BY <1>1, <2>0, <2>4 DEF Once, Guarded
  <2>7. Own(p)' BY <1>1, <1>2, <2>3 DEF Once, Own
  <2>8. Stored(w, p)' BY <1>3, <1>7 DEF Stored, On
  <2>9. wk'[w].step # "insert" BY <1>3
  <2>10. Count(p)' BY <2>2, <2>4, <2>8, <2>9 DEF Count
  <2>q. QED BY <2>5, <2>6, <2>7, <2>10 DEF Once
<1>q. QED BY <1>6, <1>7

(* Attaching the media.                                                    *)
LEMMA OAttach ==
    ASSUME BInv, SInv, NEW p \in Posts, NEW w \in Workers, Attach(w), Once(p)
    PROVE  Once(p)'
<1>s. Shape /\ Fit(w) BY DEF BInv
<1>1. UNCHANGED <<plan, row, claim, stored, gone, key, refused>>
  BY DEF Attach, schedule, others, client, history
<1>2. wk[w].step = "attach" BY DEF Attach, At
<1>3. wk[w].post \in DOMAIN uses /\ wk[w].copy # 0
  BY <1>s, <1>2, WorksOnPost DEF AtWork, Fit
<1>4. uses[wk[w].post] # {} /\ uses[wk[w].post] \subseteq Media
  BY <1>2, <1>3, UsesMedia DEF SInv, SFit, BInv
<1>5. CASE Attachable(wk[w].post) # {}
  <2>1. /\ att' = [m \in Media |-> IF m \in Attachable(wk[w].post) THEN Copy(w) ELSE att[m]]
        /\ Goto(w, "outbox")
    BY <1>5 DEF Attach
  <2>2. OnlyMoves(w) /\ wk'[w].step = "outbox" /\ wk'[w].post = wk[w].post
    BY <1>s, <2>1, GotoStep
  <2>3. Copy(w) # Unattached /\ Copy(w)[1] = wk[w].post BY <1>3 DEF Copy, Unattached
  <2>4. ASSUME NEW m \in Media PROVE ~Free(m) => ~Free(m)' BY <1>1, <2>1, <2>3 DEF Free
  <2>5. ASSUME NEW m \in Media, att'[m][1] = p PROVE att[m][1] = p \/ p = wk[w].post
    BY <2>1, <2>3, <2>5
  <2>6. CASE p # wk[w].post
    <3>1. ~On(w, p) /\ ~On(w, p)' BY <2>2, <2>6 DEF On
    <3>2. \A m \in Media : (~Free(m) => ~Free(m)') /\ (att'[m][1] = p => att[m][1] = p)
      BY <2>4, <2>5, <2>6
    <3>q. QED BY <1>1, <2>2, <3>1, <3>2, Elsewhere
  <2>7. CASE p = wk[w].post
    <3>0. On(w, p) BY <1>2, <2>7 DEF On
    <3>1. \A v \in Workers : On(v, p) => v = w BY <3>0 DEF Once, Alone
    <3>2. \A v \in Workers : On(v, p)' => v = w BY <2>2, <3>1 DEF On, OnlyMoves, Same
    <3>3. Alone(p)' BY <3>2 DEF Alone
    <3>4. Guarded(p)' BY <1>1, <3>0, <3>2 DEF Once, Guarded
    <3>5. On(w, p)' /\ Stored(w, p)' BY <2>2, <2>7 DEF On, Stored
    <3>6. Own(p)' BY <1>1, <2>2, <3>5 DEF Once, Own
    <3>7. Count(p)' BY <1>1, <2>2, <3>2, <3>5 DEF Once, Count
    <3>q. QED BY <3>3, <3>4, <3>6, <3>7 DEF Once
  <2>q. QED BY <2>6, <2>7
<1>6. CASE Attachable(wk[w].post) = {}
  <2>1. Leave(w) /\ UNCHANGED att BY <1>6 DEF Attach
  <2>2. OnlyMoves(w) /\ ~On(w, p)' BY <1>s, <2>1, LeaveStep DEF On
  <2>3. CASE On(w, p)
    <3>1. p = wk[w].post BY <2>3 DEF On
    <3>2. Taken(p) BY <1>3, <1>4, <1>6, <3>1 DEF Attachable, Taken
    <3>q. QED BY <1>1, <1>2, <2>1, <2>2, <2>3, <3>2, OLeaves
  <2>4. CASE ~On(w, p) BY <1>1, <2>1, <2>2, <2>4, Elsewhere DEF Free
  <2>q. QED BY <2>3, <2>4
<1>q. QED BY <1>5, <1>6

(* Inserting the outbox row.                                               *)
LEMMA OOutbox ==
    ASSUME BInv, NEW p \in Posts, NEW w \in Workers, InsertOutbox(w), Once(p)
    PROVE  Once(p)'
<1>s. Shape BY DEF BInv
<1>1. UNCHANGED <<plan, row, claim, stored, att, gone, key, refused>>
  BY DEF InsertOutbox, schedule, others, client, history
<1>2. wk[w].step = "outbox" BY DEF InsertOutbox, At
<1>3. OnlyMoves(w) /\ wk'[w].step = "done" /\ wk'[w].post = wk[w].post
  BY <1>s, GotoStep DEF InsertOutbox
<1>4. CASE p # wk[w].post
  <2>1. ~On(w, p) /\ ~On(w, p)' BY <1>3, <1>4 DEF On
  <2>q. QED BY <1>1, <1>3, <2>1, Elsewhere DEF Free
<1>5. CASE p = wk[w].post
  <2>0. On(w, p) BY <1>2, <1>5 DEF On
  <2>1. \A v \in Workers : On(v, p) => v = w BY <2>0 DEF Once, Alone
  <2>2. \A v \in Workers : On(v, p)' => v = w BY <1>3, <2>1 DEF On, OnlyMoves, Same
  <2>3. Alone(p)' BY <2>2 DEF Alone
  <2>4. Guarded(p)' BY <1>1, <2>0, <2>2 DEF Once, Guarded
  <2>5. On(w, p)' /\ Stored(w, p)' BY <1>3, <1>5 DEF On, Stored
  <2>6. Own(p)' BY <1>1, <1>3, <2>5 DEF Once, Own
  <2>7. Count(p)' BY <1>1, <1>3, <2>2, <2>5 DEF Once, Count
  <2>q. QED BY <2>3, <2>4, <2>6, <2>7 DEF Once
<1>q. QED BY <1>4, <1>5

(* Removing the row of a published post.                                   *)
LEMMA ODelete ==
    ASSUME BInv, AInv, NEW p \in Posts, NEW w \in Workers, DeleteRow(w), Once(p), ~Excused(p)'
    PROVE  Once(p)'
<1>s. Shape /\ Fit(w) BY DEF BInv
<1>1. UNCHANGED <<plan, stored, att, gone, key, refused>> BY DEF DeleteRow, posted, others, client
<1>2. wk[w].step = "done" /\ wk[w].kind = "sweep" BY DEF DeleteRow, At
<1>3. OnlyMoves(w) /\ ~On(w, p)' BY <1>s, LeaveStep DEF DeleteRow, On
<1>4. CASE p # wk[w].post
  <2>1. ~On(w, p) BY <1>4 DEF On
  <2>2. p \in Scheduled => row'[p] = row[p] /\ claim'[p] = claim[p]
    BY <1>4 DEF DeleteRow, schedule, BInv, RowType, AInv
  <2>q. QED BY <1>1, <1>3, <2>1, <2>2, Elsewhere DEF Free
<1>5. CASE p = wk[w].post
  <2>0. On(w, p) BY <1>2, <1>5 DEF On
  <2>1. p \notin Direct /\ p \in Scheduled /\ row[p] # "none" BY <1>2, <2>0, OnKind
  <2>2. ~(broken' = Cut(w))
    <3>1. wk[w].copy # 0 BY <1>s, <1>2 DEF Fit
    <3>q. QED BY <1>1, <2>0, <3>1, CutExcuses
  <2>3. row' = IF row[p] = "pending" THEN [row EXCEPT ![p] = "done"] ELSE row
    BY <1>5, <2>2 DEF DeleteRow
  <2>4. row'[p] \notin {"none", "pending"} BY <2>1, <2>3 DEF BInv, RowType
  <2>5. \A v \in Workers : On(v, p) => v = w BY <2>0 DEF Once, Alone
  <2>6. \A v \in Workers : ~On(v, p)' BY <1>3, <2>5 DEF On, OnlyMoves, Same
  <2>7. Alone(p)' /\ Guarded(p)' /\ Own(p)' BY <2>1, <2>6 DEF Alone, Guarded, Own
  <2>8. Closed(p)' BY <2>1, <2>4 DEF Closed
  <2>9. Count(p)' BY <1>1, <2>6, <2>8 DEF Once, Count
  <2>q. QED BY <2>7, <2>9 DEF Once
<1>q. QED BY <1>4, <1>5

(* Recording a key.                                                        *)
LEMMA ORecord ==
    ASSUME BInv, NEW p \in Posts, NEW w \in Workers, RecordKey(w), Once(p), ~Excused(p)'
    PROVE  Once(p)'
<1>s. Shape /\ Fit(w) BY DEF BInv
<1>1. UNCHANGED <<plan, row, claim, stored, att, gone, refused>> BY DEF RecordKey, schedule, posted, others
<1>2. wk[w].step = "done" /\ wk[w].kind = "request" /\ wk[w].copy # 0
  BY <1>s DEF RecordKey, At, Fit
<1>3. OnlyMoves(w) /\ ~On(w, p)' BY <1>s, GotoStep DEF RecordKey, On
<1>4. CASE p # wk[w].post
  <2>1. ~On(w, p) BY <1>4 DEF On
  <2>2. p \in Direct => key'[p] = key[p] BY <1>4 DEF RecordKey, BInv
  <2>q. QED BY <1>1, <1>3, <2>1, <2>2, Elsewhere DEF Free
<1>5. CASE p = wk[w].post
  <2>0. On(w, p) BY <1>2, <1>5 DEF On
  <2>1. p \in Direct BY <1>2, <2>0, OnKind
  <2>2. ~(broken' = Cut(w)) BY <1>1, <1>2, <2>0, CutExcuses
  <2>3. key' = [key EXCEPT ![p] = wk[w].copy] BY <1>5, <2>2 DEF RecordKey
  <2>4. key'[p] # 0 BY <1>2, <2>1, <2>3 DEF BInv
  <2>5. \A v \in Workers : On(v, p) => v = w BY <2>0 DEF Once, Alone
  <2>6. \A v \in Workers : ~On(v, p)' BY <1>3, <2>5 DEF On, OnlyMoves, Same
  <2>7. Alone(p)' /\ Guarded(p)' BY <2>6 DEF Alone, Guarded
  <2>8. Own(p)' BY <1>1, <2>4 DEF Once, Own
  <2>9. Closed(p)' BY <2>1, <2>4 DEF Closed
  <2>10. Count(p)' BY <1>1, <2>6, <2>9 DEF Once, Count
  <2>q. QED BY <2>7, <2>8, <2>10 DEF Once
<1>q. QED BY <1>4, <1>5

(* A worker that begins or answers is at no post.                          *)
LEMMA OAside ==
    ASSUME BInv, NEW p \in Posts, NEW w \in Workers, Once(p),
           Answer(w) \/ StartSweep(w) \/ \E d \in Direct : Request(w, d)
    PROVE  Once(p)'
<1>s. Shape BY DEF BInv
<1>1. UNCHANGED <<plan, row, claim, stored, att, gone, key, refused>>
  BY DEF Answer, StartSweep, Request, schedule, posted, others, client, history
<1>2. CASE Answer(w)
  <2>1. OnlyMoves(w) /\ ~On(w, p)' BY <1>2, <1>s, EndStep DEF Answer, On
  <2>2. ~On(w, p) BY <1>2 DEF Answer, At, On
  <2>q. QED BY <1>1, <2>1, <2>2, Elsewhere DEF Free
<1>3. CASE StartSweep(w) \/ \E d \in Direct : Request(w, d)
  <2>1. OnlyMoves(w) /\ ~On(w, p)' /\ ~On(w, p) BY <1>3, <1>s, StartStep, IdleShape DEF On
  <2>q. QED BY <1>1, <2>1, Elsewhere DEF Free
<1>q. QED BY <1>2, <1>3

(* A worker that is cut short.                                             *)
LEMMA OCut ==
    ASSUME BInv, NEW p \in Posts, NEW w \in Workers, Fail(w) \/ Die(w), Once(p), ~Excused(p)'
    PROVE  Once(p)'
<1>s. Shape /\ Fit(w) BY DEF BInv
<1>1. UNCHANGED <<plan, row, claim, stored, att, gone, key, refused>>
  BY DEF Fail, RowsAfterFail, Die, schedule, posted, others, client
<1>2. OnlyMoves(w) /\ ~On(w, p)'
  <2>1. CASE Fail(w) BY <1>s, <2>1, LeaveStep DEF Fail, On
  <2>2. CASE Die(w) BY <1>s, <2>2, EndStep DEF Die, On
  <2>q. QED BY <2>1, <2>2
<1>3. CASE On(w, p)
  <2>1. broken' = Cut(w) BY <1>3 DEF Fail, Die, On
  <2>2. wk[w].copy = 0 BY <1>1, <1>3, <2>1, CutExcuses
  <2>3. wk[w].step \in {"media", "insert"} BY <1>s, <1>3, <2>2 DEF On, Fit
  <2>q. QED BY <1>1, <1>2, <1>3, <2>3, OLeaves
<1>4. CASE ~On(w, p) BY <1>1, <1>2, <1>4, Elsewhere DEF Free
<1>q. QED BY <1>3, <1>4

(* The author, the clock and the purge of keys.                            *)
LEMMA OQuiet ==
    ASSUME BInv, AInv, NEW p \in Posts, Once(p), ~Excused(p)',
           \/ \E s \in Scheduled : Schedule(s) \/ Reschedule(s) \/ Cancel(s)
           \/ \E d \in Direct : ExpireKey(d)
           \/ World \/ Tick \/ UNCHANGED vars
    PROVE  Once(p)'
<1>1. \A v \in Workers : Same(v) BY QuietStep DEF BInv
<1>2. \A v \in Workers : (On(v, p)' <=> On(v, p)) /\ wk'[v].step = wk[v].step
  BY <1>1 DEF On, Same
<1>3. UNCHANGED <<plan, stored, att, refused>> /\ gone \subseteq gone'
  BY WorldStep DEF Schedule, Reschedule, Cancel, ExpireKey, Tick, posted, others, history, vars
<1>4. ASSUME UNCHANGED key, p \in Scheduled => row'[p] = row[p],
             p \in Scheduled => (claim[p] # Unclaimed => claim'[p] # Unclaimed)
      PROVE  Once(p)'
  BY <1>2, <1>3, <1>4, Undisturbing DEF Undisturbed, Free
<1>5. ASSUME NEW s \in Scheduled, Schedule(s) PROVE Once(p)'
  <2>1. UNCHANGED <<gone, key, claim>> /\ row[s] = "none" /\ row' = [row EXCEPT ![s] = "pending"]
    BY <1>5 DEF Schedule, posted, others, client
  <2>2. CASE p # s BY <1>4, <2>1, <2>2 DEF BInv, RowType
  <2>3. CASE p = s
    <3>1. p \notin Direct BY <2>3, PublishingAssumption
    <3>2. \A v \in Workers : ~On(v, p) BY <2>1, <2>3, <3>1, OnKind
    <3>3. Alone(p)' /\ Guarded(p)' /\ Own(p)' BY <1>2, <3>1, <3>2 DEF Alone, Guarded, Own
    <3>4. ~Closed(p) BY <2>1, <2>3, <3>1 DEF Closed
    <3>5. Taken(p)' <=> Taken(p) BY <1>3, <2>1 DEF Taken, Free, uses
    <3>6. Count(p)' BY <1>2, <1>3, <3>2, <3>4, <3>5 DEF Once, Count, Stored
    <3>q. QED BY <3>3, <3>6 DEF Once
  <2>q. QED BY <2>2, <2>3
<1>6. ASSUME NEW s \in Scheduled, Reschedule(s) PROVE Once(p)'
  <2>1. UNCHANGED <<key, claim, row>> BY <1>6 DEF Reschedule, client
  <2>q. QED BY <1>4, <2>1
<1>7. ASSUME NEW s \in Scheduled, Cancel(s) PROVE Once(p)'
  <2>1. /\ UNCHANGED <<gone, key>>
        /\ row[s] = "pending" /\ row' = [row EXCEPT ![s] = "cancelled"]
        /\ claim' = [claim EXCEPT ![s] = Unclaimed]
    BY <1>7 DEF Cancel, Pending, posted, others, client
  <2>2. CASE p # s BY <1>4, <2>1, <2>2 DEF BInv, RowType, AInv
  <2>3. CASE p = s
    <3>1. p \notin Direct BY <2>3, PublishingAssumption
    <3>2. row'[p] = "cancelled" BY <2>1, <2>3 DEF BInv, RowType
    <3>3. Alone(p)' /\ Guarded(p)' /\ Own(p)'
      BY <1>2, <3>1, <3>2 DEF Once, Alone, Guarded, Own
    <3>4. ~Closed(p) BY <2>1, <2>3, <3>1 DEF Closed
    <3>5. Taken(p)' <=> Taken(p) BY <1>3, <2>1 DEF Taken, Free, uses
    <3>6. \A v \in Workers : Stored(v, p)' <=> Stored(v, p) BY <1>2 DEF Stored
    <3>7. Count(p)' BY <1>2, <1>3, <3>4, <3>5, <3>6 DEF Once, Count
    <3>q. QED BY <3>3, <3>7 DEF Once
  <2>q. QED BY <2>2, <2>3
<1>8. ASSUME NEW d \in Direct, ExpireKey(d) PROVE Once(p)'
  <2>1. /\ UNCHANGED <<claim, row>> /\ key' = [key EXCEPT ![d] = 0]
        /\ expired' = expired \cup {d}
    BY <1>8 DEF ExpireKey, schedule
  <2>2. p # d BY <2>1 DEF Excused
  <2>3. p \in Direct => key'[p] = key[p] BY <2>1, <2>2 DEF BInv
  <2>q. QED BY <1>2, <1>3, <2>1, <2>3, Undisturbing DEF Undisturbed, Free
<1>9. CASE Tick
  <2>1. UNCHANGED <<key, row>> BY <1>9 DEF Tick, client
  <2>2. ASSUME p \in Scheduled, claim[p] # Unclaimed PROVE claim'[p] # Unclaimed
    <3>1. claim[p] \in Nat BY <2>2 DEF AInv
    <3>2. claim'[p] = claim[p] \/ claim'[p] = claim[p] + 1 BY <1>9, <2>2 DEF Tick
    <3>q. QED BY <2>2, <3>1, <3>2 DEF Unclaimed
  <2>q. QED BY <1>4, <2>1, <2>2
<1>10. CASE World \/ UNCHANGED vars BY <1>4, <1>10, WorldStep DEF vars, schedule, client
<1>q. QED BY <1>5, <1>6, <1>7, <1>8, <1>9, <1>10

(* What is history stays.                                                  *)
LEMMA HistoryGrows ==
    ASSUME [Next]_vars
    PROVE  /\ broken \subseteq broken' /\ slow \subseteq slow'
           /\ overlapped \subseteq overlapped' /\ expired \subseteq expired'
<1>1. ASSUME NEW w \in Workers, WorkerStep(w) \/ StartSweep(w) \/ Fail(w) \/ Die(w)
                                \/ \E d \in Direct : Request(w, d)
      PROVE  /\ broken \subseteq broken' /\ slow \subseteq slow'
             /\ overlapped \subseteq overlapped' /\ expired \subseteq expired'
  BY <1>1 DEF WorkerStep, Claim, FindKey, ResolveMedia, Insert, Attach, InsertOutbox, DeleteRow,
              RecordKey, Answer, StartSweep, Request, Fail, Die, Cut, history
<1>q. QED BY <1>1, WorldStep DEF Next, Schedule, Reschedule, Cancel, ExpireKey, Tick, history, vars

(* No step makes a second status of a post without a reason.               *)
LEMMA ONext == BInv /\ BInv' /\ SInv /\ AInv /\ OInv /\ [Next]_vars => OInv'
<1> SUFFICES ASSUME BInv, BInv', SInv, AInv, OInv, [Next]_vars, NEW p \in Posts
             PROVE  Excused(p)' \/ Once(p)'
  BY DEF OInv
<1>1. CASE Excused(p)
  <2>1. stored[p] \in Nat /\ stored'[p] \in Nat BY DEF BInv
  <2>2. stored[p] <= stored'[p] BY PostedGrows
  <2>q. QED BY <1>1, <2>1, <2>2, HistoryGrows, ExcusesStay
<1>2. CASE Once(p) /\ ~Excused(p)'
  BY <1>2, OClaim, OFind, OResolve, OInsert, OAttach, OOutbox, ODelete, ORecord, OAside, OCut,
     OQuiet DEF Next, WorkerStep
<1>q. QED BY <1>1, <1>2 DEF OInv

(* The initial state.                                                      *)
LEMMA OInit == Init => AInv /\ OInv
<1> SUFFICES ASSUME Init PROVE AInv /\ OInv OBVIOUS
<1>1. AInv
  <2>1. Idle.age = 0 BY DEF Idle
  <2>q. QED BY <2>1 DEF Init, AInv
<1>2. \A w \in Workers : ~ \E p \in Posts : On(w, p) BY IdleShape DEF Init, On
<1>3. ASSUME NEW p \in Posts PROVE Once(p)
  <2>1. \A m \in Media : att[m][1] # p
    BY NoneIsNoPost DEF Init, Unattached
  <2>2. Alone(p) /\ Guarded(p) BY <1>2 DEF Alone, Guarded
  <2>3. Own(p) BY <2>1 DEF Init, Own
  <2>4. Count(p) BY DEF Init, Count
  <2>q. QED BY <2>2, <2>3, <2>4 DEF Once
<1>q. QED BY <1>1, <1>3 DEF OInv

(* Every post has one status, or a reason to have more.                    *)
THEOREM PostsAreCounted == Spec => [](AInv /\ OInv)
<1>1. BInv /\ BInv' /\ SInv /\ AInv /\ OInv /\ [Next]_vars => AInv' /\ OInv'
  BY ANext, ONext
<1>q. QED BY <1>1, OInit, StatusesAreKept, PTL DEF Spec

(* A scheduled row becomes two statuses only when a sweep was still at it  *)
(* as its claim lapsed, or when an attempt was cut short after the status  *)
(* was stored (claim_scheduled_status, publish_scheduled_status_row).      *)
THEOREM SchedulesPublishOnce == Spec => []PublishedOnce
<1>1. OInv => PublishedOnce
  <2> SUFFICES ASSUME OInv, NEW s \in Scheduled
               PROVE  stored[s] <= 1 \/ s \in slow \/ Made(s) \cap broken # {}
    BY DEF PublishedOnce
  <2>1. s \in Posts /\ s \notin Direct BY PublishingAssumption DEF Posts
  <2>2. Excused(s) \/ Once(s) BY <2>1 DEF OInv
  <2>q. QED BY <2>1, <2>2 DEF Excused, Once, Count
<1>q. QED BY <1>1, PostsAreCounted, PTL

(* A client that repeats a request with its key gets one status and no     *)
(* refusal for media its own status has (create_status,                    *)
(* idempotent_status_response), unless its requests overlap, the first was *)
(* cut short after the status was stored, or the key was purged.           *)
THEOREM KeyedRequestsPublishOnce == Spec => []KeyedOnce
<1>1. OInv => KeyedOnce
  <2> SUFFICES ASSUME OInv, NEW d \in Direct
               PROVE  \/ stored[d] <= 1 /\ d \notin refused
                      \/ d \in overlapped \cup expired \/ Made(d) \cap broken # {}
    BY DEF KeyedOnce
  <2>1. d \in Posts BY DEF Posts
  <2>2. Excused(d) \/ Once(d) BY <2>1 DEF OInv
  <2>q. QED BY <2>2 DEF Excused, Once, Count, Own
<1>q. QED BY <1>1, PostsAreCounted, PTL
=============================================================================
