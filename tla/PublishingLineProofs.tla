------------------------ MODULE PublishingLineProofs ------------------------
(***************************************************************************)
(* Proofs about the line of scheduled rows: what a statement that selects  *)
(* rows returns, which rows stand in the line, the types of everything     *)
(* publishing keeps, and that the author of a scheduled post has the last  *)
(* word on it.                                                             *)
(*                                                                         *)
(* What Selected returns is proved by induction on the length of the       *)
(* sequence, in the form of a least counterexample (WFMin).                *)
(***************************************************************************)
EXTENDS PublishingProofs, SequenceTheorems, WellFoundedInduction

-----------------------------------------------------------------------------
(* The elements of a sequence that a WHERE keeps.                          *)

(* A set of natural numbers that has an element has a least one.           *)
LEMMA Least ==
    ASSUME NEW T, T \subseteq Nat, T # {}
    PROVE  \E x \in T : \A y \in T : ~(y < x)
<1>1. PICK x \in T : \A y \in T : ~(<<y, x>> \in OpToRel(<, Nat))
  BY WFMin, NatLessThanWellFounded, Zenon
<1>2. \A y \in T : ~(y < x) BY <1>1 DEF OpToRel
<1>q. QED BY <1>2

(* f tells what was selected from each of the first n prefixes of s.       *)
Picks(s, S, f, n) ==
    f = [i \in 0 .. n |->
          IF i = 0 THEN <<>>
          ELSE IF s[i] \in S THEN Append(f[i - 1], s[i]) ELSE f[i - 1]]

(* Selected is the last value of such a function.                          *)
LEMMA SelectedIs ==
    ASSUME NEW s, NEW S
    PROVE  Selected(s, S) = (CHOOSE f : Picks(s, S, f, Len(s)))[Len(s)]
  BY Zenon DEF Selected, Picks

(* What is selected from a prefix extends to the next one.                 *)
LEMMA PicksExtend ==
    ASSUME NEW s, NEW S, NEW m \in Nat, NEW g, Picks(s, S, g, m)
    PROVE  \E f : Picks(s, S, f, m + 1)
<1> DEFINE last == IF s[m + 1] \in S THEN Append(g[m], s[m + 1]) ELSE g[m]
           f == [i \in 0 .. m + 1 |-> IF i = m + 1 THEN last ELSE g[i]]
<1>1. ASSUME NEW i \in 0 .. m
      PROVE  g[i] = IF i = 0 THEN <<>>
                    ELSE IF s[i] \in S THEN Append(g[i - 1], s[i]) ELSE g[i - 1]
  BY Zenon DEF Picks
<1>2. ASSUME NEW i \in 0 .. m + 1
      PROVE  f[i] = IF i = 0 THEN <<>>
                    ELSE IF s[i] \in S THEN Append(f[i - 1], s[i]) ELSE f[i - 1]
  <2>1. CASE i = m + 1
    <3>1. f[i] = last /\ f[i - 1] = g[m] /\ i # 0 BY <2>1
    <3>q. QED BY <2>1, <3>1
  <2>2. CASE i # m + 1
    <3>1. i \in 0 .. m /\ f[i] = g[i] BY <2>2
    <3>2. i # 0 => f[i - 1] = g[i - 1] BY <3>1
    <3> HIDE DEF f
    <3>q. QED BY <1>1, <3>1, <3>2
  <2>q. QED BY <2>1, <2>2
<1>3. f = [i \in 0 .. m + 1 |-> f[i]] OBVIOUS
<1> HIDE DEF f
<1>4. Picks(s, S, f, m + 1) BY <1>2, <1>3 DEF Picks
<1>q. QED BY <1>4

(* There is such a function for every prefix.                              *)
LEMMA PicksExist ==
    ASSUME NEW s, NEW S, NEW n \in Nat
    PROVE  \E f : Picks(s, S, f, n)
<1> DEFINE Bad == {m \in Nat : ~ \E f : Picks(s, S, f, m)}
<1>1. CASE Bad = {} BY <1>1
<1>2. CASE Bad # {}
  <2>1. PICK m \in Bad : \A y \in Bad : ~(y < m) BY <1>2, Least
  <2>2. CASE m = 0
    <3>1. Picks(s, S, [i \in 0 .. 0 |-> <<>>], 0) BY DEF Picks
    <3>q. QED BY <2>2, <3>1
  <2>3. CASE m # 0
    <3>1. m - 1 \in Nat /\ m - 1 \notin Bad BY <2>1, <2>3
    <3>2. PICK g : Picks(s, S, g, m - 1) BY <3>1
    <3>3. \E f : Picks(s, S, f, (m - 1) + 1) BY <3>1, <3>2, PicksExtend
    <3>q. QED BY <3>3
  <2>q. QED BY <2>2, <2>3
<1>q. QED BY <1>1, <1>2

(* x stands in the sequence s.                                             *)
Occurs(x, s) == \E i \in DOMAIN s : s[i] = x

(* The rows selected are rows of the line, and are those of them that the  *)
(* WHERE keeps.                                                            *)
LEMMA SelectedKeeps ==
    ASSUME NEW D, NEW s \in Seq(D), NEW S
    PROVE  /\ Selected(s, S) \in Seq(D)
           /\ \A x : Occurs(x, Selected(s, S)) <=> x \in S /\ Occurs(x, s)
<1> DEFINE L == Len(s)
           f == CHOOSE g : Picks(s, S, g, L)
           Good(n) == /\ f[n] \in Seq(D)
                      /\ \A x : Occurs(x, f[n]) <=> x \in S /\ \E i \in 1 .. n : s[i] = x
           Bad == {n \in 0 .. L : ~Good(n)}
<1>0. L \in Nat OBVIOUS
<1>1. Picks(s, S, f, L)
  <2> HIDE DEF L
  <2>1. \E g : Picks(s, S, g, L) BY <1>0, PicksExist, Zenon
  <2>q. QED BY <2>1, Zenon
<1>2. Selected(s, S) = f[L] BY SelectedIs, Zenon
<1> HIDE DEF f
<1>3. ASSUME NEW i \in 0 .. L
      PROVE  f[i] = IF i = 0 THEN <<>>
                    ELSE IF s[i] \in S THEN Append(f[i - 1], s[i]) ELSE f[i - 1]
  BY <1>1, Zenon DEF Picks
<1>4. Good(0)
  <2>1. 0 \in 0 .. L BY <1>0
  <2>2. f[0] = <<>> BY <1>3, <2>1
  <2>q. QED BY <2>2 DEF Occurs
<1>5. ASSUME NEW n \in 1 .. L, Good(n - 1) PROVE Good(n)
  <2>1. n \in 0 .. L /\ n # 0 /\ s[n] \in D OBVIOUS
  <2>2. CASE s[n] \in S
    <3>1. f[n] = Append(f[n - 1], s[n]) BY <1>3, <2>1, <2>2
    <3>2. f[n] \in Seq(D) BY <1>5, <2>1, <3>1
    <3>3. ASSUME NEW x PROVE Occurs(x, f[n]) <=> Occurs(x, f[n - 1]) \/ x = s[n]
      <4> DEFINE h == f[n - 1]
      <4>1. h \in Seq(D) BY <1>5
      <4>2. f[n] = Append(h, s[n]) BY <3>1
      <4> HIDE DEF h
      <4>3. /\ DOMAIN f[n] = 1 .. Len(h) + 1 /\ DOMAIN h = 1 .. Len(h)
            /\ f[n][Len(h) + 1] = s[n] /\ \A i \in 1 .. Len(h) : f[n][i] = h[i]
            /\ Len(h) \in Nat
        BY <4>1, <4>2, <2>1
      <4>4. Occurs(x, f[n]) <=> Occurs(x, h) \/ x = s[n]
        <5>1. ASSUME Occurs(x, f[n]) PROVE Occurs(x, h) \/ x = s[n]
          <6>1. PICK i \in 1 .. Len(h) + 1 : f[n][i] = x BY <4>3, <5>1 DEF Occurs
          <6>2. CASE i = Len(h) + 1 BY <4>3, <6>1, <6>2
          <6>3. CASE i # Len(h) + 1
            <7>1. i \in 1 .. Len(h) BY <4>3, <6>1, <6>3
            <7>q. QED BY <4>3, <6>1, <7>1 DEF Occurs
          <6>q. QED BY <6>2, <6>3
        <5>2. ASSUME Occurs(x, h) PROVE Occurs(x, f[n])
          <6>1. PICK i \in 1 .. Len(h) : h[i] = x BY <4>3, <5>2 DEF Occurs
          <6>2. i \in DOMAIN f[n] /\ f[n][i] = x BY <4>3, <6>1
          <6>q. QED BY <6>2 DEF Occurs
        <5>3. ASSUME x = s[n] PROVE Occurs(x, f[n])
          <6>1. Len(h) + 1 \in DOMAIN f[n] BY <4>3
          <6>q. QED BY <4>3, <5>3, <6>1 DEF Occurs
        <5>q. QED BY <5>1, <5>2, <5>3
      <4>q. QED BY <4>4 DEF h
    <3>4. ASSUME NEW x PROVE (\E i \in 1 .. n : s[i] = x) <=> (\E i \in 1 .. n - 1 : s[i] = x) \/ x = s[n]
      BY <2>1
    <3>q. QED BY <1>5, <2>2, <3>2, <3>3, <3>4
  <2>3. CASE s[n] \notin S
    <3>1. f[n] = f[n - 1] BY <1>3, <2>1, <2>3
    <3>2. ASSUME NEW x \in S PROVE (\E i \in 1 .. n : s[i] = x) <=> (\E i \in 1 .. n - 1 : s[i] = x)
      BY <2>1, <2>3
    <3>q. QED BY <1>5, <3>1, <3>2
  <2>q. QED BY <2>2, <2>3
<1>6. Bad = {}
  <2> SUFFICES ASSUME Bad # {} PROVE FALSE OBVIOUS
  <2>0. Bad \subseteq Nat BY <1>0
  <2>1. PICK m \in Bad : \A y \in Bad : ~(y < m)
    <3> HIDE DEF Bad
    <3>q. QED BY <2>0, Least
  <2>2. m # 0 BY <1>4
  <2>3. m \in 1 .. L /\ m - 1 \in 0 .. L /\ m - 1 < m BY <2>1, <2>2
  <2>4. Good(m - 1) BY <2>1, <2>3
  <2>q. QED BY <1>5, <2>3, <2>4
<1>7. Good(L)
  <2>1. L \in 0 .. L BY <1>0
  <2> HIDE DEF Good
  <2>q. QED BY <1>6, <2>1
<1>8. DOMAIN s = 1 .. L OBVIOUS
<1>q. QED BY <1>2, <1>7, <1>8 DEF Occurs

-----------------------------------------------------------------------------
(* The types of the workers.                                               *)
WorkType == [kind : {"idle", "sweep", "request"}, age : 0 .. MaxAge,
             list : Seq(Scheduled), moved : SUBSET Scheduled,
             post : Posts \cup {None}, step : Steps, copy : Nat]

(* A sweep is at the first of the rows it has left.                        *)
AtHead(x) == x.kind = "sweep" => x.list # <<>> /\ x.post = Head(x.list)

WInv == /\ wk \in [Workers -> WorkType]
        /\ \A w \in Workers : AtHead(wk[w])

(* What an idle worker is.                                                 *)
LEMMA IdleTyped == Idle \in WorkType /\ AtHead(Idle)
<1>1. 0 \in 0 .. MaxAge BY PublishingAssumption
<1>q. QED BY <1>1 DEF Idle, WorkType, AtHead, Steps

(* A worker that moves alone.                                              *)
LEMMA WSet ==
    ASSUME WInv, NEW w \in Workers, NEW x \in WorkType, AtHead(x), wk' = [wk EXCEPT ![w] = x]
    PROVE  WInv'
  BY DEF WInv

(* A worker that goes on in its row.                                       *)
LEMMA WGoto ==
    ASSUME WInv, NEW w \in Workers, NEW s \in Steps, Goto(w, s)
    PROVE  WInv'
<1> DEFINE x == [wk[w] EXCEPT !.step = s]
<1>1. wk[w] \in WorkType /\ AtHead(wk[w]) /\ wk \in [Workers -> WorkType] BY DEF WInv
<1>2. x \in WorkType /\ AtHead(x) BY <1>1 DEF WorkType, AtHead
<1>3. wk' = [wk EXCEPT ![w] = x] BY <1>1 DEF Goto
<1> HIDE DEF x
<1>q. QED BY <1>2, <1>3, WSet

(* A sweep that goes on is at the next of its rows.                        *)
LEMMA LeftTyped ==
    ASSUME NEW w \in Workers, wk[w] \in WorkType, AtHead(wk[w])
    PROVE  /\ Left(w) \in WorkType /\ AtHead(Left(w))
           /\ \/ Left(w) = Idle
              \/ /\ wk[w].list \in Seq(Scheduled) /\ wk[w].list # <<>>
                 /\ Left(w).list = Tail(wk[w].list) /\ Left(w).list # <<>>
                 /\ Left(w).moved = wk[w].moved /\ Left(w).step = "claim"
<1>1. CASE Left(w) = Idle BY <1>1, IdleTyped
<1>2. CASE Left(w) # Idle
  <2> DEFINE l == wk[w].list
             x == [wk[w] EXCEPT !.list = Tail(l), !.post = Head(Tail(l)),
                                !.step = "claim", !.copy = 0]
  <2>1. wk[w].kind = "sweep" /\ Tail(l) # <<>> /\ Left(w) = x BY <1>2 DEF Left
  <2>2. l \in Seq(Scheduled) /\ l # <<>> BY <2>1 DEF AtHead, WorkType
  <2>3. Tail(l) \in Seq(Scheduled) /\ Head(Tail(l)) \in Scheduled
    <3>1. Tail(l) \in Seq(Scheduled) BY <2>2
    <3>q. QED BY <2>1, <3>1
  <2> HIDE DEF l
  <2>4. x \in WorkType BY <2>3 DEF WorkType, Posts, Steps
  <2>5. /\ x.list = Tail(l) /\ x.post = Head(Tail(l)) /\ x.moved = wk[w].moved
        /\ x.step = "claim"
    BY DEF WorkType
  <2>q. QED BY <2>1, <2>2, <2>4, <2>5 DEF AtHead, l
<1>q. QED BY <1>1, <1>2

(* A worker that leaves its row, or ends.                                  *)
LEMMA WLeave ==
    ASSUME WInv, NEW w \in Workers, Leave(w) \/ wk' = [wk EXCEPT ![w] = Idle]
    PROVE  WInv'
<1>1. wk[w] \in WorkType /\ AtHead(wk[w]) BY DEF WInv
<1>2. CASE Leave(w) BY <1>1, <1>2, LeftTyped, WSet DEF Leave
<1>3. CASE wk' = [wk EXCEPT ![w] = Idle] BY <1>3, IdleTyped, WSet
<1>q. QED BY <1>2, <1>3

-----------------------------------------------------------------------------
(* What is due and what a sweep lists.                                     *)

(* The rows a sweep lists are due rows, at least one if there are any      *)
(* (list_due_scheduled_statuses).                                          *)
LEMMA ListedDue ==
    ASSUME plan \in Plans, line \in Seq(Scheduled)
    PROVE  /\ Listed \in Seq(Scheduled)
           /\ \A i \in DOMAIN Listed : Due(Listed[i])
<1> DEFINE S == {s \in Scheduled : Due(s) /\ Lapsed(s, 0)}
           due == Selected(line, S)
           n == IF Len(due) < plan.limit THEN Len(due) ELSE plan.limit
           rows == SubSeq(due, 1, n)
           read == Selected(rows, Scheduled \ plan.illegible)
<1>1. due \in Seq(Scheduled) /\ \A x : Occurs(x, due) => x \in S
  <2> HIDE DEF S
  <2>q. QED BY SelectedKeeps
<1>2. Listed = read BY DEF Listed
<1>3. plan.limit \in Nat BY PublishingAssumption
<1> HIDE DEF due
<1>4. n \in Nat /\ n <= Len(due) BY <1>1, <1>3
<1> HIDE DEF n
<1>5. /\ rows \in Seq(Scheduled) /\ Len(rows) = n
      /\ \A i \in 1 .. n : rows[i] = due[i]
  BY <1>1, <1>4, SubSeqProperties
<1> HIDE DEF rows
<1>6. read \in Seq(Scheduled) /\ \A x : Occurs(x, read) => Occurs(x, rows)
  BY <1>5, SelectedKeeps
<1> HIDE DEF read
<1>7. ASSUME NEW i \in DOMAIN read PROVE Due(read[i])
  <2>1. Occurs(read[i], rows) BY <1>6 DEF Occurs
  <2>2. PICK j \in 1 .. n : rows[j] = read[i] BY <1>5, <2>1 DEF Occurs
  <2>3. j \in DOMAIN due /\ due[j] = read[i] BY <1>1, <1>4, <1>5, <2>2
  <2>4. Occurs(read[i], due) BY <2>3 DEF Occurs
  <2>q. QED BY <1>1, <2>4
<1>q. QED BY <1>2, <1>6, <1>7

-----------------------------------------------------------------------------
(* How the workers move.                                                   *)

(* A claim.                                                                *)
LEMMA WClaim == ASSUME WInv, NEW w \in Workers, Claim(w) PROVE WInv'
<1>1. CASE Claimable(w, wk[w].post)
  <2>1. PICK x : /\ wk' = [wk EXCEPT ![w] = x]
                 /\ \/ x = [wk[w] EXCEPT !.step = "media"]
                    \/ x = [wk[w] EXCEPT !.step = "media", !.age = 0, !.moved = {}]
    BY <1>1 DEF Claim
  <2>2. wk[w] \in WorkType /\ AtHead(wk[w]) BY DEF WInv
  <2>3. 0 \in 0 .. MaxAge BY PublishingAssumption
  <2>4. CASE x = [wk[w] EXCEPT !.step = "media"]
    <3>1. x \in WorkType /\ AtHead(x) BY <2>2, <2>4 DEF WorkType, AtHead, Steps
    <3>q. QED BY <2>1, <3>1, WSet
  <2>5. CASE x = [wk[w] EXCEPT !.step = "media", !.age = 0, !.moved = {}]
    <3>1. x \in WorkType /\ AtHead(x) BY <2>2, <2>3, <2>5 DEF WorkType, AtHead, Steps
    <3>q. QED BY <2>1, <3>1, WSet
  <2>q. QED BY <2>1, <2>4, <2>5
<1>2. CASE ~Claimable(w, wk[w].post) BY <1>2, WLeave DEF Claim
<1>q. QED BY <1>1, <1>2

(* An insert.                                                              *)
LEMMA WInsert == ASSUME BInv, WInv, NEW w \in Workers, Insert(w) PROVE WInv'
<1> DEFINE i == stored[wk[w].post] + 1
           s == IF uses[wk[w].post] # {} THEN "attach" ELSE "done"
           x == [wk[w] EXCEPT !.copy = i, !.step = s]
<1>1. wk[w] \in WorkType /\ AtHead(wk[w]) /\ wk \in [Workers -> WorkType] BY DEF WInv
<1>2. wk[w].post \in Posts BY WorksOnPost DEF Insert, At, AtWork
<1>3. i \in Nat BY <1>2 DEF BInv
<1>4. s \in Steps BY DEF Steps
<1>5. wk' = [wk EXCEPT ![w].copy = i, ![w].step = s] BY DEF Insert
<1> HIDE DEF i, s
<1>6. wk' = [wk EXCEPT ![w] = x] BY <1>1, <1>5
<1>7. x \in WorkType /\ AtHead(x) BY <1>1, <1>3, <1>4 DEF WorkType, AtHead
<1> HIDE DEF x
<1>q. QED BY <1>6, <1>7, WSet

(* A sweep and a request begin.                                            *)
LEMMA WStart ==
    ASSUME WInv, plan \in Plans, line \in Seq(Scheduled), NEW w \in Workers,
           StartSweep(w) \/ \E d \in Direct : Request(w, d)
    PROVE  WInv'
<1>1. CASE StartSweep(w)
  <2> DEFINE x == [Idle EXCEPT !.kind = "sweep", !.list = Listed,
                               !.post = Head(Listed), !.step = "claim"]
  <2>1. Listed \in Seq(Scheduled) /\ Listed # <<>> BY <1>1, ListedDue DEF StartSweep
  <2>2. Head(Listed) \in Posts BY <2>1 DEF Posts
  <2>3. x \in WorkType /\ AtHead(x)
    BY <2>1, <2>2, IdleTyped DEF WorkType, AtHead, Steps
  <2>4. wk' = [wk EXCEPT ![w] = x] BY <1>1 DEF StartSweep
  <2> HIDE DEF x
  <2>q. QED BY <2>3, <2>4, WSet
<1>2. ASSUME NEW d \in Direct, Request(w, d) PROVE WInv'
  <2> DEFINE x == [Idle EXCEPT !.kind = "request", !.post = d, !.step = "find"]
  <2>1. d \in Posts BY DEF Posts
  <2>2. x \in WorkType /\ AtHead(x) BY <2>1, IdleTyped DEF WorkType, AtHead, Steps
  <2>3. wk' = [wk EXCEPT ![w] = x] BY <1>2 DEF Request
  <2> HIDE DEF x
  <2>q. QED BY <2>2, <2>3, WSet
<1>q. QED BY <1>1, <1>2

(* The author, others and the clock.                                       *)
LEMMA WQuiet ==
    ASSUME WInv,
           \/ \E s \in Scheduled : Schedule(s) \/ Reschedule(s) \/ Cancel(s)
           \/ \E d \in Direct : ExpireKey(d)
           \/ World \/ Tick \/ UNCHANGED vars
    PROVE  WInv'
<1>1. CASE UNCHANGED wk BY <1>1 DEF WInv
<1>2. ASSUME NEW s \in Scheduled, Reschedule(s) PROVE WInv'
  <2>1. wk' = [w \in Workers |->
                IF Counting(w) THEN [wk[w] EXCEPT !.moved = @ \cup {s}] ELSE wk[w]]
    BY <1>2 DEF Reschedule
  <2>2. ASSUME NEW w \in Workers PROVE wk'[w] \in WorkType /\ AtHead(wk'[w])
    <3>1. wk[w] \in WorkType /\ AtHead(wk[w]) BY DEF WInv
    <3>2. [wk[w] EXCEPT !.moved = @ \cup {s}] \in WorkType
          /\ AtHead([wk[w] EXCEPT !.moved = @ \cup {s}])
      BY <3>1 DEF WorkType, AtHead
    <3>q. QED BY <2>1, <3>1, <3>2
  <2>q. QED BY <2>1, <2>2 DEF WInv
<1>3. CASE Tick
  <2>1. wk' = [w \in Workers |-> IF Counting(w) THEN [wk[w] EXCEPT !.age = @ + 1] ELSE wk[w]]
    BY <1>3 DEF Tick
  <2>2. ASSUME NEW w \in Workers PROVE wk'[w] \in WorkType /\ AtHead(wk'[w])
    <3>1. wk[w] \in WorkType /\ AtHead(wk[w]) BY DEF WInv
    <3>2. CASE Counting(w)
      <4>1. wk[w].age < MaxAge BY <1>3, <3>2 DEF Tick
      <4>2. wk[w].age + 1 \in 0 .. MaxAge BY <3>1, <4>1, PublishingAssumption DEF WorkType
      <4>3. [wk[w] EXCEPT !.age = @ + 1] \in WorkType /\ AtHead([wk[w] EXCEPT !.age = @ + 1])
        BY <3>1, <4>2 DEF WorkType, AtHead
      <4>q. QED BY <2>1, <3>2, <4>3
    <3>3. CASE ~Counting(w) BY <2>1, <3>1, <3>3
    <3>q. QED BY <3>2, <3>3
  <2>q. QED BY <2>1, <2>2 DEF WInv
<1>q. QED BY <1>1, <1>2, <1>3, WorldStep DEF Schedule, Cancel, ExpireKey, vars

(* Every step keeps the workers well-typed.                                *)
LEMMA WNext ==
    ASSUME BInv, WInv, line \in Seq(Scheduled), [Next]_vars
    PROVE  WInv'
<1>0. plan \in Plans BY DEF BInv
<1>1. ASSUME NEW w \in Workers,
             \/ FindKey(w) \/ ResolveMedia(w) \/ Attach(w) \/ InsertOutbox(w) \/ DeleteRow(w)
             \/ RecordKey(w) \/ Answer(w) \/ Fail(w) \/ Die(w)
      PROVE  WInv'
  <2>1. (\E s \in Steps : Goto(w, s)) \/ Leave(w) \/ wk' = [wk EXCEPT ![w] = Idle]
    BY <1>1 DEF FindKey, AfterFind, ResolveMedia, Attach, InsertOutbox, DeleteRow, RecordKey,
                Answer, Fail, Die, Steps
  <2>q. QED BY <2>1, WGoto, WLeave
<1>q. QED BY <1>0, <1>1, WClaim, WInsert, WStart, WQuiet DEF Next, WorkerStep

-----------------------------------------------------------------------------
(* The line: the pending rows stand in it, and no others.                  *)
LInv == /\ line \in Seq(Scheduled)
        /\ \A s \in Scheduled : s \in Pending <=> Occurs(s, line)

(* Who stands in a line that grew at its end.                              *)
LEMMA AppendOccurs ==
    ASSUME NEW D, NEW q \in Seq(D), NEW e \in D
    PROVE  Append(q, e) \in Seq(D) /\ \A x : Occurs(x, Append(q, e)) <=> Occurs(x, q) \/ x = e
<1>1. /\ Append(q, e) \in Seq(D) /\ Len(q) \in Nat
      /\ DOMAIN Append(q, e) = 1 .. Len(q) + 1 /\ DOMAIN q = 1 .. Len(q)
      /\ Append(q, e)[Len(q) + 1] = e
      /\ \A i \in 1 .. Len(q) : Append(q, e)[i] = q[i]
  OBVIOUS
<1>2. ASSUME NEW x, Occurs(x, Append(q, e)) PROVE Occurs(x, q) \/ x = e
  <2>1. PICK i \in 1 .. Len(q) + 1 : Append(q, e)[i] = x BY <1>1, <1>2 DEF Occurs
  <2>2. i = Len(q) + 1 \/ i \in 1 .. Len(q) BY <1>1
  <2>q. QED BY <1>1, <2>1, <2>2 DEF Occurs
<1>3. ASSUME NEW x, Occurs(x, q) PROVE Occurs(x, Append(q, e))
  <2>1. PICK i \in 1 .. Len(q) : q[i] = x BY <1>1, <1>3 DEF Occurs
  <2>2. i \in DOMAIN Append(q, e) BY <1>1
  <2>q. QED BY <1>1, <2>1, <2>2 DEF Occurs
<1>4. Occurs(e, Append(q, e))
  <2>1. Len(q) + 1 \in DOMAIN Append(q, e) BY <1>1
  <2>q. QED BY <1>1, <2>1 DEF Occurs
<1>q. QED BY <1>1, <1>2, <1>3, <1>4

(* The line without a row (delete_scheduled_status_by_id).                 *)
LEMMA WithoutRow ==
    ASSUME line \in Seq(Scheduled), NEW s
    PROVE  /\ Without(s) \in Seq(Scheduled)
           /\ \A x \in Scheduled : Occurs(x, Without(s)) <=> Occurs(x, line) /\ x # s
  BY SelectedKeeps DEF Without

(* Every step keeps the line in line with the rows.                        *)
LEMMA LNext == ASSUME BInv, LInv, [Next]_vars PROVE LInv'
<1>0. line \in Seq(Scheduled) /\ row \in RowType BY DEF LInv, BInv
<1>1. CASE UNCHANGED <<row, line>> BY <1>1 DEF LInv, Pending
<1>2. ASSUME NEW s \in Scheduled, Schedule(s) PROVE LInv'
  <2>1. row' = [row EXCEPT ![s] = "pending"] /\ line' = Append(line, s) BY <1>2 DEF Schedule
  <2>2. \A x \in Scheduled : row'[x] = "pending" <=> row[x] = "pending" \/ x = s
    BY <1>0, <2>1 DEF RowType
  <2>q. QED BY <1>0, <2>1, <2>2, AppendOccurs DEF LInv, Pending
<1>3. ASSUME NEW s \in Scheduled, Reschedule(s) PROVE LInv'
  <2>1. UNCHANGED row /\ line' = Append(Without(s), s) /\ row[s] = "pending"
    BY <1>3 DEF Reschedule, Pending
  <2>2. /\ Without(s) \in Seq(Scheduled)
        /\ \A x \in Scheduled : Occurs(x, Without(s)) <=> Occurs(x, line) /\ x # s
    BY <1>0, WithoutRow
  <2>3. line' \in Seq(Scheduled) /\ \A x : Occurs(x, line') <=> Occurs(x, Without(s)) \/ x = s
    BY <2>1, <2>2, AppendOccurs
  <2>q. QED BY <2>1, <2>2, <2>3 DEF LInv, Pending
<1>4. ASSUME NEW s \in Scheduled, Cancel(s) PROVE LInv'
  <2>1. row' = [row EXCEPT ![s] = "cancelled"] /\ line' = Without(s) BY <1>4 DEF Cancel
  <2>2. \A x \in Scheduled : row'[x] = "pending" <=> row[x] = "pending" /\ x # s
    BY <1>0, <2>1 DEF RowType
  <2>q. QED BY <1>0, <2>1, <2>2, WithoutRow DEF LInv, Pending
<1>5. ASSUME NEW w \in Workers, DeleteRow(w) PROVE LInv'
  <2>1. CASE UNCHANGED schedule BY <1>1, <2>1 DEF schedule
  <2>2. CASE ~UNCHANGED schedule
    <3> DEFINE s == wk[w].post
    <3>1. /\ row' = IF row[s] = "pending" THEN [row EXCEPT ![s] = "done"] ELSE row
          /\ line' = Without(s)
      BY <1>5, <2>2 DEF DeleteRow
    <3> HIDE DEF s
    <3>2. \A x \in Scheduled : row'[x] = "pending" <=> row[x] = "pending" /\ x # s
      BY <1>0, <3>1 DEF RowType
    <3>q. QED BY <1>0, <3>1, <3>2, WithoutRow DEF LInv, Pending
  <2>q. QED BY <2>1, <2>2
<1>6. ASSUME NEW w \in Workers, Fail(w) PROVE LInv'
  <2> DEFINE S == {s \in Scheduled : row'[s] = "pending"}
  <2>1. UNCHANGED row /\ line' = Selected(line, S) BY <1>6 DEF Fail, RowsAfterFail
  <2>2. S = Pending BY <2>1 DEF Pending
  <2> HIDE DEF S
  <2>3. line' \in Seq(Scheduled) /\ \A x : Occurs(x, line') <=> x \in S /\ Occurs(x, line)
    BY <1>0, <2>1, SelectedKeeps
  <2>q. QED BY <2>1, <2>2, <2>3 DEF LInv, Pending
<1>7. CASE \/ \E w \in Workers : \/ Claim(w) \/ FindKey(w) \/ ResolveMedia(w) \/ Insert(w)
                                \/ Attach(w) \/ InsertOutbox(w) \/ RecordKey(w) \/ Answer(w)
                                \/ StartSweep(w) \/ Die(w) \/ \E d \in Direct : Request(w, d)
           \/ \E d \in Direct : ExpireKey(d)
           \/ World \/ Tick \/ UNCHANGED vars
  <2>1. ASSUME NEW w \in Workers,
               Claim(w) \/ FindKey(w) \/ ResolveMedia(w) \/ Insert(w) \/ Attach(w)
        PROVE  UNCHANGED <<row, line>>
    BY <2>1 DEF Claim, FindKey, ResolveMedia, Insert, Attach, schedule
  <2>2. ASSUME NEW w \in Workers,
               \/ InsertOutbox(w) \/ RecordKey(w) \/ Answer(w) \/ StartSweep(w) \/ Die(w)
               \/ \E d \in Direct : Request(w, d)
        PROVE  UNCHANGED <<row, line>>
    BY <2>2 DEF InsertOutbox, RecordKey, Answer, StartSweep, Die, Request, schedule
  <2>3. CASE (\E d \in Direct : ExpireKey(d)) \/ World \/ Tick \/ UNCHANGED vars
    BY <1>1, <2>3, WorldStep DEF ExpireKey, Tick, schedule, vars
  <2>q. QED BY <1>1, <1>7, <2>1, <2>2, <2>3
<1>q. QED BY <1>2, <1>3, <1>4, <1>5, <1>6, <1>7 DEF Next, WorkerStep

-----------------------------------------------------------------------------
(* The types of the rest.                                                  *)
TimesOK ==
    /\ wait \in [Scheduled -> 0 .. Offset]
    /\ claim \in [Scheduled -> -1 .. MaxAge + Ttl]
PostedOK ==
    /\ out \subseteq Copies /\ broken \subseteq Copies
    /\ att \in [Media -> Copies \cup {Unattached}]
    /\ key \in [Direct -> Nat]
OthersOK ==
    barred \subseteq Scheduled /\ doomed \subseteq Media /\ gone \subseteq Media
HistoryOK ==
    /\ {answered, overlapped, expired, refused} \subseteq SUBSET Direct
    /\ {slow, late, against} \subseteq SUBSET Scheduled
    /\ faults \in 0 .. MaxFaults

(* What a worker has in hand is a status.                                  *)
LEMMA InHand ==
    ASSUME BInv, WInv, NEW w \in Workers, wk[w].copy # 0
    PROVE  Copy(w) \in Copies
<1>1. wk[w].copy \in Nat BY DEF WInv, WorkType
<1>2. AtWork(w) BY DEF BInv, Fit, AtWork
<1>3. wk[w].post \in Posts BY <1>2, WorksOnPost
<1>q. QED BY <1>1, <1>3 DEF Copy, Copies

(* What is cut short are statuses.                                         *)
LEMMA CutTyped ==
    ASSUME BInv, WInv, broken \subseteq Copies, NEW w \in Workers
    PROVE  Cut(w) \subseteq Copies
<1>1. wk[w].copy \in Nat BY DEF WInv, WorkType
<1>q. QED BY <1>1, InHand DEF Cut

(* Times and claims stay within their bounds.                              *)
LEMMA TimesNext == ASSUME WInv, TimesOK, [Next]_vars PROVE TimesOK'
<1> USE PublishingAssumption
<1>0. Offset \in 0 .. Offset /\ 0 \in 0 .. Offset /\ Unclaimed \in -1 .. MaxAge + Ttl
  BY DEF Unclaimed
<1>1. CASE UNCHANGED <<wait, claim>> BY <1>1 DEF TimesOK
<1>2. ASSUME NEW s \in Scheduled, Schedule(s) \/ Reschedule(s) \/ Cancel(s) PROVE TimesOK'
  <2>1. wait' \in {[wait EXCEPT ![s] = Offset], [wait EXCEPT ![s] = 0]}
        /\ claim' \in {claim, [claim EXCEPT ![s] = Unclaimed]}
    BY <1>2 DEF Schedule, Reschedule, Cancel
  <2>q. QED BY <1>0, <2>1 DEF TimesOK
<1>3. ASSUME NEW w \in Workers, Claim(w) PROVE TimesOK'
  <2>1. wk[w].age \in 0 .. MaxAge BY DEF WInv, WorkType
  <2>2. wk[w].age \in -1 .. MaxAge + Ttl BY <2>1
  <2>3. UNCHANGED claim \/ claim' = [claim EXCEPT ![wk[w].post] = wk[w].age]
    BY <1>3 DEF Claim
  <2>q. QED BY <1>3, <2>2, <2>3 DEF Claim, TimesOK
<1>4. ASSUME NEW w \in Workers, DeleteRow(w) PROVE TimesOK'
  <2>1. \/ UNCHANGED <<wait, claim>>
        \/ /\ wait' = [wait EXCEPT ![wk[w].post] = 0]
           /\ claim' = [claim EXCEPT ![wk[w].post] = Unclaimed]
    BY <1>4 DEF DeleteRow, schedule
  <2>q. QED BY <1>0, <2>1 DEF TimesOK
<1>5. CASE Tick
  <2>1. /\ wait' = [s \in Scheduled |-> IF wait[s] > 0 THEN wait[s] - 1 ELSE 0]
        /\ claim' = [s \in Scheduled |->
             IF claim[s] \in {Unclaimed, MaxAge + Ttl} THEN claim[s] ELSE claim[s] + 1]
    BY <1>5 DEF Tick
  <2>2. ASSUME NEW s \in Scheduled
        PROVE  wait'[s] \in 0 .. Offset /\ claim'[s] \in -1 .. MaxAge + Ttl
    <3>1. wait[s] \in 0 .. Offset /\ claim[s] \in -1 .. MaxAge + Ttl BY DEF TimesOK
    <3>q. QED BY <2>1, <3>1
  <2>q. QED BY <2>1, <2>2 DEF TimesOK
<1>6. CASE \/ \E w \in Workers : \/ FindKey(w) \/ ResolveMedia(w) \/ Insert(w) \/ Attach(w)
                                \/ InsertOutbox(w) \/ RecordKey(w) \/ Answer(w) \/ StartSweep(w)
                                \/ Fail(w) \/ Die(w) \/ \E d \in Direct : Request(w, d)
           \/ \E d \in Direct : ExpireKey(d)
           \/ World \/ UNCHANGED vars
  <2>1. ASSUME NEW w \in Workers,
               FindKey(w) \/ ResolveMedia(w) \/ Insert(w) \/ Attach(w) \/ InsertOutbox(w)
        PROVE  UNCHANGED <<wait, claim>>
    BY <2>1 DEF FindKey, ResolveMedia, Insert, Attach, InsertOutbox, schedule
  <2>2. ASSUME NEW w \in Workers,
               \/ RecordKey(w) \/ Answer(w) \/ StartSweep(w) \/ Fail(w) \/ Die(w)
               \/ \E d \in Direct : Request(w, d)
        PROVE  UNCHANGED <<wait, claim>>
    BY <2>2 DEF RecordKey, Answer, StartSweep, Fail, Die, Request, schedule
  <2>3. CASE (\E d \in Direct : ExpireKey(d)) \/ World \/ UNCHANGED vars
    BY <1>1, <2>3, WorldStep DEF ExpireKey, schedule, vars
  <2>q. QED BY <1>1, <1>6, <2>1, <2>2, <2>3
<1>q. QED BY <1>2, <1>3, <1>4, <1>5, <1>6 DEF Next, WorkerStep

(* So do the tables a status is stored in.                                 *)
LEMMA PostedNext == ASSUME BInv, WInv, PostedOK, [Next]_vars PROVE PostedOK'
<1>1. CASE UNCHANGED <<out, broken, att, key>> BY <1>1 DEF PostedOK
<1>2. ASSUME NEW w \in Workers, Insert(w) PROVE PostedOK'
  <2> DEFINE p == wk[w].post
             i == stored[p] + 1
  <2>1. p \in Posts BY <1>2, WorksOnPost DEF Insert, At, AtWork
  <2>2. <<p, i>> \in Copies BY <2>1 DEF BInv, Copies
  <2>3. out' \in {out, out \cup {<<p, i>>}} /\ UNCHANGED <<broken, att, key>>
    BY <1>2 DEF Insert, client
  <2> HIDE DEF p, i
  <2>q. QED BY <2>2, <2>3 DEF PostedOK
<1>3. ASSUME NEW w \in Workers, Attach(w) PROVE PostedOK'
  <2>1. Copy(w) \in Copies BY <1>3, InHand DEF Attach, At, BInv, Fit
  <2>2. \/ att' = [m \in Media |-> IF m \in Attachable(wk[w].post) THEN Copy(w) ELSE att[m]]
        \/ UNCHANGED att
    BY <1>3 DEF Attach
  <2>3. UNCHANGED <<out, broken, key>> BY <1>3 DEF Attach, client, history
  <2>q. QED BY <2>1, <2>2, <2>3 DEF PostedOK
<1>4. ASSUME NEW w \in Workers, InsertOutbox(w) PROVE PostedOK'
  <2>1. Copy(w) \in Copies BY <1>4, InHand DEF InsertOutbox, At, BInv, Fit
  <2>q. QED BY <1>4, <2>1 DEF InsertOutbox, PostedOK, client, history
<1>5. ASSUME NEW w \in Workers, DeleteRow(w) \/ Fail(w) \/ Die(w) PROVE PostedOK'
  <2>1. broken' \in {broken, Cut(w)} /\ UNCHANGED <<out, att, key>>
    BY <1>5 DEF DeleteRow, Fail, Die, posted, client
  <2>q. QED BY <2>1, CutTyped DEF PostedOK
<1>6. ASSUME NEW w \in Workers, RecordKey(w) PROVE PostedOK'
  <2>1. broken' \in {broken, Cut(w)} /\ UNCHANGED <<out, att>>
    BY <1>6 DEF RecordKey, posted
  <2>2. key' = [key EXCEPT ![wk[w].post] = wk[w].copy] \/ UNCHANGED key
    BY <1>6 DEF RecordKey
  <2>3. wk[w].copy \in Nat BY DEF WInv, WorkType
  <2>q. QED BY <2>1, <2>2, <2>3, CutTyped DEF PostedOK
<1>7. ASSUME NEW d \in Direct, ExpireKey(d) PROVE PostedOK'
  BY <1>7 DEF ExpireKey, PostedOK, posted
<1>8. CASE \/ \E s \in Scheduled : Schedule(s) \/ Reschedule(s) \/ Cancel(s)
           \/ \E w \in Workers : \/ Claim(w) \/ FindKey(w) \/ ResolveMedia(w) \/ Answer(w)
                                \/ StartSweep(w) \/ \E d \in Direct : Request(w, d)
           \/ World \/ Tick \/ UNCHANGED vars
  <2>1. ASSUME NEW s \in Scheduled, Schedule(s) \/ Reschedule(s) \/ Cancel(s)
        PROVE  UNCHANGED <<out, broken, att, key>>
    BY <2>1 DEF Schedule, Reschedule, Cancel, posted, client, history
  <2>2. ASSUME NEW w \in Workers, Claim(w) \/ FindKey(w) \/ ResolveMedia(w) \/ Answer(w)
        PROVE  UNCHANGED <<out, broken, att, key>>
    BY <2>2 DEF Claim, FindKey, ResolveMedia, Answer, posted, client, history
  <2>3. ASSUME NEW w \in Workers, StartSweep(w) \/ \E d \in Direct : Request(w, d)
        PROVE  UNCHANGED <<out, broken, att, key>>
    BY <2>3 DEF StartSweep, Request, posted, client, history
  <2>4. CASE World \/ Tick \/ UNCHANGED vars
    BY <1>1, <2>4, WorldStep DEF Tick, posted, client, history, vars
  <2>q. QED BY <1>1, <1>8, <2>1, <2>2, <2>3, <2>4
<1>q. QED BY <1>2, <1>3, <1>4, <1>5, <1>6, <1>7, <1>8 DEF Next, WorkerStep

(* What others take away is of what there is.                              *)
LEMMA OthersNext == ASSUME BInv, OthersOK, [Next]_vars PROVE OthersOK'
<1>1. CASE UNCHANGED others BY <1>1 DEF others, OthersOK
<1>2. CASE World
  <2>1. plan.frail \subseteq Scheduled /\ plan.removable \subseteq Media
    BY PublishingAssumption DEF BInv
  <2>2. ASSUME NEW s \in Scheduled, TargetTurns(s) PROVE OthersOK'
    BY <2>1, <2>2 DEF TargetTurns, OthersOK
  <2>3. ASSUME NEW m \in Media, FindOrphan(m) \/ RemoveMedium(m) PROVE OthersOK'
    BY <2>1, <2>3 DEF FindOrphan, RemoveMedium, OthersOK
  <2>q. QED BY <1>2, <2>2, <2>3 DEF World
<1>3. ASSUME NEW s \in Scheduled, Schedule(s) \/ Reschedule(s) \/ Cancel(s)
      PROVE  UNCHANGED others
  BY <1>3 DEF Schedule, Reschedule, Cancel, posted
<1>4. ASSUME NEW w \in Workers,
             \/ Claim(w) \/ FindKey(w) \/ ResolveMedia(w) \/ Insert(w) \/ Attach(w)
             \/ InsertOutbox(w) \/ StartSweep(w) \/ \E d \in Direct : Request(w, d)
      PROVE  UNCHANGED others
  BY <1>4 DEF Claim, FindKey, ResolveMedia, Insert, Attach, InsertOutbox, StartSweep, Request, posted
<1>5. ASSUME NEW w \in Workers,
             DeleteRow(w) \/ RecordKey(w) \/ Answer(w) \/ Fail(w) \/ Die(w)
      PROVE  UNCHANGED others
  BY <1>5 DEF DeleteRow, RecordKey, Answer, Fail, Die, posted
<1>6. CASE (\E d \in Direct : ExpireKey(d)) \/ Tick \/ UNCHANGED vars
  BY <1>1, <1>6 DEF ExpireKey, Tick, posted, vars
<1>q. QED BY <1>1, <1>2, <1>3, <1>4, <1>5, <1>6 DEF Next, WorkerStep

(* A worker at a post with a key is a request, at its key or at work.      *)
LEMMA KeyedWork ==
    ASSUME BInv, NEW w \in Workers, At(w, "find") \/ At(w, "answer")
    PROVE  wk[w].post \in Direct
  BY DEF At, BInv, Fit

(* What is remembered, and the faults there were, when nothing is added.   *)
LEMMA HistorySame ==
    ASSUME HistoryOK,
           UNCHANGED <<answered, overlapped, expired, refused, slow, late, against>>,
           faults' = faults \/ Fault
    PROVE  HistoryOK'
<1>1. faults' \in 0 .. MaxFaults BY PublishingAssumption DEF Fault, HistoryOK
<1>q. QED BY <1>1 DEF HistoryOK

(* And what is remembered.                                                 *)
LEMMA HistoryNext == ASSUME BInv, WInv, HistoryOK, [Next]_vars PROVE HistoryOK'
<1>1. ASSUME NEW w \in Workers, Answer(w) PROVE HistoryOK'
  <2>1. wk[w].post \in Direct BY <1>1, KeyedWork DEF Answer
  <2>2. /\ answered' \in {answered, answered \cup {wk[w].post}}
        /\ UNCHANGED history /\ (faults' = faults \/ Fault)
    BY <1>1 DEF Answer
  <2>3. faults' \in 0 .. MaxFaults BY <2>2, PublishingAssumption DEF Fault, HistoryOK
  <2>q. QED BY <2>1, <2>2, <2>3 DEF HistoryOK, history
<1>2. ASSUME NEW w \in Workers, ResolveMedia(w) PROVE HistoryOK'
  <2> DEFINE p == wk[w].post
  <2>1. /\ answered' = answered \/ (p \in Direct /\ answered' = answered \cup {p})
        /\ refused' = refused \/ (p \in Direct /\ refused' = refused \cup {p})
        /\ UNCHANGED <<faults, slow, overlapped, expired, late, against>>
    BY <1>2 DEF ResolveMedia
  <2> HIDE DEF p
  <2>q. QED BY <2>1 DEF HistoryOK
<1>3. ASSUME NEW w \in Workers, FindKey(w) PROVE HistoryOK'
  <2>1. wk[w].post \in Direct BY <1>3, KeyedWork DEF FindKey
  <2>2. /\ overlapped' \in {overlapped, overlapped \cup {wk[w].post}}
        /\ UNCHANGED <<answered, faults, slow, expired, refused, late, against>>
    BY <1>3 DEF FindKey, client
  <2>q. QED BY <2>1, <2>2 DEF HistoryOK
<1>4. ASSUME NEW d \in Direct, ExpireKey(d) PROVE HistoryOK'
  BY <1>4 DEF ExpireKey, HistoryOK
<1>5. ASSUME NEW w \in Workers, Claim(w) PROVE HistoryOK'
  <2> DEFINE s == wk[w].post
  <2>1. /\ slow' = slow \/ (Claimable(w, s) /\ slow' = slow \cup {s})
        /\ UNCHANGED <<answered, faults, overlapped, expired, refused, late, against>>
    BY <1>5 DEF Claim, client
  <2> HIDE DEF s
  <2>q. QED BY <2>1 DEF HistoryOK, Claimable, Pending
<1>6. ASSUME NEW s \in Scheduled, Reschedule(s) \/ Cancel(s) PROVE HistoryOK'
  <2>1. /\ late' = Changed(s)
        /\ UNCHANGED <<answered, faults, slow, overlapped, expired, refused, against>>
    BY <1>6 DEF Reschedule, Cancel, client
  <2>q. QED BY <2>1 DEF HistoryOK, Changed
<1>7. ASSUME NEW w \in Workers, Insert(w) PROVE HistoryOK'
  <2> DEFINE s == wk[w].post
  <2>1. /\ against' = against \/ (s \in Scheduled /\ against' = against \cup {s})
        /\ UNCHANGED <<answered, faults, slow, overlapped, expired, refused, late>>
    BY <1>7 DEF Insert, client
  <2> HIDE DEF s
  <2>q. QED BY <2>1 DEF HistoryOK
<1>8. ASSUME NEW w \in Workers, DeleteRow(w) \/ RecordKey(w) PROVE HistoryOK'
  <2>1. UNCHANGED <<answered, overlapped, expired, refused, slow, late, against>>
    BY <1>8 DEF DeleteRow, RecordKey, client
  <2>2. faults' = faults \/ Fault BY <1>8 DEF DeleteRow, RecordKey
  <2>q. QED BY <2>1, <2>2, HistorySame
<1>9. ASSUME NEW w \in Workers, Fail(w) \/ Die(w) PROVE HistoryOK'
  <2>1. UNCHANGED <<answered, overlapped, expired, refused, slow, late, against>> /\ Fault
    BY <1>9 DEF Fail, Die, client
  <2>q. QED BY <2>1, HistorySame
<1>10. ASSUME UNCHANGED <<client, faults, history>> PROVE HistoryOK'
  BY <1>10, HistorySame DEF client, history
<1>11. ASSUME NEW w \in Workers,
              Attach(w) \/ InsertOutbox(w) \/ StartSweep(w) \/ \E d \in Direct : Request(w, d)
       PROVE  HistoryOK'
  BY <1>10, <1>11 DEF Attach, InsertOutbox, StartSweep, Request
<1>12. CASE (\E s \in Scheduled : Schedule(s)) \/ World \/ Tick \/ UNCHANGED vars
  BY <1>10, <1>12, WorldStep DEF Schedule, Tick, history, vars
<1>q. QED BY <1>1, <1>2, <1>3, <1>4, <1>5, <1>6, <1>7, <1>8, <1>9, <1>11, <1>12
          DEF Next, WorkerStep

(* All of it.                                                              *)
TInv == WInv /\ LInv /\ TimesOK /\ PostedOK /\ OthersOK /\ HistoryOK

(* The initial state.                                                      *)
LEMMA TInit == Init => TInv
<1> SUFFICES ASSUME Init PROVE TInv OBVIOUS
<1> USE DEF Init
<1>1. WInv BY IdleTyped DEF WInv
<1>2. LInv BY DEF LInv, Pending, Occurs
<1>3. TimesOK BY PublishingAssumption DEF TimesOK, Unclaimed
<1>4. PostedOK BY DEF PostedOK
<1>5. HistoryOK BY PublishingAssumption DEF HistoryOK
<1>6. OthersOK BY DEF OthersOK
<1>q. QED BY <1>1, <1>2, <1>3, <1>4, <1>5, <1>6 DEF TInv

(* Every step keeps it so.                                                 *)
LEMMA TNext == BInv /\ TInv /\ [Next]_vars => TInv'
  BY WNext, LNext, TimesNext, PostedNext, OthersNext, HistoryNext DEF TInv, LInv

(* Everything publishing keeps has its type, whatever the posts, the       *)
(* media, the workers and the times; and the line that list_due_scheduled_ *)
(* statuses reads holds the pending rows and no others.                    *)
THEOREM PublishingTypes == Spec => []TypeOK
<1>1. BInv /\ TInv /\ [Next]_vars => TInv' BY TNext
<1>2. BInv /\ TInv => TypeOK
  BY DEF BInv, TInv, WInv, LInv, TimesOK, PostedOK, OthersOK, HistoryOK, TypeOK, WorkType,
         RowType, Occurs
<1>q. QED BY <1>1, <1>2, TInit, WorkersFit, PTL DEF Spec

-----------------------------------------------------------------------------
(* The author's last word.                                                 *)

(* What a sweep has yet to claim was due when it was listed, and the sweep *)
(* knows of what its author put off since.                                 *)
Fresh(w) ==
    \A i \in DOMAIN wk[w].list :
        LET s == wk[w].list[i] IN
        /\ row[s] # "none"
        /\ Counting(w) => s \in wk[w].moved \/ row[s] # "pending" \/ wait[s] = 0

(* A sweep at work publishes what its author wants by now, unless the      *)
(* author changed it after the claim.                                      *)
Wanted(w) ==
    LET s == wk[w].post IN
    AtWork(w) /\ s \in Scheduled => s \in late \/ (row[s] # "cancelled" /\ wait[s] = 0)

WordInv ==
    /\ \A w \in Workers : Fresh(w) /\ Wanted(w)
    /\ against \subseteq late

(* A row that is scheduled is not pending again nor put off.               *)
Settles == \A s \in Scheduled :
              row[s] # "none" => /\ row'[s] # "none"
                                 /\ row[s] # "pending" => row'[s] # "pending"
                                 /\ wait[s] = 0 => wait'[s] = 0

(* The author changes nothing.                                             *)
Unheard == /\ Settles /\ late \subseteq late'
           /\ \A s \in Scheduled : row'[s] = "cancelled" => row[s] = "cancelled"

(* The list of a worker: as it is, without its first row, or empty.        *)
Shortens(v) ==
    /\ \/ wk'[v].list \in {wk[v].list, <<>>}
       \/ wk[v].list # <<>> /\ wk'[v].list = Tail(wk[v].list)
    /\ Counting(v)' => Counting(v) /\ wk'[v].moved = wk[v].moved

(* The work of a worker: at the same post, or not at a scheduled one.      *)
Stays(v) == AtWork(v)' /\ wk'[v].post \in Scheduled =>
              AtWork(v) /\ wk'[v].post = wk[v].post

(* What a worker has yet to claim stays as it should.                      *)
LEMMA FreshKept ==
    ASSUME WInv, NEW v \in Workers, Fresh(v), Settles, Shortens(v)
    PROVE  Fresh(v)'
<1> DEFINE l == wk[v].list
<1>0. l \in Seq(Scheduled) BY DEF WInv, WorkType
<1>1. ASSUME NEW i \in DOMAIN wk'[v].list PROVE \E j \in DOMAIN l : wk'[v].list[i] = l[j]
  <2>1. CASE wk'[v].list = l BY <1>1, <2>1
  <2>2. CASE wk'[v].list = <<>>
    <3>1. DOMAIN wk'[v].list = {} BY <2>2
    <3>q. QED BY <1>1, <3>1
  <2>3. CASE l # <<>> /\ wk'[v].list = Tail(l)
    <3>1. i \in 1 .. Len(l) - 1 /\ Tail(l)[i] = l[i + 1]
      <4> HIDE DEF l
      <4>q. QED BY <1>0, <1>1, <2>3
    <3>2. i + 1 \in DOMAIN l
      <4> HIDE DEF l
      <4>q. QED BY <1>0, <3>1
    <3>q. QED BY <2>3, <3>1, <3>2
  <2>q. QED BY <2>1, <2>2, <2>3 DEF Shortens
<1>2. ASSUME NEW i \in DOMAIN wk'[v].list
      PROVE  LET s == wk'[v].list[i] IN
             /\ row'[s] # "none"
             /\ Counting(v)' => s \in wk'[v].moved \/ row'[s] # "pending" \/ wait'[s] = 0
  <2>1. PICK j \in DOMAIN l : wk'[v].list[i] = l[j] BY <1>1, <1>2
  <2>2. l[j] \in Scheduled BY <1>0, <2>1
  <2>3. /\ row[l[j]] # "none"
        /\ Counting(v) => l[j] \in wk[v].moved \/ row[l[j]] # "pending" \/ wait[l[j]] = 0
    BY <2>1 DEF Fresh
  <2> DEFINE s == l[j]
  <2>4. row'[s] # "none" BY <2>2, <2>3 DEF Settles
  <2>5. (row[s] # "pending" => row'[s] # "pending") /\ (wait[s] = 0 => wait'[s] = 0)
    BY <2>2, <2>3 DEF Settles
  <2>6. Counting(v)' => Counting(v) /\ wk'[v].moved = wk[v].moved BY DEF Shortens
  <2> HIDE DEF s, l
  <2>q. QED BY <2>1, <2>3, <2>4, <2>5, <2>6 DEF s
<1>q. QED BY <1>2 DEF Fresh

(* What a worker is at stays wanted.                                       *)
LEMMA WantedKept ==
    ASSUME NEW v \in Workers, Wanted(v), Unheard, Stays(v),
           AtWork(v) /\ wk[v].post \in Scheduled => row[wk[v].post] # "none"
    PROVE  Wanted(v)'
<1> DEFINE s == wk'[v].post
<1> SUFFICES ASSUME AtWork(v)', s \in Scheduled
             PROVE  s \in late' \/ (row'[s] # "cancelled" /\ wait'[s] = 0)
  BY DEF Wanted
<1>1. AtWork(v) /\ s = wk[v].post BY DEF Stays
<1>2. row[s] # "none" BY <1>1
<1>3. s \in late \/ (row[s] # "cancelled" /\ wait[s] = 0) BY <1>1 DEF Wanted
<1> HIDE DEF s
<1>q. QED BY <1>2, <1>3 DEF Unheard, Settles

(* A sweep is at a row that was scheduled.                                 *)
LEMMA WorkScheduled ==
    ASSUME BInv, NEW v \in Workers, AtWork(v), wk[v].post \in Scheduled
    PROVE  row[wk[v].post] # "none"
  BY PublishingAssumption DEF BInv, Fit

(* A worker that does not move has what it had.                            *)
LEMMA StaysPut ==
    ASSUME NEW v \in Workers, wk'[v] = wk[v]
    PROVE  Shortens(v) /\ Stays(v)
  BY DEF Shortens, Stays, Counting, AtWork, At

(* A worker that moves alone, to a state that keeps or shortens its list.  *)
LEMMA AloneShortens ==
    ASSUME WInv, NEW w \in Workers, NEW x, wk' = [wk EXCEPT ![w] = x],
           \/ x.list \in {wk[w].list, <<>>}
           \/ wk[w].list # <<>> /\ x.list = Tail(wk[w].list),
           x.step = "claim" \/ Len(x.list) > 1 => Counting(w) /\ x.moved = wk[w].moved
    PROVE  \A v \in Workers : Shortens(v)
<1>1. wk'[w] = x BY DEF WInv
<1>2. Shortens(w) BY <1>1 DEF Shortens, Counting, At
<1>3. ASSUME NEW v \in Workers \ {w} PROVE wk'[v] = wk[v] BY DEF WInv
<1>q. QED BY <1>2, <1>3, StaysPut

(* A worker that goes on in its row.                                       *)
LEMMA GotoShortens ==
    ASSUME WInv, NEW w \in Workers, NEW t, t # "claim", Goto(w, t)
    PROVE  \A v \in Workers : Shortens(v)
<1> DEFINE x == [wk[w] EXCEPT !.step = t]
<1>1. wk[w] \in WorkType /\ wk \in [Workers -> WorkType] BY DEF WInv
<1>2. wk' = [wk EXCEPT ![w] = x] BY <1>1 DEF Goto
<1>3. x.list = wk[w].list /\ x.moved = wk[w].moved /\ x.step = t BY <1>1 DEF WorkType
<1>4. Len(x.list) > 1 => Counting(w) BY <1>3 DEF Counting
<1> HIDE DEF x
<1>q. QED BY <1>2, <1>3, <1>4, AloneShortens

(* A worker that leaves its row or ends.                                   *)
LEMMA LeaveShortens ==
    ASSUME WInv, NEW w \in Workers, Leave(w) \/ wk' = [wk EXCEPT ![w] = Idle]
    PROVE  \A v \in Workers : Shortens(v) /\ (v = w => ~AtWork(v)')
<1>0. wk[w] \in WorkType /\ AtHead(wk[w]) /\ wk \in [Workers -> WorkType] BY DEF WInv
<1>i. Idle.list = <<>> /\ Idle.step = "idle" BY DEF Idle
<1>1. CASE wk' = [wk EXCEPT ![w] = Idle]
  <2>1. ~(Idle.step = "claim" \/ Len(Idle.list) > 1) BY <1>i
  <2>2. \A v \in Workers : Shortens(v) BY <1>1, <1>i, <2>1, AloneShortens
  <2>3. ~AtWork(w)' BY <1>0, <1>1, <1>i DEF AtWork
  <2>q. QED BY <2>2, <2>3
<1>2. CASE wk' # [wk EXCEPT ![w] = Idle]
  <2> DEFINE l == wk[w].list
             x == Left(w)
  <2>1. wk' = [wk EXCEPT ![w] = x] /\ x # Idle BY <1>2 DEF Leave
  <2>2. /\ l \in Seq(Scheduled) /\ l # <<>> /\ x.list = Tail(l) /\ Tail(l) # <<>>
        /\ x.moved = wk[w].moved /\ x.step = "claim"
    BY <1>0, <2>1, LeftTyped
  <2>3. Len(l) > 1
    <3> HIDE DEF l
    <3>q. QED BY <2>2
  <2>4. Counting(w) BY <2>3 DEF Counting
  <2> HIDE DEF x
  <2>5. \A v \in Workers : Shortens(v) BY <2>1, <2>2, <2>4, AloneShortens
  <2>6. ~AtWork(w)' BY <1>0, <2>1, <2>2 DEF AtWork
  <2>q. QED BY <2>5, <2>6
<1>q. QED BY <1>1, <1>2

(* An insert goes on in its row as well.                                   *)
LEMMA InsertShortens ==
    ASSUME WInv, NEW w \in Workers, Insert(w)
    PROVE  \A v \in Workers : Shortens(v)
<1> DEFINE i == stored[wk[w].post] + 1
           t == IF uses[wk[w].post] # {} THEN "attach" ELSE "done"
           x == [wk[w] EXCEPT !.copy = i, !.step = t]
<1>1. wk[w] \in WorkType /\ wk \in [Workers -> WorkType] BY DEF WInv
<1>2. wk' = [wk EXCEPT ![w].copy = i, ![w].step = t] BY DEF Insert
<1>3. t # "claim" OBVIOUS
<1> HIDE DEF i, t
<1>4. wk' = [wk EXCEPT ![w] = x] BY <1>1, <1>2
<1>5. x.list = wk[w].list /\ x.moved = wk[w].moved /\ x.step = t BY <1>1 DEF WorkType
<1>6. Len(x.list) > 1 => Counting(w) BY <1>5 DEF Counting
<1> HIDE DEF x
<1>q. QED BY <1>3, <1>4, <1>5, <1>6, AloneShortens

(* A step in which the author changes nothing and a worker keeps or        *)
(* shortens its list and stays at its post, or is not at a scheduled one.  *)
LEMMA WordKept ==
    ASSUME BInv, WInv, WordInv, Unheard, \A v \in Workers : Shortens(v) /\ Stays(v),
           against' = against
    PROVE  WordInv'
<1>1. ASSUME NEW v \in Workers PROVE Fresh(v)' /\ Wanted(v)'
  <2>1. Fresh(v) /\ Wanted(v) BY DEF WordInv
  <2>2. Fresh(v)' BY <2>1, FreshKept DEF Unheard
  <2>3. Wanted(v)' BY <2>1, WantedKept, WorkScheduled
  <2>q. QED BY <2>2, <2>3
<1>2. against' \subseteq late' BY DEF WordInv, Unheard
<1>q. QED BY <1>1, <1>2 DEF WordInv

(* Workers publish, fail and end without changing what the author wants.   *)
LEMMA WorkersUnheard ==
    ASSUME BInv, TimesOK, NEW w \in Workers,
           \/ WorkerStep(w) \/ StartSweep(w) \/ Fail(w) \/ Die(w)
           \/ \E d \in Direct : Request(w, d)
    PROVE  Unheard
<1>1. CASE UNCHANGED <<row, wait, late>> BY <1>1 DEF Unheard, Settles
<1>2. CASE Claim(w) \/ FindKey(w) \/ ResolveMedia(w) \/ Insert(w) \/ Attach(w)
  BY <1>1, <1>2 DEF Claim, FindKey, ResolveMedia, Insert, Attach, schedule, history
<1>3. CASE InsertOutbox(w) \/ RecordKey(w) \/ Answer(w)
  BY <1>1, <1>3 DEF InsertOutbox, RecordKey, Answer, schedule, history
<1>4. CASE StartSweep(w) \/ Fail(w) \/ Die(w) \/ \E d \in Direct : Request(w, d)
  BY <1>1, <1>4 DEF StartSweep, Fail, RowsAfterFail, Die, Request, schedule, history
<1>5. CASE DeleteRow(w)
  <2> DEFINE s == wk[w].post
  <2>1. CASE UNCHANGED schedule BY <1>1, <1>5, <2>1 DEF DeleteRow, schedule
  <2>2. CASE ~UNCHANGED schedule
    <3>1. /\ row' = IF row[s] = "pending" THEN [row EXCEPT ![s] = "done"] ELSE row
          /\ wait' = [wait EXCEPT ![s] = 0] /\ UNCHANGED late
      BY <1>5, <2>2 DEF DeleteRow
    <3> HIDE DEF s
    <3>2. row \in RowType /\ wait \in [Scheduled -> 0 .. Offset] BY DEF BInv, TimesOK
    <3>q. QED BY <3>1, <3>2 DEF Unheard, Settles, RowType
  <2>q. QED BY <2>1, <2>2
<1>q. QED BY <1>2, <1>3, <1>4, <1>5 DEF WorkerStep

(* A worker at work that goes on stays at its post.                        *)
LEMMA GotoStays ==
    ASSUME BInv, NEW w \in Workers, AtWork(w) \/ At(w, "find"),
           wk'[w].post = wk[w].post, OnlyMoves(w)
    PROVE  \A v \in Workers : Stays(v)
<1>1. At(w, "find") => wk[w].post \notin Scheduled
  BY PublishingAssumption DEF At, BInv, Fit
<1>2. Stays(w) BY <1>1 DEF Stays
<1>3. ASSUME NEW v \in Workers \ {w} PROVE Stays(v)
  BY DEF OnlyMoves, Same, Stays, AtWork
<1>q. QED BY <1>2, <1>3

(* Workers that go on, leave a row or end.                                 *)
LEMMA WordWorker ==
    ASSUME BInv, WInv, TimesOK, WordInv, NEW w \in Workers,
           \/ FindKey(w) \/ ResolveMedia(w) \/ Attach(w) \/ InsertOutbox(w) \/ DeleteRow(w)
           \/ RecordKey(w) \/ Answer(w) \/ Fail(w) \/ Die(w)
    PROVE  WordInv'
<1>s. Shape BY DEF BInv
<1>u. Unheard BY WorkersUnheard DEF WorkerStep
<1>a. UNCHANGED against
  <2>1. CASE FindKey(w) \/ ResolveMedia(w) \/ Attach(w) \/ InsertOutbox(w) \/ DeleteRow(w)
    BY <2>1 DEF FindKey, ResolveMedia, Attach, InsertOutbox, DeleteRow, history
  <2>2. CASE RecordKey(w) \/ Answer(w) \/ Fail(w) \/ Die(w)
    BY <2>2 DEF RecordKey, Answer, Fail, Die, history
  <2>q. QED BY <2>1, <2>2
<1>1. CASE \E t : t # "claim" /\ Goto(w, t) /\ (AtWork(w) \/ At(w, "find"))
  <2>1. \A v \in Workers : Shortens(v) BY <1>1, GotoShortens
  <2>2. \A v \in Workers : Stays(v) BY <1>s, <1>1, GotoStep, GotoStays
  <2>q. QED BY <1>a, <1>u, <2>1, <2>2, WordKept
<1>2. CASE Leave(w) \/ wk' = [wk EXCEPT ![w] = Idle]
  <2>1. \A v \in Workers : Shortens(v) BY <1>2, LeaveShortens
  <2>2. Stays(w) BY <1>2, LeaveShortens DEF Stays
  <2>3. OnlyMoves(w) BY <1>s, <1>2, LeaveStep, EndStep
  <2>4. \A v \in Workers : Stays(v)
    BY <2>2, <2>3 DEF OnlyMoves, Same, Stays, AtWork
  <2>q. QED BY <1>a, <1>u, <2>1, <2>4, WordKept
<1>3. CASE FindKey(w) BY <1>1, <1>3 DEF FindKey, AfterFind, At
<1>4. CASE ResolveMedia(w) \/ Attach(w) \/ InsertOutbox(w)
  BY <1>1, <1>2, <1>4 DEF ResolveMedia, Attach, InsertOutbox, At, AtWork
<1>5. CASE DeleteRow(w) \/ RecordKey(w) \/ Answer(w) \/ Fail(w) \/ Die(w)
  BY <1>1, <1>2, <1>5 DEF DeleteRow, RecordKey, Answer, Fail, Die, At, AtWork
<1>q. QED BY <1>3, <1>4, <1>5

(* A claim is of a row whose author wants it published: it was due when it *)
(* was listed and has not been put off since (the WHERE of                 *)
(* claim_scheduled_status compares scheduled_at with what was listed).     *)
LEMMA WordClaim ==
    ASSUME BInv, WInv, TimesOK, WordInv, NEW w \in Workers, Claim(w)
    PROVE  WordInv'
<1>s. Shape BY DEF BInv
<1>0. wk[w] \in WorkType /\ AtHead(wk[w]) /\ wk \in [Workers -> WorkType] BY DEF WInv
<1>u. Unheard /\ UNCHANGED <<row, wait, late, against>>
  BY WorkersUnheard DEF WorkerStep, Claim
<1>1. CASE Claimable(w, wk[w].post)
  <2> DEFINE s == wk[w].post
             l == wk[w].list
  <2>1. PICK x : /\ wk' = [wk EXCEPT ![w] = x]
                 /\ \/ x = [wk[w] EXCEPT !.step = "media"] /\ Len(l) > 1
                    \/ x = [wk[w] EXCEPT !.step = "media", !.age = 0, !.moved = {}] /\ ~(Len(l) > 1)
    BY <1>1 DEF Claim
  <2>2. x.list = l /\ x.step = "media" /\ x.post = s BY <1>0, <2>1 DEF WorkType
  <2>3. Len(x.list) > 1 => Counting(w) /\ x.moved = wk[w].moved
    BY <1>0, <2>1, <2>2 DEF WorkType, Counting
  <2>4. \A v \in Workers : Shortens(v)
    <3> HIDE DEF l
    <3>1. x.step # "claim" BY <2>2
    <3>2. x.list = wk[w].list BY <2>2 DEF l
    <3>q. QED BY <2>1, <2>3, <3>1, <3>2, AloneShortens
  <2>5. \A v \in Workers : Fresh(v)' BY <1>u, <2>4, FreshKept DEF WordInv, Unheard
  <2>6. wk[w].kind = "sweep" /\ At(w, "claim") BY DEF Claim, At, BInv, Fit
  <2>7. l \in Seq(Scheduled) /\ l # <<>> /\ s = Head(l)
    BY <1>0, <2>6 DEF AtHead, WorkType
  <2>8. 1 \in DOMAIN l /\ l[1] = s
    <3> HIDE DEF l, s
    <3>q. QED BY <2>7
  <2>9. s \in Scheduled /\ row[s] = "pending" /\ s \notin wk[w].moved
    BY <1>1 DEF Claimable, Pending
  <2>10. wait[s] = 0
    <3>1. Counting(w) => l[1] \in wk[w].moved \/ row[l[1]] # "pending" \/ wait[l[1]] = 0
      BY <2>8 DEF WordInv, Fresh
    <3>q. QED BY <2>6, <2>8, <2>9, <3>1 DEF Counting
  <2>11. Wanted(w)'
    <3>1. wk'[w].post = s BY <1>0, <2>1, <2>2
    <3> HIDE DEF s
    <3>q. QED BY <1>u, <2>9, <2>10, <3>1 DEF Wanted
  <2>12. ASSUME NEW v \in Workers \ {w} PROVE Wanted(v)'
    <3>1. wk'[v] = wk[v] BY <1>0, <2>1
    <3>2. Wanted(v) BY DEF WordInv
    <3>q. QED BY <1>u, <3>1, <3>2 DEF Wanted, AtWork
  <2>q. QED BY <1>u, <2>5, <2>11, <2>12 DEF WordInv
<1>2. CASE ~Claimable(w, wk[w].post)
  <2>1. Leave(w) BY <1>2 DEF Claim
  <2>2. \A v \in Workers : Shortens(v) BY <2>1, LeaveShortens
  <2>3. Stays(w) BY <2>1, LeaveShortens DEF Stays
  <2>4. OnlyMoves(w) BY <1>s, <2>1, LeaveStep
  <2>5. \A v \in Workers : Stays(v) BY <2>3, <2>4 DEF OnlyMoves, Same, Stays, AtWork
  <2>q. QED BY <1>u, <2>2, <2>5, WordKept
<1>q. QED BY <1>1, <1>2

(* What is stored for a row its author does not want was changed late.     *)
LEMMA WordInsert ==
    ASSUME BInv, WInv, TimesOK, WordInv, NEW w \in Workers, Insert(w)
    PROVE  WordInv'
<1>s. Shape BY DEF BInv
<1>u. Unheard BY WorkersUnheard DEF WorkerStep
<1>1. \A v \in Workers : Shortens(v) BY InsertShortens
<1>2. AtWork(w) BY DEF Insert, At, AtWork
<1>3. \A v \in Workers : Stays(v) BY <1>s, <1>2, InsertStep, GotoStays
<1>4. \A v \in Workers : Fresh(v)' /\ Wanted(v)'
  BY <1>u, <1>1, <1>3, FreshKept, WantedKept, WorkScheduled DEF WordInv, Unheard
<1>5. UNCHANGED late BY DEF Insert
<1>6. \/ against' = against
      \/ /\ wk[w].post \in Scheduled /\ against' = against \cup {wk[w].post}
         /\ row[wk[w].post] = "cancelled" \/ wait[wk[w].post] > 0
  BY DEF Insert
<1>7. ASSUME wk[w].post \in Scheduled, row[wk[w].post] = "cancelled" \/ wait[wk[w].post] > 0
      PROVE  wk[w].post \in late
  <2>1. wait[wk[w].post] > 0 => wait[wk[w].post] # 0 OBVIOUS
  <2>q. QED BY <1>2, <1>7, <2>1 DEF WordInv, Wanted
<1>q. QED BY <1>4, <1>5, <1>6, <1>7 DEF WordInv

(* A sweep begins with rows that are due.                                  *)
LEMMA WordStart ==
    ASSUME BInv, WInv, TimesOK, LInv, WordInv, NEW w \in Workers,
           StartSweep(w) \/ \E d \in Direct : Request(w, d)
    PROVE  WordInv'
<1>s. Shape BY DEF BInv
<1>0. wk \in [Workers -> WorkType] BY DEF WInv
<1>u. UNCHANGED <<row, wait, late, against>>
  BY DEF StartSweep, Request, schedule, history
<1>1. OnlyMoves(w) /\ ~AtWork(w)' BY <1>s, StartStep DEF AtWork
<1>2. ASSUME NEW v \in Workers PROVE Wanted(v)'
  <2>1. CASE v = w BY <1>1, <2>1 DEF Wanted
  <2>2. CASE v # w
    <3>1. Same(v) /\ Wanted(v) BY <1>1, <2>2 DEF OnlyMoves, WordInv
    <3>q. QED BY <1>u, <3>1 DEF Same, Wanted, AtWork
  <2>q. QED BY <2>1, <2>2
<1>3. ASSUME NEW v \in Workers \ {w} PROVE Fresh(v)'
  <2>1. wk'[v] = wk[v] BY <1>0 DEF StartSweep, Request
  <2>2. Fresh(v) BY DEF WordInv
  <2>q. QED BY <1>u, <2>1, <2>2 DEF Fresh, Counting, At
<1>4. CASE StartSweep(w)
  <2> DEFINE x == [Idle EXCEPT !.kind = "sweep", !.list = Listed,
                               !.post = Head(Listed), !.step = "claim"]
  <2>1. wk' = [wk EXCEPT ![w] = x] BY <1>4 DEF StartSweep
  <2>2. x.list = Listed BY DEF Idle
  <2> HIDE DEF x
  <2>3. wk'[w].list = Listed BY <1>0, <2>1, <2>2
  <2>4. \A i \in DOMAIN Listed : Due(Listed[i]) BY ListedDue DEF BInv, LInv
  <2>5. \A i \in DOMAIN Listed : row'[Listed[i]] # "none" /\ wait'[Listed[i]] = 0
    BY <1>u, <2>4 DEF Due, Pending
  <2>6. Fresh(w)' BY <2>3, <2>5 DEF Fresh
  <2>q. QED BY <1>u, <1>2, <1>3, <2>6 DEF WordInv
<1>5. ASSUME NEW d \in Direct, Request(w, d) PROVE WordInv'
  <2> DEFINE x == [Idle EXCEPT !.kind = "request", !.post = d, !.step = "find"]
  <2>1. wk' = [wk EXCEPT ![w] = x] BY <1>5 DEF Request
  <2>2. x.list = <<>> BY DEF Idle
  <2> HIDE DEF x
  <2>3. wk'[w].list = <<>> BY <1>0, <2>1, <2>2
  <2>4. DOMAIN wk'[w].list = {} BY <2>3
  <2>5. Fresh(w)' BY <2>4 DEF Fresh
  <2>q. QED BY <1>u, <1>2, <1>3, <2>5 DEF WordInv
<1>q. QED BY <1>4, <1>5

(* What the author changes is known to the sweeps that have it listed, and *)
(* is remembered if a sweep is at it.                                      *)
LEMMA WordAuthor ==
    ASSUME BInv, WInv, TimesOK, WordInv, NEW s \in Scheduled,
           Schedule(s) \/ Reschedule(s) \/ Cancel(s)
    PROVE  WordInv'
<1>0. /\ wk \in [Workers -> WorkType] /\ row \in RowType
      /\ wait \in [Scheduled -> 0 .. Offset]
  BY DEF WInv, BInv, TimesOK
<1>1. CASE Schedule(s)
  <2>1. /\ row[s] = "none" /\ row' = [row EXCEPT ![s] = "pending"]
        /\ wait' = [wait EXCEPT ![s] = Offset] /\ UNCHANGED <<wk, late, against>>
    BY <1>1 DEF Schedule, history
  <2>2. Unheard BY <1>0, <2>1 DEF Unheard, Settles, RowType
  <2>3. \A v \in Workers : Shortens(v) /\ Stays(v) BY <2>1, StaysPut
  <2>q. QED BY <2>1, <2>2, <2>3, WordKept
<1>2. ASSUME late' = Changed(s), row[s] = "pending",
             \A x \in Scheduled \ {s} : row'[x] = row[x] /\ wait'[x] = wait[x],
             \A v \in Workers : Same(v), UNCHANGED against,
             \A v \in Workers : Fresh(v)'
      PROVE  WordInv'
  <2>1. late \subseteq late' BY <1>2 DEF Changed
  <2>2. ASSUME NEW v \in Workers PROVE Wanted(v)'
    <3>1. (AtWork(v)' <=> AtWork(v)) /\ wk'[v].post = wk[v].post BY <1>2 DEF Same, AtWork
    <3>2. CASE AtWork(v) /\ wk[v].post = s
      <4>1. s \in late' BY <1>2, <3>2 DEF Changed
      <4>q. QED BY <3>1, <3>2, <4>1 DEF Wanted
    <3>3. CASE ~(AtWork(v) /\ wk[v].post = s)
      <4>1. Wanted(v) BY DEF WordInv
      <4>q. QED BY <1>2, <2>1, <3>1, <3>3, <4>1 DEF Wanted
    <3>q. QED BY <3>2, <3>3
  <2>3. against' \subseteq late' BY <1>2, <2>1 DEF WordInv
  <2>q. QED BY <1>2, <2>2, <2>3 DEF WordInv
<1>3. CASE Cancel(s)
  <2>1. /\ row[s] = "pending" /\ row' = [row EXCEPT ![s] = "cancelled"]
        /\ wait' = [wait EXCEPT ![s] = 0] /\ late' = Changed(s) /\ UNCHANGED <<wk, against>>
    BY <1>3 DEF Cancel, Pending
  <2>2. Settles BY <1>0, <2>1 DEF Settles, RowType
  <2>3. \A v \in Workers : Fresh(v)'
    <3>1. \A v \in Workers : Shortens(v) BY <2>1, StaysPut
    <3>q. QED BY <2>2, <3>1, FreshKept DEF WordInv
  <2>4. \A v \in Workers : Same(v) BY <2>1 DEF Same
  <2>5. \A x \in Scheduled \ {s} : row'[x] = row[x] /\ wait'[x] = wait[x]
    BY <1>0, <2>1 DEF RowType
  <2>q. QED BY <1>2, <2>1, <2>3, <2>4, <2>5
<1>4. CASE Reschedule(s)
  <2>1. /\ row[s] = "pending" /\ UNCHANGED <<row, against>> /\ late' = Changed(s)
        /\ wait' = [wait EXCEPT ![s] = Offset]
        /\ wk' = [w \in Workers |->
                    IF Counting(w) THEN [wk[w] EXCEPT !.moved = @ \cup {s}] ELSE wk[w]]
    BY <1>4 DEF Reschedule, Pending
  <2>2. \A x \in Scheduled \ {s} : row'[x] = row[x] /\ wait'[x] = wait[x]
    BY <1>0, <2>1
  <2>3. \A v \in Workers : Same(v) BY <1>4, QuietStep DEF BInv
  <2>4. ASSUME NEW v \in Workers PROVE Fresh(v)'
    <3> DEFINE l == wk[v].list
    <3>0. wk[v] \in WorkType /\ Fresh(v) BY <1>0 DEF WordInv
    <3>1. /\ wk'[v].list = l /\ wk'[v].step = wk[v].step
          /\ Counting(v) => wk'[v].moved = wk[v].moved \cup {s}
      BY <2>1, <3>0 DEF WorkType
    <3>2. Counting(v)' <=> Counting(v) BY <3>1 DEF Counting, At
    <3>3. ASSUME NEW i \in DOMAIN l
          PROVE  /\ row'[l[i]] # "none"
                 /\ Counting(v)' => \/ l[i] \in wk'[v].moved \/ row'[l[i]] # "pending"
                                    \/ wait'[l[i]] = 0
      <4>1. l[i] \in Scheduled
        <5>1. l \in Seq(Scheduled) BY <3>0 DEF WorkType
        <5> HIDE DEF l
        <5>q. QED BY <5>1
      <4>2. /\ row[l[i]] # "none"
            /\ Counting(v) => l[i] \in wk[v].moved \/ row[l[i]] # "pending" \/ wait[l[i]] = 0
        BY <3>0 DEF Fresh
      <4> DEFINE x == l[i]
      <4> HIDE DEF l, x
      <4>3. CASE x = s BY <2>1, <3>1, <3>2, <4>2, <4>3 DEF x
      <4>4. CASE x # s
        <5>1. row'[x] = row[x] /\ wait'[x] = wait[x] BY <2>2, <4>1, <4>4 DEF x
        <5>q. QED BY <3>1, <3>2, <4>2, <5>1 DEF x
      <4>q. QED BY <4>3, <4>4
    <3>q. QED BY <3>1, <3>3 DEF Fresh
  <2>q. QED BY <1>2, <2>1, <2>2, <2>3, <2>4
<1>q. QED BY <1>1, <1>3, <1>4

(* Time brings rows nearer, and neither the purge of a key nor what others *)
(* take away changes a row.                                                *)
LEMMA WordQuiet ==
    ASSUME BInv, WInv, TimesOK, WordInv,
           (\E d \in Direct : ExpireKey(d)) \/ World \/ Tick \/ UNCHANGED vars
    PROVE  WordInv'
<1>1. CASE (\E d \in Direct : ExpireKey(d)) \/ World \/ UNCHANGED vars
  <2>1. UNCHANGED <<row, wait, late, against, wk>>
    BY <1>1, WorldStep DEF ExpireKey, schedule, history, vars
  <2>2. Unheard BY <2>1 DEF Unheard, Settles
  <2>3. \A v \in Workers : Shortens(v) /\ Stays(v) BY <2>1, StaysPut
  <2>q. QED BY <2>1, <2>2, <2>3, WordKept
<1>2. CASE Tick
  <2>1. /\ UNCHANGED <<row, late, against>>
        /\ wait' = [s \in Scheduled |-> IF wait[s] > 0 THEN wait[s] - 1 ELSE 0]
        /\ wk' = [w \in Workers |-> IF Counting(w) THEN [wk[w] EXCEPT !.age = @ + 1] ELSE wk[w]]
    BY <1>2 DEF Tick, history
  <2>2. Unheard BY <2>1 DEF Unheard, Settles
  <2>3. ASSUME NEW v \in Workers PROVE Shortens(v) /\ Stays(v)
    <3>1. wk[v] \in WorkType BY DEF WInv
    <3>2. /\ wk'[v].list = wk[v].list /\ wk'[v].moved = wk[v].moved
          /\ wk'[v].step = wk[v].step /\ wk'[v].post = wk[v].post
      BY <2>1, <3>1 DEF WorkType
    <3>q. QED BY <3>2 DEF Shortens, Stays, Counting, At, AtWork
  <2>q. QED BY <2>1, <2>2, <2>3, WordKept
<1>q. QED BY <1>1, <1>2

(* Every step keeps the author's word.                                     *)
LEMMA WordNext ==
    ASSUME BInv, TInv, WordInv, [Next]_vars PROVE WordInv'
  BY WordWorker, WordClaim, WordInsert, WordStart, WordAuthor, WordQuiet
     DEF TInv, Next, WorkerStep

(* The initial state.                                                      *)
LEMMA WordInit == Init => WordInv
<1> SUFFICES ASSUME Init PROVE WordInv OBVIOUS
<1>1. Idle.list = <<>> /\ Idle.step = "idle" BY DEF Idle
<1>2. DOMAIN Idle.list = {} BY <1>1
<1>q. QED BY <1>1, <1>2 DEF Init, WordInv, Fresh, Wanted, AtWork

(* What is listed is due, and what a sweep is at is wanted.                *)
THEOREM SweepsKnowTheAuthor == Spec => [](TInv /\ WordInv)
<1>1. BInv /\ TInv /\ WordInv /\ [Next]_vars => TInv' /\ WordInv'
  BY TNext, WordNext
<1>q. QED BY <1>1, TInit, WordInit, WorkersFit, PTL DEF Spec

(* A scheduled post that its author cancels or puts off is not published   *)
(* then, except by a sweep that had claimed its row already                *)
(* (claim_scheduled_status, update_scheduled_status_time,                  *)
(* delete_scheduled_status).                                               *)
THEOREM TheAuthorHasTheLastWord == Spec => []AuthorHasLastWord
<1>1. WordInv => AuthorHasLastWord BY DEF WordInv, AuthorHasLastWord
<1>q. QED BY <1>1, SweepsKnowTheAuthor, PTL
=============================================================================
