------------------------------ MODULE Handshake ------------------------------
(***************************************************************************)
(* What following one remote actor promises, with no rows, runs or         *)
(* requests.  A Follow is asked for once and stands at most once, so what  *)
(* was withdrawn or replaced does not come back; only an answer to the     *)
(* Follow that stands decides it, in whatever order and however often      *)
(* answers come; it is delivered only if the actor's server has got it;    *)
(* and a standing follow is given up only while nobody has answered it and *)
(* its delivery has failed.                                                *)
(***************************************************************************)
CONSTANT Follows

VARIABLES
    standing,   \* the follow there is: Follow id and state
    fate,       \* Follow -> "unasked" | "asked" | "delivered" | "failed"
    waiting,    \* Follows asked for that do not stand yet
    got,        \* Follows the actor's server has got
    revived     \* failed Follows that an administrator sends again

handshakeVars == <<standing, fate, waiting, got, revived>>

Nobody == [id |-> 0, st |-> "none"]

Init ==
    /\ standing = Nobody
    /\ fate = [n \in Follows |-> "unasked"]
    /\ waiting = {} /\ got = {} /\ revived = {}

Ask(n) ==
    /\ fate[n] = "unasked"
    /\ fate' = [fate EXCEPT ![n] = "asked"]
    /\ waiting' = waiting \cup {n}
    /\ UNCHANGED <<standing, got, revived>>

(* The Follow takes the place of the one before it; an actor who asks for  *)
(* no approval counts as having accepted.                                  *)
Stand(n) ==
    /\ n \in waiting
    /\ waiting' = waiting \ {n}
    /\ \E st \in {"pending", "accepted"} : standing' = [id |-> n, st |-> st]
    /\ UNCHANGED <<fate, got, revived>>

(* The request is lost: the Follow is sent and never stands.               *)
Forget(n) ==
    /\ n \in waiting
    /\ waiting' = waiting \ {n}
    /\ UNCHANGED <<standing, fate, got, revived>>

Withdraw ==
    /\ standing' = Nobody
    /\ UNCHANGED <<fate, waiting, got, revived>>

Arrive(n) ==
    /\ fate[n] # "unasked"
    /\ got' = got \cup {n}
    /\ UNCHANGED <<standing, fate, waiting, revived>>

Answer(n, answer) ==
    /\ n \in got /\ n = standing.id
    /\ standing' = [standing EXCEPT !.st = answer]
    /\ UNCHANGED <<fate, waiting, got, revived>>

Deliver(n) ==
    /\ fate[n] = "asked" /\ n \in got
    /\ fate' = [fate EXCEPT ![n] = "delivered"]
    /\ UNCHANGED <<standing, waiting, got, revived>>

Fail(S) ==
    /\ \A n \in S : fate[n] = "asked"
    /\ fate' = [n \in Follows |-> IF n \in S THEN "failed" ELSE fate[n]]
    /\ UNCHANGED <<standing, waiting, got, revived>>

Revive(n) ==
    /\ fate[n] = "failed" /\ n \notin revived
    /\ fate' = [fate EXCEPT ![n] = "asked"]
    /\ revived' = revived \cup {n}
    /\ UNCHANGED <<standing, waiting, got>>

GiveUp(n) ==
    /\ n = standing.id /\ standing.st = "pending"
    /\ fate[n] = "failed" \/ n \in revived
    /\ standing' = [standing EXCEPT !.st = "failed"]
    /\ UNCHANGED <<fate, waiting, got, revived>>

Next ==
    \/ \E S \in SUBSET Follows : Fail(S)
    \/ Withdraw
    \/ \E n \in Follows : \/ Ask(n) \/ Stand(n) \/ Forget(n) \/ Arrive(n)
                          \/ Answer(n, "accepted") \/ Answer(n, "rejected")
                          \/ Deliver(n) \/ Revive(n) \/ GiveUp(n)

Spec == Init /\ [][Next]_handshakeVars
=============================================================================
