--------------------------- MODULE DeliveryLedger ----------------------------
(***************************************************************************)
(* What the outbox pipeline promises about the Create of each post and each*)
(* inbox, with no rows, runs or messages: from the moment a post is        *)
(* published its author owes it to every entitled inbox, nothing that      *)
(* happens to the server makes it forget a debt, a debt is settled only if *)
(* the inbox received the post, and one owed to an entitled inbox is given *)
(* up only when the attempts are spent or the inbox rejected the post.     *)
(***************************************************************************)
CONSTANTS Posts, Inboxes

Debts == Posts \X Inboxes

VARIABLES
    ledger,     \* debt -> "none" | "owed" | "settled" | "abandoned"
    entitled,   \* debts whose inbox is entitled to the post
    spent,      \* abandoned debts whose attempts are used up
    reached,    \* posts that reached an inbox
    rejected    \* posts an inbox rejected

ledgerVars == <<ledger, entitled, spent, reached, rejected>>

InState(S, st) == \A d \in S : ledger[d] = st
Set(S, st) == [d \in Debts |-> IF d \in S THEN st ELSE ledger[d]]

Init ==
    /\ ledger = [d \in Debts |-> "none"]
    /\ entitled = {} /\ spent = {} /\ reached = {} /\ rejected = {}

(* A post is published: it is owed to all who are entitled to it.          *)
Promise(S) ==
    /\ InState(S, "none")
    /\ ledger' = Set(S, "owed")
    /\ entitled' = entitled \cup S
    /\ UNCHANGED <<spent, reached, rejected>>

(* It may be offered to others (the addressed, late followers) and offered *)
(* again where it was given up.                                            *)
Offer(S) ==
    /\ \A d \in S : ledger[d] \in {"none", "abandoned"}
    /\ ledger' = Set(S, "owed")
    /\ spent' = spent \ S
    /\ UNCHANGED <<entitled, reached, rejected>>

Post(d) ==
    /\ \/ reached' = reached \cup {d} /\ UNCHANGED rejected
       \/ rejected' = rejected \cup {d} /\ UNCHANGED reached
    /\ UNCHANGED <<ledger, entitled, spent>>

Settle(d) ==
    /\ ledger[d] = "owed" /\ d \in reached
    /\ ledger' = Set({d}, "settled")
    /\ UNCHANGED <<entitled, spent, reached, rejected>>

GiveUp(S) ==
    /\ InState(S, "owed")
    /\ ledger' = Set(S, "abandoned")
    /\ \E X \in SUBSET S :
         /\ spent' = spent \cup X
         /\ \A d \in S \ X : d \in rejected \/ d \notin entitled
    /\ UNCHANGED <<entitled, reached, rejected>>

(* Unfollowing or blocking ends the entitlement; what was not yet written  *)
(* down for these inboxes is forgotten.                                    *)
Disentitle(S, F) ==
    /\ F \subseteq S /\ S \subseteq entitled
    /\ entitled' = entitled \ S
    /\ ledger' = Set(F, "none")
    /\ \A d \in F : ledger[d] \in {"owed", "abandoned"}
    /\ spent' = spent \ F
    /\ UNCHANGED <<reached, rejected>>

(* Deleting the post ends everything owed for it.                          *)
Delete(p) ==
    LET S == {p} \X Inboxes
    IN  /\ ledger' = Set(S, "none")
        /\ entitled' = entitled \ S
        /\ spent' = spent \ S
        /\ UNCHANGED <<reached, rejected>>

Next ==
    \/ \E S \in SUBSET Debts : Promise(S) \/ Offer(S) \/ GiveUp(S)
    \/ \E d \in Debts : Post(d) \/ Settle(d)
    \/ \E S \in SUBSET entitled : \E F \in SUBSET S : Disentitle(S, F)
    \/ \E p \in Posts : Delete(p)

Spec == Init /\ [][Next]_ledgerVars
=============================================================================
