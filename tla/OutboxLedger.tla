---------------------------- MODULE OutboxLedger -----------------------------
(***************************************************************************)
(* The outbox pipeline implements the delivery ledger.  A debt nobody has  *)
(* written a row for yet is carried by the generic row of its post.        *)
(***************************************************************************)
EXTENDS OutboxFanout

Debts == Posts \X Inboxes

TargetKey(d)  == <<"Create", d[1], d[2]>>
GenericKey(d) == <<"Create", d[1], NoInbox>>

Entitled == {d \in Debts : \E a \in loyal[d[1]] : InboxOf[a] = d[2]}

(* The row that stands for a debt, and what it says of it.                 *)
Bearer(d) == IF row[TargetKey(d)].st = "absent" /\ d \in Entitled
               THEN GenericKey(d) ELSE TargetKey(d)

DebtOf(st) == CASE st \in {"queued", "in_flight"} -> "owed"
                [] st = "delivered" -> "settled"
                [] st = "failed"    -> "abandoned"
                [] OTHER            -> "none"

Standing(d) == DebtOf(row[Bearer(d)].st)
IsSpent(d)  == row[Bearer(d)].st = "failed" /\ row[Bearer(d)].att >= MaxAttempts

Standings  == [d \in Debts |-> Standing(d)]
Spent      == {d \in Debts : IsSpent(d)}
Creates(S) == {d \in Debts : TargetKey(d) \in S}
Reached    == Creates(received)
Rejected   == Creates(refused)

Ledger == INSTANCE DeliveryLedger WITH
    ledger <- Standings, entitled <- Entitled, spent <- Spent,
    reached <- Reached, rejected <- Rejected

(* Every step of the pipeline is a step of the ledger or none at all: what *)
(* expansion, retries, crashes and requeues (delivery.rs) may never do is  *)
(* forget a debt, invent a delivery or give up on an entitled inbox early. *)
(* It needs hosts that resolve, and leavers who share their inbox with     *)
(* nobody: cancelling by inbox and failed lookups break the promise.       *)
ImplementsLedger == Ledger!Spec
=============================================================================
