--------------------------- MODULE FollowHandshake ---------------------------
(***************************************************************************)
(* The requests and the consumer runs that follow a remote actor implement *)
(* the handshake.  Of the activities in the queue only Follows count, and  *)
(* a Follow waits while the request that queued it has its row to write.   *)
(***************************************************************************)
EXTENDS OutboundFollow

IsFollow(n) == row[n].type = "Follow"

FateOf(n) == IF IsFollow(n)
               THEN CASE row[n].st = "delivered" -> "delivered"
                      [] row[n].st = "failed"    -> "failed"
                      [] OTHER                   -> "asked"
               ELSE "unasked"

(* A request is about to write the follows row of the Follow n.            *)
Upserts(c, n) == client[c].at = "upsert" /\ client[c].id = n

Fates   == [n \in Ids |-> FateOf(n)]
Waiting == {n \in Ids : \E c \in Clients : Upserts(c, n)}
Got     == FollowsAmong(reached)
Revived == FollowsAmong(retried)

Pact == INSTANCE Handshake WITH
    Follows <- Ids, standing <- follow, fate <- Fates, waiting <- Waiting,
    got <- Got, revived <- Revived

(* Every step of a request, a run or the remote server is a step of the    *)
(* handshake or none: no order of follows, unfollows, late answers and     *)
(* failing deliveries (relationships.rs, outbound_state.rs,                *)
(* follow_handlers.rs) brings a follow back, decides it by the answer to   *)
(* another one or fails it while its Follow is on its way.  Runs must not  *)
(* outlive their lease: otherwise a run may fail a follow by an attempt    *)
(* that no longer counts.                                                  *)
ImplementsHandshake == Pact!Spec
=============================================================================
