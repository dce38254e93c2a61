--------------------------- MODULE MCInboxReceipts ----------------------------
(* Instances of the inbox for TLC.                                         *)
EXTENDS InboxReceipts, TLC

CONSTANTS f1, f2, u1, u2, c1, c2, p1, p2, d1, d2

UndoesMap == (u1 :> f1) @@ (u2 :> f1)
PlanSets == {{f1, u1}, {f1, u2}, {f1, f2}, {c1, p1, d1}, {c2, p2, d2}}
=============================================================================
