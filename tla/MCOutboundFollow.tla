-------------------------- MODULE MCOutboundFollow ---------------------------
(* Instances of the follow handshake for TLC.                              *)
EXTENDS FollowHandshake, TLC

NoIds == {}
FirstId == {1}
Replies == Answers \ {"unresolved"}
MaybeLost == {"accepted", "answer_lost"}
Taken == {"accepted"}

(* Which run or request does what makes no difference to a safety property.*)
Symmetry == Permutations(Runs) \cup Permutations(Clients)
=============================================================================
