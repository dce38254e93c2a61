--------------------------- MODULE MCOutboxFanout ----------------------------
(* Instances of the outbox pipeline for TLC.                               *)
EXTENDS OutboxLedger

CONSTANTS p1, p2, alice, bob, i1, i2, relay, none

OnePost == {p1}
TwoPosts == {p1, p2}
Private == [p \in Posts |-> "followers"]
Public == [p \in Posts |-> "public"]
Mixed == [p \in Posts |-> IF p = p1 THEN "public" ELSE "followers"]
NoMentions == [p \in Posts |-> {}]
MentionFirst == [p \in Posts |-> {i1}]
OwnInboxes == [a \in Actors |-> IF a = alice THEN i1 ELSE i2]
OneInbox == [a \in Actors |-> i1]
NoRows == {}
TargetsOnly == {"Create"} \X Posts \X Inboxes
Answering == Answers \ {"unresolved"}
AllAnswers == Answers
Reliable == {"accepted", "busy"}
=============================================================================
