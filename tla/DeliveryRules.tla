---------------------------- MODULE DeliveryRules ----------------------------
(***************************************************************************)
(* The pure delivery rules of cfwdon-domain (src/crates/cfwdon-domain/src/ *)
(* delivery.rs) shared by the two delivery tables.  How an HTTP answer is  *)
(* classified, when an attempt is the last one, and what state a delivery  *)
(* takes after an attempt.                                                 *)
(***************************************************************************)
EXTENDS Naturals

CONSTANT MaxAttempts     \* DELIVERY_MAX_ATTEMPTS, 5 in the code

ASSUME MaxAttemptsAssumption == MaxAttempts \in Nat \ {0}

(* DeliveryAttemptOutcome: Success, Failure (transient), PermanentFailure. *)
Outcomes == {"ok", "retry", "refused"}

(* What happened to one signed POST.  An HTTP answer is classified by its  *)
(* status (2xx, 408/429/3xx/5xx, other 4xx).  A POST can also be processed *)
(* by the remote server and its answer lost, and it is not even attempted  *)
(* when the inbox host cannot be resolved over DNS-over-HTTPS.             *)
Answers == {"accepted", "answer_lost", "busy", "rejected", "unresolved"}

(* Mutant: every answer short of a rejection is a success.                 *)
OutcomeOf_AnyAnswer(answer) ==
    IF answer \in {"rejected", "unresolved"} THEN "refused" ELSE "ok"

OutcomeOf(answer) ==
    CASE answer = "accepted"                 -> "ok"
      [] answer \in {"answer_lost", "busy"}  -> "retry"
      [] answer \in {"rejected", "unresolved"} -> "refused"

Reaches(answer) == answer \in {"accepted", "answer_lost"}

NextAttempt(attempt) == attempt + 1

(* Mutants: one attempt too few, one too many.                             *)
IsTerminal_Early(next) == next + 1 >= MaxAttempts
IsTerminal_Late(next) == next > MaxAttempts

IsTerminal(next) == next >= MaxAttempts

(* Mutant: the outcome is stored instead of the state it leads to.         *)
StateAfter_Outcome(next, outcome) == outcome

(* The state of a delivery whose attempt number next ended in outcome.     *)
StateAfter(next, outcome) ==
    CASE outcome = "ok"      -> "delivered"
      [] outcome = "refused" -> "failed"
      [] outcome = "retry"   -> IF IsTerminal(next) THEN "failed" ELSE "queued"
=============================================================================
