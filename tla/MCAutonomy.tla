----------------------------- MODULE MCAutonomy -----------------------------
(* Four kinds of plans: two that cost, one whose call may fail or be unknown, and
   one that needs an approval.  What is not free has a known outcome in the code. *)
EXTENDS Autonomy

MCCost(k) == CASE k = "content" -> 2 [] k = "research" -> 1 [] OTHER -> 0
MCNeedsApproval(k) == k = "schedule"
MCAnswers(k) == IF k = "readiness" THEN Outcomes ELSE {"RESULT_CONFIRMED"}
=============================================================================
