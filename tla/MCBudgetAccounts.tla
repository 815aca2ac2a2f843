--------------------------- MODULE MCBudgetAccounts ---------------------------
(* Instances of BudgetAccounts for TLC: two missions of one conversation;  *)
(* the counterexample to ReserveIsKept needs both sessions, v and w.       *)
EXTENDS BudgetAccounts
CONSTANTS m, n, v, w
OfMission == [x \in Worker |-> m]
AskedBudget == [x \in Mission |-> IF x = m THEN 3 ELSE 1]
HeldBack == [x \in Mission |-> IF x = m THEN 1 ELSE 0]
=============================================================================
