--------------------------- MODULE MCSessionRuntime ---------------------------
(* Instances of SessionRuntime for TLC. *)
EXTENDS SessionRuntime
CONSTANTS a, b, q, p
KindOf == [r \in Request |-> CASE r = q -> "questions" [] r = p -> "plan_review" [] OTHER -> "approval"]
=============================================================================
