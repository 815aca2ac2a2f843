--------------------------- MODULE MCRunSession ---------------------------
(* Two sessions of one task; two messages to the first, one to the second. *)
EXTENDS RunSession, TLC

CONSTANTS a, b, c1, c2, c3

MCSession == {a, b}
MCCall == {c1, c2, c3}
MCTarget == c1 :> a @@ c2 :> a @@ c3 :> b
(* Runs are alike, and so are the two messages to one session. *)
Alike == Permutations(Run) \cup Permutations({c1, c2})

(* One session with two or three messages *)
OneSession == {a}
TwoCalls == {c1, c2}
TwoTargets == c1 :> a @@ c2 :> a
ThreeTargets == TwoTargets @@ c3 :> a
=============================================================================
