------------------------- MODULE MCCompanyScheduler -------------------------
(* Instances of CompanyScheduler for TLC. *)
EXTENDS CompanyScheduler, TLC

(* Servers, coordinators and reviews are told apart by nothing. *)
Symmetry == Permutations(Servers) \cup Permutations(Coordinators) \cup Permutations(Reviews)
=============================================================================
