--------------------------- MODULE MCCoworkTurns ----------------------------
(* Instance of CoworkTurns for TLC. *)
EXTENDS CoworkTurns
=============================================================================
