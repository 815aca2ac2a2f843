--------------------------- MODULE MCMemoryFileLock ---------------------------
(* Instances of MemoryFileLock for TLC: calls of processes p and q, and of r *)
(* in an instance with three.                                                *)
EXTENDS MemoryFileLock
CONSTANTS p, q, r, p1, p2, q1, q2, r1
HomeOf == [c \in Call |-> CASE c \in {p1, p2} -> p [] c \in {q1, q2} -> q [] OTHER -> r]
=============================================================================
