------------------------- MODULE MCStreamConnection -------------------------
(* Instances of StreamConnection for TLC. *)
EXTENDS StreamConnection, TLC

CONSTANTS c1, c2, c3

Symmetric == Permutations(Thread) \cup Permutations({c1, c2}) \cup Permutations(User)

(* The count of two connections starts at 0, that of c3 at 2^64 - 1. *)
BelowZero == [c \in Conn |-> IF c = c3 THEN -1 ELSE 0]

(* The count of c3 starts at 1. *)
AboveZero == [c \in Conn |-> IF c = c3 THEN 1 ELSE 0]
=============================================================================
