--------------------------- MODULE MCNodeStorage ---------------------------
(* Instances of NodeStorage for TLC. *)
EXTENDS NodeStorage

CONSTANTS f1, f2, c1, c2, c3

TwoFiles == [x \in {c1, c2, c3} |-> IF x = c3 THEN f2 ELSE f1]
=============================================================================
