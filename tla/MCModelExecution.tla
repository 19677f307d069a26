--------------------------- MODULE MCModelExecution ---------------------------
(* Probes and an attempt on one model.                                       *)
EXTENDS ModelExecution, TLC

CONSTANTS p1, p2

MCProber == {p1, p2}

Symmetry == Permutations(MCProber)
===============================================================================
