------------------------ MODULE MCVerificationClients -------------------------
(* Two requests at a time on one project.                                    *)
EXTENDS VerificationClients, TLC

CONSTANTS c1, c2

MCClient == {c1, c2}

Symmetry == Permutations(MCClient)
===============================================================================
