------------------------- MODULE MCProviderCredentials -------------------------
(* Interchangeable requests on the credential of one provider.               *)
EXTENDS ProviderCredentials, TLC

CONSTANTS r1, r2, r3

MCRequest == {r1, r2, r3}

Symmetry == Permutations(MCRequest)
===============================================================================
