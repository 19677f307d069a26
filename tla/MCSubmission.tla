----------------------------- MODULE MCSubmission -----------------------------
(* Instances of Submission for TLC: requests are interchangeable.              *)
EXTENDS Submission

Symmetry == Permutations(Client)
===============================================================================
