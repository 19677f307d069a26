---------------------------- MODULE MCVerification ----------------------------
(* A project driven through modelling, verification and repair.              *)
EXTENDS Verification
===============================================================================
