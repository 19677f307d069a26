--------------------------- MODULE MCIndependentJobs ---------------------------
(* Two workers on a plan with a required and an optional scenario.           *)
EXTENDS IndependentJobs

CONSTANTS w1, w2

MCWorker == {w1, w2}
===============================================================================
