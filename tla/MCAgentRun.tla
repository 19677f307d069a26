------------------------------ MODULE MCAgentRun ------------------------------
(* Two runs on one adapter.                                                  *)
EXTENDS AgentRun

CONSTANTS r1, r2

MCRun == {r1, r2}
===============================================================================
