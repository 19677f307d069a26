-------------------------- MODULE IndependentOutcomes --------------------------
(***************************************************************************)
(* What independent verification promises of one registered plan: every    *)
(* operation gets at most one outcome, the outcome of a replay that ran    *)
(* comes together with its execution record, and a plan that passes keeps  *)
(* passing.                                                                *)
(***************************************************************************)

CONSTANTS Scenario, Required

Operation == {"baseline"} \cup Scenario

\* PASS and FAIL are results of an operation that ran, ERROR of a replay that
\* did not.
Outcome == {"none", "PASS", "FAIL", "ERROR"}

VARIABLES outcome, executions

Settle(op, result) ==
  /\ outcome[op] = "none"
  /\ outcome' = [outcome EXCEPT ![op] = result]
  /\ executions' = IF op \in Scenario /\ result # "ERROR"
                   THEN executions \cup {op} ELSE executions

OutcomesInit ==
  /\ outcome = [op \in Operation |-> "none"]
  /\ executions = {}

OutcomesNext ==
  \E op \in Operation, result \in {"PASS", "FAIL", "ERROR"} : Settle(op, result)

OutcomesSpec == OutcomesInit /\ [][OutcomesNext]_<<outcome, executions>>
===============================================================================
