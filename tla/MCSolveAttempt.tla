---------------------------- MODULE MCSolveAttempt -----------------------------
(* A request for a convex nonlinear program, or for an integer program that  *)
(* prefers a commercial solver.                                              *)
EXTENDS SolveAttempt

Convex ==
  [ family |-> "nonlinear_programming", objective |-> TRUE, flat |-> TRUE,
    continuous |-> TRUE, discrete |-> FALSE, linear |-> FALSE, integral |-> FALSE,
    convex |-> TRUE, required |-> {}, preferred |-> << >>, commercial |-> FALSE,
    max_runtime |-> 0, size |-> "TINY" ]

MCModels ==
  { Convex,
    [Convex EXCEPT !.family = "integer_programming", !.continuous = FALSE,
       !.discrete = TRUE, !.linear = TRUE, !.integral = TRUE,
       !.preferred = <<"GUROBI">>, !.commercial = TRUE] }

MCOptions == {[time_limit |-> 60, deadline_pressure |-> 4]}

MCStatuses == {"OPTIMAL", "INFEASIBLE"}
================================================================================
