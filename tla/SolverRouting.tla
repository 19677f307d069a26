----------------------------- MODULE SolverRouting -----------------------------
(***************************************************************************)
(* How a mathematical model gets to a solver and what the solver's answer  *)
(* is taken for: the plan of the AlgorithmSelector, the hard filters and   *)
(* scores of the SolverRouter, the three adapters with the runtime they    *)
(* run in the sandbox, and the recomputation of feasibility.  A model is   *)
(* the record of what these look at; a value assignment is the class the   *)
(* recomputation puts it in.                                               *)
(***************************************************************************)
EXTENDS Integers, Sequences, FiniteSets

SolverName == {"SCIPY", "GUROBI", "ORTOOLS"}

SolverFamily ==
  {"SCIPY_HIGHS", "SCIPY_MILP", "SCIPY_MINIMIZE", "GUROBI", "ORTOOLS_CP_SAT"}

SolverCapability ==
  {"LP", "MILP", "INTEGER", "NLP", "BINARY", "CONTINUOUS", "MULTIOBJECTIVE"}

LinearFamilies ==
  {"linear_programming", "mixed_integer_linear_programming", "integer_programming"}

AdapterFamilies == LinearFamilies \cup {"nonlinear_programming"}

\* A simulation stands for the families no adapter knows.
ModelFamily == AdapterFamilies \cup {"multi_objective_optimization", "simulation"}

NoLimit == 0

MathematicalModel ==
  [ family       : ModelFamily,
    objective    : BOOLEAN,            \* there is an objective
    flat         : BOOLEAN,            \* no variable is indexed
    continuous   : BOOLEAN,            \* some variable is continuous
    discrete     : BOOLEAN,            \* some variable is integer or binary
    linear       : BOOLEAN,            \* every expression can be linearized
    integral     : BOOLEAN,            \* with integral coefficients and bounds
    convex       : BOOLEAN,            \* declared convex
    required     : SUBSET SolverCapability,
    preferred    : Seq(SolverFamily),
    commercial   : BOOLEAN,            \* commercial solvers are allowed
    max_runtime  : Nat,
    size         : {"TINY", "SMALL", "MEDIUM", "LARGE"} ]

SolverOptions == [time_limit : Nat, deadline_pressure : 0..5]

-----------------------------------------------------------------------------
(* The plan and the route.                                                   *)

DefaultPreferences(family) ==
  CASE family = "linear_programming" -> <<"SCIPY_HIGHS", "GUROBI">>
    [] family = "mixed_integer_linear_programming" ->
         <<"GUROBI", "SCIPY_MILP", "ORTOOLS_CP_SAT">>
    [] family = "integer_programming" -> <<"ORTOOLS_CP_SAT", "GUROBI", "SCIPY_MILP">>
    [] family = "nonlinear_programming" -> <<"SCIPY_MINIMIZE">>
    [] OTHER -> << >>

\* What the AlgorithmSelector cannot plan for keeps no preference.
Unsupported(m) ==
  \/ m.family \in AdapterFamilies \cup {"multi_objective_optimization"} /\ ~m.objective
  \/ m.family \in {"linear_programming", "nonlinear_programming"} /\ m.discrete

PlannedFamilies(m) ==
  IF Unsupported(m) THEN << >> ELSE m.preferred \o DefaultPreferences(m.family)

\* The declared families, then the planned ones; only first occurrences count.
Preference(m) == m.preferred \o PlannedFamilies(m)

Members(s) == {s[i] : i \in DOMAIN s}

First(s, f) == CHOOSE i \in DOMAIN s : s[i] = f /\ \A j \in 1..(i - 1) : s[j] # f

\* How many different families come before f.
Place(s, f) == Cardinality({s[j] : j \in 1..(First(s, f) - 1)})

SolverOf(f) ==
  CASE f \in {"SCIPY_HIGHS", "SCIPY_MILP", "SCIPY_MINIMIZE"} -> "SCIPY"
    [] f = "ORTOOLS_CP_SAT" -> "ORTOOLS"
    [] OTHER -> "GUROBI"

Capabilities(solver) ==
  CASE solver = "SCIPY"   -> {"LP", "MILP", "INTEGER", "NLP", "BINARY", "CONTINUOUS"}
    [] solver = "ORTOOLS" -> {"MILP", "INTEGER", "BINARY"}
    [] OTHER              -> {"LP", "MILP", "INTEGER", "BINARY", "CONTINUOUS"}

RequiredCapabilities(m) ==
  m.required \cup
  CASE m.family = "linear_programming" -> {"LP"}
    [] m.family = "mixed_integer_linear_programming" -> {"MILP"}
    [] m.family = "integer_programming" -> {"INTEGER"}
    [] m.family = "nonlinear_programming" -> {"NLP"}
    [] m.family = "multi_objective_optimization" -> {"MULTIOBJECTIVE"}
    [] OTHER -> {}

\* Each adapter says for itself which models it can translate.
ScipySupports(m) ==
  /\ m.objective /\ m.flat
  /\ m.family \in AdapterFamilies
  /\ m.family \in {"linear_programming", "nonlinear_programming"} => ~m.discrete
  /\ m.family \in LinearFamilies => m.linear

OrtoolsSupports(m) ==
  /\ m.family \in {"integer_programming", "mixed_integer_linear_programming"}
  /\ m.objective /\ m.flat /\ ~m.continuous
  /\ m.linear /\ m.integral

GurobiSupports(m) ==
  m.family \in LinearFamilies /\ m.objective /\ m.flat /\ m.linear

Supports(solver, m) ==
  CASE solver = "SCIPY"   -> ScipySupports(m)
    [] solver = "ORTOOLS" -> OrtoolsSupports(m)
    [] OTHER              -> GurobiSupports(m)

\* available: the solvers whose image, module and licence were found just now.
Accepted(m, f, available) ==
  LET solver == SolverOf(f) IN
    /\ solver = "GUROBI" => m.commercial
    /\ RequiredCapabilities(m) \subseteq Capabilities(solver)
    /\ Supports(solver, m)
    /\ solver \in available

SizeAdjustment(solver, size) ==
  CASE solver = "SCIPY"   -> [TINY |-> 8, SMALL |-> 4, MEDIUM |-> 0, LARGE |-> -10][size]
    [] solver = "ORTOOLS" -> [TINY |-> 6, SMALL |-> 4, MEDIUM |-> 1, LARGE |-> -5][size]
    [] OTHER              -> [TINY |-> 0, SMALL |-> 2, MEDIUM |-> 8, LARGE |-> 15][size]

DeclaredAdjustment(m, f) ==
  IF f \in Members(m.preferred)
  THEN (Len(m.preferred) - First(m.preferred, f) + 1) * 20 ELSE 0

DeadlineWeight(options) ==
  IF options.deadline_pressure > 2 THEN options.deadline_pressure - 1 ELSE 1

Score(m, options, f) ==
  LET preference == Preference(m) IN
    (Cardinality(Members(preference)) - Place(preference, f)) * 10 * DeadlineWeight(options)
      + SizeAdjustment(SolverOf(f), m.size)
      + DeclaredAdjustment(m, f)

\* The families route may choose: the best score, then the earlier preference.
Ranked(m, options, available) ==
  LET accepted == {f \in Members(Preference(m)) : Accepted(m, f, available)} IN
    {f \in accepted : \A g \in accepted \ {f} :
       \/ Score(m, options, f) > Score(m, options, g)
       \/ /\ Score(m, options, f) = Score(m, options, g)
          /\ First(Preference(m), f) < First(Preference(m), g)}

DeadlineCaps(options) ==
  LET cap == [p \in 3..5 |-> CASE p = 3 -> 300 [] p = 4 -> 120 [] OTHER -> 60] IN
    {cap[p] : p \in 3..options.deadline_pressure}

\* resolve_options: the smallest of the caller's limit, the model's and the caps.
RuntimeBudget(m, options) ==
  LET candidates ==
        ({options.time_limit, m.max_runtime} \ {NoLimit}) \cup DeadlineCaps(options) IN
    IF candidates = {} THEN NoLimit
    ELSE CHOOSE c \in candidates : \A d \in candidates : c <= d

-----------------------------------------------------------------------------
(* Answers.                                                                  *)

SolverStatus ==
  {"OPTIMAL", "FEASIBLE", "INFEASIBLE", "UNBOUNDED", "INFEASIBLE_OR_UNBOUNDED",
   "TIME_LIMIT", "ITERATION_LIMIT", "NUMERICAL_ERROR", "MODEL_INVALID",
   "SOLVER_UNAVAILABLE", "EXECUTION_ERROR", "UNKNOWN"}

TerminalStatus ==
  {"OPTIMAL", "FEASIBLE", "INFEASIBLE", "UNBOUNDED", "INFEASIBLE_OR_UNBOUNDED"}

\* Complete assignments a numeric solver may stop at: its tolerances are not
\* those of the recomputation.
Candidates(m) ==
  {"satisfying", "out_of_bounds", "violating"} \cup
  IF m.discrete THEN {"fractional"} ELSE {}

\* Programs written by a model may also leave a variable out or write NaN.
Values == {"none", "satisfying", "out_of_bounds", "violating", "fractional",
           "missing", "nonfinite"}

Objective == {"none", "right", "wrong"}

\* check_feasibility: a variable that is left out breaks its bound, and the
\* constraints over it cannot be evaluated.  No comparison with NaN holds.
CheckFeasibility(values) ==
  [ checked    |-> values # "none",
    bounds     |-> values \in {"out_of_bounds", "fractional", "missing"},
    violations |-> values \in {"violating", "missing"} ]

IsFeasible(values) ==
  LET report == CheckFeasibility(values) IN
    report.checked /\ ~report.bounds /\ ~report.violations

\* Native outcomes of scipy's linprog and milp: x is there after an optimum, and
\* maybe at a limit.  A limit is the time limit if the message says so.
LinearOutcomes(m) ==
  [native : {0}, late : {FALSE}, values : Candidates(m)] \cup
  [native : {1}, late : BOOLEAN, values : Candidates(m) \cup {"none"}] \cup
  [native : 2..4, late : {FALSE}, values : {"none"}]

LinearStatus(o) ==
  CASE o.native = 0 -> "OPTIMAL"
    [] o.native = 1 -> IF o.late THEN "TIME_LIMIT" ELSE "ITERATION_LIMIT"
    [] o.native = 2 -> "INFEASIBLE"
    [] o.native = 3 -> "UNBOUNDED"
    [] o.native = 4 -> "NUMERICAL_ERROR"

\* SLSQP always returns the point where it stopped; 0 is its only success.
NonlinearOutcomes(m) == [native : 0..9, late : {FALSE}, values : Candidates(m)]

NonlinearStatus(m, o) ==
  CASE o.native = 0 -> IF m.convex THEN "OPTIMAL" ELSE "FEASIBLE"
    [] o.native = 2 -> "MODEL_INVALID"
    [] o.native = 4 -> "INFEASIBLE"
    [] o.native = 9 -> "ITERATION_LIMIT"
    [] OTHER -> "NUMERICAL_ERROR"

\* CP-SAT has values for an optimal or feasible status only; nobody takes them for
\* exact.
OrtoolsOutcomes(m) ==
  [native : {"OPTIMAL", "FEASIBLE"}, late : {FALSE}, values : Candidates(m)] \cup
  [native : {"INFEASIBLE", "MODEL_INVALID", "UNKNOWN"}, late : {FALSE}, values : {"none"}]

\* A status without a name of its own is a limit if there was one.
OrtoolsStatus(o, budget) ==
  IF o.native # "UNKNOWN" THEN o.native
  ELSE IF budget # NoLimit THEN "TIME_LIMIT" ELSE "UNKNOWN"

\* Gurobi reports a code and, separately, whether it holds a solution.
GurobiOutcomes(m) ==
  [native : {2, 13}, late : {FALSE}, values : Candidates(m)] \cup
  [native : {5, 7, 8, 9, 12}, late : {FALSE}, values : Candidates(m) \cup {"none"}] \cup
  [native : {3, 4}, late : {FALSE}, values : {"none"}]

GurobiStatus(o) ==
  CASE o.native = 2  -> "OPTIMAL"
    [] o.native = 3  -> "INFEASIBLE"
    [] o.native = 4  -> "INFEASIBLE_OR_UNBOUNDED"
    [] o.native = 5  -> "UNBOUNDED"
    [] o.native = 7  -> "ITERATION_LIMIT"
    [] o.native = 9  -> "TIME_LIMIT"
    [] o.native = 12 -> "NUMERICAL_ERROR"
    [] o.native = 13 -> "FEASIBLE"
    [] OTHER -> "UNKNOWN"

\* The results solve may build from a readable result.json of an adapter: the
\* status is the solver's, the feasibility recomputed.
SolverResult(status, values, objective) ==
  [ status     |-> status,
    values     |-> values,
    objective  |-> objective,
    optimal    |-> status = "OPTIMAL",
    feasible   |-> IsFeasible(values) ]

AdapterResult(status, values) ==
  SolverResult(status, values, IF values = "none" THEN "none" ELSE "right")

AdapterResults(solver, m, budget) ==
  CASE solver = "ORTOOLS" ->
         {AdapterResult(OrtoolsStatus(o, budget), o.values) : o \in OrtoolsOutcomes(m)}
    [] solver = "GUROBI" ->
         {AdapterResult(GurobiStatus(o), o.values) : o \in GurobiOutcomes(m)}
    [] solver = "SCIPY" /\ m.family = "nonlinear_programming" ->
         {AdapterResult(NonlinearStatus(m, o), o.values) : o \in NonlinearOutcomes(m)}
    [] OTHER ->
         {AdapterResult(LinearStatus(o), o.values) : o \in LinearOutcomes(m)}

\* The validator of SolverResult; construction raises if it refuses.
Truthful(r) ==
  /\ r.status = "OPTIMAL" => r.optimal /\ r.feasible
  /\ r.optimal => r.status = "OPTIMAL"
  /\ r.status = "FEASIBLE" => r.feasible

Constructible(r) == Truthful(r) /\ r.values # "nonfinite"
================================================================================
