------------------------------ MODULE SolveAttempt ------------------------------
(***************************************************************************)
(* One call of MathematicalWorkflow.run, from the model it has built to    *)
(* the end of its last attempt at solving it.  An attempt chooses between  *)
(* an adapter and a program written by the CodeAgent, runs the program in  *)
(* the sandbox (SandboxRun, one instance after the other), reads the       *)
(* result, puts it through the SOLVE gate and stores it, whatever the gate *)
(* says, as one revision of the project.  Other requests revise the        *)
(* project meanwhile, and a stored row may be altered later.               *)
(***************************************************************************)
EXTENDS SandboxRun, ResultEvidence, WorkflowStages

CONSTANTS
  Models,           \* the models the call may have built
  Options,          \* the solver options of the request
  ClaimedStatuses,  \* the statuses generated programs report
  MaxAttempts,      \* max_generated_solve_attempts
  MaxVersion        \* bound on the versions others bring the project to

ASSUME ModelsAssumption == Models \subseteq MathematicalModel

ASSUME OptionsAssumption == Options \subseteq SolverOptions

ASSUME StatusesAssumption == ClaimedStatuses \subseteq SolverStatus

ASSUME AttemptsAssumption == MaxAttempts \in 1..3 /\ MaxVersion \in Nat

VARIABLES
  request,    \* the model, the strategy that was asked for and the options
  phase,      \* where the call is
  attempt,    \* the number of the attempt
  base,       \* the version of the project that the attempt has loaded
  current,    \* the version and the stage of the project
  chosen,     \* the strategy of the attempt and the family it was routed to
  bundle,     \* how the program spells its paths
  code_runs,  \* how many runs of the CodeAgent have finished, and are recorded
  kept,       \* what was stored last, and what is known of it
  rows        \* its rows

call == <<request, attempt, base, chosen, bundle>>
sandbox == <<executor, inside>>
stored == <<kept, rows>>
solveVars == <<call, phase, current, code_runs, stored, sandbox>>

ExecutionStrategy == {"AUTO", "DETERMINISTIC", "GENERATED"}

Closed == {"solved", "rejected", "raised", "conflict", "crashed"}

NoAnswer == SolverResult("UNKNOWN", "none", "none")

NothingKept ==
  [ stored |-> FALSE, altered |-> FALSE, answer |-> NoAnswer, passed |-> FALSE,
    copied |-> FALSE, real |-> FALSE, tampered |-> FALSE ]

NoRows == Rows(Chain(NoAnswer, "none", "none", "none", "none", NoRecord))

Generated == chosen.strategy = "GENERATED"

SolveInit ==
  /\ request \in [model : Models, strategy : ExecutionStrategy, options : Options]
  /\ phase = "load" /\ attempt = 1
  /\ base = 0 /\ current = [version |-> 1, stage |-> "MODEL"]
  /\ chosen = [strategy |-> "AUTO", family |-> "none"] /\ bundle = "same"
  /\ code_runs = [finished |-> 0, recorded |-> 0]
  /\ kept = NothingKept /\ rows = NoRows
  /\ Init

\* A run of the sandbox begins; it shares nothing with the one before.
StartSandbox ==
  /\ step' = "prepare" /\ workspace' = FALSE /\ outputs' = "none"
  /\ run' = NoRun /\ record' = NoRecord
  /\ container' = "absent" /\ process' = "none" /\ code' = NoCode
  /\ wrapper' = "waits" /\ marker' = NoMarker /\ tampered' = FALSE

\* An exception leaves the call.  The executor of generated programs records the
\* run of the CodeAgent first.
RaiseSolve(recorded) ==
  /\ phase' = "raised"
  /\ code_runs' = [code_runs EXCEPT !.recorded = @ + recorded]

RunsOfCodeAgent == IF Generated THEN 1 ELSE 0

-----------------------------------------------------------------------------
(* The choice of a strategy.                                                 *)

\* What an earlier attempt of the call has stored stays in the database; it is
\* left out of the state, as the gate has refused it.
Load ==
  /\ phase = "load"
  /\ base' = current.version
  /\ kept' = NothingKept /\ rows' = NoRows
  /\ UNCHANGED <<request, attempt, current, bundle>>

RefuseStage ==
  /\ Load
  /\ ~CanEnter(current.stage, "SOLVE")
  /\ RaiseSolve(0)
  /\ UNCHANGED <<chosen, sandbox>>

Candidate(available) == Ranked(request.model, request.options, available)

\* The adapter of Gurobi looks again whether its licence is there.
SelectAdapter ==
  /\ Load
  /\ CanEnter(current.stage, "SOLVE")
  /\ request.strategy # "GENERATED"
  /\ \E f \in UNION {Candidate(available) : available \in SUBSET SolverName} :
       /\ chosen' = [strategy |-> "DETERMINISTIC", family |-> f]
       /\ \/ /\ phase' = "run"
             /\ StartSandbox
             /\ UNCHANGED code_runs
          \/ /\ SolverOf(f) = "GUROBI"
             /\ RaiseSolve(0)
             /\ UNCHANGED sandbox

\* No adapter that is available takes the model.
Unroutable == \E available \in SUBSET SolverName : Candidate(available) = {}

RefuseModel ==
  /\ Load
  /\ CanEnter(current.stage, "SOLVE")
  /\ request.strategy = "DETERMINISTIC" /\ Unroutable
  /\ RaiseSolve(0)
  /\ UNCHANGED <<chosen, sandbox>>

SelectGenerated ==
  /\ Load
  /\ CanEnter(current.stage, "SOLVE")
  /\ request.strategy \in {"AUTO", "GENERATED"}
  /\ request.strategy = "AUTO" => Unroutable
  /\ chosen' = [strategy |-> "GENERATED", family |-> "none"]
  /\ phase' = "code"
  /\ UNCHANGED <<code_runs, sandbox>>

-----------------------------------------------------------------------------
(* The program.                                                              *)

\* A program may spell its paths in a way the sandbox writes differently, so
\* that the digest of what was executed is not the one it states.
WriteProgram ==
  /\ phase = "code"
  /\ bundle' \in {"same", "renormalised"}
  /\ code_runs' = [code_runs EXCEPT !.finished = @ + 1]
  /\ phase' = "validate"
  /\ UNCHANGED <<request, attempt, base, chosen, current, stored, sandbox>>

\* The agent gives up; its failed run is recorded.
WriteNothing ==
  /\ phase = "code"
  /\ phase' = "raised"
  /\ code_runs' = [finished |-> code_runs.finished + 1, recorded |-> code_runs.recorded + 1]
  /\ UNCHANGED <<call, current, stored, sandbox>>

\* Mutant: the exception of a refused program leaves the agent run unrecorded.
RefuseProgramBug ==
  /\ phase = "validate"
  /\ RaiseSolve(0)
  /\ UNCHANGED <<call, current, stored, sandbox>>

\* A dependency is not approved or not installed, the program installs
\* something itself, or no file has the name of its entry point.
RefuseProgram ==
  /\ phase = "validate"
  /\ RaiseSolve(RunsOfCodeAgent)
  /\ UNCHANGED <<call, current, stored, sandbox>>

AcceptProgram ==
  /\ phase = "validate"
  /\ phase' = "run"
  /\ StartSandbox
  /\ UNCHANGED <<call, current, code_runs, stored>>

\* The steps of the sandbox.
ExecuteProgram ==
  /\ phase = "run"
  /\ Execute
  /\ UNCHANGED <<call, phase, current, code_runs, stored>>

SandboxRaised ==
  /\ phase = "run" /\ step = "raised"
  /\ RaiseSolve(RunsOfCodeAgent)
  /\ UNCHANGED <<call, current, stored, sandbox>>

-----------------------------------------------------------------------------
(* The result.                                                               *)

\* Without a result that can be read the answer is made of the record alone.
FailureStatus ==
  CASE record.status = "TIMEOUT" -> "TIME_LIMIT"
    [] record.status = "UNAVAILABLE" /\ ~Generated -> "SOLVER_UNAVAILABLE"
    [] OTHER -> "EXECUTION_ERROR"

Failure == SolverResult(FailureStatus, "none", "none")

AdapterAnswers ==
  AdapterResults(SolverOf(chosen.family), request.model,
                 RuntimeBudget(request.model, request.options))

\* What a generated program may claim, as far as its schema lets it.
Claims ==
  {p \in [status : ClaimedStatuses, values : Values, objective : Objective,
          is_feasible : BOOLEAN] :
     p.status \in {"OPTIMAL", "FEASIBLE"} => p.is_feasible}

ObjectiveMatches(m, p) == p.objective = IF m.objective THEN "right" ELSE "none"

\* Mutant: the objective of a feasible claim is not computed again.
SemanticValidBug(m, p) == p.is_feasible => IsFeasible(p.values)

SemanticValid(m, p) ==
  p.is_feasible => IsFeasible(p.values) /\ ObjectiveMatches(m, p)

\* A claim of feasibility is computed again, and no other claim is.
GeneratedAnswer(m, p) ==
  LET valid == SemanticValid(m, p) IN
    [ status    |-> IF valid THEN p.status ELSE "MODEL_INVALID",
      values    |-> p.values,
      objective |-> p.objective,
      optimal   |-> p.status = "OPTIMAL" /\ valid,
      feasible  |-> p.is_feasible /\ IsFeasible(p.values) /\ valid ]

GeneratedAnswers == {GeneratedAnswer(request.model, p) : p \in Claims}

Answers ==
  {Failure} \cup IF ~SolverReads(record) THEN {}
                 ELSE IF Generated THEN GeneratedAnswers ELSE AdapterAnswers

ChainOf(r) ==
  Chain(r, chosen.strategy, IF Generated THEN "claimed" ELSE SolverOf(chosen.family),
        "sources", IF bundle = "same" THEN "sources" ELSE "renamed", record)

Retries == Generated /\ attempt < MaxAttempts

\* The attempt is stored with the run of the CodeAgent, passed or not.
Store ==
  /\ phase = "run" /\ step = "returned"
  /\ base = current.version
  /\ \E r \in Answers :
       LET chain  == ChainOf(r)
           passed == SolveGate(request.model, chain) IN
         /\ Constructible(r)
         /\ rows' = Rows(chain)
         /\ kept' = [ stored |-> TRUE, altered |-> FALSE, answer |-> r, passed |-> passed,
                      copied |-> record.artifacts = "all", real |-> EndedWell,
                      tampered |-> tampered ]
         /\ current' = [ version |-> current.version + 1,
                         stage |-> IF passed THEN "SOLVE" ELSE current.stage ]
         /\ phase' = IF passed THEN "solved" ELSE IF Retries THEN "load" ELSE "rejected"
         /\ attempt' = IF ~passed /\ Retries THEN attempt + 1 ELSE attempt
  /\ code_runs' = [code_runs EXCEPT !.recorded = @ + RunsOfCodeAgent]
  /\ UNCHANGED <<request, base, chosen, bundle, sandbox>>

\* Someone else has revised the project: the transaction fails, and the run of
\* the CodeAgent with it.
Conflict ==
  /\ phase = "run" /\ step = "returned"
  /\ base # current.version
  /\ phase' = "conflict"
  /\ UNCHANGED <<call, current, code_runs, stored, sandbox>>

\* The bytes of a result cannot be fetched, a generated one names another model
\* or solver than its program, or SolverResult refuses the answer.
ResultRefused ==
  /\ phase = "run" /\ step = "returned"
  /\ SolverReads(record)
  /\ RaiseSolve(RunsOfCodeAgent)
  /\ UNCHANGED <<call, current, stored, sandbox>>

-----------------------------------------------------------------------------
(* Everyone else.                                                            *)

\* The container of the run goes on, also after the call has returned.  The program
\* of an adapter is a text of the repository, which writes its result and no more.
ContainerStep ==
  /\ Environment \/ (Generated /\ ProgramWritesMarker)
  /\ UNCHANGED <<call, phase, current, code_runs, stored>>

\* Another request has solved the model, or tried to.
ForeignRevision ==
  /\ phase \notin Closed
  /\ current.stage = "MODEL" /\ current.version < MaxVersion
  /\ \E stage \in {"MODEL", "SOLVE"} :
       current' = [version |-> current.version + 1, stage |-> stage]
  /\ UNCHANGED <<call, phase, code_runs, stored, sandbox>>

SolveCrash ==
  /\ phase \notin Closed
  /\ phase' = "crashed"
  /\ step' = IF phase = "run" /\ step \notin Ended THEN "crashed" ELSE step
  /\ UNCHANGED <<call, current, code_runs, stored, workspace, outputs, run, record, inside>>

\* Some other value.
Other(field) ==
  CASE field = "exit_code" -> NoCode
    [] field = "is_mock" -> TRUE
    [] field \in {"optimal", "feasible"} -> FALSE
    [] OTHER -> "other"

Put(parts, name, field) == [parts EXCEPT ![name][field] = Other(field)]

InPayload(rs, name, field) == [rs EXCEPT !.payload = Put(rs.payload, name, field)]

InColumns(rs, name, field) == [rs EXCEPT !.columns = Put(rs.columns, name, field)]

\* One fact of a row is altered, in its payload, in its column, or in both; or
\* the payload becomes unreadable.  The bound: the container is gone by then.
Alter ==
  /\ phase \in {"solved", "rejected"} /\ ~kept.altered
  /\ run.removed
  /\ \/ \E name \in DOMAIN rows.payload : \E field \in DOMAIN rows.payload[name] :
          rows' = InPayload(rows, name, field)
     \/ \E name \in RowNames : \E field \in DOMAIN rows.columns[name] :
          rows' \in {InColumns(rows, name, field),
                    InColumns(InPayload(rows, name, field), name, field)}
     \/ \E name \in RowNames : rows' = [rows EXCEPT !.unreadable = {name}]
  /\ kept' = [kept EXCEPT !.altered = TRUE]
  /\ UNCHANGED <<call, phase, current, code_runs, sandbox>>

-----------------------------------------------------------------------------

Solve ==
  \/ RefuseStage \/ SelectAdapter \/ RefuseModel \/ SelectGenerated
  \/ WriteProgram \/ WriteNothing \/ RefuseProgram \/ AcceptProgram
  \/ ExecuteProgram \/ SandboxRaised
  \/ Store \/ Conflict \/ ResultRefused

SolveNext ==
  Solve \/ ContainerStep \/ ForeignRevision \/ SolveCrash \/ Alter

SolveSpec == SolveInit /\ [][SolveNext]_solveVars

\* The call is one task of a running process; agents have time limits, and so has
\* every docker command, so that the call never waits for the program for ever;
\* the program need not end.
FairSolveSpec == SolveSpec /\ WF_solveVars(Solve)

-----------------------------------------------------------------------------
(* Properties.                                                               *)

\* The variables of the call have their types.
SolveTypeOK ==
  /\ request \in [model : Models, strategy : ExecutionStrategy, options : Options]
  /\ phase \in {"load", "code", "validate", "run"} \cup Closed
  /\ attempt \in 1..MaxAttempts
  /\ base \in Nat
  /\ current \in [version : Nat, stage : {"MODEL", "SOLVE"}]
  /\ chosen \in [strategy : ExecutionStrategy, family : SolverFamily \cup {"none"}]
  /\ bundle \in {"same", "renormalised"}
  /\ code_runs \in [finished : Nat, recorded : Nat]
  /\ \A fact \in {kept.passed, kept.copied, kept.real, kept.tampered} : fact \in BOOLEAN

\* Whether outputs copied whole, and a program that ended with exit code zero, are
\* behind what was stored; a generated program may write the marker that says so.
RunBehind(k) == k.copied /\ (k.real \/ (Generated /\ k.tampered))

\* A result that has passed the SOLVE gate comes from a program whose outputs were
\* copied whole and, unless it is a generated one that has written the completion
\* marker itself, that ended with exit code zero; if it is an optimum or a feasible
\* point, its values satisfy the model and its objective is theirs.
AcceptedResultIsReal ==
  kept.passed =>
    /\ RunBehind(kept)
    /\ kept.answer.status \in {"OPTIMAL", "FEASIBLE"} =>
         /\ kept.answer.values = "satisfying"
         /\ request.model.objective => kept.answer.objective = "right"

\* What the repository vouches for when it reads a result back, accepted by the
\* gate or not, reports the status, the objective and only values of the solver's
\* answer, whichever single fact of the rows has been altered since; and it rests
\* on a run as the last property says, unless it reports a failure.
TrustedResultIsAsSolved ==
  kept.stored /\ EvidenceValid(rows) =>
    /\ kept.answer.status # "EXECUTION_ERROR" => RunBehind(kept)
    /\ rows.payload.result.status = kept.answer.status
    /\ rows.payload.result.objective = kept.answer.objective
    /\ rows.payload.result.outputs \in {"none", kept.answer.values}

\* Every call ends, after at most MaxAttempts attempts, and unless its process
\* died or another request came first, every run of the CodeAgent is on record.
SolveIsSettled ==
  <>(/\ phase \in Closed
     /\ phase \notin {"crashed", "conflict"} => code_runs.recorded = code_runs.finished)
================================================================================
