----------------------------- MODULE Verification -----------------------------
(***************************************************************************)
(* What the modelling, solving, verification and repair workflows promise: *)
(* every operation happens in one step, on the current revision and the    *)
(* registries as they are.  VerificationClients models the operations as   *)
(* the program runs them, a read, an await and a short transaction, and    *)
(* implements this specification.                                          *)
(*                                                                         *)
(* A step either appends exactly one revision together with its rows, or   *)
(* changes nothing: an agent that fails, a gate of the reasoning or MODEL  *)
(* stage that rejects, and an exception leave only an agent-run record.    *)
(***************************************************************************)
EXTENDS VerificationState

CONSTANTS
  MaxRevision,       \* bound on the number of revisions explored
  MaxRepairCycles,   \* the configured automatic repair cycles
  ReviewedVersions,  \* versions of the reviewed templates that may be bound
  InitialStages      \* where the explored projects start

ASSUME MaxRevisionAssumption == MaxRevision \in Nat
ASSUME MaxRepairCyclesAssumption == MaxRepairCycles \in 1..3
ASSUME ReviewedVersionsAssumption == ReviewedVersions \subseteq Nat \ {0}
ASSUME InitialStagesAssumption == InitialStages \subseteq {"INGEST", "SELECT"}

VARIABLES
  proj,              \* the current ProblemState
  models,            \* mathematical_models
  results,           \* results, with their solver runs and executions
  validation_runs,
  sensitivity_runs,
  robustness_runs,
  red_team_runs,     \* red_team_reports
  repair_cycles

reports == <<validation_runs, sensitivity_runs, robustness_runs, red_team_runs>>
registries == <<models, results, reports, repair_cycles>>
vars == <<proj, registries>>

Latest(rows) == Len(rows)

\* The rows of a registry after one more has been added.
Adds(rows, row) == Append(rows, row)

-----------------------------------------------------------------------------
(* The transaction that ends every operation.  s is the revision the         *)
(* operation was derived from and next the revision it wants to append.      *)

\* Mutant: a next revision that has been overtaken is let through.
FollowsCurrentBug(next) == proj.version + 1 >= next.version

\* The current row is locked, and next must follow it directly.
FollowsCurrent(next) == proj.version + 1 = next.version

AppendRevision(next) ==
  /\ proj.version < MaxRevision
  /\ ValidState(next)
  /\ FollowsCurrent(next)
  /\ proj' = next

PersistReasoning(s, stage) ==
  /\ AppendRevision(ReasoningState(s, stage))
  /\ UNCHANGED registries

PersistData(s) ==
  /\ AppendRevision(DataState(s))
  /\ UNCHANGED registries

PersistModel(s, version) ==
  /\ AppendRevision(ModelState(s, version))
  /\ models' = Adds(models, [version |-> version, source |-> 0])
  /\ UNCHANGED <<results, reports, repair_cycles>>

PersistSolve(s, gate, credible) ==
  /\ AppendRevision(SolveState(s, Latest(results) + 1, gate))
  /\ results' = Adds(results, [model    |-> s.mathematical_model,
                               gate     |-> gate,
                               credible |-> credible])
  /\ UNCHANGED <<models, reports, repair_cycles>>

PersistValidation(s, result, gate) ==
  /\ AppendRevision(ValidationState(s, Latest(validation_runs) + 1, gate))
  /\ validation_runs' = Adds(validation_runs,
                             [model  |-> s.mathematical_model,
                              result |-> result,
                              gate   |-> gate])
  /\ UNCHANGED <<models, results, sensitivity_runs, robustness_runs,
                 red_team_runs, repair_cycles>>

\* val is the validation run the report was computed from.
PersistSensitivity(s, val, gate) ==
  /\ AppendRevision(SensitivityState(s, Latest(sensitivity_runs) + 1, gate))
  /\ sensitivity_runs' = Adds(sensitivity_runs,
                              [model      |-> s.mathematical_model,
                               result     |-> validation_runs[val].result,
                               validation |-> val,
                               gate       |-> gate])
  /\ UNCHANGED <<models, results, validation_runs, robustness_runs,
                 red_team_runs, repair_cycles>>

PersistRobustness(s, val, sens, gate) ==
  /\ AppendRevision(RobustnessState(s, Latest(robustness_runs) + 1, gate))
  /\ robustness_runs' = Adds(robustness_runs,
                             [model       |-> s.mathematical_model,
                              result      |-> validation_runs[val].result,
                              validation  |-> val,
                              sensitivity |-> sens,
                              gate        |-> gate])
  /\ UNCHANGED <<models, results, validation_runs, sensitivity_runs,
                 red_team_runs, repair_cycles>>

\* The report compiled from the three runs and the reviewer's draft.
RedTeamReport(s, val, sens, rob, critical, mock) ==
  [model       |-> s.mathematical_model,
   result      |-> validation_runs[val].result,
   validation  |-> val,
   sensitivity |-> sens,
   robustness  |-> rob,
   critical    |-> critical,
   mock        |-> mock]

\* A validation that did not pass is a critical finding of its own.
PersistRedTeam(s, val, sens, rob, finds_critical, mock, integral) ==
  LET critical == finds_critical \/ validation_runs[val].gate # "PASS"
      report   == RedTeamReport(s, val, sens, rob, critical, mock)
      verified == VerifiedGate(val, sens, rob, validation_runs[val],
                               sensitivity_runs[sens], robustness_runs[rob],
                               report, integral)
  IN
  /\ AppendRevision(RedTeamState(s, Latest(red_team_runs) + 1, report.result,
                                 RedTeamGate(report), verified))
  /\ red_team_runs' = Adds(red_team_runs, report)
  /\ UNCHANGED <<models, results, validation_runs, sensitivity_runs,
                 robustness_runs, repair_cycles>>

\* An accepted proposal adds the model version that follows the repaired one;
\* any other is kept as an attempt.
PersistRepair(s, report, cycle, status) ==
  LET target == IF status = "ACCEPTED" THEN s.mathematical_model + 1 ELSE 0 IN
  /\ AppendRevision(RepairState(s, Latest(repair_cycles) + 1, target, status))
  /\ models' = IF target = 0 THEN models
               ELSE Adds(models, [version |-> target,
                                  source  |-> s.mathematical_model])
  /\ repair_cycles' = Adds(repair_cycles,
                           [cycle  |-> cycle,
                            source |-> s.mathematical_model,
                            target |-> target,
                            report |-> report,
                            status |-> status])
  /\ UNCHANGED <<results, reports>>

PersistRepairLimit(s) ==
  /\ AppendRevision(RepairLimitState(s))
  /\ UNCHANGED registries

-----------------------------------------------------------------------------
(* The operations.                                                           *)

\* The result is one of the current model revision.
InContext(s, result) ==
  /\ s.mathematical_model # 0
  /\ result \in DOMAIN results
  /\ results[result].model = s.mathematical_model

RegisteredResults(s) == {s.result_records[i] : i \in DOMAIN s.result_records}

\* Versions grow, so the row with the highest one is the last.
NextModelVersion ==
  IF models = <<>> THEN 1 ELSE models[Latest(models)].version + 1

Reason ==
  \E stage \in {"UNDERSTAND", "EXPLORE", "SELECT"} :
    /\ CanEnter(proj.current_stage, stage)
    /\ PersistReasoning(proj, stage)

ReviseData == PersistData(proj)

BuildModel ==
  /\ CanEnter(proj.current_stage, "MODEL")
  /\ PersistModel(proj, NextModelVersion)

\* A reviewed template keeps the version it was reviewed at.
BindReviewedModel ==
  /\ CanEnter(proj.current_stage, "MODEL")
  /\ NextModelVersion = 1
  /\ \E version \in ReviewedVersions : PersistModel(proj, version)

\* A solver status that asks for a retry may still come with credible values.
Solve ==
  /\ CanEnter(proj.current_stage, "SOLVE")
  /\ proj.mathematical_model # 0
  /\ \E gate \in {"PASS", "RETRY"}, credible \in BOOLEAN :
       PersistSolve(proj, gate, credible)

Validate ==
  /\ CanEnter(proj.current_stage, "VALIDATE")
  /\ \E result \in RegisteredResults(proj) :
       /\ InContext(proj, result)
       /\ \E gate \in ValidationVerdict(results[result]) :
            PersistValidation(proj, result, gate)

Sensitivity ==
  /\ CanEnter(proj.current_stage, "SENSITIVITY")
  /\ validation_runs # <<>>
  /\ LET val == Latest(validation_runs) IN
       /\ InContext(proj, validation_runs[val].result)
       /\ \E gate \in SensitivityVerdict(validation_runs[val]) :
            PersistSensitivity(proj, val, gate)

Robustness ==
  /\ CanEnter(proj.current_stage, "ROBUSTNESS")
  /\ validation_runs # <<>> /\ sensitivity_runs # <<>>
  /\ LET val  == Latest(validation_runs)
         sens == Latest(sensitivity_runs) IN
       /\ InContext(proj, validation_runs[val].result)
       /\ \E gate \in RobustnessVerdict(validation_runs[val], sensitivity_runs[sens]) :
            PersistRobustness(proj, val, sens, gate)

RedTeam ==
  /\ CanEnter(proj.current_stage, "RED_TEAM")
  /\ validation_runs # <<>> /\ sensitivity_runs # <<>> /\ robustness_runs # <<>>
  /\ LET val == Latest(validation_runs) IN
       /\ InContext(proj, validation_runs[val].result)
       /\ \E critical, mock, integral \in BOOLEAN :
            PersistRedTeam(proj, val, Latest(sensitivity_runs),
                           Latest(robustness_runs), critical, mock, integral)

\* Every attempt counts, accepted or not.
RepairCycleCount == Len(repair_cycles)

Repair ==
  /\ CanEnter(proj.current_stage, "MODEL_REPAIR")
  /\ red_team_runs # <<>>
  /\ LET report == Latest(red_team_runs) IN
       /\ red_team_runs[report].critical
       /\ InContext(proj, red_team_runs[report].result)
       /\ RepairCycleCount < MaxRepairCycles
       /\ \E status \in RepairStatus :
            PersistRepair(proj, report, RepairCycleCount + 1, status)

\* repair, or a repair loop that has no cycle left, records the exhaustion at
\* whatever stage the project is by then.
MarkRepairLimit ==
  /\ \E report \in DOMAIN red_team_runs : red_team_runs[report].critical
  /\ RepairCycleCount >= MaxRepairCycles
  /\ PersistRepairLimit(proj)

Init ==
  /\ \E stage \in InitialStages : proj = ProjectAt(stage)
  /\ models = <<>> /\ results = <<>> /\ repair_cycles = <<>>
  /\ validation_runs = <<>> /\ sensitivity_runs = <<>>
  /\ robustness_runs = <<>> /\ red_team_runs = <<>>

Next ==
  \/ Reason \/ ReviseData
  \/ BuildModel \/ BindReviewedModel \/ Solve
  \/ Validate \/ Sensitivity \/ Robustness \/ RedTeam
  \/ Repair \/ MarkRepairLimit

Spec == Init /\ [][Next]_vars

-----------------------------------------------------------------------------
(* Properties.                                                               *)

\* The types of the revision and of the rows the workflows persist.
TypeOK ==
  /\ proj \in ProblemState
  /\ models \in Seq(ModelRow)
  /\ results \in Seq(ResultRow)
  /\ validation_runs \in Seq(ValidationRow)
  /\ sensitivity_runs \in Seq(SensitivityRow)
  /\ robustness_runs \in Seq(RobustnessRow)
  /\ red_team_runs \in Seq(RedTeamRow)
  /\ repair_cycles \in Seq(RepairRow)

\* The latest-row reads of the workflows find exactly the chain of the current
\* stage: a stage is only ever held on the strength of a passing report of the
\* current model revision that names the passing report before it.
ValidationReady ==
  /\ validation_runs # <<>>
  /\ LET v == validation_runs[Latest(validation_runs)] IN
       /\ v.gate = "PASS"
       /\ v.model = proj.mathematical_model
       /\ InContext(proj, v.result)
       /\ results[v.result].credible

SensitivityReady ==
  /\ ValidationReady
  /\ sensitivity_runs # <<>>
  /\ LET v == validation_runs[Latest(validation_runs)]
         s == sensitivity_runs[Latest(sensitivity_runs)] IN
       /\ s.gate = "PASS"
       /\ s.validation = Latest(validation_runs)
       /\ s.model = v.model /\ s.result = v.result

RobustnessReady ==
  /\ SensitivityReady
  /\ robustness_runs # <<>>
  /\ LET s == sensitivity_runs[Latest(sensitivity_runs)]
         r == robustness_runs[Latest(robustness_runs)] IN
       /\ r.gate = "PASS"
       /\ r.validation = s.validation
       /\ r.sensitivity = Latest(sensitivity_runs)
       /\ r.model = s.model /\ r.result = s.result

ReviewReady ==
  /\ RobustnessReady
  /\ red_team_runs # <<>>
  /\ LET r == robustness_runs[Latest(robustness_runs)]
         t == red_team_runs[Latest(red_team_runs)] IN
       /\ t.robustness = Latest(robustness_runs)
       /\ t.validation = r.validation /\ t.sensitivity = r.sensitivity
       /\ t.model = r.model /\ t.result = r.result

PrerequisitesReady ==
  /\ proj.current_stage = "VALIDATE" => ValidationReady
  /\ proj.current_stage = "SENSITIVITY" => SensitivityReady
  /\ proj.current_stage = "ROBUSTNESS" => RobustnessReady
  /\ proj.current_stage = "RED_TEAM" => ReviewReady

\* "Later stages cannot reinterpret a failed predecessor as successful"
\* (docs/VERIFICATION_REPAIR.md): every review ever stored, of any model
\* revision, rests on three passing runs chained to one result of one model.
ReviewsRestOnPassedRuns ==
  \A i \in DOMAIN red_team_runs :
    LET t == red_team_runs[i] IN
    /\ t.validation \in DOMAIN validation_runs
    /\ t.sensitivity \in DOMAIN sensitivity_runs
    /\ t.robustness \in DOMAIN robustness_runs
    /\ LET v == validation_runs[t.validation]
           s == sensitivity_runs[t.sensitivity]
           r == robustness_runs[t.robustness] IN
         /\ v.gate = "PASS" /\ s.gate = "PASS" /\ r.gate = "PASS"
         /\ ReportsChained(t.validation, t.sensitivity, t.robustness, v, s, r, t)

\* The final-result pointer is only set at the terminal stage, by a successful
\* revision, on a credible result of the current model that the latest review,
\* non-mock and without a critical finding, accepted.
VerifiedResultIsProven ==
  proj.verified_result_id # 0 =>
    /\ proj.current_stage = "RED_TEAM" /\ proj.status = "SUCCEEDED"
    /\ InContext(proj, proj.verified_result_id)
    /\ results[proj.verified_result_id].credible
    /\ red_team_runs # <<>>
    /\ LET t == red_team_runs[Latest(red_team_runs)] IN
         /\ t.result = proj.verified_result_id
         /\ ~t.mock /\ ~t.critical

\* The references a revision carries are the rows of the registries, in order:
\* no step drops, repeats or reorders evidence, whatever its verdict.
NamesEveryRow(refs, rows) == refs = [i \in 1..Len(rows) |-> i]

RefsMatchRows ==
  /\ NamesEveryRow(proj.result_records, results)
  /\ NamesEveryRow(proj.validation_results, validation_runs)
  /\ NamesEveryRow(proj.sensitivity_results, sensitivity_runs)
  /\ NamesEveryRow(proj.robustness_results, robustness_runs)
  /\ NamesEveryRow(proj.red_team_reports, red_team_runs)
  /\ NamesEveryRow(proj.revisions, repair_cycles)

\* Model versions are consecutive, the state names the last one, and each one
\* after the first is the work of an accepted repair of the one before.
ModelLineage ==
  /\ proj.mathematical_model = IF models = <<>> THEN 0 ELSE models[Latest(models)].version
  /\ \A i \in DOMAIN models :
       IF i = 1 THEN models[i].source = 0
       ELSE /\ models[i].version = models[i - 1].version + 1
            /\ models[i].source = models[i - 1].version
            /\ \E c \in DOMAIN repair_cycles :
                 /\ repair_cycles[c].status = "ACCEPTED"
                 /\ repair_cycles[c].target = models[i].version
                 /\ repair_cycles[c].source = models[i].source

\* Repair attempts are numbered without a gap or a repetition, never exceed the
\* configured limit, and each answers a critical review of the model it repairs.
RepairsAreCounted ==
  /\ Len(repair_cycles) <= MaxRepairCycles
  /\ \A c \in DOMAIN repair_cycles :
       LET repair == repair_cycles[c] IN
       /\ repair.cycle = c
       /\ repair.report \in DOMAIN red_team_runs
       /\ red_team_runs[repair.report].critical
       /\ red_team_runs[repair.report].model = repair.source

\* The stage only ever changes along the transition table: a failed gate leaves
\* the project where the attempt started, and nothing rewinds it.
StageFollowsTable ==
  [][proj'.current_stage # proj.current_stage =>
       CanEnter(proj.current_stage, proj'.current_stage)]_vars

\* Once a result is verified no verification, repair or data step takes the
\* pointer away or moves it to another result.
VerifiedResultIsFinal ==
  [][proj.verified_result_id # 0 =>
       proj'.verified_result_id = proj.verified_result_id]_vars
===============================================================================
