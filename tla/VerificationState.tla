-------------------------- MODULE VerificationState ---------------------------
(***************************************************************************)
(* The part of ProblemState that the modelling, solving and verification   *)
(* workflows read and write, the rows their registries keep, and the next  *)
(* revision each workflow step derives from the revision it has loaded.    *)
(*                                                                         *)
(* A row is named by its position in its registry, 0 stands for None, and  *)
(* a mathematical model is named by its version: a project has one stable  *)
(* model_id.  A gate is PASS, RETRY or HUMAN_REVIEW.                       *)
(***************************************************************************)
EXTENDS Naturals, Sequences, WorkflowStages

Gate == {"PASS", "RETRY", "HUMAN_REVIEW"}

RepairStatus == {"ACCEPTED", "REJECTED", "HUMAN_REVIEW"}

\* One revision.  result_records .. revisions are the lists of typed
\* references, verified_items the RESULT entries marked VERIFIED and
\* verified_gates the results that a passing VERIFIED gate of the state names.
ProblemState ==
  [ version             : Nat,
    current_stage       : WorkflowStage,
    status              : WorkflowStatus,
    mathematical_model  : Nat,
    result_records      : Seq(Nat),
    validation_results  : Seq(Nat),
    sensitivity_results : Seq(Nat),
    robustness_results  : Seq(Nat),
    red_team_reports    : Seq(Nat),
    revisions           : Seq(Nat),
    verified_items      : SUBSET Nat,
    verified_gates      : SUBSET Nat,
    verified_result_id  : Nat ]

ModelRow == [version : Nat, source : Nat]

\* gate is the verdict of the SOLVE gate, credible whether the values stand up
\* to an independent recomputation.  A time-limited run with a feasible
\* incumbent is a RETRY that is credible.
ResultRow == [model : Nat, gate : Gate, credible : BOOLEAN]

ValidationRow == [model : Nat, result : Nat, gate : Gate]

SensitivityRow == [model : Nat, result : Nat, validation : Nat, gate : Gate]

RobustnessRow ==
  [model : Nat, result : Nat, validation : Nat, sensitivity : Nat, gate : Gate]

RedTeamRow ==
  [model : Nat, result : Nat, validation : Nat, sensitivity : Nat,
   robustness : Nat, critical : BOOLEAN, mock : BOOLEAN]

RepairRow ==
  [cycle : Nat, source : Nat, target : Nat, report : Nat, status : RepairStatus]

\* A newly created project is revision 0 at INGEST; one whose model has been
\* selected is revision 3 at SELECT.
ProjectAt(stage) ==
  [ version             |-> IF stage = "INGEST" THEN 0 ELSE 3,
    current_stage       |-> stage,
    status              |-> IF stage = "INGEST" THEN "PENDING" ELSE "SUCCEEDED",
    mathematical_model  |-> 0,
    result_records      |-> <<>>,
    validation_results  |-> <<>>,
    sensitivity_results |-> <<>>,
    robustness_results  |-> <<>>,
    red_team_reports    |-> <<>>,
    revisions           |-> <<>>,
    verified_items      |-> {},
    verified_gates      |-> {},
    verified_result_id  |-> 0 ]

-----------------------------------------------------------------------------
(* The revision derived from s by each workflow step.                        *)

GateStatus(gate) == IF gate = "PASS" THEN "SUCCEEDED" ELSE gate

\* An UNDERSTAND, EXPLORE or SELECT output that passed its gate.
ReasoningState(s, stage) ==
  [s EXCEPT !.version = @ + 1, !.current_stage = stage, !.status = "SUCCEEDED"]

\* Attachments, data understanding and data executions append a revision that
\* leaves the stage, the status and every verification field as they were.
DataState(s) == [s EXCEPT !.version = @ + 1]

ModelState(s, model) ==
  [s EXCEPT !.version = @ + 1, !.current_stage = "MODEL", !.status = "SUCCEEDED",
            !.mathematical_model = model]

\* A failed SOLVE gate still registers the result and keeps the stage.
SolveState(s, result, gate) ==
  [s EXCEPT !.version = @ + 1,
            !.current_stage = IF gate = "PASS" THEN "SOLVE" ELSE @,
            !.status = IF gate = "PASS" THEN "SUCCEEDED" ELSE "RETRY",
            !.verified_result_id = 0,
            !.result_records = Append(@, result)]

ReportState(s, passed_stage, failed_stage, gate) ==
  [s EXCEPT !.version = @ + 1,
            !.current_stage = IF gate = "PASS" THEN passed_stage ELSE failed_stage,
            !.status = GateStatus(gate)]

ValidationState(s, id, gate) ==
  [ReportState(s, "VALIDATE", "SOLVE", gate) EXCEPT
     !.validation_results = Append(@, id)]

\* Mutant: a partial sensitivity run advances the stage.
SensitivityStateBug(s, id, gate) ==
  [ReportState(s, "SENSITIVITY", "SENSITIVITY", gate) EXCEPT
     !.sensitivity_results = Append(@, id)]

SensitivityState(s, id, gate) ==
  [ReportState(s, "SENSITIVITY", "VALIDATE", gate) EXCEPT
     !.sensitivity_results = Append(@, id)]

\* Mutant: an infeasible robustness run advances the stage.
RobustnessStateBug(s, id, gate) ==
  [ReportState(s, "ROBUSTNESS", "ROBUSTNESS", gate) EXCEPT
     !.robustness_results = Append(@, id)]

RobustnessState(s, id, gate) ==
  [ReportState(s, "ROBUSTNESS", "SENSITIVITY", gate) EXCEPT
     !.robustness_results = Append(@, id)]

\* Both gates must pass for the result to be marked; any other verdict
\* unmarks every result.
RedTeamState(s, id, result, red_team_gate, verified_gate) ==
  LET verified == red_team_gate = "PASS" /\ verified_gate = "PASS" IN
  [ReportState(s, "RED_TEAM", "RED_TEAM", verified_gate) EXCEPT
     !.red_team_reports = Append(@, id),
     !.verified_gates = IF verified_gate = "PASS" THEN @ \cup {result} ELSE @,
     !.verified_items = IF verified THEN {result} ELSE {},
     !.verified_result_id = IF verified THEN result ELSE 0]

\* target is the version of the accepted model, 0 when the proposal is not
\* accepted.
RepairState(s, id, target, status) ==
  [s EXCEPT !.version = @ + 1,
            !.current_stage = IF target # 0 THEN "MODEL_REPAIR" ELSE "RED_TEAM",
            !.status = IF target # 0 THEN "SUCCEEDED"
                       ELSE IF status = "HUMAN_REVIEW" THEN "HUMAN_REVIEW"
                       ELSE "RETRY",
            !.revisions = Append(@, id),
            !.mathematical_model = IF target # 0 THEN target ELSE @,
            !.verified_result_id = 0]

RepairLimitState(s) ==
  [s EXCEPT !.version = @ + 1, !.status = "HUMAN_REVIEW", !.verified_result_id = 0]

\* Mutant: marked entries need not agree with the pointer.
ValidStateBug(s) ==
  s.verified_result_id # 0 => s.verified_result_id \in s.verified_gates

\* What ProblemState.model_validate accepts: the pointer and the marked entries
\* agree, and a passing VERIFIED gate names the result.
ValidState(s) ==
  /\ s.verified_items = IF s.verified_result_id = 0 THEN {} ELSE {s.verified_result_id}
  /\ s.verified_result_id # 0 =>
       /\ \E i \in DOMAIN s.result_records : s.result_records[i] = s.verified_result_id
       /\ s.verified_result_id \in s.verified_gates

-----------------------------------------------------------------------------
(* The verdicts of the deterministic gates over the reports of a result.     *)

\* Mutant: the values are not recomputed.
ValidationVerdictBug(result) == {"RETRY", "PASS"}

\* A validation can only pass a result whose values are credible; reviewed
\* evidence or an unsupported requirement can still fail one that is.
ValidationVerdict(result) ==
  {"RETRY"} \cup IF result.credible THEN {"PASS"} ELSE {}

\* A sensitivity report is BLOCKED, hence HUMAN_REVIEW, unless its validation
\* passed; a model without a sourced scalar parameter blocks it as well.
SensitivityVerdict(validation) ==
  {"HUMAN_REVIEW"} \cup IF validation.gate = "PASS" THEN {"PASS", "RETRY"} ELSE {}

\* A robustness report is BLOCKED too when the sensitivity run produced no
\* evidence; a partial sensitivity run (a RETRY) does not block it.
RobustnessVerdict(validation, sensitivity) ==
  {"HUMAN_REVIEW"} \cup
    IF validation.gate = "PASS" /\ sensitivity.gate # "HUMAN_REVIEW"
    THEN {"PASS", "RETRY"} ELSE {}

RedTeamGate(report) ==
  IF report.mock THEN "HUMAN_REVIEW"
  ELSE IF report.critical THEN "RETRY"
  ELSE "PASS"

\* The reports speak of one model revision and one formal result, and each
\* names the prerequisite it was computed from.  v, s, r and report are the rows
\* of the validation, sensitivity and robustness runs named val, sens and rob,
\* and of the Red Team review.
ReportsChained(val, sens, rob, v, s, r, report) ==
  /\ {v.model, s.model, r.model, report.model} = {v.model}
  /\ {v.result, s.result, r.result, report.result} = {v.result}
  /\ {s.validation, r.validation, report.validation} = {val}
  /\ {r.sensitivity, report.sensitivity} = {sens}
  /\ report.robustness = rob

\* integral: the audits recomputed every report and found no discrepancy.
VerifiedGate(val, sens, rob, v, s, r, report, integral) ==
  IF /\ v.gate = "PASS" /\ s.gate = "PASS" /\ r.gate = "PASS"
     /\ ~report.mock /\ ~report.critical
     /\ ReportsChained(val, sens, rob, v, s, r, report)
     /\ integral
  THEN "PASS"
  ELSE IF report.mock \/ s.gate = "HUMAN_REVIEW" \/ r.gate = "HUMAN_REVIEW"
  THEN "HUMAN_REVIEW"
  ELSE "RETRY"
===============================================================================
