-------------------------- MODULE VerificationProofs --------------------------
(***************************************************************************)
(* Proofs about Verification and VerificationClients, for every bound,     *)
(* every limit on the repair cycles, every set of reviewed versions and    *)
(* any number of requests.  First the lemmas about the next-revision       *)
(* operators and the gates of VerificationState: what they yield is a      *)
(* problem state, which fields they change, and what a passing verdict     *)
(* implies.  Then the operations one at a time, then what a project and    *)
(* its registries keep, and last the requests that interleave: they keep   *)
(* the same promises, because together they implement Verification.        *)
(***************************************************************************)
EXTENDS VerificationClients, TLAPS

\* The literals the operators write are stages and statuses.
LEMMA Literals ==
  /\ {"INGEST", "UNDERSTAND", "EXPLORE", "SELECT", "MODEL", "SOLVE", "VALIDATE",
      "SENSITIVITY", "ROBUSTNESS", "RED_TEAM", "MODEL_REPAIR"} \subseteq WorkflowStage
  /\ {"PENDING", "SUCCEEDED", "RETRY", "HUMAN_REVIEW"} \subseteq WorkflowStatus
BY DEF WorkflowStage, WorkflowStatus

LEMMA Fields ==
  ASSUME NEW s \in ProblemState
  PROVE  /\ s.version \in Nat /\ s.version + 1 \in Nat
         /\ s.current_stage \in WorkflowStage
         /\ s.status \in WorkflowStatus
         /\ s.mathematical_model \in Nat
         /\ s.result_records \in Seq(Nat) /\ s.validation_results \in Seq(Nat)
         /\ s.sensitivity_results \in Seq(Nat) /\ s.robustness_results \in Seq(Nat)
         /\ s.red_team_reports \in Seq(Nat) /\ s.revisions \in Seq(Nat)
         /\ s.verified_items \in SUBSET Nat /\ s.verified_gates \in SUBSET Nat
         /\ s.verified_result_id \in Nat
BY DEF ProblemState

-----------------------------------------------------------------------------
(* A new project and every derived revision are problem states.              *)

LEMMA ProjectAtType ==
  ASSUME NEW stage \in {"INGEST", "SELECT"}
  PROVE  ProjectAt(stage) \in ProblemState
<1>1. stage \in WorkflowStage /\ {"PENDING", "SUCCEEDED"} \subseteq WorkflowStatus
  BY Literals
<1>2. <<>> \in Seq(Nat) /\ {} \in SUBSET Nat /\ 0 \in Nat /\ 3 \in Nat
  OBVIOUS
<1> QED
  BY <1>1, <1>2 DEF ProjectAt, ProblemState

LEMMA ReasoningStateType ==
  ASSUME NEW s \in ProblemState, NEW stage \in {"UNDERSTAND", "EXPLORE", "SELECT"}
  PROVE  ReasoningState(s, stage) \in ProblemState
<1>1. s.version + 1 \in Nat
  BY Fields
<1>2. stage \in WorkflowStage /\ "SUCCEEDED" \in WorkflowStatus
  BY Literals
<1> QED
  BY <1>1, <1>2 DEF ReasoningState, ProblemState

LEMMA DataStateType ==
  ASSUME NEW s \in ProblemState
  PROVE  DataState(s) \in ProblemState
<1>1. s.version + 1 \in Nat
  BY Fields
<1> QED
  BY <1>1 DEF DataState, ProblemState

LEMMA ModelStateType ==
  ASSUME NEW s \in ProblemState, NEW model \in Nat
  PROVE  ModelState(s, model) \in ProblemState
<1>1. s.version + 1 \in Nat
  BY Fields
<1>2. "MODEL" \in WorkflowStage /\ "SUCCEEDED" \in WorkflowStatus
  BY Literals
<1> QED
  BY <1>1, <1>2 DEF ModelState, ProblemState

LEMMA SolveStateType ==
  ASSUME NEW s \in ProblemState, NEW result \in Nat, NEW gate \in Gate
  PROVE  SolveState(s, result, gate) \in ProblemState
<1>1. s.version + 1 \in Nat /\ Append(s.result_records, result) \in Seq(Nat)
  BY Fields
<1>2. "SOLVE" \in WorkflowStage /\ {"SUCCEEDED", "RETRY"} \subseteq WorkflowStatus
  BY Literals
<1> QED
  BY <1>1, <1>2 DEF SolveState, ProblemState

LEMMA ReportStateType ==
  ASSUME NEW s \in ProblemState, NEW passed \in WorkflowStage,
         NEW failed \in WorkflowStage, NEW gate \in Gate
  PROVE  ReportState(s, passed, failed, gate) \in ProblemState
<1>1. s.version + 1 \in Nat
  BY Fields
<1>2. GateStatus(gate) \in WorkflowStatus
  BY Literals DEF GateStatus, Gate
<1> QED
  BY <1>1, <1>2 DEF ReportState, ProblemState

LEMMA ValidationStateType ==
  ASSUME NEW s \in ProblemState, NEW id \in Nat, NEW gate \in Gate
  PROVE  ValidationState(s, id, gate) \in ProblemState
<1> DEFINE r == ReportState(s, "VALIDATE", "SOLVE", gate)
<1>1. r \in ProblemState
  BY ReportStateType, Literals
<1>2. Append(r.validation_results, id) \in Seq(Nat)
  BY <1>1, Fields
<1> QED
  BY <1>1, <1>2 DEF ValidationState, ProblemState

LEMMA SensitivityStateType ==
  ASSUME NEW s \in ProblemState, NEW id \in Nat, NEW gate \in Gate
  PROVE  SensitivityState(s, id, gate) \in ProblemState
<1> DEFINE r == ReportState(s, "SENSITIVITY", "VALIDATE", gate)
<1>1. r \in ProblemState
  BY ReportStateType, Literals
<1>2. Append(r.sensitivity_results, id) \in Seq(Nat)
  BY <1>1, Fields
<1> QED
  BY <1>1, <1>2 DEF SensitivityState, ProblemState

LEMMA RobustnessStateType ==
  ASSUME NEW s \in ProblemState, NEW id \in Nat, NEW gate \in Gate
  PROVE  RobustnessState(s, id, gate) \in ProblemState
<1> DEFINE r == ReportState(s, "ROBUSTNESS", "SENSITIVITY", gate)
<1>1. r \in ProblemState
  BY ReportStateType, Literals
<1>2. Append(r.robustness_results, id) \in Seq(Nat)
  BY <1>1, Fields
<1> QED
  BY <1>1, <1>2 DEF RobustnessState, ProblemState

LEMMA RedTeamStateType ==
  ASSUME NEW s \in ProblemState, NEW id \in Nat, NEW result \in Nat,
         NEW red_team_gate \in Gate, NEW verified_gate \in Gate
  PROVE  RedTeamState(s, id, result, red_team_gate, verified_gate) \in ProblemState
<1> DEFINE r == ReportState(s, "RED_TEAM", "RED_TEAM", verified_gate)
<1>1. r \in ProblemState
  BY ReportStateType, Literals
<1>2. /\ Append(r.red_team_reports, id) \in Seq(Nat)
      /\ r.verified_gates \in SUBSET Nat
      /\ r.verified_gates \cup {result} \in SUBSET Nat
  BY <1>1, Fields
<1>3. {result} \in SUBSET Nat /\ {} \in SUBSET Nat /\ 0 \in Nat
  OBVIOUS
<1> QED
  BY <1>1, <1>2, <1>3 DEF RedTeamState, ProblemState

LEMMA RepairStateType ==
  ASSUME NEW s \in ProblemState, NEW id \in Nat, NEW target \in Nat,
         NEW status \in RepairStatus
  PROVE  RepairState(s, id, target, status) \in ProblemState
<1>1. s.version + 1 \in Nat /\ Append(s.revisions, id) \in Seq(Nat)
  BY Fields
<1>2. /\ {"MODEL_REPAIR", "RED_TEAM"} \subseteq WorkflowStage
      /\ {"SUCCEEDED", "RETRY", "HUMAN_REVIEW"} \subseteq WorkflowStatus
  BY Literals
<1> QED
  BY <1>1, <1>2 DEF RepairState, ProblemState

LEMMA RepairLimitStateType ==
  ASSUME NEW s \in ProblemState
  PROVE  RepairLimitState(s) \in ProblemState
<1>1. s.version + 1 \in Nat
  BY Fields
<1>2. "HUMAN_REVIEW" \in WorkflowStatus
  BY Literals
<1> QED
  BY <1>1, <1>2 DEF RepairLimitState, ProblemState
-----------------------------------------------------------------------------
(* What each derived revision changes, field by field.                       *)

LEMMA ReasoningStateFields ==
  ASSUME NEW s \in ProblemState, NEW stage
  PROVE  LET n == ReasoningState(s, stage) IN
         /\ n.version = s.version + 1
         /\ n.current_stage = stage
         /\ n.status = "SUCCEEDED"
         /\ n.mathematical_model = s.mathematical_model
         /\ n.result_records = s.result_records
         /\ n.validation_results = s.validation_results
         /\ n.sensitivity_results = s.sensitivity_results
         /\ n.robustness_results = s.robustness_results
         /\ n.red_team_reports = s.red_team_reports
         /\ n.revisions = s.revisions
         /\ n.verified_items = s.verified_items
         /\ n.verified_gates = s.verified_gates
         /\ n.verified_result_id = s.verified_result_id
BY DEF ReasoningState, ProblemState

LEMMA DataStateFields ==
  ASSUME NEW s \in ProblemState
  PROVE  LET n == DataState(s) IN
         /\ n.version = s.version + 1
         /\ n.current_stage = s.current_stage
         /\ n.status = s.status
         /\ n.mathematical_model = s.mathematical_model
         /\ n.result_records = s.result_records
         /\ n.validation_results = s.validation_results
         /\ n.sensitivity_results = s.sensitivity_results
         /\ n.robustness_results = s.robustness_results
         /\ n.red_team_reports = s.red_team_reports
         /\ n.revisions = s.revisions
         /\ n.verified_items = s.verified_items
         /\ n.verified_gates = s.verified_gates
         /\ n.verified_result_id = s.verified_result_id
BY DEF DataState, ProblemState

LEMMA ModelStateFields ==
  ASSUME NEW s \in ProblemState, NEW model
  PROVE  LET n == ModelState(s, model) IN
         /\ n.version = s.version + 1
         /\ n.current_stage = "MODEL"
         /\ n.status = "SUCCEEDED"
         /\ n.mathematical_model = model
         /\ n.result_records = s.result_records
         /\ n.validation_results = s.validation_results
         /\ n.sensitivity_results = s.sensitivity_results
         /\ n.robustness_results = s.robustness_results
         /\ n.red_team_reports = s.red_team_reports
         /\ n.revisions = s.revisions
         /\ n.verified_items = s.verified_items
         /\ n.verified_gates = s.verified_gates
         /\ n.verified_result_id = s.verified_result_id
BY DEF ModelState, ProblemState

LEMMA SolveStateFields ==
  ASSUME NEW s \in ProblemState, NEW result, NEW gate
  PROVE  LET n == SolveState(s, result, gate) IN
         /\ n.version = s.version + 1
         /\ n.current_stage = (IF gate = "PASS" THEN "SOLVE" ELSE s.current_stage)
         /\ n.status = (IF gate = "PASS" THEN "SUCCEEDED" ELSE "RETRY")
         /\ n.result_records = Append(s.result_records, result)
         /\ n.verified_result_id = 0
         /\ n.mathematical_model = s.mathematical_model
         /\ n.validation_results = s.validation_results
         /\ n.sensitivity_results = s.sensitivity_results
         /\ n.robustness_results = s.robustness_results
         /\ n.red_team_reports = s.red_team_reports
         /\ n.revisions = s.revisions
         /\ n.verified_items = s.verified_items
         /\ n.verified_gates = s.verified_gates
BY DEF SolveState, ProblemState

LEMMA ValidationStateFields ==
  ASSUME NEW s \in ProblemState, NEW id, NEW gate
  PROVE  LET n == ValidationState(s, id, gate) IN
         /\ n.version = s.version + 1
         /\ n.current_stage = (IF gate = "PASS" THEN "VALIDATE" ELSE "SOLVE")
         /\ n.status = GateStatus(gate)
         /\ n.validation_results = Append(s.validation_results, id)
         /\ n.mathematical_model = s.mathematical_model
         /\ n.result_records = s.result_records
         /\ n.sensitivity_results = s.sensitivity_results
         /\ n.robustness_results = s.robustness_results
         /\ n.red_team_reports = s.red_team_reports
         /\ n.revisions = s.revisions
         /\ n.verified_items = s.verified_items
         /\ n.verified_gates = s.verified_gates
         /\ n.verified_result_id = s.verified_result_id
BY DEF ValidationState, ReportState, ProblemState

LEMMA SensitivityStateFields ==
  ASSUME NEW s \in ProblemState, NEW id, NEW gate
  PROVE  LET n == SensitivityState(s, id, gate) IN
         /\ n.version = s.version + 1
         /\ n.current_stage = (IF gate = "PASS" THEN "SENSITIVITY" ELSE "VALIDATE")
         /\ n.status = GateStatus(gate)
         /\ n.sensitivity_results = Append(s.sensitivity_results, id)
         /\ n.mathematical_model = s.mathematical_model
         /\ n.result_records = s.result_records
         /\ n.validation_results = s.validation_results
         /\ n.robustness_results = s.robustness_results
         /\ n.red_team_reports = s.red_team_reports
         /\ n.revisions = s.revisions
         /\ n.verified_items = s.verified_items
         /\ n.verified_gates = s.verified_gates
         /\ n.verified_result_id = s.verified_result_id
BY DEF SensitivityState, ReportState, ProblemState

LEMMA RobustnessStateFields ==
  ASSUME NEW s \in ProblemState, NEW id, NEW gate
  PROVE  LET n == RobustnessState(s, id, gate) IN
         /\ n.version = s.version + 1
         /\ n.current_stage = (IF gate = "PASS" THEN "ROBUSTNESS" ELSE "SENSITIVITY")
         /\ n.status = GateStatus(gate)
         /\ n.robustness_results = Append(s.robustness_results, id)
         /\ n.mathematical_model = s.mathematical_model
         /\ n.result_records = s.result_records
         /\ n.validation_results = s.validation_results
         /\ n.sensitivity_results = s.sensitivity_results
         /\ n.red_team_reports = s.red_team_reports
         /\ n.revisions = s.revisions
         /\ n.verified_items = s.verified_items
         /\ n.verified_gates = s.verified_gates
         /\ n.verified_result_id = s.verified_result_id
BY DEF RobustnessState, ReportState, ProblemState

LEMMA RedTeamStateFields ==
  ASSUME NEW s \in ProblemState, NEW id, NEW result,
         NEW red_team_gate, NEW verified_gate
  PROVE  LET n == RedTeamState(s, id, result, red_team_gate, verified_gate) IN
         /\ n.version = s.version + 1
         /\ n.current_stage = "RED_TEAM"
         /\ n.status = GateStatus(verified_gate)
         /\ n.red_team_reports = Append(s.red_team_reports, id)
         /\ n.mathematical_model = s.mathematical_model
         /\ n.result_records = s.result_records
         /\ n.validation_results = s.validation_results
         /\ n.sensitivity_results = s.sensitivity_results
         /\ n.robustness_results = s.robustness_results
         /\ n.revisions = s.revisions
BY DEF RedTeamState, ReportState, ProblemState

\* Both gates passing marks exactly the reviewed result; anything else none.
LEMMA RedTeamStateVerified ==
  ASSUME NEW s \in ProblemState, NEW id, NEW result,
         NEW red_team_gate, NEW verified_gate
  PROVE  LET n == RedTeamState(s, id, result, red_team_gate, verified_gate) IN
         IF red_team_gate = "PASS" /\ verified_gate = "PASS"
         THEN /\ n.verified_result_id = result
              /\ n.verified_items = {result}
              /\ n.verified_gates = s.verified_gates \cup {result}
         ELSE /\ n.verified_result_id = 0
              /\ n.verified_items = {}
BY DEF RedTeamState, ReportState, ProblemState

LEMMA RepairStateFields ==
  ASSUME NEW s \in ProblemState, NEW id, NEW target, NEW status
  PROVE  LET n == RepairState(s, id, target, status) IN
         /\ n.version = s.version + 1
         /\ n.current_stage = (IF target # 0 THEN "MODEL_REPAIR" ELSE "RED_TEAM")
         /\ n.status = (IF target # 0 THEN "SUCCEEDED" ELSE IF status = "HUMAN_REVIEW" THEN "HUMAN_REVIEW" ELSE "RETRY")
         /\ n.mathematical_model = (IF target # 0 THEN target ELSE s.mathematical_model)
         /\ n.revisions = Append(s.revisions, id)
         /\ n.verified_result_id = 0
         /\ n.result_records = s.result_records
         /\ n.validation_results = s.validation_results
         /\ n.sensitivity_results = s.sensitivity_results
         /\ n.robustness_results = s.robustness_results
         /\ n.red_team_reports = s.red_team_reports
         /\ n.verified_items = s.verified_items
         /\ n.verified_gates = s.verified_gates
BY DEF RepairState, ProblemState

LEMMA RepairLimitStateFields ==
  ASSUME NEW s \in ProblemState
  PROVE  LET n == RepairLimitState(s) IN
         /\ n.version = s.version + 1
         /\ n.status = "HUMAN_REVIEW"
         /\ n.verified_result_id = 0
         /\ n.current_stage = s.current_stage
         /\ n.mathematical_model = s.mathematical_model
         /\ n.result_records = s.result_records
         /\ n.validation_results = s.validation_results
         /\ n.sensitivity_results = s.sensitivity_results
         /\ n.robustness_results = s.robustness_results
         /\ n.red_team_reports = s.red_team_reports
         /\ n.revisions = s.revisions
         /\ n.verified_items = s.verified_items
         /\ n.verified_gates = s.verified_gates
BY DEF RepairLimitState, ProblemState

-----------------------------------------------------------------------------
(* Where a stage can be entered from.                                        *)

LEMMA Enters ==
  ASSUME NEW stage \in WorkflowStage
  PROVE  /\ CanEnter(stage, "UNDERSTAND") => stage = "INGEST"
         /\ CanEnter(stage, "EXPLORE") => stage = "UNDERSTAND"
         /\ CanEnter(stage, "SELECT") => stage = "EXPLORE"
         /\ CanEnter(stage, "MODEL") => stage = "SELECT"
         /\ CanEnter(stage, "SOLVE") => stage \in {"MODEL", "MODEL_REPAIR"}
         /\ CanEnter(stage, "VALIDATE") => stage = "SOLVE"
         /\ CanEnter(stage, "SENSITIVITY") => stage = "VALIDATE"
         /\ CanEnter(stage, "ROBUSTNESS") => stage = "SENSITIVITY"
         /\ CanEnter(stage, "RED_TEAM") => stage = "ROBUSTNESS"
         /\ CanEnter(stage, "MODEL_REPAIR") => stage = "RED_TEAM"
BY DEF CanEnter, WorkflowTransitions, WorkflowStage

-----------------------------------------------------------------------------
(* The steps of Verification.                                                *)

USE DEF Adds, Latest

\* The next model version is a version.
LEMMA NextModelVersionType ==
  ASSUME models \in Seq(ModelRow)
  PROVE  NextModelVersion \in Nat
<1>1. CASE models = <<>>
  BY <1>1 DEF NextModelVersion
<1>2. CASE models # <<>>
  <2>1. models[Len(models)] \in ModelRow
    BY <1>2
  <2> QED
    BY <1>2, <2>1 DEF NextModelVersion, ModelRow
<1> QED
  BY <1>1, <1>2

\* The last row of a registry that has one is a row of its type.
LEMMA LatestRow ==
  ASSUME NEW Row, NEW rows \in Seq(Row), rows # <<>>
  PROVE  /\ Len(rows) \in DOMAIN rows /\ Len(rows) \in Nat /\ Len(rows) # 0
         /\ rows[Len(rows)] \in Row
OBVIOUS

LEMMA InitTypeOK == Init => TypeOK
<1> SUFFICES ASSUME Init PROVE TypeOK
  OBVIOUS
<1>1. PICK stage \in InitialStages : proj = ProjectAt(stage)
  BY DEF Init
<1>2. proj \in ProblemState
  BY <1>1, InitialStagesAssumption, ProjectAtType
<1> QED
  BY <1>2 DEF Init, TypeOK

\* Every verdict a gate can give is a gate value.
LEMMA VerdictTypes ==
  /\ \A result : ValidationVerdict(result) \subseteq Gate
  /\ \A v : SensitivityVerdict(v) \subseteq Gate
  /\ \A v, s : RobustnessVerdict(v, s) \subseteq Gate
  /\ \A report : RedTeamGate(report) \in Gate
  /\ \A val, sens, rob, v, s, r, report, integral :
       VerifiedGate(val, sens, rob, v, s, r, report, integral) \in Gate
BY DEF Gate, ValidationVerdict, SensitivityVerdict, RobustnessVerdict,
       RedTeamGate, VerifiedGate

LEMMA NextTypeOK == TypeOK /\ [Next]_vars => TypeOK'
<1> SUFFICES ASSUME TypeOK, [Next]_vars PROVE TypeOK'
  OBVIOUS
<1> USE DEF TypeOK
<1>1. CASE Reason
  <2>1. PICK stage \in {"UNDERSTAND", "EXPLORE", "SELECT"} : PersistReasoning(proj, stage)
    BY <1>1 DEF Reason
  <2> QED
    BY <2>1, ReasoningStateType
       DEF PersistReasoning, AppendRevision, registries, reports
<1>2. CASE ReviseData
  BY <1>2, DataStateType
     DEF ReviseData, PersistData, AppendRevision, registries, reports
<1>3. CASE BuildModel \/ BindReviewedModel
  <2>1. PICK version \in Nat : PersistModel(proj, version)
    BY <1>3, NextModelVersionType, ReviewedVersionsAssumption
       DEF BuildModel, BindReviewedModel
  <2>2. [version |-> version, source |-> 0] \in ModelRow
    BY DEF ModelRow
  <2> QED
    BY <2>1, <2>2, ModelStateType DEF PersistModel, AppendRevision, reports
<1>4. CASE Solve
  <2>1. PICK gate \in {"PASS", "RETRY"}, credible \in BOOLEAN :
          PersistSolve(proj, gate, credible)
    BY <1>4 DEF Solve
  <2>2. gate \in Gate
    BY DEF Gate
  <2>3. [model |-> proj.mathematical_model, gate |-> gate, credible |-> credible]
          \in ResultRow
    BY <2>2, Fields DEF ResultRow
  <2>4. Len(results) + 1 \in Nat
    OBVIOUS
  <2>5. proj' \in ProblemState
    BY <2>1, <2>2, <2>4, SolveStateType DEF PersistSolve, AppendRevision
  <2> QED
    BY <2>1, <2>3, <2>5 DEF PersistSolve, reports
<1>5. CASE Validate
  <2>1. PICK result \in DOMAIN results, gate \in Gate :
          PersistValidation(proj, result, gate)
    BY <1>5, VerdictTypes DEF Validate, InContext
  <2>2. [model |-> proj.mathematical_model, result |-> result, gate |-> gate]
          \in ValidationRow
    BY Fields DEF ValidationRow
  <2>3. proj' \in ProblemState
    BY <2>1, ValidationStateType DEF PersistValidation, AppendRevision
  <2> QED
    BY <2>1, <2>2, <2>3 DEF PersistValidation
<1>6. CASE Sensitivity
  <2> DEFINE val == Len(validation_runs)
  <2>1. PICK gate \in Gate : PersistSensitivity(proj, val, gate)
    BY <1>6, VerdictTypes DEF Sensitivity
  <2>2. validation_runs # <<>> /\ validation_runs[val] \in ValidationRow /\ val \in Nat
    BY <1>6, LatestRow DEF Sensitivity
  <2>3. [model |-> proj.mathematical_model, result |-> validation_runs[val].result,
         validation |-> val, gate |-> gate] \in SensitivityRow
    BY <2>2, Fields DEF SensitivityRow, ValidationRow
  <2>4. proj' \in ProblemState
    BY <2>1, SensitivityStateType DEF PersistSensitivity, AppendRevision
  <2> QED
    BY <2>1, <2>3, <2>4 DEF PersistSensitivity
<1>7. CASE Robustness
  <2> DEFINE val  == Len(validation_runs)
             sens == Len(sensitivity_runs)
  <2>1. PICK gate \in Gate : PersistRobustness(proj, val, sens, gate)
    BY <1>7, VerdictTypes DEF Robustness
  <2>2. validation_runs[val] \in ValidationRow /\ val \in Nat /\ sens \in Nat
    BY <1>7, LatestRow DEF Robustness
  <2>3. [model |-> proj.mathematical_model, result |-> validation_runs[val].result,
         validation |-> val, sensitivity |-> sens, gate |-> gate] \in RobustnessRow
    BY <2>2, Fields DEF RobustnessRow, ValidationRow
  <2>4. proj' \in ProblemState
    BY <2>1, RobustnessStateType DEF PersistRobustness, AppendRevision
  <2> QED
    BY <2>1, <2>3, <2>4 DEF PersistRobustness
<1>8. CASE RedTeam
  <2> DEFINE val  == Len(validation_runs)
             sens == Len(sensitivity_runs)
             rob  == Len(robustness_runs)
  <2>1. PICK finds_critical, mock, integral \in BOOLEAN :
          PersistRedTeam(proj, val, sens, rob, finds_critical, mock, integral)
    BY <1>8 DEF RedTeam
  <2>2. /\ validation_runs[val] \in ValidationRow
        /\ val \in Nat /\ sens \in Nat /\ rob \in Nat
    BY <1>8, LatestRow DEF RedTeam
  <2> DEFINE critical == finds_critical \/ validation_runs[val].gate # "PASS"
             report   == RedTeamReport(proj, val, sens, rob, critical, mock)
  <2>3. report \in RedTeamRow /\ report.result \in Nat
    BY <2>2, Fields DEF RedTeamRow, RedTeamReport, ValidationRow
  <2> DEFINE verified == VerifiedGate(val, sens, rob, validation_runs[val],
                                      sensitivity_runs[sens], robustness_runs[rob],
                                      report, integral)
  <2>4. proj' = RedTeamState(proj, Len(red_team_runs) + 1, report.result,
                             RedTeamGate(report), verified)
    BY <2>1 DEF PersistRedTeam, AppendRevision
  <2>5. /\ RedTeamGate(report) \in Gate /\ verified \in Gate
        /\ Len(red_team_runs) + 1 \in Nat
    BY VerdictTypes
  <2>6. proj' \in ProblemState
    <3> HIDE DEF report, verified
    <3> QED
      BY <2>3, <2>4, <2>5, RedTeamStateType
  <2> QED
    BY <2>1, <2>3, <2>6 DEF PersistRedTeam
<1>9. CASE Repair
  <2> DEFINE report == Len(red_team_runs)
  <2>1. PICK status \in RepairStatus :
          PersistRepair(proj, report, RepairCycleCount + 1, status)
    BY <1>9 DEF Repair
  <2> DEFINE target == IF status = "ACCEPTED" THEN proj.mathematical_model + 1 ELSE 0
  <2>2. target \in Nat /\ proj.mathematical_model \in Nat
    BY Fields
  <2>3. [version |-> target, source |-> proj.mathematical_model] \in ModelRow
    BY <2>2 DEF ModelRow
  <2>4. [cycle |-> RepairCycleCount + 1, source |-> proj.mathematical_model,
         target |-> target, report |-> report, status |-> status] \in RepairRow
    <3>1. RepairCycleCount + 1 \in Nat /\ report \in Nat
      BY DEF RepairCycleCount
    <3> QED
      BY <2>2, <3>1 DEF RepairRow
  <2>5. proj' = RepairState(proj, Len(repair_cycles) + 1, target, status)
    BY <2>1 DEF PersistRepair, AppendRevision
  <2>6. proj' \in ProblemState
    <3>1. Len(repair_cycles) + 1 \in Nat
      OBVIOUS
    <3> QED
      BY <2>2, <2>5, <3>1, RepairStateType
  <2> QED
    BY <2>1, <2>3, <2>4, <2>6 DEF PersistRepair, reports
<1>10. CASE MarkRepairLimit
  BY <1>10, RepairLimitStateType
     DEF MarkRepairLimit, PersistRepairLimit, AppendRevision, registries, reports
<1>11. CASE UNCHANGED vars
  BY <1>11 DEF vars, registries, reports
<1> QED
  BY <1>1, <1>2, <1>3, <1>4, <1>5, <1>6, <1>7, <1>8, <1>9, <1>10, <1>11 DEF Next

\* The revision and the rows the workflows persist always have their types,
\* whatever an operation was derived from and however long the project runs.
THEOREM TypeCorrectness == Spec => []TypeOK
BY InitTypeOK, NextTypeOK, PTL DEF Spec

-----------------------------------------------------------------------------
(* Prerequisites.  Each readiness predicate is kept by a step that keeps the *)
(* model and the runs it speaks of; results only ever grow.                  *)

\* An appended row is the last one, and the rows before it stay.
LEMMA AppendedRow ==
  ASSUME NEW Row, NEW rows \in Seq(Row), NEW row
  PROVE  /\ Len(Append(rows, row)) = Len(rows) + 1
         /\ Append(rows, row) # <<>>
         /\ Append(rows, row)[Len(rows) + 1] = row
         /\ \A i \in DOMAIN rows : /\ i \in DOMAIN Append(rows, row)
                                   /\ i # Len(rows) + 1
                                   /\ Append(rows, row)[i] = rows[i]
         /\ DOMAIN Append(rows, row) = DOMAIN rows \cup {Len(rows) + 1}
<1>1. rows \in Seq(Row \cup {row}) /\ row \in Row \cup {row}
  OBVIOUS
<1> QED
  BY <1>1

LEMMA LastRow ==
  ASSUME NEW Row, NEW rows \in Seq(Row), NEW row, NEW new, new = Append(rows, row)
  PROVE  new # <<>> /\ Len(new) = Len(rows) + 1 /\ new[Len(new)] = row
BY AppendedRow

LEMMA ValidationStaysReady ==
  ASSUME TypeOK, ValidationReady, UNCHANGED <<validation_runs, results>>,
         proj'.mathematical_model = proj.mathematical_model
  PROVE  ValidationReady'
BY DEF ValidationReady, InContext

LEMMA SensitivityStaysReady ==
  ASSUME TypeOK, SensitivityReady,
         UNCHANGED <<validation_runs, sensitivity_runs, results>>,
         proj'.mathematical_model = proj.mathematical_model
  PROVE  SensitivityReady'
BY ValidationStaysReady DEF SensitivityReady

LEMMA RobustnessStaysReady ==
  ASSUME TypeOK, RobustnessReady,
         UNCHANGED <<validation_runs, sensitivity_runs, robustness_runs, results>>,
         proj'.mathematical_model = proj.mathematical_model
  PROVE  RobustnessReady'
BY SensitivityStaysReady DEF RobustnessReady

LEMMA ReviewStaysReady ==
  ASSUME TypeOK, ReviewReady, UNCHANGED <<reports, results>>,
         proj'.mathematical_model = proj.mathematical_model
  PROVE  ReviewReady'
BY RobustnessStaysReady DEF ReviewReady, reports

LEMMA InitReady == Init => PrerequisitesReady
BY InitialStagesAssumption DEF Init, PrerequisitesReady, ProjectAt

LEMMA NextReady ==
  TypeOK /\ PrerequisitesReady /\ [Next]_vars => PrerequisitesReady'
<1> SUFFICES ASSUME TypeOK, PrerequisitesReady, [Next]_vars PROVE PrerequisitesReady'
  OBVIOUS
<1>0. proj \in ProblemState /\ proj.current_stage \in WorkflowStage
  BY Fields DEF TypeOK
\* A step that changes neither the stage nor the model nor any run.
<1>S. ASSUME proj'.current_stage = proj.current_stage,
             proj'.mathematical_model = proj.mathematical_model,
             UNCHANGED <<reports, results>>
      PROVE  PrerequisitesReady'
  BY <1>S, ValidationStaysReady, SensitivityStaysReady, RobustnessStaysReady,
     ReviewStaysReady DEF PrerequisitesReady, reports
<1>1. CASE Reason
  <2>1. PICK stage \in {"UNDERSTAND", "EXPLORE", "SELECT"} : PersistReasoning(proj, stage)
    BY <1>1 DEF Reason
  <2>2. proj'.current_stage = stage
    BY <1>0, <2>1, ReasoningStateFields DEF PersistReasoning, AppendRevision
  <2> QED
    BY <2>2 DEF PrerequisitesReady
<1>2. CASE ReviseData
  <2>1. /\ proj'.current_stage = proj.current_stage
        /\ proj'.mathematical_model = proj.mathematical_model
    BY <1>0, <1>2, DataStateFields DEF ReviseData, PersistData, AppendRevision
  <2> QED
    BY <1>2, <1>S, <2>1 DEF ReviseData, PersistData, registries
<1>3. CASE BuildModel \/ BindReviewedModel
  <2>1. PICK version : PersistModel(proj, version)
    BY <1>3 DEF BuildModel, BindReviewedModel
  <2>2. proj'.current_stage = "MODEL"
    BY <1>0, <2>1, ModelStateFields DEF PersistModel, AppendRevision
  <2> QED
    BY <2>2 DEF PrerequisitesReady
<1>4. CASE Solve
  <2>1. proj'.current_stage \in {"SOLVE", "MODEL", "MODEL_REPAIR"}
    BY <1>0, <1>4, Enters, SolveStateFields DEF Solve, PersistSolve, AppendRevision
  <2> QED
    BY <2>1 DEF PrerequisitesReady
<1>5. CASE Validate
  <2>1. PICK result \in RegisteredResults(proj), gate \in Gate :
          /\ InContext(proj, result)
          /\ gate \in ValidationVerdict(results[result])
          /\ PersistValidation(proj, result, gate)
    BY <1>5, VerdictTypes DEF Validate
  <2>2. /\ proj'.current_stage = IF gate = "PASS" THEN "VALIDATE" ELSE "SOLVE"
        /\ proj'.mathematical_model = proj.mathematical_model
    BY <1>0, <2>1, ValidationStateFields DEF PersistValidation, AppendRevision
  <2>3. CASE gate # "PASS"
    BY <2>2, <2>3 DEF PrerequisitesReady
  <2>4. CASE gate = "PASS"
    <3>1. /\ validation_runs' # <<>>
          /\ validation_runs'[Len(validation_runs')] =
               [model |-> proj.mathematical_model, result |-> result, gate |-> gate]
      <4>1. validation_runs' = Append(validation_runs,
              [model |-> proj.mathematical_model, result |-> result, gate |-> gate])
        BY <2>1 DEF PersistValidation
      <4>2. validation_runs \in Seq(ValidationRow)
        BY DEF TypeOK
      <4> QED
        BY <4>1, <4>2, LastRow
    <3>2. results' = results /\ results[result].credible
      BY <2>1, <2>4 DEF PersistValidation, ValidationVerdict
    <3>3. InContext(proj, result)'
      BY <2>1, <2>2, <3>2 DEF InContext
    <3>4. ValidationReady'
      BY <2>2, <2>4, <3>1, <3>2, <3>3 DEF ValidationReady
    <3> QED
      BY <2>2, <2>4, <3>4 DEF PrerequisitesReady
  <2> QED
    BY <2>3, <2>4
<1>6. CASE Sensitivity
  <2> DEFINE val == Len(validation_runs)
  <2>1. PICK gate \in SensitivityVerdict(validation_runs[val]) :
          PersistSensitivity(proj, val, gate)
    BY <1>6 DEF Sensitivity
  <2>2. ValidationReady
    BY <1>0, <1>6, Enters DEF Sensitivity, PrerequisitesReady
  <2>3. /\ proj'.current_stage = IF gate = "PASS" THEN "SENSITIVITY" ELSE "VALIDATE"
        /\ proj'.mathematical_model = proj.mathematical_model
    BY <1>0, <2>1, SensitivityStateFields DEF PersistSensitivity, AppendRevision
  <2>4. UNCHANGED <<validation_runs, results>>
    BY <2>1 DEF PersistSensitivity
  <2>5. ValidationReady'
    BY <2>2, <2>3, <2>4, ValidationStaysReady
  <2>6. CASE gate # "PASS"
    BY <2>3, <2>5, <2>6 DEF PrerequisitesReady
  <2>7. CASE gate = "PASS"
    <3>1. /\ sensitivity_runs' # <<>>
          /\ sensitivity_runs'[Len(sensitivity_runs')] =
               [model |-> proj.mathematical_model, result |-> validation_runs[val].result,
                validation |-> val, gate |-> gate]
      <4>1. sensitivity_runs' = Append(sensitivity_runs,
              [model |-> proj.mathematical_model, result |-> validation_runs[val].result, validation |-> val, gate |-> gate])
        BY <2>1 DEF PersistSensitivity
      <4>2. sensitivity_runs \in Seq(SensitivityRow)
        BY DEF TypeOK
      <4> QED
        BY <4>1, <4>2, LastRow
    <3>2. validation_runs[val].model = proj.mathematical_model
      BY <2>2 DEF ValidationReady
    <3>3. SensitivityReady'
      BY <2>4, <2>5, <2>7, <3>1, <3>2 DEF SensitivityReady
    <3> QED
      BY <2>3, <2>7, <3>3 DEF PrerequisitesReady
  <2> QED
    BY <2>6, <2>7
<1>7. CASE Robustness
  <2> DEFINE val  == Len(validation_runs)
             sens == Len(sensitivity_runs)
  <2>1. PICK gate \in RobustnessVerdict(validation_runs[val], sensitivity_runs[sens]) :
          PersistRobustness(proj, val, sens, gate)
    BY <1>7 DEF Robustness
  <2>2. SensitivityReady
    BY <1>0, <1>7, Enters DEF Robustness, PrerequisitesReady
  <2>3. /\ proj'.current_stage = IF gate = "PASS" THEN "ROBUSTNESS" ELSE "SENSITIVITY"
        /\ proj'.mathematical_model = proj.mathematical_model
    BY <1>0, <2>1, RobustnessStateFields DEF PersistRobustness, AppendRevision
  <2>4. UNCHANGED <<validation_runs, sensitivity_runs, results>>
    BY <2>1 DEF PersistRobustness
  <2>5. SensitivityReady'
    BY <2>2, <2>3, <2>4, SensitivityStaysReady
  <2>6. CASE gate # "PASS"
    BY <2>3, <2>5, <2>6 DEF PrerequisitesReady
  <2>7. CASE gate = "PASS"
    <3>1. /\ robustness_runs' # <<>>
          /\ robustness_runs'[Len(robustness_runs')] =
               [model |-> proj.mathematical_model, result |-> validation_runs[val].result,
                validation |-> val, sensitivity |-> sens, gate |-> gate]
      <4>1. robustness_runs' = Append(robustness_runs,
              [model |-> proj.mathematical_model, result |-> validation_runs[val].result, validation |-> val, sensitivity |-> sens, gate |-> gate])
        BY <2>1 DEF PersistRobustness
      <4>2. robustness_runs \in Seq(RobustnessRow)
        BY DEF TypeOK
      <4> QED
        BY <4>1, <4>2, LastRow
    <3>2. /\ sensitivity_runs[sens].validation = val
          /\ sensitivity_runs[sens].model = proj.mathematical_model
          /\ sensitivity_runs[sens].result = validation_runs[val].result
      BY <2>2 DEF SensitivityReady, ValidationReady
    <3>3. RobustnessReady'
      BY <2>4, <2>5, <2>7, <3>1, <3>2 DEF RobustnessReady
    <3> QED
      BY <2>3, <2>7, <3>3 DEF PrerequisitesReady
  <2> QED
    BY <2>6, <2>7
<1>8. CASE RedTeam
  <2> DEFINE val  == Len(validation_runs)
             sens == Len(sensitivity_runs)
             rob  == Len(robustness_runs)
  <2>1. PICK finds_critical, mock, integral \in BOOLEAN :
          PersistRedTeam(proj, val, sens, rob, finds_critical, mock, integral)
    BY <1>8 DEF RedTeam
  <2> DEFINE critical == finds_critical \/ validation_runs[val].gate # "PASS"
  <2>2. RobustnessReady
    BY <1>0, <1>8, Enters DEF RedTeam, PrerequisitesReady
  <2>3. /\ proj'.current_stage = "RED_TEAM"
        /\ proj'.mathematical_model = proj.mathematical_model
    <3> DEFINE report == RedTeamReport(proj, val, sens, rob, critical, mock)
               gate == RedTeamGate(report)
               verified == VerifiedGate(val, sens, rob, validation_runs[val],
                                        sensitivity_runs[sens], robustness_runs[rob],
                                        report, integral)
               id == Len(red_team_runs) + 1
               result == report.result
    <3>1. proj' = RedTeamState(proj, id, result, gate, verified)
      BY <2>1 DEF PersistRedTeam, AppendRevision
    <3> HIDE DEF id, result, gate, verified
    <3>2. /\ RedTeamState(proj, id, result, gate, verified).current_stage = "RED_TEAM"
          /\ RedTeamState(proj, id, result, gate, verified).mathematical_model =
               proj.mathematical_model
      BY <1>0, RedTeamStateFields
    <3> QED
      BY <3>1, <3>2
  <2>4. UNCHANGED <<validation_runs, sensitivity_runs, robustness_runs, results>>
    BY <2>1 DEF PersistRedTeam
  <2>5. RobustnessReady'
    BY <2>2, <2>3, <2>4, RobustnessStaysReady
  <2>6. /\ red_team_runs' # <<>>
        /\ red_team_runs'[Len(red_team_runs')] =
             RedTeamReport(proj, val, sens, rob, critical, mock)
    <3>1. red_team_runs' =
            Append(red_team_runs, RedTeamReport(proj, val, sens, rob, critical, mock))
      BY <2>1 DEF PersistRedTeam
    <3>2. red_team_runs \in Seq(RedTeamRow)
      BY DEF TypeOK
    <3> QED
      BY <3>1, <3>2, LastRow
  <2>7. /\ robustness_runs[rob].validation = val
        /\ robustness_runs[rob].sensitivity = sens
        /\ robustness_runs[rob].model = proj.mathematical_model
        /\ robustness_runs[rob].result = validation_runs[val].result
    BY <2>2 DEF RobustnessReady, SensitivityReady, ValidationReady
  <2>8. ReviewReady'
    BY <2>4, <2>5, <2>6, <2>7 DEF ReviewReady, RedTeamReport
  <2> QED
    BY <2>3, <2>8 DEF PrerequisitesReady
<1>9. CASE Repair
  <2> DEFINE report == Len(red_team_runs)
  <2>1. PICK status \in RepairStatus :
          PersistRepair(proj, report, RepairCycleCount + 1, status)
    BY <1>9 DEF Repair
  <2> DEFINE target == IF status = "ACCEPTED" THEN proj.mathematical_model + 1 ELSE 0
  <2>2. proj.current_stage = "RED_TEAM"
    BY <1>0, <1>9, Enters DEF Repair
  <2>3. /\ proj' = RepairState(proj, Len(repair_cycles) + 1, target, status)
        /\ UNCHANGED <<results, reports>>
    BY <2>1 DEF PersistRepair, AppendRevision
  <2>4. CASE target # 0
    <3>1. proj'.current_stage = "MODEL_REPAIR"
      BY <1>0, <2>3, <2>4, RepairStateFields
    <3> QED
      BY <3>1 DEF PrerequisitesReady
  <2>5. CASE target = 0
    <3>1. /\ proj'.current_stage = proj.current_stage
          /\ proj'.mathematical_model = proj.mathematical_model
      BY <1>0, <2>2, <2>3, <2>5, RepairStateFields
    <3> QED
      BY <1>S, <2>3, <3>1
  <2> QED
    BY <2>4, <2>5
<1>10. CASE MarkRepairLimit
  <2>1. /\ proj'.current_stage = proj.current_stage
        /\ proj'.mathematical_model = proj.mathematical_model
    BY <1>0, <1>10, RepairLimitStateFields
       DEF MarkRepairLimit, PersistRepairLimit, AppendRevision
  <2> QED
    BY <1>10, <1>S, <2>1 DEF MarkRepairLimit, PersistRepairLimit, registries
<1>11. CASE UNCHANGED vars
  BY <1>11, <1>S DEF vars, registries
<1> QED
  BY <1>1, <1>2, <1>3, <1>4, <1>5, <1>6, <1>7, <1>8, <1>9, <1>10, <1>11 DEF Next

\* A stage is only ever held on the strength of a passing report of the current
\* model that names the passing report before it, whatever was tried, failed or
\* repaired in between.
THEOREM PrerequisitesCorrectness == Spec => []PrerequisitesReady
BY TypeCorrectness, InitReady, NextReady, PTL DEF Spec

-----------------------------------------------------------------------------
(* What an operation does, as an equation on the current revision.           *)

LEMMA ReasonStep ==
  ASSUME Reason
  PROVE  /\ \E stage \in {"UNDERSTAND", "EXPLORE", "SELECT"} :
              /\ CanEnter(proj.current_stage, stage)
              /\ proj' = ReasoningState(proj, stage)
         /\ UNCHANGED registries
BY DEF Reason, PersistReasoning, AppendRevision

LEMMA DataStep ==
  ASSUME ReviseData
  PROVE  proj' = DataState(proj) /\ UNCHANGED registries
BY DEF ReviseData, PersistData, AppendRevision

LEMMA ModelStep ==
  ASSUME BuildModel \/ BindReviewedModel
  PROVE  /\ CanEnter(proj.current_stage, "MODEL")
         /\ \E version : proj' = ModelState(proj, version)
         /\ UNCHANGED <<results, reports, repair_cycles>>
BY DEF BuildModel, BindReviewedModel, PersistModel, AppendRevision

LEMMA SolveStep ==
  ASSUME Solve
  PROVE  /\ CanEnter(proj.current_stage, "SOLVE")
         /\ \E gate \in Gate :
              proj' = SolveState(proj, Len(results) + 1, gate)
         /\ \E row : results' = Append(results, row)
         /\ UNCHANGED <<models, reports, repair_cycles>>
<1>1. PICK gate \in {"PASS", "RETRY"}, credible \in BOOLEAN :
        PersistSolve(proj, gate, credible)
  BY DEF Solve
<1>2. gate \in Gate
  BY DEF Gate
<1> QED
  BY <1>1, <1>2 DEF Solve, PersistSolve, AppendRevision

LEMMA ValidateStep ==
  ASSUME Validate
  PROVE  /\ CanEnter(proj.current_stage, "VALIDATE")
         /\ \E gate \in Gate :
              proj' = ValidationState(proj, Len(validation_runs) + 1, gate)
         /\ \E row : validation_runs' = Append(validation_runs, row)
         /\ UNCHANGED <<models, results, sensitivity_runs, robustness_runs,
                        red_team_runs, repair_cycles>>
<1>1. PICK result \in RegisteredResults(proj), gate \in Gate :
        PersistValidation(proj, result, gate)
  BY VerdictTypes DEF Validate
<1> QED
  BY <1>1 DEF Validate, PersistValidation, AppendRevision

LEMMA SensitivityStep ==
  ASSUME Sensitivity
  PROVE  /\ CanEnter(proj.current_stage, "SENSITIVITY")
         /\ \E gate \in Gate :
              proj' = SensitivityState(proj, Len(sensitivity_runs) + 1, gate)
         /\ \E row : sensitivity_runs' = Append(sensitivity_runs, row)
         /\ UNCHANGED <<models, results, validation_runs, robustness_runs,
                        red_team_runs, repair_cycles>>
<1>1. PICK gate \in Gate : PersistSensitivity(proj, Len(validation_runs), gate)
  BY VerdictTypes DEF Sensitivity
<1> QED
  BY <1>1 DEF Sensitivity, PersistSensitivity, AppendRevision

LEMMA RobustnessStep ==
  ASSUME Robustness
  PROVE  /\ CanEnter(proj.current_stage, "ROBUSTNESS")
         /\ \E gate \in Gate :
              proj' = RobustnessState(proj, Len(robustness_runs) + 1, gate)
         /\ \E row : robustness_runs' = Append(robustness_runs, row)
         /\ UNCHANGED <<models, results, validation_runs, sensitivity_runs,
                        red_team_runs, repair_cycles>>
<1>1. PICK gate \in Gate :
        PersistRobustness(proj, Len(validation_runs), Len(sensitivity_runs), gate)
  BY VerdictTypes DEF Robustness
<1> QED
  BY <1>1 DEF Robustness, PersistRobustness, AppendRevision

LEMMA RedTeamStep ==
  ASSUME RedTeam
  PROVE  /\ CanEnter(proj.current_stage, "RED_TEAM")
         /\ \E critical, mock \in BOOLEAN, verified \in Gate :
              LET report == RedTeamReport(proj, Len(validation_runs),
                                          Len(sensitivity_runs),
                                          Len(robustness_runs), critical, mock)
              IN /\ proj' = RedTeamState(proj, Len(red_team_runs) + 1, report.result,
                                         RedTeamGate(report), verified)
                 /\ red_team_runs' = Append(red_team_runs, report)
         /\ UNCHANGED <<models, results, validation_runs, sensitivity_runs,
                        robustness_runs, repair_cycles>>
<1> DEFINE val  == Len(validation_runs)
           sens == Len(sensitivity_runs)
           rob  == Len(robustness_runs)
<1>1. PICK finds_critical, mock, integral \in BOOLEAN :
        PersistRedTeam(proj, val, sens, rob, finds_critical, mock, integral)
  BY DEF RedTeam
<1> DEFINE critical == finds_critical \/ validation_runs[val].gate # "PASS"
           report   == RedTeamReport(proj, val, sens, rob, critical, mock)
           verified == VerifiedGate(val, sens, rob, validation_runs[val],
                                    sensitivity_runs[sens], robustness_runs[rob],
                                    report, integral)
<1>2. /\ proj' = RedTeamState(proj, Len(red_team_runs) + 1, report.result,
                              RedTeamGate(report), verified)
      /\ red_team_runs' = Append(red_team_runs, report)
      /\ UNCHANGED <<models, results, validation_runs, sensitivity_runs,
                     robustness_runs, repair_cycles>>
  BY <1>1 DEF PersistRedTeam, AppendRevision
<1>3. critical \in BOOLEAN /\ verified \in Gate /\ CanEnter(proj.current_stage, "RED_TEAM")
  BY VerdictTypes DEF RedTeam
<1> HIDE DEF critical, verified
<1> QED
  BY <1>2, <1>3

LEMMA RepairStep ==
  ASSUME Repair
  PROVE  /\ CanEnter(proj.current_stage, "MODEL_REPAIR")
         /\ red_team_runs # <<>> /\ red_team_runs[Len(red_team_runs)].critical
         /\ Len(repair_cycles) < MaxRepairCycles
         /\ \E status \in RepairStatus :
              LET target == IF status = "ACCEPTED" THEN proj.mathematical_model + 1 ELSE 0
              IN /\ proj' = RepairState(proj, Len(repair_cycles) + 1, target, status)
                 /\ repair_cycles' = Append(repair_cycles,
                      [cycle  |-> Len(repair_cycles) + 1,
                       source |-> proj.mathematical_model,
                       target |-> target,
                       report |-> Len(red_team_runs),
                       status |-> status])
         /\ UNCHANGED <<results, reports>>
<1>1. PICK status \in RepairStatus :
        PersistRepair(proj, Len(red_team_runs), Len(repair_cycles) + 1, status)
  BY DEF Repair, RepairCycleCount
<1>2. /\ CanEnter(proj.current_stage, "MODEL_REPAIR")
      /\ red_team_runs # <<>> /\ red_team_runs[Len(red_team_runs)].critical
      /\ Len(repair_cycles) < MaxRepairCycles
  BY DEF Repair, RepairCycleCount
<1> QED
  BY <1>1, <1>2 DEF PersistRepair, AppendRevision

LEMMA RepairLimitStep ==
  ASSUME MarkRepairLimit
  PROVE  proj' = RepairLimitState(proj) /\ UNCHANGED registries
BY DEF MarkRepairLimit, PersistRepairLimit, AppendRevision

LEMMA Stages ==
  ASSUME TypeOK
  PROVE  proj \in ProblemState /\ proj.current_stage \in WorkflowStage
BY Fields DEF TypeOK

-----------------------------------------------------------------------------
(* The stage follows the table.                                              *)

LEMMA NextFollowsTable ==
  TypeOK /\ [Next]_vars =>
    (proj'.current_stage # proj.current_stage =>
       CanEnter(proj.current_stage, proj'.current_stage))
<1> SUFFICES ASSUME TypeOK, [Next]_vars,
                    proj'.current_stage # proj.current_stage
             PROVE  CanEnter(proj.current_stage, proj'.current_stage)
  OBVIOUS
<1> USE Stages
<1>1. CASE Reason
  BY <1>1, ReasonStep, ReasoningStateFields
<1>2. CASE ReviseData
  BY <1>2, DataStep, DataStateFields
<1>3. CASE BuildModel \/ BindReviewedModel
  BY <1>3, ModelStep, ModelStateFields
<1>4. CASE Solve
  BY <1>4, SolveStep, SolveStateFields
<1>5. CASE Validate
  BY <1>5, ValidateStep, ValidationStateFields, Enters
<1>6. CASE Sensitivity
  BY <1>6, SensitivityStep, SensitivityStateFields, Enters
<1>7. CASE Robustness
  BY <1>7, RobustnessStep, RobustnessStateFields, Enters
<1>8. CASE RedTeam
  <2>1. proj'.current_stage = "RED_TEAM"
    BY <1>8, RedTeamStep, RedTeamStateFields
  <2> QED
    BY <1>8, <2>1, RedTeamStep
<1>9. CASE Repair
  <2>1. PICK target, status :
          proj' = RepairState(proj, Len(repair_cycles) + 1, target, status)
    BY <1>9, RepairStep
  <2>2. proj'.current_stage \in {"MODEL_REPAIR", "RED_TEAM"}
    BY <2>1, RepairStateFields
  <2> QED
    BY <1>9, <2>2, RepairStep, Enters
<1>10. CASE MarkRepairLimit
  BY <1>10, RepairLimitStep, RepairLimitStateFields
<1>11. CASE UNCHANGED vars
  BY <1>11 DEF vars
<1> QED
  BY <1>1, <1>2, <1>3, <1>4, <1>5, <1>6, <1>7, <1>8, <1>9, <1>10, <1>11 DEF Next

\* No failed gate, repair, exhausted limit or data revision moves a project
\* against the transition table.
THEOREM StageCorrectness == Spec => StageFollowsTable
<1>1. TypeOK /\ [Next]_vars =>
        [proj'.current_stage # proj.current_stage =>
           CanEnter(proj.current_stage, proj'.current_stage)]_vars
  BY NextFollowsTable
<1> QED
  BY <1>1, TypeCorrectness, PTL DEF Spec, StageFollowsTable

-----------------------------------------------------------------------------
(* Reviews rest on passed runs.                                              *)

\* The rows a review refers to keep their places.
LEMMA RunsGrow ==
  ASSUME TypeOK, [Next]_vars
  PROVE  /\ \A i \in DOMAIN validation_runs :
              i \in DOMAIN validation_runs' /\ validation_runs'[i] = validation_runs[i]
         /\ \A i \in DOMAIN sensitivity_runs :
              i \in DOMAIN sensitivity_runs' /\ sensitivity_runs'[i] = sensitivity_runs[i]
         /\ \A i \in DOMAIN robustness_runs :
              i \in DOMAIN robustness_runs' /\ robustness_runs'[i] = robustness_runs[i]
         /\ \A i \in DOMAIN red_team_runs :
              i \in DOMAIN red_team_runs' /\ red_team_runs'[i] = red_team_runs[i]
<1>1. CASE Reason \/ ReviseData \/ MarkRepairLimit \/ UNCHANGED vars
  BY <1>1, ReasonStep, DataStep, RepairLimitStep DEF vars, registries, reports
<1>2. CASE BuildModel \/ BindReviewedModel \/ Solve \/ Repair
  BY <1>2, ModelStep, SolveStep, RepairStep DEF reports
<1>3. CASE Validate
  <2>1. PICK row : validation_runs' = Append(validation_runs, row)
    BY <1>3, ValidateStep
  <2> QED
    BY <1>3, <2>1, ValidateStep, AppendedRow DEF TypeOK
<1>4. CASE Sensitivity
  <2>1. PICK row : sensitivity_runs' = Append(sensitivity_runs, row)
    BY <1>4, SensitivityStep
  <2> QED
    BY <1>4, <2>1, SensitivityStep, AppendedRow DEF TypeOK
<1>5. CASE Robustness
  <2>1. PICK row : robustness_runs' = Append(robustness_runs, row)
    BY <1>5, RobustnessStep
  <2> QED
    BY <1>5, <2>1, RobustnessStep, AppendedRow DEF TypeOK
<1>6. CASE RedTeam
  <2>1. PICK row : red_team_runs' = Append(red_team_runs, row)
    BY <1>6, RedTeamStep
  <2> QED
    BY <1>6, <2>1, RedTeamStep, AppendedRow DEF TypeOK
<1> QED
  BY <1>1, <1>2, <1>3, <1>4, <1>5, <1>6 DEF Next

LEMMA InitReviews == Init => ReviewsRestOnPassedRuns
BY DEF Init, ReviewsRestOnPassedRuns

LEMMA NextReviews ==
  TypeOK /\ PrerequisitesReady /\ ReviewsRestOnPassedRuns /\ [Next]_vars
    => ReviewsRestOnPassedRuns'
<1> SUFFICES ASSUME TypeOK, PrerequisitesReady, ReviewsRestOnPassedRuns, [Next]_vars
             PROVE  ReviewsRestOnPassedRuns'
  OBVIOUS
<1> DEFINE Rests(t) ==
             /\ t.validation \in DOMAIN validation_runs
             /\ t.sensitivity \in DOMAIN sensitivity_runs
             /\ t.robustness \in DOMAIN robustness_runs
             /\ LET v == validation_runs[t.validation]
                    s == sensitivity_runs[t.sensitivity]
                    r == robustness_runs[t.robustness] IN
                  /\ v.gate = "PASS" /\ s.gate = "PASS" /\ r.gate = "PASS"
                  /\ ReportsChained(t.validation, t.sensitivity, t.robustness,
                                    v, s, r, t)
<1>1. ASSUME NEW i \in DOMAIN red_team_runs PROVE Rests(red_team_runs[i])'
  <2>1. Rests(red_team_runs[i])
    BY <1>1 DEF ReviewsRestOnPassedRuns
  <2> QED
    BY <1>1, <2>1, RunsGrow
<1>2. CASE red_team_runs' = red_team_runs
  BY <1>1, <1>2 DEF ReviewsRestOnPassedRuns
<1>3. CASE red_team_runs' # red_team_runs
  <2>1. RedTeam
    BY <1>3, ReasonStep, DataStep, ModelStep, SolveStep, ValidateStep, SensitivityStep,
       RobustnessStep, RepairStep, RepairLimitStep DEF Next, vars, registries, reports
  <2> DEFINE val  == Len(validation_runs)
             sens == Len(sensitivity_runs)
             rob  == Len(robustness_runs)
  <2>2. PICK critical, mock : red_team_runs' =
          Append(red_team_runs, RedTeamReport(proj, val, sens, rob, critical, mock))
    BY <2>1, RedTeamStep
  <2>3. UNCHANGED <<validation_runs, sensitivity_runs, robustness_runs>>
    BY <2>1, RedTeamStep
  <2>4. RobustnessReady
    BY <2>1, Stages, Enters, RedTeamStep DEF PrerequisitesReady
  <2> PICK t : t = RedTeamReport(proj, val, sens, rob, critical, mock)
    OBVIOUS
  <2> PICK new : new = Len(red_team_runs) + 1
    OBVIOUS
  <2>5. DOMAIN red_team_runs' = DOMAIN red_team_runs \cup {new} /\ red_team_runs'[new] = t
    BY <2>2, AppendedRow DEF TypeOK
  <2>6. /\ val \in DOMAIN validation_runs
        /\ sens \in DOMAIN sensitivity_runs
        /\ rob \in DOMAIN robustness_runs
    BY <2>4, LatestRow DEF RobustnessReady, SensitivityReady, ValidationReady, TypeOK
  <2>7. t.validation = val /\ t.sensitivity = sens /\ t.robustness = rob
    BY DEF RedTeamReport
  <2>8. LET v == validation_runs[val]
            s == sensitivity_runs[sens]
            r == robustness_runs[rob] IN
        /\ v.gate = "PASS" /\ s.gate = "PASS" /\ r.gate = "PASS"
        /\ ReportsChained(val, sens, rob, v, s, r, t)
    BY <2>4 DEF RobustnessReady, SensitivityReady, ValidationReady, RedTeamReport,
       ReportsChained
  <2>9. Rests(t)
    BY <2>6, <2>7, <2>8
  <2>10. Rests(red_team_runs[new])'
    BY <2>3, <2>5, <2>9
  <2> QED
    BY <1>1, <2>5, <2>10 DEF ReviewsRestOnPassedRuns
<1> QED
  BY <1>2, <1>3

\* Every stored review, of any model revision, rests on three passing runs
\* chained to one result of one model: no later stage reads a failed
\* predecessor as a success.
THEOREM ReviewCorrectness == Spec => []ReviewsRestOnPassedRuns
BY TypeCorrectness, PrerequisitesCorrectness, InitReviews, NextReviews, PTL DEF Spec

-----------------------------------------------------------------------------
(* A verified result is proven, and final.                                   *)

\* The pointer is proven, and it agrees with the marked entries of the state.
VerifiedInv == VerifiedResultIsProven /\ ValidState(proj)

LEMMA InitVerified == Init => VerifiedInv
BY InitialStagesAssumption
   DEF Init, VerifiedInv, VerifiedResultIsProven, ValidState, ProjectAt

\* Only RED_TEAM holds a pointer, and the latest review there is not critical.
LEMMA UnverifiedElsewhere ==
  ASSUME TypeOK, VerifiedInv
  PROVE  /\ proj.current_stage # "RED_TEAM" => proj.verified_result_id = 0
         /\ proj.verified_result_id # 0 => ~red_team_runs[Len(red_team_runs)].critical
BY DEF VerifiedInv, VerifiedResultIsProven

LEMMA NextVerified ==
  TypeOK /\ PrerequisitesReady /\ VerifiedInv /\ [Next]_vars => VerifiedInv'
<1> SUFFICES ASSUME TypeOK, PrerequisitesReady, VerifiedInv, [Next]_vars
             PROVE  VerifiedInv'
  OBVIOUS
<1> USE Stages
<1>V. ValidState(proj)'
  <2>1. CASE Next
    BY <2>1 DEF Next, Reason, PersistReasoning, ReviseData, PersistData, BuildModel,
       BindReviewedModel, PersistModel, Solve, PersistSolve, Validate,
       PersistValidation, Sensitivity, PersistSensitivity, Robustness,
       PersistRobustness, RedTeam, PersistRedTeam, Repair, PersistRepair,
       MarkRepairLimit, PersistRepairLimit, AppendRevision
  <2>2. CASE UNCHANGED vars
    BY <2>2 DEF vars, VerifiedInv, ValidState
  <2> QED
    BY <2>1, <2>2
<1>0. ASSUME proj'.verified_result_id = 0 PROVE VerifiedInv'
  BY <1>0, <1>V DEF VerifiedInv, VerifiedResultIsProven
<1>S. ASSUME proj'.verified_result_id = proj.verified_result_id,
             proj'.current_stage = proj.current_stage,
             proj'.status = proj.status,
             proj'.mathematical_model = proj.mathematical_model,
             UNCHANGED <<red_team_runs, results>>
      PROVE  VerifiedInv'
  BY <1>S, <1>V DEF VerifiedInv, VerifiedResultIsProven, InContext
<1>1. CASE Reason
  <2>1. proj'.verified_result_id = proj.verified_result_id
    BY <1>1, ReasonStep, ReasoningStateFields
  <2> QED
    BY <1>0, <1>1, <2>1, ReasonStep, Enters, UnverifiedElsewhere
<1>2. CASE ReviseData
  BY <1>2, <1>S, DataStep, DataStateFields DEF registries, reports
<1>3. CASE BuildModel \/ BindReviewedModel
  <2>1. proj'.verified_result_id = proj.verified_result_id
    BY <1>3, ModelStep, ModelStateFields
  <2> QED
    BY <1>0, <1>3, <2>1, ModelStep, Enters, UnverifiedElsewhere
<1>4. CASE Solve
  BY <1>0, <1>4, SolveStep, SolveStateFields
<1>5. CASE Validate
  <2>1. proj'.verified_result_id = proj.verified_result_id
    BY <1>5, ValidateStep, ValidationStateFields
  <2> QED
    BY <1>0, <1>5, <2>1, ValidateStep, Enters, UnverifiedElsewhere
<1>6. CASE Sensitivity
  <2>1. proj'.verified_result_id = proj.verified_result_id
    BY <1>6, SensitivityStep, SensitivityStateFields
  <2> QED
    BY <1>0, <1>6, <2>1, SensitivityStep, Enters, UnverifiedElsewhere
<1>7. CASE Robustness
  <2>1. proj'.verified_result_id = proj.verified_result_id
    BY <1>7, RobustnessStep, RobustnessStateFields
  <2> QED
    BY <1>0, <1>7, <2>1, RobustnessStep, Enters, UnverifiedElsewhere
<1>8. CASE RedTeam
  <2> DEFINE val  == Len(validation_runs)
             sens == Len(sensitivity_runs)
             rob  == Len(robustness_runs)
  <2>1. PICK critical \in BOOLEAN, mock \in BOOLEAN, verified \in Gate :
          LET report == RedTeamReport(proj, val, sens, rob, critical, mock)
          IN /\ proj' = RedTeamState(proj, Len(red_team_runs) + 1, report.result,
                                     RedTeamGate(report), verified)
             /\ red_team_runs' = Append(red_team_runs, report)
    BY <1>8, RedTeamStep
  <2> PICK report : report = RedTeamReport(proj, val, sens, rob, critical, mock)
    OBVIOUS
  <2>2. /\ proj' = RedTeamState(proj, Len(red_team_runs) + 1, report.result,
                                RedTeamGate(report), verified)
        /\ red_team_runs' = Append(red_team_runs, report)
    BY <2>1
  <2>3. CASE RedTeamGate(report) = "PASS" /\ verified = "PASS"
    <3>1. /\ proj'.verified_result_id = report.result
          /\ proj'.current_stage = "RED_TEAM" /\ proj'.status = "SUCCEEDED"
          /\ proj'.mathematical_model = proj.mathematical_model
      BY <2>2, <2>3, RedTeamStateFields, RedTeamStateVerified DEF GateStatus
    <3>2. ~report.mock /\ ~report.critical
      BY <2>3 DEF RedTeamGate
    <3>3. ValidationReady /\ report.result = validation_runs[val].result
      BY <1>8, RedTeamStep, Enters
         DEF PrerequisitesReady, RobustnessReady, SensitivityReady, RedTeamReport
    <3>4. /\ results' = results
          /\ InContext(proj, report.result)
          /\ results[report.result].credible
      BY <1>8, <3>3, RedTeamStep DEF ValidationReady
    <3>5. InContext(proj, report.result)'
      BY <3>1, <3>4 DEF InContext
    <3>6. /\ red_team_runs' # <<>>
          /\ red_team_runs'[Len(red_team_runs')] = report
      <4>1. /\ red_team_runs \in Seq(RedTeamRow)
            /\ red_team_runs' = Append(red_team_runs, report)
        BY <2>2 DEF TypeOK
      <4> QED BY <4>1, LastRow
    <3>7. VerifiedResultIsProven'
      BY <3>1, <3>2, <3>4, <3>5, <3>6 DEF VerifiedResultIsProven
    <3> QED
      BY <1>V, <3>7 DEF VerifiedInv
  <2>4. CASE ~(RedTeamGate(report) = "PASS" /\ verified = "PASS")
    BY <1>0, <2>2, <2>4, RedTeamStateVerified
  <2> QED
    BY <2>3, <2>4
<1>9. CASE Repair
  <2>1. PICK target, status :
          proj' = RepairState(proj, Len(repair_cycles) + 1, target, status)
    BY <1>9, RepairStep
  <2> QED
    BY <1>0, <2>1, RepairStateFields
<1>10. CASE MarkRepairLimit
  BY <1>0, <1>10, RepairLimitStep, RepairLimitStateFields
<1>11. CASE UNCHANGED vars
  BY <1>11, <1>S DEF vars, registries, reports
<1> QED
  BY <1>1, <1>2, <1>3, <1>4, <1>5, <1>6, <1>7, <1>8, <1>9, <1>10, <1>11 DEF Next

LEMMA VerifiedInvariance == Spec => []VerifiedInv
BY TypeCorrectness, PrerequisitesCorrectness, InitVerified, NextVerified, PTL DEF Spec

\* The final-result pointer is only ever set at RED_TEAM, on a credible result of
\* the current model that the latest review accepted.
THEOREM VerifiedResultCorrectness == Spec => []VerifiedResultIsProven
<1>1. VerifiedInv => VerifiedResultIsProven
  BY DEF VerifiedInv
<1> QED
  BY <1>1, VerifiedInvariance, PTL

LEMMA NextKeepsVerified ==
  TypeOK /\ VerifiedInv /\ [Next]_vars =>
    (proj.verified_result_id # 0 => proj'.verified_result_id = proj.verified_result_id)
<1> SUFFICES ASSUME TypeOK, VerifiedInv, [Next]_vars, proj.verified_result_id # 0
             PROVE  proj'.verified_result_id = proj.verified_result_id
  OBVIOUS
<1>1. proj.current_stage = "RED_TEAM" /\ ~red_team_runs[Len(red_team_runs)].critical
  BY UnverifiedElsewhere
<1>2. ReviseData \/ MarkRepairLimit \/ UNCHANGED vars
  <2>1. ~Reason
    BY <1>1, Stages, Enters, ReasonStep
  <2>2. ~(BuildModel \/ BindReviewedModel) /\ ~Solve
    BY <1>1, Stages, Enters, ModelStep, SolveStep
  <2>3. ~Validate /\ ~Sensitivity /\ ~Robustness
    BY <1>1, Stages, Enters, ValidateStep, SensitivityStep, RobustnessStep
  <2>4. ~RedTeam
    BY <1>1, Stages, Enters, RedTeamStep
  <2>5. ~Repair
    BY <1>1, RepairStep
  <2> QED
    BY <2>1, <2>2, <2>3, <2>4, <2>5 DEF Next
<1>3. CASE ReviseData
  BY <1>3, Stages, DataStep, DataStateFields
<1>4. CASE MarkRepairLimit
  <2>1. ValidState(proj) /\ ValidState(proj')
    BY <1>4 DEF VerifiedInv, MarkRepairLimit, PersistRepairLimit, AppendRevision
  <2>2. proj'.verified_items = proj.verified_items /\ proj'.verified_result_id = 0
    BY <1>4, Stages, RepairLimitStep, RepairLimitStateFields
  <2> QED
    BY <2>1, <2>2 DEF ValidState
<1>5. CASE UNCHANGED vars
  BY <1>5 DEF vars
<1> QED
  BY <1>2, <1>3, <1>4, <1>5

\* No data revision, repair or exhausted limit takes the pointer away: a late
\* repair loop that wants to mark the limit is refused by the state's validator.
THEOREM VerifiedResultFinality == Spec => VerifiedResultIsFinal
<1>1. TypeOK /\ VerifiedInv /\ [Next]_vars =>
        [proj.verified_result_id # 0 =>
           proj'.verified_result_id = proj.verified_result_id]_vars
  BY NextKeepsVerified
<1> QED
  BY <1>1, TypeCorrectness, VerifiedInvariance, PTL DEF Spec, VerifiedResultIsFinal

-----------------------------------------------------------------------------
(* Repairs are counted.                                                      *)

LEMMA InitRepairs == Init => RepairsAreCounted
BY MaxRepairCyclesAssumption DEF Init, RepairsAreCounted

LEMMA NextRepairs ==
  TypeOK /\ PrerequisitesReady /\ RepairsAreCounted /\ [Next]_vars
    => RepairsAreCounted'
<1> SUFFICES ASSUME TypeOK, PrerequisitesReady, RepairsAreCounted, [Next]_vars
             PROVE  RepairsAreCounted'
  OBVIOUS
<1> DEFINE Counted(c) ==
             /\ repair_cycles[c].cycle = c
             /\ repair_cycles[c].report \in DOMAIN red_team_runs
             /\ red_team_runs[repair_cycles[c].report].critical
             /\ red_team_runs[repair_cycles[c].report].model = repair_cycles[c].source
<1>1. ASSUME NEW c \in DOMAIN repair_cycles, repair_cycles'[c] = repair_cycles[c]
      PROVE  Counted(c)'
  <2>1. Counted(c)
    BY <1>1 DEF RepairsAreCounted
  <2> QED
    BY <1>1, <2>1, RunsGrow
<1>2. CASE repair_cycles' = repair_cycles
  BY <1>1, <1>2 DEF RepairsAreCounted
<1>3. CASE Repair
  <2>1. PICK status, target : repair_cycles' = Append(repair_cycles,
          [cycle |-> Len(repair_cycles) + 1, source |-> proj.mathematical_model,
           target |-> target, report |-> Len(red_team_runs), status |-> status])
    BY <1>3, RepairStep
  <2> PICK new : new = Len(repair_cycles) + 1
    OBVIOUS
  <2> PICK report : report = Len(red_team_runs)
    OBVIOUS
  <2>2. /\ DOMAIN repair_cycles' = DOMAIN repair_cycles \cup {new}
        /\ Len(repair_cycles') = Len(repair_cycles) + 1
        /\ repair_cycles'[new].cycle = new
        /\ repair_cycles'[new].report = report
        /\ repair_cycles'[new].source = proj.mathematical_model
        /\ \A c \in DOMAIN repair_cycles : repair_cycles'[c] = repair_cycles[c]
    BY <2>1, AppendedRow DEF TypeOK
  <2>3. Len(repair_cycles') <= MaxRepairCycles
    BY <1>3, <2>2, RepairStep, MaxRepairCyclesAssumption DEF TypeOK
  <2>4. /\ red_team_runs' = red_team_runs
        /\ report \in DOMAIN red_team_runs
        /\ red_team_runs[report].critical
    BY <1>3, RepairStep, LatestRow DEF TypeOK, reports
  <2>5. red_team_runs[report].model = proj.mathematical_model
    BY <1>3, RepairStep, Stages, Enters
       DEF PrerequisitesReady, ReviewReady, RobustnessReady, SensitivityReady,
           ValidationReady
  <2>6. Counted(new)'
    BY <2>2, <2>4, <2>5
  <2> QED
    BY <1>1, <2>2, <2>3, <2>6 DEF RepairsAreCounted
<1> QED
  <2>1. repair_cycles' = repair_cycles \/ Repair
    BY ReasonStep, DataStep, ModelStep, SolveStep, ValidateStep, SensitivityStep,
       RobustnessStep, RedTeamStep, RepairLimitStep DEF Next, vars, registries
  <2> QED
    BY <1>2, <1>3, <2>1

\* Repair attempts are numbered without a gap, never exceed the configured limit,
\* and each one answers a critical review of the model it repairs.
THEOREM RepairCorrectness == Spec => []RepairsAreCounted
BY TypeCorrectness, PrerequisitesCorrectness, InitRepairs, NextRepairs, PTL DEF Spec

-----------------------------------------------------------------------------
(* References and rows.                                                      *)

LEMMA CountedAppend ==
  ASSUME NEW Row, NEW rows \in Seq(Row), NEW row, NEW new, new = Append(rows, row),
         NEW refs, NamesEveryRow(refs, rows)
  PROVE  NamesEveryRow(Append(refs, Len(rows) + 1), new)
<1>1. Len(new) = Len(rows) + 1 /\ Len(rows) \in Nat
  BY LastRow
<1>2. refs = [i \in 1..Len(rows) |-> i] /\ refs \in Seq(Nat) /\ Len(refs) = Len(rows)
  BY DEF NamesEveryRow
<1>3. Append(refs, Len(rows) + 1) = [i \in 1..(Len(rows) + 1) |-> i]
  BY <1>1, <1>2
<1> QED
  BY <1>1, <1>3 DEF NamesEveryRow

LEMMA InitRefs == Init => RefsMatchRows
BY InitialStagesAssumption DEF Init, RefsMatchRows, NamesEveryRow, ProjectAt

LEMMA NextRefs == TypeOK /\ RefsMatchRows /\ [Next]_vars => RefsMatchRows'
<1> SUFFICES ASSUME TypeOK, RefsMatchRows, [Next]_vars PROVE RefsMatchRows'
  OBVIOUS
<1> USE Stages
<1>1. CASE Reason
  BY <1>1, ReasonStep, ReasoningStateFields DEF RefsMatchRows, registries, reports
<1>2. CASE ReviseData
  BY <1>2, DataStep, DataStateFields DEF RefsMatchRows, registries, reports
<1>3. CASE BuildModel \/ BindReviewedModel
  BY <1>3, ModelStep, ModelStateFields DEF RefsMatchRows, reports
<1>4. CASE Solve
  <2>1. PICK row : results' = Append(results, row)
    BY <1>4, SolveStep
  <2>2. NamesEveryRow(Append(proj.result_records, Len(results) + 1), results')
    BY <2>1, CountedAppend DEF TypeOK, RefsMatchRows
  <2>3. /\ proj'.result_records = Append(proj.result_records, Len(results) + 1)
        /\ proj'.validation_results = proj.validation_results
        /\ proj'.sensitivity_results = proj.sensitivity_results
        /\ proj'.robustness_results = proj.robustness_results
        /\ proj'.red_team_reports = proj.red_team_reports
        /\ proj'.revisions = proj.revisions
    BY <1>4, SolveStep, SolveStateFields
  <2>4. UNCHANGED <<validation_runs, sensitivity_runs, robustness_runs, red_team_runs, repair_cycles>>
    BY <1>4, SolveStep DEF reports
  <2> QED
    BY <2>2, <2>3, <2>4 DEF RefsMatchRows
<1>5. CASE Validate
  <2>1. PICK row : validation_runs' = Append(validation_runs, row)
    BY <1>5, ValidateStep
  <2>2. NamesEveryRow(Append(proj.validation_results, Len(validation_runs) + 1),
                      validation_runs')
    BY <2>1, CountedAppend DEF TypeOK, RefsMatchRows
  <2>3. /\ proj'.validation_results = Append(proj.validation_results, Len(validation_runs) + 1)
        /\ proj'.result_records = proj.result_records
        /\ proj'.sensitivity_results = proj.sensitivity_results
        /\ proj'.robustness_results = proj.robustness_results
        /\ proj'.red_team_reports = proj.red_team_reports
        /\ proj'.revisions = proj.revisions
    BY <1>5, ValidateStep, ValidationStateFields
  <2>4. UNCHANGED <<results, sensitivity_runs, robustness_runs, red_team_runs, repair_cycles>>
    BY <1>5, ValidateStep
  <2> QED
    BY <2>2, <2>3, <2>4 DEF RefsMatchRows
<1>6. CASE Sensitivity
  <2>1. PICK row : sensitivity_runs' = Append(sensitivity_runs, row)
    BY <1>6, SensitivityStep
  <2>2. NamesEveryRow(Append(proj.sensitivity_results, Len(sensitivity_runs) + 1),
                      sensitivity_runs')
    BY <2>1, CountedAppend DEF TypeOK, RefsMatchRows
  <2>3. /\ proj'.sensitivity_results = Append(proj.sensitivity_results, Len(sensitivity_runs) + 1)
        /\ proj'.result_records = proj.result_records
        /\ proj'.validation_results = proj.validation_results
        /\ proj'.robustness_results = proj.robustness_results
        /\ proj'.red_team_reports = proj.red_team_reports
        /\ proj'.revisions = proj.revisions
    BY <1>6, SensitivityStep, SensitivityStateFields
  <2>4. UNCHANGED <<results, validation_runs, robustness_runs, red_team_runs, repair_cycles>>
    BY <1>6, SensitivityStep
  <2> QED
    BY <2>2, <2>3, <2>4 DEF RefsMatchRows
<1>7. CASE Robustness
  <2>1. PICK row : robustness_runs' = Append(robustness_runs, row)
    BY <1>7, RobustnessStep
  <2>2. NamesEveryRow(Append(proj.robustness_results, Len(robustness_runs) + 1),
                      robustness_runs')
    BY <2>1, CountedAppend DEF TypeOK, RefsMatchRows
  <2>3. /\ proj'.robustness_results = Append(proj.robustness_results, Len(robustness_runs) + 1)
        /\ proj'.result_records = proj.result_records
        /\ proj'.validation_results = proj.validation_results
        /\ proj'.sensitivity_results = proj.sensitivity_results
        /\ proj'.red_team_reports = proj.red_team_reports
        /\ proj'.revisions = proj.revisions
    BY <1>7, RobustnessStep, RobustnessStateFields
  <2>4. UNCHANGED <<results, validation_runs, sensitivity_runs, red_team_runs, repair_cycles>>
    BY <1>7, RobustnessStep
  <2> QED
    BY <2>2, <2>3, <2>4 DEF RefsMatchRows
<1>8. CASE RedTeam
  <2>1. PICK row, result, gate, verified :
          /\ proj' = RedTeamState(proj, Len(red_team_runs) + 1, result, gate, verified)
          /\ red_team_runs' = Append(red_team_runs, row)
    BY <1>8, RedTeamStep
  <2>2. NamesEveryRow(Append(proj.red_team_reports, Len(red_team_runs) + 1),
                      red_team_runs')
    BY <2>1, CountedAppend DEF TypeOK, RefsMatchRows
  <2>3. /\ proj'.red_team_reports = Append(proj.red_team_reports, Len(red_team_runs) + 1)
        /\ proj'.result_records = proj.result_records
        /\ proj'.validation_results = proj.validation_results
        /\ proj'.sensitivity_results = proj.sensitivity_results
        /\ proj'.robustness_results = proj.robustness_results
        /\ proj'.revisions = proj.revisions
    BY <2>1, RedTeamStateFields
  <2>4. UNCHANGED <<results, validation_runs, sensitivity_runs, robustness_runs, repair_cycles>>
    BY <1>8, RedTeamStep
  <2> QED
    BY <2>2, <2>3, <2>4 DEF RefsMatchRows
<1>9. CASE Repair
  <2>1. PICK row, target, status :
          /\ proj' = RepairState(proj, Len(repair_cycles) + 1, target, status)
          /\ repair_cycles' = Append(repair_cycles, row)
    BY <1>9, RepairStep
  <2>2. NamesEveryRow(Append(proj.revisions, Len(repair_cycles) + 1), repair_cycles')
    BY <2>1, CountedAppend DEF TypeOK, RefsMatchRows
  <2>3. /\ proj'.revisions = Append(proj.revisions, Len(repair_cycles) + 1)
        /\ proj'.result_records = proj.result_records
        /\ proj'.validation_results = proj.validation_results
        /\ proj'.sensitivity_results = proj.sensitivity_results
        /\ proj'.robustness_results = proj.robustness_results
        /\ proj'.red_team_reports = proj.red_team_reports
    BY <2>1, RepairStateFields
  <2>4. UNCHANGED <<results, validation_runs, sensitivity_runs, robustness_runs, red_team_runs>>
    BY <1>9, RepairStep DEF reports
  <2> QED
    BY <2>2, <2>3, <2>4 DEF RefsMatchRows
<1>10. CASE MarkRepairLimit
  BY <1>10, RepairLimitStep, RepairLimitStateFields DEF RefsMatchRows, registries, reports
<1>11. CASE UNCHANGED vars
  BY <1>11 DEF vars, registries, reports, RefsMatchRows
<1> QED
  BY <1>1, <1>2, <1>3, <1>4, <1>5, <1>6, <1>7, <1>8, <1>9, <1>10, <1>11 DEF Next

\* The references of a revision are the rows of the registries, in order: no
\* step, whatever its verdict, drops, repeats or reorders evidence.
THEOREM EvidenceCorrectness == Spec => []RefsMatchRows
BY TypeCorrectness, InitRefs, NextRefs, PTL DEF Spec

-----------------------------------------------------------------------------
(* Models form one line.                                                     *)

\* A project that has not reached MODEL has no model.
LineageInv ==
  /\ ModelLineage
  /\ proj.current_stage \in {"INGEST", "UNDERSTAND", "EXPLORE", "SELECT"} => models = <<>>

LEMMA InitLineage == Init => LineageInv
BY InitialStagesAssumption DEF Init, LineageInv, ModelLineage, ProjectAt

\* A step that adds no model keeps the line.
LEMMA LineageKept ==
  ASSUME TypeOK, LineageInv,
         models' = models,
         proj'.mathematical_model = proj.mathematical_model,
         \A c \in DOMAIN repair_cycles :
           c \in DOMAIN repair_cycles' /\ repair_cycles'[c] = repair_cycles[c]
  PROVE  ModelLineage'
<1> DEFINE Lineal(i) ==
      IF i = 1 THEN models[i].source = 0
      ELSE /\ models[i].version = models[i - 1].version + 1
           /\ models[i].source = models[i - 1].version
           /\ \E c \in DOMAIN repair_cycles :
                /\ repair_cycles[c].status = "ACCEPTED"
                /\ repair_cycles[c].target = models[i].version
                /\ repair_cycles[c].source = models[i].source
<1>1. ASSUME NEW i \in DOMAIN models PROVE Lineal(i)'
  <2>1. Lineal(i)
    BY <1>1 DEF LineageInv, ModelLineage
  <2> QED
    BY <2>1
<1> QED
  BY <1>1 DEF LineageInv, ModelLineage

LEMMA NextLineage ==
  TypeOK /\ PrerequisitesReady /\ LineageInv /\ [Next]_vars => LineageInv'
<1> SUFFICES ASSUME TypeOK, PrerequisitesReady, LineageInv, [Next]_vars
             PROVE  LineageInv'
  OBVIOUS
<1> USE Stages
<1> DEFINE Early == {"INGEST", "UNDERSTAND", "EXPLORE", "SELECT"}
<1>S. ASSUME models' = models, repair_cycles' = repair_cycles,
             proj'.mathematical_model = proj.mathematical_model,
             proj'.current_stage \in Early => proj.current_stage \in Early
      PROVE  LineageInv'
  BY <1>S, LineageKept DEF LineageInv
<1>1. CASE Reason
  <2>1. /\ proj'.mathematical_model = proj.mathematical_model
        /\ proj.current_stage \in Early
    BY <1>1, ReasonStep, ReasoningStateFields, Enters
  <2> QED
    BY <1>1, <1>S, <2>1, ReasonStep DEF registries
<1>2. CASE ReviseData
  BY <1>2, <1>S, DataStep, DataStateFields DEF registries
<1>3. CASE BuildModel \/ BindReviewedModel
  <2>1. PICK version : PersistModel(proj, version)
    BY <1>3 DEF BuildModel, BindReviewedModel
  <2>2. models = <<>>
    BY <1>3, ModelStep, Enters DEF LineageInv
  <2>3. /\ models' = <<[version |-> version, source |-> 0]>>
        /\ proj' = ModelState(proj, version)
    BY <2>1, <2>2 DEF PersistModel, AppendRevision
  <2>4. proj'.mathematical_model = version /\ proj'.current_stage = "MODEL"
    BY <2>3, ModelStateFields
  <2>5. ModelLineage'
    BY <2>3, <2>4 DEF ModelLineage
  <2> QED
    BY <2>4, <2>5 DEF LineageInv
<1>4. CASE Solve
  <2>1. /\ proj'.mathematical_model = proj.mathematical_model
        /\ proj'.current_stage \notin Early
    BY <1>4, SolveStep, SolveStateFields, Enters
  <2> QED
    BY <1>4, <1>S, <2>1, SolveStep
<1>5. CASE Validate
  <2>1. /\ proj'.mathematical_model = proj.mathematical_model
        /\ proj'.current_stage \notin Early
    BY <1>5, ValidateStep, ValidationStateFields
  <2> QED
    BY <1>5, <1>S, <2>1, ValidateStep
<1>6. CASE Sensitivity
  <2>1. /\ proj'.mathematical_model = proj.mathematical_model
        /\ proj'.current_stage \notin Early
    BY <1>6, SensitivityStep, SensitivityStateFields
  <2> QED
    BY <1>6, <1>S, <2>1, SensitivityStep
<1>7. CASE Robustness
  <2>1. /\ proj'.mathematical_model = proj.mathematical_model
        /\ proj'.current_stage \notin Early
    BY <1>7, RobustnessStep, RobustnessStateFields
  <2> QED
    BY <1>7, <1>S, <2>1, RobustnessStep
<1>8. CASE RedTeam
  <2>1. /\ proj'.mathematical_model = proj.mathematical_model
        /\ proj'.current_stage \notin Early
    BY <1>8, RedTeamStep, RedTeamStateFields
  <2> QED
    BY <1>8, <1>S, <2>1, RedTeamStep
<1>9. CASE Repair
  <2> PICK mm : mm = proj.mathematical_model
    OBVIOUS
  <2> PICK n : n = Len(models)
    OBVIOUS
  <2> PICK new : new = Len(repair_cycles) + 1
    OBVIOUS
  <2>1. PICK status \in RepairStatus :
          PersistRepair(proj, Len(red_team_runs), Len(repair_cycles) + 1, status)
    BY <1>9 DEF Repair, RepairCycleCount
  <2> PICK target : target = IF status = "ACCEPTED" THEN mm + 1 ELSE 0
    OBVIOUS
  <2>2. /\ proj' = RepairState(proj, new, target, status)
        /\ models' = IF target = 0 THEN models
                     ELSE Append(models, [version |-> target, source |-> mm])
        /\ repair_cycles' = Append(repair_cycles,
             [cycle |-> Len(repair_cycles) + 1, source |-> mm, target |-> target,
              report |-> Len(red_team_runs), status |-> status])
    BY <2>1 DEF PersistRepair, AppendRevision
  <2>3. /\ \A c \in DOMAIN repair_cycles :
             c \in DOMAIN repair_cycles' /\ repair_cycles'[c] = repair_cycles[c]
        /\ new \in DOMAIN repair_cycles'
        /\ repair_cycles'[new].source = mm
        /\ repair_cycles'[new].target = target
        /\ repair_cycles'[new].status = status
    BY <2>2, AppendedRow DEF TypeOK
  <2>4. proj'.current_stage \notin Early
    BY <2>2, RepairStateFields
  <2>5. CASE target = 0
    <3>1. models' = models /\ proj'.mathematical_model = proj.mathematical_model
      BY <2>2, <2>5, RepairStateFields
    <3>2. ModelLineage'
      BY <2>3, <3>1, LineageKept
    <3> QED
      BY <2>4, <3>2 DEF LineageInv
  <2>6. CASE target # 0
    <3>1. status = "ACCEPTED" /\ target = mm + 1
      BY <2>6
    <3>2. mm # 0
      BY <1>9, RepairStep, Enters
         DEF PrerequisitesReady, ReviewReady, RobustnessReady, SensitivityReady,
             ValidationReady, InContext
    <3>3. models # <<>> /\ mm = models[n].version
      BY <3>2 DEF LineageInv, ModelLineage
    <3>4. n \in Nat /\ n # 0 /\ n \in DOMAIN models /\ models \in Seq(ModelRow)
      BY <3>3, LatestRow DEF TypeOK
    <3>5. /\ DOMAIN models' = DOMAIN models \cup {n + 1}
          /\ models' # <<>> /\ Len(models') = n + 1
          /\ models'[n + 1].version = target /\ models'[n + 1].source = mm
          /\ \A i \in DOMAIN models : models'[i] = models[i]
      BY <2>2, <2>6, <3>4, AppendedRow
    <3>6. proj'.mathematical_model = target
      BY <2>2, <2>6, RepairStateFields
    <3> DEFINE Lineal(i) ==
          IF i = 1 THEN models[i].source = 0
          ELSE /\ models[i].version = models[i - 1].version + 1
               /\ models[i].source = models[i - 1].version
               /\ \E c \in DOMAIN repair_cycles :
                    /\ repair_cycles[c].status = "ACCEPTED"
                    /\ repair_cycles[c].target = models[i].version
                    /\ repair_cycles[c].source = models[i].source
    <3>7. ASSUME NEW i \in DOMAIN models PROVE Lineal(i)'
      <4>1. Lineal(i)
        BY <3>7 DEF LineageInv, ModelLineage
      <4>2. models'[i] = models[i]
        BY <3>5, <3>7
      <4>3. i = 1 \/ (i - 1 \in DOMAIN models /\ models'[i - 1] = models[i - 1])
        BY <3>4, <3>5, <3>7
      <4> QED
        BY <2>3, <4>1, <4>2, <4>3
    <3>8. Lineal(n + 1)'
      <4>1. n + 1 # 1 /\ (n + 1) - 1 = n
        BY <3>4
      <4>2. models'[n].version = mm
        BY <3>3, <3>4, <3>5
      <4> QED
        BY <2>3, <3>1, <3>5, <4>1, <4>2
    <3>9. ModelLineage'
      BY <3>5, <3>6, <3>7, <3>8 DEF ModelLineage
    <3> QED
      BY <2>4, <3>9 DEF LineageInv
  <2> QED
    BY <2>5, <2>6
<1>10. CASE MarkRepairLimit
  BY <1>10, <1>S, RepairLimitStep, RepairLimitStateFields DEF registries
<1>11. CASE UNCHANGED vars
  BY <1>11, <1>S DEF vars, registries
<1> QED
  BY <1>1, <1>2, <1>3, <1>4, <1>5, <1>6, <1>7, <1>8, <1>9, <1>10, <1>11 DEF Next

\* Model versions are consecutive, the state names the last one, and each one
\* after the first is the work of an accepted repair of the one before.
THEOREM LineageCorrectness == Spec => []ModelLineage
<1>1. LineageInv => ModelLineage
  BY DEF LineageInv
<1> QED
  BY <1>1, TypeCorrectness, PrerequisitesCorrectness, InitLineage, NextLineage, PTL
     DEF Spec

-----------------------------------------------------------------------------
(* The requests.  What a request knows is told by the step it is about to    *)
(* take: the steps before it are done.                                       *)

Operation == DOMAIN Script

\* What can be left of each operation.
Phases(op) ==
  CASE op \in {"reason", "data", "solve", "validate", "limit"} ->
         {<<"load", "commit">>, <<"commit">>}
    [] op \in {"build", "bind"} ->
         {<<"load", "identity", "commit">>, <<"identity", "commit">>, <<"commit">>}
    [] op = "sensitivity" ->
         {<<"load", "validation", "commit">>, <<"validation", "commit">>, <<"commit">>}
    [] op = "robustness" ->
         {<<"load", "validation", "sensitivity", "commit">>,
          <<"validation", "sensitivity", "commit">>, <<"sensitivity", "commit">>, <<"commit">>}
    [] op = "red_team" ->
         {<<"load", "validation", "sensitivity", "robustness", "commit">>,
          <<"validation", "sensitivity", "robustness", "commit">>,
          <<"sensitivity", "robustness", "commit">>, <<"robustness", "commit">>, <<"commit">>}
    [] op = "repair" ->
         {<<"load", "review", "cycles", "commit">>, <<"review", "cycles", "commit">>,
          <<"cycles", "commit">>, <<"commit">>}
    [] op = "plan" -> {<<"review", "cycles">>, <<"cycles">>}
    [] OTHER -> {}

Todo == {<<>>} \cup UNION {Phases(op) : op \in Operation}

ClientRecord ==
  [ request : Request \cup {"idle"}, op : Operation \cup {"idle"}, todo : Todo,
    base : ProblemState, validation : Nat, sensitivity : Nat, robustness : Nat,
    review : Nat, identity : Nat, cycles : Nat, left : Nat, attempts : Nat ]

\* Nothing but the state has been read yet.
NothingRead(k) ==
  k.validation = 0 /\ k.sensitivity = 0 /\ k.robustness = 0 /\ k.review = 0
  /\ k.identity = 0 /\ k.cycles = 0

\* The base and the reads of k are those of one transaction, now.
Fresh(k) ==
  /\ k.base = proj
  /\ Unread(k.validation, Latest(validation_runs))
  /\ Unread(k.sensitivity, Latest(sensitivity_runs))
  /\ Unread(k.robustness, Latest(robustness_runs))
  /\ Unread(k.review, Latest(red_team_runs))
  /\ k.review # 0 => red_team_runs[k.review].critical
  /\ Unread(k.identity, NextModelVersion)
  /\ k.cycles \in {0, RepairCycleCount}
  /\ k.todo = <<"commit">> /\ k.op = "repair" => k.cycles = RepairCycleCount

CriticalReview == \E report \in DOMAIN red_team_runs : red_team_runs[report].critical

\* The repair loop may only spend the cycles that were left when it started.
LoopInv(k) ==
  /\ k.op = "plan" => k.request = "repair_loop"
  /\ k.op = "plan" /\ k.todo = <<"cycles">> => CriticalReview
  /\ k.op = "limit" => CriticalReview /\ RepairCycleCount >= MaxRepairCycles
  /\ k.request = "repair_loop" =>
       /\ k.op \in {"plan", "limit", "repair", "solve", "validate", "sensitivity",
                    "robustness", "red_team"}
       /\ k.op = "repair" => k.left # 0 /\ k.left + RepairCycleCount >= MaxRepairCycles
       /\ k.op \in {"solve", "validate", "sensitivity", "robustness", "red_team"} =>
            k.left # 0 /\ k.left + RepairCycleCount >= MaxRepairCycles + 1

\* What has been read by the time of the next step.
ReadInv(k) ==
  LET step == Head(k.todo)
      last(ops) == step = "commit" /\ k.op \in ops IN
  /\ step = "load" => NothingRead(k)
  /\ (step \in {"sensitivity", "robustness"} \/ last({"sensitivity", "robustness", "red_team"}))
       => k.validation # 0
  /\ (step = "robustness" \/ last({"robustness", "red_team"})) => k.sensitivity # 0
  /\ last({"red_team"}) => k.robustness # 0
  /\ ((k.op # "plan" /\ step = "cycles") \/ last({"repair"})) => k.review # 0
  /\ last({"build", "bind"}) => k.identity # 0

RequestInv(k) ==
  /\ k.op \in Operation /\ k.todo \in Phases(k.op)
  /\ ReadInv(k) /\ LoopInv(k)
  /\ Head(k.todo) # "load" /\ k.op # "plan" =>
       /\ EnterableFrom(k.op, k.base.current_stage)
       /\ k.base.version <= proj.version
       /\ k.base.version = proj.version => Fresh(k)

\* A project past SELECT has a model.
Modelled ==
  proj.current_stage \notin {"INGEST", "UNDERSTAND", "EXPLORE", "SELECT"}
    => proj.mathematical_model # 0

ProjectInv == TypeOK /\ PrerequisitesReady /\ LineageInv /\ Modelled

ClientsInv ==
  /\ ProjectInv
  /\ clients \in [Client -> ClientRecord]
  /\ \A c \in Client : clients[c] = Idle \/ RequestInv(clients[c])

-----------------------------------------------------------------------------
(* The steps of an operation.                                                *)

\* The steps left are never none.
LEMMA PhaseHead ==
  ASSUME NEW op \in Operation, NEW todo \in Phases(op)
  PROVE  /\ todo # <<>>
         /\ Head(todo) = "commit" => todo = <<"commit">> /\ op # "plan"
         /\ op = "plan" => Head(todo) \in {"review", "cycles"}
         /\ op = "plan" /\ Head(todo) = "cycles" => todo = <<"cycles">>
BY DEF Phases, Operation, Script

LEMMA Tuples ==
  /\ \A a : Head(<<a>>) = a
  /\ \A a, b : Head(<<a, b>>) = a /\ Tail(<<a, b>>) = <<b>>
  /\ \A a, b, c : Head(<<a, b, c>>) = a /\ Tail(<<a, b, c>>) = <<b, c>>
  /\ \A a, b, c, d : Head(<<a, b, c, d>>) = a /\ Tail(<<a, b, c, d>>) = <<b, c, d>>
  /\ \A a, b, c, d, e :
       Head(<<a, b, c, d, e>>) = a /\ Tail(<<a, b, c, d, e>>) = <<b, c, d, e>>
OBVIOUS

\* Each step leads to the next one of the operation.
LEMMA NextPhase ==
  ASSUME NEW op \in Operation, NEW todo \in Phases(op), Head(todo) # "commit",
         op = "plan" => Head(todo) # "cycles"
  PROVE  /\ Tail(todo) \in Phases(op)
         /\ LET next == Head(Tail(todo)) IN
            /\ next # "load"
            /\ Head(todo) = "load" => next \in {"commit", "identity", "validation", "review"}
            /\ Head(todo) = "load" /\ next = "commit" =>
                 op \in {"reason", "data", "solve", "validate", "limit"}
            /\ Head(todo) = "identity" => next = "commit" /\ op \in {"build", "bind"}
            /\ Head(todo) = "validation" =>
                 \/ next = "commit" /\ op = "sensitivity"
                 \/ next = "sensitivity"
            /\ Head(todo) = "sensitivity" =>
                 \/ next = "commit" /\ op = "robustness"
                 \/ next = "robustness"
            /\ Head(todo) = "robustness" => next = "commit" /\ op = "red_team"
            /\ Head(todo) = "review" => next = "cycles" /\ op \in {"repair", "plan"}
            /\ Head(todo) = "cycles" => next = "commit" /\ op = "repair"
<1>1. CASE op \in {"reason", "data", "solve", "validate", "limit"}
  <2>1. todo = <<"load", "commit">>
    BY <1>1, Tuples DEF Phases
  <2> QED BY <1>1, <2>1, Tuples DEF Phases
<1>2. CASE op \in {"build", "bind"}
  <2>1. CASE todo = <<"load", "identity", "commit">>
    BY <1>2, <2>1, Tuples DEF Phases
  <2>2. CASE todo = <<"identity", "commit">>
    BY <1>2, <2>2, Tuples DEF Phases
  <2> QED BY <1>2, <2>1, <2>2, Tuples DEF Phases
<1>3. CASE op = "sensitivity"
  <2>1. CASE todo = <<"load", "validation", "commit">>
    BY <1>3, <2>1, Tuples DEF Phases
  <2>2. CASE todo = <<"validation", "commit">>
    BY <1>3, <2>2, Tuples DEF Phases
  <2> QED BY <1>3, <2>1, <2>2, Tuples DEF Phases
<1>4. CASE op = "robustness"
  <2>1. CASE todo = <<"load", "validation", "sensitivity", "commit">>
    BY <1>4, <2>1, Tuples DEF Phases
  <2>2. CASE todo = <<"validation", "sensitivity", "commit">>
    BY <1>4, <2>2, Tuples DEF Phases
  <2>3. CASE todo = <<"sensitivity", "commit">>
    BY <1>4, <2>3, Tuples DEF Phases
  <2> QED BY <1>4, <2>1, <2>2, <2>3, Tuples DEF Phases
<1>5. CASE op = "red_team"
  <2>1. CASE todo = <<"load", "validation", "sensitivity", "robustness", "commit">>
    BY <1>5, <2>1, Tuples DEF Phases
  <2>2. CASE todo = <<"validation", "sensitivity", "robustness", "commit">>
    BY <1>5, <2>2, Tuples DEF Phases
  <2>3. CASE todo = <<"sensitivity", "robustness", "commit">>
    BY <1>5, <2>3, Tuples DEF Phases
  <2>4. CASE todo = <<"robustness", "commit">>
    BY <1>5, <2>4, Tuples DEF Phases
  <2> QED BY <1>5, <2>1, <2>2, <2>3, <2>4, Tuples DEF Phases
<1>6. CASE op = "repair"
  <2>1. CASE todo = <<"load", "review", "cycles", "commit">>
    BY <1>6, <2>1, Tuples DEF Phases
  <2>2. CASE todo = <<"review", "cycles", "commit">>
    BY <1>6, <2>2, Tuples DEF Phases
  <2>3. CASE todo = <<"cycles", "commit">>
    BY <1>6, <2>3, Tuples DEF Phases
  <2> QED BY <1>6, <2>1, <2>2, <2>3, Tuples DEF Phases
<1>7. CASE op = "plan"
  <2>1. todo = <<"review", "cycles">>
    BY <1>7, Tuples DEF Phases
  <2> QED BY <1>7, <2>1, Tuples DEF Phases
<1> QED BY <1>1, <1>2, <1>3, <1>4, <1>5, <1>6, <1>7 DEF Operation, Script

-----------------------------------------------------------------------------
(* What a step of Verification leaves true for the requests in flight.       *)

LEMMA NextModelled ==
  ASSUME ProjectInv, [Next]_vars
  PROVE  Modelled'
<1> USE Stages DEF ProjectInv
<1> DEFINE Early == {"INGEST", "UNDERSTAND", "EXPLORE", "SELECT"}
<1>S. ASSUME proj'.mathematical_model = proj.mathematical_model,
             proj'.current_stage \in Early \/ proj.current_stage \notin Early
      PROVE  Modelled'
  BY <1>S DEF Modelled
<1>1. CASE Reason
  <2>1. proj'.current_stage \in Early
    BY <1>1, ReasonStep, ReasoningStateFields
  <2> QED BY <2>1 DEF Modelled
<1>2. CASE ReviseData
  BY <1>2, <1>S, DataStep, DataStateFields
<1>3. CASE BuildModel \/ BindReviewedModel
  <2>1. models = <<>>
    BY <1>3, ModelStep, Enters DEF LineageInv
  <2>2. NextModelVersion = 1
    BY <2>1 DEF NextModelVersion
  <2>3. PICK version \in Nat \ {0} : PersistModel(proj, version)
    BY <1>3, <2>2, ReviewedVersionsAssumption DEF BuildModel, BindReviewedModel
  <2>4. proj'.mathematical_model = version
    BY <2>3, ModelStateFields DEF PersistModel, AppendRevision
  <2> QED BY <2>4 DEF Modelled
<1>4. CASE Solve
  <2>1. proj'.mathematical_model = proj.mathematical_model /\ proj.current_stage \notin Early
    BY <1>4, SolveStep, SolveStateFields, Enters
  <2> QED BY <1>S, <2>1
<1>5. CASE Validate
  <2>1. proj'.mathematical_model = proj.mathematical_model /\ proj.current_stage \notin Early
    BY <1>5, ValidateStep, ValidationStateFields, Enters
  <2> QED BY <1>S, <2>1
<1>6. CASE Sensitivity
  <2>1. proj'.mathematical_model = proj.mathematical_model /\ proj.current_stage \notin Early
    BY <1>6, SensitivityStep, SensitivityStateFields, Enters
  <2> QED BY <1>S, <2>1
<1>7. CASE Robustness
  <2>1. proj'.mathematical_model = proj.mathematical_model /\ proj.current_stage \notin Early
    BY <1>7, RobustnessStep, RobustnessStateFields, Enters
  <2> QED BY <1>S, <2>1
<1>8. CASE RedTeam
  <2>1. proj'.mathematical_model = proj.mathematical_model /\ proj.current_stage \notin Early
    BY <1>8, RedTeamStep, RedTeamStateFields, Enters
  <2> QED BY <1>S, <2>1
<1>9. CASE Repair
  <2>1. PICK status \in RepairStatus, target \in {0, proj.mathematical_model + 1} :
          /\ target = IF status = "ACCEPTED" THEN proj.mathematical_model + 1 ELSE 0
          /\ proj' = RepairState(proj, Len(repair_cycles) + 1, target, status)
    BY <1>9, RepairStep
  <2>2. proj.mathematical_model \in Nat /\ proj.current_stage \notin Early
    BY <1>9, RepairStep, Enters, Fields DEF TypeOK
  <2>3. proj'.mathematical_model = IF target # 0 THEN target ELSE proj.mathematical_model
    BY <2>1, RepairStateFields
  <2> QED BY <2>1, <2>2, <2>3 DEF Modelled
<1>10. CASE MarkRepairLimit
  BY <1>10, <1>S, RepairLimitStep, RepairLimitStateFields
<1>11. CASE UNCHANGED vars
  BY <1>11, <1>S DEF vars
<1> QED
  BY <1>1, <1>2, <1>3, <1>4, <1>5, <1>6, <1>7, <1>8, <1>9, <1>10, <1>11 DEF Next

LEMMA ProjectStep ==
  ASSUME ProjectInv, [Next]_vars
  PROVE  ProjectInv'
BY NextTypeOK, NextReady, NextLineage, NextModelled DEF ProjectInv

\* A row of a registry that grows by one stays where it is.
LEMMA RowsStay ==
  ASSUME NEW Row, NEW rows \in Seq(Row), NEW row
  PROVE  /\ Len(Append(rows, row)) = Len(rows) + 1
         /\ \A i \in DOMAIN rows :
              i \in DOMAIN Append(rows, row) /\ Append(rows, row)[i] = rows[i]
OBVIOUS

\* Every step appends one revision; attempts are never forgotten, nor reviews.
LEMMA NextAppends ==
  ASSUME ProjectInv, Next
  PROVE  /\ proj.version \in Nat /\ proj'.version = proj.version + 1
         /\ RepairCycleCount \in Nat /\ RepairCycleCount' \in Nat
         /\ RepairCycleCount <= RepairCycleCount'
         /\ CriticalReview => CriticalReview'
<1>1. proj.version \in Nat
  BY Fields DEF ProjectInv, TypeOK
<1>2. proj'.version = proj.version + 1
  BY DEF Next, Reason, ReviseData, BuildModel, BindReviewedModel, Solve, Validate,
         Sensitivity, Robustness, RedTeam, Repair, MarkRepairLimit, PersistReasoning,
         PersistData, PersistModel, PersistSolve, PersistValidation, PersistSensitivity,
         PersistRobustness, PersistRedTeam, PersistRepair, PersistRepairLimit,
         AppendRevision, FollowsCurrent
<1>3. \/ repair_cycles' = repair_cycles
      \/ \E row : repair_cycles' = Append(repair_cycles, row)
  BY ReasonStep, DataStep, ModelStep, SolveStep, ValidateStep, SensitivityStep,
     RobustnessStep, RedTeamStep, RepairStep, RepairLimitStep DEF Next, registries
<1>4. \/ red_team_runs' = red_team_runs
      \/ \E row : red_team_runs' = Append(red_team_runs, row)
  BY ReasonStep, DataStep, ModelStep, SolveStep, ValidateStep, SensitivityStep,
     RobustnessStep, RedTeamStep, RepairStep, RepairLimitStep DEF Next, registries, reports
<1>5. repair_cycles \in Seq(RepairRow) /\ red_team_runs \in Seq(RedTeamRow)
  BY DEF ProjectInv, TypeOK
<1>6. /\ RepairCycleCount \in Nat /\ RepairCycleCount' \in Nat
      /\ RepairCycleCount <= RepairCycleCount'
  <2>1. Len(repair_cycles) \in Nat
    BY <1>5
  <2>2. repair_cycles' = repair_cycles \/ Len(repair_cycles') = Len(repair_cycles) + 1
    BY <1>3, <1>5, RowsStay
  <2> QED BY <2>1, <2>2 DEF RepairCycleCount
<1>7. CriticalReview => CriticalReview'
  BY <1>4, <1>5, RowsStay DEF CriticalReview
<1> QED BY <1>1, <1>2, <1>6, <1>7

\* A request that waits while another one moves.
LEMMA Waiting ==
  ASSUME ProjectInv, NEW k \in ClientRecord, RequestInv(k), Next \/ UNCHANGED vars
  PROVE  RequestInv(k)'
<1>1. CASE UNCHANGED vars
  BY <1>1 DEF RequestInv, ReadInv, LoopInv, Fresh, NothingRead, CriticalReview,
              RepairCycleCount, NextModelVersion, vars, registries, reports
<1>2. CASE Next
  <2>1. k.base.version \in Nat /\ k.left \in Nat /\ MaxRepairCycles \in Nat
    BY Fields, MaxRepairCyclesAssumption DEF ClientRecord
  <2>2. /\ k.base.version <= proj.version =>
             k.base.version <= proj'.version /\ k.base.version # proj'.version
        /\ \A n \in Nat : n <= k.left + RepairCycleCount => n <= k.left + RepairCycleCount'
        /\ RepairCycleCount >= MaxRepairCycles => RepairCycleCount' >= MaxRepairCycles
    BY <1>2, <2>1, NextAppends
  <2>3. LoopInv(k)'
    <3>1. MaxRepairCycles + 1 \in Nat
      BY <2>1
    <3>2. LoopInv(k)
      BY DEF RequestInv
    <3>3. CriticalReview => CriticalReview'
      BY <1>2, NextAppends
    <3>4. /\ k.left + RepairCycleCount >= MaxRepairCycles =>
               k.left + RepairCycleCount' >= MaxRepairCycles
          /\ k.left + RepairCycleCount >= MaxRepairCycles + 1 =>
               k.left + RepairCycleCount' >= MaxRepairCycles + 1
      BY <1>2, <2>1, NextAppends
    <3> QED BY <2>2, <3>2, <3>3, <3>4 DEF LoopInv
  <2>4. ReadInv(k)'
    BY DEF RequestInv, ReadInv, NothingRead
  <2> QED BY <2>2, <2>3, <2>4 DEF RequestInv
<1> QED BY <1>1, <1>2

\* One request takes a step; the others wait.
LEMMA OneMoves ==
  ASSUME ClientsInv, Next \/ UNCHANGED vars, NEW c \in Client, NEW l \in ClientRecord,
         Become(c, l), l = Idle \/ RequestInv(l)'
  PROVE  ClientsInv'
<1>1. ProjectInv /\ ProjectInv'
  BY ProjectStep DEF ClientsInv
<1>2. /\ clients' \in [Client -> ClientRecord]
      /\ \A d \in Client : clients'[d] = IF d = c THEN l ELSE clients[d]
  BY DEF ClientsInv, Become
<1>3. ASSUME NEW d \in Client PROVE clients'[d] = Idle \/ RequestInv(clients[d])'
  <2>1. CASE d = c
    <3>1. clients'[d] = l
      BY <1>2, <2>1
    <3>2. CASE l = Idle
      BY <3>1, <3>2
    <3>3. CASE RequestInv(l)'
      BY <3>1, <3>3 DEF RequestInv, ReadInv, LoopInv, Fresh, NothingRead
    <3> QED BY <3>2, <3>3
  <2>2. CASE d # c
    <3> PICK k \in ClientRecord : k = clients[d]
      BY DEF ClientsInv
    <3>1. clients'[d] = k /\ (k = Idle \/ RequestInv(k))
      BY <1>2, <2>2 DEF ClientsInv
    <3>2. RequestInv(k) => RequestInv(k)'
      BY <1>1, Waiting
    <3> QED BY <3>1, <3>2
  <2> QED BY <2>1, <2>2
<1>4. \A d \in Client : clients'[d] = Idle' \/ RequestInv(clients[d])'
  BY <1>3 DEF Idle
<1> QED BY <1>1, <1>2, <1>4 DEF ClientsInv

-----------------------------------------------------------------------------
(* A request starts an operation, or takes a read step.                      *)

LEMMA IdleRecord == Idle \in ClientRecord /\ Idle.todo = <<>> /\ Idle.op = "idle"
<1>1. PICK base \in ProblemState : base = ProjectAt("INGEST")
  BY ProjectAtType
<1> QED BY <1>1 DEF Idle, ClientRecord, Todo

LEMMA Scripts ==
  ASSUME NEW op \in Operation
  PROVE  /\ Script[op] \in Phases(op) /\ Script[op] \in Todo
         /\ Head(Script[op]) = IF op = "plan" THEN "review" ELSE "load"
<1>1. CASE op \in {"reason", "data", "solve", "validate", "limit"}
  BY <1>1, Tuples DEF Script, Phases, Todo
<1>2. CASE op \in {"build", "bind"}
  BY <1>2, Tuples DEF Script, Phases, Todo
<1>3. CASE op \in {"sensitivity", "robustness"}
  BY <1>3, Tuples DEF Script, Phases, Todo
<1>4. CASE op \in {"red_team", "repair", "plan"}
  BY <1>4, Tuples DEF Script, Phases, Todo
<1> QED BY <1>1, <1>2, <1>3, <1>4 DEF Operation, Script

LEMMA StartHolds ==
  ASSUME NEW k \in ClientRecord, NEW op \in Operation, NEW l, l = Start(k, op)
  PROVE  /\ l \in ClientRecord /\ l.op = op /\ l.request = k.request /\ l.left = k.left
         /\ l.todo # <<"cycles">>
         /\ LoopInv(l) => RequestInv(l)
         /\ LoopInv(l)' => RequestInv(l)'
<1> PICK todo \in Todo : todo = Script[op]
  BY Scripts
<1>1. /\ l \in ClientRecord /\ l.op = op /\ l.request = k.request /\ l.left = k.left
      /\ l.todo = todo /\ NothingRead(l)
  BY IdleRecord DEF Start, ClientRecord, Idle, NothingRead
<1>2. /\ l.todo \in Phases(op) /\ Head(l.todo) = IF op = "plan" THEN "review" ELSE "load"
  BY <1>1, Scripts
<1>3. ReadInv(l)
  BY <1>1, <1>2 DEF ReadInv
<1>4. Head(<<"cycles">>) = "cycles"
  BY Tuples
<1> QED BY <1>1, <1>2, <1>3, <1>4 DEF RequestInv

\* The request of c, once it is not idle.
LEMMA ActiveRequest ==
  ASSUME ClientsInv, NEW c \in Client, clients[c].todo # <<>>
  PROVE  clients[c] \in ClientRecord /\ RequestInv(clients[c])
BY IdleRecord DEF ClientsInv

LEMMA SubmitHolds ==
  ASSUME ClientsInv, NEW c \in Client, Submit(c)
  PROVE  ClientsInv'
<1>1. PICK request \in Requests :
        Become(c, Start([Idle EXCEPT !.request = request], FirstOperation(request)))
  BY DEF Submit
<1>2. PICK op \in Operation : op = FirstOperation(request)
  BY RequestsAssumption DEF Request, FirstOperation, Operation, Script
<1>3. /\ request \in Request /\ op # "limit"
      /\ op = "plan" <=> request = "repair_loop"
  BY <1>2, RequestsAssumption DEF Request, FirstOperation, Operation, Script
<1>4. PICK k : k = [Idle EXCEPT !.request = request]
  OBVIOUS
<1>5. k \in ClientRecord /\ k.request = request
  BY <1>3, <1>4, IdleRecord DEF ClientRecord
<1>6. PICK l : l = Start(k, op)
  OBVIOUS
<1>7. /\ l \in ClientRecord /\ l.op = op /\ l.request = request
      /\ l.todo # <<"cycles">>
      /\ LoopInv(l) => RequestInv(l)
  BY <1>5, <1>6, StartHolds
<1>8. LoopInv(l)
  BY <1>3, <1>7 DEF LoopInv
<1>9. UNCHANGED vars /\ Become(c, l)
  BY <1>1, <1>2, <1>4, <1>6 DEF Submit
<1>10. RequestInv(l)'
  BY <1>7, <1>8, <1>9, Waiting DEF ClientsInv
<1> QED BY <1>7, <1>9, <1>10, OneMoves

LEMMA StopHolds ==
  ASSUME ClientsInv, NEW c \in Client, Stop(c), Next \/ UNCHANGED vars
  PROVE  ClientsInv'
<1> PICK l \in ClientRecord : l = Idle
  BY IdleRecord
<1> QED BY OneMoves DEF Stop

\* m is the request with what it has just read.
LEMMA Advanced ==
  ASSUME NEW k \in ClientRecord, RequestInv(k), NEW m \in ClientRecord,
         m.op = k.op, m.todo = k.todo, m.request = k.request, m.left = k.left,
         Head(k.todo) # "commit", k.op = "plan" => Head(k.todo) # "cycles" /\ CriticalReview
  PROVE  \E l \in ClientRecord :
           /\ l = [m EXCEPT !.todo = Tail(@)]
           /\ l.op = k.op /\ l.base = m.base
           /\ l.todo = Tail(k.todo) /\ l.todo \in Phases(l.op)
           /\ l.validation = m.validation /\ l.sensitivity = m.sensitivity
           /\ l.robustness = m.robustness /\ l.review = m.review
           /\ l.identity = m.identity /\ l.cycles = m.cycles
           /\ LoopInv(l)
<1>1. k.op \in Operation /\ k.todo \in Phases(k.op)
  BY DEF RequestInv
<1>2. Tail(k.todo) \in Phases(k.op)
  BY <1>1, NextPhase
<1>3. PICK todo \in Todo : todo = Tail(k.todo)
  BY <1>1, <1>2 DEF Todo
<1>4. PICK l : l = [m EXCEPT !.todo = todo]
  OBVIOUS
<1>5. /\ l \in ClientRecord /\ l.op = k.op /\ l.base = m.base /\ l.todo = todo
      /\ l.validation = m.validation /\ l.sensitivity = m.sensitivity
      /\ l.robustness = m.robustness /\ l.review = m.review
      /\ l.identity = m.identity /\ l.cycles = m.cycles
      /\ l.left = k.left /\ l.request = k.request
  BY <1>4 DEF ClientRecord
<1>6. LoopInv(l)
  BY <1>5 DEF LoopInv, RequestInv
<1>7. l = [m EXCEPT !.todo = Tail(@)]
  BY <1>3, <1>4
<1> QED BY <1>2, <1>3, <1>5, <1>6, <1>7

LEMMA LoadHolds ==
  ASSUME ClientsInv, NEW c \in Client, Load(c)
  PROVE  ClientsInv'
<1>1. UNCHANGED vars /\ clients[c].todo # <<>> /\ Head(clients[c].todo) = "load"
  BY DEF Load, Local, At
<1> PICK k \in ClientRecord : k = clients[c] /\ RequestInv(k)
  BY <1>1, ActiveRequest
<1>2. CASE Stop(c)
  BY <1>1, <1>2, StopHolds
<1>3. CASE /\ EnterableFrom(k.op, proj.current_stage)
           /\ Advance(c, [k EXCEPT !.base = proj])
  <2>1. proj \in ProblemState /\ proj.version \in Nat
    BY Fields DEF ClientsInv, ProjectInv, TypeOK
  <2>2. PICK m : m = [k EXCEPT !.base = proj]
    OBVIOUS
  <2>3. /\ m \in ClientRecord /\ m.op = k.op /\ m.todo = k.todo /\ m.request = k.request
        /\ m.left = k.left /\ m.base = proj
        /\ m.validation = k.validation /\ m.sensitivity = k.sensitivity
        /\ m.robustness = k.robustness /\ m.review = k.review
        /\ m.identity = k.identity /\ m.cycles = k.cycles
    BY <2>1, <2>2 DEF ClientRecord
  <2>4. k.op \in Operation /\ k.todo \in Phases(k.op) /\ k.op # "plan"
    BY <1>1, PhaseHead DEF RequestInv
  <2>5. PICK l \in ClientRecord :
          /\ l = [m EXCEPT !.todo = Tail(@)]
          /\ l.op = k.op /\ l.base = m.base
          /\ l.todo = Tail(k.todo) /\ l.todo \in Phases(l.op)
          /\ l.validation = m.validation /\ l.sensitivity = m.sensitivity
          /\ l.robustness = m.robustness /\ l.review = m.review
          /\ l.identity = m.identity /\ l.cycles = m.cycles
          /\ LoopInv(l)
    BY <1>1, <2>3, <2>4, Advanced
  <2>6. /\ l.op = k.op /\ l.base = proj /\ l.todo = Tail(k.todo)
        /\ l.todo \in Phases(l.op) /\ LoopInv(l)
        /\ l.validation = k.validation /\ l.sensitivity = k.sensitivity
        /\ l.robustness = k.robustness /\ l.review = k.review
        /\ l.identity = k.identity /\ l.cycles = k.cycles
    BY <2>3, <2>5
  <2>7. /\ Head(l.todo) \in {"commit", "identity", "validation", "review"}
        /\ Head(l.todo) = "commit" => k.op \in {"reason", "data", "solve", "validate", "limit"}
    <3>1. Head(k.todo) = "load"
      BY <1>1
    <3>2. /\ Head(Tail(k.todo)) \in {"commit", "identity", "validation", "review"}
          /\ Head(Tail(k.todo)) = "commit" =>
               k.op \in {"reason", "data", "solve", "validate", "limit"}
      BY <2>4, <3>1, NextPhase
    <3> QED BY <2>6, <3>2
  <2>8. NothingRead(l)
    BY <1>1, <2>3, <2>6 DEF RequestInv, ReadInv, NothingRead
  <2>9. ReadInv(l)
    BY <2>6, <2>7, <2>8 DEF ReadInv
  <2>10. Fresh(l)
    BY <2>6, <2>7, <2>8, Tuples DEF Fresh, NothingRead, Unread
  <2>11. RequestInv(l)
    BY <1>3, <2>1, <2>4, <2>6, <2>9, <2>10 DEF RequestInv
  <2>12. RequestInv(l)'
    BY <1>1, <2>6, <2>11, Waiting DEF ClientsInv
  <2>13. Become(c, l)
    BY <1>3, <2>2, <2>5 DEF Advance
  <2> QED BY <1>1, <2>6, <2>12, <2>13, OneMoves
<1> QED BY <1>2, <1>3 DEF Load

\* l is m one step further.
Follows(l, m) ==
  /\ l.op = m.op /\ l.base = m.base /\ l.todo = Tail(m.todo)
  /\ l.validation = m.validation /\ l.sensitivity = m.sensitivity
  /\ l.robustness = m.robustness /\ l.review = m.review
  /\ l.identity = m.identity /\ l.cycles = m.cycles

LEMMA ReadHolds ==
  ASSUME ClientsInv, UNCHANGED vars, NEW c \in Client, NEW k \in ClientRecord, k = clients[c],
         RequestInv(k), Head(k.todo) \notin {"load", "commit"},
         k.op = "plan" => Head(k.todo) # "cycles" /\ CriticalReview,
         NEW m \in ClientRecord, Advance(c, m),
         m.op = k.op, m.todo = k.todo, m.request = k.request, m.left = k.left, m.base = k.base,
         \A l \in ClientRecord : Follows(l, m) =>
           /\ ReadInv(l)
           /\ k.op # "plan" /\ Fresh(k) => Fresh(l)
  PROVE  ClientsInv'
<1>1. PICK l \in ClientRecord :
        /\ l = [m EXCEPT !.todo = Tail(@)]
        /\ l.op = k.op /\ l.base = m.base
        /\ l.todo = Tail(k.todo) /\ l.todo \in Phases(l.op)
        /\ l.validation = m.validation /\ l.sensitivity = m.sensitivity
        /\ l.robustness = m.robustness /\ l.review = m.review
        /\ l.identity = m.identity /\ l.cycles = m.cycles
        /\ LoopInv(l)
  BY Advanced
<1>2. Follows(l, m)
  BY <1>1 DEF Follows
<1>3. ReadInv(l) /\ (k.op # "plan" /\ Fresh(k) => Fresh(l))
  BY <1>2
<1>4. RequestInv(l)
  BY <1>1, <1>3 DEF RequestInv
<1>5. RequestInv(l)'
  BY <1>4, Waiting DEF ClientsInv
<1>6. Become(c, l)
  BY <1>1 DEF Advance
<1> QED BY <1>5, <1>6, OneMoves

LEMMA NextModelVersionPositive ==
  ASSUME models \in Seq(ModelRow)
  PROVE  NextModelVersion \in Nat \ {0}
<1>1. CASE models = <<>>
  BY <1>1 DEF NextModelVersion
<1>2. CASE models # <<>>
  <2>1. PICK row \in ModelRow : row = models[Len(models)]
    BY <1>2
  <2>2. PICK version \in Nat : version = row.version
    BY DEF ModelRow
  <2>3. NextModelVersion = version + 1
    BY <1>2, <2>1, <2>2 DEF NextModelVersion, Latest
  <2> QED
    BY <2>3
<1> QED
  BY <1>1, <1>2

LEMMA ReadIdentityHolds ==
  ASSUME ClientsInv, NEW c \in Client, ReadIdentity(c)
  PROVE  ClientsInv'
<1>1. UNCHANGED vars /\ clients[c].todo # <<>> /\ Head(clients[c].todo) = "identity"
  BY DEF ReadIdentity, Local, At
<1>2. PICK k \in ClientRecord : k = clients[c] /\ RequestInv(k)
  BY <1>1, ActiveRequest
<1>3. PICK read \in Nat \ {0} : read = NextModelVersion
  BY NextModelVersionPositive DEF ClientsInv, ProjectInv, TypeOK
<1>4. PICK m : m = [k EXCEPT !.identity = read]
  OBVIOUS
<1>5. /\ m \in ClientRecord /\ m.op = k.op /\ m.todo = k.todo /\ m.request = k.request
      /\ m.left = k.left /\ m.base = k.base
      /\ m.validation = k.validation /\ m.sensitivity = k.sensitivity
      /\ m.robustness = k.robustness /\ m.review = k.review
      /\ m.identity = read /\ m.cycles = k.cycles
  BY <1>4 DEF ClientRecord
<1>6. k.op \in Operation /\ k.todo \in Phases(k.op) /\ k.op # "plan"
  BY <1>1, <1>2, PhaseHead DEF RequestInv
<1>7. ASSUME NEW l \in ClientRecord, Follows(l, m)
      PROVE  ReadInv(l) /\ (Fresh(k) => Fresh(l))
  <2>1. /\ l.op = k.op /\ l.todo = Tail(k.todo) /\ l.base = k.base /\ l.identity = read
        /\ l.validation = k.validation /\ l.sensitivity = k.sensitivity
        /\ l.robustness = k.robustness /\ l.review = k.review /\ l.cycles = k.cycles
    BY <1>5, <1>7 DEF Follows
  <2>2. Head(Tail(k.todo)) = "commit" /\ k.op \in {"build", "bind"}
    BY <1>1, <1>2, <1>6, NextPhase
  <2>3. ReadInv(l)
    BY <2>1, <2>2 DEF ReadInv
  <2>4. Fresh(k) => Fresh(l)
    BY <1>3, <2>1, <2>2 DEF Fresh, Unread
  <2> QED BY <2>3, <2>4
<1>8. Advance(c, m)
  BY <1>2, <1>3, <1>4 DEF ReadIdentity
<1> QED BY <1>1, <1>2, <1>5, <1>6, <1>7, <1>8, ReadHolds

\* The rows of a report table, whose latest is read.
LEMMA ReadReportHolds ==
  ASSUME ClientsInv, NEW c \in Client,
         NEW step \in {"validation", "sensitivity", "robustness"}, NEW Row, NEW rows \in Seq(Row),
         rows = CASE step = "validation" -> validation_runs
                  [] step = "sensitivity" -> sensitivity_runs
                  [] OTHER -> robustness_runs,
         ReadReport(c, step, rows)
  PROVE  ClientsInv'
<1>1. UNCHANGED vars /\ clients[c].todo # <<>> /\ Head(clients[c].todo) = step
  BY DEF ReadReport, Local, At
<1>2. PICK k \in ClientRecord : k = clients[c] /\ RequestInv(k)
  BY <1>1, ActiveRequest
<1>3. CASE Stop(c)
  BY <1>1, <1>3, StopHolds
<1>4. CASE rows # <<>> /\ Advance(c, [clients[c] EXCEPT ![step] = Latest(rows)])
  <2>1. PICK read \in Nat \ {0} : read = Len(rows)
    BY <1>4
  <2>2. PICK m : m = [k EXCEPT ![step] = read]
    OBVIOUS
  <2>3. /\ m \in ClientRecord /\ m.op = k.op /\ m.todo = k.todo /\ m.request = k.request
        /\ m.left = k.left /\ m.base = k.base
        /\ m.validation = IF step = "validation" THEN read ELSE k.validation
        /\ m.sensitivity = IF step = "sensitivity" THEN read ELSE k.sensitivity
        /\ m.robustness = IF step = "robustness" THEN read ELSE k.robustness
        /\ m.review = k.review /\ m.identity = k.identity /\ m.cycles = k.cycles
    <3>1. CASE step = "validation"
      BY <2>2, <3>1 DEF ClientRecord
    <3>2. CASE step = "sensitivity"
      BY <2>2, <3>2 DEF ClientRecord
    <3>3. CASE step = "robustness"
      BY <2>2, <3>3 DEF ClientRecord
    <3> QED BY <3>1, <3>2, <3>3
  <2>4. k.op \in Operation /\ k.todo \in Phases(k.op) /\ k.op # "plan"
    BY <1>1, <1>2, PhaseHead DEF RequestInv
  <2>5. ASSUME NEW l \in ClientRecord, Follows(l, m)
        PROVE  ReadInv(l) /\ (Fresh(k) => Fresh(l))
    <3>1. /\ l.op = k.op /\ l.todo = Tail(k.todo) /\ l.base = k.base
          /\ l.identity = k.identity /\ l.review = k.review /\ l.cycles = k.cycles
          /\ l.validation = IF step = "validation" THEN read ELSE k.validation
          /\ l.sensitivity = IF step = "sensitivity" THEN read ELSE k.sensitivity
          /\ l.robustness = IF step = "robustness" THEN read ELSE k.robustness
      BY <2>3, <2>5 DEF Follows
    <3>2. /\ step = "validation" =>
               \/ Head(Tail(k.todo)) = "commit" /\ k.op = "sensitivity"
               \/ Head(Tail(k.todo)) = "sensitivity"
          /\ step = "sensitivity" =>
               \/ Head(Tail(k.todo)) = "commit" /\ k.op = "robustness"
               \/ Head(Tail(k.todo)) = "robustness"
          /\ step = "robustness" => Head(Tail(k.todo)) = "commit" /\ k.op = "red_team"
      BY <1>1, <1>2, <2>4, NextPhase
    <3>3. ReadInv(k)
      BY <1>2 DEF RequestInv
    <3>4. ReadInv(l)
      BY <1>1, <1>2, <3>1, <3>2, <3>3 DEF ReadInv
    <3>5. l.todo = <<"commit">> => l.op # "repair"
      <4>1. ASSUME l.todo = <<"commit">> PROVE Head(Tail(k.todo)) = "commit"
        BY <3>1, <4>1, Tuples
      <4>2. Head(Tail(k.todo)) = "commit" => k.op # "repair"
        BY <3>2
      <4> QED BY <3>1, <4>1, <4>2
    <3>6. /\ step = "validation" => read = Latest(validation_runs)
          /\ step = "sensitivity" => read = Latest(sensitivity_runs)
          /\ step = "robustness" => read = Latest(robustness_runs)
      BY <2>1 DEF Latest
    <3>7. Fresh(k) => Fresh(l)
      BY <3>1, <3>5, <3>6 DEF Fresh, Unread
    <3> QED BY <3>4, <3>7
  <2>6. Advance(c, m)
    <3>1. Latest(rows) = read
      BY <2>1 DEF Latest
    <3>2. Advance(c, [k EXCEPT ![step] = read])
      BY <1>2, <1>4, <3>1
    <3> QED BY <2>2, <3>2
  <2> QED BY <1>1, <1>2, <2>3, <2>4, <2>5, <2>6, ReadHolds
<1> QED BY <1>3, <1>4 DEF ReadReport

LEMMA ReadReviewHolds ==
  ASSUME ClientsInv, NEW c \in Client, ReadReview(c)
  PROVE  ClientsInv'
<1>1. UNCHANGED vars /\ clients[c].todo # <<>> /\ Head(clients[c].todo) = "review"
  BY DEF ReadReview, Local, At
<1>2. PICK k \in ClientRecord : k = clients[c] /\ RequestInv(k)
  BY <1>1, ActiveRequest
<1>3. CASE Stop(c)
  BY <1>1, <1>3, StopHolds
<1>4. CASE /\ red_team_runs # <<>> /\ red_team_runs[Latest(red_team_runs)].critical
           /\ Advance(c, [clients[c] EXCEPT !.review = Latest(red_team_runs)])
  <2>1. red_team_runs \in Seq(RedTeamRow)
    BY DEF ClientsInv, ProjectInv, TypeOK
  <2>2. PICK read \in Nat \ {0} : read = Latest(red_team_runs) /\ read \in DOMAIN red_team_runs
    BY <1>4, <2>1 DEF Latest
  <2>3. PICK m : m = [k EXCEPT !.review = read]
    OBVIOUS
  <2>4. /\ m \in ClientRecord /\ m.op = k.op /\ m.todo = k.todo /\ m.request = k.request
        /\ m.left = k.left /\ m.base = k.base
        /\ m.validation = k.validation /\ m.sensitivity = k.sensitivity
        /\ m.robustness = k.robustness /\ m.review = read
        /\ m.identity = k.identity /\ m.cycles = k.cycles
    BY <2>3 DEF ClientRecord
  <2>5. k.op \in Operation /\ k.todo \in Phases(k.op) /\ CriticalReview
    BY <1>2, <1>4, <2>2 DEF RequestInv, CriticalReview
  <2>6. ASSUME NEW l \in ClientRecord, Follows(l, m)
        PROVE  ReadInv(l) /\ (Fresh(k) => Fresh(l))
    <3>1. /\ l.op = k.op /\ l.todo = Tail(k.todo) /\ l.base = k.base
          /\ l.identity = k.identity /\ l.review = read /\ l.cycles = k.cycles
          /\ l.validation = k.validation /\ l.sensitivity = k.sensitivity
          /\ l.robustness = k.robustness
      BY <2>4, <2>6 DEF Follows
    <3>2. Head(Tail(k.todo)) = "cycles"
      BY <1>1, <1>2, <2>5, NextPhase
    <3>3. ReadInv(l)
      BY <3>1, <3>2 DEF ReadInv
    <3>4. ASSUME l.todo = <<"commit">> PROVE FALSE
      <4>1. Head(Tail(k.todo)) = "commit"
        BY <3>1, <3>4, Tuples
      <4> QED BY <3>2, <4>1
    <3>5. red_team_runs[read].critical
      BY <1>4, <2>2
    <3>6. Fresh(k) => Fresh(l)
      BY <2>2, <3>1, <3>4, <3>5 DEF Fresh, Unread
    <3> QED BY <3>3, <3>6
  <2>7. Advance(c, m)
    BY <1>2, <1>4, <2>2, <2>3
  <2>8. Head(k.todo) \notin {"load", "commit"} /\ (k.op = "plan" => Head(k.todo) # "cycles")
    BY <1>1, <1>2
  <2> QED BY <1>1, <1>2, <2>4, <2>5, <2>6, <2>7, <2>8, ReadHolds
<1> QED BY <1>3, <1>4 DEF ReadReview

\* The loop goes on with a repair while it has cycles left, else records that
\* the cycles are exhausted.
LEMMA NextCycleHolds ==
  ASSUME ClientsInv, Next \/ UNCHANGED vars, NEW c \in Client, NEW k \in ClientRecord,
         k.request = "repair_loop", CriticalReview', RepairCycleCount' \in Nat,
         k.left + RepairCycleCount' >= MaxRepairCycles,
         Become(c, NextCycle(k))
  PROVE  ClientsInv'
<1>1. PICK op \in Operation : op = IF k.left = 0 THEN "limit" ELSE "repair"
  BY DEF Operation, Script
<1>2. PICK l : l = Start(k, op)
  OBVIOUS
<1>3. /\ l \in ClientRecord /\ l.op = op /\ l.request = k.request /\ l.left = k.left
      /\ LoopInv(l)' => RequestInv(l)'
  BY <1>2, StartHolds
<1>4. k.left \in Nat /\ MaxRepairCycles \in Nat
  BY MaxRepairCyclesAssumption DEF ClientRecord
<1>5. k.left = 0 => RepairCycleCount' >= MaxRepairCycles
  <2>1. PICK count \in Nat : count = RepairCycleCount'
    OBVIOUS
  <2>2. PICK left \in Nat : left = k.left
    BY <1>4
  <2>3. left + count >= MaxRepairCycles
    BY <2>1, <2>2
  <2>4. left = 0 => count >= MaxRepairCycles
    BY <1>4, <2>3
  <2> QED BY <2>1, <2>2, <2>4
<1>6. LoopInv(l)'
  BY <1>1, <1>3, <1>4, <1>5 DEF LoopInv
<1>7. Become(c, l)
  BY <1>1, <1>2 DEF NextCycle
<1> QED BY <1>3, <1>6, <1>7, OneMoves

LEMMA CountCyclesHolds ==
  ASSUME ClientsInv, NEW c \in Client, CountCycles(c)
  PROVE  ClientsInv'
<1>1. UNCHANGED vars /\ clients[c].todo # <<>> /\ Head(clients[c].todo) = "cycles"
  BY DEF CountCycles, Local, At
<1>2. PICK k \in ClientRecord : k = clients[c] /\ RequestInv(k)
  BY <1>1, ActiveRequest
<1>3. k.op \in Operation /\ k.todo \in Phases(k.op)
  BY <1>2 DEF RequestInv
<1>4. PICK count \in Nat : count = RepairCycleCount
  BY DEF ClientsInv, ProjectInv, TypeOK, RepairCycleCount
<1>5. RepairCycleCount' = RepairCycleCount /\ (CriticalReview => CriticalReview')
  BY <1>1 DEF RepairCycleCount, CriticalReview, vars, registries, reports
<1>6. CASE k.op = "plan"
  <2>1. k.todo = <<"cycles">> /\ k.request = "repair_loop" /\ CriticalReview
    BY <1>1, <1>2, <1>3, <1>6, PhaseHead DEF RequestInv, LoopInv
  <2>2. PICK left \in Nat : left = IF count < MaxRepairCycles THEN MaxRepairCycles - count ELSE 0
    BY MaxRepairCyclesAssumption
  <2>3. left = CyclesLeft /\ left + count >= MaxRepairCycles
    BY <1>4, <2>2, MaxRepairCyclesAssumption DEF CyclesLeft
  <2>4. PICK m : m = [k EXCEPT !.left = left]
    OBVIOUS
  <2>5. m \in ClientRecord /\ m.request = k.request /\ m.left = left
    BY <2>4 DEF ClientRecord
  <2>6. Become(c, NextCycle(m))
    BY <1>2, <1>6, <2>3, <2>4 DEF CountCycles
  <2>7. m.left + RepairCycleCount' >= MaxRepairCycles /\ RepairCycleCount' \in Nat
    BY <1>4, <1>5, <2>3, <2>5
  <2> QED BY <1>1, <1>5, <2>1, <2>5, <2>6, <2>7, NextCycleHolds
<1>7. CASE k.op # "plan"
  <2>1. PICK m : m = [k EXCEPT !.cycles = count]
    OBVIOUS
  <2>2. /\ m \in ClientRecord /\ m.op = k.op /\ m.todo = k.todo /\ m.request = k.request
        /\ m.left = k.left /\ m.base = k.base
        /\ m.validation = k.validation /\ m.sensitivity = k.sensitivity
        /\ m.robustness = k.robustness /\ m.review = k.review
        /\ m.identity = k.identity /\ m.cycles = count
    BY <2>1 DEF ClientRecord
  <2>3. ASSUME NEW l \in ClientRecord, Follows(l, m)
        PROVE  ReadInv(l) /\ (Fresh(k) => Fresh(l))
    <3>1. /\ l.op = k.op /\ l.todo = Tail(k.todo) /\ l.base = k.base
          /\ l.identity = k.identity /\ l.review = k.review /\ l.cycles = count
          /\ l.validation = k.validation /\ l.sensitivity = k.sensitivity
          /\ l.robustness = k.robustness
      BY <2>2, <2>3 DEF Follows
    <3>2. Head(Tail(k.todo)) = "commit" /\ k.op = "repair"
      BY <1>1, <1>2, <1>3, <1>7, NextPhase
    <3>3. k.review # 0
      BY <1>1, <1>2, <1>7 DEF RequestInv, ReadInv
    <3>4. ReadInv(l)
      BY <3>1, <3>2, <3>3 DEF ReadInv
    <3>5. Fresh(k) => Fresh(l)
      BY <1>4, <3>1 DEF Fresh
    <3> QED BY <3>4, <3>5
  <2>4. Advance(c, m)
    BY <1>2, <1>4, <1>7, <2>1 DEF CountCycles
  <2>5. Head(k.todo) \notin {"load", "commit"}
    BY <1>1, <1>2
  <2> QED BY <1>1, <1>2, <1>7, <2>2, <2>3, <2>4, <2>5, ReadHolds
<1> QED BY <1>6, <1>7

-----------------------------------------------------------------------------
(* The commits.  A revision can only be appended by a request whose base is  *)
(* the current one, so the operation it ran happens now.                     *)

LEMMA CommitReady ==
  ASSUME ClientsInv, NEW c \in Client, At(c, "commit")
  PROVE  \E k \in ClientRecord :
           /\ k = clients[c] /\ RequestInv(k) /\ ReadInv(k) /\ LoopInv(k)
           /\ k.op \in Operation \ {"plan"} /\ k.todo = <<"commit">>
           /\ Head(k.todo) = "commit"
           /\ EnterableFrom(k.op, k.base.current_stage)
           /\ k.base \in ProblemState
           /\ \A next : next.version = k.base.version + 1 /\ AppendRevision(next) => Fresh(k)
<1>1. clients[c].todo # <<>> /\ Head(clients[c].todo) = "commit"
  BY DEF At
<1>2. PICK k \in ClientRecord : k = clients[c] /\ RequestInv(k)
  BY <1>1, ActiveRequest
<1>3. k.op \in Operation \ {"plan"} /\ k.todo = <<"commit">>
  BY <1>1, <1>2, PhaseHead DEF RequestInv
<1>4. k.base \in ProblemState
  BY DEF ClientRecord
<1>5. k.base.version \in Nat /\ proj.version \in Nat
  BY <1>4, Fields DEF ClientsInv, ProjectInv, TypeOK
<1>6. /\ ReadInv(k) /\ LoopInv(k) /\ EnterableFrom(k.op, k.base.current_stage)
      /\ k.base.version = proj.version => Fresh(k)
  BY <1>1, <1>2, <1>3 DEF RequestInv
<1>7. ASSUME NEW next, next.version = k.base.version + 1, AppendRevision(next)
      PROVE  Fresh(k)
  <2>1. proj.version + 1 = k.base.version + 1
    BY <1>7 DEF AppendRevision, FollowsCurrent
  <2> QED BY <1>5, <1>6, <2>1
<1> QED BY <1>1, <1>2, <1>3, <1>4, <1>6, <1>7

\* A composite request goes on with the operation op.
LEMMA ContinueHolds ==
  ASSUME ClientsInv, Next, NEW c \in Client, NEW k \in ClientRecord,
         NEW op \in {"solve", "validate", "sensitivity", "robustness", "red_team"},
         k.request = "repair_loop" =>
           k.left # 0 /\ k.left + RepairCycleCount' >= MaxRepairCycles + 1,
         Become(c, Start(k, op))
  PROVE  ClientsInv'
<1>1. op \in Operation
  BY DEF Operation, Script
<1>2. PICK l : l = Start(k, op)
  OBVIOUS
<1>3. /\ l \in ClientRecord /\ l.op = op /\ l.request = k.request /\ l.left = k.left
      /\ LoopInv(l)' => RequestInv(l)'
  BY <1>1, <1>2, StartHolds
<1>4. LoopInv(l)'
  BY <1>3 DEF LoopInv
<1> QED BY <1>2, <1>3, <1>4, OneMoves

\* The cycles of the loop are still accounted for after a step.
LEMMA LoopGoesOn ==
  ASSUME ClientsInv, Next, NEW k \in ClientRecord, LoopInv(k), k.request = "repair_loop",
         k.op \in {"solve", "validate", "sensitivity", "robustness", "red_team"}
  PROVE  k.left # 0 /\ k.left + RepairCycleCount' >= MaxRepairCycles + 1
<1>1. k.left # 0 /\ k.left + RepairCycleCount >= MaxRepairCycles + 1
  BY DEF LoopInv
<1>2. PICK left \in Nat : left = k.left
  BY DEF ClientRecord
<1>3. PICK before \in Nat, after \in Nat :
        before = RepairCycleCount /\ after = RepairCycleCount' /\ before <= after
  BY NextAppends DEF ClientsInv
<1>4. left + after >= MaxRepairCycles + 1
  BY <1>1, <1>2, <1>3, MaxRepairCyclesAssumption
<1> QED BY <1>1, <1>2, <1>3, <1>4

LEMMA CommitReasonHolds ==
  ASSUME ClientsInv, NEW c \in Client, CommitReason(c)
  PROVE  Reason /\ ClientsInv'
<1>1. At(c, "commit") /\ clients[c].op = "reason"
  BY DEF CommitReason, Committing
<1>2. PICK k \in ClientRecord :
        /\ k = clients[c] /\ k.base \in ProblemState
        /\ \A next : next.version = k.base.version + 1 /\ AppendRevision(next) => Fresh(k)
  BY <1>1, CommitReady
<1>3. PICK stage \in {"UNDERSTAND", "EXPLORE", "SELECT"} :
        CanEnter(k.base.current_stage, stage) /\ PersistReasoning(k.base, stage)
  BY <1>2 DEF CommitReason, TargetStages
<1>4. k.base = proj
  BY <1>2, <1>3, ReasoningStateFields DEF PersistReasoning, Fresh
<1>5. Reason
  BY <1>3, <1>4 DEF Reason
<1>6. Stop(c)
  BY DEF CommitReason, Finish
<1> QED BY <1>5, <1>6, StopHolds DEF Next

LEMMA CommitDataHolds ==
  ASSUME ClientsInv, NEW c \in Client, CommitData(c)
  PROVE  ReviseData /\ ClientsInv'
<1>1. At(c, "commit")
  BY DEF CommitData, Committing
<1>2. PICK k \in ClientRecord :
        /\ k = clients[c] /\ k.base \in ProblemState
        /\ \A next : next.version = k.base.version + 1 /\ AppendRevision(next) => Fresh(k)
  BY <1>1, CommitReady
<1>3. PersistData(k.base) /\ Stop(c)
  BY <1>2 DEF CommitData, Finish
<1>4. k.base = proj
  BY <1>2, <1>3, DataStateFields DEF PersistData, Fresh
<1>5. ReviseData
  BY <1>3, <1>4 DEF ReviseData
<1> QED BY <1>3, <1>5, StopHolds DEF Next

LEMMA CommitModelHolds ==
  ASSUME ClientsInv, NEW c \in Client, CommitModel(c)
  PROVE  (BuildModel \/ BindReviewedModel) /\ ClientsInv'
<1>1. At(c, "commit") /\ clients[c].op \in {"build", "bind"}
  BY DEF CommitModel, Committing
<1>2. PICK k \in ClientRecord :
        /\ k = clients[c] /\ k.base \in ProblemState /\ ReadInv(k)
        /\ Head(k.todo) = "commit" /\ EnterableFrom(k.op, k.base.current_stage)
        /\ \A next : next.version = k.base.version + 1 /\ AppendRevision(next) => Fresh(k)
  BY <1>1, CommitReady
<1>3. \/ k.op = "build" /\ PersistModel(k.base, k.identity)
      \/ /\ k.op = "bind" /\ k.identity = 1
         /\ \E version \in ReviewedVersions : PersistModel(k.base, version)
  BY <1>2 DEF CommitModel, Committing
<1>4. Fresh(k)
  <2>1. PICK version : PersistModel(k.base, version)
    BY <1>3
  <2> QED BY <1>2, <2>1, ModelStateFields DEF PersistModel
<1>5. k.base = proj /\ k.identity = NextModelVersion
  BY <1>1, <1>2, <1>4 DEF Fresh, ReadInv, Unread
<1>6. CanEnter(proj.current_stage, "MODEL")
  BY <1>1, <1>2, <1>5 DEF EnterableFrom, TargetStages
<1>7. BuildModel \/ BindReviewedModel
  BY <1>3, <1>5, <1>6 DEF BuildModel, BindReviewedModel
<1>8. CASE k.request \in {"mathematical_run", "reviewed_run"}
  <2>1. Become(c, Start(k, "solve"))
    BY <1>2, <1>8 DEF CommitModel, Finish, Continue
  <2> QED BY <1>7, <1>8, <2>1, ContinueHolds DEF Next
<1>9. CASE k.request \notin {"mathematical_run", "reviewed_run"}
  <2>1. Stop(c)
    BY <1>2, <1>9 DEF CommitModel, Finish
  <2> QED BY <1>7, <2>1, StopHolds DEF Next
<1> QED BY <1>7, <1>8, <1>9

LEMMA CommitSolveHolds ==
  ASSUME ClientsInv, NEW c \in Client, CommitSolve(c)
  PROVE  Solve /\ ClientsInv'
<1>1. At(c, "commit") /\ clients[c].op = "solve"
  BY DEF CommitSolve, Committing
<1>2. PICK k \in ClientRecord :
        /\ k = clients[c] /\ k.base \in ProblemState /\ LoopInv(k)
        /\ EnterableFrom(k.op, k.base.current_stage)
        /\ \A next : next.version = k.base.version + 1 /\ AppendRevision(next) => Fresh(k)
  BY <1>1, CommitReady
<1>3. PICK gate \in {"PASS", "RETRY"}, credible \in BOOLEAN :
        /\ PersistSolve(k.base, gate, credible)
        /\ \/ k.request = "repair_loop" /\ Become(c, Start(k, "validate"))
           \/ MayRetry(k) /\ Become(c, Start([k EXCEPT !.attempts = @ + 1], "solve"))
           \/ Stop(c)
  BY <1>2 DEF CommitSolve, Continue
<1>4. k.base = proj
  BY <1>2, <1>3, SolveStateFields DEF PersistSolve, Fresh
<1>5. CanEnter(proj.current_stage, "SOLVE")
  BY <1>1, <1>2, <1>4 DEF EnterableFrom, TargetStages
<1>6. proj.mathematical_model # 0
  <2>1. proj.current_stage \in {"MODEL", "MODEL_REPAIR"}
    BY <1>5, Enters, Fields DEF ClientsInv, ProjectInv, TypeOK
  <2> QED BY <2>1 DEF ClientsInv, ProjectInv, Modelled
<1>7. Solve
  BY <1>3, <1>4, <1>5, <1>6 DEF Solve
<1>8. CASE k.request = "repair_loop" /\ Become(c, Start(k, "validate"))
  BY <1>1, <1>2, <1>7, <1>8, LoopGoesOn, ContinueHolds DEF Next
<1>9. CASE MayRetry(k) /\ Become(c, Start([k EXCEPT !.attempts = @ + 1], "solve"))
  <2>1. PICK attempts \in Nat : attempts = k.attempts + 1
    BY DEF ClientRecord
  <2>2. PICK m : m = [k EXCEPT !.attempts = attempts]
    OBVIOUS
  <2>3. m \in ClientRecord /\ m.request = k.request
    BY <2>2 DEF ClientRecord
  <2>4. Become(c, Start(m, "solve")) /\ m.request # "repair_loop"
    BY <1>9, <2>1, <2>2, <2>3 DEF MayRetry
  <2> QED BY <1>7, <2>3, <2>4, ContinueHolds DEF Next
<1>10. CASE Stop(c)
  BY <1>7, <1>10, StopHolds DEF Next
<1> QED BY <1>3, <1>7, <1>8, <1>9, <1>10

\* A report that was read is there.
LEMMA WasRead ==
  ASSUME NEW rows, NEW read, read # 0, read = Latest(rows)
  PROVE  rows # <<>>
<1>1. Len(<<>>) = 0
  OBVIOUS
<1> QED BY <1>1 DEF Latest

\* A registry that grew has a last row.
LEMMA Grown ==
  ASSUME NEW Row, NEW rows \in Seq(Row), NEW row, NEW grown, grown = Append(rows, row)
  PROVE  Len(grown) = Len(rows) + 1 /\ Latest(grown) \in DOMAIN grown
BY DEF Latest

LEMMA CommitValidationHolds ==
  ASSUME ClientsInv, NEW c \in Client, CommitValidation(c)
  PROVE  Validate /\ ClientsInv'
<1>1. At(c, "commit") /\ clients[c].op = "validate"
  BY DEF CommitValidation, Committing
<1>2. PICK k \in ClientRecord :
        /\ k = clients[c] /\ k.base \in ProblemState /\ LoopInv(k)
        /\ EnterableFrom(k.op, k.base.current_stage)
        /\ \A next : next.version = k.base.version + 1 /\ AppendRevision(next) => Fresh(k)
  BY <1>1, CommitReady
<1>3. PICK result \in RegisteredResults(k.base), gate \in Gate :
        /\ gate \in ValidationVerdict(results[result])
        /\ InContext(k.base, result)
        /\ PersistValidation(k.base, result, gate)
        /\ Finish(c, RunsOn(c, gate), "sensitivity")
  BY <1>2 DEF CommitValidation, ValidationVerdict, Gate
<1>4. k.base = proj
  BY <1>2, <1>3, ValidationStateFields DEF PersistValidation, Fresh
<1>5. CanEnter(proj.current_stage, "VALIDATE")
  BY <1>1, <1>2, <1>4 DEF EnterableFrom, TargetStages
<1>6. Validate
  BY <1>3, <1>4, <1>5 DEF Validate
<1>7. CASE Become(c, Start(k, "sensitivity"))
  BY <1>1, <1>2, <1>6, <1>7, LoopGoesOn, ContinueHolds DEF Next
<1>8. CASE Stop(c)
  BY <1>6, <1>8, StopHolds DEF Next
<1> QED BY <1>2, <1>3, <1>6, <1>7, <1>8 DEF Finish, Continue

LEMMA CommitSensitivityHolds ==
  ASSUME ClientsInv, NEW c \in Client, CommitSensitivity(c)
  PROVE  Sensitivity /\ ClientsInv'
<1>1. At(c, "commit") /\ clients[c].op = "sensitivity"
  BY DEF CommitSensitivity, Committing
<1>2. PICK k \in ClientRecord :
        /\ k = clients[c] /\ k.base \in ProblemState /\ LoopInv(k) /\ ReadInv(k)
        /\ Head(k.todo) = "commit" /\ EnterableFrom(k.op, k.base.current_stage)
        /\ \A next : next.version = k.base.version + 1 /\ AppendRevision(next) => Fresh(k)
  BY <1>1, CommitReady
<1>3. PICK val : val = k.validation
  OBVIOUS
<1>4. InContext(k.base, validation_runs[val].result)
  BY <1>2, <1>3 DEF CommitSensitivity
<1>5. PICK gate \in SensitivityVerdict(validation_runs[val]) :
        PersistSensitivity(k.base, val, gate) /\ Finish(c, RunsOn(c, gate), "robustness")
  BY <1>2, <1>3 DEF CommitSensitivity
<1>6. Fresh(k)
  BY <1>2, <1>5, SensitivityStateFields DEF PersistSensitivity
<1>7. k.base = proj /\ val = Latest(validation_runs) /\ val # 0
  BY <1>1, <1>2, <1>3, <1>6 DEF Fresh, ReadInv, Unread
<1>8. CanEnter(proj.current_stage, "SENSITIVITY") /\ validation_runs # <<>>
  BY <1>1, <1>2, <1>7, WasRead DEF EnterableFrom, TargetStages
<1>9. Sensitivity
  BY <1>4, <1>5, <1>7, <1>8 DEF Sensitivity
<1>10. CASE Become(c, Start(k, "robustness"))
  BY <1>1, <1>2, <1>9, <1>10, LoopGoesOn, ContinueHolds DEF Next
<1>11. CASE Stop(c)
  BY <1>9, <1>11, StopHolds DEF Next
<1> QED BY <1>2, <1>5, <1>9, <1>10, <1>11 DEF Finish, Continue

LEMMA CommitRobustnessHolds ==
  ASSUME ClientsInv, NEW c \in Client, CommitRobustness(c)
  PROVE  Robustness /\ ClientsInv'
<1>1. At(c, "commit") /\ clients[c].op = "robustness"
  BY DEF CommitRobustness, Committing
<1>2. PICK k \in ClientRecord :
        /\ k = clients[c] /\ k.base \in ProblemState /\ LoopInv(k) /\ ReadInv(k)
        /\ Head(k.todo) = "commit" /\ EnterableFrom(k.op, k.base.current_stage)
        /\ \A next : next.version = k.base.version + 1 /\ AppendRevision(next) => Fresh(k)
  BY <1>1, CommitReady
<1>3. PICK val, sens : val = k.validation /\ sens = k.sensitivity
  OBVIOUS
<1>4. InContext(k.base, validation_runs[val].result)
  BY <1>2, <1>3 DEF CommitRobustness
<1>5. PICK gate \in RobustnessVerdict(validation_runs[val], sensitivity_runs[sens]) :
        PersistRobustness(k.base, val, sens, gate) /\ Finish(c, RunsOn(c, gate), "red_team")
  BY <1>2, <1>3 DEF CommitRobustness
<1>6. Fresh(k)
  BY <1>2, <1>5, RobustnessStateFields DEF PersistRobustness
<1>7. /\ k.base = proj /\ val = Latest(validation_runs) /\ val # 0
      /\ sens = Latest(sensitivity_runs) /\ sens # 0
  BY <1>1, <1>2, <1>3, <1>6 DEF Fresh, ReadInv, Unread
<1>8. /\ CanEnter(proj.current_stage, "ROBUSTNESS")
      /\ validation_runs # <<>> /\ sensitivity_runs # <<>>
  BY <1>1, <1>2, <1>7, WasRead DEF EnterableFrom, TargetStages
<1>9. Robustness
  BY <1>4, <1>5, <1>7, <1>8 DEF Robustness
<1>10. CASE Become(c, Start(k, "red_team"))
  BY <1>1, <1>2, <1>9, <1>10, LoopGoesOn, ContinueHolds DEF Next
<1>11. CASE Stop(c)
  BY <1>9, <1>11, StopHolds DEF Next
<1> QED BY <1>2, <1>5, <1>9, <1>10, <1>11 DEF Finish, Continue

LEMMA CommitRedTeamHolds ==
  ASSUME ClientsInv, NEW c \in Client, CommitRedTeam(c)
  PROVE  RedTeam /\ ClientsInv'
<1>1. At(c, "commit") /\ clients[c].op = "red_team"
  BY DEF CommitRedTeam, Committing
<1>2. PICK k \in ClientRecord :
        /\ k = clients[c] /\ k.base \in ProblemState /\ LoopInv(k) /\ ReadInv(k)
        /\ Head(k.todo) = "commit" /\ EnterableFrom(k.op, k.base.current_stage)
        /\ \A next : next.version = k.base.version + 1 /\ AppendRevision(next) => Fresh(k)
  BY <1>1, CommitReady
<1>3. PICK val, sens, rob : val = k.validation /\ sens = k.sensitivity /\ rob = k.robustness
  OBVIOUS
<1>4. InContext(k.base, validation_runs[val].result)
  BY <1>2, <1>3 DEF CommitRedTeam
<1>5. PICK critical \in BOOLEAN, mock \in BOOLEAN, integral \in BOOLEAN :
        /\ PersistRedTeam(k.base, val, sens, rob, critical, mock, integral)
        /\ \/ /\ k.request = "repair_loop"
              /\ red_team_runs'[Latest(red_team_runs')].critical
              /\ Become(c, NextCycle([k EXCEPT !.left = @ - 1]))
           \/ Stop(c)
  BY <1>2, <1>3 DEF CommitRedTeam
<1>6. Fresh(k)
  BY <1>2, <1>5, RedTeamStateFields DEF PersistRedTeam
<1>7. /\ k.base = proj /\ val = Latest(validation_runs) /\ val # 0
      /\ sens = Latest(sensitivity_runs) /\ sens # 0
      /\ rob = Latest(robustness_runs) /\ rob # 0
  BY <1>1, <1>2, <1>3, <1>6 DEF Fresh, ReadInv, Unread
<1>8. /\ CanEnter(proj.current_stage, "RED_TEAM")
      /\ validation_runs # <<>> /\ sensitivity_runs # <<>> /\ robustness_runs # <<>>
  BY <1>1, <1>2, <1>7, WasRead DEF EnterableFrom, TargetStages
<1>9. RedTeam
  BY <1>4, <1>5, <1>7, <1>8 DEF RedTeam
<1>10. CASE /\ k.request = "repair_loop"
            /\ red_team_runs'[Latest(red_team_runs')].critical
            /\ Become(c, NextCycle([k EXCEPT !.left = @ - 1]))
  <2>1. k.left # 0 /\ k.left + RepairCycleCount' >= MaxRepairCycles + 1
    BY <1>1, <1>2, <1>9, <1>10, LoopGoesOn DEF Next
  <2>2. PICK after \in Nat : after = RepairCycleCount'
    BY <1>9, NextAppends DEF ClientsInv, Next
  <2>3. PICK left \in Nat : left = k.left - 1 /\ left + after >= MaxRepairCycles
    <3>1. PICK n \in Nat : n = k.left
      BY DEF ClientRecord
    <3>2. n # 0 /\ n + after >= MaxRepairCycles + 1
      BY <2>1, <2>2, <3>1
    <3>3. n - 1 \in Nat /\ (n - 1) + after >= MaxRepairCycles
      BY <3>2, MaxRepairCyclesAssumption
    <3> QED BY <3>1, <3>3
  <2>4. PICK m : m = [k EXCEPT !.left = left]
    OBVIOUS
  <2>5. m \in ClientRecord /\ m.request = k.request /\ m.left = left
    BY <2>4 DEF ClientRecord
  <2>6. Become(c, NextCycle(m))
    BY <1>10, <2>3, <2>4
  <2>7. CriticalReview'
    <3>1. red_team_runs \in Seq(RedTeamRow)
      BY DEF ClientsInv, ProjectInv, TypeOK
    <3>2. PICK row : red_team_runs' = Append(red_team_runs, row)
      BY <1>5 DEF PersistRedTeam, Adds
    <3>3. Latest(red_team_runs') \in DOMAIN red_team_runs'
      BY <3>1, <3>2, Grown
    <3> QED BY <1>10, <3>3 DEF CriticalReview
  <2> QED BY <1>9, <1>10, <2>2, <2>3, <2>5, <2>6, <2>7, NextCycleHolds DEF Next
<1>11. CASE Stop(c)
  BY <1>9, <1>11, StopHolds DEF Next
<1> QED BY <1>5, <1>9, <1>10, <1>11

LEMMA RepairLimitReached ==
  ASSUME ClientsInv, PersistRepairLimit(proj), CriticalReview, RepairCycleCount >= MaxRepairCycles
  PROVE  MarkRepairLimit
BY DEF MarkRepairLimit, CriticalReview

LEMMA CommitRepairLimitHolds ==
  ASSUME ClientsInv, NEW c \in Client, CommitRepairLimit(c)
  PROVE  MarkRepairLimit /\ ClientsInv'
<1>1. At(c, "commit") /\ clients[c].op = "limit"
  BY DEF CommitRepairLimit, Committing
<1>2. PICK k \in ClientRecord :
        /\ k = clients[c] /\ k.base \in ProblemState /\ LoopInv(k)
        /\ \A next : next.version = k.base.version + 1 /\ AppendRevision(next) => Fresh(k)
  BY <1>1, CommitReady
<1>3. PersistRepairLimit(k.base) /\ Stop(c)
  BY <1>2 DEF CommitRepairLimit, Finish
<1>4. k.base = proj
  BY <1>2, <1>3, RepairLimitStateFields DEF PersistRepairLimit, Fresh
<1>5. CriticalReview /\ RepairCycleCount >= MaxRepairCycles
  BY <1>1, <1>2 DEF LoopInv
<1>6. MarkRepairLimit
  BY <1>3, <1>4, <1>5, RepairLimitReached
<1> QED BY <1>3, <1>6, StopHolds DEF Next

LEMMA CommitRepairHolds ==
  ASSUME ClientsInv, NEW c \in Client, CommitRepair(c)
  PROVE  (Repair \/ MarkRepairLimit) /\ ClientsInv'
<1>1. At(c, "commit") /\ clients[c].op = "repair"
  BY DEF CommitRepair, Committing
<1>2. PICK k \in ClientRecord :
        /\ k = clients[c] /\ k.base \in ProblemState /\ LoopInv(k) /\ ReadInv(k)
        /\ Head(k.todo) = "commit" /\ k.todo = <<"commit">>
        /\ EnterableFrom(k.op, k.base.current_stage)
        /\ \A next : next.version = k.base.version + 1 /\ AppendRevision(next) => Fresh(k)
  BY <1>1, CommitReady
<1>3. InContext(k.base, red_team_runs[k.review].result)
  BY <1>2 DEF CommitRepair
<1>4. CASE k.cycles < MaxRepairCycles
  <2>1. PICK status \in RepairStatus :
          /\ PersistRepair(k.base, k.review, k.cycles + 1, status)
          /\ Finish(c, status = "ACCEPTED" /\ k.request = "repair_loop", "solve")
    BY <1>2, <1>4 DEF CommitRepair
  <2>2. Fresh(k)
    BY <1>2, <2>1, RepairStateFields DEF PersistRepair
  <2>3. /\ k.base = proj /\ k.review = Latest(red_team_runs) /\ k.review # 0
        /\ red_team_runs[k.review].critical /\ k.cycles = RepairCycleCount
    BY <1>1, <1>2, <2>2 DEF Fresh, ReadInv, Unread
  <2>4. CanEnter(proj.current_stage, "MODEL_REPAIR") /\ red_team_runs # <<>>
    BY <1>1, <1>2, <2>3, WasRead DEF EnterableFrom, TargetStages
  <2>5. Repair
    BY <1>3, <1>4, <2>1, <2>3, <2>4 DEF Repair
  <2>6. CASE k.request = "repair_loop" /\ Become(c, Start(k, "solve"))
    <3>1. k.left # 0 /\ k.left + RepairCycleCount >= MaxRepairCycles
      BY <1>1, <1>2, <2>6 DEF LoopInv
    <3>2. PICK left \in Nat, before \in Nat : left = k.left /\ before = RepairCycleCount
      BY <2>3 DEF ClientRecord
    <3>3. RepairCycleCount' = before + 1
      <4>1. repair_cycles \in Seq(RepairRow)
        BY DEF ClientsInv, ProjectInv, TypeOK
      <4>2. PICK row : repair_cycles' = Append(repair_cycles, row)
        BY <2>1 DEF PersistRepair, Adds
      <4> QED BY <3>2, <4>1, <4>2, Grown DEF RepairCycleCount
    <3>4. left + (before + 1) >= MaxRepairCycles + 1
      BY <3>1, <3>2, MaxRepairCyclesAssumption
    <3> QED BY <2>5, <2>6, <3>1, <3>2, <3>3, <3>4, ContinueHolds DEF Next
  <2>7. CASE Stop(c)
    BY <2>5, <2>7, StopHolds DEF Next
  <2> QED BY <1>2, <2>1, <2>5, <2>6, <2>7 DEF Finish, Continue
<1>5. CASE ~(k.cycles < MaxRepairCycles)
  <2>1. PersistRepairLimit(k.base) /\ Stop(c)
    BY <1>2, <1>5 DEF CommitRepair, Finish
  <2>2. Fresh(k)
    BY <1>2, <2>1, RepairLimitStateFields DEF PersistRepairLimit
  <2>3. /\ k.base = proj /\ k.review = Latest(red_team_runs) /\ k.review # 0
        /\ red_team_runs[k.review].critical /\ k.cycles = RepairCycleCount
    BY <1>1, <1>2, <2>2 DEF Fresh, ReadInv, Unread
  <2>4. CriticalReview
    <3>1. red_team_runs \in Seq(RedTeamRow)
      BY DEF ClientsInv, ProjectInv, TypeOK
    <3>2. red_team_runs # <<>>
      BY <2>3, WasRead
    <3>3. k.review \in DOMAIN red_team_runs
      BY <2>3, <3>1, <3>2 DEF Latest
    <3> QED BY <2>3, <3>3 DEF CriticalReview
  <2>5. RepairCycleCount >= MaxRepairCycles
    BY <1>5, <2>3, MaxRepairCyclesAssumption DEF ClientRecord
  <2>6. MarkRepairLimit
    BY <2>1, <2>3, <2>4, <2>5, RepairLimitReached
  <2> QED BY <2>1, <2>6, StopHolds DEF Next
<1> QED BY <1>4, <1>5

-----------------------------------------------------------------------------
(* The theorems about the requests.                                          *)

LEMMA ClientsInitHolds == ClientsInit => ClientsInv
<1> SUFFICES ASSUME ClientsInit PROVE ClientsInv
  OBVIOUS
<1>1. Init
  BY DEF ClientsInit
<1>2. TypeOK /\ PrerequisitesReady /\ LineageInv
  BY <1>1, InitTypeOK, InitReady, InitLineage
<1>3. Modelled
  <2>1. PICK stage \in {"INGEST", "SELECT"} : proj = ProjectAt(stage)
    BY <1>1, InitialStagesAssumption DEF Init
  <2> QED BY <2>1 DEF ProjectAt, Modelled
<1>4. \A c \in Client : clients[c] = Idle
  BY DEF ClientsInit
<1>5. clients \in [Client -> ClientRecord]
  BY IdleRecord DEF ClientsInit
<1> QED BY <1>2, <1>3, <1>4, <1>5 DEF ClientsInv, ProjectInv

\* Every step of the requests keeps the invariant and is a step of the
\* specification of the operations, or leaves the project alone.
LEMMA ClientsNextHolds ==
  ClientsInv /\ [ClientsNext]_clientVars => ClientsInv' /\ [Next]_vars
<1> SUFFICES ASSUME ClientsInv, [ClientsNext]_clientVars PROVE ClientsInv' /\ [Next]_vars
  OBVIOUS
<1>1. CASE UNCHANGED clientVars
  <2>1. UNCHANGED vars /\ clients' = clients
    BY <1>1 DEF clientVars
  <2>2. ProjectInv'
    BY <2>1, ProjectStep DEF ClientsInv
  <2>3. ASSUME NEW c \in Client PROVE clients'[c] = Idle' \/ RequestInv(clients[c])'
    <3> PICK k \in ClientRecord : k = clients[c]
      BY DEF ClientsInv
    <3>1. k = Idle \/ RequestInv(k)
      BY DEF ClientsInv
    <3>2. RequestInv(k) => RequestInv(k)'
      BY <2>1, Waiting DEF ClientsInv
    <3> QED BY <2>1, <3>1, <3>2 DEF Idle
  <2> QED BY <2>1, <2>2, <2>3 DEF ClientsInv
<1>2. ASSUME NEW c \in Client, Submit(c) \/ Proceed(c) \/ Abandon(c)
      PROVE  ClientsInv' /\ [Next]_vars
  <2>1. CASE Submit(c)
    BY <2>1, SubmitHolds DEF Submit
  <2>2. CASE Read(c)
    <3>1. CASE Load(c)
      BY <3>1, LoadHolds DEF Load, Local
    <3>2. CASE ReadIdentity(c)
      BY <3>2, ReadIdentityHolds DEF ReadIdentity, Local
    <3>3. CASE ReadReview(c)
      BY <3>3, ReadReviewHolds DEF ReadReview, Local
    <3>4. CASE CountCycles(c)
      BY <3>4, CountCyclesHolds DEF CountCycles, Local
    <3>5. CASE ReadValidation(c)
      BY <3>5, ReadReportHolds
         DEF ReadValidation, ReadReport, Local, ClientsInv, ProjectInv, TypeOK
    <3>6. CASE ReadSensitivity(c)
      BY <3>6, ReadReportHolds
         DEF ReadSensitivity, ReadReport, Local, ClientsInv, ProjectInv, TypeOK
    <3>7. CASE ReadRobustness(c)
      BY <3>7, ReadReportHolds
         DEF ReadRobustness, ReadReport, Local, ClientsInv, ProjectInv, TypeOK
    <3> QED BY <2>2, <3>1, <3>2, <3>3, <3>4, <3>5, <3>6, <3>7 DEF Read
  <2>3. CASE Commit(c)
    BY <2>3, CommitReasonHolds, CommitDataHolds, CommitModelHolds, CommitSolveHolds,
       CommitValidationHolds, CommitSensitivityHolds, CommitRobustnessHolds,
       CommitRedTeamHolds, CommitRepairHolds, CommitRepairLimitHolds DEF Commit, Next
  <2>4. CASE Refuse(c) \/ Abandon(c)
    BY <2>4, StopHolds DEF Refuse, Abandon, Local
  <2> QED BY <1>2, <2>1, <2>2, <2>3, <2>4 DEF Proceed
<1> QED BY <1>1, <1>2 DEF ClientsNext

LEMMA ClientsInvariance == ClientsSpec => []ClientsInv
BY ClientsInitHolds, ClientsNextHolds, PTL DEF ClientsSpec

\* However the requests of a project interleave, wherever each of them is when
\* another one commits, and however many are refused or abandoned on the way:
\* the project and its registries go through a history in which every operation
\* (BuildMathematicalModelWorkflow.run and its siblings) ran alone and at once.
THEOREM ImplementsVerificationCorrectness == ClientsSpec => ImplementsVerification
<1>1. ClientsInit => Init
  BY DEF ClientsInit
<1> QED
  BY <1>1, ClientsInvariance, ClientsNextHolds, PTL DEF ClientsSpec, ImplementsVerification, Spec

\* A request whose base revision is still current has read, in its separate
\* transactions, what one transaction would have read: the revision check at
\* the end (persist_state) covers the reports too.
THEOREM FreshReadsCorrectness == ClientsSpec => []FreshReads
<1>1. ClientsInv => FreshReads
  <2> SUFFICES ASSUME ClientsInv, NEW c \in Client,
                      clients[c].op \notin {"idle", "plan"},
                      clients[c].base.version = proj.version, ~At(c, "load")
               PROVE  Fresh(clients[c])
    BY DEF FreshReads, Fresh
  <2>1. clients[c] # Idle
    BY IdleRecord
  <2>2. RequestInv(clients[c])
    BY <2>1 DEF ClientsInv
  <2>3. clients[c].todo # <<>>
    BY <2>2, PhaseHead DEF RequestInv
  <2> QED BY <2>2, <2>3 DEF RequestInv, At
<1> QED BY <1>1, ClientsInvariance, PTL

\* So what is proved of the operations one at a time is true of the requests.
\* The result the state names as final is a credible one of the current model
\* that the latest review accepted, whatever was committed while a request was
\* waiting for an agent or a solver.
THEOREM ConcurrentVerifiedResult == ClientsSpec => []VerifiedResultIsProven
BY ImplementsVerificationCorrectness, VerifiedResultCorrectness, PTL DEF ImplementsVerification

\* No interleaving takes a final result away again or moves the pointer.
THEOREM ConcurrentFinality == ClientsSpec => VerifiedResultIsFinal
BY ImplementsVerificationCorrectness, VerifiedResultFinality, PTL DEF ImplementsVerification

\* Two repair loops and a manual repair of one project together never exceed
\* the configured number of cycles, nor number two attempts alike.
THEOREM ConcurrentRepairs == ClientsSpec => []RepairsAreCounted
BY ImplementsVerificationCorrectness, RepairCorrectness, PTL DEF ImplementsVerification
===============================================================================
