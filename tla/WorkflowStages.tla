---------------------------- MODULE WorkflowStages ----------------------------
(***************************************************************************)
(* The stages of a project and the moves the state machine allows between  *)
(* them.  Every workflow of the program consults this table, through       *)
(* ensure_transition, before it calls an agent, a solver or a sandbox.     *)
(***************************************************************************)

\* The stages some workflow enters.  DATA and LITERATURE are members of the
\* enumeration too, but no transition reaches them.
WorkflowStage ==
  {"INGEST", "UNDERSTAND", "EXPLORE", "SELECT", "MODEL", "SOLVE", "VALIDATE",
   "SENSITIVITY", "ROBUSTNESS", "RED_TEAM", "MODEL_REPAIR", "PAPER",
   "FINAL_JURY", "SUBMISSION", "FINAL"}

\* The statuses the modelled workflows write into a state.
WorkflowStatus == {"PENDING", "RUNNING", "SUCCEEDED", "RETRY", "HUMAN_REVIEW"}

WorkflowTransitions ==
  [ INGEST       |-> {"UNDERSTAND"},
    UNDERSTAND   |-> {"EXPLORE"},
    EXPLORE      |-> {"SELECT"},
    SELECT       |-> {"MODEL"},
    MODEL        |-> {"SOLVE"},
    SOLVE        |-> {"VALIDATE"},
    VALIDATE     |-> {"SENSITIVITY"},
    SENSITIVITY  |-> {"ROBUSTNESS"},
    ROBUSTNESS   |-> {"RED_TEAM"},
    RED_TEAM     |-> {"MODEL_REPAIR", "PAPER"},
    MODEL_REPAIR |-> {"SOLVE"},
    PAPER        |-> {"PAPER", "FINAL_JURY"},
    FINAL_JURY   |-> {"FINAL_JURY", "SUBMISSION", "PAPER"},
    SUBMISSION   |-> {"SUBMISSION", "FINAL", "PAPER"},
    FINAL        |-> {"FINAL", "SUBMISSION", "PAPER"} ]

\* TRUE where ensure_transition returns, FALSE where it raises.
CanEnter(current, target) == target \in WorkflowTransitions[current]
===============================================================================
