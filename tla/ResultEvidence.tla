---------------------------- MODULE ResultEvidence -----------------------------
(***************************************************************************)
(* The chain of records behind a result, as solve builds and stores it,    *)
(* and the EvidenceIntegrityVerifier, which the SOLVE gate applies to the  *)
(* records and the repository to the stored rows.  A chain is a record of  *)
(* records; a name stands for an identifier, a digest or a hash.           *)
(***************************************************************************)
EXTENDS SolverRouting

EvidenceErrorCode ==
  {"RESULT_REF_MISMATCH", "OBJECTIVE_MISMATCH", "KEY_OUTPUT_MISMATCH", "STATUS_MISMATCH",
   "MODEL_VERSION_MISMATCH", "MODEL_DIGEST_MISMATCH", "CODE_HASH_MISMATCH",
   "EXECUTION_FAILED", "MOCK_EXECUTION", "MISSING_EXECUTION", "MISSING_MODEL",
   "MISSING_SOLVER_RUN", "MISSING_GENERATED_PROGRAM", "SOLVER_IDENTITY_MISMATCH",
   "BROKEN_RESULT_CHAIN"}

\* The records solve hands to the gate.  origin is that of the program, bundle
\* the digest of the sources as the program states it, executed the one the
\* sandbox computed, e the record of the execution.
Chain(r, origin, solver, bundle, executed, e) ==
  [ result    |-> [ result_id |-> "result", model |-> "model", digest |-> "digest",
                    solver_run_id |-> "run", execution_id |-> "execution",
                    solver |-> solver, status |-> r.status, objective |-> r.objective,
                    outputs |-> r.values ],
    solver    |-> [ solver_run_id |-> "run", result_ref |-> "result", model |-> "model",
                    digest |-> "digest", program_id |-> "program", origin |-> origin,
                    execution_ref |-> "execution", solver |-> solver,
                    status |-> r.status, objective |-> r.objective ],
    answer    |-> [ solver |-> solver, status |-> r.status, objective |-> r.objective,
                    values |-> r.values, optimal |-> r.optimal, feasible |-> r.feasible ],
    execution |-> [ run_id |-> "execution", origin |-> origin, digest |-> "digest",
                    program_id |-> "program", code_hash |-> "main", bundle |-> executed,
                    status |-> e.status, exit_code |-> e.exit_code, is_mock |-> FALSE ],
    model     |-> [ model |-> "model", digest |-> "digest" ],
    program   |-> [ program_id |-> "program", model |-> "model", digest |-> "digest",
                    origin |-> origin, entrypoint |-> "main", code_hash |-> bundle ] ]

Flag(condition, issue) == IF condition THEN {issue} ELSE {}

\* absent: the records that could not be loaded or parsed.
ModelIssues(c, absent) ==
  LET digests == {c.result.digest}
                   \cup (IF "solver" \in absent THEN {} ELSE {c.solver.digest})
                   \cup (IF "execution" \in absent THEN {} ELSE {c.execution.digest})
                   \cup (IF "program" \in absent THEN {} ELSE {c.program.digest}) IN
    IF "model" \in absent THEN {"MISSING_MODEL"}
    ELSE Flag("solver" \notin absent /\ {c.result.model, c.solver.model} # {c.model.model},
              "MODEL_VERSION_MISMATCH")
         \cup Flag(digests # {c.model.digest}, "MODEL_DIGEST_MISMATCH")

\* Mutant: the values a result repeats are not compared.
RunIssuesBug(c, absent) ==
  IF "solver" \in absent THEN {"MISSING_SOLVER_RUN"}
  ELSE Flag(\/ c.result.solver_run_id # c.solver.solver_run_id
            \/ c.solver.result_ref # c.result.result_id, "RESULT_REF_MISMATCH")
       \cup Flag(\/ {c.solver.status, c.answer.status} # {c.result.status}
                 \/ c.result.status = "OPTIMAL" /\ ~(c.answer.optimal /\ c.answer.feasible),
                 "STATUS_MISMATCH")
       \cup Flag({c.solver.solver, c.answer.solver} # {c.result.solver},
                 "SOLVER_IDENTITY_MISMATCH")
       \cup Flag({c.solver.objective, c.answer.objective} # {c.result.objective},
                 "OBJECTIVE_MISMATCH")

RunIssues(c, absent) ==
  IF "solver" \in absent THEN {"MISSING_SOLVER_RUN"}
  ELSE Flag(\/ c.result.solver_run_id # c.solver.solver_run_id
            \/ c.solver.result_ref # c.result.result_id, "RESULT_REF_MISMATCH")
       \cup Flag(\/ {c.solver.status, c.answer.status} # {c.result.status}
                 \/ c.result.status = "OPTIMAL" /\ ~(c.answer.optimal /\ c.answer.feasible),
                 "STATUS_MISMATCH")
       \cup Flag({c.solver.solver, c.answer.solver} # {c.result.solver},
                 "SOLVER_IDENTITY_MISMATCH")
       \cup Flag({c.solver.objective, c.answer.objective} # {c.result.objective},
                 "OBJECTIVE_MISMATCH")
       \cup Flag(c.result.outputs \notin {"none", c.answer.values}, "KEY_OUTPUT_MISMATCH")

ExecutionIssues(c, absent) ==
  IF "execution" \in absent THEN {"MISSING_EXECUTION"}
  ELSE Flag(\/ c.result.execution_id # c.execution.run_id
            \/ /\ "solver" \notin absent
               /\ \/ c.solver.execution_ref # c.execution.run_id
                  \/ c.solver.origin # c.execution.origin, "BROKEN_RESULT_CHAIN")
       \cup Flag(c.execution.is_mock, "MOCK_EXECUTION")
       \cup Flag(c.execution.status # "SUCCEEDED" \/ c.execution.exit_code # 0,
                 "EXECUTION_FAILED")

ProgramIssues(c, absent) ==
  IF "program" \in absent
  THEN Flag("solver" \notin absent /\ c.solver.program_id # "none",
            "MISSING_GENERATED_PROGRAM")
  ELSE Flag(\/ "solver" \in absent \/ c.solver.program_id # c.program.program_id
            \/ "execution" \notin absent /\ c.program.origin # c.execution.origin,
            "BROKEN_RESULT_CHAIN")
       \cup Flag(c.program.model # c.result.model, "MODEL_VERSION_MISMATCH")
       \cup Flag(~(/\ "execution" \notin absent
                   /\ c.program.entrypoint = c.execution.code_hash
                   /\ c.program.code_hash = c.execution.bundle
                   /\ c.program.program_id = c.execution.program_id), "CODE_HASH_MISMATCH")

Verify(c, absent) ==
  ModelIssues(c, absent) \cup RunIssues(c, absent)
    \cup ExecutionIssues(c, absent) \cup ProgramIssues(c, absent)

-----------------------------------------------------------------------------
(* The SOLVE gate.                                                           *)

\* In the code every check is a line of its own; those about links, mocks and
\* statuses repeat what the verifier says of the same records.
SolveGate(m, c) ==
  /\ c.answer.status \in TerminalStatus
  /\ c.execution.status = "SUCCEEDED"
  /\ c.answer.feasible =>
       /\ c.answer.values # "missing"
       /\ m.objective => c.answer.objective # "none"
       /\ IsFeasible(c.answer.values)
  /\ Verify(c, {}) = {}

-----------------------------------------------------------------------------
(* The stored chain.                                                         *)

\* One row per record: its payload and the columns that repeat parts of it.  The
\* answer is part of the payload of the solver run.
Rows(c) ==
  [ payload    |-> c,
    columns    |->
      [ result    |-> [ model |-> c.result.model, digest |-> c.result.digest,
                        status |-> c.result.status, objective |-> c.result.objective ],
        solver    |-> [ solver_run_id |-> c.solver.solver_run_id,
                        model |-> c.solver.model, digest |-> c.solver.digest,
                        status |-> c.solver.status, objective |-> c.solver.objective ],
        model     |-> c.model,
        execution |-> [ origin |-> c.execution.origin, digest |-> c.execution.digest,
                        program_id |-> c.execution.program_id,
                        code_hash |-> c.execution.code_hash,
                        bundle |-> c.execution.bundle, status |-> c.execution.status,
                        exit_code |-> c.execution.exit_code,
                        is_mock |-> c.execution.is_mock ],
        program   |-> [ program_id |-> c.program.program_id, model |-> c.program.model,
                        digest |-> c.program.digest, code_hash |-> c.program.code_hash ] ],
    unreadable |-> {} ]

RowNames == {"result", "solver", "model", "execution", "program"}

\* The payload of a solver run is refused by its schema if it contradicts the
\* answer inside it.
Refused(c) ==
  Flag(~(/\ c.solver.status = c.answer.status /\ c.solver.solver = c.answer.solver
         /\ Truthful(c.answer)), "solver")

\* The records that cannot be parsed count as absent...
Absent(rows) == rows.unreadable \cup Refused(rows.payload)

\* ... and are an issue of their own.
ParseIssues(absent) ==
  Flag(absent \cap {"result", "solver", "model"} # {}, "BROKEN_RESULT_CHAIN")
    \cup Flag("execution" \in absent, "EXECUTION_FAILED")
    \cup Flag("program" \in absent, "CODE_HASH_MISMATCH")

\* The columns of the execution that are looked at by themselves.
ExecutionColumns(execution) ==
  Flag(execution.is_mock, "MOCK_EXECUTION")
    \cup Flag(execution.status # "SUCCEEDED" \/ execution.exit_code # 0, "EXECUTION_FAILED")

\* Whether the columns of a row repeat what its payload says; those the last
\* operator looks at need not.
ColumnsAgree(columns, c, name) ==
  /\ \A field \in DOMAIN columns[name] \ {"exit_code", "is_mock"} :
       \/ name = "execution" /\ field = "status"
       \/ columns[name][field] = c[name][field]
  /\ name = "solver" => columns.solver.solver_run_id = c.result.solver_run_id

\* verify_result_evidence; without a readable result nothing else is looked at.
EvidenceValid(rows) ==
  LET absent == Absent(rows) IN
    /\ ParseIssues(absent) = {}
    /\ \A name \in RowNames \ absent : ColumnsAgree(rows.columns, rows.payload, name)
    /\ ExecutionColumns(rows.columns.execution) = {}
    /\ Verify(rows.payload, absent) = {}
================================================================================
