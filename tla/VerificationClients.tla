------------------------- MODULE VerificationClients --------------------------
(***************************************************************************)
(* The workflows as the program runs them.  A request loads the current    *)
(* revision in one transaction, reads the latest reports in others, awaits *)
(* an agent, a solver or the experiments with no transaction open, and     *)
(* commits its rows and the next revision in a last one, which fails       *)
(* unless the revision it loaded is still the current one.  Requests of    *)
(* one project interleave at every one of these steps; composite requests  *)
(* (run, repair_until_clear) start a new operation where one ended.        *)
(***************************************************************************)
EXTENDS Verification

CONSTANTS
  Client,            \* requests in flight at the same time
  Requests,          \* the requests that are submitted
  MaxRequests,       \* bound on the number of requests submitted
  MaxSolveAttempts   \* the configured attempts at a generated program

ASSUME MaxRequestsAssumption == MaxRequests \in Nat
ASSUME MaxSolveAttemptsAssumption == MaxSolveAttempts \in 1..3

VARIABLES
  clients,           \* the local state of each request
  submitted          \* how many requests have been submitted

clientVars == <<vars, clients, submitted>>

\* Mutant: the reads of an operation come before the revision is loaded.
ScriptBug ==
  [ reason      |-> <<"load", "commit">>,
    data        |-> <<"load", "commit">>,
    build       |-> <<"identity", "load", "commit">>,
    bind        |-> <<"identity", "load", "commit">>,
    solve       |-> <<"load", "commit">>,
    validate    |-> <<"load", "commit">>,
    sensitivity |-> <<"validation", "load", "commit">>,
    robustness  |-> <<"validation", "sensitivity", "load", "commit">>,
    red_team    |-> <<"validation", "sensitivity", "robustness", "load", "commit">>,
    repair      |-> <<"review", "cycles", "load", "commit">>,
    plan        |-> <<"review", "cycles">>,
    limit       |-> <<"load", "commit">> ]

\* The transactions of each operation, in order.
Script ==
  [ reason      |-> <<"load", "commit">>,
    data        |-> <<"load", "commit">>,
    build       |-> <<"load", "identity", "commit">>,
    bind        |-> <<"load", "identity", "commit">>,
    solve       |-> <<"load", "commit">>,
    validate    |-> <<"load", "commit">>,
    sensitivity |-> <<"load", "validation", "commit">>,
    robustness  |-> <<"load", "validation", "sensitivity", "commit">>,
    red_team    |-> <<"load", "validation", "sensitivity", "robustness", "commit">>,
    repair      |-> <<"load", "review", "cycles", "commit">>,
    plan        |-> <<"review", "cycles">>,
    limit       |-> <<"load", "commit">> ]

\* The operation a request starts with, and the one a composite request runs
\* after an operation whose gate passed.
FirstOperation(request) ==
  CASE request = "mathematical_run" -> "build"
    [] request = "reviewed_run" -> "bind"
    [] request = "verification_run" -> "validate"
    [] request = "repair_loop" -> "plan"
    [] OTHER -> request

Request == DOMAIN Script \cup
  {"mathematical_run", "reviewed_run", "verification_run", "repair_loop"}

ASSUME RequestsAssumption == Requests \subseteq Request \ {"plan", "limit"}

\* The stage an operation asks ensure_transition for; data work asks nothing.
TargetStages(op) ==
  CASE op = "reason" -> {"UNDERSTAND", "EXPLORE", "SELECT"}
    [] op \in {"build", "bind"} -> {"MODEL"}
    [] op = "solve" -> {"SOLVE"}
    [] op = "validate" -> {"VALIDATE"}
    [] op = "sensitivity" -> {"SENSITIVITY"}
    [] op = "robustness" -> {"ROBUSTNESS"}
    [] op = "red_team" -> {"RED_TEAM"}
    [] op = "repair" -> {"MODEL_REPAIR"}
    [] OTHER -> WorkflowStage

EnterableFrom(op, stage) ==
  op \in {"data", "limit"} \/ \E target \in TargetStages(op) : CanEnter(stage, target)

-----------------------------------------------------------------------------
(* The local state of a request.  base is the revision it loaded; the fields *)
(* after it are what it has read since, 0 while unread.                      *)

Idle ==
  [ request |-> "idle", op |-> "idle", todo |-> <<>>, base |-> ProjectAt("INGEST"),
    validation |-> 0, sensitivity |-> 0, robustness |-> 0, review |-> 0,
    identity |-> 0, cycles |-> 0, left |-> 0, attempts |-> 0 ]

Start(k, op) ==
  [Idle EXCEPT !.request = k.request, !.op = op, !.todo = Script[op],
               !.left = k.left, !.attempts = k.attempts]

At(c, step) == clients[c].todo # <<>> /\ Head(clients[c].todo) = step

Become(c, k) == clients' = [clients EXCEPT ![c] = k]

Advance(c, k) == Become(c, [k EXCEPT !.todo = Tail(@)])

Stop(c) == Become(c, Idle)

Local == UNCHANGED <<vars, submitted>>

Submit(c) ==
  /\ clients[c] = Idle
  /\ submitted < MaxRequests
  /\ submitted' = submitted + 1
  /\ \E request \in Requests :
       Become(c, Start([Idle EXCEPT !.request = request], FirstOperation(request)))
  /\ UNCHANGED vars

Load(c) ==
  /\ At(c, "load")
  /\ IF EnterableFrom(clients[c].op, proj.current_stage)
     THEN Advance(c, [clients[c] EXCEPT !.base = proj])
     ELSE Stop(c)
  /\ Local

\* get_validation, get_sensitivity and get_robustness return the latest row.
ReadReport(c, step, rows) ==
  /\ At(c, step)
  /\ IF rows # <<>>
     THEN Advance(c, [clients[c] EXCEPT ![step] = Latest(rows)])
     ELSE Stop(c)
  /\ Local

ReadValidation(c) == ReadReport(c, "validation", validation_runs)

ReadSensitivity(c) == ReadReport(c, "sensitivity", sensitivity_runs)

ReadRobustness(c) == ReadReport(c, "robustness", robustness_runs)

\* repair and repair_until_clear are done with a review that is not critical.
ReadReview(c) ==
  /\ At(c, "review")
  /\ IF red_team_runs # <<>> /\ red_team_runs[Latest(red_team_runs)].critical
     THEN Advance(c, [clients[c] EXCEPT !.review = Latest(red_team_runs)])
     ELSE Stop(c)
  /\ Local

ReadIdentity(c) ==
  /\ At(c, "identity")
  /\ Advance(c, [clients[c] EXCEPT !.identity = NextModelVersion])
  /\ Local

\* The loop fixes the number of its cycles when it starts.
CyclesLeft == IF RepairCycleCount < MaxRepairCycles
              THEN MaxRepairCycles - RepairCycleCount ELSE 0

NextCycle(k) == Start(k, IF k.left = 0 THEN "limit" ELSE "repair")

CountCycles(c) ==
  /\ At(c, "cycles")
  /\ IF clients[c].op = "plan"
     THEN Become(c, NextCycle([clients[c] EXCEPT !.left = CyclesLeft]))
     ELSE Advance(c, [clients[c] EXCEPT !.cycles = RepairCycleCount])
  /\ Local

-----------------------------------------------------------------------------
(* The last transaction of an operation.                                     *)

Committing(c, op) == At(c, "commit") /\ clients[c].op = op

Continue(c, op) == Become(c, Start(clients[c], op))

Finish(c, more, op) ==
  /\ IF more THEN Continue(c, op) ELSE Stop(c)
  /\ UNCHANGED submitted

CommitReason(c) ==
  /\ Committing(c, "reason")
  /\ LET base == clients[c].base IN
     \E stage \in TargetStages("reason") :
       CanEnter(base.current_stage, stage) /\ PersistReasoning(base, stage)
  /\ Finish(c, FALSE, "reason")

CommitData(c) ==
  /\ Committing(c, "data")
  /\ PersistData(clients[c].base)
  /\ Finish(c, FALSE, "data")

CommitModel(c) ==
  LET k == clients[c] IN
  /\ \/ /\ Committing(c, "build")
        /\ PersistModel(k.base, k.identity)
     \/ /\ Committing(c, "bind")
        /\ k.identity = 1
        /\ \E version \in ReviewedVersions : PersistModel(k.base, version)
  /\ Finish(c, k.request \in {"mathematical_run", "reviewed_run"}, "solve")

MayRetry(k) ==
  /\ k.request \in {"mathematical_run", "reviewed_run"}
  /\ k.attempts + 1 < MaxSolveAttempts

\* A run solves again when a generated program missed the gate, a bounded number
\* of times; the repair loop never does.
CommitSolve(c) ==
  LET k     == clients[c]
      retry == [k EXCEPT !.attempts = @ + 1] IN
  /\ Committing(c, "solve")
  /\ \E gate \in {"PASS", "RETRY"}, credible, generated \in BOOLEAN :
       /\ PersistSolve(k.base, gate, credible)
       /\ IF gate = "PASS" /\ k.request = "repair_loop"
          THEN Continue(c, "validate")
          ELSE IF gate # "PASS" /\ generated /\ MayRetry(k)
          THEN Become(c, Start(retry, "solve"))
          ELSE Stop(c)
  /\ UNCHANGED submitted

RunsOn(c, gate) ==
  gate = "PASS" /\ clients[c].request \in {"verification_run", "repair_loop"}

\* A single request may name any registered result.
CommitValidation(c) ==
  LET base == clients[c].base IN
  /\ Committing(c, "validate")
  /\ \E result \in RegisteredResults(base) :
       /\ clients[c].request # "validate" =>
            result = base.result_records[Latest(base.result_records)]
       /\ InContext(base, result)
       /\ \E gate \in ValidationVerdict(results[result]) :
            /\ PersistValidation(base, result, gate)
            /\ Finish(c, RunsOn(c, gate), "sensitivity")

CommitSensitivity(c) ==
  LET k == clients[c]
      v == validation_runs[k.validation] IN
  /\ Committing(c, "sensitivity")
  /\ InContext(k.base, v.result)
  /\ \E gate \in SensitivityVerdict(v) :
       /\ PersistSensitivity(k.base, k.validation, gate)
       /\ Finish(c, RunsOn(c, gate), "robustness")

CommitRobustness(c) ==
  LET k == clients[c]
      v == validation_runs[k.validation] IN
  /\ Committing(c, "robustness")
  /\ InContext(k.base, v.result)
  /\ \E gate \in RobustnessVerdict(v, sensitivity_runs[k.sensitivity]) :
       /\ PersistRobustness(k.base, k.validation, k.sensitivity, gate)
       /\ Finish(c, RunsOn(c, gate), "red_team")

\* After its own review the loop ends when the result is verified, when a human
\* has to look, or when nothing critical is left; otherwise it takes its next
\* cycle.
CommitRedTeam(c) ==
  LET k == clients[c] IN
  /\ Committing(c, "red_team")
  /\ InContext(k.base, validation_runs[k.validation].result)
  /\ \E critical, mock, integral \in BOOLEAN :
       /\ PersistRedTeam(k.base, k.validation, k.sensitivity, k.robustness,
                         critical, mock, integral)
       /\ IF /\ k.request = "repair_loop"
             /\ proj'.status = "RETRY"
             /\ red_team_runs'[Latest(red_team_runs')].critical
          THEN Become(c, NextCycle([k EXCEPT !.left = @ - 1]))
          ELSE Stop(c)
  /\ UNCHANGED submitted

CommitRepair(c) ==
  LET k == clients[c] IN
  /\ Committing(c, "repair")
  /\ InContext(k.base, red_team_runs[k.review].result)
  /\ IF k.cycles < MaxRepairCycles
     THEN \E status \in RepairStatus :
            /\ PersistRepair(k.base, k.review, k.cycles + 1, status)
            /\ Finish(c, status = "ACCEPTED" /\ k.request = "repair_loop", "solve")
     ELSE PersistRepairLimit(k.base) /\ Finish(c, FALSE, "repair")

CommitRepairLimit(c) ==
  /\ Committing(c, "limit")
  /\ PersistRepairLimit(clients[c].base)
  /\ Finish(c, FALSE, "limit")

\* The results whose context the operation checks.
Subjects(k) ==
  CASE k.op = "validate" -> RegisteredResults(k.base)
    [] k.op \in {"sensitivity", "robustness", "red_team"} ->
         {validation_runs[k.validation].result}
    [] k.op = "repair" -> {red_team_runs[k.review].result}
    [] OTHER -> {}

\* Mutant: a refused operation is tried again from the start.
RefuseBug(c) ==
  LET k == clients[c] IN
  /\ At(c, "commit")
  /\ \/ k.base.version # proj.version
     \/ k.op = "validate" /\ Subjects(k) = {}
     \/ \E result \in Subjects(k) : ~InContext(k.base, result)
     \/ k.op = "bind" /\ k.identity # 1
     \/ k.op \in {"repair", "limit"} /\ ~ValidState(RepairLimitState(k.base))
  /\ Become(c, Start(k, k.op))
  /\ Local

\* The transaction finds that another request came first, or a check on what
\* was read fails: the request ends with an error and nothing is written.
Refuse(c) ==
  LET k == clients[c] IN
  /\ At(c, "commit")
  /\ \/ k.base.version # proj.version
     \/ k.op = "validate" /\ Subjects(k) = {}
     \/ \E result \in Subjects(k) : ~InContext(k.base, result)
     \/ k.op = "bind" /\ k.identity # 1
     \/ k.op \in {"repair", "limit"} /\ ~ValidState(RepairLimitState(k.base))
  /\ Stop(c)
  /\ Local

\* An agent that fails, a gate that rejects, an exception or the end of the
\* process: what was committed stays, the rest of the request is lost.
Abandon(c) ==
  /\ clients[c] # Idle
  /\ Stop(c)
  /\ Local

Read(c) ==
  \/ Load(c) \/ ReadIdentity(c) \/ ReadReview(c) \/ CountCycles(c)
  \/ ReadValidation(c) \/ ReadSensitivity(c) \/ ReadRobustness(c)

Commit(c) ==
  \/ CommitReason(c) \/ CommitData(c) \/ CommitModel(c) \/ CommitSolve(c)
  \/ CommitValidation(c) \/ CommitSensitivity(c) \/ CommitRobustness(c)
  \/ CommitRedTeam(c) \/ CommitRepair(c) \/ CommitRepairLimit(c)

Proceed(c) == Read(c) \/ Commit(c) \/ Refuse(c)

ClientsInit ==
  /\ Init
  /\ clients = [c \in Client |-> Idle]
  /\ submitted = 0

ClientsNext == \E c \in Client : Submit(c) \/ Proceed(c) \/ Abandon(c)

ClientsSpec == ClientsInit /\ [][ClientsNext]_clientVars

\* Agents, solvers, sandboxes and database sessions all run under time limits,
\* so a request that was submitted keeps moving; nothing obliges a request to
\* be submitted, and nothing makes one fail.
FairClientsSpec ==
  ClientsSpec /\ \A c \in Client : WF_clientVars(Proceed(c))

-----------------------------------------------------------------------------
(* Properties.                                                               *)

\* What a request has read in its separate transactions is, as long as nobody
\* has committed since it loaded the state, what one transaction would have
\* read: the revision check at the end covers the reports too.
Unread(read, latest) == read = 0 \/ read = latest

FreshReads ==
  \A c \in Client :
    LET k == clients[c] IN
    k.op \notin {"idle", "plan"} /\ k.base.version = proj.version
    /\ ~At(c, "load") =>
      /\ k.base = proj
      /\ Unread(k.validation, Latest(validation_runs))
      /\ Unread(k.sensitivity, Latest(sensitivity_runs))
      /\ Unread(k.robustness, Latest(robustness_runs))
      /\ Unread(k.review, Latest(red_team_runs))
      /\ Unread(k.identity, NextModelVersion)
      /\ k.cycles \in {0, RepairCycleCount}

\* Whatever the interleaving, the project goes through a history in which every
\* operation ran alone and at once: no update is lost, and no report is derived
\* from one revision and stored with another.
ImplementsVerification == Spec

\* A request that is not abandoned ends: the solve retries and the repair loop
\* are bounded, and a refused commit is not tried again.
RequestsEnd ==
  \A c \in Client : clients[c] # Idle ~> clients[c] = Idle
===============================================================================
