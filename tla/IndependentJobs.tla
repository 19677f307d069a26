---------------------------- MODULE IndependentJobs ----------------------------
(***************************************************************************)
(* IndependentVerificationService and its repository, for one benchmark    *)
(* attempt.  A worker claims an operation by inserting its row under a     *)
(* unique key, computes with no transaction open, and stores the outcome   *)
(* with the execution record of a replay in one transaction.  Every        *)
(* command ends with a view, which reads the jobs and the execution        *)
(* records in separate transactions.  A worker may die at any point.       *)
(***************************************************************************)
EXTENDS Naturals

CONSTANTS
  Worker,        \* requests served at the same time
  Scenario,      \* the replay scenarios of the reviewed policy
  Required       \* those that must pass

ASSUME RequiredAssumption == Required \subseteq Scenario /\ Required # {}
ASSUME ScenarioAssumption == "baseline" \notin Scenario

VARIABLES
  registered,    \* whether the attempt has its immutable plan
  status,        \* of the job of each operation
  outcome,       \* the payload of a complete job
  executions,    \* operations whose execution record is in the database
  workers,       \* the local state of each worker
  shown,         \* the last view that was returned
  begun,         \* how often each operation has been started
  lost           \* operations whose worker died

jobs == <<status, outcome, executions>>
vars == <<registered, jobs, workers, shown, begun, lost>>

Operation == {"baseline"} \cup Scenario

Outcome == {"none", "PASS", "FAIL", "ERROR"}

JobStatus == {"absent", "RUNNING", "COMPLETE"}

Phase == {"idle", "register", "claim", "work", "view jobs", "view executions"}

\* op is the operation at hand and todo those that follow it; seen are the
\* outcomes a view has read.
WorkerState ==
  [phase : Phase, op : Operation, todo : SUBSET Operation, seen : [Operation -> Outcome]]

Nothing == [op \in Operation |-> "none"]

Idle == [phase |-> "idle", op |-> "baseline", todo |-> {}, seen |-> Nothing]

NoView == [status |-> "NOT_READY", mismatch |-> FALSE]

Init ==
  /\ registered = FALSE
  /\ status = [op \in Operation |-> "absent"]
  /\ outcome = Nothing
  /\ executions = {}
  /\ workers = [w \in Worker |-> Idle]
  /\ shown = NoView
  /\ begun = [op \in Operation |-> 0]
  /\ lost = {}

-----------------------------------------------------------------------------

In(w, phase) == workers[w].phase = phase

Become(w, k) == workers' = [workers EXCEPT ![w] = k]

Enter(w, phase) == Become(w, [workers[w] EXCEPT !.phase = phase])

Unchanged == UNCHANGED <<registered, jobs, shown, begun, lost>>

\* prepare_and_run, by a benchmark case; it runs every operation in turn.
Prepare(w) ==
  /\ In(w, "idle")
  /\ Become(w, [Idle EXCEPT !.phase = "register", !.todo = Scenario])
  /\ Unchanged

\* recompute or replay, by a request; both need the plan.
Command(w) ==
  /\ In(w, "idle")
  /\ registered
  /\ \E op \in Operation : Become(w, [Idle EXCEPT !.phase = "claim", !.op = op])
  /\ Unchanged

View(w) ==
  /\ In(w, "idle")
  /\ registered
  /\ Enter(w, "view jobs")
  /\ Unchanged

\* A plan has an identity of its own, so a second one is never the same plan:
\* the attempt keeps the first and the call fails.
Register(w) ==
  /\ In(w, "register")
  /\ IF registered THEN Become(w, Idle) ELSE Enter(w, "claim")
  /\ registered' = TRUE
  /\ UNCHANGED <<jobs, shown, begun, lost>>

\* Mutant: a job that is not complete may be claimed again.
ClaimableBug(op) == status[op] # "COMPLETE"

\* Mutant: a complete job may be run again.
ReopenableBug(op) == status[op] # "RUNNING"

\* The row of the operation does not exist yet.
Claimable(op) == status[op] = "absent"

Claim(w) ==
  LET op == workers[w].op IN
  /\ In(w, "claim")
  /\ IF Claimable(op)
     THEN /\ status' = [status EXCEPT ![op] = "RUNNING"]
          /\ begun' = [begun EXCEPT ![op] = @ + 1]
          /\ Enter(w, "work")
     ELSE /\ Enter(w, "view jobs")
          /\ UNCHANGED <<status, begun>>
  /\ UNCHANGED <<registered, outcome, executions, shown, lost>>

\* Mutant: the execution record of a failed replay is dropped.
RecordsBug(op, result) == op \in Scenario /\ result = "PASS"

\* A replay that ran brings its execution record with it.
Records(op, result) == op \in Scenario /\ result # "ERROR"

\* Only a replay turns an exception into an outcome.
Results(op) == {"PASS", "FAIL"} \cup IF op \in Scenario THEN {"ERROR"} ELSE {}

\* Mutant: the exceptions of a replay are not caught.
FinishBug(w) ==
  LET op == workers[w].op IN
  /\ In(w, "work")
  /\ status[op] = "RUNNING"
  /\ \E result \in Results(op) :
       IF result = "ERROR" THEN Become(w, Idle) /\ UNCHANGED jobs
       ELSE /\ outcome' = [outcome EXCEPT ![op] = result]
            /\ executions' = IF Records(op, result) THEN executions \cup {op} ELSE executions
            /\ status' = [status EXCEPT ![op] = "COMPLETE"]
            /\ Enter(w, "view jobs")
  /\ UNCHANGED <<registered, shown, begun, lost>>

Finish(w) ==
  LET op == workers[w].op IN
  /\ In(w, "work")
  /\ status[op] = "RUNNING"
  /\ \E result \in Results(op) :
       /\ outcome' = [outcome EXCEPT ![op] = result]
       /\ executions' = IF Records(op, result) THEN executions \cup {op} ELSE executions
  /\ status' = [status EXCEPT ![op] = "COMPLETE"]
  /\ Enter(w, "view jobs")
  /\ UNCHANGED <<registered, shown, begun, lost>>

ReadJobs(w) ==
  /\ In(w, "view jobs")
  /\ Become(w, [workers[w] EXCEPT !.phase = "view executions", !.seen = outcome])
  /\ Unchanged

\* Replays that were seen and whose execution record is not in the database.
Mismatched(seen) == {op \in Scenario : seen[op] \in {"PASS", "FAIL"} /\ op \notin executions}

\* Mutant: scenarios without an outcome are passed over.
PassesBug(seen) ==
  /\ seen["baseline"] = "PASS"
  /\ \A op \in Required : seen[op] \in {"PASS", "none"}

Passes(seen) == \A op \in {"baseline"} \cup Required : seen[op] = "PASS"

\* The next operation of prepare_and_run, in the order of the policy: any order.
Continue(w) ==
  IF workers[w].todo = {} THEN Become(w, Idle)
  ELSE \E op \in workers[w].todo :
         Become(w, [Idle EXCEPT !.phase = "claim", !.op = op,
                                !.todo = workers[w].todo \ {op}])

ReadExecutions(w) ==
  LET seen == workers[w].seen IN
  /\ In(w, "view executions")
  /\ shown' = [ status   |-> IF Passes(seen) /\ Mismatched(seen) \cap Required = {}
                             THEN "PASS" ELSE "NOT_READY",
                mismatch |-> Mismatched(seen) # {} ]
  /\ Continue(w)
  /\ UNCHANGED <<registered, jobs, begun, lost>>

\* The process dies, or an exception that nobody handles ends the command.
Die(w) ==
  /\ ~In(w, "idle")
  /\ Become(w, Idle)
  /\ lost' = IF In(w, "work") THEN lost \cup {workers[w].op} ELSE lost
  /\ UNCHANGED <<registered, jobs, shown, begun>>

Proceed(w) ==
  Register(w) \/ Claim(w) \/ Finish(w) \/ ReadJobs(w) \/ ReadExecutions(w)

Next ==
  \E w \in Worker : Prepare(w) \/ Command(w) \/ View(w) \/ Proceed(w) \/ Die(w)

Spec == Init /\ [][Next]_vars

\* A command that was accepted goes on; a replay runs under time limits.
FairSpec == Spec /\ \A w \in Worker : WF_vars(Proceed(w))

-----------------------------------------------------------------------------
(* Properties.                                                               *)

\* The types of the tables and of the local state of the workers.
TypeOK ==
  /\ registered \in BOOLEAN
  /\ status \in [Operation -> JobStatus]
  /\ outcome \in [Operation -> Outcome]
  /\ executions \subseteq Scenario
  /\ workers \in [Worker -> WorkerState]
  /\ shown \in [status : {"PASS", "NOT_READY"}, mismatch : BOOLEAN]
  /\ begun \in [Operation -> Nat]
  /\ lost \subseteq Operation

\* However often an operation is commanded, and by however many workers, it is
\* started at most once, and nobody works on one that somebody else started.
ExecutedAtMostOnce ==
  /\ \A op \in Operation : begun[op] <= 1
  /\ \A v, w \in Worker :
       In(v, "work") /\ In(w, "work") /\ workers[v].op = workers[w].op => v = w

\* A view that passed was earned, and stays true: every required operation has
\* passed, whatever commands and crashes came after it was read.
PassIsEarned ==
  shown.status = "PASS" => \A op \in {"baseline"} \cup Required : outcome[op] = "PASS"

\* A view never takes an outcome for tampered because the database changed
\* between its two reads.
NoFalseMismatch == ~shown.mismatch

\* Every operation gets at most one outcome, stored together with its execution.
Outcomes == INSTANCE IndependentOutcomes WITH
  Scenario <- Scenario, Required <- Required, outcome <- outcome, executions <- executions

ImplementsOutcomes == Outcomes!OutcomesSpec

\* A claimed job is settled unless its worker died.
JobsSettle ==
  \A op \in Operation : status[op] = "RUNNING" ~> status[op] = "COMPLETE" \/ op \in lost
===============================================================================
