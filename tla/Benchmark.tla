------------------------------- MODULE Benchmark -------------------------------
(***************************************************************************)
(* One formal benchmark run: its cases are driven one after another        *)
(* through the pipeline, under a cost budget, by one process that records  *)
(* metrics, failures, the terminal attempt and the result of a case in     *)
(* transactions of their own.  Agents of a case's project may also be run  *)
(* by other clients of the service, and the process may die.               *)
(***************************************************************************)
EXTENDS Naturals, Sequences, FiniteSets

CONSTANTS
  Cases,            \* how many cases the request names
  LiteratureCases,  \* the cases that require a live literature lookup
  Executors,        \* the executors a run may have been given
  RequiredCases,    \* how many cases a ready run must have attempted (3)
  RequiredPasses,   \* how many of them must have passed (2)
  MaxCaseCost,      \* the budget of one case
  MaxTotalCost,     \* the budget of the run
  MaxOwnCalls,      \* bound: provider requests of the executor for one case
  MaxOtherCalls     \* bound: provider requests of other clients

ASSUME CasesAssumption == Cases \in Nat \ {0} /\ LiteratureCases \subseteq 1..Cases
ASSUME BudgetAssumption ==
  MaxCaseCost \in Nat \ {0} /\ MaxTotalCost \in Nat \ {0}
  /\ MaxOwnCalls \in Nat /\ MaxOtherCalls \in Nat
ASSUME RequiredAssumption == RequiredCases \in Nat /\ RequiredPasses \in Nat \ {0}

VARIABLES
  run,         \* the status of the run
  attempts,    \* the attempt of every case
  costs,       \* the sum of the estimated_cost metrics of every case
  coverages,   \* the live_provider_critical_agent_coverage metrics
  failures,    \* the severities recorded for every attempt
  results,     \* the result of every attempt
  projects,    \* the agent runs of the project of every case
  independent, \* the attempts whose independent verification view is PASS
  worker,      \* the process inside BenchmarkWorkflow.run
  executor     \* the LiveCaseExecutor the workflow was built with

vars == <<run, attempts, costs, coverages, failures, results, projects,
          independent, worker, executor>>

stored == <<run, attempts, costs, coverages, failures, results, independent, executor>>

Case == 1..Cases

\* Of the six critical agents of a case, final_jury_agent stands for those
\* whose runs the application stores, the last of them being the jury.
CriticalAgent == {"final_jury_agent", "paper_agent"}

\* What an executor may claim of a completed case, and the agents it stores runs of.
Executor == [claims : SUBSET {"BLOCKED_RULE_POLICY", "HUMAN_REVIEW", "PASS"},
             stores : SUBSET CriticalAgent]

ASSUME ExecutorsAssumption == Executors \subseteq Executor

\* The executor of the application: it never claims a PASS, and its paper
\* workflow stores no agent runs.
PipelineBenchmarkExecutor ==
  [claims |-> {"BLOCKED_RULE_POLICY", "HUMAN_REVIEW"},
   stores |-> CriticalAgent \ {"paper_agent"}]

SuccessStatuses == {"PASS"}

Preserved == {"BLOCKED_ENVIRONMENT", "BLOCKED_RULE_POLICY", "BUDGET_EXCEEDED",
              "INVALID_BENCHMARK_SETUP", "HUMAN_REVIEW"}

CaseStatus == {"RUNNING", "FAIL"} \cup SuccessStatuses \cup Preserved

Attempt == [status : CaseStatus, project : BOOLEAN, live : BOOLEAN, literature : BOOLEAN]

NoAttempt == [status |-> "PENDING", project |-> FALSE, live |-> FALSE, literature |-> FALSE]

\* What is known of a case before it is recorded.
Outcome == [status : CaseStatus, project : BOOLEAN, live : BOOLEAN, cost : Nat,
            covered : SUBSET CriticalAgent, severity : {"P1", "P2"}, verified : BOOLEAN]

\* requests of the executor whose agent runs are stored, those that leave none,
\* requests of other clients, agents with a stored run that succeeded
ProjectRuns == [created : BOOLEAN, own : Nat, unrecorded : Nat, other : Nat,
                covered : SUBSET CriticalAgent]

\* What list_agent_runs finds, and what the executor really asked for.
Calls(c) == projects[c].own + projects[c].other

Requests(c) == projects[c].own + projects[c].unrecorded

\* What the first cases of the run amount to, up to the last one given.
Total(amounts, last) ==
  LET sum[c \in 0..Cases] == IF c = 0 THEN 0 ELSE sum[c - 1] + amounts[c]
  IN sum[last]

Writes == {"cost", "coverage", "failures", "attempt", "independent", "result"}

LiveWrites == <<"cost", "coverage", "failures", "attempt", "independent", "result">>

BlockedWrites == <<"failures", "coverage", "cost", "attempt", "result">>

Steps == {"case", "budget", "literature", "project", "bind", "stages", "coverage",
          "activity", "judge", "write", "accept", "returned", "raised", "died"}

NotRun == [status |-> "RUNNING", project |-> FALSE, live |-> FALSE, cost |-> 0,
           covered |-> {}, severity |-> "P2", verified |-> FALSE]

At(step) == worker.step = step

AtCase(c, step) == At(step) /\ worker.case = c

Go(step) == worker' = [worker EXCEPT !.step = step]

Record(outcome, todo) ==
  worker' = [worker EXCEPT !.step = "write", !.outcome = outcome, !.todo = todo]

\* Nobody touches the run any more, and what the process knew is gone.
End(step) ==
  worker' = [step |-> step, case |-> worker.case, todo |-> <<>>, literature |-> "none",
             outcome |-> NotRun]

\* An exception that run() does not catch.
Raise == End("raised") /\ UNCHANGED <<stored, projects>>

Init ==
  /\ run = "RUNNING"
  /\ attempts = [c \in Case |-> NoAttempt]
  /\ costs = [c \in Case |-> 0] /\ coverages = {}
  /\ failures = [c \in Case |-> {}]
  /\ results = [c \in Case |-> "none"]
  /\ projects = [c \in Case |-> [created |-> FALSE, own |-> 0, unrecorded |-> 0, other |-> 0,
                               covered |-> {}]]
  /\ independent = {}
  /\ worker = [step |-> "case", case |-> 1, todo |-> <<>>, literature |-> "none",
               outcome |-> NotRun]
  /\ executor \in Executors

-----------------------------------------------------------------------------
(* BenchmarkRepository.list_metrics                                          *)

ProjectCoverage(c) == IF attempts[c].project THEN projects[c].covered ELSE {}

\* "persisted live-provider coverage conflicts with agent runs"
MetricsConflict == \E m \in coverages : m.value # ProjectCoverage(m.case)

EstimatedCost == Total(costs, Cases)

-----------------------------------------------------------------------------
(* _run_case up to the executor                                              *)

Blocked(status, severity) == [NotRun EXCEPT !.status = status, !.severity = severity]

\* The solve inputs are materialized first; the attempt is created either way.
StartCase(c) ==
  /\ AtCase(c, "case")
  /\ run = "RUNNING"
  /\ attempts' = [attempts EXCEPT ![c] = [NoAttempt EXCEPT !.status = "RUNNING"]]
  /\ \/ worker' = [worker EXCEPT !.step = "budget", !.literature = "none"]
     \/ worker' = [worker EXCEPT !.step = "write", !.literature = "none",
                                 !.outcome = Blocked("INVALID_BENCHMARK_SETUP", "P1"),
                                 !.todo = BlockedWrites]
  /\ UNCHANGED <<run, costs, coverages, failures, results, independent, projects, executor>>

\* Mutant: a run that has just spent its budget goes on.
BudgetSpentBug == EstimatedCost > MaxTotalCost

BudgetSpent == EstimatedCost >= MaxTotalCost

\* Mutant: metrics in conflict are waited for.
CheckBudgetBug(c) ==
  /\ AtCase(c, "budget")
  /\ ~MetricsConflict
  /\ IF BudgetSpent THEN Record(Blocked("BUDGET_EXCEEDED", "P2"), BlockedWrites)
     ELSE Go("literature")
  /\ UNCHANGED <<stored, projects>>

CheckBudget(c) ==
  /\ AtCase(c, "budget")
  /\ \/ MetricsConflict /\ Raise
     \/ /\ ~MetricsConflict
        /\ IF BudgetSpent THEN Record(Blocked("BUDGET_EXCEEDED", "P2"), BlockedWrites)
           ELSE Go("literature")
        /\ UNCHANGED <<stored, projects>>

\* The live lookup, and whether a live provider and an executor are there.
LiveLiterature(c) ==
  /\ AtCase(c, "literature")
  /\ \E lookup \in IF c \in LiteratureCases THEN {"live", "failed"} ELSE {"none"} :
       \/ worker' = [worker EXCEPT !.step = "project", !.literature = lookup]
       \/ \E status \in {"BLOCKED_ENVIRONMENT", "BUDGET_EXCEEDED"} :
            worker' = [worker EXCEPT !.step = "write", !.literature = lookup,
                                     !.outcome = Blocked(status, "P1"),
                                     !.todo = BlockedWrites]
  /\ UNCHANGED <<stored, projects>>

-----------------------------------------------------------------------------
(* PipelineBenchmarkExecutor.execute                                         *)

CreateProject(c) ==
  /\ AtCase(c, "project")
  /\ projects' = [projects EXCEPT ![c].created = TRUE]
  /\ Go("bind")
  /\ UNCHANGED stored

BindAttemptProject(c) ==
  /\ AtCase(c, "bind")
  /\ attempts[c].status = "RUNNING"
  /\ attempts' = [attempts EXCEPT ![c].project = TRUE]
  /\ Go("stages")
  /\ UNCHANGED <<run, costs, coverages, failures, results, independent, projects, executor>>

Spends(runs, payer) == IF payer = "own" THEN [runs EXCEPT !.own = @ + 1]
                       ELSE [runs EXCEPT !.other = @ + 1]

\* One provider request of an agent whose run is stored, with what it cost.
AgentRun(c, payer, stores) ==
  /\ \E succeeded \in SUBSET stores :
       /\ Cardinality(succeeded) <= 1
       /\ projects' = [projects EXCEPT ![c] =
                         [Spends(projects[c], payer) EXCEPT !.covered = @ \cup succeeded]]
  /\ UNCHANGED <<stored, worker>>

\* A request that leaves no agent run: the paper workflow stores none, and the
\* submission workflow none of an answer that it cannot use.
UnrecordedRun(c) ==
  /\ projects' = [projects EXCEPT ![c].unrecorded = @ + 1]
  /\ UNCHANGED <<stored, worker>>

\* The jury is the last agent of the pipeline.
StageRun(c) ==
  /\ AtCase(c, "stages")
  /\ "final_jury_agent" \notin projects[c].covered
  /\ Requests(c) < MaxOwnCalls
  /\ AgentRun(c, "own", executor.stores) \/ UnrecordedRun(c)

OtherCalls == Total([c \in Case |-> projects[c].other], Cases)

\* Another client of the service works on the project of a case, through the
\* workflows of the application.
OtherRun(c) ==
  /\ projects[c].created
  /\ OtherCalls < MaxOtherCalls
  /\ AgentRun(c, "other", PipelineBenchmarkExecutor.stores)

\* What a case that stopped early spent on record; its quality metrics are zero.
PartialMetrics(c) == Calls(c)

\* _failed_before_paper, after a verification without a verified result.
FailedOutcome(c) ==
  [NotRun EXCEPT !.status = "FAIL", !.project = TRUE, !.severity = "P1",
                 !.cost = PartialMetrics(c), !.live = Calls(c) > 0]

\* A stage that fails, or verifies nothing, is an outcome as well.
StageFails(c) ==
  /\ AtCase(c, "stages")
  /\ worker' = [worker EXCEPT !.step = "coverage", !.outcome = FailedOutcome(c)]
  /\ UNCHANGED <<stored, projects>>

CompletedOutcome(c, status) ==
  [NotRun EXCEPT !.status = status, !.project = TRUE, !.live = TRUE, !.verified = TRUE,
                 !.cost = Calls(c),
                 !.severity = IF status = "BLOCKED_RULE_POLICY" THEN "P1" ELSE "P2"]

StagesComplete(c) ==
  /\ AtCase(c, "stages")
  /\ "final_jury_agent" \in projects[c].covered
  /\ \E status \in executor.claims :
       worker' = [worker EXCEPT !.step = "coverage", !.outcome = CompletedOutcome(c, status)]
  /\ UNCHANGED <<stored, projects>>

\* The executor raises: the attempt is finished from the record that was built
\* before the project was bound, with no cost.
PipelineFailure(c) ==
  /\ AtCase(c, "project") \/ AtCase(c, "bind") \/ AtCase(c, "stages")
  /\ Record(Blocked("FAIL", "P1"), BlockedWrites)
  /\ UNCHANGED <<stored, projects>>

-----------------------------------------------------------------------------
(* _persist_live_outcome                                                     *)

ReadCoverage(c) ==
  /\ AtCase(c, "coverage")
  /\ worker' = [worker EXCEPT !.step = "activity", !.outcome.covered = projects[c].covered]
  /\ UNCHANGED <<stored, projects>>

Contradicts(outcome, activity) ==
  \/ outcome.live # activity
  \/ outcome.status # "FAIL" /\ outcome.covered # CriticalAgent

CheckActivity(c) ==
  /\ AtCase(c, "activity")
  /\ IF Contradicts(worker.outcome, Calls(c) > 0) THEN End("raised") ELSE Go("judge")
  /\ UNCHANGED <<stored, projects>>

\* Mutant: what the earlier cases cost is left out.
OverBudgetBug(cost) == cost > MaxCaseCost \/ cost > MaxTotalCost

OverBudget(cost) == cost > MaxCaseCost \/ EstimatedCost + cost > MaxTotalCost

\* The wall time may be exceeded whatever the case cost.
JudgeBudget(c) ==
  /\ AtCase(c, "judge")
  /\ \/ MetricsConflict /\ Raise
     \/ /\ ~MetricsConflict
        /\ \E late \in BOOLEAN :
             Record(IF late \/ OverBudget(worker.outcome.cost)
                    THEN [worker.outcome EXCEPT !.status = "BUDGET_EXCEEDED"]
                    ELSE worker.outcome,
                    LiveWrites)
        /\ UNCHANGED <<stored, projects>>

-----------------------------------------------------------------------------
(* The transactions that record a case                                       *)

Writing(c, what) ==
  /\ AtCase(c, "write") /\ worker.todo # <<>> /\ Head(worker.todo) = what

Written == worker' = [worker EXCEPT !.todo = Tail(@)]

AddCost(c) ==
  /\ Writing(c, "cost")
  /\ costs' = [costs EXCEPT ![c] = @ + worker.outcome.cost]
  /\ Written
  /\ UNCHANGED <<run, attempts, coverages, failures, results, independent, projects, executor>>

AddCoverage(c) ==
  /\ Writing(c, "coverage")
  /\ coverages' = coverages \cup {[case |-> c, value |-> worker.outcome.covered]}
  /\ Written
  /\ UNCHANGED <<run, attempts, costs, failures, results, independent, projects, executor>>

AddFailures(c) ==
  /\ Writing(c, "failures")
  /\ failures' = [failures EXCEPT
                    ![c] = {worker.outcome.severity}
                           \cup IF worker.literature = "failed" THEN {"P1"} ELSE {}]
  /\ Written
  /\ UNCHANGED <<run, attempts, costs, coverages, results, independent, projects, executor>>

\* The whole row is replaced, the project that was bound to it included.
FinishAttempt(c) ==
  /\ Writing(c, "attempt")
  /\ attempts[c].status = "RUNNING"
  /\ attempts' = [attempts EXCEPT
                    ![c] = [status |-> worker.outcome.status,
                            project |-> worker.outcome.project,
                            live |-> worker.outcome.live,
                            literature |-> worker.literature = "live"]]
  /\ Written
  /\ UNCHANGED <<run, costs, coverages, failures, results, independent, projects, executor>>

\* The replays may pass, fail, or fail in a way that run() does not catch.
VerifyIndependently(c) ==
  /\ Writing(c, "independent")
  /\ \/ /\ worker.outcome.verified
        /\ independent' = independent \cup {c}
        /\ Written
     \/ Written /\ UNCHANGED independent
     \/ worker.outcome.verified /\ End("raised") /\ UNCHANGED independent
  /\ UNCHANGED <<run, attempts, costs, coverages, failures, results, projects, executor>>

\* A case that went through the executor needs live literature whatever its
\* manifest says; only its attempt has a project.
HardFailures(c) ==
  \/ "P1" \in failures[c]
  \/ ~attempts[c].live
  \/ (c \in LiteratureCases \/ attempts[c].project) /\ ~attempts[c].literature

\* The score of a case without hard failures may be too low all the same.
Evaluate(c, low) ==
  IF attempts[c].status \in Preserved THEN attempts[c].status
  ELSE IF HardFailures(c) \/ low THEN "FAIL" ELSE "PASS"

Recorded(c, status) ==
  /\ results' = [results EXCEPT ![c] = status]
  /\ worker' = [worker EXCEPT !.todo = <<>>,
                              !.step = IF c = Cases THEN "accept" ELSE "case",
                              !.case = IF c = Cases THEN c ELSE c + 1,
                              !.outcome = NotRun]

\* A result of another status than the attempt's is refused.
AddResult(c) ==
  /\ Writing(c, "result")
  /\ \E low \in BOOLEAN :
       IF Evaluate(c, low) = attempts[c].status
       THEN Recorded(c, Evaluate(c, low))
       ELSE End("raised") /\ UNCHANGED results
  /\ UNCHANGED <<run, attempts, costs, coverages, failures, independent, projects, executor>>

-----------------------------------------------------------------------------
(* The end of BenchmarkWorkflow.run                                          *)

\* Mutant: a case counts as a success without its independent verification.
RegatedBug(c) == results[c]

\* BenchmarkReportBuilder._independent_gate
Regated(c) ==
  IF results[c] \in SuccessStatuses /\ c \notin independent THEN "FAIL" ELSE results[c]

Acceptance ==
  IF /\ Cardinality({c \in Case : attempts[c] # NoAttempt}) >= RequiredCases
     /\ Cardinality({c \in Case : Regated(c) \in SuccessStatuses}) >= RequiredPasses
     /\ \E c \in Case : /\ attempts[c].live /\ results[c] # "none"
                        /\ [case |-> c, value |-> CriticalAgent] \in coverages
     /\ \E c \in Case : attempts[c].literature
     /\ \A c \in Case : attempts[c].status # "RUNNING" /\ results[c] # "none"
  THEN "SELF_TEST_READY"
  ELSE "NOT_READY"

FinishRun ==
  /\ At("accept")
  /\ \/ MetricsConflict /\ Raise
     \/ /\ ~MetricsConflict
        /\ run = "RUNNING"
        /\ run' = Acceptance
        /\ End("returned")
        /\ UNCHANGED <<attempts, costs, coverages, failures, results, independent, projects, executor>>

Ended == worker.step \in {"returned", "raised", "died"}

\* "No automatic benchmark crash/resume coordinator"
Dies == ~Ended /\ End("died") /\ UNCHANGED <<stored, projects>>

Stopped == Ended /\ UNCHANGED vars

RecordCase(c) ==
  AddCost(c) \/ AddCoverage(c) \/ AddFailures(c) \/ FinishAttempt(c)
  \/ VerifyIndependently(c) \/ AddResult(c)

Progress ==
  \/ \E c \in Case :
       \/ StartCase(c) \/ CheckBudget(c) \/ LiveLiterature(c)
       \/ CreateProject(c) \/ BindAttemptProject(c)
       \/ StageFails(c) \/ StagesComplete(c) \/ PipelineFailure(c)
       \/ ReadCoverage(c) \/ CheckActivity(c) \/ JudgeBudget(c)
       \/ RecordCase(c)
  \/ FinishRun

Next ==
  \/ Progress \/ Dies \/ Stopped
  \/ \E c \in Case : StageRun(c) \/ OtherRun(c)

Spec == Init /\ [][Next]_vars

\* Every call has a time limit, also a stage that goes on running agents.
FairSpec == Spec /\ WF_vars(Progress)

-----------------------------------------------------------------------------
(* Properties.                                                               *)

TypeOK ==
  /\ run \in {"RUNNING", "NOT_READY", "SELF_TEST_READY"}
  /\ attempts \in [Case -> Attempt \cup {NoAttempt}]
  /\ costs \in [Case -> Nat]
  /\ coverages \subseteq [case : Case, value : SUBSET CriticalAgent]
  /\ failures \in [Case -> SUBSET {"P1", "P2"}]
  /\ results \in [Case -> (CaseStatus \ {"RUNNING"}) \cup {"none"}]
  /\ projects \in [Case -> ProjectRuns]
  /\ independent \subseteq Case
  /\ worker \in [step : Steps, case : Case, todo : Seq(Writes),
                 literature : {"none", "live", "failed"}, outcome : Outcome]
  /\ executor \in Executors

\* The cases whose spending _pipeline_failure records as zero.
Lost == {c \in Case : attempts[c].status = "FAIL" /\ ~attempts[c].project}

\* What the executor spent on record for every case, but for those.
Spent == [c \in Case |-> IF c \in Lost THEN 0 ELSE projects[c].own]

\* "Budget gates prevent acceptance and later work": no case makes a provider
\* request, recorded or not, once the agent runs stored for the earlier ones
\* have reached the budget of the run, so that only one case can cross it on
\* record.  Requests that leave no agent run are in no cost, and cases whose
\* executor raised are left out: their cost is recorded as zero.
BudgetStopsLaterWork ==
  \A c \in Case :
    Requests(c) > 0 => Total(Spent, c - 1) < MaxTotalCost

\* "wall/case/total budgets cannot be reported as successful completion": the
\* result of a case says so if the stored agent runs of its executor, or of the
\* run with it, crossed the budget, whatever other clients spent meanwhile.
OverrunIsReported ==
  \A c \in Case :
    /\ results[c] \notin {"none", "BUDGET_EXCEEDED"}
    /\ projects[c].own > 0 /\ c \notin Lost
    => /\ projects[c].own <= MaxCaseCost
       /\ Total(Spent, c) <= MaxTotalCost

\* A run only ends as ready on enough cases that were independently verified,
\* have no unresolved failure, ran on live literature and a live provider with
\* every critical agent on record, and stayed within their budget on record; and
\* never with the executor of the application, which cannot record them all.
ReadyIsEarned ==
  run = "SELF_TEST_READY" =>
    /\ executor # PipelineBenchmarkExecutor
    /\ \E earned \in SUBSET Case :
         /\ Cardinality(earned) >= RequiredPasses
         /\ \A c \in earned :
              /\ results[c] = "PASS" /\ attempts[c].live /\ c \in independent
              /\ "P1" \notin failures[c]
              /\ attempts[c].literature
              /\ CriticalAgent \subseteq projects[c].covered
              /\ projects[c].own <= MaxCaseCost

\* run() returns, raises, or its process dies.
RunEnds == <>Ended
===============================================================================
