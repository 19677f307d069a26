# A TLA+ model of MathModel AI

MathModel AI turns a mathematical modelling problem into a verified result, a
paper and a submission package. A *project* is one `ProblemState` document that
goes through a chain of stages; every workflow of the backend
(`src/src/mathmodel_ai`) loads the current revision of that document, awaits an
agent, a solver, a sandbox or numeric experiments, and appends the next
revision together with the rows it produced. This directory holds TLA+ modules
of that machinery, the TLC configurations that check them on small instances,
and theorems about them checked by TLAPS.

Paths below are relative to `src/src/mathmodel_ai/` unless they start with
`src/`.

## 1. Inventory

| component | state it keeps | operations | what makes it correct |
|---|---|---|---|
| workflow stages (`reasoning/state_machine.py`, `schemas/problem_state.py`) | the stage and status of a revision, its cross-field validator | `ensure_transition`, `model_validate` | the stage moves along the table only; pointer, marked entries and gates of a state agree |
| state revisions (`*/repository.py`) | `problem_states`, one current row per problem, and the registries of models, results, reports, repairs | append one revision with its rows, read the latest row, count repairs, allocate a model version | no lost update; a step writes all of its rows or none; the references of a revision are the rows |
| reasoning (`reasoning/workflow.py`) | stages UNDERSTAND, EXPLORE, SELECT | `analyze`, `explore`, `select` | order of the stages |
| modelling and solving (`mathematical/`) | model versions, programs, solver runs, results | `build_model`, `bind_reviewed_model`, `solve`, `run`, `run_reviewed`, `verify_result_evidence` | versions are consecutive; an accepted result is one the solver really found and the model really has; the stored rows of a result vouch for each other; bounded retries |
| solvers (`solvers/`, `src/sandbox/runtime/`) | none | route, support, solve, generated programs, feasibility | a status is what the solver said, a feasible point is recomputed |
| verification and repair (`verification/workflow.py`) | four report registries, repair cycles, the verified result | `validate`, `sensitivity`, `robustness`, `red_team`, `run`, `repair`, `repair_until_clear` | a result is only verified on a complete chain of passing reports about it; repairs are bounded |
| experiments and their audit (`verification/experiments.py`, `experiment_integrity.py`) | none | design, execute, recompute | a report is what recomputation yields |
| independent verification (`verification/independent_service.py`, `independent_repository.py`) | immutable plans, jobs with a unique operation key | register, claim, recompute, replay, view | an operation runs at most once; a plan never changes; PASS needs every job |
| data understanding and execution (`data/workflow.py`) | `data_understanding`, the FILES / DATA / EXECUTION sub-stage, attachments, profiles, execution records | `ingest_file`, `analyze_data`, `execute_code` | code runs only on an analysis of the accepted attachments; overlapping requests lose nothing |
| files (`files/`) | the bytes of attachments, the artifacts derived from them | ingest, stage, commit | no row without its bytes |
| sandbox (`sandbox/executor.py`) | one container and one record per run | start, wait, collect, remove | a run that was cut short is not taken for a success, if its program left the completion marker alone; the container goes away |
| agents and routing (`agents/base.py`, `routing/router.py`) | one run record per call | route, invoke, parse, retry, escalate | bounded attempts; a route never reaches a provider that is rejected |
| providers (`providers/`) | configurations, model entries, probe evidence, cached guarded adapters | edit, probe, record, bind, call | evidence belongs to the configuration it was gathered on |
| paper (`paper/`) | paper versions, references, artifacts | search, build | versions are numbered; what a ready paper says was measured, cited and audited, and a sound paper is ready |
| submission (`submission/`) | jury reports, checks, frozen packages, the readiness of the state | final run, jury, check, freeze, verify | what is frozen is what was approved, before the deadline, and obeys the rules |
| benchmark (`benchmark/`) | runs, attempts, metrics, failures, results | run, bind, finish, add result | the budget stops later cases; ready means independently verified cases |
| api, database, core, frontend, migrations, scripts | | | wiring |

**How components interact.** There is one database. An operation never keeps a
transaction open across an `await`: it loads the state in one short
transaction, reads the latest reports in others, does its long work with none,
and appends in a last one, whose `_replace_state` locks the current row and
compares its revision with the one the operation was derived from. Composite
requests (`run`, `run_reviewed`, `verification/run`, `repair_until_clear`) call
the single operations one after another; each reloads the state. All
interaction between concurrent requests is through those transactions.

**What is hard.** Requests interleave at every transaction; reports are read
after the state and outside the transaction that uses them; failed reports are
registered too and become the latest; a repair leaves the reports of the old
model in place; composite requests stop anywhere and leave the revisions they
committed; the repair loop fixes its number of cycles once, while others may
spend them; the exhaustion mark is written at whatever revision is current. An
upload puts bytes into the store long before the row that names them; papers and
final runs await agents for minutes between what they read and what they commit,
while a deadline passes or files change; a benchmark run records a case in six
transactions and another client may run agents on the same project. The full
list, each at its line, is `hazards` in `PROJECT.json`.

## 2. Plan

Order of construction, the most important behaviour first.

1. **Verification chain** (done): `WorkflowStages`, `VerificationState`,
   `Verification`, `VerificationClients` and their proofs.
2. **Sandbox run and solving** (done): `SandboxRun`, and on top of it
   `SolverRouting`, `ResultEvidence` and `SolveAttempt`, with their proofs.
3. **Independent verification jobs** (done): `IndependentOutcomes`,
   `IndependentJobs` and their proofs.
4. **Agent run** (done): `AgentRun` with attempts, retry count, escalation,
   accounting, and its proofs. Left for later: the order of candidates.
5. **Data execution with the file store** (done): `DataExecution`.
6. **Providers** (done): `ProviderCredentials` and `ModelExecution`, edits,
   probes and cached guarded adapters interleaved, and their proofs.
7. **Paper and submission** (done): `Paper` and `Submission` for overlapping
   requests, `PaperClaims`, `PaperBuild` and `SubmissionPackage` for what one
   build and one final run decide, with the proofs of both halves. The correction
   planner is called by no workflow and is left out.
8. **Benchmark** (done): `Benchmark`, one run with its budget, exceptions, a crash,
   and its proofs, the budget of the whole run among them.
9. **Revision log** (in part): `DataExecution` has the revision check and the
   insertion apart, as on SQLite; `Paper` and `Submission` have `created_at`
   stamps apart from commits. The same for the verification rows is left.
10. **Pure algorithms** (in part): the validators of claims, the rule engine, the
    jury's decision, the coverage of requirements, the route to a solver, the
    SOLVE gate and the evidence verifier are operators; scenario design, the
    content of the verification gates and the scoring of candidates are left.

Abstract specifications: `Verification`, which `VerificationClients` implements,
and `IndependentOutcomes`, which `IndependentJobs` implements (`Outcomes`, an
INSTANCE with a refinement mapping); both refinements are proved. Of the safety
properties that the runs check one is without a theorem, `SoundPaperIsReady`; see
the end of section 6.

## 3. The modules and the code

| module | models | extends |
|---|---|---|
| `WorkflowStages` | the transition table and `ensure_transition` | |
| `VerificationState` | `ProblemState`, the rows, the next revision of every step, the validator, the gates' verdicts | `WorkflowStages` |
| `Verification` | every operation of the chain as one step | `VerificationState` |
| `VerificationClients` | the operations as transactions of concurrent requests | `Verification` |
| `SandboxRun` | one call of `SandboxExecutor.execute` | |
| `SolverRouting` | the plan, the route, the adapters' answers and their feasibility, as operators | |
| `ResultEvidence` | the records behind a result, the verifier, the SOLVE gate, the stored rows | `SolverRouting` |
| `SolveAttempt` | one call of `MathematicalWorkflow.run` after the model is built: its attempts at solving | `SandboxRun`, `ResultEvidence` |
| `IndependentOutcomes` | what independent verification promises | |
| `IndependentJobs` | plans, claims, outcomes, views, workers that die | |
| `ProviderCredentials` | the credential reference of a provider and its secret store | |
| `ModelExecution` | edits, probes, routing, binding and guard of one provider and its models | |
| `AgentRun` | `BaseAgent.run`: attempts, route levels and booked usage | |
| `DataExecution` | uploads, analyses and executions as concurrent requests, with the file store | |
| `Benchmark` | one benchmark run over its cases | |
| `Paper` | searches and paper builds as concurrent requests | `WorkflowStages` |
| `Submission` | final runs beside them: jury, check, freeze, snapshots | `Paper` |
| `PaperClaims` | the parts of a paper and the validators, as operators that return issues | |
| `PaperBuild` | one build of a paper, from the evidence to the quality gate | `PaperClaims` |
| `SubmissionPackage` | one final run of a ready paper: rules, coverage, jury, check, package | `PaperBuild` |
| `MC...` | the same modules with the definitions of their constants for TLC | |
| `...Proofs` | the theorems | |

### 3.1 The verification chain

`proj` is the current row of `problem_states`: the stage, the status, the model
reference, the lists of typed references, the pointer `verified_result_id` and
what the validator of `schemas/problem_state.py` compares it with. Each registry
is a sequence of rows that is only appended to; a row is named by its position,
so *the latest row* is the length. A row carries the fields that decide what
happens next: the model and the result it is about, the reports it was computed
from, its gate, and for a result whether its values stand up to an independent
recomputation (`credible`).

A pure operator (`SolveState`, `ValidationState`, `RedTeamState`, ...) is the
`next_state` a workflow method builds, one `Persist...` action is the
transaction of the repository that stores it with its rows, and one action of
`Next` is the whole method. Numeric work and agents are choices restricted by
what the code lets pass: `ValidationVerdict`, `SensitivityVerdict`,
`RobustnessVerdict` say which gates can come out given the reports underneath,
and `VerifiedGate` is the terminal gate on the chain of reports. A step that
fails before its transaction leaves the revision and every registry as they
were, hence is a stutter.

`VerificationClients` splits each method at its transactions. `Script` lists
them in the order of the code: load the state, read the latest validation /
sensitivity / robustness / review, allocate the model version, count the
repair cycles, commit. A request holds what it has read; the commit succeeds if
the revision it loaded is still the current one (`AppendRevision`) and is
refused otherwise (`Refuse`). Composite requests carry on with the next
operation: `mathematical_run` builds and solves with retries, `verification_run`
goes from validation to review, `repair_loop` plans its cycles once and repairs,
solves and verifies for each. `Abandon` is a failing agent, a rejecting gate, an
exception or the death of the process at any point.

### 3.2 The sandbox

`step` is the line of `execute` that is next, `run` its local variables, and
`container`, `process`, `code`, `marker` what exists on the daemon's side, which
changes by itself (`Environment`): the program ends, the wrapper opens and then
fills the marker file, the container stops, a creation whose client was killed
completes late. The program runs as the user of its wrapper, and the marker is
in the directory of its outputs, so it may write, replace or remove that file at
any time (`ProgramWritesMarker`); the executor takes the exit code from the file
whoever wrote it, and the history variable `tampered` says that the program did.
Each docker command is one action with all of its answers: success, refusal,
client that cannot be run, time-out. The record is computed from the local
variables in the order of the code's tests (`Status`), so that a return code
left over from `docker run` is what the code would see. `ExecutionGate` and
`SolverReads` are what the callers make of the record.

`SolveAttempt` runs such sandboxes one after the other, inside the retries of
`run` (`attempt`, `phase`). A model is the record of what the plan, the route
and the adapters look at; a route takes any set of available solvers, the best
score and then the earlier preference (`Ranked`). An assignment of values is the
class the recomputation puts it in (`Values`), and every native status of each
runtime comes with the classes it can come with (`LinearOutcomes`,
`GurobiOutcomes`, ...), so that the adapters' tables (`LinearStatus`,
`GurobiStatus`, ...) and the recomputation decide what is made of it. A
generated program may claim whatever its schema lets it (`Claims`), and write
the completion marker; the program of an adapter is a text of the repository,
which does not. `ResultEvidence` has the records `solve` builds (`Chain`), the
verifier that the SOLVE gate applies to them, the five rows with the columns
that repeat parts of them (`Rows`), and the reading back (`EvidenceValid`),
which parses, compares columns and verifies again. `Store` is the transaction;
`Conflict`, `ResultRefused` and `SandboxRaised` are the ways not to get there.
`ForeignRevision` is another request of the project, `Alter` what the tests of
the evidence API do: one fact of one row changed, in its payload, its column or
both, or a payload made unreadable. `code_runs` counts the finished and the
recorded runs of the CodeAgent; `kept` is a history variable: the answer that
was stored, whether its program really ended with exit code zero and was copied
whole, and whether it had written the marker itself.

### 3.3 Independent verification jobs

`status`, `outcome` and `executions` are the job rows, their payload and the
execution records of replays; `registered` is the plan. A worker is one request:
`prepare_and_run` commands every operation in turn, `recompute` and `replay`
command one, and each ends with a view. `Claim` is the insert under the unique
operation key, `Finish` the transaction that stores the outcome with its
execution, `ReadJobs` and `ReadExecutions` the two transactions of a view.
`begun` and `lost` are history variables for the properties. `Die` loses the
worker at any point; a job it was at work on stays `RUNNING`.

### 3.4 The credential of a provider

`ref` is `credential_ref` of the provider row and `secrets` the rows of the
secret store; `past` and `given` are history variables. A PUT reads the row
(`PutCredential`), stores a new secret (`Store`), writes its reference (`Write`)
and deletes the secret it read first (`DeleteOld`); a write that is refused
takes the new secret back (`WriteRefused`, `Undo`). A DELETE does the same
without a new secret. Each is a transaction of its own, and the write does not
compare what it replaces. A PATCH, or a POST that creates the provider, is
checked for the form of the reference only: `Patch` sets any secret that is
stored, was deleted, is still on its way into the row or was never drawn, or
none of the store (null, a variable of the environment). Another provider that
was given the same reference deletes the secret as its own (`DeleteElsewhere`).
`given` is what such requests have named; `Crash` stops a request between any
two transactions.

### 3.5 Execution of a registered model

`provider`, `health` and `profiles` are the rows of one provider and its models,
`evidence` the probe results in the order of their commits. A row is the part a
configuration digest covers, so equal rows are equal digests and an edit can be
reverted. An edit resets the health (`EditProvider`, `EditModel`). A probe reads
the rows one after another, builds its adapter from rows it reads again, and is
stored only if its digests are those of the rows at that moment (`IsCurrent`);
its `performed_at` is stamped before (`Conclude`). A caller goes through the
same reads three times: when the route is chosen, when the adapter is built and
when the guard runs in front of the request (`purpose`); each statement is an
action, because the default isolation sees commits between them. `held` is a
history variable: the rows that were in force since the guard of the request
began.

### 3.6 An agent run

`runs` holds the local variables of `BaseAgent.run`, `recorded` the usage
counter of the adapter that runs of one process share. A run takes an attempt
through `RouteRun`, `Bind` and the awaited request, which is lost, malformed,
refused or accepted; a failed attempt goes back to `route` or ends the run
(`Failed`). `RetryCount` and `RouteLevel` are the code's: the second attempt
stays on the level, later ones escalate, and the levels above the last flagship
one are reviews. Control passes to another run only while a request is awaited,
so the counter is read and the request issued in one step (`Bind`). `own` and
`at` are history variables: the requests that were really recorded for the run
and the level of the last one it issued.

### 3.7 Data execution

`revisions` holds every revision of the project's data fields, `store` the
objects of the file store: the bytes of attachments with what is derived from
them, and the code and the outputs of executions. A request keeps the revision
it loaded (`read`). An upload is staged, validated and moved under a fresh
identifier (`CommitUpload`), parsed, and its derived objects are stored one by
one (`StoreGeneratedArtifact`), each of which may fail; the FILES gate reads
everything back (`FilesGate`). An analysis picks its media and awaits the agent.
An execution reads its inputs, stores its code (`StoreCodeArtifact`), awaits the
sandbox, stores what came out of it (`SandboxReturns`) and appends the code, the
record and all its objects to the state (`ExecutedState`); a write that fails in
between ends the request and leaves what was stored behind. The transaction at
the end is two steps, `CheckRevision` and `ReplaceState`, because SQLite takes
no row lock: two requests can pass the check, and the unique constraint
(`UniqueRevision`) lets one through. `OtherRevision` is any other workflow's
revision, `Dies` the end of a process anywhere, which leaves stored objects
behind.

### 3.8 A benchmark run

`worker` is the process in `BenchmarkWorkflow.run`: the case it is at, what it
knows of it (`outcome`) and the transactions still to be written (`todo`).
`executor` is the `LiveCaseExecutor` the workflow was given: which verdicts it
claims and of which agents it stores runs. The application's is
`PipelineBenchmarkExecutor`, which never claims a PASS and stores no run of the
paper agent; the protocol and the tests allow others. Of the requests of a case
only those with a stored agent run (`own`) are in what the program sums up;
those of the paper workflow, and a jury's answer that cannot be used, leave none
(`UnrecordedRun`, `unrecorded`). `costs` is what the cost metrics of each case
add up to and `coverages` the coverage metrics, whose conflict with the agent
runs of the projects raises (`MetricsConflict`); `Total` is the sum over the
first cases, which the budget is compared with. A case passes the budget, the
live literature, the pipeline (`StageRun` is one provider request of it), the
read of its coverage and its activity, the verdict on the budget, and six
transactions. `OtherRun` is an agent run another client starts on the same
project. `Raise` and `Dies` end the process where it stands.

### 3.9 Papers and submissions under overlapping requests

`proj` is the current revision, `papers`, `references`, `juries`, `checks`,
`snapshots` the rows with their `created_at`, `store` the artifacts of builds and
packages with whether their bytes are still the stored ones. A build loads the
evidence, draws the identity of its version (`NextIdentity`), and only then
awaits literature, author and audit; its version and revision are one
transaction (`PersistPaper`), the references a transaction of their own before
it. A final run loads the state, reads the named paper and its bytes
(`Candidate`), awaits the jury, evaluates everything again when it freezes
(`Freeze`), and appends two to four revisions at once (`StateHistory`,
`CommitFinal`). `DeadlinePasses` and `BytesChange` are the surroundings.

### 3.10 One build, one final run

`PaperBuild` goes through one build step by step on data: a project with its
verified evidence, the answers of the literature source, what the author agent
wrote, the citation reviews, the audit, the compiler's exit, and the bytes of
the artifacts, of which one may be changed or lost at any time after the assets.
`Gate` is the quality gate with all its validators (`Issues`); each validator is
an operator of `PaperClaims` that returns the issues the code raises. Amounts
are integers in hundredths of their unit, so that conversion (`UnitScale`),
rounding (`IsRounding`) and tolerance (`Close`) are computed and not assumed. A
number of a text is kept as it is written (`Written`): its digits, the word
after it, whether a comma groups its thousands, whether a label such as "Table"
precedes it. What the validators make of it is another matter (`TextNumbers`,
`UnitRead`): the regular expression of `paper/claims.py` takes the first unit a
word begins with, so that "min" and "machines" give m and "truck" gives t, reads
a number before an unknown word as one without a unit, and splits at a comma.
`Exempt` are the numbers of prose that the detector of unsupported numbers lets
pass: whole ones from 1900 to 2100, whatever follows, and labelled ones.
`SubmissionPackage` continues with a final run: `EvaluateRule` for every type of
rule and status of its source, on the names (`NameOf`), formats and number of
the submitted files, `CoverageStatus` for every required output, `JuryDecision`,
`CheckStatus`, the freeze with its second evaluation, and the verification of
the package while time passes.

## 4. Runs

| run | module / configuration | what it shows |
|---|---|---|
| `serial_operations` | `MCVerification.cfg` | every sequence of operations from a new project, with every verdict of every gate, through a repair and the verification of the repaired model |
| `concurrent_requests` | `MCVerificationClients.cfg` | two requests at a time, single or composite, four in all, from a new and a selected project, interleaved at every transaction: reads are consistent, repairs are counted, a verified result stays, the interleaved program implements the serial one, and retries and the repair loop end |
| `model_solving` | `MCSolveAttempt.cfg` | one solving call with up to two attempts, by adapter or generated program, against every answer of every docker command, solver and program, a generated program that writes the completion marker, another request, a crash and one altered fact of the stored rows: accepted results are real, trusted rows are as solved, containers are removed, the call ends with its agent runs on record |
| `independent_jobs` | `MCIndependentJobs.cfg` | two workers on one plan; refinement of `IndependentOutcomes`; a claimed job is settled unless its worker died |
| `provider_credentials` | `MCProviderCredentials.cfg` | three requests put, delete, fail and stop beside patches with any well-formed reference and a deletion through another provider: the reference resolves unless a patch named it, a rotation is always fresh |
| `model_execution` | `MCModelExecution.cfg` | two probes, a call and edits of both rows: what opens the guard was in force during the guard |
| `agent_runs` | `MCAgentRun.cfg` | two runs on one adapter, every outcome of every attempt: usage, bounds, escalation, and every run ends |
| `data_execution` | `MCDataExecution.cfg` | two requests at a time upload, analyse and execute, with a commit in two steps, failed writes and deaths: the understanding is current, rows have their bytes, those of code and outputs included, nothing is lost, requests end |
| `benchmark_run` | `MCBenchmark.cfg` | a run of two cases, by the executor of the application and by one that records everything, with every failure, exception and crash, beside another client: budget and overrun on record, readiness, and the run ends |
| `paper_submission` | `MCSubmission.cfg` | four searches, builds and final runs, two at a time, with a deadline and changing bytes: numbered versions, frozen is approved, snapshots stay proven, readiness is that of the newest jury |
| `document_review` | `MCDocumentReview.cfg` | one build and one final run on data with one fault each, texts that are read otherwise than written among them: ready is grounded, sound is ready, frozen is compliant |
| `paper_cannot_be_corrected` | `MCPaperCorrection.cfg` | violated, see section 8 |

**Bounds.** `MaxRevision = 15` and one repair cycle in `serial_operations`: a
history from INGEST that verifies a result takes nine revisions, and one that
repairs its model and verifies the repaired one takes fifteen, so this is the
first bound at which a result of a repaired model is reviewed; every failed
gate, extra data revision and repeated solve on a shorter way is covered too. In
`concurrent_requests` `MaxRevision = 30` is never reached; `MaxRequests` bounds
it instead: four requests, of which two are in flight at a time, let a composite
request be overtaken in each of its transactions, by one that succeeds, fails or
repairs, and go on afterwards; four are the least with which two repair loops
can run on one reviewed result, after a run that solved and one that verified.
There `MaxRepairCycles` is 2, so that two loops can plan the same cycle; the
code allows 1 to 3. `MaxSolveAttempts = 2` gives one retry. `ReviewedVersions =
{2}` binds a template at a version other than 1, the case in which the lineage
does not start at one. `model_solving` has a convex nonlinear program, which
only SciPy takes, and an integer program that prefers Gurobi, which all three
take, so that the fallback, a licence that disappears and a model nobody can
take all happen; generated programs report OPTIMAL or INFEASIBLE, one status
that is computed again and one that is not; `MaxAttempts = 2` gives one retry
and `MaxVersion = 2` one revision by somebody else before the call stores its
first. Exit codes 0 and 1 stand for success and failure. One alteration is
enough, because nothing is promised of two that agree with each other. The
proofs lift all of these. Two workers, a required and an optional scenario and
the baseline are the smallest instance in which one worker can overtake another
between its two reads and a view can fail on one scenario while another is
settled. Three credential requests let one be overtaken twice between its read
and its deletion, and `MaxSecrets = 4` lets each of them put one and one begin
again; `MaxGiven = 1` is one secret that patches may name, as often as they
like, beside the others that must go on resolving. In `model_execution` two
probes can commit in the order opposite to their stamps, and three edits change
a row, change it back and change the other row, once each inside a guard; one
model is enough because the rows of another are never compared with it.
`MaxRetries = 2`, the default, gives the retry on the same level and one
escalation, which is a review for a run that began on the highest level; more
retries are left to the proofs.

In `data_execution` two requests and two attachments let an upload overtake an
analysis and another upload; `MaxRevision = 4` is an upload, an analysis and a
second upload or execution beyond the first revision, and requests that began
before go beyond it. `Output = {"figure"}` is an output that a run leaves or
does not, and `MaxRuns = 2` lets two executions overlap. The benchmark has two
executors, two cases, a budget of 3 for the run and 2 for each, and three
requests per case, so that one case can reach the budget, cross its own, or
cross the run's with the other; one request of another client is enough to
contradict the metrics. In `paper_submission` two requests in flight and four in
all let two builds, a build and a final run, or two final runs overlap and one
more follow. `document_review` enumerates 11 projects, 5 sources, 14 sound
papers, of which three are not plainly written and one has a year in its prose,
6 papers that are read as something else, 26 kinds of wrong claims and 21 of
wrong documents, each with one fault, 14 papers a profile may or may not accept,
43 profiles, 5 jury drafts and 4 distances to a deadline; faults of two parts
are combined where the surroundings choose one (a mock reviewer, lost bytes, a
failed compilation). The review of the good project has a critical finding that
was dealt with and a major one that is open; the faults of projects are among
the others a finding that still blocks and a second bound chain.

**Deadlock** is not checked where the system may rightly stop: all requests
submitted and ended, the revision bound reached, the sandbox call ended, a build
refused. It is checked in `independent_jobs`, where a view is always possible,
and in `benchmark_run`, whose end is a step of its own (`Stopped`).

**Symmetry** over clients, requests and probes is used in safety runs only; none
of the properties names one.

## 5. Fairness

The safety properties need none; the runs that check a liveness property as well
use the fair specification for all of their properties.

- `RequestsEnd`: a request that was submitted keeps taking steps
  (`WF(Proceed(c))` for each one). Agents, solvers, sandboxes and database
  sessions run under time limits and the event loop schedules every task.
  Nothing is assumed of submissions, and `Abandon` is never forced.
- `SolveIsSettled`: `WF(Solve)` for the one call. Each docker command has a time
  limit of its own and so have the agent's attempts, so each step of the call
  returns; nothing is assumed of the program, the wrapper, the container or other
  requests, and the crash is never forced.
- `JobsSettle`: `WF(Proceed(w))` for each worker. A replay is a sandbox run and
  recomputation is bounded; a worker that dies is the exception the property
  names.
- `RequestsEnd` of `DataExecution`: `WF(Progress(r))` for each request. Parsers,
  the agent and the sandbox answer within limits and the event loop schedules
  every task; deaths, new requests and other revisions are never forced.
- `RunEnds` of `Benchmark`: `WF(Progress)` for the one process. Every stage and
  request has a time limit, so a pipeline that goes on running agents
  (`StageRun`) ends some time; the crash is never forced.
- `RunsEnd`: `WF(Progress(r))` for each agent run. The event loop resumes it and
  every request has a total time-out; which answer it gets is never forced.

## 6. Proofs

All theorems hold for every value of the constants that satisfies the named
assumptions in the modules: any number of revisions and any configured limit for
`Verification`, any clients, kinds and numbers of requests for
`VerificationClients`, any exit codes for `SandboxRun`, any models, options and
statuses a program may report and up to three attempts, the code's limit, for
`SolveAttempt`, any clients, references and requests for `Submission`, any
workers and scenarios for `IndependentJobs` (`baseline` is no scenario's name
and at least one is required), any requests and secrets for
`ProviderCredentials`, any models, settings, probes, calls and edits for
`ModelExecution`, any runs and retries for `AgentRun`, any requests,
attachments, kinds of attachments, outputs and revisions for `DataExecution`,
any cases, budgets, executors and required numbers for `Benchmark`, any
projects, manuscripts, sources, profiles, jury drafts and hours for `PaperBuild`
and `SubmissionPackage`. `VerificationProofs` holds the theorems of
`Verification` and `VerificationClients`, `SandboxRunProofs` those of
`SandboxRun` and `SolveAttempt`, `SubmissionProofs` those of `Paper` and
`Submission`, `ProviderProofs` those of `ProviderCredentials`, `ModelExecution`
and `AgentRun`, and `DocumentProofs` those of `PaperBuild` and
`SubmissionPackage`; the other proof modules are named for their component.

**Verification.** `VerificationProofs` begins with lemmas about the operators
that build the next revision, their types and which fields they change. It
proves `TypeOK` and then `PrerequisitesReady`, which is the
heart: it says what the *latest* reports are worth at each stage, and is
inductive because each operation appends exactly one report, moves forward only
on a pass, and a repair moves to a stage that promises nothing. The other
invariants are layered on it. `ReviewsRestOnPassedRuns` needs it at the step
that stores a review. `VerifiedResultIsProven` is strengthened to
`VerifiedInv` with `ValidState(proj)`, which every append checks: the exhaustion
mark drops the pointer whatever the stage, and only the disagreement with the
entries still marked keeps it from doing so on a verified project.
`RepairsAreCounted`, `RefsMatchRows` and `ModelLineage` follow; the last needs
`LineageInv`: there is no model before MODEL is reached, so that the first one
has no source. The action properties `StageFollowsTable` and
`VerifiedResultIsFinal` follow from the same invariants.

**Overlapping requests.** The second half of `VerificationProofs` is about
`VerificationClients`. What makes it work is one conjunct of `RequestInv`: a
request that has loaded the state is derived from a version at most the current
one, and *if it is still the current one*, everything it has read in its separate
transactions is what one transaction would have read now (`Fresh`). Another
request's commit raises the version and so voids the condition; versions never
come back. `ReadInv` says what has been read by each step of `Script`, and
`LoopInv` that a repair loop's planned cycles and the cycles already spent by
anybody reach the limit together, which the exhaustion mark needs: it is only
written when no cycle is left. With this every `Commit...` is the serial operation on the
current state, every other step leaves the project alone (`ClientsNextHolds`), and
`ImplementsVerification` follows. `FreshReads` is a part of the invariant, and the
serial theorems carry over through the refinement: `ConcurrentVerifiedResult`,
`ConcurrentFinality`, `ConcurrentRepairs`.

**SandboxRun.** The invariant relates what the executor believes to what
happened in the container: `ContainerInv` is about the daemon's side alone,
`RunInv` says which local variables can be set at which step, and `VerdictInv`
that a return code 0 with neither a time-out, a runner error nor a copy error
comes, after the copy step, from a marker that was seen and outputs that were
all copied. That the code in it is the one the program ended with holds of a
marker the program has left alone, and this is how the properties say it
(`tampered \/ EndedWell`): the marker is in a directory the program may write
to, so of the others nothing can be said, and nothing is assumed.
`GatedRunReallySucceeded`, `SolvedRunReallySucceeded` and `NothingKeepsRunning`
follow.

**SolveAttempt**, in the same module. The sandbox of each attempt starts from
its initial state and takes its own steps, so its invariant goes through a call
(`SandboxStep`) and hands over what `Store` needs: if a result could be read, it
was copied whole, and the program ended with exit code zero unless it is a
generated one that wrote the marker itself (`RunBehind`). From there
`AnswerIsRight` goes through the tables of the adapters and the checks on
generated programs: whatever the answer, OPTIMAL and FEASIBLE survive only on
values that satisfy the model, and `AnswerIsReal` through the gate; this part
needs no word of the marker, since the recomputation looks at the values and not
at the exit code. For `TrustedResultIsAsSolved` the invariant is `RowsInv`, what
unaltered rows look like; the property is then preserved by `Alter`, fact by
fact: for each field of each row, some comparison of columns, parser or verifier
fails, or the field is none that the property names (`AlteredIsTrusted`). The
routing is in the model but decides nothing of this: the theorems hold for
whichever adapter is chosen.

**Submission.** `Inv` of `SubmissionProofs` has the same condition as above at its
heart: `Holds` says of a request that *if nothing was appended since it loaded its
base*, the identity it drew is the next in line, its stamp is younger than every
stored row and what it reviews is listed; the stamp in the row, taken minutes
before the commit, would otherwise prove nothing about the order of commits.
`TicketInv` gives every request an identity that no stored row carries, so that a
freeze cannot overwrite the bytes of another (`Packed`), and `PapersInv`,
`SnapshotInv` and `ReadinessInv` are the four properties in the form that is
inductive: each version has exactly one row, each snapshot one place in the
state, the newest jury one decision.

**IndependentJobs.** `JobsInv` and `ExecutionsInv` tie outcomes and executions to
the status of jobs, `OwnersInv` gives every running job at most one worker and
every view a past that is still true, `ViewInv` is the pair of properties
of views. With it every step maps to a step of `IndependentOutcomes` or to a
stutter (`Refinement`).

**ProviderCredentials.** Nothing in the code compares the reference a request
read with the one it overwrites, so the invariant is about whose a secret is: a
secret that was stored and not written yet belongs to one request (`Distinct`)
and the row has never referred to it, while what a request is going to delete is
a reference the row has had and has no more (`RequestInv`). So neither the
deletion nor the undoing of one request can hit the reference of the row, and
`RotationIsFresh` follows for the same reason. A secret that a POST or PATCH has
named belongs to nobody in this sense, so each part excepts the secrets in
`given`, and so do the two properties. `ReferenceCorrectness` therefore says of
every other reference that it resolves, however many named ones surround it;
that a named one need not is a fact about the code, see section 8.

**ModelExecution.** `ReadyHasEvidence` is inductive with `PassedWhileEnabled` because
every edit resets the health and a result is only stored for the rows of that
moment. The two properties of the guard need `CallersInv`: at each statement of
its three passes, what an attempt has read so far, and that each row it has
compared during the guard is one of `held`. `ProbersInv` says what a probe may
claim: a pass was measured on rows that were enabled.

**AgentRun.** `AttemptInv` ties the attempt, the level it is routed to and the
executions so far at each phase; a run only gets to a provider on an executable
level, and this bounds the attempts from above whatever `max_retries` is.
`UsageInv` says that the shared counter never runs behind what a waiting run read
of it, so that the difference covers its own request.

**DataExecution.** `TypeOK` says nothing of what a request has in hand, so the
invariant adds it (`Held`): the file of an upload is known to nobody else and
its kept objects are in the store, and so are the code and the outputs of a run
that is about to be recorded; a state that waits for its transaction extends the
revision it was derived from, and is sound *if that revision is still the
current one*. The condition is the point: an analysis that was overtaken by an
upload holds an understanding that is out of date, and stays harmless because a
request that has fallen behind can never catch up, whatever the two halves of
the commit see (`Appended`). `FilesInv` keeps the file of one upload out of what
another one is going to append, which is what a rejected FILES gate needs: its
profile is added, and the understanding is kept. `UnderstandingIsCurrent`,
`BytesBehindRows` and `NothingIsLost` follow.

**Benchmark.** Costs and coverage are those on record, because nothing else is
ever summed: requests that leave no agent run are counted in the model
(`unrecorded`) and enter no statement about a stored cost. `Inv` follows the
outcome of a case to its result. `OutcomeInv`: what an outcome costs covers the
stored runs of the executor, also when other clients add to the calls of the
project, and the agents it claims were read from the project, whose set only
grows. `WriteInv`: whatever of the two orders of writing a case takes
(`Remaining`), once the attempt is written it *is* the outcome, and its status
says so if the budget of the case was crossed (`Reported`); only an executor
that raised escapes that. `Untouched`: a case that is not current has no result
to come and nothing of it is spent or stored any more, so that what `ResultsInv`
says of a result stays true. `ReadyIsEarned` then only needs that the acceptance
counts results it has gated by their independent verification
(`RegatedIsEarned`). `RecordableInv` bounds what a project can have on record by
what its executor and the application store; the agents of a completed case are
never all among them if the executor is the application's, so that its runs
never end ready, which `ReadyIsEarned` says too.

`BudgetStopsLaterWork` and `OverrunIsReported` compare sums over cases. The sum
is a recursive function of the number of the last case, so its equations are
proved and not assumed (`TotalEquations`), and what holds of it for every number
of cases follows from the least number for which it would fail (`Least`, from
the library's theorem on minimal elements): there is no rule of induction that
the provers could instantiate, but a set of numbers has a least element. With
that `TotalIsMonotone` and `TotalOfSame` compare sums case by case. `BudgetInv`
stands over `Inv`: every earlier case was charged at least what the stored runs
of its executor cost (`CostsInv`), which connects the stored sum that
`CheckBudget` reads with the runs on record; the charge of the case at hand is
written before its attempt whichever of the two orders the writes take
(`ChargedInv`); and a case that is worked on found the budget unspent
(`AdmittedInv`). `Lost` is the exception in both statements: an executor that
raised is charged nothing, and what it spent is in no sum of the program. What
`BudgetStopsLaterWork` stops is any request of a later case, recorded or not.

**Papers and packages.** `GroundedCorrectness` and `ComplianceCorrectness` are
about what one build and one final run decide, for every input. The named
assumptions say of the inputs what the schemas make sure of: amounts are
numbers, a claim has its fields and the shape of structured value of its kind
(`ClaimSchema`), the rules of a profile are finitely many and have one of the
code's statuses, hours are integers; they say nothing of whether anything is
right. `DocumentProofs` begins with the arithmetic of amounts: two amounts that
are close without a tolerance are equal on the scale of the smallest unit
(`CloseExactly`), conversion goes both ways, and a printed amount that rounds to
the stated one rounds to the measured one. With it `SaidIsMeasured` says that a
claim which states its amount exactly, and which the gate raises no error
against, states what each record it cites measured, however its text is written.
That the text shows it as well needs that it is read as it is written
(`PlainlyWritten`, `ReadIsWritten`): no separator, and no word after a number
but a unit that is not taken for another; `MeasuredIsShown` has both parts. A
claim that states a tolerance is left to the code's own comparison. For the
other conjuncts there is a lemma for each validator (`MaterialIsSupported`,
`CitationIsSupported`, `BytesAreRight`), and `CleanIsGrounded` puts them
together. The gate judges the paper as it is at the end of a build, from
evidence collected at its beginning, so `BuildInv` carries what it relies on
across the steps between: claims that passed the schema and the claim graph keep
their shape and name existing evidence (`PaperInv`), a support check is about a
reference whose text was there to be quoted (`SupportInv`), and a figure that
was damaged when the compilation embedded it is still damaged when the gate
looks (`FigureInv`). `ReportInv` is the property in its inductive form: the rest
of a final run never touches the paper.

For the package, `PassIsObeyed` goes through the types of rules, with
`RegisteredLimits` for the numbers a profile states twice and `FilesObeyed` for
the number, the names and the formats of the files; `RulesObeyed` has it that a
check that passes leaves no blocking rule unbelieved or broken, and
`CoveredIsAnswered` that a covered output is answered by a claim of the paper.
Time is the part that does not stay true: `PackageInv` keeps apart what the
freeze settles for good (`Sealed`: rules other than the deadline, text, files
and their bytes, answers) and what holds at the hour of the last verification
(`InTime`), because a package that was frozen before its deadline goes on
existing after it.

Proving these corrected the model in a few places the enumeration had not reached:
arms of a CASE that overlapped now exclude each other, `Obeyed` and `ShowsMeasured`
say of every input what they said of the enumerated ones, and a union that is joined
with another set is in parentheses, because `tlapm` lets `UNION` reach further to the
right than TLC does and would have proved theorems about other formulas.

Some theorems state properties that no run checks, because a deeper one covers
what they say on a small instance: `StageFollowsTable`, `RefsMatchRows`,
`ModelLineage`, `GatedRunReallySucceeded`, `SolvedRunReallySucceeded`,
`SolveTypeOK`, `PassedWhileEnabled`, `EscalationIsExhausted` and
`TraceIsLastRequest`.

**Only model-checked.** The liveness properties (`RequestsEnd` of both modules,
`SolveIsSettled`, `JobsSettle`, `RunsEnd`, `RunEnds`): liveness under fairness
is outside what the prover does, and so is ENABLED. `SoundPaperIsReady` is a
statement about the papers that the instance marks as sound, the ones with every
conversion, rounding and tolerance done right, as far as their claims are
plainly written: it says that the validators accept them, and that there are
such papers is what the enumeration shows. For every manuscript it would have to
define soundness by the conditions of the validators, and say nothing.

## 7. Abstractions and assumptions

- A transaction is one atomic step. On PostgreSQL the row lock makes the
  revision check and the append atomic; SQLite ignores `with_for_update`, and
  there the unique constraints of `db/models.py:65` on the problem and the
  version decide, with the same outcome: the later one fails.
- *Latest* is the last committed row. The code orders by `created_at`, a stamp
  taken when the record is built. They agree on one clock, since a report is
  built after the revision it follows was loaded. `Paper` and `Submission` have
  the stamps, because there the time between stamp and commit is an agent's.
- Evidence files, digests and the policy of a plan do not change during a view.
- A plan has a fresh identity, so that a second `prepare_and_run` of an attempt
  finds another plan and fails; the order of operations in the policy is any.
- In the verification chain an agent either answers or ends the request; how its
  attempts come to that is `AgentRun`.
- The identifiers of secrets are drawn at random and taken to be distinct. A
  request that puts or deletes a credential elsewhere touches only a secret that
  some POST or PATCH has named.
- The stamps `performed_at` come from one clock that does not go back. Nothing
  sets `cooldown_until` or the health DEGRADED, so neither is in the model.
- Statements read what is committed when they run. In `ModelExecution` whether a
  credential resolves is part of the settings of a provider (`NoCredential`); a
  secret that disappears, or a variable of the environment that changes, while
  the row stays as it is, is not modelled there.
- The cancellation of an agent run by its task is not modelled.
- What the validator of `ProblemState` says of papers and submissions holds for
  every state the modelled workflows build and is not evaluated again.
- A rounded amount is accepted whichever way a tie is rounded. Words are the
  classes the validators look for (`"best"`, `"exact"`, a solver's name), not text.
- A number that is grouped has one separator, and scientific notation is left
  out; whether a label precedes a number is given with it, and of unknown words
  after a number there are those that begin like a unit and those that do not.
- A table is one object whatever its kind; a page is one unit of size. Rules on
  file names are the exact name of a role and the profile's prefix and suffix,
  not a prefix or suffix of a rule's own; duplicate paths and forbidden names
  cannot occur among the files the code itself names.
- The findings of a jury draft have distinct identifiers, as the schema demands.
- At most one stored artifact is changed or lost, and does not come back.
- In `SubmissionPackage` the freeze evaluates, builds and verifies in one step;
  what can pass between those is in `Submission`.
- In `Benchmark` a pipeline is a number of provider requests, with an agent run
  on record or without, and a verdict; what the stages do to the project is the
  other modules'. Of the six critical agents two stand for all, one whose runs
  are stored and the one whose runs are not. Every request costs one unit.
- In `SandboxRun` the program writes any exit code, or something that is none,
  into the completion marker, or removes it; what else it may do to its own
  outputs is left to whoever reads them.
- Staged bytes of an upload are not in `DataExecution`: nothing reads them but
  the request that staged them.

- In `SolveAttempt` a family the router or a capability the plan does not know
  by name is left out (it makes the model unroutable, which happens for other
  reasons too), every solver may or may not be available whatever the last look
  said, and an assignment is one class even if it violates the model twice over.
  A numeric solver is not trusted: any complete assignment may come with a
  status that promises one. Only the records of the last attempt of a call are in
  the state; earlier ones stay in the database, refused.
- An alteration changes one fact. Two altered facts that agree with each other
  are outside what the code's comparisons can notice, since nothing is signed.

**What is not modelled, and why.** Floating-point solving, symbolic algebra,
expressions and units: unbounded data; what is decided from their outcome is in
`SolveAttempt`. The order of agents' candidates: a pure function of one input. Parsing,
rendering, HTTP adapters and the frontend: no state, or pure I/O. Reports and
manifests of the benchmark: written once from what is modelled. The planner of
paper corrections: no workflow calls it. Migrations, scripts and images: schema
history and tools outside the running system. The components in `PROJECT.json`
say it one by one.

## 8. Where the code and its documents disagree

**A paper cannot be corrected** (`paper/evidence.py:211`). `src/docs/STATE_MODEL.md:46`
draws, under FINAL_JURY, SUBMISSION and FINAL, "correction/recheck" with an arrow
back to PAPER, and the transition table allows PAPER after PAPER and after all
three. The evidence of a build requires a state whose status is SUCCEEDED. A build
that ends FAILED or HUMAN_REVIEW, and a final run whose jury or check does not
pass, leave another status, and until a final run on an earlier ready paper
passes every build of the project is refused. The run `paper_cannot_be_corrected`
shows it, as the violation of `PaperCanBeCorrected`.

Observations that no run checks. On verification, sandbox, providers and agents:

- `validate` takes any registered result of the current model
  (`verification/workflow.py:178`): a time-limited run that was registered with a
  RETRY can be named after a later solve passed, and nothing in the chain looks at
  its SOLVE gate. `src/docs/VERIFICATION_REPAIR.md:21` says later stages cannot
  reinterpret a failed predecessor as successful.
- A failed validation is a dead end (`verification/workflow.py:667`): the reason it
  stores says that a new solve or model review is required, but the table lets
  SOLVE be followed by VALIDATE only.
- The completion marker is in the directory the program writes its outputs to,
  under the same user, and is believed whoever wrote it
  (`sandbox/executor.py:414`): the exit code on record is the program's only if
  it leaves that file alone. The independent recomputation of a result does not
  look at it.
- When the wait or the logs fail after a start that answered 0, the record keeps
  that 0 and is SUCCEEDED (`sandbox/executor.py:259`). The EXECUTION gate and the
  solvers refuse it on other grounds.
- A DELETE of a credential that read the provider before a concurrent PUT wrote
  clears the new reference and deletes the old row; the new encrypted row stays
  (`api/routes/providers.py:222`, against `src/docs/SECURITY.md:142`).
- A POST or PATCH of a provider accepts every well-formed reference
  (`api/routes/providers.py:175`), also one that resolves to nothing, and two
  providers may be given the same one, of which either deletes it.
- An adapter whose solver says OPTIMAL for values that the recomputation refuses
  builds a `SolverResult` that its own validator rejects: `solve` raises and no
  attempt is persisted, although `src/docs/SOLVER_ARCHITECTURE.md:98` says failures
  are persisted and return to MODEL with RETRY. The same holds for a generated
  program that is refused before it runs, or whose result names another model.
- A program whose files are spelt `./main.py` states a bundle digest over names the
  sandbox normalises; its evidence can never be valid, whatever it computed.
- A result that could not be read out of a run with exit code 0 is stored as
  EXECUTION_ERROR over a record that SUCCEEDED, and its evidence is valid: valid
  evidence alone does not say that a program ended well. `TrustedResultIsAsSolved`
  therefore excepts that status, and the gate does not accept it.
- A revision conflict at the end of `solve` loses the run of the CodeAgent, which
  every other exception records (`mathematical/workflow.py:315`).
- The mark of an exhausted repair loop is written at whatever revision is
  current; only the validator keeps it from a verified project.
- `verification/run` reloads the state for each operation and can answer with
  reports of two models when a repair comes in between.
- A critical review without repair left, or a review by a mock, leaves the
  project at RED_TEAM, and the exhaustion mark can be written repeatedly.
- A job whose worker died, or whose recomputation raised, stays `RUNNING` for
  ever: the key that makes it run at most once also keeps it from running again.
- A container whose start timed out may be created after the removal, and a
  crash of the backend leaves the container and the workspace.
- The router and the guard compare the digests of the latest probe with rows that
  are read for it, not with the rows of the route (`routing/router.py:376`,
  `providers/factory.py:176`). With an edit and its reversal between the reads a
  request can rely on evidence of a configuration other than the one it was
  routed to; `GuardedBySameRows` says what does hold.
- A probe can be measured on an adapter built from rows that were edited and
  edited back before its result is stored (`providers/probe.py:103`).
- The usage of an attempt is a difference of a shared counter: a run whose request
  was lost can book the request of another run as well, so usage can be counted
  twice (`agents/base.py:208`); `UsageCoversRequests` is the direction that holds.

On data:

- `src/docs/STATE_MODEL.md:131` says every attempt appends a quality gate and a
  history entry; an understanding that its gate rejects is recorded as an agent run
  only.
- A process that dies leaves staged bytes that nobody cleans up; a refused
  commit or a failed write leaves objects in the store that nothing names, code
  and outputs of executions included.
- After an execution the stage is EXECUTION, and the next one needs a new
  attachment and analysis. FAILED files may be inputs and media.
- A parsed file whose gate fails because it could not be read back adds its
  profile, and neither stage nor understanding moves.

On benchmarks:

- `src/docs/FINAL_PROJECT_ACCEPTANCE.md:221` says exceptions reach terminal
  attempts; one raised between a case's transactions leaves the attempt, and the
  run, RUNNING, as a crash does. A case whose pipeline failed costs 0.
- A completed case must have stored runs of all six critical agents, and the
  paper workflow stores none of its own (`paper/workflow.py:377`, `:512`,
  `:657`, `:692`), so `benchmark/workflow.py:629` raises on every completed case
  of the application's executor and leaves it RUNNING (the comment at
  `benchmark/workflow.py:284` says that every formal attempt must reach a
  recorded terminal state).
- Requests of the paper agents, and a jury's answer that cannot be used
  (`submission/workflow.py:162`), are in no cost: what they spend passes the
  budgets unnoticed. `BudgetStopsLaterWork` and `OverrunIsReported` are about
  the rest.
- Live literature is required of every case that went through the executor,
  whatever its manifest says (`benchmark/workflow.py:735`).
- Nobody but the executor may claim a PASS, and the production one never does,
  which is a second reason why SELF_TEST_READY cannot be reached through it.
- Agent runs that others start on a case's project after it was recorded make its
  metrics contradict the stored ones, and the run stops with a conflict.

On papers:

- The expression that reads numbers off a text (`paper/claims.py:24`) tries m
  before min, needs no end of a word after a unit, drops a word it does not know
  and stops at a comma. "5 min" and "5 machines" become 5 m, so that sound
  claims of them are refused; "12 lb" is compared as 12 of the claimed unit, "1
  truck" as 1 t and "5,012.4 kg" as 5 and 12.4 kg, so that a ready paper can
  show them.
- A whole number from 1900 to 2100 in the prose passes as a year whatever unit
  follows (`paper/validators.py:377`), and so does one after a label.
- References are compared with the stamp of their retrieval
  (`paper/literature.py:181`), so a second search that finds the same one is
  refused; an unverified first verdict persists and blocks later ones.
- List items are checked neither for numbers nor for unsupported language
  (`src/docs/PAPER_PIPELINE.md:28`); the number of a claim without a structured
  value is not checked, and one matching number is enough for a numeric text.
- A major finding of the review that is still open has to be disclosed only if some
  claim names the review (`src/docs/VERIFICATION_REPAIR.md:99`); optimality and
  solver language is compared only for claims that name the result.
- An output can be answered by a MINOR claim that no section shows.
- The rows of references stay when the build fails later.

On submissions:

- A mock jury can pass and freeze unless the profile asks for an independent
  reviewer (`src/docs/FINAL_JURY.md:19`), and one that asks can never pass.
- The cache of freezes is keyed by a candidate that is fresh each time, so it never
  answers (`src/docs/SUBMISSION_PIPELINE.md:20` calls the freeze of one candidate
  idempotent).
- A second final run whose jury or check fails raises and leaves the old readiness; a
  rebuild after FINAL leaves FROZEN at stage PAPER.
- The verifier calls a package DIRTY once the deadline has passed; the message of
  the deadline rule includes the mode, so that a change of mode between check and
  freeze refuses.
- A format rule on the source or the references, or a profile without weights for
  the jury, can never pass. A stale commit leaves its package in the store.
