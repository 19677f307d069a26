---------------------------- MODULE BenchmarkProofs ----------------------------
(***************************************************************************)
(* What a benchmark run says of its cases has been earned, for any number  *)
(* of cases, any budget and any interleaving with other clients and        *)
(* deaths of the process.  The argument follows the outcome of a case from *)
(* the executor to its result: what the outcome costs covers the stored    *)
(* agent runs, what it claims of agents was read from the project, and     *)
(* what is stored of the case is written before the result is judged and   *)
(* not touched after it.  Over it stands a second invariant, on what the   *)
(* earlier cases have spent together and have been charged with.           *)
(***************************************************************************)
EXTENDS Benchmark, WellFoundedInduction, FiniteSetTheorems, TLAPS

WorkerState ==
  [step : Steps, case : Case, todo : Seq(Writes),
   literature : {"none", "live", "failed"}, outcome : Outcome]

\* The executor has not been called for the case yet.
Early == {"case", "budget", "literature", "project", "bind"}

Final == {"returned", "raised", "died"}

\* What is left to write of a case, at every moment.
Remaining ==
  { <<"cost", "coverage", "failures", "attempt", "independent", "result">>,
    <<"coverage", "failures", "attempt", "independent", "result">>,
    <<"failures", "attempt", "independent", "result">>,
    <<"attempt", "independent", "result">>,
    <<"independent", "result">>,
    <<"failures", "coverage", "cost", "attempt", "result">>,
    <<"coverage", "cost", "attempt", "result">>,
    <<"cost", "attempt", "result">>,
    <<"attempt", "result">>,
    <<"result">> }

\* What is on record of a case is within the budget of a case, unless its
\* status says that it is not or its executor raised.
Reported(c, status, project) ==
  \/ status = "BUDGET_EXCEEDED"
  \/ status = "FAIL" /\ ~project
  \/ projects[c].own <= MaxCaseCost

\* The outcome the worker holds says no more than the project of the case does.
OutcomeInv(k) ==
  /\ k.step \in {"coverage", "activity", "judge"} =>
       projects[k.case].own <= k.outcome.cost /\ k.outcome.project
  /\ k.step \in {"activity", "judge"} => k.outcome.covered \subseteq projects[k.case].covered
  /\ k.step = "judge" /\ k.outcome.status # "FAIL" => CriticalAgent \subseteq k.outcome.covered

\* Once the attempt is written, it is the outcome; the result is the last write.
WriteInv(k) ==
  k.step = "write" =>
    /\ k.todo \in Remaining
    /\ Reported(k.case, k.outcome.status, k.outcome.project)
    /\ k.outcome.status = "PASS" =>
         k.outcome.project /\ CriticalAgent \subseteq projects[k.case].covered
    /\ Head(k.todo) \in {"independent", "result"} =>
         /\ attempts[k.case].status = k.outcome.status
         /\ attempts[k.case].project = k.outcome.project

\* The cases after the current one have neither spent anything nor a result.
Untouched(k) ==
  \A c \in Case :
    /\ c > k.case \/ (c = k.case /\ k.step \in Early) =>
         projects[c].own = 0 /\ projects[c].unrecorded = 0
    /\ results[c] # "none" => c < k.case \/ k.step \in Final \cup {"accept"}

Earned(c) ==
  /\ attempts[c].live
  /\ "P1" \notin failures[c]
  /\ attempts[c].literature
  /\ CriticalAgent \subseteq projects[c].covered

\* A result is that of the attempt, and what it says has been earned.
ResultsInv ==
  \A c \in Case :
    results[c] # "none" =>
      /\ results[c] = attempts[c].status
      /\ Reported(c, attempts[c].status, attempts[c].project)
      /\ results[c] = "PASS" => Earned(c)

\* The runs on record are those that the executor or the application stores.
RecordableInv ==
  \A c \in Case :
    projects[c].covered \subseteq executor.stores \cup PipelineBenchmarkExecutor.stores

Inv ==
  /\ TypeOK
  /\ OutcomeInv(worker) /\ WriteInv(worker) /\ Untouched(worker)
  /\ ResultsInv /\ RecordableInv
  /\ run = "SELF_TEST_READY" => Ended /\ ReadyIsEarned

-----------------------------------------------------------------------------
(* Sums over the cases of a run.  The cases are numbered, so that a fact     *)
(* about the first n cases follows from one about the least n it fails for.  *)

\* Every set of natural numbers that is not empty has a least element.
LEMMA Least ==
  ASSUME NEW T \in SUBSET Nat, T # {}
  PROVE  \E n \in T : \A m \in T : n <= m
<1>1. PICK n \in T : \A m \in T : <<m, n>> \notin OpToRel(<, Nat)
  BY NatLessThanWellFounded, WFMin, Zenon
<1>2. \A m \in T : ~(m < n)
  BY <1>1 DEF OpToRel
<1> QED BY <1>2

\* The equations of a sum, for the function that is defined by them.
Sums(sum, amounts, last) ==
  sum = [n \in 0..last |-> IF n = 0 THEN 0 ELSE sum[n - 1] + amounts[n]]

LEMMA SumsExist ==
  ASSUME NEW amounts, NEW last \in Nat
  PROVE  \E sum : Sums(sum, amounts, last)
<1> DEFINE Missing == {n \in Nat : ~\E sum : Sums(sum, amounts, n)}
<1> SUFFICES ASSUME Missing # {} PROVE FALSE
  OBVIOUS
<1>1. PICK n \in Missing : \A m \in Missing : n <= m
  BY Least
<1>2. CASE n = 0
  <2>1. Sums([i \in 0..0 |-> 0], amounts, 0)
    BY DEF Sums
  <2> QED BY <1>2, <2>1
<1>3. CASE n # 0
  <2>1. n - 1 \in Nat /\ ~(n <= n - 1)
    BY <1>3
  <2>2. PICK sum : Sums(sum, amounts, n - 1)
    BY <1>1, <2>1
  <2> DEFINE next == [i \in 0..n |-> IF i = n THEN sum[n - 1] + amounts[n] ELSE sum[i]]
  <2>3. ASSUME NEW i \in 0..n
        PROVE  next[i] = IF i = 0 THEN 0 ELSE next[i - 1] + amounts[i]
    <3>1. CASE i = n
      BY <2>1, <1>3, <3>1
    <3>2. CASE i # n /\ i # 0
      <4>1. i \in 0..(n - 1) /\ i - 1 \in 0..n /\ i - 1 # n
        BY <3>2, <2>1
      <4>2. sum[i] = sum[i - 1] + amounts[i]
        BY <2>2, <3>2, <4>1 DEF Sums
      <4> QED BY <3>2, <4>1, <4>2
    <3>3. CASE i = 0
      <4>1. sum[0] = 0
        BY <2>2, <2>1 DEF Sums
      <4> QED BY <3>3, <4>1, <1>3
    <3> QED BY <3>1, <3>2, <3>3
  <2>4. Sums(next, amounts, n)
    BY <2>3 DEF Sums
  <2> QED BY <2>4
<1> QED BY <1>2, <1>3

LEMMA TotalEquations ==
  ASSUME NEW amounts
  PROVE  /\ Total(amounts, 0) = 0
         /\ \A n \in Case : Total(amounts, n) = Total(amounts, n - 1) + amounts[n]
<1> DEFINE sum == CHOOSE s : Sums(s, amounts, Cases)
<1>1. \A n : Total(amounts, n) = sum[n]
  BY DEF Total, Sums
<1>2. Sums(sum, amounts, Cases)
  BY SumsExist, CasesAssumption
<1> HIDE DEF sum
<1>3. sum[0] = 0
  BY <1>2, CasesAssumption DEF Sums
<1>4. ASSUME NEW n \in Case PROVE sum[n] = sum[n - 1] + amounts[n]
  <2>1. n \in 0..Cases /\ n # 0
    BY CasesAssumption DEF Case
  <2> QED BY <1>2, <2>1 DEF Sums
<1> QED BY <1>1, <1>3, <1>4

\* A fact about the first cases of a run that goes over from each to the next.
LEMMA CasesInduction ==
  ASSUME NEW Holds, 0 \in Holds, \A n \in Case : n - 1 \in Holds => n \in Holds
  PROVE  0..Cases \subseteq Holds
<1> DEFINE Missing == {n \in 0..Cases : n \notin Holds}
<1> SUFFICES ASSUME Missing # {} PROVE FALSE
  OBVIOUS
<1>0. Missing \in SUBSET Nat
  BY CasesAssumption
<1>1. PICK n \in Missing : \A m \in Missing : n <= m
  <2> HIDE DEF Missing
  <2> QED BY <1>0, Least
<1>2. n \in 0..Cases /\ n # 0 /\ Cases \in Nat
  BY <1>1, CasesAssumption
<1>3. n \in Case /\ n - 1 \in 0..Cases /\ ~(n <= n - 1)
  BY <1>2 DEF Case
<1>4. n - 1 \in Holds
  BY <1>1, <1>3
<1> QED BY <1>1, <1>3, <1>4

LEMMA TotalIsNat ==
  ASSUME NEW amounts \in [Case -> Nat], NEW n \in 0..Cases
  PROVE  Total(amounts, n) \in Nat
<1> DEFINE Holds == {m \in 0..Cases : Total(amounts, m) \in Nat}
<1>1. 0 \in Holds
  BY TotalEquations, CasesAssumption
<1>2. ASSUME NEW m \in Case, m - 1 \in Holds PROVE m \in Holds
  <2>1. Total(amounts, m) = Total(amounts, m - 1) + amounts[m] /\ amounts[m] \in Nat
    BY TotalEquations
  <2> QED BY <1>2, <2>1, CasesAssumption DEF Case
<1> HIDE DEF Holds
<1>3. 0..Cases \subseteq Holds
  BY <1>1, <1>2, CasesInduction
<1> QED BY <1>3 DEF Holds

\* No case amounts to more: neither do the first of them together.
LEMMA TotalIsMonotone ==
  ASSUME NEW lower \in [Case -> Nat], NEW upper \in [Case -> Nat], NEW n \in 0..Cases,
         \A c \in 1..n : lower[c] <= upper[c]
  PROVE  Total(lower, n) <= Total(upper, n)
<1> DEFINE Holds == {m \in 0..Cases : m <= n => Total(lower, m) <= Total(upper, m)}
<1>1. 0 \in Holds
  BY TotalEquations, CasesAssumption
<1>2. ASSUME NEW m \in Case, m - 1 \in Holds PROVE m \in Holds
  <2>1. SUFFICES ASSUME m <= n PROVE Total(lower, m) <= Total(upper, m)
    BY CasesAssumption DEF Case
  <2>2. m - 1 \in 0..Cases /\ m - 1 <= n /\ m \in 1..n
    BY <2>1, CasesAssumption DEF Case
  <2>3. lower[m] <= upper[m] /\ Total(lower, m - 1) <= Total(upper, m - 1)
    BY <1>2, <2>2
  <2>4. /\ Total(lower, m) = Total(lower, m - 1) + lower[m]
        /\ Total(upper, m) = Total(upper, m - 1) + upper[m]
    BY TotalEquations
  <2>5. /\ Total(lower, m - 1) \in Nat /\ Total(upper, m - 1) \in Nat
        /\ lower[m] \in Nat /\ upper[m] \in Nat
    BY <2>2, TotalIsNat
  <2> QED BY <2>3, <2>4, <2>5
<1> HIDE DEF Holds
<1>3. 0..Cases \subseteq Holds
  BY <1>1, <1>2, CasesInduction
<1> QED BY <1>3, CasesAssumption DEF Holds

\* Only what the first cases amount to counts.
LEMMA TotalOfSame ==
  ASSUME NEW one \in [Case -> Nat], NEW other \in [Case -> Nat], NEW n \in 0..Cases,
         \A c \in 1..n : one[c] = other[c]
  PROVE  Total(one, n) = Total(other, n)
<1>1. \A c \in 1..n : one[c] <= other[c] /\ other[c] <= one[c]
  BY CasesAssumption DEF Case
<1>2. Total(one, n) <= Total(other, n) /\ Total(other, n) <= Total(one, n)
  BY <1>1, TotalIsMonotone
<1>3. Total(one, n) \in Nat /\ Total(other, n) \in Nat
  BY TotalIsNat
<1> QED BY <1>2, <1>3

\* More cases never amount to less.
LEMMA TotalOfAll ==
  ASSUME NEW amounts \in [Case -> Nat], NEW n \in 0..Cases
  PROVE  Total(amounts, n) <= Total(amounts, Cases)
<1> DEFINE Holds == {m \in 0..Cases : n <= m => Total(amounts, n) <= Total(amounts, m)}
<1>1. 0 \in Holds
  BY CasesAssumption, TotalIsNat
<1>2. ASSUME NEW m \in Case, m - 1 \in Holds PROVE m \in Holds
  <2>1. m \in 0..Cases /\ m - 1 \in 0..Cases
    BY CasesAssumption DEF Case
  <2>2. Total(amounts, m) = Total(amounts, m - 1) + amounts[m] /\ amounts[m] \in Nat
    BY TotalEquations
  <2>3. Total(amounts, n) \in Nat /\ Total(amounts, m - 1) \in Nat
    BY <2>1, TotalIsNat
  <2>4. CASE n <= m - 1
    BY <1>2, <2>1, <2>2, <2>3, <2>4
  <2>5. CASE ~(n <= m - 1)
    <3>1. n <= m => n = m
      BY <2>1, <2>5, CasesAssumption
    <3> QED BY <2>1, <2>3, <3>1
  <2> QED BY <2>4, <2>5
<1> HIDE DEF Holds
<1>3. 0..Cases \subseteq Holds
  BY <1>1, <1>2, CasesInduction
<1> QED BY <1>3, CasesAssumption DEF Holds

-----------------------------------------------------------------------------
(* The writes of a case                                                      *)

LEMMA Tuples ==
  /\ \A a : Head(<<a>>) = a
  /\ \A a, b : Head(<<a, b>>) = a /\ Tail(<<a, b>>) = <<b>>
  /\ \A a, b, c : Head(<<a, b, c>>) = a /\ Tail(<<a, b, c>>) = <<b, c>>
  /\ \A a, b, c, d : Head(<<a, b, c, d>>) = a /\ Tail(<<a, b, c, d>>) = <<b, c, d>>
  /\ \A a, b, c, d, e :
       Head(<<a, b, c, d, e>>) = a /\ Tail(<<a, b, c, d, e>>) = <<b, c, d, e>>
  /\ \A a, b, c, d, e, f :
       Head(<<a, b, c, d, e, f>>) = a /\ Tail(<<a, b, c, d, e, f>>) = <<b, c, d, e, f>>
OBVIOUS

\* The lists are sequences of writes that begin with the costs or the failures.
LEMMA Lists ==
  /\ Remaining \subseteq Seq(Writes)
  /\ LiveWrites \in Remaining /\ BlockedWrites \in Remaining
  /\ Head(LiveWrites) = "cost" /\ Head(BlockedWrites) = "failures"
BY Tuples DEF Remaining, Writes, LiveWrites, BlockedWrites

\* Only what comes after the attempt is what the attempt has been written for.
LEMMA NextWrite ==
  ASSUME NEW todo \in Remaining, Head(todo) # "result"
  PROVE  /\ Tail(todo) \in Remaining
         /\ Head(Tail(todo)) \in {"independent", "result"} =>
              Head(todo) \in {"independent", "attempt"}
<1>1. CASE todo = <<"cost", "coverage", "failures", "attempt", "independent", "result">>
  BY <1>1, Tuples DEF Remaining
<1>2. CASE todo = <<"coverage", "failures", "attempt", "independent", "result">>
  BY <1>2, Tuples DEF Remaining
<1>3. CASE todo = <<"failures", "attempt", "independent", "result">>
  BY <1>3, Tuples DEF Remaining
<1>4. CASE todo = <<"attempt", "independent", "result">>
  BY <1>4, Tuples DEF Remaining
<1>5. CASE todo = <<"independent", "result">>
  BY <1>5, Tuples DEF Remaining
<1>6. CASE todo = <<"failures", "coverage", "cost", "attempt", "result">>
  BY <1>6, Tuples DEF Remaining
<1>7. CASE todo = <<"coverage", "cost", "attempt", "result">>
  BY <1>7, Tuples DEF Remaining
<1>8. CASE todo = <<"cost", "attempt", "result">>
  BY <1>8, Tuples DEF Remaining
<1>9. CASE todo = <<"attempt", "result">>
  BY <1>9, Tuples DEF Remaining
<1>10. CASE todo = <<"result">>
  BY <1>10, Tuples
<1> QED
  BY <1>1, <1>2, <1>3, <1>4, <1>5, <1>6, <1>7, <1>8, <1>9, <1>10 DEF Remaining

-----------------------------------------------------------------------------
(* Steps of the process                                                      *)

LEMMA NotRunFacts ==
  /\ NotRun \in Outcome /\ NotRun.cost = 0 /\ NotRun.status = "RUNNING"
  /\ NoAttempt.status = "PENDING" /\ ~NoAttempt.project
BY DEF NotRun, Outcome, CaseStatus, NoAttempt

\* A step that stores nothing and leaves the worker at its case.
LEMMA Local ==
  ASSUME Inv, UNCHANGED <<stored, projects>>,
         NEW k \in WorkerState, worker' = k, k.case = worker.case,
         OutcomeInv(k), WriteInv(k), ~Ended,
         k.step \in Early => worker.step \in Early,
         worker.step = "accept" => k.step \in Final
  PROVE  Inv'
<1>1. UNCHANGED <<run, attempts, costs, coverages, failures, results, independent,
                  projects, executor>>
  BY DEF stored
<1>2. TypeOK'
  BY <1>1 DEF Inv, TypeOK, WorkerState
<1>3. OutcomeInv(worker)' /\ WriteInv(worker)'
  BY <1>1 DEF OutcomeInv, WriteInv, Reported
<1>4. Untouched(worker)'
  BY <1>1 DEF Inv, Untouched, Ended, Final
<1>5. ResultsInv' /\ RecordableInv'
  BY <1>1 DEF Inv, ResultsInv, Reported, Earned, RecordableInv
<1>6. run' # "SELF_TEST_READY"
  BY <1>1 DEF Inv
<1> QED BY <1>2, <1>3, <1>4, <1>5, <1>6 DEF Inv

\* The worker gives up, with or without a word.
LEMMA Ends ==
  ASSUME Inv, ~Ended, NEW step \in Final, End(step), UNCHANGED <<stored, projects>>
  PROVE  Inv'
<1> PICK k : k = [step |-> step, case |-> worker.case, todo |-> <<>>, literature |-> "none",
                  outcome |-> NotRun]
  OBVIOUS
<1>1. k \in WorkerState /\ k.case = worker.case /\ k.step = step /\ worker' = k
  BY NotRunFacts DEF WorkerState, Inv, TypeOK, Steps, Final, End
<1>2. k.step \notin Early \cup {"coverage", "activity", "judge", "write"}
  BY <1>1 DEF Early, Final
<1> QED BY <1>1, <1>2, Local DEF OutcomeInv, WriteInv

\* The worker has what there is to record: nothing is written of it yet.
LEMMA Records ==
  ASSUME Inv, NEW c \in Case, AtCase(c, worker.step), ~Ended, worker.step # "accept",
         UNCHANGED <<stored, projects>>,
         NEW outcome \in Outcome, NEW todo \in {LiveWrites, BlockedWrites},
         NEW k \in WorkerState, worker' = k, k.case = c, k.step = "write",
         k.todo = todo, k.outcome = outcome,
         Reported(c, outcome.status, outcome.project),
         outcome.status = "PASS" =>
           outcome.project /\ CriticalAgent \subseteq projects[c].covered
  PROVE  Inv'
<1>1. todo \in Remaining /\ Head(todo) \notin {"independent", "result"}
  BY Lists
<1>2. WriteInv(k) /\ OutcomeInv(k)
  BY <1>1 DEF WriteInv, OutcomeInv
<1> QED BY <1>2, Local DEF AtCase, Early

LEMMA BlockedFacts ==
  ASSUME NEW status \in {"INVALID_BENCHMARK_SETUP", "BUDGET_EXCEEDED", "BLOCKED_ENVIRONMENT",
                         "FAIL"},
         NEW severity \in {"P1", "P2"}
  PROVE  /\ Blocked(status, severity) \in Outcome
         /\ Blocked(status, severity).status = status /\ ~Blocked(status, severity).project
BY DEF Blocked, NotRun, Outcome, CaseStatus, Preserved, SuccessStatuses

\* Before the executor is called nothing has been spent.
LEMMA EarlySpends ==
  ASSUME Inv, NEW c \in Case, worker.case = c, worker.step \in Early
  PROVE  \A status, project : Reported(c, status, project)
BY BudgetAssumption DEF Inv, Untouched, Reported

LEMMA CheckBudgetInv ==
  ASSUME Inv, NEW c \in Case, CheckBudget(c)
  PROVE  Inv'
<1>1. AtCase(c, "budget") /\ worker.step = "budget" /\ worker.case = c /\ ~Ended
      /\ worker \in WorkerState
  BY DEF CheckBudget, AtCase, At, Ended, Inv, TypeOK, WorkerState
<1>2. CASE Raise
  BY <1>1, <1>2, Ends DEF Raise, Final
<1>3. CASE Record(Blocked("BUDGET_EXCEEDED", "P2"), BlockedWrites)
           /\ UNCHANGED <<stored, projects>>
  <2> PICK outcome \in Outcome : outcome = Blocked("BUDGET_EXCEEDED", "P2")
    BY BlockedFacts
  <2> PICK k : k = [worker EXCEPT !.step = "write", !.outcome = outcome, !.todo = BlockedWrites]
    OBVIOUS
  <2>1. /\ k \in WorkerState /\ worker' = k /\ k.case = c /\ k.step = "write"
        /\ k.todo = BlockedWrites /\ k.outcome = outcome /\ outcome.status = "BUDGET_EXCEEDED"
    BY <1>1, <1>3, Lists, BlockedFacts DEF WorkerState, Steps, Record
  <2> QED BY <1>1, <1>3, <2>1, Records, EarlySpends DEF Early
<1>4. CASE Go("literature") /\ UNCHANGED <<stored, projects>>
  <2> PICK k : k = [worker EXCEPT !.step = "literature"]
    OBVIOUS
  <2>1. k \in WorkerState /\ worker' = k /\ k.case = c /\ k.step = "literature"
    BY <1>1, <1>4 DEF WorkerState, Steps, Go
  <2> QED BY <1>1, <1>4, <2>1, Local DEF OutcomeInv, WriteInv, Early
<1> QED BY <1>2, <1>3, <1>4 DEF CheckBudget

LEMMA LiveLiteratureInv ==
  ASSUME Inv, NEW c \in Case, LiveLiterature(c)
  PROVE  Inv'
<1>1. AtCase(c, "literature") /\ worker.step = "literature" /\ worker.case = c /\ ~Ended
      /\ worker \in WorkerState /\ UNCHANGED <<stored, projects>>
  BY DEF LiveLiterature, AtCase, At, Ended, Inv, TypeOK, WorkerState
<1>2. PICK lookup \in {"live", "failed", "none"} :
        \/ worker' = [worker EXCEPT !.step = "project", !.literature = lookup]
        \/ \E status \in {"BLOCKED_ENVIRONMENT", "BUDGET_EXCEEDED"} :
             worker' = [worker EXCEPT !.step = "write", !.literature = lookup,
                                      !.outcome = Blocked(status, "P1"),
                                      !.todo = BlockedWrites]
  BY DEF LiveLiterature
<1>3. CASE worker' = [worker EXCEPT !.step = "project", !.literature = lookup]
  <2> PICK k : k = [worker EXCEPT !.step = "project", !.literature = lookup]
    OBVIOUS
  <2>1. k \in WorkerState /\ worker' = k /\ k.case = c /\ k.step = "project"
    BY <1>1, <1>3 DEF WorkerState, Steps
  <2> QED BY <1>1, <2>1, Local DEF OutcomeInv, WriteInv, Early
<1>4. CASE \E status \in {"BLOCKED_ENVIRONMENT", "BUDGET_EXCEEDED"} :
             worker' = [worker EXCEPT !.step = "write", !.literature = lookup,
                                      !.outcome = Blocked(status, "P1"),
                                      !.todo = BlockedWrites]
  <2>1. PICK status \in {"BLOCKED_ENVIRONMENT", "BUDGET_EXCEEDED"} :
             worker' = [worker EXCEPT !.step = "write", !.literature = lookup,
                                      !.outcome = Blocked(status, "P1"),
                                      !.todo = BlockedWrites]
    BY <1>4
  <2> PICK outcome \in Outcome : outcome = Blocked(status, "P1")
    BY BlockedFacts
  <2> PICK k : k = [worker EXCEPT !.step = "write", !.literature = lookup,
                                  !.outcome = outcome, !.todo = BlockedWrites]
    OBVIOUS
  <2>2. /\ k \in WorkerState /\ worker' = k /\ k.case = c /\ k.step = "write"
        /\ k.todo = BlockedWrites /\ k.outcome = outcome /\ outcome.status # "PASS"
    BY <1>1, <2>1, Lists, BlockedFacts DEF WorkerState, Steps
  <2> QED BY <1>1, <2>2, Records, EarlySpends DEF Early
<1> QED BY <1>2, <1>3, <1>4

LEMMA PipelineFailureInv ==
  ASSUME Inv, NEW c \in Case, PipelineFailure(c)
  PROVE  Inv'
<1>1. /\ AtCase(c, worker.step) /\ worker.step \in {"project", "bind", "stages"} /\ ~Ended
      /\ worker.case = c /\ worker \in WorkerState /\ UNCHANGED <<stored, projects>>
      /\ Record(Blocked("FAIL", "P1"), BlockedWrites)
  BY DEF PipelineFailure, AtCase, At, Ended, Inv, TypeOK, WorkerState
<1> PICK outcome \in Outcome : outcome = Blocked("FAIL", "P1")
  BY BlockedFacts
<1> PICK k : k = [worker EXCEPT !.step = "write", !.outcome = outcome, !.todo = BlockedWrites]
  OBVIOUS
<1>2. /\ k \in WorkerState /\ worker' = k /\ k.case = c /\ k.step = "write"
      /\ k.todo = BlockedWrites /\ k.outcome = outcome
      /\ outcome.status = "FAIL" /\ ~outcome.project
  BY <1>1, Lists, BlockedFacts DEF WorkerState, Steps, Record
<1> QED BY <1>1, <1>2, Records DEF Reported

\* The calls of a case are those of the executor and those of other clients.
LEMMA CallsFacts ==
  ASSUME TypeOK, NEW c \in Case
  PROVE  /\ projects[c].own \in Nat /\ projects[c].other \in Nat
         /\ projects[c].unrecorded \in Nat
         /\ projects[c].covered \subseteq CriticalAgent
         /\ Calls(c) \in Nat /\ projects[c].own <= Calls(c)
BY DEF TypeOK, ProjectRuns, Calls

\* What an executor may be.
LEMMA ExecutorFacts ==
  ASSUME TypeOK
  PROVE  /\ executor.claims \subseteq {"BLOCKED_RULE_POLICY", "HUMAN_REVIEW", "PASS"}
         /\ executor.stores \subseteq CriticalAgent
         /\ PipelineBenchmarkExecutor.stores \subseteq CriticalAgent
BY ExecutorsAssumption DEF TypeOK, Executor, PipelineBenchmarkExecutor

\* The executor returns: what it reports includes all it has spent.
LEMMA Returns ==
  ASSUME Inv, NEW c \in Case, AtCase(c, "stages"), UNCHANGED <<stored, projects>>,
         NEW outcome \in Outcome, outcome.cost = Calls(c), outcome.project,
         worker' = [worker EXCEPT !.step = "coverage", !.outcome = outcome]
  PROVE  Inv'
<1>1. /\ worker.step = "stages" /\ worker.case = c /\ ~Ended /\ worker \in WorkerState
      /\ projects[c].own <= outcome.cost
  BY CallsFacts DEF AtCase, At, Ended, Inv, TypeOK, WorkerState
<1> PICK k : k = [worker EXCEPT !.step = "coverage", !.outcome = outcome]
  OBVIOUS
<1>2. k \in WorkerState /\ worker' = k /\ k.case = c /\ k.step = "coverage"
      /\ k.outcome = outcome
  BY <1>1 DEF WorkerState, Steps
<1> QED BY <1>1, <1>2, Local DEF OutcomeInv, WriteInv, Early

LEMMA StageFailsInv ==
  ASSUME Inv, NEW c \in Case, StageFails(c)
  PROVE  Inv'
<1> PICK cost \in Nat : cost = Calls(c)
  BY CallsFacts DEF Inv
<1>1. FailedOutcome(c) \in Outcome /\ FailedOutcome(c).cost = Calls(c)
      /\ FailedOutcome(c).project
  <2>1. CASE cost > 0
    <3>1. FailedOutcome(c) = [NotRun EXCEPT !.status = "FAIL", !.project = TRUE,
                                !.severity = "P1", !.cost = cost, !.live = TRUE]
      BY <2>1 DEF FailedOutcome, PartialMetrics
    <3> QED BY <3>1, NotRunFacts DEF Outcome, CaseStatus
  <2>2. CASE ~(cost > 0)
    <3>0. (Calls(c) > 0) = FALSE
      BY <2>2
    <3>1. FailedOutcome(c) = [NotRun EXCEPT !.status = "FAIL", !.project = TRUE,
                                !.severity = "P1", !.cost = cost, !.live = FALSE]
      BY <3>0, Zenon DEF FailedOutcome, PartialMetrics
    <3> QED BY <3>1, NotRunFacts DEF Outcome, CaseStatus
  <2> QED BY <2>1, <2>2
<1> PICK outcome \in Outcome : outcome = FailedOutcome(c)
  BY <1>1
<1>2. /\ AtCase(c, "stages") /\ UNCHANGED <<stored, projects>>
      /\ outcome.cost = Calls(c) /\ outcome.project
      /\ worker' = [worker EXCEPT !.step = "coverage", !.outcome = outcome]
  BY <1>1 DEF StageFails
<1> QED BY <1>2, Returns

LEMMA StagesCompleteInv ==
  ASSUME Inv, NEW c \in Case, StagesComplete(c)
  PROVE  Inv'
<1>1. PICK status \in executor.claims :
        worker' = [worker EXCEPT !.step = "coverage", !.outcome = CompletedOutcome(c, status)]
  BY DEF StagesComplete
<1>2. status \in CaseStatus
  <2>1. TypeOK
    BY DEF Inv
  <2>2. status \in {"BLOCKED_RULE_POLICY", "HUMAN_REVIEW", "PASS"}
    BY <2>1, ExecutorFacts
  <2> QED BY <2>2 DEF CaseStatus, Preserved, SuccessStatuses
<1>3. /\ CompletedOutcome(c, status) \in Outcome /\ CompletedOutcome(c, status).project
      /\ CompletedOutcome(c, status).cost = Calls(c)
  BY <1>2, CallsFacts, NotRunFacts DEF CompletedOutcome, Outcome, Inv
<1> PICK outcome \in Outcome : outcome = CompletedOutcome(c, status)
  BY <1>3
<1>4. /\ AtCase(c, "stages") /\ UNCHANGED <<stored, projects>>
      /\ outcome.cost = Calls(c) /\ outcome.project
      /\ worker' = [worker EXCEPT !.step = "coverage", !.outcome = outcome]
  BY <1>1, <1>3 DEF StagesComplete
<1> QED BY <1>4, Returns

LEMMA ReadCoverageInv ==
  ASSUME Inv, NEW c \in Case, ReadCoverage(c)
  PROVE  Inv'
<1>1. /\ worker.step = "coverage" /\ worker.case = c /\ ~Ended /\ worker \in WorkerState
      /\ UNCHANGED <<stored, projects>> /\ projects[c].covered \subseteq CriticalAgent
      /\ projects[c].own <= worker.outcome.cost /\ worker.outcome.project
  BY CallsFacts DEF ReadCoverage, AtCase, At, Ended, Inv, TypeOK, WorkerState, OutcomeInv
<1> PICK k : k = [worker EXCEPT !.step = "activity", !.outcome.covered = projects[c].covered]
  OBVIOUS
<1>2. /\ worker' = k /\ k.case = c /\ k.step = "activity" /\ k.todo = worker.todo
      /\ k.outcome = [worker.outcome EXCEPT !.covered = projects[c].covered]
      /\ k.literature = worker.literature
      /\ k = [step |-> k.step, case |-> k.case, todo |-> k.todo,
              literature |-> k.literature, outcome |-> k.outcome]
  BY <1>1 DEF ReadCoverage, WorkerState
<1>3. k.outcome \in Outcome /\ k.outcome.covered = projects[c].covered
      /\ k.outcome.cost = worker.outcome.cost /\ k.outcome.project
  BY <1>1, <1>2 DEF Outcome, WorkerState
<1>4. k \in WorkerState
  BY <1>1, <1>2, <1>3 DEF WorkerState, Steps
<1> QED BY <1>1, <1>2, <1>3, <1>4, Local DEF OutcomeInv, WriteInv, Early

LEMMA CheckActivityInv ==
  ASSUME Inv, NEW c \in Case, CheckActivity(c)
  PROVE  Inv'
<1>1. /\ worker.step = "activity" /\ worker.case = c /\ ~Ended /\ worker \in WorkerState
      /\ UNCHANGED <<stored, projects>> /\ OutcomeInv(worker)
  BY DEF CheckActivity, AtCase, At, Ended, Inv, TypeOK, WorkerState
<1>2. CASE Contradicts(worker.outcome, Calls(c) > 0)
  BY <1>1, <1>2, Ends DEF CheckActivity, Final
<1>3. CASE ~Contradicts(worker.outcome, Calls(c) > 0)
  <2> PICK k : k = [worker EXCEPT !.step = "judge"]
    OBVIOUS
  <2>1. /\ k \in WorkerState /\ worker' = k /\ k.case = c /\ k.step = "judge"
        /\ k.outcome = worker.outcome
    BY <1>1, <1>3 DEF WorkerState, Steps, CheckActivity, Go
  <2>2. OutcomeInv(k)
    BY <1>1, <1>3, <2>1 DEF OutcomeInv, Contradicts
  <2> QED BY <1>1, <2>1, <2>2, Local DEF WriteInv, Early
<1> QED BY <1>2, <1>3

\* What is judged within the budget of a case is.
LEMMA JudgeBudgetInv ==
  ASSUME Inv, NEW c \in Case, JudgeBudget(c)
  PROVE  Inv'
<1>1. /\ AtCase(c, worker.step) /\ worker.step = "judge" /\ worker.case = c /\ ~Ended
      /\ worker \in WorkerState /\ OutcomeInv(worker)
  BY DEF JudgeBudget, AtCase, At, Ended, Inv, TypeOK, WorkerState
<1>2. CASE Raise
  BY <1>1, <1>2, Ends DEF Raise, Final
<1>3. CASE ~Raise
  <2>1. PICK late \in BOOLEAN :
          /\ Record(IF late \/ OverBudget(worker.outcome.cost)
                    THEN [worker.outcome EXCEPT !.status = "BUDGET_EXCEEDED"]
                    ELSE worker.outcome, LiveWrites)
          /\ UNCHANGED <<stored, projects>>
    BY <1>3 DEF JudgeBudget
  <2> PICK outcome : outcome = IF late \/ OverBudget(worker.outcome.cost)
                               THEN [worker.outcome EXCEPT !.status = "BUDGET_EXCEEDED"]
                               ELSE worker.outcome
    OBVIOUS
  <2>2. /\ outcome \in Outcome
        /\ \/ outcome.status = "BUDGET_EXCEEDED"
           \/ outcome = worker.outcome /\ ~OverBudget(worker.outcome.cost)
    BY <1>1 DEF Outcome, WorkerState, CaseStatus, Preserved
  <2>3. projects[c].own \in Nat /\ worker.outcome.cost \in Nat /\ MaxCaseCost \in Nat
    BY <1>1, CallsFacts, BudgetAssumption DEF Inv, WorkerState, Outcome
  <2>4. Reported(c, outcome.status, outcome.project)
    BY <1>1, <2>2, <2>3 DEF OutcomeInv, OverBudget, Reported
  <2>5. outcome.status = "PASS" =>
          outcome.project /\ CriticalAgent \subseteq projects[c].covered
    BY <1>1, <2>2 DEF OutcomeInv
  <2> PICK k : k = [worker EXCEPT !.step = "write", !.outcome = outcome, !.todo = LiveWrites]
    OBVIOUS
  <2>6. /\ k \in WorkerState /\ worker' = k /\ k.case = c /\ k.step = "write"
        /\ k.todo = LiveWrites /\ k.outcome = outcome
    BY <1>1, <2>1, <2>2, Lists DEF WorkerState, Steps, Record
  <2> QED BY <1>1, <2>1, <2>2, <2>4, <2>5, <2>6, Records
<1> QED BY <1>2, <1>3

LEMMA DiesInv ==
  ASSUME Inv, Dies
  PROVE  Inv'
BY Ends DEF Dies, Final

-----------------------------------------------------------------------------
(* Steps that store                                                          *)

\* A step that stores something of the current case only.
LEMMA Stores ==
  ASSUME Inv, NEW c \in Case, AtCase(c, worker.step), ~Ended, worker.step # "accept",
         UNCHANGED <<run, results, executor>>, TypeOK',
         \A d \in Case \ {c} : attempts'[d] = attempts[d] /\ failures'[d] = failures[d],
         \A d \in Case : /\ projects'[d].own = projects[d].own
                         /\ projects'[d].unrecorded = projects[d].unrecorded
                         /\ projects'[d].covered = projects[d].covered,
         NEW k \in WorkerState, worker' = k, k.case = c,
         OutcomeInv(k)', WriteInv(k)', k.step \in Early => worker.step \in Early
  PROVE  Inv'
<1>1. worker.case = c /\ results[c] = "none"
  BY CasesAssumption DEF Inv, Untouched, AtCase, At, Ended, Final, Case
<1>2. Untouched(worker)'
  BY <1>1 DEF Inv, Untouched, Ended, Final
<1>3. ResultsInv' /\ RecordableInv'
  BY <1>1 DEF Inv, ResultsInv, Reported, Earned, RecordableInv
<1>4. run' # "SELF_TEST_READY"
  BY DEF Inv
<1> QED BY <1>2, <1>3, <1>4 DEF Inv

LEMMA StartCaseInv ==
  ASSUME Inv, NEW c \in Case, StartCase(c)
  PROVE  Inv'
<1>1. /\ AtCase(c, worker.step) /\ worker.step = "case" /\ worker.case = c /\ ~Ended
      /\ worker \in WorkerState
      /\ UNCHANGED <<run, costs, coverages, failures, results, independent, projects, executor>>
  BY DEF StartCase, AtCase, At, Ended, Inv, TypeOK, WorkerState
<1> PICK started : started = [NoAttempt EXCEPT !.status = "RUNNING"]
  OBVIOUS
<1>2. started \in Attempt /\ attempts' = [attempts EXCEPT ![c] = started]
  <2>1. started \in Attempt
    BY DEF NoAttempt, Attempt, CaseStatus
  <2> QED BY <2>1 DEF StartCase
<1>3. attempts' \in [Case -> Attempt \cup {NoAttempt}]
      /\ \A d \in Case \ {c} : attempts'[d] = attempts[d]
  BY <1>2 DEF Inv, TypeOK
<1>4. CASE worker' = [worker EXCEPT !.step = "budget", !.literature = "none"]
  <2> PICK k : k = [worker EXCEPT !.step = "budget", !.literature = "none"]
    OBVIOUS
  <2>1. k \in WorkerState /\ worker' = k /\ k.case = c /\ k.step = "budget"
    BY <1>1, <1>4 DEF WorkerState, Steps
  <2>2. TypeOK'
    BY <1>1, <1>3, <2>1 DEF Inv, TypeOK, WorkerState
  <2>3. OutcomeInv(k)' /\ WriteInv(k)'
    BY <2>1 DEF OutcomeInv, WriteInv
  <2> QED BY <1>1, <1>3, <2>1, <2>2, <2>3, Stores DEF Early
<1>5. CASE worker' = [worker EXCEPT !.step = "write", !.literature = "none",
                                    !.outcome = Blocked("INVALID_BENCHMARK_SETUP", "P1"),
                                    !.todo = BlockedWrites]
  <2> PICK outcome \in Outcome : outcome = Blocked("INVALID_BENCHMARK_SETUP", "P1")
    BY BlockedFacts
  <2> PICK k : k = [worker EXCEPT !.step = "write", !.literature = "none",
                                  !.outcome = outcome, !.todo = BlockedWrites]
    OBVIOUS
  <2>1. /\ k \in WorkerState /\ worker' = k /\ k.case = c /\ k.step = "write"
        /\ k.todo = BlockedWrites /\ k.outcome = outcome
        /\ outcome.status = "INVALID_BENCHMARK_SETUP"
    BY <1>1, <1>5, Lists, BlockedFacts DEF WorkerState, Steps
  <2>2. TypeOK'
    BY <1>1, <1>3, <2>1 DEF Inv, TypeOK, WorkerState
  <2>3. projects[c].own <= MaxCaseCost
    BY <1>1, BudgetAssumption DEF Inv, Untouched, Early
  <2>4. OutcomeInv(k)' /\ WriteInv(k)'
    BY <1>1, <2>1, <2>3, Lists DEF OutcomeInv, WriteInv, Reported
  <2> QED BY <1>1, <1>3, <2>1, <2>2, <2>4, Stores DEF Early
<1> QED BY <1>4, <1>5 DEF StartCase

LEMMA CreateProjectInv ==
  ASSUME Inv, NEW c \in Case, CreateProject(c)
  PROVE  Inv'
<1>1. /\ AtCase(c, worker.step) /\ worker.step = "project" /\ worker.case = c /\ ~Ended
      /\ worker \in WorkerState /\ UNCHANGED stored
  BY DEF CreateProject, AtCase, At, Ended, Inv, TypeOK, WorkerState
<1>2. /\ projects' \in [Case -> ProjectRuns]
      /\ \A d \in Case : /\ projects'[d].own = projects[d].own
                         /\ projects'[d].unrecorded = projects[d].unrecorded
                         /\ projects'[d].covered = projects[d].covered
  <2>1. projects \in [Case -> ProjectRuns]
    BY DEF Inv, TypeOK
  <2> PICK row : row = [projects[c] EXCEPT !.created = TRUE]
    OBVIOUS
  <2>2. /\ row \in ProjectRuns /\ row.own = projects[c].own
        /\ row.unrecorded = projects[c].unrecorded /\ row.covered = projects[c].covered
    BY <2>1 DEF ProjectRuns
  <2>3. projects' = [projects EXCEPT ![c] = row]
    BY DEF CreateProject
  <2> QED BY <2>1, <2>2, <2>3
<1> PICK k : k = [worker EXCEPT !.step = "bind"]
  OBVIOUS
<1>3. k \in WorkerState /\ worker' = k /\ k.case = c /\ k.step = "bind"
  BY <1>1 DEF WorkerState, Steps, CreateProject, Go
<1>4. TypeOK'
  BY <1>1, <1>2, <1>3 DEF Inv, TypeOK, WorkerState, stored
<1>5. OutcomeInv(k)' /\ WriteInv(k)'
  BY <1>3 DEF OutcomeInv, WriteInv
<1> QED BY <1>1, <1>2, <1>3, <1>4, <1>5, Stores DEF Early, stored

LEMMA BindAttemptProjectInv ==
  ASSUME Inv, NEW c \in Case, BindAttemptProject(c)
  PROVE  Inv'
<1>1. /\ AtCase(c, worker.step) /\ worker.step = "bind" /\ worker.case = c /\ ~Ended
      /\ worker \in WorkerState
      /\ UNCHANGED <<run, costs, coverages, failures, results, independent, projects, executor>>
  BY DEF BindAttemptProject, AtCase, At, Ended, Inv, TypeOK, WorkerState
<1>2. attempts[c] \in Attempt
  BY NotRunFacts DEF BindAttemptProject, Inv, TypeOK
<1>3. /\ attempts' \in [Case -> Attempt \cup {NoAttempt}]
      /\ \A d \in Case \ {c} : attempts'[d] = attempts[d]
  <2> PICK bound : bound = [attempts[c] EXCEPT !.project = TRUE]
    OBVIOUS
  <2>1. bound \in Attempt /\ attempts' = [attempts EXCEPT ![c] = bound]
    BY <1>2 DEF Attempt, BindAttemptProject, Inv, TypeOK
  <2> QED BY <2>1 DEF Inv, TypeOK
<1> PICK k : k = [worker EXCEPT !.step = "stages"]
  OBVIOUS
<1>4. k \in WorkerState /\ worker' = k /\ k.case = c /\ k.step = "stages"
  BY <1>1 DEF WorkerState, Steps, BindAttemptProject, Go
<1>5. TypeOK'
  BY <1>1, <1>3, <1>4 DEF Inv, TypeOK, WorkerState
<1>6. OutcomeInv(k)' /\ WriteInv(k)'
  BY <1>4 DEF OutcomeInv, WriteInv
<1> QED BY <1>1, <1>3, <1>4, <1>5, <1>6, Stores DEF Early

\* One more write of the case is done.
LEMMA NoteWritten ==
  ASSUME Inv, NEW c \in Case, NEW what, Writing(c, what), what # "result", Written,
         UNCHANGED <<run, results, projects, executor>>,
         \A d \in Case \ {c} : attempts'[d] = attempts[d] /\ failures'[d] = failures[d],
         attempts' \in [Case -> Attempt \cup {NoAttempt}],
         failures' \in [Case -> SUBSET {"P1", "P2"}],
         costs' \in [Case -> Nat],
         coverages' \subseteq [case : Case, value : SUBSET CriticalAgent],
         independent' \subseteq Case,
         \/ what = "attempt" /\ attempts'[c].status = worker.outcome.status
            /\ attempts'[c].project = worker.outcome.project
         \/ what # "attempt" /\ attempts' = attempts
  PROVE  Inv'
<1>1. /\ AtCase(c, worker.step) /\ worker.step = "write" /\ worker.case = c /\ ~Ended
      /\ worker \in WorkerState /\ Head(worker.todo) = what /\ WriteInv(worker)
  BY DEF Writing, AtCase, At, Ended, Inv, TypeOK, WorkerState
<1>2. worker.todo \in Remaining
  BY <1>1 DEF WriteInv
<1> PICK rest : rest = Tail(worker.todo)
  OBVIOUS
<1>3. /\ rest \in Remaining /\ rest \in Seq(Writes)
      /\ Head(rest) \in {"independent", "result"} => what \in {"independent", "attempt"}
  BY <1>1, <1>2, NextWrite, Lists
<1> PICK k : k = [worker EXCEPT !.todo = rest]
  OBVIOUS
<1>4. /\ k \in WorkerState /\ worker' = k /\ k.case = c /\ k.step = "write"
      /\ k.todo = rest /\ k.outcome = worker.outcome
  BY <1>1, <1>3 DEF WorkerState, Written
<1>5. TypeOK'
  BY <1>4 DEF Inv, TypeOK, WorkerState
<1>6. OutcomeInv(k)' /\ WriteInv(k)'
  BY <1>1, <1>3, <1>4 DEF OutcomeInv, WriteInv, Reported
<1> QED BY <1>1, <1>4, <1>5, <1>6, Stores DEF Early

LEMMA AddCostInv ==
  ASSUME Inv, NEW c \in Case, AddCost(c)
  PROVE  Inv'
<1>1. worker.outcome.cost \in Nat
  BY DEF Inv, TypeOK, Outcome
<1>2. costs' \in [Case -> Nat]
  BY <1>1 DEF AddCost, Inv, TypeOK
<1> QED BY <1>2, NoteWritten DEF AddCost, Inv, TypeOK

LEMMA AddCoverageInv ==
  ASSUME Inv, NEW c \in Case, AddCoverage(c)
  PROVE  Inv'
<1>1. worker.outcome.covered \subseteq CriticalAgent
  BY DEF Inv, TypeOK, Outcome
<1>2. coverages' \subseteq [case : Case, value : SUBSET CriticalAgent]
  BY <1>1 DEF AddCoverage, Inv, TypeOK
<1> QED BY <1>2, NoteWritten DEF AddCoverage, Inv, TypeOK

LEMMA AddFailuresInv ==
  ASSUME Inv, NEW c \in Case, AddFailures(c)
  PROVE  Inv'
<1>1. worker.outcome.severity \in {"P1", "P2"}
  BY DEF Inv, TypeOK, Outcome
<1> PICK found \in SUBSET {"P1", "P2"} :
      found = {worker.outcome.severity}
              \cup IF worker.literature = "failed" THEN {"P1"} ELSE {}
  BY <1>1
<1>2. failures' = [failures EXCEPT ![c] = found]
  BY DEF AddFailures
<1>3. /\ failures' \in [Case -> SUBSET {"P1", "P2"}]
      /\ \A d \in Case \ {c} : failures'[d] = failures[d]
  BY <1>2 DEF Inv, TypeOK
<1> QED BY <1>3, NoteWritten DEF AddFailures, Inv, TypeOK

LEMMA FinishAttemptInv ==
  ASSUME Inv, NEW c \in Case, FinishAttempt(c)
  PROVE  Inv'
<1>0. worker.outcome \in Outcome
  BY DEF Inv, TypeOK
<1> PICK literature \in BOOLEAN : literature <=> worker.literature = "live"
  <2>1. CASE worker.literature = "live"
    BY <2>1
  <2>2. CASE worker.literature # "live"
    BY <2>2
  <2> QED BY <2>1, <2>2
<1> DEFINE written == [status |-> worker.outcome.status, project |-> worker.outcome.project,
                       live |-> worker.outcome.live, literature |-> worker.literature = "live"]
<1>1. written \in Attempt
  BY <1>0 DEF Attempt, Outcome
<1>2. attempts' = [attempts EXCEPT ![c] = written]
  BY DEF FinishAttempt
<1>3. written.status = worker.outcome.status /\ written.project = worker.outcome.project
  OBVIOUS
<1> HIDE DEF written
<1>4. /\ attempts' \in [Case -> Attempt \cup {NoAttempt}]
      /\ attempts'[c] = written
      /\ \A d \in Case \ {c} : attempts'[d] = attempts[d]
  BY <1>1, <1>2 DEF Inv, TypeOK
<1> QED BY <1>3, <1>4, NoteWritten DEF FinishAttempt, Inv, TypeOK

LEMMA VerifyIndependentlyInv ==
  ASSUME Inv, NEW c \in Case, VerifyIndependently(c)
  PROVE  Inv'
<1>1. CASE Written /\ independent' \subseteq Case
  BY <1>1, NoteWritten DEF VerifyIndependently, Inv, TypeOK
<1>2. CASE End("raised") /\ UNCHANGED independent
  <2>1. ~Ended /\ UNCHANGED <<stored, projects>>
    BY <1>2 DEF VerifyIndependently, Writing, AtCase, At, Ended, stored
  <2> QED BY <1>2, <2>1, Ends DEF Final
<1> QED BY <1>1, <1>2 DEF VerifyIndependently, Inv, TypeOK

\* What is recorded as passed has no failure, and neither has its outcome.
LEMMA AddResultInv ==
  ASSUME Inv, NEW c \in Case, AddResult(c)
  PROVE  Inv'
<1>1. /\ AtCase(c, worker.step) /\ worker.step = "write" /\ worker.case = c /\ ~Ended
      /\ worker \in WorkerState /\ WriteInv(worker) /\ Head(worker.todo) = "result"
      /\ UNCHANGED <<run, attempts, costs, coverages, failures, independent, projects, executor>>
  BY DEF AddResult, Writing, AtCase, At, Ended, Inv, TypeOK, WorkerState
<1>2. PICK low \in BOOLEAN :
        IF Evaluate(c, low) = attempts[c].status
        THEN Recorded(c, Evaluate(c, low))
        ELSE End("raised") /\ UNCHANGED results
  BY DEF AddResult
<1>3. CASE End("raised") /\ UNCHANGED results
  BY <1>1, <1>3, Ends DEF Final, stored
<1>4. CASE Evaluate(c, low) = attempts[c].status /\ Recorded(c, Evaluate(c, low))
  <2> PICK status : status = Evaluate(c, low)
    OBVIOUS
  <2>1. /\ status = attempts[c].status /\ status \in CaseStatus \ {"RUNNING"}
        /\ status = "PASS" => ~HardFailures(c)
    BY <1>4 DEF Evaluate, CaseStatus, Preserved, SuccessStatuses
  <2>2. /\ results' = [results EXCEPT ![c] = status]
        /\ worker' = [worker EXCEPT !.todo = <<>>,
                        !.step = IF c = Cases THEN "accept" ELSE "case",
                        !.case = IF c = Cases THEN c ELSE c + 1, !.outcome = NotRun]
    BY <1>4 DEF Recorded
  <2>3. results' \in [Case -> (CaseStatus \ {"RUNNING"}) \cup {"none"}]
        /\ results'[c] = status /\ \A d \in Case \ {c} : results'[d] = results[d]
    BY <2>1, <2>2 DEF Inv, TypeOK
  <2>4. /\ Reported(c, attempts[c].status, attempts[c].project)
        /\ status = "PASS" => Earned(c)
    BY <1>1, <2>1 DEF WriteInv, HardFailures, Earned
  <2>5. ResultsInv' /\ RecordableInv'
    BY <1>1, <2>1, <2>3, <2>4 DEF Inv, ResultsInv, Reported, Earned, RecordableInv
  <2>6. Cases \in Nat /\ c \in 1..Cases /\ (c # Cases => c + 1 \in 1..Cases)
    BY CasesAssumption DEF Case
  <2>7. /\ worker' \in WorkerState
        /\ worker'.case = IF c = Cases THEN c ELSE c + 1
        /\ worker'.step = IF c = Cases THEN "accept" ELSE "case"
    <3> PICK next \in Case : next = IF c = Cases THEN c ELSE c + 1
      BY <2>6 DEF Case
    <3> PICK step \in {"accept", "case"} : step = IF c = Cases THEN "accept" ELSE "case"
      OBVIOUS
    <3>1. worker' = [worker EXCEPT !.todo = <<>>, !.step = step, !.case = next,
                                   !.outcome = NotRun]
      BY <2>2
    <3>2. <<>> \in Seq(Writes)
      OBVIOUS
    <3> QED BY <1>1, <3>1, <3>2, NotRunFacts DEF WorkerState, Steps
  <2>8. TypeOK'
    BY <1>1, <2>3, <2>7 DEF Inv, TypeOK, WorkerState
  <2>9. OutcomeInv(worker)' /\ WriteInv(worker)'
    BY <2>7 DEF OutcomeInv, WriteInv
  <2>10. Untouched(worker)'
    <3> SUFFICES ASSUME NEW d \in Case
                 PROVE  /\ d > worker'.case \/ (d = worker'.case /\ worker'.step \in Early)
                             => projects'[d].own = 0 /\ projects'[d].unrecorded = 0
                        /\ results'[d] # "none" =>
                             d < worker'.case \/ worker'.step \in Final \cup {"accept"}
      BY DEF Untouched
    <3>1. d \in 1..Cases
      BY DEF Case
    <3>2. /\ d > c => /\ projects[d].own = 0 /\ projects[d].unrecorded = 0
                     /\ results[d] = "none"
          /\ projects'[d] = projects[d]
      BY <1>1, <2>6, <3>1 DEF Inv, Untouched, Final
    <3>3. CASE c = Cases
      BY <2>3, <2>6, <2>7, <3>1, <3>2, <3>3 DEF Early
    <3>4. CASE c # Cases
      BY <2>3, <2>6, <2>7, <3>1, <3>2, <3>4 DEF Early
    <3> QED BY <3>3, <3>4
  <2>11. run' # "SELF_TEST_READY"
    BY <1>1 DEF Inv
  <2> QED BY <2>5, <2>8, <2>9, <2>10, <2>11 DEF Inv
<1> QED BY <1>2, <1>3, <1>4

-----------------------------------------------------------------------------
(* Agents and the end of the run                                             *)

\* A request changes the agent runs of one case, and nothing else: what it
\* adds to the agents on record is a part of what may be stored.
Asks(c, stores) ==
  /\ TypeOK' /\ UNCHANGED <<stored, worker>>
  /\ \A d \in Case : /\ projects[d].covered \subseteq projects'[d].covered
                     /\ projects'[d].covered \subseteq projects[d].covered \cup stores
  /\ \A d \in Case \ {c} : /\ projects'[d].own = projects[d].own
                           /\ projects'[d].unrecorded = projects[d].unrecorded

LEMMA AgentRunFacts ==
  ASSUME TypeOK, NEW c \in Case, NEW payer \in {"own", "other"},
         NEW stores \in SUBSET CriticalAgent, AgentRun(c, payer, stores)
  PROVE  /\ Asks(c, stores)
         /\ payer = "other" => /\ projects'[c].own = projects[c].own
                               /\ projects'[c].unrecorded = projects[c].unrecorded
<1>1. PICK succeeded \in SUBSET stores :
        projects' = [projects EXCEPT ![c] =
                       [Spends(projects[c], payer) EXCEPT !.covered = @ \cup succeeded]]
  BY DEF AgentRun
<1> PICK runs : runs = Spends(projects[c], payer)
  OBVIOUS
<1>2. /\ runs \in ProjectRuns /\ runs.covered = projects[c].covered
      /\ payer = "other" => /\ runs.own = projects[c].own
                            /\ runs.unrecorded = projects[c].unrecorded
  <2>1. projects[c] \in ProjectRuns
    BY DEF TypeOK
  <2>2. CASE payer = "own"
    BY <2>1, <2>2 DEF ProjectRuns, Spends
  <2>3. CASE payer = "other"
    BY <2>1, <2>3 DEF ProjectRuns, Spends
  <2> QED BY <2>2, <2>3
<1> PICK row : row = [runs EXCEPT !.covered = @ \cup succeeded]
  OBVIOUS
<1>3. /\ row \in ProjectRuns /\ row.own = runs.own /\ row.unrecorded = runs.unrecorded
      /\ row.covered = runs.covered \cup succeeded
  BY <1>2 DEF ProjectRuns
<1>4. projects' = [projects EXCEPT ![c] = row]
  BY <1>1
<1>5. UNCHANGED <<stored, worker>>
  BY DEF AgentRun
<1>6. TypeOK'
  BY <1>3, <1>4, <1>5 DEF TypeOK, stored
<1>7. /\ \A d \in Case : /\ projects[d].covered \subseteq projects'[d].covered
                         /\ projects'[d].covered \subseteq projects[d].covered \cup stores
      /\ \A d \in Case \ {c} : projects'[d] = projects[d]
      /\ payer = "other" => /\ projects'[c].own = projects[c].own
                            /\ projects'[c].unrecorded = projects[c].unrecorded
  BY <1>2, <1>3, <1>4 DEF TypeOK
<1> QED BY <1>5, <1>6, <1>7 DEF Asks

LEMMA UnrecordedRunFacts ==
  ASSUME TypeOK, NEW c \in Case, UnrecordedRun(c)
  PROVE  Asks(c, {})
<1> PICK row : row = [projects[c] EXCEPT !.unrecorded = @ + 1]
  OBVIOUS
<1>1. row \in ProjectRuns /\ row.covered = projects[c].covered
  <2>1. projects[c] \in ProjectRuns
    BY DEF TypeOK
  <2> QED BY <2>1 DEF ProjectRuns
<1>2. projects' = [projects EXCEPT ![c] = row] /\ UNCHANGED <<stored, worker>>
  BY DEF UnrecordedRun
<1>3. TypeOK'
  BY <1>1, <1>2 DEF TypeOK, stored
<1>4. projects'[c] = row /\ \A d \in Case \ {c} : projects'[d] = projects[d]
  BY <1>2 DEF TypeOK
<1> QED BY <1>1, <1>2, <1>3, <1>4 DEF Asks

\* A request of the executor, on record or not.
LEMMA StageRunFacts ==
  ASSUME TypeOK, NEW c \in Case, StageRun(c)
  PROVE  worker.step = "stages" /\ worker.case = c /\ Asks(c, executor.stores)
<1>1. Asks(c, {}) => Asks(c, executor.stores)
  BY DEF Asks
<1> QED BY <1>1, AgentRunFacts, UnrecordedRunFacts, ExecutorFacts
        DEF StageRun, AtCase, At

LEMMA StageRunInv ==
  ASSUME Inv, NEW c \in Case, StageRun(c)
  PROVE  Inv'
<1>1. worker.step = "stages" /\ worker.case = c /\ ~Ended /\ TypeOK
      /\ Asks(c, executor.stores)
  BY StageRunFacts DEF Ended, Inv
<1>2. /\ TypeOK' /\ UNCHANGED <<stored, worker>>
      /\ \A d \in Case : /\ projects[d].covered \subseteq projects'[d].covered
                         /\ projects'[d].covered \subseteq projects[d].covered \cup executor.stores
      /\ \A d \in Case \ {c} : /\ projects'[d].own = projects[d].own
                               /\ projects'[d].unrecorded = projects[d].unrecorded
  BY <1>1 DEF Asks
<1>3. OutcomeInv(worker)' /\ WriteInv(worker)'
  BY <1>1, <1>2 DEF OutcomeInv, WriteInv
<1>4. c \in 1..Cases /\ Cases \in Nat /\ results[c] = "none"
  BY <1>1, CasesAssumption DEF Case, Inv, Untouched, Final
<1>5. Untouched(worker)'
  BY <1>1, <1>2, <1>4 DEF Inv, Untouched, Early, stored, Case
<1>6. ResultsInv' /\ RecordableInv'
  BY <1>1, <1>2, <1>4 DEF Inv, ResultsInv, RecordableInv, Reported, Earned, stored
<1>7. run' # "SELF_TEST_READY"
  BY <1>1, <1>2 DEF Inv, stored
<1> QED BY <1>2, <1>3, <1>5, <1>6, <1>7 DEF Inv

LEMMA OtherRunFacts ==
  ASSUME TypeOK, NEW c \in Case, OtherRun(c)
  PROVE  /\ Asks(c, PipelineBenchmarkExecutor.stores)
         /\ \A d \in Case : /\ projects'[d].own = projects[d].own
                            /\ projects'[d].unrecorded = projects[d].unrecorded
<1>1. AgentRun(c, "other", PipelineBenchmarkExecutor.stores)
  BY DEF OtherRun
<1>2. /\ Asks(c, PipelineBenchmarkExecutor.stores)
      /\ projects'[c].own = projects[c].own
      /\ projects'[c].unrecorded = projects[c].unrecorded
  BY <1>1, AgentRunFacts, ExecutorFacts
<1> QED BY <1>2 DEF Asks

LEMMA OtherRunInv ==
  ASSUME Inv, NEW c \in Case, OtherRun(c)
  PROVE  Inv'
<1>1. /\ TypeOK' /\ UNCHANGED <<stored, worker>>
      /\ \A d \in Case :
           /\ projects[d].covered \subseteq projects'[d].covered
           /\ projects'[d].covered
                \subseteq projects[d].covered \cup PipelineBenchmarkExecutor.stores
           /\ projects'[d].own = projects[d].own
           /\ projects'[d].unrecorded = projects[d].unrecorded
  BY OtherRunFacts DEF Asks, Inv
<1>2. UNCHANGED <<run, attempts, coverages, failures, results, independent, worker, executor>>
  BY <1>1 DEF stored
<1>3. worker.case \in Case
  BY DEF Inv, TypeOK
<1>4. OutcomeInv(worker)' /\ WriteInv(worker)'
  BY <1>1, <1>2, <1>3 DEF Inv, OutcomeInv, WriteInv, Reported
<1>5. Untouched(worker)' /\ ResultsInv' /\ RecordableInv'
  BY <1>1, <1>2 DEF Inv, Untouched, ResultsInv, RecordableInv, Reported, Earned
<1>6. ReadyIsEarned => ReadyIsEarned'
  BY <1>1, <1>2 DEF ReadyIsEarned
<1>7. run' = "SELF_TEST_READY" => Ended' /\ ReadyIsEarned'
  BY <1>2, <1>6 DEF Inv, Ended
<1> QED BY <1>1, <1>4, <1>5, <1>7 DEF Inv

\* A case that passed and was verified independently has all a ready run asks.
LEMMA RegatedIsEarned ==
  ASSUME Inv, NEW c \in Case, Regated(c) \in SuccessStatuses
  PROVE  /\ results[c] = "PASS" /\ c \in independent /\ Earned(c)
         /\ projects[c].own <= MaxCaseCost /\ executor # PipelineBenchmarkExecutor
<1>1. results[c] = "PASS" /\ c \in independent
  BY DEF Regated, SuccessStatuses
<1>2. Earned(c) /\ attempts[c].status = "PASS"
      /\ Reported(c, attempts[c].status, attempts[c].project)
  BY <1>1 DEF Inv, ResultsInv
<1>3. "paper_agent" \in projects[c].covered
  BY <1>2 DEF Earned, CriticalAgent
<1>4. executor # PipelineBenchmarkExecutor
  BY <1>3 DEF Inv, RecordableInv, PipelineBenchmarkExecutor
<1> QED BY <1>1, <1>2, <1>4 DEF Reported

LEMMA FinishRunInv ==
  ASSUME Inv, FinishRun
  PROVE  Inv'
<1>1. worker.step = "accept" /\ ~Ended
  BY DEF FinishRun, At, Ended
<1>2. CASE Raise
  BY <1>1, <1>2, Ends DEF Raise, Final
<1>3. CASE ~Raise
  <2>1. /\ run' = Acceptance /\ End("returned")
        /\ UNCHANGED <<attempts, costs, coverages, failures, results, independent,
                       projects, executor>>
    BY <1>3 DEF FinishRun
  <2> PICK k : k = [step |-> "returned", case |-> worker.case, todo |-> <<>>,
                    literature |-> "none", outcome |-> NotRun]
    OBVIOUS
  <2>2. k \in WorkerState /\ k.case = worker.case /\ k.step = "returned" /\ worker' = k
    BY <2>1, NotRunFacts DEF WorkerState, Inv, TypeOK, Steps, End
  <2>3. Acceptance \in {"SELF_TEST_READY", "NOT_READY"}
    BY DEF Acceptance
  <2>4. TypeOK'
    BY <2>1, <2>2, <2>3 DEF Inv, TypeOK, WorkerState
  <2>5. OutcomeInv(worker)' /\ WriteInv(worker)' /\ Untouched(worker)'
    BY <2>1, <2>2 DEF Inv, OutcomeInv, WriteInv, Untouched, Early, Final
  <2>6. ResultsInv' /\ RecordableInv' /\ Ended'
    BY <2>1, <2>2 DEF Inv, ResultsInv, RecordableInv, Reported, Earned, Ended
  <2>7. ASSUME run' = "SELF_TEST_READY" PROVE ReadyIsEarned'
    <3> DEFINE earned == {c \in Case : Regated(c) \in SuccessStatuses}
    <3>1. Cardinality(earned) >= RequiredPasses
      BY <2>1, <2>7 DEF Acceptance
    <3>2. \A c \in earned :
            /\ results[c] = "PASS" /\ attempts[c].live /\ c \in independent
            /\ "P1" \notin failures[c]
            /\ attempts[c].literature
            /\ CriticalAgent \subseteq projects[c].covered
            /\ projects[c].own <= MaxCaseCost
      BY RegatedIsEarned DEF Earned
    <3>3. earned \in SUBSET Case
      OBVIOUS
    <3>4. earned # {}
      BY <3>1, FS_EmptySet, RequiredAssumption
    <3>5. executor # PipelineBenchmarkExecutor
      BY <3>4, RegatedIsEarned
    <3> HIDE DEF earned
    <3> QED BY <2>1, <3>1, <3>2, <3>3, <3>5 DEF ReadyIsEarned
  <2> QED BY <2>4, <2>5, <2>6, <2>7 DEF Inv
<1> QED BY <1>2, <1>3

-----------------------------------------------------------------------------
(* Theorems                                                                  *)

LEMMA InitInv == Init => Inv
<1> SUFFICES ASSUME Init PROVE Inv
  OBVIOUS
<1>1. 1 \in Case /\ <<>> \in Seq(Writes)
  BY CasesAssumption DEF Case
<1>2. worker \in WorkerState /\ worker.step = "case"
  BY <1>1, NotRunFacts DEF Init, WorkerState, Steps
<1>3. /\ projects \in [Case -> ProjectRuns]
      /\ \A c \in Case : /\ projects[c].own = 0 /\ projects[c].unrecorded = 0
                         /\ projects[c].covered = {} /\ results[c] = "none"
  BY DEF Init, ProjectRuns
<1>4. TypeOK
  BY <1>2, <1>3 DEF Init, TypeOK, WorkerState
<1>5. /\ OutcomeInv(worker) /\ WriteInv(worker) /\ Untouched(worker)
      /\ ResultsInv /\ RecordableInv
  BY <1>2, <1>3 DEF OutcomeInv, WriteInv, Untouched, ResultsInv, RecordableInv
<1> QED BY <1>4, <1>5 DEF Init, Inv

LEMMA NextInv == Inv /\ [Next]_vars => Inv'
<1> SUFFICES ASSUME Inv, [Next]_vars PROVE Inv'
  OBVIOUS
<1>1. CASE UNCHANGED vars
  BY <1>1 DEF vars, Inv, TypeOK, OutcomeInv, WriteInv, Untouched, ResultsInv, Reported,
              RecordableInv, Earned, Ended, ReadyIsEarned
<1>2. ASSUME NEW c \in Case, RecordCase(c) PROVE Inv'
  BY <1>2, AddCostInv, AddCoverageInv, AddFailuresInv, FinishAttemptInv,
     VerifyIndependentlyInv, AddResultInv DEF RecordCase
<1>3. CASE Progress
  BY <1>2, <1>3, StartCaseInv, CheckBudgetInv, LiveLiteratureInv, CreateProjectInv,
     BindAttemptProjectInv, StageFailsInv, StagesCompleteInv, PipelineFailureInv,
     ReadCoverageInv, CheckActivityInv, JudgeBudgetInv, FinishRunInv DEF Progress
<1>4. CASE Dies
  BY <1>4, DiesInv
<1>5. CASE \E c \in Case : StageRun(c) \/ OtherRun(c)
  BY <1>5, StageRunInv, OtherRunInv
<1> QED BY <1>1, <1>3, <1>4, <1>5 DEF Next, Stopped

LEMMA Invariance == Spec => []Inv
BY InitInv, NextInv, PTL DEF Spec

\* Every variable of a benchmark run has its type, for any number of cases.
THEOREM TypeCorrectness == Spec => []TypeOK
<1>1. Inv => TypeOK
  BY DEF Inv
<1> QED BY <1>1, Invariance, PTL

\* A run that ends as ready has earned it: enough cases passed with every
\* critical agent and a cost within their budget on record, and were verified
\* independently.  The executor of the application never gets there.
THEOREM ReadyCorrectness == Spec => []ReadyIsEarned
<1>1. Inv => ReadyIsEarned
  BY DEF Inv, ReadyIsEarned
<1> QED BY <1>1, Invariance, PTL

-----------------------------------------------------------------------------
(* The budget of the run                                                     *)

\* The lists of writes in which the cost of the case is still to come.
CostPending ==
  { <<"cost", "coverage", "failures", "attempt", "independent", "result">>,
    <<"failures", "coverage", "cost", "attempt", "result">>,
    <<"coverage", "cost", "attempt", "result">>,
    <<"cost", "attempt", "result">> }

\* The budget has been checked for the case, and its executor may be called.
Admitted == {"literature", "project", "bind", "stages"}

\* What is recorded of an executor that raised: no cost and no project.
Raised(outcome) == outcome.status = "FAIL" /\ ~outcome.project

\* Every earlier case has been charged with what its executor spent.
CostsInv == \A c \in Case : c < worker.case => Spent[c] <= costs[c]

\* The outcome charges what was spent, and it is written before the attempt.
ChargedInv(k) ==
  k.step = "write" =>
    /\ Raised(k.outcome) \/ projects[k.case].own <= k.outcome.cost
    /\ k.todo \notin CostPending => k.outcome.cost <= costs[k.case]

\* A case that is worked on found the budget unspent; one that is written says
\* that it has spent it, or it has not.
AdmittedInv(k) ==
  /\ k.step \in Admitted => Total(Spent, k.case - 1) < MaxTotalCost
  /\ k.step = "write" =>
       \/ k.outcome.status = "BUDGET_EXCEEDED" \/ Raised(k.outcome)
       \/ projects[k.case].own = 0
       \/ Total(Spent, k.case - 1) + projects[k.case].own <= MaxTotalCost

BudgetInv ==
  /\ CostsInv /\ ChargedInv(worker) /\ AdmittedInv(worker)
  /\ BudgetStopsLaterWork /\ OverrunIsReported

\* The type of what is spent, and which cases it counts.
SpentOK ==
  /\ Spent \in [Case -> Nat]
  /\ \A c \in Case : /\ projects[c].own \in Nat
                     /\ c \in Lost => Spent[c] = 0
                     /\ c \notin Lost => Spent[c] = projects[c].own

LEMMA SpentFacts == TypeOK => SpentOK
<1> SUFFICES ASSUME TypeOK PROVE SpentOK
  OBVIOUS
<1>1. \A c \in Case : projects[c].own \in Nat
  BY CallsFacts
<1>2. \A c \in Case : (IF c \in Lost THEN 0 ELSE projects[c].own) \in Nat
  BY <1>1
<1> QED BY <1>1, <1>2 DEF Spent, SpentOK

\* What the cases before the current one spent does not change any more.
LEMMA EarlierSpent ==
  ASSUME TypeOK, TypeOK', NEW c \in Case, NEW n \in 0..(c - 1),
         \A d \in Case \ {c} : attempts'[d] = attempts[d]
                               /\ projects'[d].own = projects[d].own
  PROVE  Total(Spent', n) = Total(Spent, n) /\ Total(Spent, n) \in Nat
<1>1. Spent \in [Case -> Nat] /\ Spent' \in [Case -> Nat]
  <2>1. SpentOK /\ SpentOK'
    BY SpentFacts, PTL
  <2> QED BY <2>1 DEF SpentOK
<1>2. n \in 0..Cases /\ \A d \in 1..n : d \in Case \ {c}
  BY CasesAssumption DEF Case
<1>3. \A d \in Case \ {c} : Spent'[d] = Spent[d]
  BY DEF Spent, Lost
<1> QED BY <1>1, <1>2, <1>3, TotalOfSame, TotalIsNat

\* A step of the current case, or one that goes on to the next.
LEMMA Advances ==
  ASSUME Inv, Inv', BudgetInv, NEW c \in Case, worker.case = c,
         \A d \in Case \ {c} : /\ attempts'[d] = attempts[d] /\ costs'[d] = costs[d]
                               /\ results'[d] = results[d]
                               /\ projects'[d].own = projects[d].own
                               /\ projects'[d].unrecorded = projects[d].unrecorded,
         worker'.case # c => worker'.case = c + 1 /\ Spent'[c] <= costs'[c],
         Requests(c)' > 0 => Total(Spent, c - 1) < MaxTotalCost,
         \/ results'[c] \in {"none", "BUDGET_EXCEEDED"} \/ c \in Lost'
         \/ projects'[c].own = 0
         \/ /\ projects'[c].own <= MaxCaseCost
            /\ Total(Spent, c - 1) + projects'[c].own <= MaxTotalCost,
         ChargedInv(worker)',
         worker'.step \in Admitted =>
           worker'.case = c /\ Total(Spent, c - 1) < MaxTotalCost,
         worker'.step = "write" =>
           /\ worker'.case = c
           /\ \/ worker'.outcome.status = "BUDGET_EXCEEDED" \/ Raised(worker'.outcome)
              \/ projects'[c].own = 0
              \/ Total(Spent, c - 1) + projects'[c].own <= MaxTotalCost
  PROVE  BudgetInv'
<1>1. TypeOK /\ TypeOK' /\ c \in 1..Cases /\ Cases \in Nat
  BY CasesAssumption DEF Inv, Case
<1>2. \A n \in 0..(c - 1) : Total(Spent', n) = Total(Spent, n)
  BY <1>1, EarlierSpent
<1>3. \A d \in Case \ {c} : Spent'[d] = Spent[d] /\ (d \in Lost' <=> d \in Lost)
  BY DEF Spent, Lost
<1>4. CostsInv'
  <2> SUFFICES ASSUME NEW d \in Case, d < worker'.case PROVE Spent'[d] <= costs'[d]
    BY DEF CostsInv
  <2>1. CASE d = c
    BY <2>1, <1>1
  <2>2. CASE d # c
    <3>1. d < c
      BY <2>2, <1>1 DEF Case
    <3>2. Spent[d] <= costs[d]
      BY <3>1 DEF BudgetInv, CostsInv
    <3> QED BY <3>2, <2>2, <1>3
  <2> QED BY <2>1, <2>2
<1>5. AdmittedInv(worker)'
  <2>1. c - 1 \in 0..(c - 1)
    BY <1>1
  <2>2. Total(Spent', c - 1) = Total(Spent, c - 1)
    BY <2>1, <1>2
  <2> QED BY <2>2 DEF AdmittedInv
<1>6. \A d \in Case :
        d > c => projects'[d].own = 0 /\ projects'[d].unrecorded = 0 /\ Requests(d)' = 0
  BY <1>1 DEF Inv, Untouched, Requests
<1>7. BudgetStopsLaterWork'
  <2> SUFFICES ASSUME NEW d \in Case, Requests(d)' > 0
               PROVE  Total(Spent', d - 1) < MaxTotalCost
    BY DEF BudgetStopsLaterWork
  <2>1. d \in 1..c /\ d - 1 \in 0..(c - 1)
    BY <1>1, <1>6 DEF Case
  <2>2. Total(Spent, d - 1) < MaxTotalCost
    <3>1. CASE d = c
      BY <3>1
    <3>2. CASE d # c
      <4>1. Requests(d) > 0
        BY <3>2 DEF Requests
      <4> QED BY <4>1 DEF BudgetInv, BudgetStopsLaterWork
    <3> QED BY <3>1, <3>2
  <2> QED BY <2>1, <2>2, <1>2
<1>8. OverrunIsReported'
  <2> SUFFICES ASSUME NEW d \in Case, results'[d] \notin {"none", "BUDGET_EXCEEDED"},
                      projects'[d].own > 0, d \notin Lost'
               PROVE  projects'[d].own <= MaxCaseCost /\ Total(Spent', d) <= MaxTotalCost
    BY DEF OverrunIsReported
  <2>1. d \in 1..c
    BY <1>1, <1>6 DEF Case
  <2>2. CASE d = c
    <3>1. Total(Spent', c) = Total(Spent', c - 1) + Spent'[c]
      BY TotalEquations
    <3>2. SpentOK'
      BY <1>1, SpentFacts, PTL
    <3>3. Spent'[c] = projects'[c].own /\ projects'[c].own \in Nat
      BY <2>2, <3>2 DEF SpentOK
    <3>4. Total(Spent', c - 1) = Total(Spent, c - 1)
      BY <1>1, <1>2
    <3> QED BY <2>2, <3>1, <3>3, <3>4
  <2>3. CASE d # c
    <3>1. projects[d].own <= MaxCaseCost /\ Total(Spent, d) <= MaxTotalCost
      BY <2>3, <1>3 DEF BudgetInv, OverrunIsReported
    <3>2. d \in 0..(c - 1)
      BY <2>1, <2>3, <1>1
    <3> QED BY <2>3, <3>1, <3>2, <1>2
  <2> QED BY <2>2, <2>3
<1> QED BY <1>4, <1>5, <1>7, <1>8 DEF BudgetInv

\* What the budget says of the current case, before the step.
LEMMA CurrentFacts ==
  ASSUME Inv, BudgetInv
  PROVE  LET c == worker.case IN
         /\ c \in Case /\ c - 1 \in 0..(c - 1) /\ Total(Spent, c - 1) \in Nat
         /\ projects[c].own \in Nat /\ SpentOK
         /\ Requests(c) > 0 => Total(Spent, c - 1) < MaxTotalCost
         /\ \/ results[c] \in {"none", "BUDGET_EXCEEDED"} \/ c \in Lost
            \/ projects[c].own = 0
            \/ /\ projects[c].own <= MaxCaseCost
               /\ Total(Spent, c - 1) + projects[c].own <= MaxTotalCost
<1> PICK c \in Case : c = worker.case
  BY DEF Inv, TypeOK
<1>1. SpentOK /\ c \in 1..Cases /\ Cases \in Nat
  BY SpentFacts, CasesAssumption DEF Inv, Case
<1>2. c - 1 \in 0..(c - 1) /\ c - 1 \in 0..Cases
  BY <1>1
<1>3. Total(Spent, c - 1) \in Nat
  BY <1>1, <1>2, TotalIsNat DEF SpentOK
<1>4. projects[c].own \in Nat
  BY <1>1 DEF SpentOK
<1>5. Requests(c) > 0 => Total(Spent, c - 1) < MaxTotalCost
  BY DEF BudgetInv, BudgetStopsLaterWork
<1>6. \/ results[c] \in {"none", "BUDGET_EXCEEDED"} \/ c \in Lost
      \/ projects[c].own = 0
      \/ /\ projects[c].own <= MaxCaseCost
         /\ Total(Spent, c - 1) + projects[c].own <= MaxTotalCost
  <2> SUFFICES ASSUME results[c] \notin {"none", "BUDGET_EXCEEDED"}, c \notin Lost,
                      projects[c].own # 0
               PROVE  /\ projects[c].own <= MaxCaseCost
                      /\ Total(Spent, c - 1) + projects[c].own <= MaxTotalCost
    OBVIOUS
  <2>1. projects[c].own > 0
    BY <1>4
  <2>2. projects[c].own <= MaxCaseCost /\ Total(Spent, c) <= MaxTotalCost
    BY <2>1 DEF BudgetInv, OverrunIsReported
  <2>3. Total(Spent, c) = Total(Spent, c - 1) + Spent[c] /\ Spent[c] = projects[c].own
    BY <1>1, TotalEquations DEF SpentOK
  <2> QED BY <2>2, <2>3
<1> QED BY <1>1, <1>2, <1>3, <1>4, <1>5, <1>6

\* A step that neither records nor spends anything.
LEMMA Stays ==
  ASSUME Inv, Inv', BudgetInv, NEW c \in Case, worker.case = c, worker'.case = c,
         UNCHANGED <<attempts, costs, results>>,
         \A d \in Case : /\ projects'[d].own = projects[d].own
                         /\ projects'[d].unrecorded = projects[d].unrecorded,
         worker'.step \in Admitted => Total(Spent, c - 1) < MaxTotalCost,
         worker'.step = "write" =>
           /\ Raised(worker'.outcome) \/ projects[c].own <= worker'.outcome.cost
           /\ worker'.todo \notin CostPending => worker'.outcome.cost <= costs[c]
           /\ \/ worker'.outcome.status = "BUDGET_EXCEEDED" \/ Raised(worker'.outcome)
              \/ projects[c].own = 0
              \/ Total(Spent, c - 1) + projects[c].own <= MaxTotalCost
  PROVE  BudgetInv'
<1>1. projects'[c].own = projects[c].own /\ (c \in Lost' <=> c \in Lost)
  BY DEF Lost
<1>2. ChargedInv(worker)'
  BY <1>1 DEF ChargedInv
<1>3. \/ results'[c] \in {"none", "BUDGET_EXCEEDED"} \/ c \in Lost'
      \/ projects'[c].own = 0
      \/ /\ projects'[c].own <= MaxCaseCost
         /\ Total(Spent, c - 1) + projects'[c].own <= MaxTotalCost
  BY <1>1, CurrentFacts
<1>4. Requests(c)' > 0 => Total(Spent, c - 1) < MaxTotalCost
  BY CurrentFacts DEF Requests
<1> QED BY <1>1, <1>2, <1>3, <1>4, Advances

\* Nor does it matter to the budget when nothing is being recorded.
LEMMA StaysOut ==
  ASSUME Inv, Inv', BudgetInv, worker'.case = worker.case,
         worker'.step \notin Admitted \cup {"write"},
         UNCHANGED <<attempts, costs, results, projects>>
  PROVE  BudgetInv'
<1> PICK c \in Case : c = worker.case
  BY DEF Inv, TypeOK
<1> QED BY Stays

LEMMA EndBudget ==
  ASSUME Inv, Inv', BudgetInv, NEW step \in Final, End(step),
         UNCHANGED <<attempts, costs, results, projects>>
  PROVE  BudgetInv'
BY StaysOut DEF End, Final, Admitted

\* No more than what has been charged has been spent before a case.
LEMMA ChargedBefore ==
  ASSUME Inv, BudgetInv
  PROVE  /\ Total(Spent, worker.case - 1) <= EstimatedCost
         /\ EstimatedCost \in Nat
<1> PICK c \in Case : c = worker.case
  BY DEF Inv, TypeOK
<1>1. /\ c \in 1..Cases /\ Cases \in Nat /\ c - 1 \in 0..Cases
      /\ Spent \in [Case -> Nat] /\ costs \in [Case -> Nat]
  <2>1. TypeOK /\ SpentOK
    BY SpentFacts DEF Inv
  <2> QED BY <2>1, CasesAssumption DEF TypeOK, SpentOK, Case
<1>2. \A d \in 1..(c - 1) : Spent[d] <= costs[d]
  BY <1>1 DEF BudgetInv, CostsInv, Case
<1>3. Total(Spent, c - 1) <= Total(costs, c - 1)
  BY <1>1, <1>2, TotalIsMonotone
<1>4. Total(costs, c - 1) <= Total(costs, Cases)
  BY <1>1, TotalOfAll
<1>5. /\ Total(Spent, c - 1) \in Nat /\ Total(costs, c - 1) \in Nat
      /\ Total(costs, Cases) \in Nat
  BY <1>1, TotalIsNat
<1> QED BY <1>3, <1>4, <1>5 DEF EstimatedCost

\* While a case is early nothing has been spent for it.
LEMMA EarlyOwn ==
  ASSUME Inv, worker.step \in Early
  PROVE  worker.case \in Case /\ projects[worker.case].own = 0 /\ Requests(worker.case) = 0
BY DEF Inv, TypeOK, Untouched, Requests

\* A case is recorded, of which nothing has been spent or all is lost.
LEMMA RecordsBlocked ==
  ASSUME Inv, Inv', BudgetInv, NEW c \in Case, worker.case = c, worker'.case = c,
         UNCHANGED <<attempts, costs, results>>,
         \A d \in Case : /\ projects'[d].own = projects[d].own
                         /\ projects'[d].unrecorded = projects[d].unrecorded,
         worker'.step = "write", worker'.todo = BlockedWrites,
         worker'.outcome.cost = 0,
         projects[c].own = 0 \/ Raised(worker'.outcome)
  PROVE  BudgetInv'
<1>1. BlockedWrites \in CostPending
  BY DEF BlockedWrites, CostPending
<1>2. projects[c].own = 0 => projects[c].own <= worker'.outcome.cost
  OBVIOUS
<1>3. worker'.step \notin Admitted
  BY DEF Admitted
<1> QED BY <1>1, <1>2, <1>3, Stays

LEMMA BlockedOutcome ==
  ASSUME NEW status, NEW severity
  PROVE  /\ Blocked(status, severity).cost = 0
         /\ Blocked(status, severity).status = status /\ ~Blocked(status, severity).project
BY DEF Blocked, NotRun

LEMMA CheckBudgetKeeps ==
  ASSUME Inv, Inv', BudgetInv, NEW c \in Case, CheckBudget(c)
  PROVE  BudgetInv'
<1>1. worker.step = "budget" /\ worker.case = c /\ worker \in WorkerState
  BY DEF CheckBudget, AtCase, At, Inv, TypeOK, WorkerState
<1>2. projects[c].own = 0
  BY <1>1, EarlyOwn DEF Early
<1>3. CASE Raise
  BY <1>3, EndBudget DEF Raise, Final, stored
<1>4. CASE /\ BudgetSpent /\ UNCHANGED <<stored, projects>>
           /\ Record(Blocked("BUDGET_EXCEEDED", "P2"), BlockedWrites)
  <2>1. /\ worker'.case = c /\ worker'.step = "write" /\ worker'.todo = BlockedWrites
        /\ worker'.outcome.cost = 0
    BY <1>1, <1>4, BlockedOutcome DEF Record, WorkerState
  <2> QED BY <1>1, <1>2, <1>4, <2>1, RecordsBlocked DEF stored
<1>5. CASE ~BudgetSpent /\ Go("literature") /\ UNCHANGED <<stored, projects>>
  <2>1. worker'.case = c /\ worker'.step = "literature"
    BY <1>1, <1>5 DEF Go, WorkerState
  <2>2. Total(Spent, c - 1) < MaxTotalCost
    BY <1>1, <1>5, ChargedBefore, CurrentFacts, BudgetAssumption DEF BudgetSpent
  <2> QED BY <1>1, <1>5, <2>1, <2>2, Stays DEF stored
<1> QED BY <1>3, <1>4, <1>5 DEF CheckBudget

LEMMA LiveLiteratureKeeps ==
  ASSUME Inv, Inv', BudgetInv, NEW c \in Case, LiveLiterature(c)
  PROVE  BudgetInv'
<1>1. /\ worker.step = "literature" /\ worker.case = c /\ worker \in WorkerState
      /\ UNCHANGED <<attempts, costs, results, projects>>
  BY DEF LiveLiterature, AtCase, At, Inv, TypeOK, WorkerState, stored
<1>2. projects[c].own = 0
  BY <1>1, EarlyOwn DEF Early
<1>3. PICK lookup :
        \/ worker' = [worker EXCEPT !.step = "project", !.literature = lookup]
        \/ \E status \in {"BLOCKED_ENVIRONMENT", "BUDGET_EXCEEDED"} :
             worker' = [worker EXCEPT !.step = "write", !.literature = lookup,
                                      !.outcome = Blocked(status, "P1"),
                                      !.todo = BlockedWrites]
  BY DEF LiveLiterature
<1>4. CASE worker' = [worker EXCEPT !.step = "project", !.literature = lookup]
  <2>1. worker'.case = c /\ worker'.step = "project"
    BY <1>1, <1>4 DEF WorkerState
  <2>2. Total(Spent, c - 1) < MaxTotalCost
    BY <1>1 DEF BudgetInv, AdmittedInv, Admitted
  <2> QED BY <1>1, <2>1, <2>2, Stays
<1>5. ASSUME NEW status,
             worker' = [worker EXCEPT !.step = "write", !.literature = lookup,
                                      !.outcome = Blocked(status, "P1"),
                                      !.todo = BlockedWrites]
      PROVE  BudgetInv'
  <2>1. /\ worker'.case = c /\ worker'.step = "write" /\ worker'.todo = BlockedWrites
        /\ worker'.outcome.cost = 0
    BY <1>1, <1>5, BlockedOutcome DEF WorkerState
  <2> QED BY <1>1, <1>2, <2>1, RecordsBlocked
<1> QED BY <1>3, <1>4, <1>5

LEMMA CreateProjectKeeps ==
  ASSUME Inv, Inv', BudgetInv, NEW c \in Case, CreateProject(c)
  PROVE  BudgetInv'
<1>1. /\ worker.step = "project" /\ worker.case = c /\ worker \in WorkerState
      /\ UNCHANGED <<attempts, costs, results>> /\ projects \in [Case -> ProjectRuns]
  BY DEF CreateProject, AtCase, At, Inv, TypeOK, WorkerState, stored
<1> PICK row : row = [projects[c] EXCEPT !.created = TRUE]
  OBVIOUS
<1>2. /\ row.own = projects[c].own /\ row.unrecorded = projects[c].unrecorded
      /\ projects' = [projects EXCEPT ![c] = row]
  BY <1>1 DEF ProjectRuns, CreateProject
<1>3. \A d \in Case : /\ projects'[d].own = projects[d].own
                      /\ projects'[d].unrecorded = projects[d].unrecorded
  BY <1>1, <1>2
<1>4. worker'.case = c /\ worker'.step = "bind"
  BY <1>1 DEF CreateProject, Go, WorkerState
<1>5. Total(Spent, c - 1) < MaxTotalCost
  BY <1>1 DEF BudgetInv, AdmittedInv, Admitted
<1> QED BY <1>1, <1>3, <1>4, <1>5, Stays

LEMMA PipelineFailureKeeps ==
  ASSUME Inv, Inv', BudgetInv, NEW c \in Case, PipelineFailure(c)
  PROVE  BudgetInv'
<1>1. /\ worker.case = c /\ worker \in WorkerState
      /\ UNCHANGED <<attempts, costs, results, projects>>
      /\ Record(Blocked("FAIL", "P1"), BlockedWrites)
  BY DEF PipelineFailure, AtCase, Inv, TypeOK, WorkerState, stored
<1>2. /\ worker'.case = c /\ worker'.step = "write" /\ worker'.todo = BlockedWrites
      /\ worker'.outcome.cost = 0 /\ Raised(worker'.outcome)
  BY <1>1, BlockedOutcome DEF Record, WorkerState, Raised
<1> QED BY <1>1, <1>2, RecordsBlocked

\* The executor has returned and its outcome is being checked.
LEMMA CheckedKeeps ==
  ASSUME Inv, Inv', BudgetInv, NEW c \in Case,
         StageFails(c) \/ StagesComplete(c) \/ ReadCoverage(c) \/ CheckActivity(c)
  PROVE  BudgetInv'
<1>1. worker \in WorkerState /\ UNCHANGED <<attempts, costs, results, projects>>
  BY DEF StageFails, StagesComplete, ReadCoverage, CheckActivity, Inv, TypeOK,
         WorkerState, stored
<1>2. worker'.case = worker.case /\ worker'.step \in {"coverage", "activity", "judge", "raised"}
  <2>1. CASE StageFails(c)
    BY <1>1, <2>1 DEF StageFails, WorkerState
  <2>2. CASE StagesComplete(c)
    BY <1>1, <2>2 DEF StagesComplete, WorkerState
  <2>3. CASE ReadCoverage(c)
    <3>1. worker' = [worker EXCEPT !.step = "activity", !.outcome.covered = projects[c].covered]
      BY <2>3 DEF ReadCoverage
    <3> QED BY <1>1, <3>1 DEF WorkerState
  <2>4. CASE CheckActivity(c)
    BY <1>1, <2>4 DEF CheckActivity, End, Go, WorkerState
  <2> QED BY <2>1, <2>2, <2>3, <2>4
<1> QED BY <1>1, <1>2, StaysOut DEF Admitted

LEMMA JudgeBudgetKeeps ==
  ASSUME Inv, Inv', BudgetInv, NEW c \in Case, JudgeBudget(c)
  PROVE  BudgetInv'
<1>1. worker.step = "judge" /\ worker.case = c /\ worker \in WorkerState /\ OutcomeInv(worker)
  BY DEF JudgeBudget, AtCase, At, Inv, TypeOK, WorkerState
<1>2. CASE Raise
  BY <1>2, EndBudget DEF Raise, Final, stored
<1>3. CASE ~Raise
  <2>1. PICK late \in BOOLEAN :
          /\ Record(IF late \/ OverBudget(worker.outcome.cost)
                    THEN [worker.outcome EXCEPT !.status = "BUDGET_EXCEEDED"]
                    ELSE worker.outcome, LiveWrites)
          /\ UNCHANGED <<stored, projects>>
    BY <1>3 DEF JudgeBudget
  <2> PICK outcome : outcome = IF late \/ OverBudget(worker.outcome.cost)
                               THEN [worker.outcome EXCEPT !.status = "BUDGET_EXCEEDED"]
                               ELSE worker.outcome
    OBVIOUS
  <2>2. /\ outcome.cost = worker.outcome.cost
        /\ outcome.status = "BUDGET_EXCEEDED" \/ ~OverBudget(worker.outcome.cost)
    BY <1>1 DEF Outcome, WorkerState
  <2>3. /\ worker'.case = c /\ worker'.step = "write" /\ worker'.todo = LiveWrites
        /\ worker'.outcome = outcome
    BY <1>1, <2>1 DEF Record, WorkerState
  <2>4. /\ projects[c].own \in Nat /\ worker.outcome.cost \in Nat
        /\ projects[c].own <= worker.outcome.cost
    BY <1>1, CallsFacts DEF Inv, WorkerState, Outcome, OutcomeInv
  <2>5. ~OverBudget(worker.outcome.cost) =>
          Total(Spent, c - 1) + projects[c].own <= MaxTotalCost
    BY <1>1, <2>4, ChargedBefore, CurrentFacts, BudgetAssumption DEF OverBudget
  <2>6. LiveWrites \in CostPending /\ worker'.step \notin Admitted
    BY <2>3 DEF LiveWrites, CostPending, Admitted
  <2> QED BY <1>1, <2>1, <2>2, <2>3, <2>4, <2>5, <2>6, Stays DEF stored
<1> QED BY <1>2, <1>3

\* A step of a case for which nothing has been spent.
LEMMA EarlyKeeps ==
  ASSUME Inv, Inv', BudgetInv, NEW c \in Case, worker.case = c, worker.step \in Early,
         \A d \in Case \ {c} : attempts'[d] = attempts[d],
         UNCHANGED <<costs, results, projects>>, worker'.case = c,
         worker'.step \in Admitted => Total(Spent, c - 1) < MaxTotalCost,
         worker'.step = "write" =>
           worker'.outcome.cost = 0 /\ worker'.todo = BlockedWrites
  PROVE  BudgetInv'
<1>1. projects[c].own = 0 /\ Requests(c)' = 0
  BY EarlyOwn DEF Requests
<1>2. BlockedWrites \in CostPending
  BY DEF BlockedWrites, CostPending
<1>3. ChargedInv(worker)'
  BY <1>1, <1>2 DEF ChargedInv
<1> QED BY <1>1, <1>3, Advances

LEMMA StartCaseKeeps ==
  ASSUME Inv, Inv', BudgetInv, NEW c \in Case, StartCase(c)
  PROVE  BudgetInv'
<1>1. /\ worker.step = "case" /\ worker.case = c /\ worker \in WorkerState
      /\ UNCHANGED <<costs, results, projects>>
      /\ attempts \in [Case -> Attempt \cup {NoAttempt}]
  BY DEF StartCase, AtCase, At, Inv, TypeOK, WorkerState
<1>2. \A d \in Case \ {c} : attempts'[d] = attempts[d]
  BY <1>1 DEF StartCase
<1>3. /\ worker'.case = c /\ worker'.step \in {"budget", "write"}
      /\ worker'.step = "write" =>
           worker'.outcome.cost = 0 /\ worker'.todo = BlockedWrites
  <2>1. CASE worker' = [worker EXCEPT !.step = "budget", !.literature = "none"]
    BY <1>1, <2>1 DEF WorkerState
  <2>2. CASE worker' = [worker EXCEPT !.step = "write", !.literature = "none",
                                      !.outcome = Blocked("INVALID_BENCHMARK_SETUP", "P1"),
                                      !.todo = BlockedWrites]
    BY <1>1, <2>2, BlockedOutcome DEF WorkerState
  <2> QED BY <2>1, <2>2 DEF StartCase
<1> QED BY <1>1, <1>2, <1>3, EarlyKeeps DEF Early, Admitted

LEMMA BindAttemptProjectKeeps ==
  ASSUME Inv, Inv', BudgetInv, NEW c \in Case, BindAttemptProject(c)
  PROVE  BudgetInv'
<1>1. /\ worker.step = "bind" /\ worker.case = c /\ worker \in WorkerState
      /\ UNCHANGED <<costs, results, projects>>
      /\ attempts \in [Case -> Attempt \cup {NoAttempt}]
  BY DEF BindAttemptProject, AtCase, At, Inv, TypeOK, WorkerState
<1>2. \A d \in Case \ {c} : attempts'[d] = attempts[d]
  BY <1>1 DEF BindAttemptProject
<1>3. worker'.case = c /\ worker'.step = "stages"
  BY <1>1 DEF BindAttemptProject, Go, WorkerState
<1>4. Total(Spent, c - 1) < MaxTotalCost
  BY <1>1 DEF BudgetInv, AdmittedInv, Admitted
<1> QED BY <1>1, <1>2, <1>3, <1>4, EarlyKeeps DEF Early

\* A cost that is to come stays so until it is written, and it is written
\* before the attempt.
LEMMA CostPendingFacts ==
  ASSUME NEW todo \in CostPending
  PROVE  /\ Head(todo) \in {"cost", "failures", "coverage"}
         /\ Head(todo) # "cost" => Tail(todo) \in CostPending
<1>1. CASE todo = <<"cost", "coverage", "failures", "attempt", "independent", "result">>
  BY <1>1, Tuples
<1>2. CASE todo = <<"failures", "coverage", "cost", "attempt", "result">>
  BY <1>2, Tuples DEF CostPending
<1>3. CASE todo = <<"coverage", "cost", "attempt", "result">>
  BY <1>3, Tuples DEF CostPending
<1>4. CASE todo = <<"cost", "attempt", "result">>
  BY <1>4, Tuples
<1> QED BY <1>1, <1>2, <1>3, <1>4 DEF CostPending

\* One more write of the case is done.
LEMMA NoteKeeps ==
  ASSUME Inv, Inv', BudgetInv, NEW c \in Case, NEW what, Writing(c, what),
         what # "result", Written, UNCHANGED <<results, projects>>,
         \A d \in Case \ {c} : attempts'[d] = attempts[d],
         \/ what = "cost" /\ costs' = [costs EXCEPT ![c] = @ + worker.outcome.cost]
         \/ what # "cost" /\ costs' = costs
  PROVE  BudgetInv'
<1>1. /\ worker.step = "write" /\ worker.case = c /\ worker \in WorkerState
      /\ Head(worker.todo) = what /\ costs \in [Case -> Nat] /\ worker.outcome.cost \in Nat
      /\ results[c] = "none"
  BY CasesAssumption
  DEF Writing, AtCase, At, Inv, TypeOK, WorkerState, Outcome, Untouched, Final, Case
<1>2. /\ worker'.case = c /\ worker'.step = "write" /\ worker'.outcome = worker.outcome
      /\ worker'.todo = Tail(worker.todo)
  BY <1>1 DEF Written, WorkerState
<1>3. worker'.todo \notin CostPending => worker.outcome.cost <= costs'[c]
  <2>1. CASE what = "cost"
    BY <1>1, <2>1
  <2>2. CASE what # "cost"
    <3>1. worker.todo \notin CostPending => worker.outcome.cost <= costs[c]
      BY <1>1 DEF BudgetInv, ChargedInv
    <3> QED BY <1>1, <1>2, <2>2, <3>1, CostPendingFacts
  <2> QED BY <2>1, <2>2
<1>4. ChargedInv(worker)'
  BY <1>1, <1>2, <1>3 DEF BudgetInv, ChargedInv
<1>5. \A d \in Case \ {c} : costs'[d] = costs[d]
  BY <1>1
<1>6. \/ worker.outcome.status = "BUDGET_EXCEEDED" \/ Raised(worker.outcome)
      \/ projects[c].own = 0
      \/ Total(Spent, c - 1) + projects[c].own <= MaxTotalCost
  BY <1>1 DEF BudgetInv, AdmittedInv
<1>7. Requests(c)' > 0 => Total(Spent, c - 1) < MaxTotalCost
  BY <1>1, CurrentFacts DEF Requests
<1>8. worker'.step \notin Admitted
  BY <1>2 DEF Admitted
<1> QED BY <1>1, <1>2, <1>4, <1>5, <1>6, <1>7, <1>8, Advances

LEMMA FinishAttemptKeeps ==
  ASSUME Inv, Inv', BudgetInv, NEW c \in Case, FinishAttempt(c)
  PROVE  BudgetInv'
<1>1. attempts \in [Case -> Attempt \cup {NoAttempt}]
  BY DEF Inv, TypeOK
<1>2. \A d \in Case \ {c} : attempts'[d] = attempts[d]
  BY <1>1 DEF FinishAttempt
<1> QED BY <1>2, NoteKeeps DEF FinishAttempt

LEMMA VerifyIndependentlyKeeps ==
  ASSUME Inv, Inv', BudgetInv, NEW c \in Case, VerifyIndependently(c)
  PROVE  BudgetInv'
<1>1. UNCHANGED <<attempts, costs, results, projects>> /\ Writing(c, "independent")
  BY DEF VerifyIndependently
<1>2. CASE Written
  BY <1>1, <1>2, NoteKeeps
<1>3. CASE End("raised")
  BY <1>1, <1>3, EndBudget DEF Final
<1> QED BY <1>2, <1>3 DEF VerifyIndependently

\* The result is that of the attempt, which is that of the outcome.
LEMMA AddResultKeeps ==
  ASSUME Inv, Inv', BudgetInv, NEW c \in Case, AddResult(c)
  PROVE  BudgetInv'
<1>1. /\ worker.step = "write" /\ worker.case = c /\ worker \in WorkerState
      /\ WriteInv(worker) /\ Head(worker.todo) = "result"
      /\ UNCHANGED <<attempts, costs, projects>>
      /\ costs \in [Case -> Nat] /\ worker.outcome.cost \in Nat
  BY DEF AddResult, Writing, AtCase, At, Inv, TypeOK, WorkerState, Outcome
<1>2. PICK low \in BOOLEAN :
        IF Evaluate(c, low) = attempts[c].status
        THEN Recorded(c, Evaluate(c, low))
        ELSE End("raised") /\ UNCHANGED results
  BY DEF AddResult
<1>3. CASE End("raised") /\ UNCHANGED results
  BY <1>1, <1>3, EndBudget DEF Final
<1>4. CASE Evaluate(c, low) = attempts[c].status /\ Recorded(c, Evaluate(c, low))
  <2>1. /\ \A d \in Case \ {c} : results'[d] = results[d]
        /\ results'[c] = attempts[c].status
    BY <1>4 DEF Recorded, Inv, TypeOK
  <2>2. /\ worker'.case # c => worker'.case = c + 1
        /\ worker'.step \in {"accept", "case"}
    BY <1>1, <1>4 DEF Recorded, WorkerState
  <2>3. c \in Lost <=> Raised(worker.outcome)
    BY <1>1 DEF WriteInv, Lost, Raised
  <2>4. worker.outcome.cost <= costs[c]
    BY <1>1, CostPendingFacts DEF BudgetInv, ChargedInv
  <2>5. Spent[c] <= costs[c]
    <3>1. CASE c \in Lost
      BY <1>1, <3>1, CurrentFacts DEF SpentOK
    <3>2. CASE c \notin Lost
      <4>1. Spent[c] = projects[c].own /\ projects[c].own \in Nat
        BY <3>2, CurrentFacts DEF SpentOK
      <4>2. projects[c].own <= worker.outcome.cost
        BY <1>1, <2>3, <3>2 DEF BudgetInv, ChargedInv
      <4> QED BY <1>1, <2>4, <4>1, <4>2
    <3> QED BY <3>1, <3>2
  <2>6. Spent' = Spent /\ Lost' = Lost
    BY <1>1 DEF Spent, Lost
  <2>7. \/ worker.outcome.status = "BUDGET_EXCEEDED" \/ Raised(worker.outcome)
        \/ projects[c].own = 0
        \/ /\ projects[c].own <= MaxCaseCost
           /\ Total(Spent, c - 1) + projects[c].own <= MaxTotalCost
    BY <1>1 DEF BudgetInv, AdmittedInv, WriteInv, Reported, Raised
  <2>8. \/ results'[c] \in {"none", "BUDGET_EXCEEDED"} \/ c \in Lost'
        \/ projects'[c].own = 0
        \/ /\ projects'[c].own <= MaxCaseCost
           /\ Total(Spent, c - 1) + projects'[c].own <= MaxTotalCost
    BY <1>1, <2>1, <2>3, <2>6, <2>7 DEF WriteInv
  <2>9. Requests(c)' > 0 => Total(Spent, c - 1) < MaxTotalCost
    BY <1>1, CurrentFacts DEF Requests
  <2>10. ChargedInv(worker)' /\ worker'.step \notin Admitted \cup {"write"}
    BY <2>2 DEF ChargedInv, Admitted
  <2> QED BY <1>1, <2>1, <2>2, <2>5, <2>6, <2>8, <2>9, <2>10, Advances
<1> QED BY <1>2, <1>3, <1>4

\* The executor spends for a case whose budget has been checked.
LEMMA StageRunKeeps ==
  ASSUME Inv, Inv', BudgetInv, NEW c \in Case, StageRun(c)
  PROVE  BudgetInv'
<1>1. worker.step = "stages" /\ worker.case = c /\ Asks(c, executor.stores)
  BY StageRunFacts DEF Inv
<1>2. /\ UNCHANGED <<attempts, costs, results, worker>>
      /\ \A d \in Case \ {c} : /\ projects'[d].own = projects[d].own
                               /\ projects'[d].unrecorded = projects[d].unrecorded
  BY <1>1 DEF Asks, stored
<1>3. results[c] = "none"
  BY <1>1, CasesAssumption DEF Inv, Untouched, Final, Case
<1>4. Total(Spent, c - 1) < MaxTotalCost
  BY <1>1 DEF BudgetInv, AdmittedInv, Admitted
<1>5. ChargedInv(worker)'
  BY <1>1, <1>2 DEF ChargedInv
<1> QED BY <1>1, <1>2, <1>3, <1>4, <1>5, Advances

\* What other clients spend is not charged to the executor.
LEMMA OthersKeep ==
  ASSUME Inv, Inv', BudgetInv, UNCHANGED <<attempts, costs, results, worker>>,
         \A d \in Case : /\ projects'[d].own = projects[d].own
                         /\ projects'[d].unrecorded = projects[d].unrecorded
  PROVE  BudgetInv'
<1> PICK c \in Case : c = worker.case
  BY DEF Inv, TypeOK
<1>1. ChargedInv(worker) /\ AdmittedInv(worker)
  BY DEF BudgetInv
<1> QED BY <1>1, Stays DEF ChargedInv, AdmittedInv

LEMMA InitBudget == Init => BudgetInv
<1> SUFFICES ASSUME Init PROVE BudgetInv
  OBVIOUS
<1>1. worker.step = "case" /\ worker.case = 1
  BY DEF Init
<1>2. \A c \in Case : projects[c].own = 0 /\ Requests(c) = 0 /\ ~(c < worker.case)
  BY <1>1, CasesAssumption DEF Init, Case, Requests
<1>3. CostsInv /\ BudgetStopsLaterWork /\ OverrunIsReported
  BY <1>2 DEF CostsInv, BudgetStopsLaterWork, OverrunIsReported
<1>4. ChargedInv(worker) /\ AdmittedInv(worker)
  BY <1>1 DEF ChargedInv, AdmittedInv, Admitted
<1> QED BY <1>3, <1>4 DEF BudgetInv

LEMMA NextBudget == Inv /\ Inv' /\ BudgetInv /\ [Next]_vars => BudgetInv'
<1> SUFFICES ASSUME Inv, Inv', BudgetInv, [Next]_vars PROVE BudgetInv'
  OBVIOUS
<1>1. CASE UNCHANGED vars
  BY <1>1, OthersKeep DEF vars
<1>2. ASSUME NEW c \in Case, RecordCase(c) PROVE BudgetInv'
  <2>1. CASE AddCost(c)
    BY <2>1, NoteKeeps DEF AddCost
  <2>2. CASE AddCoverage(c)
    BY <2>2, NoteKeeps DEF AddCoverage
  <2>3. CASE AddFailures(c)
    BY <2>3, NoteKeeps DEF AddFailures
  <2> QED BY <1>2, <2>1, <2>2, <2>3, FinishAttemptKeeps, VerifyIndependentlyKeeps,
             AddResultKeeps DEF RecordCase
<1>3. CASE Progress
  <2>1. CASE FinishRun
    BY <2>1, EndBudget DEF FinishRun, Raise, Final, stored
  <2> QED BY <1>2, <1>3, <2>1, StartCaseKeeps, CheckBudgetKeeps, LiveLiteratureKeeps,
             CreateProjectKeeps, BindAttemptProjectKeeps, CheckedKeeps,
             PipelineFailureKeeps, JudgeBudgetKeeps DEF Progress
<1>4. CASE Dies
  BY <1>4, EndBudget DEF Dies, Final, stored
<1>5. ASSUME NEW c \in Case, OtherRun(c) PROVE BudgetInv'
  <2>1. /\ UNCHANGED <<attempts, costs, results, worker>>
        /\ \A d \in Case : /\ projects'[d].own = projects[d].own
                           /\ projects'[d].unrecorded = projects[d].unrecorded
    BY <1>5, OtherRunFacts DEF Asks, Inv, stored
  <2> QED BY <2>1, OthersKeep
<1> QED BY <1>1, <1>3, <1>4, <1>5, StageRunKeeps DEF Next, Stopped

LEMMA BudgetInvariance == Spec => []BudgetInv
BY InitBudget, NextBudget, Invariance, PTL DEF Spec

\* No case makes a provider request once the agent runs stored for the earlier
\* ones have reached the budget of the run, for any number of cases, any budget,
\* any executor and any clients.
THEOREM BudgetCorrectness == Spec => []BudgetStopsLaterWork
<1>1. BudgetInv => BudgetStopsLaterWork
  BY DEF BudgetInv
<1> QED BY <1>1, BudgetInvariance, PTL

\* A result that does not say BUDGET_EXCEEDED is that of a case whose stored
\* agent runs stayed within its budget, and those of the run within its own.
THEOREM OverrunCorrectness == Spec => []OverrunIsReported
<1>1. BudgetInv => OverrunIsReported
  BY DEF BudgetInv
<1> QED BY <1>1, BudgetInvariance, PTL
===============================================================================
