------------------------- MODULE IndependentJobsProofs -------------------------
(***************************************************************************)
(* The safety properties of IndependentJobs for any number of workers and  *)
(* scenarios, and that it implements IndependentOutcomes.  The invariant   *)
(* says which worker stands behind a running job, that an outcome exists   *)
(* exactly for complete jobs and its execution exactly with it, and that   *)
(* what a view has read is what is still in the table.                     *)
(***************************************************************************)
EXTENDS IndependentJobs, TLAPS

JobsInv ==
  \A op \in Operation :
    /\ outcome[op] # "none" <=> status[op] = "COMPLETE"
    /\ begun[op] = IF status[op] = "absent" THEN 0 ELSE 1

ExecutionsInv ==
  \A op \in Scenario : op \in executions <=> outcome[op] \in {"PASS", "FAIL"}

Owner(w) == In(w, "work") => status[workers[w].op] = "RUNNING"

SeenBefore(w) ==
  \A op \in Operation :
    workers[w].seen[op] # "none" => outcome[op] = workers[w].seen[op]

OwnersInv ==
  /\ \A w \in Worker : Owner(w) /\ SeenBefore(w)
  /\ \A v, w \in Worker :
       In(v, "work") /\ In(w, "work") /\ workers[v].op = workers[w].op => v = w

ViewInv == PassIsEarned /\ NoFalseMismatch

Inv == TypeOK /\ JobsInv /\ ExecutionsInv /\ OwnersInv /\ ViewInv

\* An idle worker is a worker.
LEMMA IdleType == Idle \in WorkerState
  BY DEF Idle, WorkerState, Phase, Operation, Nothing, Outcome

\* The empty tables satisfy the invariant.
LEMMA InitInv == Init => Inv
  <1> SUFFICES ASSUME Init PROVE Inv
    OBVIOUS
  <1>1. TypeOK
    BY IdleType DEF Init, TypeOK, Nothing, NoView, Outcome, JobStatus
  <1>2. JobsInv /\ ExecutionsInv
    BY ScenarioAssumption DEF Init, JobsInv, ExecutionsInv, Nothing, Operation
  <1>3. OwnersInv
    BY DEF Init, OwnersInv, Owner, SeenBefore, In, Idle, Nothing
  <1>4. ViewInv
    BY DEF Init, ViewInv, PassIsEarned, NoFalseMismatch, NoView
  <1> QED BY <1>1, <1>2, <1>3, <1>4 DEF Inv

-----------------------------------------------------------------------------

\* A step of one worker that leaves the tables alone and neither enters the work
\* phase nor reads them.
LEMMA LocalStep ==
  ASSUME Inv, NEW w \in Worker, NEW k \in WorkerState,
         Become(w, k), k.phase # "work",
         k.seen \in {workers[w].seen, Nothing, outcome},
         registered' \in BOOLEAN, lost' \subseteq Operation,
         UNCHANGED <<jobs, shown, begun>>
  PROVE  Inv'
  <1> USE DEF jobs
  <1>1. /\ workers'[w] = k
        /\ \A v \in Worker : v # w => workers'[v] = workers[v]
        /\ workers' \in [Worker -> WorkerState]
    BY DEF Become, Inv, TypeOK
  <1>2. TypeOK'
    BY <1>1 DEF Inv, TypeOK
  <1>3. JobsInv' /\ ExecutionsInv' /\ ViewInv'
    BY DEF Inv, JobsInv, ExecutionsInv, ViewInv, PassIsEarned, NoFalseMismatch
  <1>4. ASSUME NEW v \in Worker PROVE Owner(v)' /\ SeenBefore(v)'
    <2>1. CASE v = w
      <3>1. \A op \in Operation : k.seen[op] # "none" => outcome[op] = k.seen[op]
        BY DEF Inv, OwnersInv, SeenBefore, Nothing
      <3> QED BY <1>1, <2>1, <3>1 DEF Owner, SeenBefore, In
    <2>2. CASE v # w
      BY <1>1, <2>2 DEF Inv, OwnersInv, Owner, SeenBefore, In
    <2> QED BY <2>1, <2>2
  <1>5. ASSUME NEW u \in Worker, NEW v \in Worker,
               In(u, "work")', In(v, "work")', (workers[u].op = workers[v].op)'
        PROVE  u = v
    BY <1>1, <1>5 DEF Inv, OwnersInv, In
  <1> QED BY <1>2, <1>3, <1>4, <1>5 DEF Inv, OwnersInv

\* Claiming a job nobody has claimed makes the worker its only owner.
LEMMA ClaimInv ==
  ASSUME Inv, NEW w \in Worker, Claim(w)
  PROVE  Inv'
  <1> DEFINE op == workers[w].op
  <1>1. workers[w] \in WorkerState /\ op \in Operation
    BY DEF Inv, TypeOK, WorkerState
  <1>2. CASE ~Claimable(op)
    <2>1. Enter(w, "view jobs") /\ UNCHANGED <<registered, jobs, shown, begun, lost>>
      BY <1>2 DEF Claim, jobs
    <2> DEFINE k == [workers[w] EXCEPT !.phase = "view jobs"]
    <2>2. k \in WorkerState /\ k.phase # "work" /\ k.seen = workers[w].seen
      BY <1>1 DEF WorkerState, Phase
    <2>3. registered' \in BOOLEAN /\ lost' \subseteq Operation
      BY <2>1 DEF Inv, TypeOK
    <2> HIDE DEF k
    <2> QED BY <2>1, <2>2, <2>3, LocalStep DEF Enter, k
  <1>3. CASE Claimable(op)
    <2> DEFINE k == [workers[w] EXCEPT !.phase = "work"]
    <2>1. /\ status' = [status EXCEPT ![op] = "RUNNING"]
          /\ begun' = [begun EXCEPT ![op] = @ + 1]
          /\ workers' = [workers EXCEPT ![w] = k]
          /\ UNCHANGED <<registered, outcome, executions, shown, lost>>
      BY <1>3 DEF Claim, Enter, Become
    <2>2. status[op] = "absent" /\ begun[op] = 0 /\ outcome[op] = "none"
      BY <1>1, <1>3 DEF Claimable, Inv, JobsInv
    <2>3. k \in WorkerState /\ k.phase = "work" /\ k.op = op /\ k.seen = workers[w].seen
      BY <1>1 DEF WorkerState, Phase
    <2>4. /\ workers'[w] = k
          /\ \A v \in Worker : v # w => workers'[v] = workers[v]
          /\ workers' \in [Worker -> WorkerState]
      BY <2>1, <2>3 DEF Inv, TypeOK
    <2>5. /\ status' \in [Operation -> JobStatus] /\ begun' \in [Operation -> Nat]
          /\ status'[op] = "RUNNING" /\ begun'[op] = 1
          /\ \A o \in Operation : o # op => status'[o] = status[o] /\ begun'[o] = begun[o]
      BY <1>1, <2>1, <2>2 DEF Inv, TypeOK, JobStatus
    <2> HIDE DEF k
    <2>6. TypeOK'
      BY <2>1, <2>4, <2>5 DEF Inv, TypeOK
    <2>7. JobsInv'
      BY <2>1, <2>2, <2>5 DEF Inv, JobsInv
    <2>8. ExecutionsInv' /\ ViewInv'
      BY <2>1 DEF Inv, ExecutionsInv, ViewInv, PassIsEarned, NoFalseMismatch
    <2>9. ASSUME NEW v \in Worker, v # w, In(v, "work") PROVE workers[v].op # op
      BY <2>2, <2>9 DEF Inv, OwnersInv, Owner
    <2>10. ASSUME NEW v \in Worker PROVE Owner(v)' /\ SeenBefore(v)'
      <3>1. CASE v = w
        BY <2>1, <2>3, <2>4, <2>5, <3>1 DEF Inv, OwnersInv, Owner, SeenBefore, In
      <3>2. CASE v # w
        <4>1. workers[v].op \in Operation
          BY DEF Inv, TypeOK, WorkerState
        <4> QED BY <2>1, <2>4, <2>5, <3>2, <4>1
                DEF Inv, OwnersInv, Owner, SeenBefore, In
      <3> QED BY <3>1, <3>2
    <2>11. ASSUME NEW u \in Worker, NEW v \in Worker,
                  In(u, "work")', In(v, "work")', (workers[u].op = workers[v].op)'
           PROVE  u = v
      <3>1. CASE u = w \/ v = w
        BY <2>3, <2>4, <2>9, <2>11, <3>1 DEF In
      <3>2. CASE u # w /\ v # w
        BY <2>4, <2>11, <3>2 DEF Inv, OwnersInv, In
      <3> QED BY <3>1, <3>2
    <2> QED BY <2>6, <2>7, <2>8, <2>10, <2>11 DEF Inv, OwnersInv
  <1> QED BY <1>2, <1>3

\* Finishing settles the job of a worker that owns it.
LEMMA FinishInv ==
  ASSUME Inv, NEW w \in Worker, Finish(w)
  PROVE  Inv'
  <1> DEFINE op == workers[w].op
             k == [workers[w] EXCEPT !.phase = "view jobs"]
  <1>1. workers[w] \in WorkerState /\ op \in Operation
    BY DEF Inv, TypeOK, WorkerState
  <1>2. PICK result \in Results(op) :
          /\ outcome' = [outcome EXCEPT ![op] = result]
          /\ executions' = IF Records(op, result) THEN executions \cup {op} ELSE executions
    BY DEF Finish
  <1>3. /\ status[op] = "RUNNING"
        /\ status' = [status EXCEPT ![op] = "COMPLETE"]
        /\ workers' = [workers EXCEPT ![w] = k]
        /\ UNCHANGED <<registered, shown, begun, lost>>
    BY DEF Finish, Enter, Become
  <1>4. k \in WorkerState /\ k.phase # "work" /\ k.seen = workers[w].seen
    BY <1>1 DEF WorkerState, Phase
  <1>5. /\ workers'[w] = k
        /\ \A v \in Worker : v # w => workers'[v] = workers[v]
        /\ workers' \in [Worker -> WorkerState]
    BY <1>3, <1>4 DEF Inv, TypeOK
  <1>6. result \in {"PASS", "FAIL", "ERROR"} /\ (result = "ERROR" => op \in Scenario)
    BY DEF Results
  <1>7. outcome[op] = "none"
    BY <1>1, <1>3 DEF Inv, JobsInv
  <1>8. /\ status' \in [Operation -> JobStatus] /\ outcome' \in [Operation -> Outcome]
        /\ status'[op] = "COMPLETE" /\ outcome'[op] = result
        /\ \A o \in Operation : o # op => status'[o] = status[o] /\ outcome'[o] = outcome[o]
    BY <1>1, <1>2, <1>3, <1>6 DEF Inv, TypeOK, JobStatus, Outcome
  <1> HIDE DEF k
  <1>9. TypeOK'
    <2>1. executions' \subseteq Scenario
      BY <1>2 DEF Records, Inv, TypeOK
    <2> QED BY <1>3, <1>5, <1>8, <2>1 DEF Inv, TypeOK
  <1>10. JobsInv'
    BY <1>1, <1>3, <1>6, <1>8 DEF Inv, JobsInv
  <1>11. ExecutionsInv'
    <2> SUFFICES ASSUME NEW o \in Scenario
                 PROVE  o \in executions' <=> outcome'[o] \in {"PASS", "FAIL"}
      BY DEF ExecutionsInv
    <2>1. o \in Operation
      BY DEF Operation
    <2>2. CASE o = op
      <3>1. o \notin executions
        BY <1>7, <2>2 DEF Inv, ExecutionsInv
      <3> QED BY <1>2, <1>6, <1>8, <2>1, <2>2, <3>1 DEF Records
    <2>3. CASE o # op
      BY <1>2, <1>8, <2>1, <2>3 DEF Inv, ExecutionsInv
    <2> QED BY <2>2, <2>3
  <1>12. ASSUME NEW v \in Worker PROVE Owner(v)' /\ SeenBefore(v)'
    <2>1. workers[v].op \in Operation
      BY DEF Inv, TypeOK, WorkerState
    <2>2. Owner(v)'
      <3>1. CASE v = w
        BY <1>4, <1>5, <3>1 DEF Owner, In
      <3>2. CASE v # w
        <4>1. In(v, "work") => workers[v].op # op
          BY <3>2 DEF Inv, OwnersInv, Finish
        <4> QED BY <1>5, <1>8, <2>1, <3>2, <4>1 DEF Inv, OwnersInv, Owner, In
      <3> QED BY <3>1, <3>2
    <2>3. workers'[v].seen = workers[v].seen
      BY <1>4, <1>5
    <2>4. \A o \in Operation : outcome[o] # "none" => outcome'[o] = outcome[o]
      BY <1>7, <1>8
    <2>5. SeenBefore(v)'
      <3> SUFFICES ASSUME NEW o \in Operation, workers[v].seen[o] # "none"
                   PROVE  outcome'[o] = workers[v].seen[o]
        BY <2>3 DEF SeenBefore
      <3>1. outcome[o] = workers[v].seen[o]
        BY DEF Inv, OwnersInv, SeenBefore
      <3> QED BY <2>4, <3>1
    <2> QED BY <2>2, <2>5
  <1>13. ASSUME NEW u \in Worker, NEW v \in Worker,
                In(u, "work")', In(v, "work")', (workers[u].op = workers[v].op)'
         PROVE  u = v
    BY <1>4, <1>5, <1>13 DEF Inv, OwnersInv, In
  <1>14. ViewInv'
    <2> SUFFICES ASSUME shown.status = "PASS", NEW o \in {"baseline"} \cup Required
                 PROVE  outcome'[o] = "PASS"
      BY <1>3 DEF Inv, ViewInv, PassIsEarned, NoFalseMismatch
    <2>1. outcome[o] = "PASS" /\ o \in Operation
      BY RequiredAssumption DEF Inv, ViewInv, PassIsEarned, Operation
    <2> QED BY <1>7, <1>8, <2>1
  <1> QED BY <1>9, <1>10, <1>11, <1>12, <1>13, <1>14 DEF Inv, OwnersInv

\* A view that has read outcomes and then the executions finds them all, and
\* what it saw still holds.
LEMMA ReadExecutionsInv ==
  ASSUME Inv, NEW w \in Worker, ReadExecutions(w)
  PROVE  Inv'
  <1> DEFINE seen == workers[w].seen
  <1>1. PICK k \in WorkerState :
          workers' = [workers EXCEPT ![w] = k] /\ k.phase # "work" /\ k.seen = Nothing
    <2>1. CASE workers[w].todo = {}
      <3>1. Idle.phase # "work" /\ Idle.seen = Nothing
        BY DEF Idle
      <3> QED BY <2>1, <3>1, IdleType DEF ReadExecutions, Continue, Become
    <2>2. CASE workers[w].todo # {}
      <3>1. PICK op \in workers[w].todo :
              Become(w, [Idle EXCEPT !.phase = "claim", !.op = op,
                                     !.todo = workers[w].todo \ {op}])
        BY <2>2 DEF ReadExecutions, Continue
      <3> DEFINE k == [Idle EXCEPT !.phase = "claim", !.op = op,
                                   !.todo = workers[w].todo \ {op}]
      <3>2. workers[w].todo \subseteq Operation
        BY DEF Inv, TypeOK, WorkerState
      <3>3. k \in WorkerState
        BY <3>2, IdleType DEF WorkerState, Phase
      <3>4. k.phase # "work" /\ k.seen = Nothing
        BY DEF Idle
      <3> QED BY <3>1, <3>3, <3>4 DEF Become
    <2> QED BY <2>1, <2>2
  <1>2. UNCHANGED <<registered, jobs, begun, lost>>
    BY DEF ReadExecutions
  <1>3. Mismatched(seen) = {}
    <2> SUFFICES ASSUME NEW op \in Scenario, seen[op] \in {"PASS", "FAIL"}
                 PROVE  op \in executions
      BY DEF Mismatched
    <2>1. outcome[op] = seen[op]
      BY DEF Inv, OwnersInv, SeenBefore, Operation
    <2> QED BY <2>1 DEF Inv, ExecutionsInv
  <1>4. shown' = [ status   |-> IF Passes(seen) THEN "PASS" ELSE "NOT_READY",
                   mismatch |-> FALSE ]
    BY <1>3 DEF ReadExecutions
  <1>5. Passes(seen) => \A op \in {"baseline"} \cup Required : outcome[op] = "PASS"
    <2> SUFFICES ASSUME Passes(seen), NEW op \in {"baseline"} \cup Required
                 PROVE  outcome[op] = "PASS"
      OBVIOUS
    <2>1. seen[op] = "PASS" /\ op \in Operation
      BY RequiredAssumption DEF Passes, Operation
    <2> QED BY <2>1 DEF Inv, OwnersInv, SeenBefore
  <1>6. ViewInv'
    BY <1>2, <1>4, <1>5 DEF ViewInv, PassIsEarned, NoFalseMismatch, jobs
  <1>7. /\ workers'[w] = k
        /\ \A v \in Worker : v # w => workers'[v] = workers[v]
        /\ workers' \in [Worker -> WorkerState]
    BY <1>1 DEF Inv, TypeOK
  <1>8. TypeOK'
    BY <1>2, <1>4, <1>7 DEF Inv, TypeOK, jobs
  <1>9. JobsInv' /\ ExecutionsInv'
    BY <1>2 DEF Inv, JobsInv, ExecutionsInv, jobs
  <1>10. OwnersInv'
    BY <1>1, <1>2, <1>7 DEF Inv, OwnersInv, Owner, SeenBefore, In, Nothing, jobs
  <1> QED BY <1>6, <1>8, <1>9, <1>10 DEF Inv

LEMMA WorkerInv ==
  ASSUME Inv, NEW w \in Worker,
         Prepare(w) \/ Command(w) \/ View(w) \/ Proceed(w) \/ Die(w)
  PROVE  Inv'
  <1>1. workers[w] \in WorkerState /\ registered \in BOOLEAN /\ lost \subseteq Operation
    BY DEF Inv, TypeOK
  <1>2. Idle.phase # "work" /\ Idle.seen = Nothing
    BY DEF Idle
  <1>3. ASSUME NEW phase \in Phase, phase # "work", Enter(w, phase),
               registered' \in BOOLEAN, UNCHANGED <<jobs, shown, begun, lost>>
        PROVE  Inv'
    <2> DEFINE k == [workers[w] EXCEPT !.phase = phase]
    <2>1. k \in WorkerState /\ k.phase # "work" /\ k.seen = workers[w].seen
      BY <1>1, <1>3 DEF WorkerState
    <2>2. Become(w, k)
      BY <1>3 DEF Enter
    <2> HIDE DEF k
    <2> QED BY <1>1, <1>3, <2>1, <2>2, LocalStep
  <1>4. CASE Prepare(w)
    <2> DEFINE k == [Idle EXCEPT !.phase = "register", !.todo = Scenario]
    <2>1. k \in WorkerState /\ k.phase # "work" /\ k.seen = Nothing
      BY IdleType DEF Idle, WorkerState, Phase, Operation
    <2>2. Become(w, k)
      BY <1>4 DEF Prepare
    <2> HIDE DEF k
    <2> QED BY <1>1, <1>4, <2>1, <2>2, LocalStep DEF Prepare, Unchanged
  <1>5. CASE Command(w)
    <2>1. PICK op \in Operation : Become(w, [Idle EXCEPT !.phase = "claim", !.op = op])
      BY <1>5 DEF Command
    <2> DEFINE k == [Idle EXCEPT !.phase = "claim", !.op = op]
    <2>2. k \in WorkerState /\ k.phase # "work" /\ k.seen = Nothing
      BY IdleType DEF Idle, WorkerState, Phase
    <2> HIDE DEF k
    <2> QED BY <1>1, <1>5, <2>1, <2>2, LocalStep DEF Command, Unchanged, k
  <1>6. CASE View(w)
    BY <1>1, <1>3, <1>6 DEF View, Unchanged, Phase
  <1>7. CASE Register(w)
    <2>1. CASE registered
      BY <1>1, <1>2, <1>7, <2>1, IdleType, LocalStep DEF Register
    <2>2. CASE ~registered
      BY <1>3, <1>7, <2>2 DEF Register, Phase
    <2> QED BY <2>1, <2>2
  <1>8. CASE ReadJobs(w)
    <2> DEFINE k == [workers[w] EXCEPT !.phase = "view executions", !.seen = outcome]
    <2>1. k \in WorkerState /\ k.phase # "work" /\ k.seen = outcome
      BY <1>1 DEF WorkerState, Phase, Inv, TypeOK
    <2>2. Become(w, k)
      BY <1>8 DEF ReadJobs
    <2> HIDE DEF k
    <2> QED BY <1>1, <1>8, <2>1, <2>2, LocalStep DEF ReadJobs, Unchanged
  <1>9. CASE Die(w)
    <2>1. lost' \subseteq Operation
      BY <1>1, <1>9 DEF Die, WorkerState
    <2> QED BY <1>1, <1>2, <1>9, <2>1, IdleType, LocalStep DEF Die
  <1> QED BY <1>4, <1>5, <1>6, <1>7, <1>8, <1>9, ClaimInv, FinishInv, ReadExecutionsInv
          DEF Proceed

\* Every step of a worker, and stuttering, keeps the invariant.
LEMMA StepInv == Inv /\ [Next]_vars => Inv'
  <1> SUFFICES ASSUME Inv, [Next]_vars PROVE Inv'
    OBVIOUS
  <1>1. CASE UNCHANGED vars
    BY <1>1 DEF vars, jobs, Inv, TypeOK, JobsInv, ExecutionsInv, OwnersInv, Owner,
       SeenBefore, In, ViewInv, PassIsEarned, NoFalseMismatch
  <1> QED BY <1>1, WorkerInv DEF Next

\* The inductive invariant of the jobs.
THEOREM InvariantHolds == Spec => []Inv
  BY InitInv, StepInv, PTL DEF Spec

\* The tables and the workers keep their types.
THEOREM JobsTypeCorrectness == Spec => []TypeOK
  <1>1. Inv => TypeOK
    BY DEF Inv
  <1> QED BY <1>1, InvariantHolds, PTL

\* The unique key of independent_verification_jobs lets every operation start at
\* most once, for any number of workers and crashes.
THEOREM AtMostOnceCorrectness == Spec => []ExecutedAtMostOnce
  <1>1. Inv => ExecutedAtMostOnce
    BY DEF Inv, JobsInv, OwnersInv, ExecutedAtMostOnce
  <1> QED BY <1>1, InvariantHolds, PTL

\* A PASS that a view has reported was earned and stays so.
THEOREM PassCorrectness == Spec => []PassIsEarned
  <1>1. Inv => PassIsEarned
    BY DEF Inv, ViewInv
  <1> QED BY <1>1, InvariantHolds, PTL

\* Reading the jobs before the execution records never makes a replay look
\* tampered with.
THEOREM ViewCorrectness == Spec => []NoFalseMismatch
  <1>1. Inv => NoFalseMismatch
    BY DEF Inv, ViewInv
  <1> QED BY <1>1, InvariantHolds, PTL

-----------------------------------------------------------------------------
(* The refinement.                                                           *)

\* Nothing is settled before the plan is registered.
LEMMA RefinementInit == Init => Outcomes!OutcomesInit
  BY DEF Init, Nothing, Operation, Outcomes!OutcomesInit, Outcomes!Operation

\* Only Finish changes what the abstract specification sees.
LEMMA RefinementStep ==
  Inv /\ [Next]_vars => [Outcomes!OutcomesNext]_<<outcome, executions>>
  <1> SUFFICES ASSUME Inv, [Next]_vars, ~UNCHANGED <<outcome, executions>>
               PROVE  Outcomes!OutcomesNext
    OBVIOUS
  <1>1. PICK w \in Worker : Finish(w)
    BY DEF Next, vars, jobs, Prepare, Command, View, Proceed, Register, Claim, ReadJobs,
       ReadExecutions, Die, Unchanged
  <1> DEFINE op == workers[w].op
  <1>2. op \in Operation /\ status[op] = "RUNNING"
    BY <1>1 DEF Finish, Inv, TypeOK, WorkerState
  <1>3. outcome[op] = "none"
    BY <1>2 DEF Inv, JobsInv
  <1>4. PICK result \in Results(op) :
          /\ outcome' = [outcome EXCEPT ![op] = result]
          /\ executions' = IF Records(op, result) THEN executions \cup {op} ELSE executions
    BY <1>1 DEF Finish
  <1>5. result \in {"PASS", "FAIL", "ERROR"}
    BY DEF Results
  <1>6. Outcomes!Settle(op, result)
    BY <1>3, <1>4 DEF Outcomes!Settle, Records
  <1>7. op \in Outcomes!Operation
    BY <1>2 DEF Operation, Outcomes!Operation
  <1> QED BY <1>5, <1>6, <1>7 DEF Outcomes!OutcomesNext

\* The jobs implement the abstract promise: one outcome per operation, stored
\* together with its execution record, never changed.
THEOREM Refinement == Spec => ImplementsOutcomes
  BY RefinementInit, RefinementStep, InvariantHolds, PTL
     DEF Spec, ImplementsOutcomes, Outcomes!OutcomesSpec
===============================================================================
