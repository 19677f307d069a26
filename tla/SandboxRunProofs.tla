--------------------------- MODULE SandboxRunProofs ----------------------------
(***************************************************************************)
(* The safety properties of one sandbox run, whatever exit codes a program *)
(* may end with, and of a call that solves a model with such runs, for     *)
(* every model, option and number of attempts.  For a run the              *)
(* strengthening relates what the executor knows (run) to what happened in *)
(* the container: the exit code 0 that docker run returned is only         *)
(* replaced by the program's once outputs are copied, so a clean verdict   *)
(* after the copy implies the copy.  For a call it says what was stored:   *)
(* valid rows whose facts are those of the answer, or such rows with one   *)
(* fact altered, each of which some comparison of the verifier notices.    *)
(***************************************************************************)
EXTENDS SolveAttempt, TLAPS

\* What is known of a run whose outputs have been extracted and whose marker
\* has been read.
Copied ==
  /\ outputs = "all" /\ run.completion_observed
  /\ tampered \/ (process = "ended" /\ run.returncode = code)

Untouched ==
  /\ container = "absent" /\ process = "none"
  /\ run.returncode = NoCode
  /\ ~run.timed_out /\ ~run.runner_error /\ ~run.copy_error /\ ~run.removed
  /\ ~run.completion_observed

ContainerInv ==
  /\ process = "ended" <=> code # NoCode
  /\ process = "running" => container = "running"
  /\ wrapper = "writes" => process = "ended"
  /\ marker # NoMarker /\ ~tampered => process = "ended" /\ marker \in {NoCode, code}

RunInv ==
  /\ step \in {"prepare", "inspect", "start"} => Untouched
  /\ step \in {"prepare", "inspect", "start", "wait", "logs", "copy"} =>
       outputs = "none" /\ ~run.copy_error /\ ~run.removed
  /\ step \in {"logs", "copy"} /\ run.completion_observed => tampered \/ process = "ended"
  /\ step \in {"wait", "logs"} => run.container_started
  /\ step = "wait" => ~run.completion_observed
  /\ step = "copy" => MayCopy(run)
  /\ step = "logs" /\ ~run.timed_out /\ ~run.runner_error => run.completion_observed
  /\ run.removed => container # "running"

VerdictInv ==
  step \in {"remove", "collect"} /\ ~run.copy_error =>
    /\ outputs # "none" => Copied
    /\ run.returncode = 0 /\ ~run.timed_out /\ ~run.runner_error => Copied

RecordInv == GatedRunReallySucceeded /\ SolvedRunReallySucceeded

Inv == TypeOK /\ ContainerInv /\ RunInv /\ VerdictInv /\ RecordInv

LEMMA InitInv == Init => Inv
  <1> SUFFICES ASSUME Init PROVE Inv
    OBVIOUS
  <1> USE DEF Init, NoCode, NoMarker, NoRun
  <1>1. run \in Run /\ code \in Codes
    BY DEF Run, Codes
  <1>2. record \in ExecutionRecord
    BY DEF NoRecord, ExecutionRecord, ExecutionStatus, Outputs, Codes
  <1>3. TypeOK
    BY <1>1, <1>2 DEF TypeOK, Steps, Outputs
  <1>4. ContainerInv /\ RunInv /\ VerdictInv
    BY DEF ContainerInv, RunInv, VerdictInv, Untouched
  <1>5. RecordInv
    BY DEF RecordInv, GatedRunReallySucceeded, SolvedRunReallySucceeded,
       ExecutionGate, SolverReads, NoRecord
  <1> QED BY <1>3, <1>4, <1>5 DEF Inv

\* The fields of the local variables after a command went wrong.
LEMMA RunUpdates ==
  ASSUME NEW r \in Run
  PROVE  /\ TimedOut(r) \in Run /\ RunnerError(r) \in Run
         /\ TimedOut(r).timed_out /\ TimedOut(r).returncode = 124
         /\ RunnerError(r).runner_error
         /\ TimedOut(r).runner_error = r.runner_error
         /\ RunnerError(r).timed_out = r.timed_out
         /\ RunnerError(r).returncode = r.returncode
         /\ \A s \in {TimedOut(r), RunnerError(r)} :
              /\ s.copy_error = r.copy_error
              /\ s.container_started = r.container_started
              /\ s.completion_observed = r.completion_observed
              /\ s.removed = r.removed
  <1>1. 124 \in Codes
    BY DEF Codes
  <1>2. TimedOut(r) \in Run /\ RunnerError(r) \in Run
    BY <1>1 DEF Run, TimedOut, RunnerError
  <1>3. /\ TimedOut(r).timed_out /\ TimedOut(r).returncode = 124
        /\ RunnerError(r).runner_error
        /\ TimedOut(r).runner_error = r.runner_error
        /\ RunnerError(r).timed_out = r.timed_out
        /\ RunnerError(r).returncode = r.returncode
    BY DEF Run, TimedOut, RunnerError
  <1>4. ASSUME NEW s \in {TimedOut(r), RunnerError(r)}
        PROVE  /\ s.copy_error = r.copy_error
               /\ s.container_started = r.container_started
               /\ s.completion_observed = r.completion_observed
               /\ s.removed = r.removed
    BY DEF Run, TimedOut, RunnerError
  <1> QED BY <1>2, <1>3, <1>4

\* The executor keeps its invariants while the container goes on by itself.
LEMMA EnvironmentInv == Inv /\ Environment => Inv'
  <1> SUFFICES ASSUME Inv, Environment PROVE Inv'
    OBVIOUS
  <1> USE DEF Inv, TypeOK, ContainerInv, RunInv, VerdictInv, RecordInv,
        GatedRunReallySucceeded, SolvedRunReallySucceeded, Untouched, Copied, EndedWell,
        executor, files, NoCode, NoMarker, Codes
  <1>1. CASE ProgramEnds
    <2>1. code' \in 0..255
      BY <1>1, ExitCodesAssumption DEF ProgramEnds
    <2>2. TypeOK'
      BY <1>1, <2>1 DEF ProgramEnds
    <2>3. ContainerInv'
      BY <1>1, <2>1 DEF ProgramEnds
    <2>4. RunInv'
      BY <1>1 DEF ProgramEnds
    <2>5. VerdictInv'
      BY <1>1 DEF ProgramEnds
    <2>6. RecordInv'
      BY <1>1 DEF ProgramEnds
    <2> QED BY <2>2, <2>3, <2>4, <2>5, <2>6
  <1>2. CASE WrapperOpensMarker
    BY <1>2 DEF WrapperOpensMarker
  <1>3. CASE WrapperFillsMarker
    BY <1>3 DEF WrapperFillsMarker
  <1>4. CASE ContainerStops
    BY <1>4 DEF ContainerStops, Gone
  <1>5. CASE LateCreation
    BY <1>5 DEF LateCreation
  <1> QED BY <1>1, <1>2, <1>3, <1>4, <1>5 DEF Environment

\* What the program writes to the marker is put down to it.
LEMMA TamperingInv == Inv /\ ProgramWritesMarker => Inv'
  <1> SUFFICES ASSUME Inv, ProgramWritesMarker PROVE Inv'
    OBVIOUS
  <1>1. /\ UNCHANGED <<executor, container, process, code, wrapper>>
        /\ tampered' = TRUE
    BY DEF ProgramWritesMarker
  <1>2. marker' \in Codes \cup {NoMarker}
    BY ExitCodesAssumption DEF ProgramWritesMarker, Contents, Codes, NoCode, NoMarker
  <1>3. container = "running" /\ step \in {"wait", "logs", "copy"}
    BY DEF ProgramWritesMarker
  <1> QED
    BY <1>1, <1>2, <1>3
    DEF Inv, TypeOK, ContainerInv, RunInv, VerdictInv, RecordInv, executor, Untouched,
        GatedRunReallySucceeded, SolvedRunReallySucceeded, MayCopy

\* A record that is returned after the collection tells the truth.
LEMMA ReturnedRecord ==
  ASSUME Inv, At("collect"), NEW artifact_error \in BOOLEAN
  PROVE  LET r == [ status    |-> Status(run, artifact_error),
                    exit_code |-> run.returncode,
                    error     |-> HasError(run, artifact_error),
                    artifacts |-> IF artifact_error THEN "none" ELSE outputs ]
         IN /\ r \in ExecutionRecord
            /\ ExecutionGate(r) \/ SolverReads(r) =>
                 /\ run.completion_observed /\ r.artifacts = "all"
                 /\ tampered \/ EndedWell
  <1> DEFINE r == [ status    |-> Status(run, artifact_error),
                    exit_code |-> run.returncode,
                    error     |-> HasError(run, artifact_error),
                    artifacts |-> IF artifact_error THEN "none" ELSE outputs ]
  <1>1. /\ Status(run, artifact_error) \in ExecutionStatus
        /\ HasError(run, artifact_error) \in BOOLEAN
        /\ run.returncode \in Codes
    BY DEF Status, HasError, ExecutionStatus, Inv, TypeOK, Run
  <1>2. r \in ExecutionRecord
    BY <1>1 DEF ExecutionRecord, Outputs, Inv, TypeOK
  <1>3. ASSUME r.status = "SUCCEEDED"
        PROVE  /\ ~artifact_error /\ ~run.copy_error /\ ~run.timed_out
               /\ run.returncode = 0
    BY <1>3 DEF Status
  <1>4. ASSUME ExecutionGate(r) PROVE Copied /\ run.returncode = 0 /\ r.artifacts = "all"
    <2>1. r.status = "SUCCEEDED" /\ ~HasError(run, artifact_error)
      BY <1>4 DEF ExecutionGate
    <2>2. ~run.runner_error
      BY <2>1 DEF HasError
    <2> QED BY <1>3, <2>1, <2>2 DEF Inv, VerdictInv, Copied, At
  <1>5. ASSUME SolverReads(r) PROVE Copied /\ run.returncode = 0 /\ r.artifacts = "all"
    BY <1>3, <1>5 DEF SolverReads, Inv, VerdictInv, Copied, At
  <1> QED BY <1>2, <1>4, <1>5 DEF Copied, EndedWell

\* Before the container is started nothing can go wrong: the call goes on, or
\* ends without a record that a reader would take for a success.
LEMMA BeforeStart ==
  ASSUME Inv, step \in {"prepare", "inspect"},
         step' \in {"inspect", "start", "raised", "returned"},
         UNCHANGED <<inside, run, outputs>>,
         workspace' \in BOOLEAN, record' \in ExecutionRecord,
         record' = record \/ record'.status = "UNAVAILABLE"
  PROVE  Inv'
  <1>1. TypeOK'
    BY DEF Inv, TypeOK, inside, files, Steps, Ended
  <1>2. ContainerInv'
    BY DEF Inv, ContainerInv, inside, files
  <1>3. RunInv'
    <2>1. Untouched /\ outputs = "none"
      BY DEF Inv, RunInv
    <2>2. Untouched' /\ outputs' = "none"
      BY <2>1 DEF Untouched, inside
    <2> QED BY <2>2 DEF RunInv, Untouched
  <1>4. VerdictInv'
    BY DEF VerdictInv
  <1>5. RecordInv'
    <2>1. CASE record' = record
      BY <2>1 DEF Inv, RecordInv, GatedRunReallySucceeded, SolvedRunReallySucceeded, EndedWell,
         inside, files
    <2>2. CASE record'.status = "UNAVAILABLE"
      BY <2>2 DEF RecordInv, GatedRunReallySucceeded, SolvedRunReallySucceeded,
         ExecutionGate, SolverReads
    <2> QED BY <2>1, <2>2
  <1> QED BY <1>1, <1>2, <1>3, <1>4, <1>5 DEF Inv

LEMMA PrepareInv == Inv /\ Prepare => Inv'
  <1> SUFFICES ASSUME Inv, Prepare PROVE Inv'
    OBVIOUS
  <1>1. /\ step = "prepare" /\ step' \in {"inspect", "raised"} /\ workspace' \in BOOLEAN
        /\ UNCHANGED <<inside, run, outputs, record>>
    BY DEF Prepare, At
  <1>2. record' \in ExecutionRecord
    BY <1>1 DEF Inv, TypeOK
  <1> QED BY <1>1, <1>2, BeforeStart

LEMMA InspectInv == Inv /\ InspectImage => Inv'
  <1> SUFFICES ASSUME Inv, InspectImage PROVE Inv'
    OBVIOUS
  <1> DEFINE r == [NoRecord EXCEPT !.error = TRUE]
  <1>1. r \in ExecutionRecord /\ r.status = "UNAVAILABLE"
    <2>1. 256 \in Codes
      BY DEF Codes
    <2>2. NoRecord \in ExecutionRecord
      BY <2>1 DEF NoRecord, NoCode, ExecutionRecord, ExecutionStatus, Outputs
    <2>3. NoRecord.status = "UNAVAILABLE"
      BY DEF NoRecord
    <2> QED BY <2>2, <2>3 DEF ExecutionRecord
  <1>2. step = "inspect" /\ UNCHANGED inside
    BY DEF InspectImage, At
  <1>3. workspace \in BOOLEAN /\ record \in ExecutionRecord
    BY DEF Inv, TypeOK
  <1>4. \/ step' = "start" /\ UNCHANGED <<workspace, run, record, outputs>>
        \/ Return(r)
    BY DEF InspectImage
  <1>5. /\ step' \in {"start", "raised", "returned"} /\ UNCHANGED <<run, outputs>>
        /\ workspace' \in {FALSE, workspace} /\ record' \in {record, r}
    BY <1>4 DEF Return
  <1>6. record' \in ExecutionRecord /\ (record' = record \/ record'.status = "UNAVAILABLE")
    BY <1>1, <1>3, <1>5
  <1> QED BY <1>2, <1>3, <1>5, <1>6, BeforeStart

LEMMA ExecuteInv == Inv /\ Execute => Inv'
  <1> SUFFICES ASSUME Inv, Execute PROVE Inv'
    OBVIOUS
  <1> USE DEF Inv, TypeOK, ContainerInv, RunInv, VerdictInv, RecordInv,
        GatedRunReallySucceeded, SolvedRunReallySucceeded, Untouched, Copied, EndedWell,
        inside, files, NoCode, NoMarker, Codes, Steps, Ended, At
  <1>1. CASE Prepare
    BY <1>1, PrepareInv
  <1>2. CASE InspectImage
    BY <1>2, InspectInv
  <1>3. CASE StartContainer
    <2>1. ASSUME Started,
                 Call("wait", [run EXCEPT !.returncode = 0, !.container_started = TRUE])
          PROVE  Inv'
      <3>1. run' = [run EXCEPT !.returncode = 0, !.container_started = TRUE]
        BY <2>1 DEF Call
      <3>2. /\ 0 \in Codes /\ ~run.copy_error /\ ~run.removed
            /\ ~run.completion_observed
        BY <1>3 DEF StartContainer, Codes
      <3>3. run' \in Run
        BY <3>1, <3>2 DEF Run
      <3>4. /\ run'.container_started /\ ~run'.copy_error /\ ~run'.removed
            /\ ~run'.completion_observed
        BY <3>1, <3>2 DEF Run
      <3> QED BY <1>3, <2>1, <3>3, <3>4 DEF StartContainer, Started, Call
    <2>2. ASSUME container' \in {"absent", "stopped"},
                 NEW refusal \in 125..127,
                 Call("remove", [run EXCEPT !.returncode = refusal]),
                 UNCHANGED <<process, code, files>>
          PROVE  Inv'
      <3>1. run' \in Run /\ run'.returncode # 0
        BY <1>3, <2>2 DEF StartContainer, Call, Run, Codes
      <3> QED BY <1>3, <2>2, <3>1 DEF StartContainer, Call
    <2>3. ASSUME Started \/ (/\ container' \in {"absent", "pending", "stopped"}
                             /\ UNCHANGED <<process, code, files>>),
                 Call("remove", TimedOut(run))
          PROVE  Inv'
      <3>1. run' \in Run /\ run'.timed_out /\ ~run'.removed
        BY <1>3, <2>3, RunUpdates DEF StartContainer, Call
      <3> QED BY <1>3, <2>3, <3>1 DEF StartContainer, Started, Call
    <2>4. ASSUME Call("remove", RunnerError(run)), UNCHANGED inside
          PROVE  Inv'
      <3>1. run' \in Run /\ run'.runner_error /\ ~run'.removed
        BY <1>3, <2>4, RunUpdates DEF StartContainer, Call
      <3> QED BY <1>3, <2>4, <3>1 DEF StartContainer, Call
    <2> QED BY <1>3, <2>1, <2>2, <2>3, <2>4 DEF StartContainer
  <1>4. CASE WaitForCompletion
    <2>1. ASSUME container = "running", marker # NoMarker,
                 Call("logs", [run EXCEPT !.completion_observed = TRUE])
          PROVE  Inv'
      <3>1. run' \in Run /\ run'.completion_observed /\ run'.container_started
            /\ ~run'.copy_error /\ ~run'.removed
        BY <1>4, <2>1 DEF WaitForCompletion, Call, Run
      <3> QED BY <1>4, <2>1, <3>1 DEF WaitForCompletion, Call
    <2>2. ASSUME NEW r \in {RunnerError(run), TimedOut(run)}, Call("logs", r)
          PROVE  Inv'
      <3>1. run' \in Run /\ run'.container_started /\ ~run'.copy_error /\ ~run'.removed
            /\ (run'.runner_error \/ run'.timed_out)
            /\ run'.completion_observed = run.completion_observed
        BY <1>4, <2>2, RunUpdates DEF WaitForCompletion, Call
      <3>2. ~run.completion_observed
        BY <1>4 DEF WaitForCompletion
      <3> QED BY <1>4, <2>2, <3>1, <3>2 DEF WaitForCompletion, Call
    <2> QED BY <1>4, <2>1, <2>2 DEF WaitForCompletion
  <1>5. CASE CollectLogs
    <2>1. PICK r \in {run, RunnerError(run)} :
                 Call(IF MayCopy(r) THEN "copy" ELSE "remove", r)
      BY <1>5 DEF CollectLogs
    <2>2. run' = r /\ run' \in Run /\ ~run'.copy_error /\ ~run'.removed
          /\ run'.completion_observed = run.completion_observed
          /\ run'.timed_out = run.timed_out
          /\ (run'.runner_error = run.runner_error \/ run'.runner_error)
      BY <1>5, <2>1, RunUpdates DEF CollectLogs, Call
    <2>3. UNCHANGED <<workspace, outputs, record, inside>>
      BY <1>5, <2>1 DEF CollectLogs, Call
    <2>4. CASE MayCopy(r)
      BY <1>5, <2>1, <2>2, <2>3, <2>4 DEF CollectLogs, Call, MayCopy
    <2>5. CASE ~MayCopy(r)
      <3>1. run'.timed_out \/ run'.runner_error
        BY <1>5, <2>2, <2>5 DEF CollectLogs, MayCopy
      <3> QED BY <1>5, <2>1, <2>2, <2>3, <2>5, <3>1 DEF CollectLogs, Call
    <2> QED BY <2>4, <2>5
  <1>6. CASE CopyOutputs
    <2>1. run.completion_observed /\ (tampered \/ process = "ended") /\ ~run.removed
      BY <1>6 DEF CopyOutputs, MayCopy
    <2>2. CASE outputs' = "all" /\ run' = MarkerVerdict(run)
      <3>1. CASE marker \in 0..255
        <4>1. run' = [run EXCEPT !.returncode = marker] /\ marker # NoMarker
          BY <2>2, <3>1 DEF MarkerVerdict
        <4>2. tampered \/ (process = "ended" /\ marker = code)
          BY <3>1, <4>1
        <4>3. /\ run' \in Run /\ ~run'.removed /\ run'.completion_observed
              /\ run'.returncode = marker
          BY <2>1, <3>1, <4>1 DEF Run
        <4> QED BY <1>6, <2>1, <2>2, <4>2, <4>3 DEF CopyOutputs, Outputs
      <3>2. CASE marker \notin 0..255
        <4>1. run' = [run EXCEPT !.copy_error = TRUE]
          BY <2>2, <3>2 DEF MarkerVerdict
        <4>2. run' \in Run /\ ~run'.removed /\ run'.copy_error
          BY <2>1, <4>1 DEF Run
        <4>3. /\ step' = "remove" /\ outputs' = "all"
              /\ UNCHANGED <<workspace, record, inside>>
          BY <1>6, <2>2 DEF CopyOutputs
        <4>4. run'.completion_observed = run.completion_observed
          BY <4>1 DEF Run
        <4>5. TypeOK' /\ ContainerInv'
          <5>1. UNCHANGED <<container, process, code, wrapper, marker, tampered>>
            BY <4>3
          <5>2. TypeOK'
            BY <4>2, <4>3, <5>1 DEF Outputs
          <5>3. ContainerInv'
            BY <5>1
          <5> QED BY <5>2, <5>3
        <4>6. RunInv'
          BY <2>1, <4>2, <4>3
        <4>7. VerdictInv'
          BY <4>2, <4>3
        <4>8. RecordInv'
          BY <4>3, <4>4
        <4> QED BY <4>5, <4>6, <4>7, <4>8
      <3> QED BY <3>1, <3>2
    <2>3. CASE outputs' \in {"none", "part"} /\ run' = [run EXCEPT !.copy_error = TRUE]
      <3>1. run' \in Run /\ ~run'.removed /\ run'.copy_error
        BY <2>1, <2>3 DEF Run
      <3> QED BY <1>6, <2>1, <2>3, <3>1 DEF CopyOutputs, Outputs
    <2> QED BY <1>6, <2>2, <2>3 DEF CopyOutputs
  <1>7. CASE ForceRemove
    <2>1. CASE run' = [run EXCEPT !.removed = TRUE]
      <3>1. run' \in Run /\ run'.copy_error = run.copy_error
            /\ run'.returncode = run.returncode /\ run'.timed_out = run.timed_out
            /\ run'.runner_error = run.runner_error
            /\ run'.completion_observed = run.completion_observed
        BY <2>1 DEF Run
      <3>2. container' # "running" \/ (run' = run /\ UNCHANGED inside)
        BY <1>7 DEF ForceRemove, Removable, Call
      <3>3. process' = Gone \/ process' = process
        BY <1>7 DEF ForceRemove
      <3>4. UNCHANGED <<workspace, outputs, record, code, tampered>> /\ step' = "collect"
        BY <1>7 DEF ForceRemove, Call
      <3>5. /\ container' \in {"absent", "pending", "running", "stopped"}
            /\ marker' = marker \/ marker' = NoMarker
            /\ wrapper' = wrapper \/ wrapper' = "done"
            /\ process' = "running" => container' = "running"
        BY <1>7 DEF ForceRemove, Removable, Gone
      <3>6. TypeOK'
        BY <3>1, <3>3, <3>4, <3>5 DEF Gone
      <3>7. ContainerInv' /\ VerdictInv'
        BY <1>7, <3>1, <3>3, <3>4, <3>5 DEF Gone, ForceRemove
      <3>8. RunInv'
        BY <3>2, <3>4
      <3>9. RecordInv'
        BY <3>1, <3>3, <3>4 DEF Gone
      <3> QED BY <3>6, <3>7, <3>8, <3>9
    <2>2. CASE run' = run /\ UNCHANGED inside
      BY <1>7, <2>2 DEF ForceRemove, Call
    <2> QED BY <1>7, <2>1, <2>2 DEF ForceRemove, Call
  <1>8. CASE CollectArtifacts
    <2>1. CASE Raise
      <3>1. /\ UNCHANGED <<run, record, outputs, inside>> /\ step' = "raised"
            /\ workspace' \in BOOLEAN
        BY <1>8, <2>1 DEF CollectArtifacts, Raise
      <3> QED BY <3>1
    <2>2. CASE \E artifact_error \in BOOLEAN :
                 Return([ status    |-> Status(run, artifact_error),
                          exit_code |-> run.returncode,
                          error     |-> HasError(run, artifact_error),
                          artifacts |-> IF artifact_error THEN "none" ELSE outputs ])
      <3>1. PICK artifact_error \in BOOLEAN :
                 Return([ status    |-> Status(run, artifact_error),
                          exit_code |-> run.returncode,
                          error     |-> HasError(run, artifact_error),
                          artifacts |-> IF artifact_error THEN "none" ELSE outputs ])
        BY <2>2
      <3> DEFINE r == [ status    |-> Status(run, artifact_error),
                        exit_code |-> run.returncode,
                        error     |-> HasError(run, artifact_error),
                        artifacts |-> IF artifact_error THEN "none" ELSE outputs ]
      <3>2. /\ r \in ExecutionRecord
            /\ ExecutionGate(r) \/ SolverReads(r) =>
                 /\ run.completion_observed /\ r.artifacts = "all"
                 /\ tampered \/ EndedWell
        BY <1>8, ReturnedRecord DEF CollectArtifacts
      <3>3. UNCHANGED <<inside, run, outputs>> /\ step' \in {"returned", "raised"}
            /\ workspace' \in BOOLEAN
        BY <1>8, <3>1 DEF CollectArtifacts, Return
      <3>4. record' \in {record, r}
        BY <3>1 DEF Return
      <3> HIDE DEF r
      <3>5. RecordInv' /\ record' \in ExecutionRecord
        BY <3>2, <3>3, <3>4
      <3> QED BY <3>3, <3>5
    <2> QED BY <1>8, <2>1, <2>2 DEF CollectArtifacts
  <1> QED BY <1>1, <1>2, <1>3, <1>4, <1>5, <1>6, <1>7, <1>8 DEF Execute

LEMMA StepInv == Inv /\ [Next]_vars => Inv'
  <1> SUFFICES ASSUME Inv, [Next]_vars PROVE Inv'
    OBVIOUS
  <1>1. CASE Crash
    BY <1>1 DEF Crash, Inv, TypeOK, ContainerInv, RunInv, VerdictInv, RecordInv,
       GatedRunReallySucceeded, SolvedRunReallySucceeded, Copied, EndedWell, inside, files,
       Steps, Ended
  <1>2. CASE UNCHANGED vars
    BY <1>2 DEF vars, executor, inside, files, EndedWell, Inv, TypeOK, ContainerInv, RunInv, VerdictInv,
       RecordInv, GatedRunReallySucceeded, SolvedRunReallySucceeded, Untouched, Copied
  <1> QED BY <1>1, <1>2, ExecuteInv, EnvironmentInv, TamperingInv DEF Next

THEOREM InvariantHolds == Spec => []Inv
  BY InitInv, StepInv, PTL DEF Spec

\* The executor's and the container's variables keep their types.
THEOREM SandboxTypeCorrectness == Spec => []TypeOK
  <1>1. Inv => TypeOK
    BY DEF Inv
  <1> QED BY <1>1, InvariantHolds, PTL

\* A run that the EXECUTION gate of data/quality_gates.py lets through was copied
\* whole, whatever docker answered on the way, and ended with exit code zero if it
\* has left the completion marker of sandbox/executor.py alone.
THEOREM GateCorrectness == Spec => []GatedRunReallySucceeded
  <1>1. Inv => GatedRunReallySucceeded
    BY DEF Inv, RecordInv
  <1> QED BY <1>1, InvariantHolds, PTL

\* A result file that a solver reads out of a SUCCEEDED run was copied whole, and
\* comes from a program that ended with exit code zero if it has left the marker alone.
THEOREM SolvedRunCorrectness == Spec => []SolvedRunReallySucceeded
  <1>1. Inv => SolvedRunReallySucceeded
    BY DEF Inv, RecordInv
  <1> QED BY <1>1, InvariantHolds, PTL

\* Once the removal of sandbox/executor.py _force_remove has succeeded, no program
\* of the run goes on.
THEOREM RemovalCorrectness == Spec => []NothingKeepsRunning
  <1>1. Inv => NothingKeepsRunning
    BY DEF Inv, ContainerInv, RunInv, NothingKeepsRunning
  <1> QED BY <1>1, InvariantHolds, PTL

-----------------------------------------------------------------------------
(* The attempts at solving a model.                                          *)

\* What is stored while nothing was altered: the chain of the answer, with a
\* record of the sandbox that tells whether the program ended well.
RowsInv ==
  kept.stored /\ ~kept.altered =>
    \E origin, solver, sources, executed, e :
      /\ rows = Rows(Chain(kept.answer, origin, solver, sources, executed, e))
      /\ e.status = "SUCCEEDED" /\ e.exit_code = 0
           /\ kept.answer.status # "EXECUTION_ERROR" => RunBehind(kept)

\* Only generated programs write to the marker.
TamperInv == phase = "run" /\ tampered => Generated

SolveInv ==
  /\ SolveTypeOK
  /\ Inv
  /\ TamperInv
  /\ AcceptedResultIsReal
  /\ RowsInv
  /\ TrustedResultIsAsSolved


LEMMA FreshSandbox == StartSandbox => Inv'
  <1>1. StartSandbox => Init'
    BY DEF StartSandbox, Init
  <1> QED BY <1>1, InitInv, PTL

\* Whatever the call does, the invariants of the sandbox stay.
LEMMA SandboxStep == Inv /\ [SolveNext]_solveVars => Inv'
  <1> SUFFICES ASSUME Inv, [SolveNext]_solveVars PROVE Inv'
    OBVIOUS
  <1>1. UNCHANGED sandbox => Inv'
    BY StepInv DEF sandbox, vars
  <1>2. CASE SelectAdapter
    BY <1>1, <1>2, FreshSandbox DEF SelectAdapter
  <1>3. CASE AcceptProgram
    BY <1>3, FreshSandbox DEF AcceptProgram
  <1>4. CASE ExecuteProgram
    BY <1>4, StepInv DEF ExecuteProgram, Next
  <1>5. CASE ContainerStep
    BY <1>5, StepInv DEF ContainerStep, Next
  <1>6. CASE SolveCrash
    <2>1. CASE phase = "run" /\ step \notin Ended
      <3>1. Crash
        BY <1>6, <2>1 DEF SolveCrash, Crash
      <3> QED BY <3>1, StepInv DEF Next
    <2>2. CASE ~(phase = "run" /\ step \notin Ended)
      BY <1>1, <1>6, <2>2 DEF SolveCrash, sandbox, executor
    <2> QED BY <2>1, <2>2
  <1> QED
    BY <1>1, <1>2, <1>3, <1>4, <1>5, <1>6
    DEF SolveNext, Solve, RefuseStage, RefuseModel, SelectGenerated, WriteProgram,
        WriteNothing, RefuseProgram, SandboxRaised, Store, Conflict, ResultRefused,
        ForeignRevision, Alter, solveVars

\* The answers of the adapters carry complete assignments or none.
LEMMA AdapterAnswerShape ==
  ASSUME NEW solver, NEW m, NEW budget, NEW r \in AdapterResults(solver, m, budget)
  PROVE  \E status : \E values \in Values : r = AdapterResult(status, values)
  <1>1. Candidates(m) \cup {"none"} \subseteq Values
    BY DEF Candidates, Values
  <1>2. CASE solver = "ORTOOLS"
    <2>1. PICK o \in OrtoolsOutcomes(m) :
                 r = AdapterResult(OrtoolsStatus(o, budget), o.values)
      BY <1>2 DEF AdapterResults
    <2>2. o.values \in Values
      BY <1>1 DEF OrtoolsOutcomes
    <2> QED BY <2>1, <2>2
  <1>3. CASE solver = "GUROBI"
    <2>1. PICK o \in GurobiOutcomes(m) : r = AdapterResult(GurobiStatus(o), o.values)
      BY <1>3 DEF AdapterResults
    <2>2. o.values \in Values
      BY <1>1 DEF GurobiOutcomes
    <2> QED BY <2>1, <2>2
  <1>4. CASE solver \notin {"ORTOOLS", "GUROBI"}
    <2>1. CASE solver = "SCIPY" /\ m.family = "nonlinear_programming"
      <3>1. PICK o \in NonlinearOutcomes(m) :
                   r = AdapterResult(NonlinearStatus(m, o), o.values)
        BY <2>1 DEF AdapterResults
      <3>2. o.values \in Values
        BY <1>1 DEF NonlinearOutcomes
      <3> QED BY <3>1, <3>2
    <2>2. CASE ~(solver = "SCIPY" /\ m.family = "nonlinear_programming")
      <3>1. PICK o \in LinearOutcomes(m) : r = AdapterResult(LinearStatus(o), o.values)
        BY <1>4, <2>2 DEF AdapterResults
      <3>2. o.values \in Values
        BY <1>1 DEF LinearOutcomes
      <3> QED BY <3>1, <3>2
    <2> QED BY <2>1, <2>2
  <1> QED BY <1>2, <1>3, <1>4

\* Only a satisfying assignment is recomputed as feasible, and can be written
\* down.
LEMMA FeasibleValues ==
  ASSUME NEW values \in Values, IsFeasible(values), values # "nonfinite"
  PROVE  values = "satisfying"
  BY DEF IsFeasible, CheckFeasibility, Values

\* An answer that SolverResult lets through is right if it claims a solution.
LEMMA AnswerIsRight ==
  ASSUME NEW r \in Answers, Constructible(r), r.status \in {"OPTIMAL", "FEASIBLE"}
  PROVE  r.values = "satisfying" /\ (request.model.objective => r.objective = "right")
  <1>1. r.feasible /\ r.values # "nonfinite"
    BY DEF Constructible, Truthful
  <1>2. r # Failure
    <2>1. Failure.status \notin {"OPTIMAL", "FEASIBLE"}
      BY DEF Failure, FailureStatus, SolverResult
    <2> QED BY <2>1
  <1>3. CASE Generated
    <2>1. PICK p \in Claims : r = GeneratedAnswer(request.model, p)
      BY <1>2, <1>3 DEF Answers, GeneratedAnswers
    <2>2. /\ r.values = p.values /\ r.objective = p.objective
          /\ r.feasible = (p.is_feasible /\ IsFeasible(p.values)
                              /\ SemanticValid(request.model, p))
      BY <2>1 DEF GeneratedAnswer
    <2>3. p.values \in Values
      BY DEF Claims
    <2>4. IsFeasible(p.values) /\ ObjectiveMatches(request.model, p)
      BY <1>1, <2>2 DEF SemanticValid
    <2> QED BY <1>1, <2>2, <2>3, <2>4, FeasibleValues DEF ObjectiveMatches
  <1>4. CASE ~Generated
    <2>1. r \in AdapterAnswers
      BY <1>2, <1>4 DEF Answers
    <2>2. PICK status : \E values \in Values : r = AdapterResult(status, values)
      BY <2>1, AdapterAnswerShape DEF AdapterAnswers
    <2>3. PICK values \in Values : r = AdapterResult(status, values)
      BY <2>2
    <2>4. /\ r.values = values /\ r.feasible = IsFeasible(values)
          /\ r.objective = IF values = "none" THEN "none" ELSE "right"
      BY <2>3 DEF AdapterResult, SolverResult
    <2> QED BY <1>1, <2>4, FeasibleValues
  <1> QED BY <1>3, <1>4

\* A result other than the failures comes from a program that ended well.
LEMMA AnswerIsReal ==
  ASSUME Inv, NEW r \in Answers, record.status = "SUCCEEDED",
         r.status # "EXECUTION_ERROR"
  PROVE  record.artifacts = "all" /\ (tampered \/ EndedWell)
  <1>1. Failure.status = "EXECUTION_ERROR"
    BY DEF Failure, FailureStatus, SolverResult
  <1>2. SolverReads(record)
    BY <1>1 DEF Answers
  <1> QED BY <1>2 DEF Inv, RecordInv, SolvedRunReallySucceeded

LEMMA SolveInitInv == SolveInit => SolveInv
  <1> SUFFICES ASSUME SolveInit PROVE SolveInv
    OBVIOUS
  <1>1. SolveTypeOK
    BY AttemptsAssumption DEF SolveInit, SolveTypeOK, ExecutionStrategy, NothingKept
  <1>2. Inv
    BY InitInv DEF SolveInit
  <1>3. AcceptedResultIsReal /\ RowsInv /\ TrustedResultIsAsSolved /\ TamperInv
    BY DEF SolveInit, NothingKept, AcceptedResultIsReal, RowsInv, TrustedResultIsAsSolved,
       TamperInv
  <1> QED BY <1>1, <1>2, <1>3 DEF SolveInv

\* The families a route may choose are families of solvers.
LEMMA CandidateFamilies ==
  ASSUME SolveTypeOK, NEW available, NEW f \in Candidate(available)
  PROVE  f \in SolverFamily
  <1>1. /\ request.model.preferred \in Seq(SolverFamily)
        /\ f \in Members(Preference(request.model))
    BY ModelsAssumption DEF SolveTypeOK, MathematicalModel, Candidate, Ranked
  <1>2. DefaultPreferences(request.model.family) \in Seq(SolverFamily)
    <2>1. /\ <<"SCIPY_HIGHS", "GUROBI">> \in Seq(SolverFamily)
          /\ <<"GUROBI", "SCIPY_MILP", "ORTOOLS_CP_SAT">> \in Seq(SolverFamily)
          /\ <<"ORTOOLS_CP_SAT", "GUROBI", "SCIPY_MILP">> \in Seq(SolverFamily)
          /\ <<"SCIPY_MINIMIZE">> \in Seq(SolverFamily)
          /\ << >> \in Seq(SolverFamily)
      BY DEF SolverFamily
    <2> QED BY <2>1 DEF DefaultPreferences
  <1>3. Preference(request.model) \in Seq(SolverFamily)
    BY <1>1, <1>2 DEF Preference, PlannedFamilies
  <1> QED BY <1>1, <1>3 DEF Members

\* A step that leaves the store alone, and forgets at most what was kept.
LEMMA StoreUntouched ==
  ASSUME SolveInv, UNCHANGED request,
         UNCHANGED <<stored, chosen>> \/ (kept' = NothingKept /\ rows' = NoRows)
  PROVE  AcceptedResultIsReal' /\ RowsInv' /\ TrustedResultIsAsSolved'
  <1>1. CASE UNCHANGED <<stored, chosen>>
    BY <1>1 DEF stored, SolveInv, AcceptedResultIsReal, RowsInv, TrustedResultIsAsSolved,
       RunBehind, Generated
  <1>2. CASE kept' = NothingKept
    BY <1>2 DEF NothingKept, AcceptedResultIsReal, RowsInv, TrustedResultIsAsSolved
  <1> QED BY <1>1, <1>2

LEMMA SolveTypes == SolveTypeOK /\ Inv /\ [SolveNext]_solveVars => SolveTypeOK'
  <1> SUFFICES ASSUME SolveTypeOK, Inv, [SolveNext]_solveVars PROVE SolveTypeOK'
    OBVIOUS
  <1> USE DEF SolveTypeOK, Closed, RaiseSolve, RunsOfCodeAgent
  <1>1. CASE Load
    <2>1. /\ \A fact \in {kept'.passed, kept'.copied, kept'.real, kept'.tampered} :
                fact \in BOOLEAN
          /\ base' \in Nat
      BY <1>1 DEF Load, NothingKept
    <2>2. CASE RefuseStage
      BY <1>1, <2>1, <2>2 DEF RefuseStage, Load
    <2>3. CASE SelectAdapter
      <3>1. PICK f \in SolverFamily :
              /\ chosen' = [strategy |-> "DETERMINISTIC", family |-> f]
              /\ \/ phase' = "run" /\ UNCHANGED code_runs
                 \/ RaiseSolve(0)
        BY <2>3, CandidateFamilies DEF SelectAdapter
      <3> QED BY <1>1, <2>1, <3>1 DEF Load, ExecutionStrategy
    <2>4. CASE RefuseModel
      BY <1>1, <2>1, <2>4 DEF RefuseModel, Load
    <2>5. CASE SelectGenerated
      BY <1>1, <2>1, <2>5 DEF SelectGenerated, Load, ExecutionStrategy
    <2> QED
      BY <1>1, <2>2, <2>3, <2>4, <2>5
      DEF SolveNext, Solve, Load, WriteProgram, WriteNothing, RefuseProgram, AcceptProgram,
          ExecuteProgram, SandboxRaised, Store, Conflict, ResultRefused, ContainerStep,
          ForeignRevision, SolveCrash, Alter, solveVars, call, stored
  <1>2. CASE WriteProgram
    BY <1>2 DEF WriteProgram, stored
  <1>3. CASE WriteNothing
    BY <1>3 DEF WriteNothing, stored, call
  <1>4. CASE RefuseProgram
    BY <1>4 DEF RefuseProgram, stored, call
  <1>5. CASE AcceptProgram
    BY <1>5 DEF AcceptProgram, stored, call
  <1>6. CASE ExecuteProgram
    BY <1>6 DEF ExecuteProgram, stored, call
  <1>7. CASE SandboxRaised
    BY <1>7 DEF SandboxRaised, stored, call
  <1>8. CASE Store
    <2>1. PICK r \in Answers :
            LET chain  == ChainOf(r)
                passed == SolveGate(request.model, chain) IN
              /\ kept' = [ stored |-> TRUE, altered |-> FALSE, answer |-> r,
                           passed |-> passed, copied |-> record.artifacts = "all",
                           real |-> EndedWell, tampered |-> tampered ]
              /\ current' = [ version |-> current.version + 1,
                              stage |-> IF passed THEN "SOLVE" ELSE current.stage ]
              /\ phase' = IF passed THEN "solved" ELSE IF Retries THEN "load" ELSE "rejected"
              /\ attempt' = IF ~passed /\ Retries THEN attempt + 1 ELSE attempt
      BY <1>8 DEF Store
    <2>2. \A fact \in {kept'.passed, kept'.copied, kept'.real, kept'.tampered} :
            fact \in BOOLEAN
      BY <2>1 DEF SolveGate, EndedWell, Inv, TypeOK
    <2>3. attempt' \in 1..MaxAttempts
      BY <2>1, AttemptsAssumption DEF Retries
    <2>4. /\ current' \in [version : Nat, stage : {"MODEL", "SOLVE"}]
          /\ phase' \in {"solved", "load", "rejected"}
      BY <2>1
    <2>5. code_runs' \in [finished : Nat, recorded : Nat]
      BY <1>8 DEF Store
    <2> QED BY <1>8, <2>2, <2>3, <2>4, <2>5 DEF Store
  <1>9. CASE Conflict
    BY <1>9 DEF Conflict, stored, call
  <1>10. CASE ResultRefused
    BY <1>10 DEF ResultRefused, stored, call
  <1>11. CASE ContainerStep
    BY <1>11 DEF ContainerStep, stored, call
  <1>12. CASE ForeignRevision
    BY <1>12 DEF ForeignRevision, stored, call
  <1>13. CASE SolveCrash
    BY <1>13 DEF SolveCrash, stored, call
  <1>14. CASE Alter
    BY <1>14 DEF Alter, call
  <1>15. CASE UNCHANGED solveVars
    BY <1>15 DEF solveVars, stored, call
  <1> QED
    BY <1>1, <1>2, <1>3, <1>4, <1>5, <1>6, <1>7, <1>8, <1>9, <1>10, <1>11, <1>12, <1>13,
       <1>14, <1>15
    DEF SolveNext, Solve, RefuseStage, SelectAdapter, RefuseModel, SelectGenerated

-----------------------------------------------------------------------------
(* Alterations.                                                              *)

\* What the verifier looks at for what is trusted, if it finds no issue.
LEMMA ValidRows ==
  ASSUME NEW q, EvidenceValid(q), q.unreadable \subseteq RowNames
  PROVE  /\ q.payload.solver.status = q.payload.result.status
         /\ q.payload.solver.objective = q.payload.result.objective
         /\ q.payload.result.outputs \in {"none", q.payload.answer.values}
         /\ q.payload.execution.status = "SUCCEEDED" /\ q.payload.execution.exit_code = 0
  <1> DEFINE absent == Absent(q)
             c == q.payload
  <1>1. ParseIssues(absent) = {} /\ Verify(c, absent) = {}
    BY DEF EvidenceValid
  <1>2. absent \subseteq RowNames
    BY DEF Absent, Refused, Flag, RowNames
  <1>3. absent = {}
    BY <1>1, <1>2 DEF ParseIssues, Flag, RowNames
  <1>4. RunIssues(c, {}) = {} /\ ExecutionIssues(c, {}) = {}
    BY <1>1, <1>3 DEF Verify
  <1>5. /\ {c.solver.status, c.answer.status} = {c.result.status}
        /\ {c.solver.objective, c.answer.objective} = {c.result.objective}
        /\ c.result.outputs \in {"none", c.answer.values}
    BY <1>4 DEF RunIssues, Flag
  <1>6. c.execution.status = "SUCCEEDED" /\ c.execution.exit_code = 0
    BY <1>4 DEF ExecutionIssues, Flag
  <1> QED BY <1>5, <1>6

\* An alteration changes at most one fact of the payloads.
LEMMA AlteredPayload ==
  ASSUME NEW r, NEW origin, NEW solver, NEW sources, NEW executed, NEW e,
         rows = Rows(Chain(r, origin, solver, sources, executed, e)),
         Alter
  PROVE  /\ rows'.unreadable \subseteq RowNames
         /\ \/ rows'.payload = rows.payload
            \/ \E name, field : rows'.payload = Put(rows.payload, name, field)
  <1>1. DOMAIN rows = {"payload", "columns", "unreadable"} /\ rows.unreadable = {}
    BY DEF Rows
  <1>2. ASSUME NEW rs, DOMAIN rs = {"payload", "columns", "unreadable"},
               NEW name, NEW field
        PROVE  /\ InPayload(rs, name, field).payload = Put(rs.payload, name, field)
               /\ InPayload(rs, name, field).unreadable = rs.unreadable
               /\ DOMAIN InPayload(rs, name, field) = DOMAIN rs
               /\ InColumns(rs, name, field).payload = rs.payload
               /\ InColumns(rs, name, field).unreadable = rs.unreadable
    BY <1>2 DEF InPayload, InColumns
  <1>3. ASSUME NEW name \in RowNames, rows' = [rows EXCEPT !.unreadable = {name}]
        PROVE  rows'.payload = rows.payload /\ rows'.unreadable = {name}
    BY <1>1, <1>3
  <1>4. ASSUME NEW name, NEW field,
               rows' \in {InPayload(rows, name, field), InColumns(rows, name, field),
                         InColumns(InPayload(rows, name, field), name, field)}
        PROVE  /\ rows'.unreadable = {}
               /\ rows'.payload \in {rows.payload, Put(rows.payload, name, field)}
    BY <1>1, <1>2, <1>4
  <1> QED BY <1>3, <1>4 DEF Alter

\* ... so that of two facts of different records one is as it was, and an altered
\* status or exit code is not that of a success.
LEMMA PutLeaves ==
  ASSUME NEW r, NEW origin, NEW solver, NEW sources, NEW executed, NEW e,
         NEW p, p = Chain(r, origin, solver, sources, executed, e),
         NEW name, NEW field, NEW q, q = Put(p, name, field)
  PROVE  /\ q.result = p.result \/ (q.solver = p.solver /\ q.answer = p.answer)
         /\ q.execution.status = "SUCCEEDED" => p.execution.status = "SUCCEEDED"
         /\ q.execution.exit_code = 0 => p.execution.exit_code = 0
  <1>1. /\ DOMAIN p = {"result", "solver", "answer", "execution", "model", "program"}
        /\ DOMAIN p.execution = {"run_id", "origin", "digest", "program_id", "code_hash",
                                 "bundle", "status", "exit_code", "is_mock"}
    BY DEF Chain
  <1>2. ASSUME NEW x \in DOMAIN p, x # name PROVE q[x] = p[x]
    BY <1>2 DEF Put
  <1>3. CASE name = "execution"
    <2>1. q.execution = [p.execution EXCEPT ![field] = Other(field)]
      BY <1>1, <1>3 DEF Put
    <2>2. Other("status") # "SUCCEEDED" /\ Other("exit_code") # 0
      BY DEF Other, NoCode
    <2>3. \A x \in {"status", "exit_code"} :
            q.execution[x] = IF x = field THEN Other(x) ELSE p.execution[x]
      BY <1>1, <2>1
    <2> QED BY <1>1, <1>2, <1>3, <2>2, <2>3
  <1>4. CASE name # "execution"
    BY <1>1, <1>2, <1>4
  <1> QED BY <1>3, <1>4

LEMMA AlteredIsTrusted ==
  ASSUME SolveInv, Alter
  PROVE  TrustedResultIsAsSolved'
  <1>1. /\ kept'.stored = kept.stored /\ kept'.answer = kept.answer
        /\ RunBehind(kept') = RunBehind(kept) /\ chosen' = chosen
    BY DEF Alter, RunBehind, call
  <1> SUFFICES ASSUME kept.stored, EvidenceValid(rows')
               PROVE  /\ kept.answer.status # "EXECUTION_ERROR" => RunBehind(kept)
                      /\ rows'.payload.result.status = kept.answer.status
                      /\ rows'.payload.result.objective = kept.answer.objective
                      /\ rows'.payload.result.outputs \in {"none", kept.answer.values}
    BY <1>1 DEF TrustedResultIsAsSolved, RunBehind, Generated
  <1>2. PICK origin, solver, sources, executed, e :
          /\ rows = Rows(Chain(kept.answer, origin, solver, sources, executed, e))
          /\ e.status = "SUCCEEDED" /\ e.exit_code = 0
               /\ kept.answer.status # "EXECUTION_ERROR" => RunBehind(kept)
    BY DEF Alter, SolveInv, RowsInv
  <1> DEFINE p == Chain(kept.answer, origin, solver, sources, executed, e)
             q == rows'.payload
  <1>3. rows.payload = p
    BY <1>2 DEF Rows
  <1>4. /\ p.result.status = kept.answer.status /\ p.solver.status = kept.answer.status
        /\ p.result.objective = kept.answer.objective
        /\ p.solver.objective = kept.answer.objective
        /\ p.result.outputs = kept.answer.values /\ p.answer.values = kept.answer.values
        /\ p.execution.status = e.status /\ p.execution.exit_code = e.exit_code
    BY DEF Chain
  <1>5. /\ rows'.unreadable \subseteq RowNames
        /\ q = p \/ \E name, field : q = Put(p, name, field)
    BY <1>2, <1>3, AlteredPayload
  <1>6. /\ q.solver.status = q.result.status /\ q.solver.objective = q.result.objective
        /\ q.result.outputs \in {"none", q.answer.values}
        /\ q.execution.status = "SUCCEEDED" /\ q.execution.exit_code = 0
    BY <1>5, ValidRows
  <1> HIDE DEF p, q
  <1>7. /\ q.result = p.result \/ (q.solver = p.solver /\ q.answer = p.answer)
        /\ q.execution.status = "SUCCEEDED" => p.execution.status = "SUCCEEDED"
        /\ q.execution.exit_code = 0 => p.execution.exit_code = 0
    BY <1>5, PutLeaves DEF p
  <1> QED BY <1>2, <1>4, <1>6, <1>7 DEF q

-----------------------------------------------------------------------------

\* What is stored is right when it is stored.
LEMMA StoredIsRight ==
  ASSUME SolveInv, Store
  PROVE  AcceptedResultIsReal' /\ RowsInv' /\ TrustedResultIsAsSolved'
  <1>1. PICK r \in Answers :
          /\ Constructible(r)
          /\ rows' = Rows(ChainOf(r))
          /\ kept' = [ stored |-> TRUE, altered |-> FALSE, answer |-> r,
                       passed |-> SolveGate(request.model, ChainOf(r)),
                       copied |-> record.artifacts = "all", real |-> EndedWell,
                       tampered |-> tampered ]
    BY DEF Store
  <1>2. request' = request
    BY DEF Store
  <1> DEFINE origin == chosen.strategy
             solver == IF Generated THEN "claimed" ELSE SolverOf(chosen.family)
             executed == IF bundle = "same" THEN "sources" ELSE "renamed"
             c == Chain(r, origin, solver, "sources", executed, record)
  <1>3. ChainOf(r) = c
    BY DEF ChainOf
  <1>4. /\ c.answer.status = r.status /\ c.execution.status = record.status
        /\ c.result.status = r.status /\ c.result.objective = r.objective
        /\ c.result.outputs = r.values
        /\ c.execution.exit_code = record.exit_code
    BY DEF Chain
  <1>5. record.status = "SUCCEEDED" /\ r.status # "EXECUTION_ERROR" => RunBehind(kept)'
    <2>1. /\ kept'.copied = (record.artifacts = "all") /\ kept'.real = EndedWell
          /\ kept'.tampered = tampered /\ chosen' = chosen /\ phase = "run"
      BY <1>1 DEF Store
    <2>2. tampered => Generated
      BY <2>1 DEF SolveInv, TamperInv
    <2> QED BY <2>1, <2>2, AnswerIsReal DEF SolveInv, RunBehind, Generated
  <1>6. AcceptedResultIsReal'
    <2> SUFFICES ASSUME SolveGate(request.model, c)
                 PROVE  /\ RunBehind(kept)'
                        /\ r.status \in {"OPTIMAL", "FEASIBLE"} =>
                             /\ r.values = "satisfying"
                             /\ request.model.objective => r.objective = "right"
      BY <1>1, <1>2, <1>3 DEF AcceptedResultIsReal
    <2>1. r.status \in TerminalStatus /\ record.status = "SUCCEEDED"
      BY <1>4 DEF SolveGate
    <2>2. RunBehind(kept)'
      BY <1>5, <2>1 DEF TerminalStatus
    <2> QED BY <1>1, <2>2, AnswerIsRight
  <1>7. RowsInv'
    BY <1>1, <1>3, <1>5 DEF RowsInv
  <1>8. TrustedResultIsAsSolved'
    <2> SUFFICES ASSUME EvidenceValid(Rows(c))
                 PROVE  r.status # "EXECUTION_ERROR" => RunBehind(kept)'
      BY <1>1, <1>3, <1>4 DEF TrustedResultIsAsSolved, Rows
    <2>1. Rows(c).unreadable = {} /\ Rows(c).payload = c
      BY DEF Rows
    <2>2. record.status = "SUCCEEDED"
      BY <1>4, <2>1, ValidRows
    <2> QED BY <1>5, <2>2
  <1> QED BY <1>6, <1>7, <1>8

LEMMA TamperStep == SolveInv /\ [SolveNext]_solveVars => TamperInv'
  <1> SUFFICES ASSUME SolveInv, [SolveNext]_solveVars, phase' = "run", tampered'
               PROVE  Generated'
    BY DEF TamperInv
  <1>1. Execute => tampered' = tampered
    BY DEF Execute, Prepare, InspectImage, StartContainer, Started, WaitForCompletion,
       CollectLogs, CopyOutputs, ForceRemove, CollectArtifacts, inside, files
  <1>2. Environment => tampered' = tampered
    BY DEF Environment, ProgramEnds, WrapperOpensMarker, WrapperFillsMarker, ContainerStops,
       LateCreation, files
  <1>3. CASE phase = "run" /\ tampered' = tampered /\ chosen' = chosen
    BY <1>3 DEF SolveInv, TamperInv, Generated
  <1>4. CASE ExecuteProgram
    BY <1>1, <1>3, <1>4 DEF ExecuteProgram, call
  <1>5. CASE ContainerStep
    BY <1>2, <1>3, <1>5 DEF ContainerStep, call, Generated
  <1>6. CASE SelectAdapter \/ AcceptProgram
    BY <1>6 DEF SelectAdapter, AcceptProgram, StartSandbox, RaiseSolve
  <1> QED
    BY <1>3, <1>4, <1>5, <1>6
    DEF SolveNext, Solve, RefuseStage, RefuseModel, SelectGenerated, WriteProgram,
        WriteNothing, RefuseProgram, SandboxRaised, Store, Conflict, ResultRefused,
        ForeignRevision, SolveCrash, Alter, RaiseSolve, solveVars, sandbox, inside, files, call

LEMMA SolveStepInv == SolveInv /\ [SolveNext]_solveVars => SolveInv'
  <1> SUFFICES ASSUME SolveInv, [SolveNext]_solveVars PROVE SolveInv'
    OBVIOUS
  <1>1. SolveTypeOK' /\ Inv' /\ TamperInv'
    BY SolveTypes, SandboxStep, TamperStep DEF SolveInv
  <1>2. CASE Store
    BY <1>1, <1>2, StoredIsRight DEF SolveInv
  <1>3. CASE Alter
    <2>1. /\ kept'.altered /\ kept'.passed = kept.passed
          /\ RunBehind(kept') = RunBehind(kept)
          /\ kept'.answer = kept.answer /\ UNCHANGED <<request, chosen>>
      BY <1>3 DEF Alter, call, RunBehind
    <2>2. AcceptedResultIsReal' /\ RowsInv'
      BY <2>1 DEF SolveInv, AcceptedResultIsReal, RowsInv, RunBehind, Generated
    <2> QED BY <1>1, <1>3, <2>2, AlteredIsTrusted DEF SolveInv
  <1>4. CASE UNCHANGED request
               /\ (UNCHANGED <<stored, chosen>> \/ (kept' = NothingKept /\ rows' = NoRows))
    BY <1>1, <1>4, StoreUntouched DEF SolveInv
  <1> QED
    BY <1>2, <1>3, <1>4
    DEF SolveNext, Solve, Load, RefuseStage, SelectAdapter, RefuseModel, SelectGenerated,
        WriteProgram, WriteNothing, RefuseProgram, AcceptProgram, ExecuteProgram,
        SandboxRaised, Conflict, ResultRefused, ContainerStep, ForeignRevision, SolveCrash,
        solveVars, call

THEOREM SolveInvariantHolds == SolveSpec => []SolveInv
  BY SolveInitInv, SolveStepInv, PTL DEF SolveSpec

\* The variables of mathematical/workflow.py solve keep their types.
THEOREM SolveTypeCorrectness == SolveSpec => []SolveTypeOK
  <1>1. SolveInv => SolveTypeOK
    BY DEF SolveInv
  <1> QED BY <1>1, SolveInvariantHolds, PTL

\* What quality_gates.py solve_quality_gate accepts was really executed, as far as
\* the marker of a generated program tells, and a claim of feasibility in it holds
\* of the model.
THEOREM AcceptanceCorrectness == SolveSpec => []AcceptedResultIsReal
  <1>1. SolveInv => AcceptedResultIsReal
    BY DEF SolveInv
  <1> QED BY <1>1, SolveInvariantHolds, PTL

\* What mathematical/repository.py verify_result_evidence calls valid is what the
\* solver answered, and rests on a run as the last theorem says.
THEOREM EvidenceCorrectness == SolveSpec => []TrustedResultIsAsSolved
  <1>1. SolveInv => TrustedResultIsAsSolved
    BY DEF SolveInv
  <1> QED BY <1>1, SolveInvariantHolds, PTL

\* The removal of a container is as thorough for each attempt at solving.
THEOREM SolveRemovalCorrectness == SolveSpec => []NothingKeepsRunning
  <1>1. SolveInv => NothingKeepsRunning
    BY DEF SolveInv, Inv, ContainerInv, RunInv, NothingKeepsRunning
  <1> QED BY <1>1, SolveInvariantHolds, PTL
===============================================================================
