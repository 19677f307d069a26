------------------------------ MODULE SandboxRun -------------------------------
(***************************************************************************)
(* One call of SandboxExecutor.execute.  The executor prepares a workspace *)
(* on the host, starts a detached container whose wrapper runs the program *)
(* and writes its exit code to a marker file, polls for that file, collects*)
(* logs and outputs, removes the container, and turns what it saw into an  *)
(* ExecutionRecord.  The marker lies beside the outputs, where the program *)
(* may write as the wrapper does, and is believed whoever wrote it.  Each  *)
(* docker command is a call with a time limit that may answer, refuse, fail*)
(* to run or time out, while the container goes on by itself.  Runs share  *)
(* nothing: names and directories carry the run id.                        *)
(***************************************************************************)
EXTENDS Naturals

CONSTANT ExitCodes   \* the exit codes a program may end with, or write down

ASSUME ExitCodesAssumption == ExitCodes \subseteq 0..255

\* No exit code; 124 stands for a command that timed out.
NoCode == 256

Codes == 0..256

\* What a marker may say: a code, something that is not a code, or nothing, as
\* there is no file.
NoMarker == 257

Contents == ExitCodes \cup {NoCode}

VARIABLES
  step,        \* what the executor does next, or how the call ended
  workspace,   \* whether the run's directory exists on the host
  container,   \* the container of the run
  process,     \* the program inside it
  code,        \* the exit code of the program
  wrapper,     \* the shell around it; done when it has been killed, too
  marker,      \* the marker file inside the container
  tampered,    \* history: the program itself has written or removed that file
  outputs,     \* what has been extracted from the container: none, part or all
  run,         \* the local variables of the call
  record       \* the record that was returned

executor == <<step, workspace, outputs, run, record>>
files == <<wrapper, marker, tampered>>
inside == <<container, process, code, files>>
vars == <<executor, inside>>

Ended == {"returned", "raised", "crashed"}

Steps == {"prepare", "inspect", "start", "wait", "logs", "copy", "remove",
          "collect"} \cup Ended

ExecutionStatus == {"SUCCEEDED", "FAILED", "TIMEOUT", "UNAVAILABLE", "REJECTED"}

Outputs == {"none", "part", "all"}

Run ==
  [ returncode          : Codes,
    timed_out           : BOOLEAN,
    runner_error        : BOOLEAN,
    copy_error          : BOOLEAN,
    container_started   : BOOLEAN,
    completion_observed : BOOLEAN,
    removed             : BOOLEAN ]

NoRun ==
  [ returncode |-> NoCode, timed_out |-> FALSE, runner_error |-> FALSE,
    copy_error |-> FALSE, container_started |-> FALSE,
    completion_observed |-> FALSE, removed |-> FALSE ]

NoRecord ==
  [status |-> "UNAVAILABLE", exit_code |-> NoCode, error |-> FALSE, artifacts |-> "none"]

ExecutionRecord ==
  [status : ExecutionStatus, exit_code : Codes, error : BOOLEAN, artifacts : Outputs]

Init ==
  /\ step = "prepare"
  /\ workspace = FALSE
  /\ container = "absent" /\ process = "none" /\ code = NoCode
  /\ wrapper = "waits" /\ marker = NoMarker /\ tampered = FALSE
  /\ outputs = "none"
  /\ run = NoRun
  /\ record = NoRecord

-----------------------------------------------------------------------------
(* The container, by itself.                                                 *)

\* The program ends, or is killed by a limit, with some exit code.
ProgramEnds ==
  /\ container = "running" /\ process = "running"
  /\ process' = "ended"
  /\ code' \in ExitCodes
  /\ UNCHANGED <<executor, container, files>>

\* The wrapper's redirection creates the file, or empties the one it finds,
\* before printf fills it; either may fail, printf on a full file system.
WrapperOpensMarker ==
  /\ container = "running" /\ process = "ended" /\ wrapper = "waits"
  /\ wrapper' = "writes"
  /\ marker' = NoCode
  /\ UNCHANGED <<executor, container, process, code, tampered>>

\* A file that has been removed since it was opened stays removed.
WrapperFillsMarker ==
  /\ container = "running" /\ wrapper = "writes"
  /\ wrapper' = "done"
  /\ marker' = IF marker = NoMarker THEN NoMarker ELSE code
  /\ UNCHANGED <<executor, container, process, code, tampered>>

\* The program, or a process it has left behind, has the user of the wrapper and
\* may write to its directory.  The bound: once the executor is past the copy, it
\* never reads the marker again.
ProgramWritesMarker ==
  /\ container = "running" /\ step \in {"wait", "logs", "copy"}
  /\ marker' \in Contents \cup {NoMarker}
  /\ tampered' = TRUE
  /\ UNCHANGED <<executor, container, process, code, wrapper>>

Gone == IF process = "running" THEN "killed" ELSE process

\* A container that stops loses its temporary file systems.
ContainerStops ==
  /\ container = "running"
  /\ container' = "stopped"
  /\ process' = Gone
  /\ wrapper' = "done" /\ marker' = NoMarker
  /\ UNCHANGED <<executor, code, tampered>>

\* The daemon completes a creation whose client has been killed.
LateCreation ==
  /\ container = "pending"
  /\ container' = "stopped"
  /\ UNCHANGED <<executor, process, code, files>>

\* ... with a program that leaves the marker alone.
Environment ==
  \/ ProgramEnds \/ WrapperOpensMarker \/ WrapperFillsMarker
  \/ ContainerStops \/ LateCreation

-----------------------------------------------------------------------------
(* The executor.                                                             *)

At(s) == step = s

\* Inputs that are refused, a failing copy or a failing store end the call; what
\* was written is cleaned up, unless that fails too.
Raise ==
  /\ step' = "raised"
  /\ workspace' \in {FALSE, workspace}
  /\ UNCHANGED <<run, record, outputs>>

Prepare ==
  /\ At("prepare")
  /\ \/ /\ step' = "inspect"
        /\ workspace' = TRUE
        /\ UNCHANGED <<run, record, outputs>>
     \/ /\ step' = "raised"
        /\ workspace' \in BOOLEAN
        /\ UNCHANGED <<run, record, outputs>>
  /\ UNCHANGED inside

\* The record is only returned if the workspace could be cleaned up.
Return(r) ==
  \/ /\ step' = "returned"
     /\ workspace' = FALSE
     /\ record' = r
     /\ UNCHANGED <<run, outputs>>
  \/ /\ step' = "raised"
     /\ UNCHANGED <<workspace, run, record, outputs>>

InspectImage ==
  /\ At("inspect")
  /\ \/ /\ step' = "start"
        /\ UNCHANGED <<workspace, run, record, outputs>>
     \/ Return([NoRecord EXCEPT !.error = TRUE])
  /\ UNCHANGED inside

Call(next, r) ==
  /\ step' = next
  /\ run' = r
  /\ UNCHANGED <<workspace, outputs, record>>

TimedOut(r) == [r EXCEPT !.timed_out = TRUE, !.returncode = 124]

RunnerError(r) == [r EXCEPT !.runner_error = TRUE]

Started ==
  /\ container' = "running" /\ process' = "running"
  /\ UNCHANGED <<code, files>>

\* docker run is a client: killing it on a timeout leaves the daemon with the
\* container at any point of its creation.
StartContainer ==
  /\ At("start")
  /\ \/ /\ Started
        /\ Call("wait", [run EXCEPT !.returncode = 0, !.container_started = TRUE])
     \/ /\ container' \in {"absent", "stopped"}
        /\ \E refusal \in 125..127 :
             Call("remove", [run EXCEPT !.returncode = refusal])
        /\ UNCHANGED <<process, code, files>>
     \/ /\ \/ Started
           \/ /\ container' \in {"absent", "pending", "stopped"}
              /\ UNCHANGED <<process, code, files>>
        /\ Call("remove", TimedOut(run))
     \/ /\ Call("remove", RunnerError(run))
        /\ UNCHANGED inside

\* docker exec fails when the container has stopped, but also when the
\* container's own limits leave no room for another process.
WaitForCompletion ==
  /\ At("wait")
  /\ \/ /\ container = "running" /\ marker # NoMarker
        /\ Call("logs", [run EXCEPT !.completion_observed = TRUE])
     \/ Call("logs", RunnerError(run))
     \/ Call("logs", TimedOut(run))
  /\ UNCHANGED inside

MayCopy(r) == r.completion_observed /\ ~r.timed_out /\ ~r.runner_error

CollectLogs ==
  /\ At("logs")
  /\ \E r \in {run, RunnerError(run)} :
       Call(IF MayCopy(r) THEN "copy" ELSE "remove", r)
  /\ UNCHANGED inside

\* What the marker says replaces the exit code of docker run.
MarkerVerdict(r) ==
  IF marker \in 0..255 THEN [r EXCEPT !.returncode = marker]
  ELSE [r EXCEPT !.copy_error = TRUE]

\* A refused archive may have been extracted in part.
CopyOutputs ==
  /\ At("copy")
  /\ \/ /\ container = "running"
        /\ outputs' = "all"
        /\ run' = MarkerVerdict(run)
     \/ /\ outputs' \in {"none", "part"}
        /\ run' = [run EXCEPT !.copy_error = TRUE]
  /\ step' = "remove"
  /\ UNCHANGED <<workspace, record, inside>>

\* Mutant: only a container known to have started is removed.
RemovableBug == run.container_started /\ container \in {"running", "stopped"}

Removable == container \in {"running", "stopped"}

\* The container goes by its name, whether its start was reported or not; a
\* failing removal is ignored.
ForceRemove ==
  /\ At("remove")
  /\ \/ /\ Call("collect", [run EXCEPT !.removed = TRUE])
        /\ IF Removable
           THEN /\ container' = "absent" /\ process' = Gone
                /\ wrapper' = "done" /\ marker' = NoMarker
           ELSE UNCHANGED <<container, process, wrapper, marker>>
        /\ UNCHANGED <<code, tampered>>
     \/ /\ Call("collect", run)
        /\ UNCHANGED inside

Status(r, artifact_error) ==
  IF artifact_error \/ r.copy_error THEN "REJECTED"
  ELSE IF r.timed_out THEN "TIMEOUT"
  ELSE IF r.returncode = 0 THEN "SUCCEEDED"
  ELSE "FAILED"

HasError(r, artifact_error) ==
  \/ artifact_error \/ r.copy_error \/ r.timed_out \/ r.runner_error
  \/ r.returncode \notin {0, NoCode}

\* What was extracted is stored and listed, unless it breaks a limit.
CollectArtifacts ==
  /\ At("collect")
  /\ \/ \E artifact_error \in BOOLEAN :
          Return([ status    |-> Status(run, artifact_error),
                   exit_code |-> run.returncode,
                   error     |-> HasError(run, artifact_error),
                   artifacts |-> IF artifact_error THEN "none" ELSE outputs ])
     \/ Raise
  /\ UNCHANGED inside

\* The process of the executor ends; nothing cleans up after it.
Crash ==
  /\ step \notin Ended
  /\ step' = "crashed"
  /\ UNCHANGED <<workspace, outputs, run, record, inside>>

Execute ==
  \/ Prepare \/ InspectImage \/ StartContainer \/ WaitForCompletion
  \/ CollectLogs \/ CopyOutputs \/ ForceRemove \/ CollectArtifacts

Next == Execute \/ Crash \/ Environment \/ ProgramWritesMarker

Spec == Init /\ [][Next]_vars

-----------------------------------------------------------------------------
(* What the callers make of a record.                                        *)

\* The EXECUTION gate of the data workflow.
ExecutionGate(r) == r.status = "SUCCEEDED" /\ r.exit_code = 0 /\ ~r.error

\* The solvers only look at the status, and then for the result file.
SolverReads(r) == r.status = "SUCCEEDED" /\ r.artifacts # "none"

-----------------------------------------------------------------------------
(* Properties.                                                               *)

\* The variables of the executor and of the container have their types.
TypeOK ==
  /\ step \in Steps
  /\ workspace \in BOOLEAN
  /\ container \in {"absent", "pending", "running", "stopped"}
  /\ process \in {"none", "running", "ended", "killed"}
  /\ code \in Codes
  /\ wrapper \in {"waits", "writes", "done"}
  /\ marker \in Codes \cup {NoMarker}
  /\ tampered \in BOOLEAN
  /\ outputs \in Outputs
  /\ run \in Run
  /\ record \in ExecutionRecord

\* What a success rests on.
EndedWell == process = "ended" /\ code = 0

\* A run that passes the EXECUTION gate is one whose marker was seen and whose
\* outputs were all taken out of the container; unless the program has written
\* to the marker itself, it ended with exit code zero.
GatedRunReallySucceeded ==
  ExecutionGate(record) =>
    /\ run.completion_observed /\ record.artifacts = "all"
    /\ tampered \/ EndedWell

\* The status alone is not enough, as the last property shows, but a solver never
\* reads a result that was not copied whole, nor, from a program that leaves the
\* marker alone, one of a run that failed or was cut short.
SolvedRunReallySucceeded ==
  SolverReads(record) =>
    /\ run.completion_observed /\ record.artifacts = "all"
    /\ tampered \/ EndedWell

\* A program only goes on after execute has returned when its container could
\* not be removed: also one whose start was never reported.
NothingKeepsRunning ==
  step = "returned" /\ run.removed => process # "running"
===============================================================================
