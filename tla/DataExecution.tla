---------------------------- MODULE DataExecution -----------------------------
(***************************************************************************)
(* The FILES -> DATA -> EXECUTION sub-workflow of one project: uploads     *)
(* that are moved, parsed and registered, analyses by the data     *)
(* agent and executions of submitted code, as requests that run at the     *)
(* same time.  Bytes live in the file store and only grow; metadata and    *)
(* the state are written in one transaction, whose revision check and      *)
(* whose insertion are two steps, because SELECT ... FOR UPDATE takes no   *)
(* lock on SQLite.                                                         *)
(***************************************************************************)
EXTENDS Naturals, Sequences, FiniteSets, SequencesExt

CONSTANTS
  Request,      \* the requests that can be in progress at once
  Kind,         \* the kinds of attachments that are uploaded
  Output,       \* the files a run may leave behind
  MaxFiles,     \* bound: how many uploads are moved into the store
  MaxRuns,      \* bound: how many runs have their code stored
  MaxRevision   \* bound: no request starts on a later revision

ASSUME KindAssumption == Kind # {} /\ Kind \subseteq {"table", "pdf", "image", "text"}
ASSUME OutputAssumption == Output \cap {"raw", "preview", "profile", "text", "code"} = {}
ASSUME BoundsAssumption == MaxFiles \in Nat /\ MaxRuns \in Nat /\ MaxRevision \in Nat

VARIABLES
  revisions,  \* the revisions of the state; the last one is current
  store,      \* the objects of the file store
  drawn,      \* how many identifiers uploads have drawn
  requests    \* the local state of every request

vars == <<revisions, store, drawn, requests>>

\* Identifiers are drawn at random and never twice; here they are counted.
File == 1..MaxFiles

NoFile == 0

Run == 1..MaxRuns

NoRun == 0

DataWorkflowStage == {"PENDING", "FILES", "DATA", "EXECUTION"}

FileRow == [id : File, kind : Kind, status : {"PARSED", "FAILED"}]

\* What the data agent understood, and the attachments it was shown.
DataUnderstanding == [datasets : SUBSET File, media : SUBSET File]

NoUnderstanding == [datasets |-> {NoFile}, media |-> {}]

\* The objects derived from an attachment, in the order they are stored.
Derived(kind) ==
  CASE kind = "table" -> <<"preview", "profile">>
    [] kind \in {"pdf", "text"} -> <<"text">>
    [] kind = "image" -> <<>>

\* Objects of the attachments, and the code and the outputs of the runs.
Object == (File \X {"raw", "preview", "profile", "text"}) \cup (Run \X ({"code"} \cup Output))

\* An execution names its inputs, the revision it was started on, its code and
\* its outputs.
ExecutionRecord ==
  [inputs : SUBSET File, started : Nat, passed : BOOLEAN, artifacts : SUBSET Object]

\* The fields of ProblemState that belong to the sub-workflow.  accepted are
\* the files whose FILES gate passed, from the history of the stage.
ProblemState ==
  [ data_stage         : DataWorkflowStage,
    registered_files   : SUBSET FileRow,
    accepted           : SUBSET File,
    tracked_artifacts  : SUBSET Object,
    data_profiles      : SUBSET File,
    data_understanding : DataUnderstanding \cup {NoUnderstanding},
    code_files         : SUBSET Object,
    execution_records  : SUBSET ExecutionRecord ]

Current == Last(revisions)

Steps == {"idle", "upload", "validate", "parse", "store", "files_gate", "media",
          "agent", "inputs", "code", "sandbox", "check", "flush"}

\* A request keeps the revision it loaded, what it found out since, and, once
\* its gate has decided, the state it wants to append.
Local ==
  [ step : Steps, read : Nat, file : File \cup {NoFile}, kind : Kind,
    todo : Seq({"preview", "profile", "text"}), kept : SUBSET Object,
    run : Run \cup {NoRun}, parsed : BOOLEAN, chosen : SUBSET File, next : ProblemState ]

EmptyState ==
  [ data_stage |-> "PENDING", registered_files |-> {}, accepted |-> {},
    tracked_artifacts |-> {}, data_profiles |-> {},
    data_understanding |-> NoUnderstanding, code_files |-> {}, execution_records |-> {} ]

Idle ==
  [ step |-> "idle", read |-> 0, file |-> NoFile, kind |-> CHOOSE k \in Kind : TRUE,
    todo |-> <<>>, kept |-> {}, run |-> NoRun, parsed |-> FALSE, chosen |-> {}, next |-> EmptyState ]

Init ==
  /\ revisions = <<EmptyState>>
  /\ store = {} /\ drawn = 0
  /\ requests = [r \in Request |-> Idle]

-----------------------------------------------------------------------------
(* One step of a request.                                                    *)

At(r, step) == requests[r].step = step

Loaded(r) == revisions[requests[r].read]

Become(r, local) == requests' = [requests EXCEPT ![r] = local]

\* The request answers with an error, or is finished.
End(r) == Become(r, Idle)

Begin(r, step) ==
  /\ At(r, "idle")
  /\ Len(revisions) < MaxRevision
  /\ Become(r, [Idle EXCEPT !.step = step, !.read = Len(revisions)])
  /\ UNCHANGED <<revisions, store, drawn>>

\* The workflow has built the next state, which has still to be persisted.
Persist(r, next) ==
  Become(r, [Idle EXCEPT !.step = "check", !.read = requests[r].read, !.next = next])

Registered(state) == {row.id : row \in state.registered_files}

-----------------------------------------------------------------------------
(* DataExecutionWorkflow.ingest_file                                         *)

IngestFile(r) == Begin(r, "upload")

\* An upload that is too large, or cut short, is removed again.
StageStream(r) ==
  /\ At(r, "upload")
  /\ Become(r, [requests[r] EXCEPT !.step = "validate"]) \/ End(r)
  /\ UNCHANGED <<revisions, store, drawn>>

\* Refused by validation or by the store: the staged bytes are discarded.
DiscardStaged(r) ==
  /\ At(r, "validate")
  /\ End(r)
  /\ UNCHANGED <<revisions, store, drawn>>

CommitUpload(r) ==
  /\ At(r, "validate")
  /\ drawn < MaxFiles
  /\ drawn' = drawn + 1
  /\ store' = store \cup {<<drawn', "raw">>}
  /\ \E kind \in Kind :
       Become(r, [requests[r] EXCEPT !.step = "parse", !.file = drawn', !.kind = kind,
                                     !.kept = {<<drawn', "raw">>}])
  /\ UNCHANGED revisions

StillTo(todo, local) ==
  [local EXCEPT !.todo = todo, !.step = IF todo = <<>> THEN "files_gate" ELSE "store"]

\* A file its parser refuses is registered as FAILED, with what was stored of it.
Parse(r) ==
  /\ At(r, "parse")
  /\ \/ Become(r, StillTo(Derived(requests[r].kind), [requests[r] EXCEPT !.parsed = TRUE]))
     \/ Become(r, [requests[r] EXCEPT !.step = "files_gate"])
  /\ UNCHANGED <<revisions, store, drawn>>

\* Mutant: an object is registered before it is written.
StoreGeneratedArtifactBug(r) ==
  /\ At(r, "store")
  /\ LET object == <<requests[r].file, Head(requests[r].todo)>>
         kept   == requests[r].kept \cup {object}
     IN \/ /\ store' = store \cup {object}
           /\ Become(r, StillTo(Tail(requests[r].todo), [requests[r] EXCEPT !.kept = kept]))
        \/ /\ store' = store
           /\ Become(r, [requests[r] EXCEPT !.step = "files_gate", !.parsed = FALSE,
                                            !.kept = kept])
        \/ End(r) /\ UNCHANGED store
  /\ UNCHANGED <<revisions, drawn>>

\* A write that fails leaves a FAILED file; an error the pipeline does not
\* expect ends the request, and what was stored is forgotten.
StoreGeneratedArtifact(r) ==
  /\ At(r, "store")
  /\ LET object == <<requests[r].file, Head(requests[r].todo)>> IN
     \/ /\ store' = store \cup {object}
        /\ Become(r, StillTo(Tail(requests[r].todo),
                             [requests[r] EXCEPT !.kept = @ \cup {object}]))
     \/ /\ store' = store
        /\ Become(r, [requests[r] EXCEPT !.step = "files_gate", !.parsed = FALSE])
     \/ End(r) /\ UNCHANGED store
  /\ UNCHANGED <<revisions, drawn>>

FilesQualityGate(local, readable) ==
  local.parsed /\ local.kept \subseteq store /\ readable

\* Mutant: the understanding of the earlier attachments is kept.
IngestedStateBug(s, local, passed) ==
  [s EXCEPT
     !.data_stage = IF passed THEN "FILES" ELSE @,
     !.registered_files = @ \cup {[id |-> local.file, kind |-> local.kind,
                                   status |-> IF local.parsed THEN "PARSED" ELSE "FAILED"]},
     !.accepted = IF passed THEN @ \cup {local.file} ELSE @,
     !.tracked_artifacts = @ \cup local.kept,
     !.data_profiles = IF local.parsed /\ local.kind = "table"
                       THEN @ \cup {local.file} ELSE @]

\* "Any accepted new attachment invalidates prior semantic interpretation."
IngestedState(s, local, passed) ==
  [s EXCEPT
     !.data_stage = IF passed THEN "FILES" ELSE @,
     !.registered_files = @ \cup {[id |-> local.file, kind |-> local.kind,
                                   status |-> IF local.parsed THEN "PARSED" ELSE "FAILED"]},
     !.accepted = IF passed THEN @ \cup {local.file} ELSE @,
     !.tracked_artifacts = @ \cup local.kept,
     !.data_profiles = IF local.parsed /\ local.kind = "table"
                       THEN @ \cup {local.file} ELSE @,
     !.data_understanding = IF passed THEN NoUnderstanding ELSE @]

\* The gate reads everything back; what cannot be read does not match.
FilesGate(r) ==
  /\ At(r, "files_gate")
  /\ \E readable \in BOOLEAN :
       Persist(r, IngestedState(Loaded(r), requests[r],
                                FilesQualityGate(requests[r], readable)))
  /\ UNCHANGED <<revisions, store, drawn>>

-----------------------------------------------------------------------------
(* DataExecutionWorkflow.analyze_data                                        *)

AnalyzeData(r) == Current.data_stage = "FILES" /\ Begin(r, "media")

\* The rows are looked up in the tables, not in the state that was loaded; an
\* attachment that is unknown, no medium or too large ends the request.
MultimodalAssets(r) ==
  /\ At(r, "media")
  /\ \/ \E media \in SUBSET {row.id : row \in {f \in Current.registered_files :
                                                  f.kind \in {"pdf", "image"}}} :
          /\ media \X {"raw"} \subseteq store
          /\ Loaded(r).data_profiles # {} \/ media # {}
          /\ Become(r, [requests[r] EXCEPT !.step = "agent", !.chosen = media])
     \/ End(r)
  /\ UNCHANGED <<revisions, store, drawn>>

\* The references to columns are part of the answers the agent is refused for.
DataQualityGate(profiles, datasets) == datasets = profiles

UnderstoodState(s, datasets, media) ==
  [s EXCEPT !.data_stage = "DATA",
            !.data_understanding = [datasets |-> datasets, media |-> media]]

\* No answer, or one the gate rejects, is only recorded as a run.
DataAgentAnswers(r) ==
  /\ At(r, "agent")
  /\ \/ \E datasets \in SUBSET File :
          /\ DataQualityGate(Loaded(r).data_profiles, datasets)
          /\ Persist(r, UnderstoodState(Loaded(r), datasets, requests[r].chosen))
     \/ End(r)
  /\ UNCHANGED <<revisions, store, drawn>>

-----------------------------------------------------------------------------
(* DataExecutionWorkflow.execute_code                                        *)

ExecuteCode(r) == Current.data_stage = "DATA" /\ Begin(r, "inputs")

\* Any registered file may be an input, also one that could not be parsed.
ReadInputs(r) ==
  /\ At(r, "inputs")
  /\ \/ \E inputs \in SUBSET Registered(Current) :
          /\ inputs \X {"raw"} \subseteq store
          /\ Become(r, [requests[r] EXCEPT !.step = "code", !.chosen = inputs])
     \/ End(r)
  /\ UNCHANGED <<revisions, store, drawn>>

CodeOf(run) == <<run, "code">>

\* The runs so far: the code is the first thing of a run that is stored.
Ran == Cardinality({object \in store : object[2] = "code"})

\* The code is stored before a container exists; if that fails the request ends.
StoreCodeArtifact(r) ==
  /\ At(r, "code")
  /\ LET run == Ran + 1 IN
     \/ /\ run \in Run
        /\ store' = store \cup {CodeOf(run)}
        /\ Become(r, [requests[r] EXCEPT !.step = "sandbox", !.run = run,
                                         !.kept = {CodeOf(run)}])
     \/ End(r) /\ UNCHANGED store
  /\ UNCHANGED <<revisions, drawn>>

\* The run was a success, and all it left behind reads back as it was stored.
ExecutionQualityGate(local, objects, succeeded, readable) ==
  succeeded /\ local.kept \subseteq objects /\ readable

\* A run that does not pass the gate is recorded, and the stage stays.
ExecutedState(s, local, passed) ==
  [s EXCEPT !.data_stage = IF passed THEN "EXECUTION" ELSE "DATA",
            !.code_files = @ \cup {CodeOf(local.run)},
            !.execution_records = @ \cup {[inputs |-> local.chosen, started |-> local.read,
                                           passed |-> passed, artifacts |-> local.kept]},
            !.tracked_artifacts = @ \cup local.kept]

\* Outputs beyond a limit, or of no run, are not stored at all.  A write that
\* raises ends the request, and what was stored so far is forgotten.
SandboxReturns(r) ==
  /\ At(r, "sandbox")
  /\ \E outputs \in SUBSET Output :
       LET local == [requests[r] EXCEPT !.kept = @ \cup ({requests[r].run} \X outputs)] IN
       /\ store' = store \cup local.kept
       /\ \/ \E succeeded, readable \in BOOLEAN :
               Persist(r, ExecutedState(Loaded(r), local,
                            ExecutionQualityGate(local, store', succeeded, readable)))
          \/ End(r)
  /\ UNCHANGED <<revisions, drawn>>

-----------------------------------------------------------------------------
(* The transaction of DataRepository and ReasoningRepository.                *)

ValidateNextRevision(r) == Len(revisions) = requests[r].read

\* Mutant: a stale request waits for its turn.
CheckRevisionBug(r) ==
  /\ At(r, "check")
  /\ ValidateNextRevision(r)
  /\ Become(r, [requests[r] EXCEPT !.step = "flush"])
  /\ UNCHANGED <<revisions, store, drawn>>

CheckRevision(r) ==
  /\ At(r, "check")
  /\ IF ValidateNextRevision(r)
     THEN Become(r, [requests[r] EXCEPT !.step = "flush"])
     ELSE End(r)
  /\ UNCHANGED <<revisions, store, drawn>>

\* Mutant: no constraint forbids a second revision after the same one.
UniqueRevisionBug(r) == TRUE

\* uq_problem_states_problem_revision and uq_problem_states_one_current
UniqueRevision(r) == requests[r].read + 1 > Len(revisions)

ReplaceState(r) ==
  /\ At(r, "flush")
  /\ revisions' = IF UniqueRevision(r) THEN Append(revisions, requests[r].next)
                  ELSE revisions
  /\ End(r)
  /\ UNCHANGED <<store, drawn>>

\* Another workflow appends a revision, which carries the fields over.
OtherRevision ==
  /\ Len(revisions) < MaxRevision
  /\ revisions' = Append(revisions, Current)
  /\ UNCHANGED <<store, drawn, requests>>

\* The process of a request dies; nobody cleans up after it.
Dies(r) ==
  /\ ~At(r, "idle")
  /\ End(r)
  /\ UNCHANGED <<revisions, store, drawn>>

-----------------------------------------------------------------------------

Progress(r) ==
  \/ StageStream(r) \/ DiscardStaged(r) \/ CommitUpload(r) \/ Parse(r)
  \/ StoreGeneratedArtifact(r) \/ FilesGate(r)
  \/ MultimodalAssets(r) \/ DataAgentAnswers(r)
  \/ ReadInputs(r) \/ StoreCodeArtifact(r) \/ SandboxReturns(r)
  \/ CheckRevision(r) \/ ReplaceState(r)

Next ==
  \/ OtherRevision
  \/ \E r \in Request :
       IngestFile(r) \/ AnalyzeData(r) \/ ExecuteCode(r) \/ Progress(r) \/ Dies(r)

Spec == Init /\ [][Next]_vars

\* Parsers, the agent and the sandbox all answer within a limit.
FairSpec == Spec /\ \A r \in Request : WF_vars(Progress(r))

-----------------------------------------------------------------------------
(* Properties.                                                               *)

\* The revisions, and what every request has in hand, have their types.
TypeOK ==
  /\ revisions \in Seq(ProblemState)
  /\ store \subseteq Object /\ drawn \in 0..MaxFiles
  /\ requests \in [Request -> Local]

\* "Adding a new accepted file resets semantic data understanding and the data
\* stage": an understanding that lets code run covers every profile of an
\* accepted attachment, and only attachments the revision knows, however uploads
\* and analyses overlap.
UnderstandingIsCurrent ==
  LET s == Current
      u == s.data_understanding
  IN /\ s.data_stage \in {"DATA", "EXECUTION"} <=> u # NoUnderstanding
     /\ u # NoUnderstanding =>
          /\ s.accepted \cap s.data_profiles \subseteq u.datasets
          /\ u.datasets \subseteq s.data_profiles
          /\ u.media \subseteq Registered(s)

\* No request's revision drops what another one added after the first had
\* loaded the state, with or without the row lock.
NothingIsLost ==
  [][/\ Registered(Current) \subseteq Registered(Current')
     /\ Current.tracked_artifacts \subseteq Current'.tracked_artifacts
     /\ Current.data_profiles \subseteq Current'.data_profiles
     /\ Current.code_files \subseteq Current'.code_files
     /\ Current.execution_records \subseteq Current'.execution_records]_vars

\* Whatever fails half-way, an object a revision names is in the store: what it
\* tracks, the bytes of every registered attachment, the code it lists, and the
\* code and the outputs its executions name.
BytesBehindRows ==
  \A s \in Range(revisions) :
    /\ s.tracked_artifacts \cup (Registered(s) \X {"raw"}) \cup s.code_files \subseteq store
    /\ \A execution \in s.execution_records : execution.artifacts \subseteq store

\* Every request is answered.
RequestsEnd == \A r \in Request : ~At(r, "idle") ~> At(r, "idle")
===============================================================================
