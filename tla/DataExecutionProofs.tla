-------------------------- MODULE DataExecutionProofs --------------------------
(***************************************************************************)
(* The safety properties of DataExecution for any number of requests,      *)
(* attachments and revisions.  The invariant is about what a request has   *)
(* in hand: an upload holds a file nobody else knows, and a state waiting  *)
(* for its transaction extends the revision it was derived from.  A state  *)
(* derived from an older revision promises nothing about the understanding *)
(* it holds, but can never be appended: once a request has fallen behind,  *)
(* it stays behind.                                                        *)
(***************************************************************************)
EXTENDS DataExecution, TLAPS

Uploading == {"parse", "store", "files_gate"}

Waiting == {"check", "flush"}

Understood(s) ==
  /\ s.data_stage \in {"DATA", "EXECUTION"} <=> s.data_understanding # NoUnderstanding
  /\ s.data_understanding # NoUnderstanding =>
       /\ s.accepted \cap s.data_profiles \subseteq s.data_understanding.datasets
       /\ s.data_understanding.datasets \subseteq s.data_profiles
       /\ s.data_understanding.media \subseteq Registered(s)

Backed(s, objects) ==
  /\ s.tracked_artifacts \subseteq objects /\ s.code_files \subseteq objects
  /\ \A execution \in s.execution_records : execution.artifacts \subseteq objects
  /\ \A f \in Registered(s) : <<f, "raw">> \in objects

Extended(s, t) ==
  /\ Registered(s) \subseteq Registered(t)
  /\ s.tracked_artifacts \subseteq t.tracked_artifacts
  /\ s.data_profiles \subseteq t.data_profiles
  /\ s.code_files \subseteq t.code_files
  /\ s.execution_records \subseteq t.execution_records

Sound(s, objects, files) ==
  Understood(s) /\ Backed(s, objects) /\ s.accepted \subseteq 1..files

\* What a request holds, given the revisions, the objects and the files drawn.
Held(k, revs, objects, files) ==
  /\ k.step # "idle" => k.read \in 1..Len(revs)
  /\ k.step \in Uploading =>
       /\ k.file \in 1..files /\ <<k.file, "raw">> \in objects /\ k.kept \subseteq objects
       /\ \A i \in 1..Len(revs) : k.file \notin revs[i].accepted
  /\ k.step = "store" => k.todo # <<>>
  /\ k.step = "agent" /\ k.read = Len(revs) => k.chosen \subseteq Registered(revs[k.read])
  /\ k.step = "sandbox" =>
       k.run \in Run /\ CodeOf(k.run) \in k.kept /\ k.kept \subseteq objects
  /\ k.step \in {"inputs", "code", "sandbox"} => revs[k.read].data_stage = "DATA"
  /\ k.step \in Waiting =>
       /\ Extended(revs[k.read], k.next) /\ Backed(k.next, objects)
       /\ k.read = Len(revs) => Understood(k.next)
  /\ k.next.accepted \subseteq 1..files

RevisionsInv ==
  /\ revisions # <<>>
  /\ \A i \in 1..Len(revisions) : Sound(revisions[i], store, drawn)

RequestsInv == \A r \in Request : Held(requests[r], revisions, store, drawn)

\* The file of an upload is in no other request's hands.
FilesInv ==
  \A r, q \in Request :
    r # q /\ requests[r].step \in Uploading =>
      /\ requests[q].step \in Uploading => requests[q].file # requests[r].file
      /\ requests[r].file \notin requests[q].next.accepted

Inv == TypeOK /\ RevisionsInv /\ RequestsInv /\ FilesInv

-----------------------------------------------------------------------------
(* Types.                                                                    *)

LEMMA Empty ==
  /\ EmptyState \in ProblemState /\ Idle \in Local
  /\ Idle.step = "idle" /\ Idle.next = EmptyState /\ EmptyState.accepted = {}
<1>1. EmptyState \in ProblemState
  BY DEF EmptyState, ProblemState, DataWorkflowStage
<1>2. (CHOOSE k \in Kind : TRUE) \in Kind
  BY KindAssumption
<1>3. <<>> \in Seq({"preview", "profile", "text"}) /\ NoFile \in File \cup {NoFile} /\ 0 \in Nat
      /\ NoRun \in Run \cup {NoRun}
  OBVIOUS
<1>4. Idle \in Local
  <2> HIDE DEF EmptyState
  <2> QED BY <1>1, <1>2, <1>3 DEF Idle, Local, Steps
<1> QED
  BY <1>1, <1>4 DEF Idle, EmptyState

LEMMA Fields ==
  ASSUME NEW s \in ProblemState
  PROVE  /\ s.data_stage \in DataWorkflowStage /\ s.registered_files \subseteq FileRow
         /\ s.accepted \subseteq File /\ s.tracked_artifacts \subseteq Object
         /\ s.data_profiles \subseteq File
         /\ s.data_understanding \in DataUnderstanding \cup {NoUnderstanding}
         /\ s.code_files \subseteq Object /\ s.execution_records \subseteq ExecutionRecord
         /\ Registered(s) \subseteq File
BY DEF ProblemState, Registered, FileRow

LEMMA LocalFields ==
  ASSUME NEW k \in Local
  PROVE  /\ k.step \in Steps /\ k.read \in Nat /\ k.file \in File \cup {NoFile}
         /\ k.kind \in Kind /\ k.todo \in Seq({"preview", "profile", "text"})
         /\ k.kept \subseteq Object /\ k.run \in Run \cup {NoRun}
         /\ k.parsed \in BOOLEAN /\ k.chosen \subseteq File
         /\ k.next \in ProblemState
BY DEF Local

\* A request and the revision it has loaded have their types.
LEMMA Typed ==
  ASSUME Inv, NEW r \in Request
  PROVE  /\ requests[r] \in Local /\ Held(requests[r], revisions, store, drawn)
         /\ revisions \in Seq(ProblemState) /\ Len(revisions) \in Nat /\ Len(revisions) >= 1
         /\ drawn \in Nat /\ store \subseteq Object
         /\ requests[r].step # "idle" =>
              /\ Loaded(r) \in ProblemState /\ Sound(Loaded(r), store, drawn)
              /\ requests[r].read \in 1..Len(revisions)
         /\ Current \in ProblemState /\ Sound(Current, store, drawn)
<1>1. /\ requests[r] \in Local /\ Held(requests[r], revisions, store, drawn)
      /\ revisions \in Seq(ProblemState) /\ Len(revisions) \in Nat /\ Len(revisions) >= 1
      /\ drawn \in Nat /\ store \subseteq Object
  BY BoundsAssumption DEF Inv, TypeOK, RequestsInv, RevisionsInv
<1>2. \A i \in 1..Len(revisions) :
        revisions[i] \in ProblemState /\ Sound(revisions[i], store, drawn)
  BY <1>1 DEF Inv, RevisionsInv
<1>3. requests[r].step # "idle" => requests[r].read \in 1..Len(revisions)
  BY <1>1 DEF Held
<1> QED
  BY <1>1, <1>2, <1>3 DEF Loaded, Current, Last

LEMMA InitInv == Init => Inv
<1> SUFFICES ASSUME Init PROVE Inv
  OBVIOUS
<1>1. /\ revisions = <<EmptyState>> /\ Len(revisions) = 1 /\ revisions[1] = EmptyState
      /\ store = {} /\ drawn = 0 /\ requests = [r \in Request |-> Idle]
  BY DEF Init
<1>2. TypeOK
  BY <1>1, Empty, BoundsAssumption DEF TypeOK
<1>3. Understood(EmptyState) /\ Backed(EmptyState, {})
  BY DEF EmptyState, Understood, Backed, Registered
<1>4. RevisionsInv
  BY <1>1, <1>3, Empty DEF RevisionsInv, Sound
<1>5. RequestsInv /\ FilesInv
  BY <1>1, Empty DEF RequestsInv, FilesInv, Held, Uploading, Waiting
<1> QED
  BY <1>2, <1>4, <1>5 DEF Inv

-----------------------------------------------------------------------------
(* The steps, by what they change.                                           *)

\* A request takes a step that writes no revision and draws no file; it knows
\* no file but its own and those of the revisions.
LEMMA LocalStep ==
  ASSUME Inv, NEW r \in Request, NEW k \in Local, Become(r, k),
         UNCHANGED <<revisions, drawn>>, store \subseteq store', store' \subseteq Object,
         Held(k, revisions, store', drawn),
         k.step \in Uploading =>
           requests[r].step \in Uploading /\ k.file = requests[r].file,
         \A f \in k.next.accepted :
           \/ f \in requests[r].next.accepted
           \/ requests[r].step \in Uploading /\ f = requests[r].file
           \/ \E i \in 1..Len(revisions) : f \in revisions[i].accepted
  PROVE  Inv'
<1>1. /\ requests'[r] = k /\ requests' \in [Request -> Local]
      /\ \A q \in Request : q # r => requests'[q] = requests[q]
  BY DEF Become, Inv, TypeOK
<1>2. TypeOK'
  BY <1>1 DEF Inv, TypeOK
<1>3. RevisionsInv'
  <2>1. ASSUME NEW s, Sound(s, store, drawn) PROVE Sound(s, store', drawn)
    BY <2>1 DEF Sound, Backed
  <2> QED BY <2>1 DEF Inv, RevisionsInv
<1>4. RequestsInv'
  <2>1. ASSUME NEW q \in Request, q # r PROVE Held(requests[q], revisions, store', drawn)
    <3>1. Held(requests[q], revisions, store, drawn)
      BY DEF Inv, RequestsInv
    <3> QED BY <3>1 DEF Held, Backed
  <2> QED BY <1>1, <2>1 DEF RequestsInv
<1>5. FilesInv'
  <2> SUFFICES ASSUME NEW p \in Request, NEW q \in Request, p # q,
                      requests'[p].step \in Uploading
               PROVE  /\ requests'[q].step \in Uploading => requests'[q].file # requests'[p].file
                      /\ requests'[p].file \notin requests'[q].next.accepted
    BY DEF FilesInv
  <2>1. CASE p = r
    BY <1>1, <2>1 DEF Inv, FilesInv
  <2>2. CASE q = r
    <3>1. /\ Held(requests[p], revisions, store, drawn) /\ requests'[p] = requests[p]
          /\ requests[p].step \in Uploading
      BY <1>1, <2>2 DEF Inv, RequestsInv
    <3>2. \A i \in 1..Len(revisions) : requests[p].file \notin revisions[i].accepted
      BY <3>1 DEF Held
    <3>3. /\ requests[r].step \in Uploading => requests[r].file # requests[p].file
          /\ requests[p].file \notin requests[r].next.accepted
      BY <2>2, <3>1 DEF Inv, FilesInv
    <3> QED BY <1>1, <2>2, <3>1, <3>2, <3>3
  <2>3. CASE p # r /\ q # r
    BY <1>1, <2>3 DEF Inv, FilesInv
  <2> QED BY <2>1, <2>2, <2>3
<1> QED
  BY <1>2, <1>3, <1>4, <1>5 DEF Inv

\* A request ends, and keeps nothing.
LEMMA EndStep ==
  ASSUME Inv, NEW r \in Request, End(r),
         UNCHANGED <<revisions, drawn>>, store \subseteq store', store' \subseteq Object
  PROVE  Inv'
<1>1. /\ Idle \in Local /\ Idle.step \notin Uploading /\ Idle.next.accepted = {}
      /\ Held(Idle, revisions, store', drawn)
  BY Empty DEF Held, Uploading, Waiting
<1> QED
  BY <1>1, LocalStep DEF End

\* A sound revision is appended that knows no file of a running upload.
LEMMA AppendStep ==
  ASSUME Inv, NEW s \in ProblemState, revisions' = Append(revisions, s),
         UNCHANGED <<store, drawn>>, Sound(s, store, drawn),
         requests' \in [Request -> Local],
         \A q \in Request : requests'[q] \in {requests[q], Idle},
         \A q \in Request : requests'[q].step \in Uploading => requests'[q].file \notin s.accepted
  PROVE  Inv'
<1>1. /\ revisions \in Seq(ProblemState) /\ Len(revisions) \in Nat
      /\ revisions' \in Seq(ProblemState) /\ Len(revisions') = Len(revisions) + 1
      /\ \A i \in 1..Len(revisions) : revisions'[i] = revisions[i]
      /\ revisions'[Len(revisions) + 1] = s
  BY DEF Inv, TypeOK
<1>2. TypeOK'
  BY <1>1 DEF Inv, TypeOK
<1>3. RevisionsInv'
  BY <1>1 DEF Inv, RevisionsInv
<1>4. RequestsInv'
  <2> SUFFICES ASSUME NEW q \in Request PROVE Held(requests'[q], revisions', store, drawn)
    BY DEF RequestsInv
  <2>1. CASE requests'[q] = Idle
    BY <2>1, Empty DEF Held, Uploading, Waiting
  <2>2. CASE requests'[q] = requests[q]
    <3> DEFINE k == requests[q]
    <3>1. Held(k, revisions, store, drawn) /\ k.step \in Steps
      BY LocalFields DEF Inv, RequestsInv, TypeOK
    <3>2. k.step \in Uploading => k.file \notin s.accepted
      BY <2>2
    <3> HIDE DEF k
    <3>3. /\ k.step # "idle" => k.read \in 1..Len(revisions') /\ k.read # Len(revisions')
                                /\ revisions'[k.read] = revisions[k.read]
      BY <1>1, <3>1 DEF Held
    <3>4. k.step \in Uploading => \A i \in 1..Len(revisions') : k.file \notin revisions'[i].accepted
      BY <1>1, <3>1, <3>2 DEF Held
    <3>5. k.step \in {"agent", "inputs", "code", "sandbox"} \cup Waiting => k.step # "idle"
      BY DEF Waiting
    <3> QED BY <2>2, <3>1, <3>3, <3>4, <3>5 DEF Held, k
  <2> QED BY <2>1, <2>2
<1>5. FilesInv'
  BY Empty DEF Inv, FilesInv, Uploading
<1> QED
  BY <1>2, <1>3, <1>4, <1>5 DEF Inv

-----------------------------------------------------------------------------
(* The actions.                                                              *)

LEMMA BeginInv ==
  ASSUME Inv, NEW r \in Request, NEW step \in {"upload", "media", "inputs"}, Begin(r, step),
         step = "inputs" => Current.data_stage = "DATA"
  PROVE  Inv'
<1> DEFINE k == [Idle EXCEPT !.step = step, !.read = Len(revisions)]
<1>1. /\ Become(r, k) /\ UNCHANGED <<revisions, store, drawn>>
      /\ Len(revisions) \in Nat /\ Len(revisions) >= 1 /\ store \subseteq Object
  BY Typed DEF Begin
<1>2. /\ k \in Local /\ k.step = step /\ k.read = Len(revisions) /\ k.next.accepted = {}
  BY <1>1, Empty DEF Local, Steps
<1>3. Current = revisions[Len(revisions)]
  BY DEF Current, Last
<1> HIDE DEF k
<1>4. Held(k, revisions, store', drawn)
  BY <1>1, <1>2, <1>3 DEF Held, Uploading, Waiting
<1> QED
  BY <1>1, <1>2, <1>4, LocalStep DEF Uploading

LEMMA IngestFileInv == ASSUME Inv, NEW r \in Request, IngestFile(r) PROVE Inv'
BY BeginInv DEF IngestFile

LEMMA AnalyzeDataInv == ASSUME Inv, NEW r \in Request, AnalyzeData(r) PROVE Inv'
BY BeginInv DEF AnalyzeData

LEMMA ExecuteCodeInv == ASSUME Inv, NEW r \in Request, ExecuteCode(r) PROVE Inv'
BY BeginInv DEF ExecuteCode

LEMMA StageStreamInv == ASSUME Inv, NEW r \in Request, StageStream(r) PROVE Inv'
<1> DEFINE k == [requests[r] EXCEPT !.step = "validate"]
<1>1. /\ requests[r].step = "upload" /\ UNCHANGED <<revisions, store, drawn>>
      /\ store' \subseteq Object
      /\ Become(r, k) \/ End(r)
  BY DEF StageStream, At, Inv, TypeOK
<1>2. /\ k \in Local /\ k.step = "validate" /\ k.read = requests[r].read
      /\ k.next = requests[r].next
  BY Typed DEF Local, Steps
<1>3. Held(requests[r], revisions, store, drawn)
  BY Typed
<1> HIDE DEF k
<1>4. Held(k, revisions, store', drawn)
  BY <1>1, <1>2, <1>3 DEF Held, Uploading, Waiting
<1>5. CASE Become(r, k)
  BY <1>1, <1>2, <1>4, <1>5, LocalStep DEF Uploading
<1>6. CASE End(r)
  BY <1>1, <1>6, EndStep
<1> QED
  BY <1>1, <1>5, <1>6

LEMMA DiscardStagedInv == ASSUME Inv, NEW r \in Request, DiscardStaged(r) PROVE Inv'
<1>1. /\ End(r) /\ UNCHANGED <<revisions, store, drawn>>
      /\ store' \subseteq Object
  BY DEF DiscardStaged, Inv, TypeOK
<1> QED
  BY <1>1, EndStep

\* The identifier that is drawn is in nobody's hands.
LEMMA CommitUploadInv == ASSUME Inv, NEW r \in Request, CommitUpload(r) PROVE Inv'
<1> PICK kind \in Kind :
           requests' = [requests EXCEPT ![r] =
             [requests[r] EXCEPT !.step = "parse", !.file = drawn', !.kind = kind,
                                 !.kept = {<<drawn', "raw">>}]]
  BY DEF CommitUpload, Become
<1> DEFINE k == [requests[r] EXCEPT !.step = "parse", !.file = drawn', !.kind = kind,
                                    !.kept = {<<drawn', "raw">>}]
<1>1. /\ requests[r].step = "validate" /\ drawn < MaxFiles /\ drawn' = drawn + 1
      /\ store' = store \cup {<<drawn', "raw">>} /\ UNCHANGED revisions
  BY DEF CommitUpload, At, Inv, TypeOK
<1>2. /\ drawn \in Nat /\ drawn' \in File /\ drawn' \in 1..drawn' /\ drawn' \notin 1..drawn
      /\ 1..drawn \subseteq 1..drawn'
  BY <1>1, Typed, BoundsAssumption DEF File
<1>3. <<drawn', "raw">> \in Object
  BY <1>2 DEF Object
<1>4. /\ k \in Local /\ k.step = "parse" /\ k.file = drawn' /\ k.kept = {<<drawn', "raw">>}
      /\ k.read = requests[r].read /\ k.next = requests[r].next
  BY <1>2, <1>3, Typed DEF Local, Steps
<1> HIDE DEF k
<1>5. /\ requests'[r] = k /\ requests' \in [Request -> Local]
      /\ \A q \in Request : q # r => requests'[q] = requests[q]
  BY <1>4 DEF k, Inv, TypeOK
<1>6. TypeOK'
  BY <1>1, <1>2, <1>3, <1>5, BoundsAssumption DEF Inv, TypeOK
<1>7. RevisionsInv'
  BY <1>1, <1>2 DEF Inv, RevisionsInv, Sound, Backed
<1>8. ASSUME NEW q \in Request
      PROVE  Held(requests[q], revisions, store, drawn)
  BY DEF Inv, RequestsInv
<1>9. RequestsInv'
  <2>1. Held(k, revisions, store', drawn')
    <3>1. \A i \in 1..Len(revisions) : drawn' \notin revisions[i].accepted
      BY <1>2 DEF Inv, RevisionsInv, Sound
    <3> QED
      BY <1>1, <1>2, <1>4, <1>8, <3>1 DEF Held, Uploading, Waiting
  <2>2. ASSUME NEW q \in Request, q # r PROVE Held(requests[q], revisions, store', drawn')
    BY <1>1, <1>2, <1>8 DEF Held, Backed
  <2> QED
    BY <1>1, <1>5, <2>1, <2>2 DEF RequestsInv
<1>10. FilesInv'
  <2>1. \A q \in Request : requests[q].next.accepted \subseteq 1..drawn
    BY <1>8 DEF Held
  <2>2. \A q \in Request : requests[q].step \in Uploading => requests[q].file \in 1..drawn
    BY <1>8 DEF Held
  <2> QED
    BY <1>2, <1>4, <1>5, <2>1, <2>2 DEF Inv, FilesInv
<1> QED
  BY <1>6, <1>7, <1>9, <1>10 DEF Inv

\* An upload that goes on keeps its file, and only what was written.
LEMMA UploadStep ==
  ASSUME Inv, NEW r \in Request, requests[r].step \in {"parse", "store"},
         UNCHANGED <<revisions, drawn>>, store \subseteq store', store' \subseteq Object,
         NEW k \in Local, Become(r, k), k.step \in {"store", "files_gate"},
         k.file = requests[r].file, k.read = requests[r].read, k.next = requests[r].next,
         k.kept \subseteq store', k.step = "store" => k.todo # <<>>
  PROVE  Inv'
<1>1. Held(requests[r], revisions, store, drawn)
  BY Typed
<1>2. Held(k, revisions, store', drawn)
  BY <1>1 DEF Held, Uploading, Waiting
<1> QED
  BY <1>2, LocalStep DEF Uploading

LEMMA DerivedType ==
  ASSUME NEW kind \in Kind
  PROVE  Derived(kind) \in Seq({"preview", "profile", "text"})
<1>1. kind \in {"table", "pdf", "image", "text"}
  BY KindAssumption
<1>2. CASE kind = "table"
  BY <1>2 DEF Derived
<1>3. CASE kind \in {"pdf", "text"}
  <2>1. Derived(kind) = <<"text">>
    BY <1>3 DEF Derived
  <2>2. <<"text">> \in Seq({"preview", "profile", "text"})
    OBVIOUS
  <2> QED BY <2>1, <2>2
<1>4. CASE kind = "image"
  BY <1>4 DEF Derived
<1> QED
  BY <1>1, <1>2, <1>3, <1>4

LEMMA ParseInv == ASSUME Inv, NEW r \in Request, Parse(r) PROVE Inv'
<1>1. /\ requests[r].step = "parse" /\ requests[r] \in Local
      /\ UNCHANGED <<revisions, store, drawn>> /\ store \subseteq Object
      /\ requests[r].kept \subseteq store
  BY Typed DEF Parse, At, Held, Uploading
<1> DEFINE todo == Derived(requests[r].kind)
           parsed == [requests[r] EXCEPT !.parsed = TRUE]
           k == StillTo(todo, parsed)
           l == [requests[r] EXCEPT !.step = "files_gate"]
<1>2. Become(r, k) \/ Become(r, l)
  BY DEF Parse
<1>3. todo \in Seq({"preview", "profile", "text"})
  BY <1>1, DerivedType, LocalFields
<1>4. /\ k \in Local /\ k.step \in {"store", "files_gate"} /\ k.file = requests[r].file
      /\ k.read = requests[r].read /\ k.next = requests[r].next /\ k.kept = requests[r].kept
      /\ k.step = "store" => k.todo # <<>>
  <2> HIDE DEF todo
  <2> QED BY <1>1, <1>3 DEF StillTo, Local, Steps
<1>5. /\ l \in Local /\ l.step = "files_gate" /\ l.file = requests[r].file
      /\ l.read = requests[r].read /\ l.next = requests[r].next /\ l.kept = requests[r].kept
  BY <1>1 DEF Local, Steps
<1> HIDE DEF k, l
<1> QED
  BY <1>1, <1>2, <1>4, <1>5, UploadStep

LEMMA StoreInv == ASSUME Inv, NEW r \in Request, StoreGeneratedArtifact(r) PROVE Inv'
<1> DEFINE object == <<requests[r].file, Head(requests[r].todo)>>
           k == StillTo(Tail(requests[r].todo),
                        [requests[r] EXCEPT !.kept = @ \cup {object}])
           l == [requests[r] EXCEPT !.step = "files_gate", !.parsed = FALSE]
<1>1. /\ requests[r].step = "store" /\ requests[r] \in Local
      /\ UNCHANGED <<revisions, drawn>> /\ store \subseteq Object
      /\ requests[r].kept \subseteq store /\ requests[r].todo # <<>>
  BY Typed DEF StoreGeneratedArtifact, At, Held, Uploading, Inv, TypeOK
<1>2. \/ store' = store \cup {object} /\ Become(r, k)
      \/ store' = store /\ Become(r, l)
      \/ store' = store /\ End(r)
  BY DEF StoreGeneratedArtifact
<1>3. /\ Head(requests[r].todo) \in {"preview", "profile", "text"}
      /\ Tail(requests[r].todo) \in Seq({"preview", "profile", "text"})
  BY <1>1, LocalFields
<1>4. object \in Object
  <2>1. requests[r].file \in File
    <3>1. requests[r].file \in 1..drawn
      BY <1>1, Typed DEF Held, Uploading
    <3>2. drawn \in 0..MaxFiles
      BY DEF Inv, TypeOK
    <3> QED BY <3>1, <3>2, BoundsAssumption DEF File
  <2> QED BY <1>3, <2>1 DEF Object
<1> HIDE DEF object
<1>5. /\ k \in Local /\ k.step \in {"store", "files_gate"} /\ k.file = requests[r].file
      /\ k.read = requests[r].read /\ k.next = requests[r].next
      /\ k.kept = requests[r].kept \cup {object}
      /\ k.step = "store" => k.todo # <<>>
  BY <1>1, <1>3, <1>4 DEF StillTo, Local, Steps
<1>6. /\ l \in Local /\ l.step = "files_gate" /\ l.file = requests[r].file
      /\ l.read = requests[r].read /\ l.next = requests[r].next /\ l.kept = requests[r].kept
  BY <1>1 DEF Local, Steps
<1> HIDE DEF k, l
<1>7. CASE store' = store \cup {object} /\ Become(r, k)
  <2>1. store \subseteq store' /\ store' \subseteq Object /\ k.kept \subseteq store'
    BY <1>1, <1>4, <1>5, <1>7
  <2> QED BY <1>1, <1>5, <1>7, <2>1, UploadStep
<1>8. CASE store' = store /\ Become(r, l)
  BY <1>1, <1>6, <1>8, UploadStep
<1>9. CASE store' = store /\ End(r)
  BY <1>1, <1>9, EndStep
<1> QED
  BY <1>2, <1>7, <1>8, <1>9

\* The gate has decided: the state that waits for its transaction.
LEMMA PersistStep ==
  ASSUME Inv, NEW r \in Request, NEW next \in ProblemState, Persist(r, next),
         requests[r].step # "idle", UNCHANGED <<revisions, drawn>>,
         store \subseteq store', store' \subseteq Object,
         Extended(Loaded(r), next), Backed(next, store'),
         requests[r].read = Len(revisions) => Understood(next),
         \A f \in next.accepted :
           f \in Loaded(r).accepted \/ (requests[r].step \in Uploading /\ f = requests[r].file)
  PROVE  Inv'
<1> DEFINE k == [Idle EXCEPT !.step = "check", !.read = requests[r].read, !.next = next]
<1>1. Become(r, k)
  BY DEF Persist
<1>2. /\ requests[r] \in Local /\ Held(requests[r], revisions, store, drawn)
      /\ requests[r].read \in 1..Len(revisions) /\ Sound(Loaded(r), store, drawn)
      /\ requests[r].read \in Nat
  BY Typed, LocalFields
<1>3. /\ k \in Local /\ k.step = "check" /\ k.read = requests[r].read /\ k.next = next
  BY <1>2, Empty DEF Local, Steps
<1>4. next.accepted \subseteq 1..drawn
  BY <1>2 DEF Held, Sound
<1>5. \A f \in next.accepted :
        \/ requests[r].step \in Uploading /\ f = requests[r].file
        \/ \E i \in 1..Len(revisions) : f \in revisions[i].accepted
  BY <1>2 DEF Loaded
<1> HIDE DEF k
<1>6. Held(k, revisions, store', drawn)
  BY <1>2, <1>3, <1>4 DEF Held, Uploading, Waiting, Loaded
<1> QED
  BY <1>1, <1>3, <1>5, <1>6, LocalStep DEF Uploading

\* The state an upload leads to, whatever its gate has decided.
LEMMA IngestedFields ==
  ASSUME NEW s \in ProblemState, NEW k \in Local, NEW passed \in BOOLEAN, k.file \in File
  PROVE  LET next == IngestedState(s, k, passed) IN
         /\ next \in ProblemState
         /\ Registered(next) = Registered(s) \cup {k.file}
         /\ next.tracked_artifacts = s.tracked_artifacts \cup k.kept
         /\ next.data_profiles \in {s.data_profiles, s.data_profiles \cup {k.file}}
         /\ next.execution_records = s.execution_records /\ next.code_files = s.code_files
         /\ passed => /\ next.accepted = s.accepted \cup {k.file} /\ next.data_stage = "FILES"
                      /\ next.data_understanding = NoUnderstanding
         /\ ~passed => /\ next.accepted = s.accepted /\ next.data_stage = s.data_stage
                       /\ next.data_understanding = s.data_understanding
<1> DEFINE row == [id |-> k.file, kind |-> k.kind,
                   status |-> IF k.parsed THEN "PARSED" ELSE "FAILED"]
           profiles == IF k.parsed /\ k.kind = "table" THEN s.data_profiles \cup {k.file}
                       ELSE s.data_profiles
           next == IngestedState(s, k, passed)
<1>1. row \in FileRow /\ row.id = k.file
  BY LocalFields DEF FileRow
<1>2. /\ k.kept \subseteq Object
      /\ profiles \in {s.data_profiles, s.data_profiles \cup {k.file}}
      /\ profiles \subseteq File
  BY Fields, LocalFields
<1> HIDE DEF row, profiles
<1>3. next = [s EXCEPT !.data_stage = IF passed THEN "FILES" ELSE s.data_stage,
                       !.registered_files = s.registered_files \cup {row},
                       !.accepted = IF passed THEN s.accepted \cup {k.file} ELSE s.accepted,
                       !.tracked_artifacts = s.tracked_artifacts \cup k.kept,
                       !.data_profiles = profiles,
                       !.data_understanding = IF passed THEN NoUnderstanding
                                              ELSE s.data_understanding]
  BY DEF IngestedState, row, profiles
<1>4. /\ next \in ProblemState /\ next.registered_files = s.registered_files \cup {row}
      /\ next.tracked_artifacts = s.tracked_artifacts \cup k.kept
      /\ next.data_profiles = profiles
      /\ next.execution_records = s.execution_records /\ next.code_files = s.code_files
      /\ next.data_stage = IF passed THEN "FILES" ELSE s.data_stage
      /\ next.accepted = IF passed THEN s.accepted \cup {k.file} ELSE s.accepted
      /\ next.data_understanding = IF passed THEN NoUnderstanding ELSE s.data_understanding
  <2> DEFINE stage == IF passed THEN "FILES" ELSE s.data_stage
             accepted == IF passed THEN s.accepted \cup {k.file} ELSE s.accepted
             understood == IF passed THEN NoUnderstanding ELSE s.data_understanding
             rows == s.registered_files \cup {row}
             artifacts == s.tracked_artifacts \cup k.kept
  <2>1. /\ stage \in DataWorkflowStage /\ accepted \subseteq File
        /\ understood \in DataUnderstanding \cup {NoUnderstanding}
        /\ rows \subseteq FileRow /\ artifacts \subseteq Object
    BY <1>1, <1>2, Fields DEF DataWorkflowStage
  <2> HIDE DEF next, stage, accepted, understood, rows, artifacts
  <2>2. next = [s EXCEPT !.data_stage = stage, !.registered_files = rows,
                         !.accepted = accepted, !.tracked_artifacts = artifacts,
                         !.data_profiles = profiles, !.data_understanding = understood]
    BY <1>3 DEF stage, accepted, understood, rows, artifacts
  <2>3. /\ next \in ProblemState /\ next.registered_files = rows
        /\ next.tracked_artifacts = artifacts /\ next.data_profiles = profiles
        /\ next.execution_records = s.execution_records /\ next.data_stage = stage
        /\ next.code_files = s.code_files
        /\ next.accepted = accepted /\ next.data_understanding = understood
    BY <1>2, <2>1, <2>2 DEF ProblemState
  <2> QED BY <2>3 DEF stage, accepted, understood, rows, artifacts
<1> HIDE DEF next
<1>5. Registered(next) = Registered(s) \cup {k.file}
  BY <1>1, <1>4 DEF Registered
<1> QED
  BY <1>2, <1>4, <1>5 DEF next

LEMMA FilesGateInv == ASSUME Inv, NEW r \in Request, FilesGate(r) PROVE Inv'
<1> PICK readable \in BOOLEAN :
      Persist(r, IngestedState(Loaded(r), requests[r], FilesQualityGate(requests[r], readable)))
  BY DEF FilesGate
<1> DEFINE k == requests[r]
           s == Loaded(r)
           passed == FilesQualityGate(requests[r], readable)
           next == IngestedState(s, k, passed)
<1>1. /\ k.step = "files_gate" /\ UNCHANGED <<revisions, store, drawn>>
      /\ Persist(r, next) /\ store \subseteq Object
  BY DEF FilesGate, At, Inv, TypeOK
<1>2. /\ k \in Local /\ s \in ProblemState /\ Sound(s, store, drawn)
      /\ k.read \in 1..Len(revisions) /\ s = revisions[k.read]
      /\ Held(k, revisions, store, drawn) /\ drawn \in 0..MaxFiles
  BY <1>1, Typed DEF Loaded, Inv, TypeOK
<1>3. passed \in BOOLEAN
  BY <1>2, LocalFields DEF FilesQualityGate
<1> HIDE DEF k, s, passed
<1>4. /\ k.file \in 1..drawn /\ k.file \in File /\ <<k.file, "raw">> \in store
      /\ k.kept \subseteq store /\ k.file \notin s.accepted
  <2>1. k.step \in Uploading
    BY <1>1 DEF Uploading
  <2>2. /\ k.file \in 1..drawn /\ <<k.file, "raw">> \in store /\ k.kept \subseteq store
        /\ \A i \in 1..Len(revisions) : k.file \notin revisions[i].accepted
    BY <1>2, <2>1 DEF Held
  <2> QED BY <1>2, <2>2, BoundsAssumption DEF File
<1>5. /\ next \in ProblemState
      /\ Registered(next) = Registered(s) \cup {k.file}
      /\ next.tracked_artifacts = s.tracked_artifacts \cup k.kept
      /\ next.data_profiles \in {s.data_profiles, s.data_profiles \cup {k.file}}
      /\ next.execution_records = s.execution_records /\ next.code_files = s.code_files
      /\ passed => /\ next.accepted = s.accepted \cup {k.file} /\ next.data_stage = "FILES"
                   /\ next.data_understanding = NoUnderstanding
      /\ ~passed => /\ next.accepted = s.accepted /\ next.data_stage = s.data_stage
                    /\ next.data_understanding = s.data_understanding
  BY <1>2, <1>3, <1>4, IngestedFields
<1> HIDE DEF next
<1>6. Extended(s, next) /\ Backed(next, store)
  BY <1>2, <1>4, <1>5 DEF Extended, Backed, Sound
<1>7. Understood(next)
  <2>1. CASE passed
    BY <1>5, <2>1 DEF Understood
  <2>2. CASE ~passed
    BY <1>2, <1>4, <1>5, <2>2 DEF Understood, Sound
  <2> QED BY <1>3, <2>1, <2>2
<1>8. \A f \in next.accepted : f \in s.accepted \/ (k.step \in Uploading /\ f = k.file)
  <2>1. CASE passed
    BY <1>1, <1>5, <2>1 DEF Uploading
  <2>2. CASE ~passed
    BY <1>5, <2>2
  <2> QED BY <1>3, <2>1, <2>2
<1> QED
  BY <1>1, <1>5, <1>6, <1>7, <1>8, PersistStep DEF k, s

\* A request looks something up, and goes on with what it has chosen.
LEMMA ChosenStep ==
  ASSUME Inv, NEW r \in Request, NEW step \in {"agent", "code"},
         NEW chosen \in SUBSET Registered(Current),
         Become(r, [requests[r] EXCEPT !.step = step, !.chosen = chosen]),
         UNCHANGED <<revisions, store, drawn>>, requests[r].step \in {"media", "inputs"},
         step = "code" => requests[r].step = "inputs"
  PROVE  Inv'
<1> DEFINE k == [requests[r] EXCEPT !.step = step, !.chosen = chosen]
<1>1. /\ Become(r, k) /\ store' \subseteq Object
  BY DEF Inv, TypeOK
<1>2. /\ requests[r] \in Local /\ Held(requests[r], revisions, store, drawn)
      /\ chosen \subseteq File /\ Current = revisions[Len(revisions)]
  BY Typed, Fields DEF Current, Last
<1>3. /\ k \in Local /\ k.step = step /\ k.read = requests[r].read /\ k.next = requests[r].next
      /\ k.chosen = chosen
  BY <1>2 DEF Local, Steps
<1> HIDE DEF k
<1>4. Held(k, revisions, store', drawn)
  BY <1>2, <1>3 DEF Held, Uploading, Waiting
<1> QED
  BY <1>1, <1>3, <1>4, LocalStep DEF Uploading

LEMMA MultimodalAssetsInv == ASSUME Inv, NEW r \in Request, MultimodalAssets(r) PROVE Inv'
<1>1. /\ requests[r].step = "media" /\ UNCHANGED <<revisions, store, drawn>>
      /\ store' \subseteq Object
  BY DEF MultimodalAssets, At, Inv, TypeOK
<1>2. CASE End(r)
  BY <1>1, <1>2, EndStep
<1>3. CASE \E media \in SUBSET {row.id : row \in {f \in Current.registered_files :
                                                    f.kind \in {"pdf", "image"}}} :
             Become(r, [requests[r] EXCEPT !.step = "agent", !.chosen = media])
  <2> PICK media \in SUBSET Registered(Current) :
             Become(r, [requests[r] EXCEPT !.step = "agent", !.chosen = media])
    BY <1>3 DEF Registered
  <2> QED BY <1>1, ChosenStep
<1> QED
  BY <1>2, <1>3 DEF MultimodalAssets

LEMMA ReadInputsInv == ASSUME Inv, NEW r \in Request, ReadInputs(r) PROVE Inv'
<1>1. /\ requests[r].step = "inputs" /\ UNCHANGED <<revisions, store, drawn>>
      /\ store' \subseteq Object
  BY DEF ReadInputs, At, Inv, TypeOK
<1>2. CASE End(r)
  BY <1>1, <1>2, EndStep
<1>3. ASSUME NEW inputs \in SUBSET Registered(Current),
             Become(r, [requests[r] EXCEPT !.step = "code", !.chosen = inputs])
      PROVE  Inv'
  BY <1>1, <1>3, ChosenStep
<1> QED
  BY <1>2, <1>3 DEF ReadInputs

LEMMA DataAgentAnswersInv == ASSUME Inv, NEW r \in Request, DataAgentAnswers(r) PROVE Inv'
<1>1. /\ requests[r].step = "agent" /\ UNCHANGED <<revisions, store, drawn>>
      /\ store' \subseteq Object
  BY DEF DataAgentAnswers, At, Inv, TypeOK
<1>2. CASE End(r)
  BY <1>1, <1>2, EndStep
<1>3. ASSUME NEW datasets \in SUBSET File, datasets = Loaded(r).data_profiles,
             Persist(r, UnderstoodState(Loaded(r), datasets, requests[r].chosen))
      PROVE  Inv'
  <2> DEFINE s == Loaded(r)
             chosen == requests[r].chosen
             next == UnderstoodState(s, datasets, chosen)
  <2>1. /\ s \in ProblemState /\ Sound(s, store, drawn) /\ s = revisions[requests[r].read]
        /\ Held(requests[r], revisions, store, drawn) /\ requests[r] \in Local
    BY <1>1, Typed DEF Loaded
  <2>2. chosen \subseteq File /\ datasets \subseteq File /\ NoFile \notin datasets
    BY <2>1, LocalFields DEF File, NoFile
  <2> HIDE DEF s, chosen
  <2>3. [datasets |-> datasets, media |-> chosen] \in DataUnderstanding
    BY <2>2 DEF DataUnderstanding
  <2>4. [datasets |-> datasets, media |-> chosen] # NoUnderstanding
    BY <2>2 DEF NoUnderstanding
  <2>5. /\ next \in ProblemState /\ next.data_stage = "DATA"
        /\ next.data_understanding = [datasets |-> datasets, media |-> chosen]
        /\ next.registered_files = s.registered_files /\ next.accepted = s.accepted
        /\ next.tracked_artifacts = s.tracked_artifacts
        /\ next.data_profiles = s.data_profiles
        /\ next.execution_records = s.execution_records /\ next.code_files = s.code_files
    BY <2>1, <2>3 DEF UnderstoodState, ProblemState, DataWorkflowStage
  <2> HIDE DEF next
  <2>6. Extended(s, next) /\ Backed(next, store)
    BY <2>1, <2>5 DEF Extended, Backed, Sound, Registered
  <2>7. requests[r].read = Len(revisions) => Understood(next)
    <3>1. requests[r].read = Len(revisions) => chosen \subseteq Registered(s)
      BY <1>1, <2>1 DEF Held, chosen
    <3>2. datasets = s.data_profiles /\ Registered(next) = Registered(s)
      BY <1>3, <2>5 DEF s, Registered
    <3> QED BY <2>4, <2>5, <3>1, <3>2 DEF Understood
  <2> QED
    <3>1. \A f \in next.accepted :
            f \in Loaded(r).accepted \/ (requests[r].step \in Uploading /\ f = requests[r].file)
      BY <2>5 DEF s
    <3>2. requests[r].step # "idle" /\ Persist(r, next)
      BY <1>1, <1>3 DEF s, chosen, next
    <3> QED BY <1>1, <2>5, <2>6, <2>7, <3>1, <3>2, PersistStep DEF s
<1> QED
  BY <1>2, <1>3 DEF DataAgentAnswers, DataQualityGate

\* The code is in the store before the run exists.
LEMMA StoreCodeArtifactInv == ASSUME Inv, NEW r \in Request, StoreCodeArtifact(r) PROVE Inv'
<1> DEFINE run == Ran + 1
           k == [requests[r] EXCEPT !.step = "sandbox", !.run = run, !.kept = {CodeOf(run)}]
<1>1. /\ requests[r].step = "code" /\ UNCHANGED <<revisions, drawn>> /\ store \subseteq Object
      /\ requests[r] \in Local /\ Held(requests[r], revisions, store, drawn)
  BY Typed DEF StoreCodeArtifact, At
<1>2. \/ run \in Run /\ store' = store \cup {CodeOf(run)} /\ Become(r, k)
      \/ store' = store /\ End(r)
  BY DEF StoreCodeArtifact
<1> HIDE DEF run
<1>3. CASE run \in Run /\ store' = store \cup {CodeOf(run)} /\ Become(r, k)
  <2>1. CodeOf(run) \in Object
    BY <1>3 DEF CodeOf, Object
  <2> HIDE DEF CodeOf
  <2>2. /\ k \in Local /\ k.step = "sandbox" /\ k.run = run /\ k.kept = {CodeOf(run)}
        /\ k.read = requests[r].read /\ k.next = requests[r].next
    BY <1>1, <1>3, <2>1 DEF Local, Steps
  <2>3. store \subseteq store' /\ store' \subseteq Object
    BY <1>1, <1>3, <2>1
  <2> HIDE DEF k
  <2>4. Held(k, revisions, store', drawn)
    BY <1>1, <1>3, <2>2 DEF Held, Uploading, Waiting
  <2> QED BY <1>1, <1>3, <2>2, <2>3, <2>4, LocalStep DEF Uploading
<1>4. CASE store' = store /\ End(r)
  BY <1>1, <1>4, EndStep
<1> QED
  BY <1>2, <1>3, <1>4

\* The state an execution leads to, whatever its gate has decided.
LEMMA ExecutedFields ==
  ASSUME NEW s \in ProblemState, NEW k \in Local, NEW passed \in BOOLEAN, k.run \in Run
  PROVE  LET next == ExecutedState(s, k, passed) IN
         /\ next \in ProblemState /\ next.data_stage \in {"DATA", "EXECUTION"}
         /\ next.data_understanding = s.data_understanding
         /\ next.registered_files = s.registered_files /\ next.accepted = s.accepted
         /\ next.data_profiles = s.data_profiles
         /\ next.tracked_artifacts = s.tracked_artifacts \cup k.kept
         /\ next.code_files = s.code_files \cup {CodeOf(k.run)}
         /\ s.execution_records \subseteq next.execution_records
         /\ \A execution \in next.execution_records :
              execution \in s.execution_records \/ execution.artifacts = k.kept
<1> DEFINE record == [inputs |-> k.chosen, started |-> k.read, passed |-> passed,
                      artifacts |-> k.kept]
           stage == IF passed THEN "EXECUTION" ELSE "DATA"
           records == s.execution_records \cup {record}
           code == s.code_files \cup {CodeOf(k.run)}
           tracked == s.tracked_artifacts \cup k.kept
           next == ExecutedState(s, k, passed)
<1>1. record \in ExecutionRecord /\ record.artifacts = k.kept
  BY LocalFields DEF ExecutionRecord
<1>2. CodeOf(k.run) \in Object
  BY DEF CodeOf, Object
<1> HIDE DEF record
<1>3. /\ stage \in {"DATA", "EXECUTION"} /\ stage \in DataWorkflowStage
      /\ records \subseteq ExecutionRecord /\ code \subseteq Object /\ tracked \subseteq Object
  BY <1>1, <1>2, Fields, LocalFields DEF DataWorkflowStage
<1>4. next = [s EXCEPT !.data_stage = stage, !.code_files = code,
                       !.execution_records = records, !.tracked_artifacts = tracked]
  BY DEF ExecutedState, record
<1> HIDE DEF stage, records, code, tracked, next
<1>5. /\ next \in ProblemState /\ next.data_stage = stage /\ next.code_files = code
      /\ next.execution_records = records /\ next.tracked_artifacts = tracked
      /\ next.data_understanding = s.data_understanding
      /\ next.registered_files = s.registered_files /\ next.accepted = s.accepted
      /\ next.data_profiles = s.data_profiles
  BY <1>3, <1>4 DEF ProblemState
<1> QED
  BY <1>1, <1>3, <1>5 DEF records, code, tracked, next

\* What the run has left behind is stored before the state that names it.
LEMMA SandboxReturnsInv == ASSUME Inv, NEW r \in Request, SandboxReturns(r) PROVE Inv'
<1> DEFINE s == Loaded(r)
           l(outputs) == [requests[r] EXCEPT !.kept = @ \cup ({requests[r].run} \X outputs)]
<1> PICK outputs \in SUBSET Output :
      /\ store' = store \cup l(outputs).kept
      /\ \/ \E succeeded, readable \in BOOLEAN :
              Persist(r, ExecutedState(s, l(outputs),
                           ExecutionQualityGate(l(outputs), store', succeeded, readable)))
         \/ End(r)
  BY DEF SandboxReturns
<1> DEFINE k == l(outputs)
<1>1. /\ requests[r].step = "sandbox" /\ UNCHANGED <<revisions, drawn>> /\ store \subseteq Object
      /\ requests[r] \in Local /\ Held(requests[r], revisions, store, drawn)
      /\ s \in ProblemState /\ Sound(s, store, drawn) /\ s = revisions[requests[r].read]
  BY Typed DEF SandboxReturns, At, Loaded
<1>2. /\ s.data_stage = "DATA" /\ requests[r].run \in Run
      /\ CodeOf(requests[r].run) \in requests[r].kept /\ requests[r].kept \subseteq store
  BY <1>1 DEF Held
<1>3. {requests[r].run} \X outputs \subseteq Object
  BY <1>2 DEF Object
<1>4. /\ k \in Local /\ k.run = requests[r].run /\ k.kept \subseteq Object
      /\ CodeOf(k.run) \in k.kept
  BY <1>1, <1>2, <1>3 DEF Local
<1> HIDE DEF l, k, s
<1>5. store' = store \cup k.kept /\ store \subseteq store' /\ store' \subseteq Object
  BY <1>1, <1>4 DEF k
<1>6. CASE End(r)
  BY <1>1, <1>5, <1>6, EndStep
<1>7. ASSUME NEW succeeded \in BOOLEAN, NEW readable \in BOOLEAN,
             Persist(r, ExecutedState(s, k, ExecutionQualityGate(k, store', succeeded, readable)))
      PROVE  Inv'
  <2> DEFINE passed == ExecutionQualityGate(k, store', succeeded, readable)
             next == ExecutedState(s, k, passed)
  <2>1. passed \in BOOLEAN /\ Persist(r, next)
    BY <1>7 DEF ExecutionQualityGate
  <2> HIDE DEF passed
  <2>2. /\ next \in ProblemState /\ next.data_stage \in {"DATA", "EXECUTION"}
        /\ next.data_understanding = s.data_understanding
        /\ next.registered_files = s.registered_files /\ next.accepted = s.accepted
        /\ next.data_profiles = s.data_profiles
        /\ next.tracked_artifacts = s.tracked_artifacts \cup k.kept
        /\ next.code_files = s.code_files \cup {CodeOf(k.run)}
        /\ s.execution_records \subseteq next.execution_records
        /\ \A execution \in next.execution_records :
             execution \in s.execution_records \/ execution.artifacts = k.kept
    BY <1>1, <1>2, <1>4, <2>1, ExecutedFields
  <2> HIDE DEF next
  <2>3. Extended(s, next) /\ Understood(next)
    BY <1>1, <1>2, <2>2 DEF Extended, Sound, Understood, Registered
  <2>4. Backed(next, store')
    BY <1>1, <1>4, <1>5, <2>2 DEF Backed, Sound, Registered
  <2>5. \A f \in next.accepted : f \in s.accepted
    BY <2>2
  <2> QED BY <1>1, <1>5, <2>1, <2>2, <2>3, <2>4, <2>5, PersistStep DEF s
<1> QED
  BY <1>6, <1>7 DEF k

LEMMA CheckRevisionInv == ASSUME Inv, NEW r \in Request, CheckRevision(r) PROVE Inv'
<1> DEFINE k == [requests[r] EXCEPT !.step = "flush"]
<1>1. /\ requests[r].step = "check" /\ UNCHANGED <<revisions, store, drawn>>
      /\ store' \subseteq Object
      /\ Become(r, k) \/ End(r)
  BY DEF CheckRevision, At, Inv, TypeOK
<1>2. Held(requests[r], revisions, store, drawn) /\ requests[r] \in Local
  BY Typed
<1>3. k \in Local /\ k.step = "flush" /\ k.read = requests[r].read /\ k.next = requests[r].next
  BY <1>2 DEF Local, Steps
<1> HIDE DEF k
<1>4. Held(k, revisions, store', drawn)
  BY <1>1, <1>2, <1>3 DEF Held, Uploading, Waiting
<1>5. CASE Become(r, k)
  BY <1>1, <1>3, <1>4, <1>5, LocalStep DEF Uploading
<1>6. CASE End(r)
  BY <1>1, <1>6, EndStep
<1> QED
  BY <1>1, <1>5, <1>6

\* What a request appends extends the current revision: the unique constraint
\* lets only the next number in.
LEMMA Appended ==
  ASSUME Inv, NEW r \in Request, ReplaceState(r), UniqueRevision(r)
  PROVE  /\ revisions' = Append(revisions, requests[r].next)
         /\ requests[r].next \in ProblemState /\ Sound(requests[r].next, store, drawn)
         /\ Extended(Current, requests[r].next)
<1>1. /\ requests[r].step = "flush" /\ requests[r] \in Local
      /\ Held(requests[r], revisions, store, drawn) /\ Len(revisions) \in Nat
      /\ requests[r].read \in 1..Len(revisions)
  BY Typed DEF ReplaceState, At
<1>2. requests[r].read = Len(revisions)
  BY <1>1 DEF UniqueRevision
<1>3. Current = revisions[requests[r].read]
  BY <1>2 DEF Current, Last
<1> QED
  BY <1>1, <1>2, <1>3, LocalFields DEF ReplaceState, Held, Waiting, Sound

LEMMA ReplaceStateInv == ASSUME Inv, NEW r \in Request, ReplaceState(r) PROVE Inv'
<1> DEFINE next == requests[r].next
<1>1. /\ UNCHANGED <<store, drawn>> /\ End(r) /\ requests[r].step = "flush"
      /\ store' \subseteq Object
      /\ requests \in [Request -> Local]
  BY DEF ReplaceState, At, Inv, TypeOK
<1>2. CASE UniqueRevision(r)
  <2>1. /\ revisions' = Append(revisions, next) /\ next \in ProblemState
        /\ Sound(next, store, drawn)
    BY <1>2, Appended
  <2>2. /\ requests' \in [Request -> Local] /\ requests'[r] = Idle
        /\ \A q \in Request : q # r => requests'[q] = requests[q]
    BY <1>1, Empty DEF End, Become
  <2>3. \A q \in Request : requests'[q] \in {requests[q], Idle}
    BY <2>2
  <2>4. ASSUME NEW q \in Request, requests'[q].step \in Uploading
        PROVE  requests'[q].file \notin next.accepted
    <3>1. q # r /\ requests'[q] = requests[q]
      BY <2>2, <2>4, Empty DEF Uploading
    <3> QED BY <2>4, <3>1 DEF Inv, FilesInv
  <2> HIDE DEF next
  <2> QED BY <1>1, <2>1, <2>2, <2>3, <2>4, AppendStep
<1>3. CASE ~UniqueRevision(r)
  <2>1. UNCHANGED <<revisions, drawn>>
    BY <1>1, <1>3 DEF ReplaceState
  <2> QED BY <1>1, <2>1, EndStep
<1> QED
  BY <1>2, <1>3

LEMMA OtherRevisionInv == ASSUME Inv, OtherRevision PROVE Inv'
<1>1. /\ revisions' = Append(revisions, Current)
      /\ UNCHANGED <<store, drawn, requests>> /\ requests \in [Request -> Local]
      /\ revisions \in Seq(ProblemState) /\ revisions # <<>>
  BY DEF OtherRevision, Inv, TypeOK, RevisionsInv
<1>2. /\ Current = revisions[Len(revisions)] /\ Len(revisions) \in 1..Len(revisions)
      /\ Current \in ProblemState /\ Sound(Current, store, drawn)
  BY <1>1 DEF Current, Last, Inv, RevisionsInv
<1>3. \A q \in Request : requests'[q].step \in Uploading => requests'[q].file \notin Current.accepted
  BY <1>1, <1>2 DEF Inv, RequestsInv, Held
<1> QED
  BY <1>1, <1>2, <1>3, AppendStep

LEMMA DiesInv == ASSUME Inv, NEW r \in Request, Dies(r) PROVE Inv'
<1>1. /\ End(r) /\ UNCHANGED <<revisions, store, drawn>>
      /\ store' \subseteq Object
  BY DEF Dies, Inv, TypeOK
<1> QED
  BY <1>1, EndStep

LEMMA NextInv == Inv /\ [Next]_vars => Inv'
<1> SUFFICES ASSUME Inv, [Next]_vars PROVE Inv'
  OBVIOUS
<1>1. CASE OtherRevision
  BY <1>1, OtherRevisionInv
<1>2. ASSUME NEW r \in Request,
             IngestFile(r) \/ AnalyzeData(r) \/ ExecuteCode(r) \/ Dies(r)
      PROVE  Inv'
  BY <1>2, IngestFileInv, AnalyzeDataInv, ExecuteCodeInv, DiesInv
<1>3. ASSUME NEW r \in Request, Progress(r) PROVE Inv'
  BY <1>3, StageStreamInv, DiscardStagedInv, CommitUploadInv, ParseInv, StoreInv,
     FilesGateInv, MultimodalAssetsInv, DataAgentAnswersInv, ReadInputsInv,
     StoreCodeArtifactInv, SandboxReturnsInv, CheckRevisionInv, ReplaceStateInv DEF Progress
<1>4. CASE UNCHANGED vars
  BY <1>4 DEF vars, Inv, TypeOK, RevisionsInv, RequestsInv, FilesInv
<1> QED
  BY <1>1, <1>2, <1>3, <1>4 DEF Next

-----------------------------------------------------------------------------
(* The theorems.                                                             *)

\* Whatever requests overlap, fail or die, the invariant holds.
THEOREM Invariance == Spec => []Inv
BY InitInv, NextInv, PTL DEF Spec

\* The revisions, the file store and the requests keep their types.
THEOREM TypeCorrectness == Spec => []TypeOK
<1>1. Inv => TypeOK
  BY DEF Inv
<1> QED
  BY <1>1, Invariance, PTL

\* Code runs only on an understanding of every accepted attachment: an analysis
\* that was overtaken by an upload can never be appended.
THEOREM UnderstandingCorrectness == Spec => []UnderstandingIsCurrent
<1>1. Inv => UnderstandingIsCurrent
  <2> SUFFICES ASSUME Inv PROVE UnderstandingIsCurrent
    OBVIOUS
  <2>1. revisions \in Seq(ProblemState) /\ revisions # <<>>
    BY DEF Inv, TypeOK, RevisionsInv
  <2>2. Understood(Current)
    BY <2>1 DEF Inv, RevisionsInv, Sound, Current, Last
  <2> QED BY <2>2 DEF Understood, UnderstandingIsCurrent
<1> QED
  BY <1>1, Invariance, PTL

\* The transaction names only objects that were written before it.
THEOREM BytesCorrectness == Spec => []BytesBehindRows
<1>1. Inv => BytesBehindRows
  <2> SUFFICES ASSUME Inv, NEW s \in Range(revisions)
               PROVE  /\ s.tracked_artifacts \cup (Registered(s) \X {"raw"})
                                                \cup s.code_files \subseteq store
                      /\ \A execution \in s.execution_records :
                           execution.artifacts \subseteq store
    BY DEF BytesBehindRows
  <2>1. PICK i \in 1..Len(revisions) : s = revisions[i]
    BY DEF Range, Inv, TypeOK
  <2>2. Backed(s, store)
    BY <2>1 DEF Inv, RevisionsInv, Sound
  <2> QED BY <2>2 DEF Backed
<1> QED
  BY <1>1, Invariance, PTL

\* Of two requests on one revision only one appends, with or without a lock.
THEOREM NoLossCorrectness == Spec => NothingIsLost
<1> DEFINE Kept == Extended(Current, Current')
<1>1. Inv /\ [Next]_vars => Kept \/ UNCHANGED vars
  <2> SUFFICES ASSUME Inv, [Next]_vars, ~UNCHANGED vars PROVE Kept
    OBVIOUS
  <2>1. /\ revisions \in Seq(ProblemState) /\ revisions # <<>> /\ Len(revisions) \in Nat
        /\ Current \in ProblemState
    BY DEF Inv, TypeOK, RevisionsInv, Current, Last
  <2>2. CASE revisions' = revisions
    BY <2>2 DEF Current, Extended
  <2>3. ASSUME NEW s \in ProblemState, revisions' = Append(revisions, s), Extended(Current, s)
        PROVE  Kept
    <3>1. Current' = s
      BY <2>1, <2>3 DEF Current, Last
    <3> QED BY <2>3, <3>1
  <2>4. CASE OtherRevision
    BY <2>1, <2>3, <2>4 DEF OtherRevision, Extended
  <2>5. ASSUME NEW r \in Request, ReplaceState(r) PROVE Kept
    <3>1. CASE UniqueRevision(r)
      BY <2>3, <2>5, <3>1, Appended
    <3>2. CASE ~UniqueRevision(r)
      BY <2>2, <2>5, <3>2 DEF ReplaceState
    <3> QED BY <3>1, <3>2
  <2>6. ASSUME NEW r \in Request, IngestFile(r) \/ AnalyzeData(r) \/ ExecuteCode(r) \/ Dies(r)
        PROVE  revisions' = revisions
    BY <2>6 DEF IngestFile, AnalyzeData, ExecuteCode, Begin, Dies
  <2>7. ASSUME NEW r \in Request, Progress(r), ~ReplaceState(r) PROVE revisions' = revisions
    BY <2>7 DEF Progress, StageStream, DiscardStaged, CommitUpload, Parse,
       StoreGeneratedArtifact, FilesGate, MultimodalAssets, DataAgentAnswers,
       ReadInputs, StoreCodeArtifact, SandboxReturns, CheckRevision
  <2> QED
    BY <2>2, <2>4, <2>5, <2>6, <2>7 DEF Next
<1>2. Kept \/ UNCHANGED vars =>
        [/\ Registered(Current) \subseteq Registered(Current')
         /\ Current.tracked_artifacts \subseteq Current'.tracked_artifacts
         /\ Current.data_profiles \subseteq Current'.data_profiles
         /\ Current.code_files \subseteq Current'.code_files
         /\ Current.execution_records \subseteq Current'.execution_records]_vars
  BY DEF Extended
<1> QED
  BY <1>1, <1>2, Invariance, PTL DEF Spec, NothingIsLost
=============================================================================
