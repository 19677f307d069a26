-------------------------------- MODULE Paper ---------------------------------
(***************************************************************************)
(* Phase 6: literature searches and paper builds of one project with a     *)
(* verified result, as requests that run at the same time.  A build reads  *)
(* the state, draws the identity of its version, and only then awaits its  *)
(* agents; its version and the revision are stored in one transaction.     *)
(***************************************************************************)
EXTENDS WorkflowStages, Naturals, Sequences, FiniteSets, FiniteSetsExt

CONSTANTS
  Client,       \* the requests that can be in progress at once
  Reference,    \* what the literature source can find
  LiveSource,   \* whether the source stamps every record it retrieves
  MaxRequests   \* bound: how many requests are ever submitted

ASSUME LiveSourceAssumption == LiveSource \in BOOLEAN
ASSUME MaxRequestsAssumption == MaxRequests \in Nat

VARIABLES
  proj,        \* the current revision
  papers,      \* the rows of paper_versions
  references,  \* the rows of references
  store,       \* the objects of the file store
  drawn,       \* how many requests were submitted
  clock,       \* how many records were given their created_at
  requests     \* the local state of every request

paperStored == <<proj, papers, references, store, clock>>

\* Every request draws identifiers of its own, and draws each kind once.
Ticket == 1..MaxRequests

PaperQualityStatus == {"FAILED", "HUMAN_REVIEW", "READY_FOR_FINAL_JURY"}

\* A manifest hash stands for the content of one build; 0 is None.
PaperVersionRef ==
  [paper_id : Ticket, version : Nat, status : PaperQualityStatus, manifest_hash : {0} \cup Ticket]

PaperVersion == [ref : PaperVersionRef, created_at : Nat]

ReferenceRecord == [reference_id : Reference, verified : BOOLEAN, retrieved_at : Nat]

\* The artifacts of a build or of a package, and whether their bytes are the
\* ones that were stored.
Object == [owner : Ticket, kind : {"paper", "package"}]

SubmissionState ==
  [ jury_report_id : {0} \cup Ticket,
    status         : {"NONE", "DIRTY", "CHECKING", "FAILED", "HUMAN_REVIEW",
                       "READY", "FROZEN"} ]

ProblemState ==
  [ version              : Nat,
    current_stage        : WorkflowStage,
    status               : {"RUNNING", "SUCCEEDED", "HUMAN_REVIEW", "FAILED"},
    paper_versions       : Seq(PaperVersionRef),
    submission_snapshots : Seq(Ticket),
    submission_state     : SubmissionState ]

\* The project as Phase 5 leaves it: its result is verified.
VerifiedProject ==
  [ version |-> 0, current_stage |-> "RED_TEAM", status |-> "SUCCEEDED",
    paper_versions |-> <<>>, submission_snapshots |-> <<>>,
    submission_state |-> [jury_report_id |-> 0, status |-> "NONE"] ]

NoRef == [paper_id |-> 0, version |-> 0, status |-> "FAILED", manifest_hash |-> 0]

\* What a request knows; the fields after ref belong to final runs.
Idle ==
  [ step |-> "idle", ticket |-> 0, base |-> VerifiedProject, ref |-> NoRef,
    found |-> {}, created |-> 0, freeze |-> FALSE, rules |-> "PASS",
    decision |-> "FAIL", check |-> "FAIL", frozen |-> 0 ]

PaperInit ==
  /\ proj = VerifiedProject
  /\ papers = {} /\ references = {}
  /\ store = [object \in {} |-> "intact"]
  /\ drawn = 0 /\ clock = 0
  /\ requests = [c \in Client |-> Idle]

-----------------------------------------------------------------------------
(* One step of a request.                                                    *)

At(c, step) == requests[c].step = step

Become(c, local) == requests' = [requests EXCEPT ![c] = local]

Go(c, step) == Become(c, [requests[c] EXCEPT !.step = step])

\* The request is answered: with its outcome, or with an error.
End(c) == Become(c, Idle)

Submit(c, step) ==
  /\ At(c, "idle")
  /\ drawn < MaxRequests
  /\ drawn' = drawn + 1
  /\ Become(c, [Idle EXCEPT !.step = step, !.ticket = drawn + 1])
  /\ UNCHANGED paperStored

\* An agent, the compiler or the process fails; what was stored stays.
Fail(c) ==
  /\ ~At(c, "idle")
  /\ End(c)
  /\ UNCHANGED <<paperStored, drawn>>

\* Bytes written under a key of the request's own.
Stored(object) ==
  [o \in DOMAIN store \cup {object} |-> IF o = object THEN "intact" ELSE store[o]]

PaperObject(ticket) == [owner |-> ticket, kind |-> "paper"]

-----------------------------------------------------------------------------
(* VerifiedEvidenceBuilder                                                   *)

\* build() takes a revision only if it is successful: "paper evidence requires
\* a successfully completed state".
EvidenceAccepted(state) == state.status = "SUCCEEDED"

\* A build checks the transition as well, a mere search does not.
BuildEvidence(c) ==
  /\ \/ At(c, "evidence") /\ CanEnter(proj.current_stage, "PAPER")
     \/ At(c, "search")
  /\ EvidenceAccepted(proj)
  /\ Become(c, [requests[c] EXCEPT !.base = proj,
                                   !.step = IF @ = "search" THEN "sources" ELSE "identity"])
  /\ UNCHANGED <<paperStored, drawn>>

-----------------------------------------------------------------------------
(* PaperRepository                                                           *)

Newest(rows) == CHOOSE row \in rows : \A other \in rows : other.created_at <= row.created_at

\* One more than the latest version, by created_at, or a new paper.
NextIdentity(c) ==
  /\ At(c, "identity")
  /\ LET identity ==
           IF papers = {} THEN [NoRef EXCEPT !.paper_id = requests[c].ticket, !.version = 1]
           ELSE LET last == Newest(papers).ref IN
                  [NoRef EXCEPT !.paper_id = last.paper_id, !.version = last.version + 1]
     IN Become(c, [requests[c] EXCEPT !.ref = identity, !.step = "literature"])
  /\ UNCHANGED <<paperStored, drawn>>

\* A row for the same identifier has to be the same record, time included.
Conflicting(found) ==
  \E new \in found, row \in references : row.reference_id = new.reference_id /\ row # new

\* What a search can come back with: at least one record, each of them either
\* confirmed by the source or not.
Verdicts == UNION { [ids -> BOOLEAN] : ids \in (SUBSET Reference) \ {{}} }

RecordsOf(verdicts, ticket) ==
  { [reference_id |-> id, verified |-> verdicts[id],
     retrieved_at |-> IF LiveSource THEN ticket ELSE 0] : id \in DOMAIN verdicts }

\* The literature agent, the searches and persist_literature, in a transaction
\* of its own.  attach_references refuses what is not verified, afterwards.
PersistLiterature(c) ==
  /\ At(c, "literature") \/ At(c, "sources")
  /\ \E verdicts \in Verdicts :
       LET found == RecordsOf(verdicts, requests[c].ticket) IN
       IF Conflicting(found) THEN End(c) /\ UNCHANGED references
       ELSE /\ references' = references \cup found
            /\ IF At(c, "literature") /\ \A r \in found : r.verified
               THEN Become(c, [requests[c] EXCEPT !.found = found, !.step = "author"])
               ELSE End(c)
  /\ UNCHANGED <<proj, papers, store, clock, drawn>>

\* PaperWorkflow from its assets to its quality gate: figures and tables are
\* stored, the author and the audit are awaited, the paper is compiled and, if
\* that succeeds, gets its manifest.  Only then can the gate find it ready.
Compose(c) ==
  /\ At(c, "author")
  /\ clock' = clock + 1
  /\ store' = Stored(PaperObject(requests[c].ticket))
  /\ \E compiled \in BOOLEAN, status \in PaperQualityStatus :
       /\ status = "READY_FOR_FINAL_JURY" => compiled
       /\ Become(c, [requests[c] EXCEPT
            !.step = "persist", !.created = clock + 1, !.ref.status = status,
            !.ref.manifest_hash = IF compiled THEN requests[c].ticket ELSE 0])
  /\ UNCHANGED <<proj, papers, references, drawn>>

\* Mutant: a new paper starts with a clean submission record.
PaperStateBug(base, ref) ==
  [base EXCEPT !.version = @ + 1, !.current_stage = "PAPER",
     !.status = CASE ref.status = "READY_FOR_FINAL_JURY" -> "SUCCEEDED"
                  [] ref.status = "HUMAN_REVIEW" -> "HUMAN_REVIEW"
                  [] OTHER -> "FAILED",
     !.paper_versions = Append(@, ref), !.submission_snapshots = <<>>]

\* PaperWorkflow._state.
PaperState(base, ref) ==
  [base EXCEPT !.version = @ + 1, !.current_stage = "PAPER",
     !.status = CASE ref.status = "READY_FOR_FINAL_JURY" -> "SUCCEEDED"
                  [] ref.status = "HUMAN_REVIEW" -> "HUMAN_REVIEW"
                  [] OTHER -> "FAILED",
     !.paper_versions = Append(@, ref)]

\* Mutant: the revision is not compared.
ValidateNextRevisionBug(state) == TRUE

ValidateNextRevision(state) == state.version = proj.version + 1

\* The unique key of paper_versions.
UniqueVersion(ref) ==
  \A row \in papers : row.ref.paper_id # ref.paper_id \/ row.ref.version # ref.version

PersistPaper(c) ==
  LET k == requests[c]
      state == PaperState(k.base, k.ref) IN
  /\ At(c, "persist")
  /\ IF ValidateNextRevision(state) /\ UniqueVersion(k.ref) /\ ~Conflicting(k.found)
     THEN /\ papers' = papers \cup {[ref |-> k.ref, created_at |-> k.created]}
          /\ references' = references \cup k.found
          /\ proj' = state
     ELSE UNCHANGED <<papers, references, proj>>
  /\ End(c)
  /\ UNCHANGED <<store, clock, drawn>>

PaperStep(c) ==
  \/ BuildEvidence(c) \/ NextIdentity(c) \/ PersistLiterature(c)
  \/ Compose(c) \/ PersistPaper(c)

\* Another workflow appends a revision: an attachment, an analysis, a program.
SaveElsewhere ==
  /\ drawn < MaxRequests
  /\ drawn' = drawn + 1
  /\ proj' = [proj EXCEPT !.version = @ + 1]
  /\ UNCHANGED <<papers, references, store, clock, requests>>

-----------------------------------------------------------------------------
(* Properties.                                                               *)

\* The versions of the paper carry one identity and the numbers 1, 2, ... in
\* the order of their creation, and the state refers to exactly these rows:
\* although identities are drawn before the agents run and rows are read by
\* created_at, builds that overlap or fail leave neither a gap nor a twin.
PapersAreNumbered ==
  /\ Cardinality(papers) = Len(proj.paper_versions)
  /\ \A i \in DOMAIN proj.paper_versions :
       /\ proj.paper_versions[i].version = i
       /\ proj.paper_versions[i].paper_id = proj.paper_versions[1].paper_id
       /\ \E row \in papers :
            /\ row.ref = proj.paper_versions[i]
            /\ \A other \in papers :
                 other.ref.version < i => other.created_at < row.created_at

\* docs/STATE_MODEL.md, the diagram of the stages: a correction or a recheck
\* leads back to PAPER.  Wherever the table allows a new build of a paper,
\* the evidence builder takes the state.
PaperCanBeCorrected ==
  proj.paper_versions # <<>> /\ CanEnter(proj.current_stage, "PAPER")
    => EvidenceAccepted(proj)
=============================================================================
