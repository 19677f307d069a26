--------------------------- MODULE SubmissionProofs ---------------------------
(***************************************************************************)
(* The safety properties of papers and submissions for any number of       *)
(* requests.  A request works on a revision it loaded long ago.  The       *)
(* invariant says what it may still rely on: while the version of that     *)
(* revision is the current one nothing was appended since, so that the     *)
(* identity it drew and the times it stamped are still the newest.  Once   *)
(* the project has moved on, the request can commit nothing.               *)
(***************************************************************************)
EXTENDS Submission, FiniteSetTheorems, TLAPS

Steps ==
  {"idle", "evidence", "search", "identity", "sources", "literature", "author",
   "persist", "final", "paper", "jury", "freeze", "commit"}

\* A base has been loaded.
Loaded ==
  {"identity", "sources", "literature", "author", "persist", "paper", "jury",
   "freeze", "commit"}

\* A paper is being written under the identity that was drawn for it.
Drafting == {"literature", "author", "persist"}

\* A paper version has been chosen, and later judged, by a final run.
Reviewing == {"jury", "freeze", "commit"}

Judged == {"freeze", "commit"}

Draft ==
  [paper_id : {0} \cup Ticket, version : Nat, status : PaperQualityStatus,
   manifest_hash : {0} \cup Ticket]

Request ==
  [ step : Steps, ticket : {0} \cup Ticket, base : ProblemState, ref : Draft,
    found : SUBSET ReferenceRecord, created : Nat, freeze : BOOLEAN, rules : RuleOutcome,
    decision : JuryDecision, check : SubmissionCheckStatus, frozen : Nat ]

\* The rows, the state, the store and the requests are what they are declared
\* to be: types of the tables of Phase 6 and Phase 7.
TypeOK ==
  /\ proj \in ProblemState
  /\ papers \subseteq PaperVersion /\ IsFiniteSet(papers)
  /\ references \subseteq ReferenceRecord
  /\ store \in [DOMAIN store -> {"intact", "changed"}] /\ DOMAIN store \subseteq Object
  /\ drawn \in 0 .. MaxRequests /\ clock \in Nat /\ expired \in Nat
  /\ requests \in [Client -> Request]
  /\ juries \subseteq FinalJuryReport
  /\ checks \subseteq SubmissionCheckResult
  /\ snapshots \subseteq SubmissionSnapshot

-----------------------------------------------------------------------------
(* The invariant.                                                            *)

Versions == proj.paper_versions

Frozen == proj.submission_snapshots

Package(ticket) == [owner |-> ticket, kind |-> "package"]

\* The packed bytes are there, and are the ones that were approved.
Packed(ticket) == Package(ticket) \in DOMAIN store /\ store[Package(ticket)] = "intact"

\* Some request in progress was given this ticket.
Held(ticket) == \E c \in Client : ~At(c, "idle") /\ requests[c].ticket = ticket

\* Drawn by a request that has ended.
Spent(ticket) == ticket \in 1..drawn /\ ~Held(ticket)

TicketInv ==
  /\ \A c \in Client : ~At(c, "idle") => requests[c].ticket \in 1..drawn
  /\ \A c, d \in Client :
       ~At(c, "idle") /\ ~At(d, "idle") /\ requests[c].ticket = requests[d].ticket => c = d
  /\ \A s \in snapshots : Spent(s.submission_id)
  /\ \A i \in DOMAIN Frozen : Spent(Frozen[i])

PapersInv ==
  /\ Cardinality(papers) = Len(Versions)
  /\ \A i \in DOMAIN Versions :
       /\ Versions[i].version = i /\ Versions[i].paper_id = Versions[1].paper_id
       /\ \E row \in papers : row.ref = Versions[i]
  /\ \A row \in papers :
       /\ row.ref.version \in DOMAIN Versions /\ row.ref = Versions[row.ref.version]
       /\ row.created_at <= clock
  /\ \A r, s \in papers :
       /\ r.ref.version < s.ref.version => r.created_at < s.created_at
       /\ r.ref.version = s.ref.version => r = s

\* The identity of the next version.
NextInLine(ref) ==
  /\ ref.version = Len(Versions) + 1
  /\ Versions # <<>> => ref.paper_id = Versions[1].paper_id

Listed(ref) == \E i \in DOMAIN Versions : Versions[i] = ref

Ready(ref) ==
  /\ \E row \in papers : row.ref = ref
  /\ ref.status = "READY_FOR_FINAL_JURY"

Passed(k) == k.decision = "PASS" /\ k.check = "PASS"

\* Nothing was appended since k loaded its base.
UpToDate(k) == k.base.version = proj.version

\* What a request has in hand.
Holds(k) ==
  /\ k.step \in Loaded =>
       k.base.version <= proj.version /\ (UpToDate(k) => k.base = proj)
  /\ k.step \in Drafting => k.ref.paper_id \in Ticket /\ (UpToDate(k) => NextInLine(k.ref))
  /\ k.step = "persist" =>
       k.created <= clock /\ (UpToDate(k) => \A row \in papers : row.created_at < k.created)
  /\ k.step \in Reviewing =>
       /\ k.ref \in PaperVersionRef /\ Ready(k.ref)
       /\ \E i \in DOMAIN k.base.paper_versions : k.base.paper_versions[i] = k.ref
  /\ k.step \in Judged =>
       /\ k.created <= clock
       /\ UpToDate(k) => \A jury \in juries : jury.created_at < k.created
       /\ k.check = "PASS" => k.decision = "PASS"
  /\ k.step # "commit" => k.frozen = 0
  /\ k.step = "freeze" => Passed(k)
  /\ k.frozen # 0 =>
       /\ Passed(k) /\ Packed(k.ticket) /\ k.frozen <= clock
       /\ expired = 0 \/ k.frozen < expired
       /\ UpToDate(k) => \A s \in snapshots : s.created_at < k.frozen

RequestsInv == \A c \in Client : Holds(requests[c])

SnapshotInv ==
  \A s \in snapshots :
    /\ \E jury \in juries :
         jury.report_id = s.jury_report_id /\ jury.decision = "PASS" /\ jury.ref = s.ref
    /\ \E check \in checks :
         /\ check.check_id = s.check_id /\ check.status = "PASS"
         /\ check.jury_report_id = s.jury_report_id
    /\ Packed(s.submission_id)
    /\ expired = 0 \/ s.created_at < expired
    /\ s.created_at <= clock
    /\ Ready(s.ref) /\ Listed(s.ref)
    /\ \E i \in DOMAIN Frozen :
         Frozen[i] = s.submission_id /\ \A j \in DOMAIN Frozen : Frozen[j] = s.submission_id => j = i

\* row is younger than all others.
Youngest(row, rows) == \A other \in rows : other # row => other.created_at < row.created_at

ReadinessInv ==
  /\ \A jury \in juries : jury.created_at <= clock
  /\ juries # {} =>
       \E jury \in juries :
         /\ Youngest(jury, juries)
         /\ proj.submission_state.jury_report_id = jury.report_id
         /\ proj.submission_state.status \in {"READY", "FROZEN"} =>
              /\ jury.decision = "PASS"
              /\ \E check \in checks :
                   check.jury_report_id = jury.report_id /\ check.status = "PASS"
         /\ proj.submission_state.status = "FROZEN" =>
              \E s \in snapshots :
                /\ Youngest(s, snapshots)
                /\ Frozen # <<>> /\ Frozen[Len(Frozen)] = s.submission_id

Inv ==
  /\ TypeOK /\ TicketInv /\ PapersInv
  /\ RequestsInv /\ SnapshotInv /\ ReadinessInv

-----------------------------------------------------------------------------
(* Types.                                                                    *)

LEMMA IdleRequest ==
  /\ Idle \in Request /\ Idle.step = "idle" /\ Idle.frozen = 0
  /\ VerifiedProject \in ProblemState
<1>1. VerifiedProject \in ProblemState
  BY DEF VerifiedProject, ProblemState, SubmissionState, WorkflowStage
<1>2. NoRef \in Draft
  BY DEF NoRef, Draft, PaperQualityStatus
<1>. QED
  <2> HIDE DEF VerifiedProject, NoRef, ProblemState, Draft
  <2> QED BY <1>1, <1>2
        DEF Idle, Request, Steps, RuleOutcome, JuryDecision, SubmissionCheckStatus

\* What the fields of a request are.
LEMMA RequestFields ==
  ASSUME NEW k \in Request
  PROVE  /\ k.step \in Steps /\ k.ticket \in {0} \cup Ticket /\ k.base \in ProblemState
         /\ k.ref \in Draft /\ k.found \subseteq ReferenceRecord /\ k.created \in Nat
         /\ k.freeze \in BOOLEAN /\ k.rules \in RuleOutcome /\ k.decision \in JuryDecision
         /\ k.check \in SubmissionCheckStatus /\ k.frozen \in Nat
  BY DEF Request

LEMMA StateFields ==
  ASSUME NEW s \in ProblemState
  PROVE  /\ s.version \in Nat /\ s.current_stage \in WorkflowStage
         /\ s.paper_versions \in Seq(PaperVersionRef)
         /\ s.submission_snapshots \in Seq(Ticket)
         /\ s.submission_state \in SubmissionState
  BY DEF ProblemState

LEMMA InitInv == SubmissionInit => Inv
<1> SUFFICES ASSUME SubmissionInit PROVE Inv
  OBVIOUS
<1> USE DEF SubmissionInit, PaperInit
<1>1. TypeOK
  <2>1. requests \in [Client -> Request]
    BY IdleRequest
  <2>2. IsFiniteSet(papers)
    BY FS_EmptySet
  <2>3. store \in [DOMAIN store -> {"intact", "changed"}] /\ DOMAIN store \subseteq Object
    OBVIOUS
  <2> QED BY <2>1, <2>2, <2>3, IdleRequest, MaxRequestsAssumption DEF TypeOK
<1>2. TicketInv
  <2>1. DOMAIN Frozen = {}
    BY DEF Frozen, VerifiedProject
  <2> QED BY <2>1, IdleRequest DEF TicketInv, At
<1>3. PapersInv
  BY FS_EmptySet DEF PapersInv, Versions, VerifiedProject
<1>4. RequestsInv
  BY IdleRequest DEF RequestsInv, Holds, Loaded, Drafting, Reviewing, Judged
<1>5. SnapshotInv /\ ReadinessInv
  BY DEF SnapshotInv, ReadinessInv
<1> QED BY <1>1, <1>2, <1>3, <1>4, <1>5 DEF Inv

-----------------------------------------------------------------------------
(* Steps of a request that append nothing.                                   *)

\* All packages but the request's own are as they were.
KeepsPackages(ticket) ==
  \A t \in Ticket \ {ticket} :
    Packed(t) => Package(t) \in DOMAIN store' /\ store'[Package(t)] = "intact"

LEMMA LocalStep ==
  ASSUME Inv, NEW c \in Client, NEW l \in Request,
         ~At(c, "idle"), Become(c, l), l.step = "idle" \/ l.ticket = requests[c].ticket,
         UNCHANGED <<proj, papers, approvals, expired, drawn>>,
         references' \subseteq ReferenceRecord, clock' \in Nat, clock <= clock',
         store' \in [DOMAIN store' -> {"intact", "changed"}], DOMAIN store' \subseteq Object,
         KeepsPackages(requests[c].ticket), Holds(l)'
  PROVE  Inv'
<1> USE DEF approvals, Become
<1>1. TypeOK'
  BY DEF Inv, TypeOK
<1>2. \A d \in Client : requests'[d] = IF d = c THEN l ELSE requests[d]
  BY DEF Inv, TypeOK
<1>3. requests[c].ticket \in Ticket /\ \A t : Spent(t) => t \in Ticket \ {requests[c].ticket}
  BY MaxRequestsAssumption DEF Inv, TicketInv, TypeOK, Spent, Held, Ticket
<1>4. \A t : Spent(t) => Spent(t)'
  BY <1>2 DEF Spent, Held, At
<1>5. TicketInv'
  BY <1>2, <1>4 DEF Inv, TicketInv, At, Frozen
<1>6. PapersInv'
  BY DEF Inv, PapersInv, Versions, TypeOK, PaperVersion
<1>7. RequestsInv'
  <2> SUFFICES ASSUME NEW d \in Client, d # c PROVE Holds(requests[d])'
    BY <1>2 DEF RequestsInv
  <2>1. requests'[d] = requests[d] /\ Holds(requests[d])
    BY <1>2 DEF Inv, RequestsInv
  <2>2. requests[d].step # "idle" => requests[d].ticket \in Ticket \ {requests[c].ticket}
    BY MaxRequestsAssumption DEF Inv, TicketInv, At, TypeOK, Ticket
  <2>3. requests[d].frozen # 0 => Packed(requests[d].ticket)'
    BY <2>1, <2>2 DEF Holds, KeepsPackages, Packed
  <2>4. requests[d].created \in Nat /\ requests[d].frozen \in Nat
    BY RequestFields DEF Inv, TypeOK
  <2> DEFINE k == requests[d]
  <2> HIDE DEF k
  <2>5. Holds(k)'
    BY <2>1, <2>3, <2>4 DEF k, Holds, UpToDate, NextInLine, Versions, Ready, Passed, Inv, TypeOK
  <2> QED BY <2>1, <2>5 DEF k
<1>8. SnapshotInv'
  BY <1>3 DEF Inv, SnapshotInv, TicketInv, KeepsPackages, Packed, Ready, Listed, Versions, Frozen, TypeOK,
       SubmissionSnapshot
<1>9. ReadinessInv'
  BY DEF Inv, ReadinessInv, Youngest, Frozen, TypeOK, FinalJuryReport
<1> QED BY <1>1, <1>5, <1>6, <1>7, <1>8, <1>9 DEF Inv

LEMMA SameStore ==
  ASSUME Inv, UNCHANGED store, NEW t
  PROVE  /\ KeepsPackages(t)
         /\ store' \in [DOMAIN store' -> {"intact", "changed"}] /\ DOMAIN store' \subseteq Object
  BY DEF Inv, TypeOK, KeepsPackages, Packed

\* A request that is refused, fails or ends leaves nothing behind but records.
LEMMA EndStep ==
  ASSUME Inv, NEW c \in Client, ~At(c, "idle"), End(c),
         UNCHANGED <<proj, papers, approvals, expired, drawn, store>>,
         references' \subseteq ReferenceRecord, clock' \in Nat, clock <= clock'
  PROVE  Inv'
<1> PICK l \in Request : l = Idle
  BY IdleRequest
<1>1. l.step = "idle" /\ l.frozen = 0
  BY IdleRequest
<1>2. Holds(l)'
  BY <1>1 DEF Holds, Loaded, Drafting, Reviewing, Judged
<1>3. Become(c, l)
  BY DEF End
<1> QED BY <1>1, <1>2, <1>3, LocalStep, SameStore DEF approvals

LEMMA FailInv ==
  ASSUME Inv, NEW c \in Client, Fail(c), UNCHANGED <<approvals, expired>>
  PROVE  Inv'
<1>1. references' \subseteq ReferenceRecord /\ clock' \in Nat /\ clock <= clock'
  BY DEF Fail, paperStored, Inv, TypeOK
<1> QED BY <1>1, EndStep DEF Fail, paperStored, approvals

\* The request of a step that only fills in local fields.
LEMMA GoStep ==
  ASSUME Inv, NEW c \in Client, NEW l \in Request, ~At(c, "idle"), Become(c, l),
         l.ticket = requests[c].ticket, Holds(l),
         UNCHANGED <<paperStored, drawn, approvals, expired>>
  PROVE  Inv'
<1>1. Holds(l)'
  BY DEF Holds, UpToDate, NextInLine, Ready, Packed, Versions, paperStored, approvals
<1>2. references' \subseteq ReferenceRecord /\ clock' \in Nat /\ clock <= clock'
  BY DEF paperStored, Inv, TypeOK
<1> QED BY <1>1, <1>2, LocalStep, SameStore DEF paperStored, approvals

LEMMA LoadFinalInv ==
  ASSUME Inv, NEW c \in Client, LoadFinal(c)
  PROVE  Inv'
<1> PICK l : l = [requests[c] EXCEPT !.base = proj, !.step = "paper"]
  OBVIOUS
<1>1. requests[c] \in Request /\ requests[c].step = "final" /\ proj \in ProblemState
  BY DEF Inv, TypeOK, LoadFinal, At
<1>2. requests[c].frozen = 0
  BY <1>1 DEF Inv, RequestsInv, Holds
<1>3. l \in Request /\ l.step = "paper" /\ l.base = proj /\ l.frozen = 0
      /\ l.ticket = requests[c].ticket
  BY <1>1, <1>2 DEF Request, Steps
<1>4. Holds(l)
  BY <1>1, <1>3, StateFields DEF Holds, Loaded, Drafting, Reviewing, Judged, UpToDate
<1> QED BY <1>1, <1>3, <1>4, GoStep DEF LoadFinal, At

LEMMA BuildEvidenceInv ==
  ASSUME Inv, NEW c \in Client, BuildEvidence(c), UNCHANGED <<approvals, expired>>
  PROVE  Inv'
<1> PICK l : l = [requests[c] EXCEPT !.base = proj,
                    !.step = IF @ = "search" THEN "sources" ELSE "identity"]
  OBVIOUS
<1>1. requests[c] \in Request /\ requests[c].step \in {"evidence", "search"}
      /\ proj \in ProblemState
  BY DEF Inv, TypeOK, BuildEvidence, At
<1>2. requests[c].frozen = 0
  BY <1>1 DEF Inv, RequestsInv, Holds
<1>3. l \in Request /\ l.step \in {"sources", "identity"} /\ l.base = proj /\ l.frozen = 0
      /\ l.ticket = requests[c].ticket
  BY <1>1, <1>2 DEF Request, Steps
<1>4. Holds(l)
  BY <1>1, <1>3, StateFields DEF Holds, Loaded, Drafting, Reviewing, Judged, UpToDate
<1> QED BY <1>1, <1>3, <1>4, GoStep DEF BuildEvidence, At

\* The latest row, by created_at, is the one with the greatest version.
LEMMA NewestPaper ==
  ASSUME Inv, papers # {}
  PROVE  Versions # <<>> /\ Newest(papers) \in papers
         /\ Newest(papers).ref = Versions[Len(Versions)]
<1>1. Versions \in Seq(PaperVersionRef) /\ papers \subseteq PaperVersion
  BY StateFields DEF Inv, TypeOK, Versions
<1>2. PICK any \in papers : TRUE
  OBVIOUS
<1>3. any.ref.version \in DOMAIN Versions
  BY DEF Inv, PapersInv
<1>4. Len(Versions) \in DOMAIN Versions
  BY <1>1, <1>3
<1>5. PICK last \in papers : last.ref = Versions[Len(Versions)]
  BY <1>4 DEF Inv, PapersInv
<1>6. last.ref.version = Len(Versions)
  BY <1>4, <1>5 DEF Inv, PapersInv
<1>7. \A row \in papers : row.created_at \in Nat /\ row.ref.version \in 1..Len(Versions)
  BY <1>1 DEF Inv, PapersInv, PaperVersion
<1>8. \A row \in papers : row # last => row.created_at < last.created_at
  <2> SUFFICES ASSUME NEW row \in papers, row # last PROVE row.created_at < last.created_at
    OBVIOUS
  <2>1. row.ref.version # last.ref.version
    BY DEF Inv, PapersInv
  <2>2. row.ref.version < last.ref.version
    BY <1>1, <1>6, <1>7, <2>1
  <2> QED BY <2>2 DEF Inv, PapersInv
<1>9. \A other \in papers : other.created_at <= last.created_at
  BY <1>7, <1>8
<1>10. Newest(papers) \in papers /\ last.created_at <= Newest(papers).created_at
  BY <1>9 DEF Newest
<1>11. Newest(papers) = last
  BY <1>7, <1>8, <1>10
<1> QED BY <1>3, <1>5, <1>11

LEMMA NextIdentityInv ==
  ASSUME Inv, NEW c \in Client, NextIdentity(c), UNCHANGED <<approvals, expired>>
  PROVE  Inv'
<1>1. requests[c] \in Request /\ requests[c].step = "identity" /\ ~At(c, "idle")
  BY DEF Inv, TypeOK, NextIdentity, At
<1>2. Holds(requests[c])
  BY DEF Inv, RequestsInv
<1>3. Versions \in Seq(PaperVersionRef) /\ papers \subseteq PaperVersion
  BY StateFields DEF Inv, TypeOK, Versions
<1>4. PICK identity :
        /\ Become(c, [requests[c] EXCEPT !.ref = identity, !.step = "literature"])
        /\ identity = IF papers = {}
             THEN [NoRef EXCEPT !.paper_id = requests[c].ticket, !.version = 1]
             ELSE [NoRef EXCEPT !.paper_id = Newest(papers).ref.paper_id,
                                !.version = Newest(papers).ref.version + 1]
  BY DEF NextIdentity
<1>5. requests[c].ticket \in Ticket
  BY <1>1, MaxRequestsAssumption DEF Inv, TicketInv, TypeOK, Ticket
<1>6. identity \in Draft /\ identity.paper_id \in Ticket /\ NextInLine(identity)
  <2>1. CASE papers = {}
    <3>1. DOMAIN Versions = {}
      BY <2>1 DEF Inv, PapersInv
    <3>2. Versions = <<>> /\ Len(Versions) = 0
      BY <1>3, <3>1
    <3>3. /\ identity = [NoRef EXCEPT !.paper_id = requests[c].ticket, !.version = 1]
          /\ NextInLine(identity) <=> identity.version = 1
      BY <1>4, <2>1, <3>2 DEF NextInLine
    <3>4. /\ identity \in Draft /\ identity.version = 1
          /\ identity.paper_id = requests[c].ticket
      BY <1>5, <3>3 DEF Draft, NoRef, PaperQualityStatus
    <3> QED BY <1>5, <3>3, <3>4
  <2>2. CASE papers # {}
    <3>1. /\ Versions # <<>> /\ Newest(papers).ref = Versions[Len(Versions)]
          /\ Len(Versions) \in DOMAIN Versions
      BY <1>3, <2>2, NewestPaper
    <3>2. /\ Newest(papers).ref.version = Len(Versions)
          /\ Newest(papers).ref.paper_id = Versions[1].paper_id
      <4>1. \A i \in DOMAIN Versions :
              Versions[i].version = i /\ Versions[i].paper_id = Versions[1].paper_id
        BY DEF Inv, PapersInv
      <4> QED BY <3>1, <4>1
    <3>3. Versions[Len(Versions)] \in PaperVersionRef /\ Len(Versions) \in Nat
      BY <1>3, <3>1
    <3>4. Versions[1].paper_id \in Ticket
      BY <3>1, <3>2, <3>3 DEF PaperVersionRef
    <3> DEFINE id == Versions[1].paper_id  n == Len(Versions)
    <3>5. identity = [NoRef EXCEPT !.paper_id = id, !.version = n + 1]
      BY <1>4, <2>2, <3>2
    <3>6. id \in Ticket /\ n \in Nat
      BY <3>3, <3>4
    <3> HIDE DEF id, n
    <3>7. identity = [paper_id |-> id, version |-> n + 1, status |-> "FAILED",
                      manifest_hash |-> 0]
      BY <3>5 DEF NoRef
    <3>8. identity \in Draft /\ identity.paper_id = id /\ identity.version = n + 1
      BY <3>6, <3>7 DEF Draft, PaperQualityStatus
    <3> QED BY <3>6, <3>8 DEF NextInLine, id, n
  <2> QED BY <2>1, <2>2
<1> PICK l : l = [requests[c] EXCEPT !.ref = identity, !.step = "literature"]
  OBVIOUS
<1>7. l \in Request /\ l.step = "literature" /\ l.ref = identity /\ l.frozen = requests[c].frozen
      /\ l.ticket = requests[c].ticket /\ l.base = requests[c].base
  BY <1>1, <1>6 DEF Request, Steps
<1>8. Holds(l)
  BY <1>1, <1>2, <1>6, <1>7 DEF Holds, Loaded, Drafting, Reviewing, Judged, UpToDate
<1> QED BY <1>1, <1>4, <1>7, <1>8, GoStep DEF NextIdentity

LEMMA FoundRecords ==
  ASSUME NEW verdicts \in Verdicts, NEW ticket \in Nat
  PROVE  RecordsOf(verdicts, ticket) \subseteq ReferenceRecord
BY LiveSourceAssumption DEF Verdicts, RecordsOf, ReferenceRecord

LEMMA PersistLiteratureInv ==
  ASSUME Inv, NEW c \in Client, PersistLiterature(c), UNCHANGED <<approvals, expired>>
  PROVE  Inv'
<1>1. /\ requests[c] \in Request /\ requests[c].step \in {"literature", "sources"}
      /\ ~At(c, "idle") /\ clock' \in Nat /\ clock <= clock'
  BY DEF Inv, TypeOK, PersistLiterature, At
<1>2. Holds(requests[c]) /\ requests[c].ticket \in Nat
  BY <1>1, MaxRequestsAssumption DEF Inv, RequestsInv, TicketInv, TypeOK
<1>3. PICK verdicts \in Verdicts :
        LET found == RecordsOf(verdicts, requests[c].ticket) IN
        \/ End(c) /\ UNCHANGED references
        \/ references' = references \cup found /\ End(c)
        \/ /\ references' = references \cup found /\ At(c, "literature")
           /\ Become(c, [requests[c] EXCEPT !.found = found, !.step = "author"])
  BY DEF PersistLiterature
<1> DEFINE found == RecordsOf(verdicts, requests[c].ticket)
<1>4. found \subseteq ReferenceRecord
  BY <1>2, FoundRecords
<1>5. references' \subseteq ReferenceRecord
  BY <1>3, <1>4 DEF Inv, TypeOK
<1>6. CASE End(c)
  BY <1>1, <1>5, <1>6, EndStep DEF PersistLiterature
<1>7. CASE At(c, "literature")
           /\ Become(c, [requests[c] EXCEPT !.found = found, !.step = "author"])
  <2> PICK l : l = [requests[c] EXCEPT !.found = found, !.step = "author"]
    OBVIOUS
  <2> HIDE DEF found
  <2>1. l \in Request /\ l.step = "author" /\ l.ref = requests[c].ref /\ l.ticket = requests[c].ticket
        /\ l.frozen = requests[c].frozen /\ l.base = requests[c].base
    BY <1>1, <1>4 DEF Request, Steps
  <2>2. Holds(l)
    BY <1>2, <1>7, <2>1 DEF Holds, Loaded, Drafting, Reviewing, Judged, UpToDate, At
  <2>3. Holds(l)'
    BY <2>1, <2>2 DEF Holds, UpToDate, NextInLine, Versions, PersistLiterature,
                      Reviewing, Judged
  <2>4. Become(c, l)
    BY <1>7
  <2> QED BY <1>1, <1>5, <2>1, <2>3, <2>4, LocalStep, SameStore DEF PersistLiterature
<1> QED BY <1>3, <1>6, <1>7

\* What is stored under the request's own key is intact, and nothing else moves.
LEMMA StoredObject ==
  ASSUME Inv, NEW object \in Object, store' = Stored(object)
  PROVE  /\ store' \in [DOMAIN store' -> {"intact", "changed"}] /\ DOMAIN store' \subseteq Object
         /\ \A t : Packed(t) => Package(t) \in DOMAIN store' /\ store'[Package(t)] = "intact"
BY DEF Stored, Inv, TypeOK, Packed

LEMMA ComposeInv ==
  ASSUME Inv, NEW c \in Client, Compose(c), UNCHANGED <<approvals, expired>>
  PROVE  Inv'
<1>1. /\ requests[c] \in Request /\ requests[c].step = "author" /\ ~At(c, "idle")
      /\ clock \in Nat /\ clock' = clock + 1
  BY DEF Inv, TypeOK, Compose, At
<1>2. Holds(requests[c]) /\ requests[c].ticket \in Ticket
  BY <1>1, MaxRequestsAssumption DEF Inv, RequestsInv, TicketInv, TypeOK, Ticket
<1>3. PICK compiled \in BOOLEAN, status \in PaperQualityStatus :
        Become(c, [requests[c] EXCEPT
            !.step = "persist", !.created = clock + 1, !.ref.status = status,
            !.ref.manifest_hash = IF compiled THEN requests[c].ticket ELSE 0])
  BY DEF Compose
<1> DEFINE ref == [requests[c].ref EXCEPT !.status = status,
                     !.manifest_hash = IF compiled THEN requests[c].ticket ELSE 0]
<1>4. ref \in Draft /\ ref.paper_id = requests[c].ref.paper_id
      /\ ref.version = requests[c].ref.version
  <2>1. requests[c].ref \in Draft
    BY <1>1, RequestFields
  <2> QED BY <1>2, <2>1 DEF Draft
<1> PICK now \in Nat : now = clock + 1
  BY <1>1
<1> PICK l : l = [requests[c] EXCEPT !.step = "persist", !.created = now, !.ref = ref]
  OBVIOUS
<1>5. Become(c, l)
  BY <1>1, <1>3 DEF Become
<1> HIDE DEF ref
<1>6. /\ l \in Request /\ l.step = "persist" /\ l.ref = ref /\ l.ticket = requests[c].ticket
      /\ l.frozen = requests[c].frozen /\ l.base = requests[c].base /\ l.created = now
  BY <1>1, <1>4 DEF Request, Steps
<1>7. Holds(l)'
  <2>1. \A row \in papers : row.created_at <= clock /\ row.created_at \in Nat
    BY DEF Inv, PapersInv, TypeOK, PaperVersion
  <2>2. UNCHANGED <<proj, papers, juries, snapshots, expired>>
    BY DEF Compose, approvals
  <2>3. UpToDate(requests[c]) => NextInLine(ref)
    BY <1>1, <1>2, <1>4 DEF Holds, Drafting, NextInLine
  <2> QED BY <1>1, <1>2, <1>4, <1>6, <2>1, <2>2, <2>3
        DEF Holds, Loaded, Drafting, Reviewing, Judged, UpToDate, NextInLine, Versions
<1>8. PaperObject(requests[c].ticket) \in Object /\ store' = Stored(PaperObject(requests[c].ticket))
  BY <1>2 DEF PaperObject, Object, Compose
<1>9. /\ KeepsPackages(requests[c].ticket)
      /\ store' \in [DOMAIN store' -> {"intact", "changed"}] /\ DOMAIN store' \subseteq Object
  BY <1>8, StoredObject DEF KeepsPackages
<1>10. references' \subseteq ReferenceRecord /\ clock' \in Nat /\ clock <= clock'
       /\ UNCHANGED <<proj, papers, approvals, expired, drawn>>
  BY <1>1 DEF Compose, Inv, TypeOK
<1> HIDE DEF Compose
<1> QED BY <1>1, <1>5, <1>6, <1>7, <1>9, <1>10, LocalStep

LEMMA CandidateInv ==
  ASSUME Inv, NEW c \in Client, Candidate(c)
  PROVE  Inv'
<1>1. requests[c] \in Request /\ requests[c].step = "paper" /\ ~At(c, "idle")
  BY DEF Inv, TypeOK, Candidate, At
<1>2. Holds(requests[c])
  BY DEF Inv, RequestsInv
<1>3. PICK row \in papers, freeze \in BOOLEAN, rules \in RuleOutcome :
        /\ ValidateExplicitPaper(requests[c].base, row.ref)
        /\ Become(c, [requests[c] EXCEPT !.step = "jury", !.ref = row.ref,
                        !.rules = rules, !.freeze = freeze])
  BY DEF Candidate
<1>4. row.ref \in PaperVersionRef /\ row.ref \in Draft
  BY DEF Inv, TypeOK, PaperVersion, PaperVersionRef, Draft
<1> PICK l : l = [requests[c] EXCEPT !.step = "jury", !.ref = row.ref,
                    !.rules = rules, !.freeze = freeze]
  OBVIOUS
<1>5. l \in Request /\ l.step = "jury" /\ l.ref = row.ref /\ l.ticket = requests[c].ticket
      /\ l.frozen = requests[c].frozen /\ l.base = requests[c].base
  BY <1>1, <1>4 DEF Request, Steps
<1>6. Holds(l)
  BY <1>1, <1>2, <1>3, <1>4, <1>5
    DEF Holds, Loaded, Drafting, Reviewing, Judged, UpToDate, Ready, ValidateExplicitPaper
<1> QED BY <1>1, <1>3, <1>5, <1>6, GoStep DEF Candidate

LEMMA JuryAndCheckInv ==
  ASSUME Inv, NEW c \in Client, JuryAndCheck(c)
  PROVE  Inv'
<1>1. /\ requests[c] \in Request /\ requests[c].step = "jury" /\ ~At(c, "idle")
      /\ clock \in Nat /\ clock' = clock + 1
  BY DEF Inv, TypeOK, JuryAndCheck, At
<1>2. Holds(requests[c])
  BY DEF Inv, RequestsInv
<1>3. UNCHANGED <<proj, papers, approvals, expired, drawn, store, references>>
  BY DEF JuryAndCheck
<1>4. references' \subseteq ReferenceRecord /\ clock' \in Nat /\ clock <= clock'
  BY <1>1, <1>3 DEF Inv, TypeOK
<1>5. CASE End(c)
  BY <1>1, <1>3, <1>4, <1>5, EndStep
<1>6. CASE ~End(c)
  <2>0. PICK opinion \in Opinion, intact \in BOOLEAN :
          LET decision == Decision(requests[c].rules, opinion)
              check == CheckStatus(requests[c].rules, decision, intact) IN
          /\ ~(requests[c].freeze /\ ~Approved(decision, check))
          /\ Become(c, [requests[c] EXCEPT !.decision = decision, !.check = check,
               !.created = clock + 1, !.step = IF requests[c].freeze THEN "freeze" ELSE "commit",
               !.rules = Idle.rules, !.freeze = FALSE])
    BY <1>6 DEF JuryAndCheck
  <2> PICK decision : decision = Decision(requests[c].rules, opinion)
    OBVIOUS
  <2> PICK check : check = CheckStatus(requests[c].rules, decision, intact)
    OBVIOUS
  <2>1. /\ ~(requests[c].freeze /\ ~Approved(decision, check))
        /\ Become(c, [requests[c] EXCEPT !.decision = decision, !.check = check,
               !.created = clock + 1, !.step = IF requests[c].freeze THEN "freeze" ELSE "commit",
               !.rules = Idle.rules, !.freeze = FALSE])
    BY <2>0
  <2>2. decision \in JuryDecision /\ check \in SubmissionCheckStatus
        /\ (check = "PASS" => decision = "PASS")
    BY DEF Decision, CheckStatus, JuryDecision, SubmissionCheckStatus
  <2> PICK now \in Nat : now = clock + 1
    BY <1>1
  <2> PICK l : l = [requests[c] EXCEPT !.decision = decision, !.check = check,
               !.created = now, !.step = IF requests[c].freeze THEN "freeze" ELSE "commit",
               !.rules = Idle.rules, !.freeze = FALSE]
    OBVIOUS
  <2>3. Idle.rules \in RuleOutcome
    BY DEF Idle, RuleOutcome
  <2>4. /\ l \in Request /\ l.step \in Judged /\ l.ref = requests[c].ref
        /\ l.ticket = requests[c].ticket /\ l.frozen = requests[c].frozen
        /\ l.base = requests[c].base /\ l.created = now
        /\ l.decision = decision /\ l.check = check
        /\ l.step = "freeze" => requests[c].freeze
    BY <1>1, <2>2, <2>3 DEF Request, Steps, Judged
  <2>5. Holds(l)'
    <3>1. \A jury \in juries : jury.created_at < clock + 1
      BY <1>1 DEF Inv, ReadinessInv, TypeOK, FinalJuryReport
    <3>2. l.step = "freeze" => Passed(l)
      BY <2>1, <2>4 DEF Approved, Passed
    <3>3. l.created <= clock'
      BY <1>1, <2>4
    <3> QED BY <1>1, <1>2, <1>3, <2>2, <2>4, <3>1, <3>2, <3>3
          DEF Holds, Loaded, Drafting, Reviewing, Judged, UpToDate, Ready, approvals, Passed
  <2> QED BY <1>1, <1>3, <1>4, <2>1, <2>4, <2>5, LocalStep, SameStore
<1> QED BY <1>5, <1>6

\* The package of the request, and no other object, is written.
LEMMA PackedBytes ==
  ASSUME Inv, NEW c \in Client, NEW ticket \in Ticket, ticket = requests[c].ticket,
         Untouched(requests[c].ref), store' = PackageBytes(c)
  PROVE  /\ store' \in [DOMAIN store' -> {"intact", "changed"}] /\ DOMAIN store' \subseteq Object
         /\ KeepsPackages(ticket) /\ Packed(ticket)'
<1>1. PICK bytes \in {"intact"} : bytes = store[PaperObject(requests[c].ref.manifest_hash)]
  BY DEF Untouched
<1>2. store' = [object \in DOMAIN store \cup {Package(ticket)} |->
                  IF object.kind = "package" /\ object.owner = ticket THEN bytes ELSE store[object]]
  BY <1>1 DEF PackageBytes, Package
<1>3. /\ Package(ticket) \in Object /\ DOMAIN store \subseteq Object
      /\ \A o \in DOMAIN store : store[o] \in {"intact", "changed"}
  BY DEF Package, Object, Inv, TypeOK
<1>4. \A t : Package(t).kind = "package" /\ Package(t).owner = t
  BY DEF Package
<1>5. DOMAIN store' = DOMAIN store \cup {Package(ticket)}
  BY <1>2
<1>6. store'[Package(ticket)] = "intact"
  BY <1>2, <1>4
<1>7. \A o \in DOMAIN store' : store'[o] \in {"intact", "changed"}
  <2> SUFFICES ASSUME NEW o \in DOMAIN store' PROVE store'[o] \in {"intact", "changed"}
    OBVIOUS
  <2>1. CASE o.kind = "package" /\ o.owner = ticket
    BY <1>2, <1>5, <2>1
  <2>2. CASE ~(o.kind = "package" /\ o.owner = ticket)
    <3>1. o \in DOMAIN store
      BY <1>4, <1>5, <2>2
    <3>2. store'[o] = store[o]
      BY <1>2, <1>5, <2>2
    <3> QED BY <1>3, <3>1, <3>2
  <2> QED BY <2>1, <2>2
<1>8. \A t \in Ticket \ {ticket} :
        Packed(t) => Package(t) \in DOMAIN store' /\ store'[Package(t)] = "intact"
  BY <1>2, <1>4 DEF Packed
<1>9. store' = [o \in DOMAIN store' |-> store'[o]]
  BY <1>2
<1>10. store' \in [DOMAIN store' -> {"intact", "changed"}]
  BY <1>7, <1>9
<1> QED BY <1>3, <1>5, <1>6, <1>8, <1>10 DEF KeepsPackages, Packed, Package

LEMMA FreezeInv ==
  ASSUME Inv, NEW c \in Client, Freeze(c)
  PROVE  Inv'
<1>1. /\ requests[c] \in Request /\ requests[c].step = "freeze" /\ ~At(c, "idle")
      /\ clock \in Nat /\ clock' = clock + 1
  BY DEF Inv, TypeOK, Freeze, At
<1>2. Holds(requests[c])
  BY DEF Inv, RequestsInv
<1>3. UNCHANGED <<proj, papers, approvals, expired, drawn, references>>
  BY DEF Freeze
<1>4. references' \subseteq ReferenceRecord /\ clock' \in Nat /\ clock <= clock'
  BY <1>1, <1>3 DEF Inv, TypeOK
<1>5. CASE End(c) /\ UNCHANGED store
  BY <1>1, <1>3, <1>4, <1>5, EndStep
<1>6. CASE /\ expired = 0 /\ Untouched(requests[c].ref) /\ store' = PackageBytes(c)
           /\ Become(c, [requests[c] EXCEPT !.frozen = clock + 1, !.step = "commit"])
  <2> PICK now \in Nat : now = clock + 1
    BY <1>1
  <2> PICK l : l = [requests[c] EXCEPT !.frozen = now, !.step = "commit"]
    OBVIOUS
  <2>1. /\ l \in Request /\ l.step = "commit" /\ l.ref = requests[c].ref
        /\ l.ticket = requests[c].ticket /\ l.frozen = now
        /\ l.base = requests[c].base /\ l.created = requests[c].created
        /\ l.decision = requests[c].decision /\ l.check = requests[c].check
    BY <1>1 DEF Request, Steps
  <2>2. l.ticket \in Ticket
    BY <1>1, <2>1, MaxRequestsAssumption DEF Inv, TicketInv, TypeOK, Ticket
  <2>3. /\ store' \in [DOMAIN store' -> {"intact", "changed"}] /\ DOMAIN store' \subseteq Object
        /\ KeepsPackages(l.ticket) /\ Packed(l.ticket)'
    BY <1>6, <2>1, <2>2, PackedBytes
  <2>4. Holds(l)'
    <3>1. \A s \in snapshots : s.created_at < clock + 1
      BY <1>1 DEF Inv, SnapshotInv, TypeOK, SubmissionSnapshot
    <3>2. l.created <= clock' /\ l.frozen <= clock'
      BY <1>1, <1>2, <2>1, RequestFields DEF Holds, Judged
    <3>3. Passed(l)
      BY <1>1, <1>2, <2>1 DEF Holds, Passed
    <3> QED BY <1>1, <1>2, <1>3, <1>6, <2>1, <2>3, <3>1, <3>2, <3>3
          DEF Holds, Loaded, Drafting, Reviewing, Judged, UpToDate, Ready, approvals, Passed
  <2> QED BY <1>1, <1>3, <1>4, <1>6, <2>1, <2>3, <2>4, LocalStep
<1> QED BY <1>5, <1>6 DEF Freeze

-----------------------------------------------------------------------------
(* A request is submitted; time passes; the disk changes.                    *)

LEMMA SubmitInv ==
  ASSUME Inv, NEW c \in Client, NEW step \in {"evidence", "search", "final"}, Submit(c, step),
         UNCHANGED <<approvals, expired>>
  PROVE  Inv'
<1> USE DEF paperStored, approvals
<1>1. /\ drawn \in Nat /\ drawn' = drawn + 1 /\ drawn' \in 0 .. MaxRequests /\ At(c, "idle")
      /\ drawn' \in Ticket
  BY MaxRequestsAssumption DEF Inv, TypeOK, Submit, Ticket
<1> PICK l : l = [Idle EXCEPT !.step = step, !.ticket = drawn + 1]
  OBVIOUS
<1>2. l \in Request /\ l.step = step /\ l.frozen = 0 /\ l.ticket = drawn'
  BY <1>1, IdleRequest DEF Request, Steps
<1>3. \A d \in Client : requests'[d] = IF d = c THEN l ELSE requests[d]
  BY DEF Inv, TypeOK, Submit, Become
<1>4. requests' \in [Client -> Request]
  BY <1>2 DEF Inv, TypeOK, Submit, Become
<1>5. UNCHANGED <<proj, papers, references, store, clock, juries, checks, snapshots, expired>>
  BY DEF Submit
<1>6. TypeOK'
  BY <1>1, <1>4, <1>5 DEF Inv, TypeOK
<1>7. \A d \in Client : ~At(d, "idle") => requests[d].ticket \in 1..drawn
  BY DEF Inv, TicketInv
<1>8. 1..drawn \subseteq 1..drawn' /\ drawn' \in 1..drawn' /\ drawn' \notin 1..drawn
  BY <1>1
<1>9. \A t : Spent(t) => Spent(t)'
  BY <1>2, <1>3, <1>8 DEF Spent, Held, At
<1>10. TicketInv'
  <2>1. \A d \in Client : requests'[d].step # "idle" => requests'[d].ticket \in 1..drawn'
    BY <1>2, <1>3, <1>7, <1>8 DEF At
  <2>2. \A d, e \in Client :
          requests'[d].step # "idle" /\ requests'[e].step # "idle"
            /\ requests'[d].ticket = requests'[e].ticket => d = e
    <3>1. \A d, e \in Client :
            requests[d].step # "idle" /\ requests[e].step # "idle"
              /\ requests[d].ticket = requests[e].ticket => d = e
      BY DEF Inv, TicketInv, At
    <3>2. \A d \in Client : requests[d].step # "idle" => requests[d].ticket # drawn'
      BY <1>7, <1>8 DEF At
    <3> SUFFICES ASSUME NEW d \in Client, NEW e \in Client,
                        requests'[d].step # "idle", requests'[e].step # "idle",
                        requests'[d].ticket = requests'[e].ticket
                 PROVE  d = e
      OBVIOUS
    <3>3. d = c \/ requests'[d] = requests[d]
      BY <1>3
    <3>4. e = c \/ requests'[e] = requests[e]
      BY <1>3
    <3>5. requests'[c] = l
      BY <1>3
    <3> QED BY <1>2, <3>1, <3>2, <3>3, <3>4, <3>5
  <2> QED BY <1>5, <1>9, <2>1, <2>2 DEF Inv, TicketInv, Frozen, At
<1>11. PapersInv' /\ SnapshotInv' /\ ReadinessInv'
  BY <1>5 DEF Inv, PapersInv, SnapshotInv, ReadinessInv, Versions, Frozen, Packed, Ready, Listed,
              Youngest
<1>12. RequestsInv'
  <2> SUFFICES ASSUME NEW d \in Client PROVE Holds(requests[d])'
    BY DEF RequestsInv
  <2>1. CASE d = c
    BY <1>2, <1>3, <2>1 DEF Holds, Loaded, Drafting, Reviewing, Judged
  <2>2. CASE d # c
    <3> PICK k : k = requests[d]
      OBVIOUS
    <3>1. requests'[d] = k /\ Holds(k)
      BY <1>3, <2>2 DEF Inv, RequestsInv
    <3>2. Holds(k)'
      BY <1>5, <3>1 DEF Holds, UpToDate, NextInLine, Ready, Packed, Versions
    <3> QED BY <3>1, <3>2
  <2> QED BY <2>1, <2>2
<1> QED BY <1>6, <1>10, <1>11, <1>12 DEF Inv

LEMMA DeadlinePassesInv ==
  ASSUME Inv, DeadlinePasses
  PROVE  Inv'
<1> USE DEF approvals
<1>1. /\ clock \in Nat /\ clock' = clock + 1 /\ expired = 0 /\ expired' = clock + 1
      /\ UNCHANGED <<proj, papers, references, store, drawn, requests, juries, checks, snapshots>>
  BY DEF DeadlinePasses, Inv, TypeOK
<1>2. TypeOK' /\ TicketInv'
  BY <1>1 DEF Inv, TypeOK, TicketInv, Frozen, Spent, Held, At
<1>3. PapersInv'
  BY <1>1 DEF Inv, PapersInv, Versions, TypeOK, PaperVersion
<1>4. ReadinessInv'
  BY <1>1 DEF Inv, ReadinessInv, Youngest, Frozen, TypeOK, FinalJuryReport
<1>5. SnapshotInv'
  BY <1>1 DEF Inv, SnapshotInv, Frozen, Packed, Ready, Listed, Versions, TypeOK,
              SubmissionSnapshot
<1>6. RequestsInv'
  <2> SUFFICES ASSUME NEW d \in Client PROVE Holds(requests[d])'
    BY DEF RequestsInv
  <2> PICK k \in Request : k = requests[d]
    BY DEF Inv, TypeOK
  <2>1. requests'[d] = k /\ Holds(k)
    BY <1>1 DEF Inv, RequestsInv
  <2>2. Holds(k)'
    BY <1>1, <2>1, RequestFields DEF Holds, UpToDate, NextInLine, Ready, Packed, Versions
  <2> QED BY <2>1, <2>2
<1> QED BY <1>2, <1>3, <1>4, <1>5, <1>6 DEF Inv

LEMMA BytesChangeInv ==
  ASSUME Inv, BytesChange
  PROVE  Inv'
<1> USE DEF approvals
<1>1. PICK hash : store' = [store EXCEPT ![PaperObject(hash)] = "changed"]
  BY DEF BytesChange
<1>2. UNCHANGED <<proj, papers, references, clock, drawn, requests, juries, checks, snapshots,
                  expired>>
  BY DEF BytesChange
<1>3. store' \in [DOMAIN store' -> {"intact", "changed"}] /\ DOMAIN store' = DOMAIN store
  BY <1>1 DEF Inv, TypeOK
<1>4. TypeOK' /\ TicketInv' /\ PapersInv' /\ ReadinessInv'
  BY <1>2, <1>3 DEF Inv, TypeOK, TicketInv, Frozen, Spent, Held, At, PapersInv, Versions,
                    ReadinessInv, Youngest
<1>5. \A t : Packed(t) => Packed(t)'
  BY <1>1 DEF Packed, Package, PaperObject
<1>6. SnapshotInv'
  BY <1>2, <1>5 DEF Inv, SnapshotInv, Frozen, Ready, Listed, Versions
<1>7. RequestsInv'
  <2> SUFFICES ASSUME NEW d \in Client PROVE Holds(requests[d])'
    BY DEF RequestsInv
  <2> PICK k : k = requests[d]
    OBVIOUS
  <2>1. requests'[d] = k /\ Holds(k)
    BY <1>2 DEF Inv, RequestsInv
  <2>2. Holds(k)'
    BY <1>2, <1>5, <2>1 DEF Holds, UpToDate, NextInLine, Ready, Versions
  <2> QED BY <2>1, <2>2
<1> QED BY <1>4, <1>6, <1>7 DEF Inv

-----------------------------------------------------------------------------
(* A revision is appended.                                                   *)

\* Whoever loaded an earlier revision is no longer up to date.
LEMMA OthersHold ==
  ASSUME Inv, NEW k \in Request, Holds(k), k.step # "idle",
         proj'.version \in Nat, proj.version < proj'.version, papers \subseteq papers',
         UNCHANGED <<store, clock, expired>>
  PROVE  Holds(k)'
<1>1. proj.version \in Nat /\ k.base.version \in Nat
  BY StateFields, RequestFields DEF Inv, TypeOK
<1>2. k.step \in Loaded => k.base.version <= proj'.version /\ ~UpToDate(k)'
  BY <1>1 DEF Holds, UpToDate
<1>3. Ready(k.ref) => Ready(k.ref)'
  BY DEF Ready
<1>4. Drafting \subseteq Loaded /\ Judged \subseteq Loaded /\ "persist" \in Loaded
  BY DEF Drafting, Judged, Loaded
<1>5. k.frozen # 0 => k.step \in Loaded
  BY DEF Holds, Loaded
<1> QED BY <1>2, <1>3, <1>4, <1>5 DEF Holds, Packed, Passed

LEMMA SaveElsewhereInv ==
  ASSUME Inv, SaveElsewhere, UNCHANGED <<approvals, expired>>
  PROVE  Inv'
<1> USE DEF approvals
<1>1. UNCHANGED <<papers, references, store, clock, requests, juries, checks, snapshots, expired>>
  BY DEF SaveElsewhere
<1>2. /\ drawn \in Nat /\ drawn' \in 0 .. MaxRequests /\ 1..drawn \subseteq 1..drawn'
      /\ proj.version \in Nat
  BY MaxRequestsAssumption, StateFields DEF Inv, TypeOK, SaveElsewhere
<1>3. /\ proj' \in ProblemState /\ proj'.version = proj.version + 1
      /\ proj'.paper_versions = proj.paper_versions
      /\ proj'.submission_snapshots = proj.submission_snapshots
      /\ proj'.submission_state = proj.submission_state
  <2>1. proj \in ProblemState /\ proj' = [proj EXCEPT !.version = @ + 1]
    BY DEF Inv, TypeOK, SaveElsewhere
  <2> QED BY <1>2, <2>1 DEF ProblemState
<1>4. TypeOK'
  BY <1>1, <1>2, <1>3 DEF Inv, TypeOK
<1>5. TicketInv'
  BY <1>1, <1>2, <1>3 DEF Inv, TicketInv, Spent, Held, At, Frozen
<1>6. PapersInv' /\ SnapshotInv' /\ ReadinessInv'
  BY <1>1, <1>3 DEF Inv, PapersInv, SnapshotInv, ReadinessInv, Versions, Frozen, Packed, Ready,
                    Listed, Youngest
<1>7. RequestsInv'
  <2> SUFFICES ASSUME NEW d \in Client PROVE Holds(requests[d])'
    BY DEF RequestsInv
  <2> PICK k \in Request : k = requests[d]
    BY DEF Inv, TypeOK
  <2>1. requests'[d] = k /\ Holds(k)
    BY <1>1 DEF Inv, RequestsInv
  <2>2. CASE k.step # "idle"
    <3>1. Holds(k)'
      BY <1>1, <1>2, <1>3, <2>1, <2>2, OthersHold
    <3> QED BY <2>1, <3>1
  <2>3. CASE k.step = "idle"
    BY <2>1, <2>3 DEF Holds, Loaded, Drafting, Reviewing, Judged
  <2> QED BY <2>2, <2>3
<1> QED BY <1>4, <1>5, <1>6, <1>7 DEF Inv

\* The request c, which ends here, has appended a revision.
LEMMA RequestsAfterCommit ==
  ASSUME Inv, NEW c \in Client, End(c), proj'.version \in Nat, proj.version < proj'.version,
         papers \subseteq papers', UNCHANGED <<store, clock, expired>>
  PROVE  RequestsInv'
<1> SUFFICES ASSUME NEW d \in Client PROVE Holds(requests[d])'
  BY DEF RequestsInv
<1>1. requests'[d] = IF d = c THEN Idle ELSE requests[d]
  BY DEF Inv, TypeOK, End, Become
<1>2. CASE requests'[d].step = "idle" /\ requests'[d].frozen = 0
  BY <1>2 DEF Holds, Loaded, Drafting, Reviewing, Judged
<1>3. CASE d # c /\ requests[d].step # "idle"
  <2> PICK k \in Request : k = requests[d]
    BY DEF Inv, TypeOK
  <2>1. requests'[d] = k /\ Holds(k) /\ k.step # "idle"
    BY <1>1, <1>3 DEF Inv, RequestsInv
  <2>2. Holds(k)'
    BY <2>1, OthersHold
  <2> QED BY <2>1, <2>2
<1>4. Holds(requests[d])
  BY DEF Inv, RequestsInv
<1> QED BY <1>1, <1>2, <1>3, <1>4, IdleRequest DEF Holds

\* Its ticket is spent then, as those of the snapshots are.
LEMMA TicketsAfterEnd ==
  ASSUME Inv, NEW c \in Client, ~At(c, "idle"), End(c), UNCHANGED drawn
  PROVE  /\ requests' \in [Client -> Request]
         /\ \A t : Spent(t) \/ t = requests[c].ticket => Spent(t)'
         /\ \A d \in Client : ~At(d, "idle")' => requests'[d].ticket \in 1..drawn'
         /\ \A d, e \in Client :
              ~At(d, "idle")' /\ ~At(e, "idle")' /\ requests'[d].ticket = requests'[e].ticket
                => d = e
<1>1. requests' = [requests EXCEPT ![c] = Idle] /\ requests \in [Client -> Request]
  BY DEF End, Become, Inv, TypeOK
<1>2. \A d \in Client : requests'[d] = IF d = c THEN Idle ELSE requests[d]
  BY <1>1
<1>3. requests' \in [Client -> Request]
  BY <1>1, IdleRequest
<1> QED BY <1>2, <1>3, IdleRequest DEF Inv, TicketInv, Spent, Held, At

LEMMA PaperStateFields ==
  ASSUME NEW base \in ProblemState, NEW ref \in PaperVersionRef
  PROVE  /\ PaperState(base, ref) \in ProblemState
         /\ PaperState(base, ref).version = base.version + 1
         /\ PaperState(base, ref).paper_versions = Append(base.paper_versions, ref)
         /\ PaperState(base, ref).submission_snapshots = base.submission_snapshots
         /\ PaperState(base, ref).submission_state = base.submission_state
<1>1. PICK status \in {"RUNNING", "SUCCEEDED", "HUMAN_REVIEW", "FAILED"} :
        PaperState(base, ref) = [base EXCEPT !.version = @ + 1, !.current_stage = "PAPER",
                                   !.status = status, !.paper_versions = Append(@, ref)]
  BY DEF PaperState
<1>2. "PAPER" \in WorkflowStage
  BY DEF WorkflowStage
<1>3. PICK v \in Nat : v = base.version + 1
  BY StateFields
<1>4. PICK list \in Seq(PaperVersionRef) : list = Append(base.paper_versions, ref)
  <2>1. base.paper_versions \in Seq(PaperVersionRef)
    BY StateFields
  <2>2. Append(base.paper_versions, ref) \in Seq(PaperVersionRef)
    BY <2>1
  <2> QED BY <2>2
<1>5. PaperState(base, ref) = [base EXCEPT !.version = v, !.current_stage = "PAPER",
                                 !.status = status, !.paper_versions = list]
  BY <1>1, <1>3, <1>4
<1> QED BY <1>2, <1>3, <1>4, <1>5 DEF ProblemState

LEMMA PersistPaperInv ==
  ASSUME Inv, NEW c \in Client, PersistPaper(c), UNCHANGED <<approvals, expired>>
  PROVE  Inv'
<1> PICK k \in Request : k = requests[c]
  BY DEF Inv, TypeOK
<1>1. /\ k.step = "persist" /\ ~At(c, "idle") /\ Holds(k) /\ End(c)
      /\ UNCHANGED <<store, clock, drawn, expired, juries, checks, snapshots>>
  BY DEF Inv, RequestsInv, PersistPaper, At, approvals
<1>2. CASE UNCHANGED <<papers, references, proj>>
  <2>1. references' \subseteq ReferenceRecord /\ clock' \in Nat /\ clock <= clock'
    BY <1>1, <1>2 DEF Inv, TypeOK
  <2> QED BY <1>1, <1>2, <2>1, EndStep DEF approvals
<1>3. CASE /\ ValidateNextRevision(PaperState(k.base, k.ref))
           /\ papers' = papers \cup {[ref |-> k.ref, created_at |-> k.created]}
           /\ references' = references \cup k.found
           /\ proj' = PaperState(k.base, k.ref)
  <2> PICK row : row = [ref |-> k.ref, created_at |-> k.created]
    OBVIOUS
  <2>1. k.base \in ProblemState /\ k.created \in Nat /\ k.found \subseteq ReferenceRecord
        /\ proj \in ProblemState
    BY RequestFields DEF Inv, TypeOK
  <2>2. k.ref \in PaperVersionRef
    BY <1>1, RequestFields DEF Holds, Drafting, Draft, PaperVersionRef
  <2>3. k.base = proj
    <3>1. k.base.version + 1 = proj.version + 1
      BY <1>3, <2>1, <2>2, PaperStateFields DEF ValidateNextRevision
    <3> QED BY <1>1, <2>1, <3>1, StateFields DEF Holds, Loaded, UpToDate
  <2>4. /\ NextInLine(k.ref) /\ k.created <= clock
        /\ \A other \in papers : other.created_at < k.created
    BY <1>1, <2>3 DEF Holds, Drafting, UpToDate
  <2>5. /\ proj' \in ProblemState /\ proj'.version \in Nat /\ proj.version < proj'.version
        /\ proj'.version = proj.version + 1
        /\ Versions' = Append(Versions, k.ref) /\ Frozen' = Frozen
        /\ proj'.submission_state = proj.submission_state
    <3> PICK next : next = PaperState(proj, k.ref)
      OBVIOUS
    <3>1. /\ next \in ProblemState /\ next.version = proj.version + 1
          /\ next.paper_versions = Append(proj.paper_versions, k.ref)
          /\ next.submission_snapshots = proj.submission_snapshots
          /\ next.submission_state = proj.submission_state
      BY <2>1, <2>2, PaperStateFields
    <3>2. proj' = next
      BY <1>3, <2>3
    <3>3. proj.version \in Nat
      BY <2>1, StateFields
    <3> QED BY <3>1, <3>2, <3>3 DEF Versions, Frozen
  <2>6. /\ row \in PaperVersion /\ row \notin papers /\ row.ref = k.ref
        /\ row.created_at = k.created /\ papers' = papers \cup {row}
    BY <1>3, <2>1, <2>2, <2>4 DEF PaperVersion
  <2>7. requests' \in [Client -> Request]
    BY <1>1, TicketsAfterEnd
  <2>8. TypeOK'
    <3>1. IsFiniteSet(papers')
      BY <2>6, FS_AddElement DEF Inv, TypeOK
    <3> QED BY <1>1, <1>3, <2>1, <2>5, <2>6, <2>7, <3>1 DEF Inv, TypeOK
  <2>9. TicketInv'
    BY <1>1, <2>5, TicketsAfterEnd DEF Inv, TicketInv
  <2>10. /\ Versions \in Seq(PaperVersionRef) /\ Len(Versions) \in Nat
         /\ DOMAIN Versions = 1..Len(Versions)
         /\ DOMAIN Versions' = 1..(Len(Versions) + 1) /\ Len(Versions') = Len(Versions) + 1
         /\ \A i \in DOMAIN Versions : Versions'[i] = Versions[i] /\ i \in DOMAIN Versions'
         /\ Versions'[Len(Versions) + 1] = k.ref
    BY <2>1, <2>2, <2>5, StateFields DEF Versions
  <2>11. PapersInv'
    <3>1. Cardinality(papers') = Len(Versions')
      <4>1. IsFiniteSet(papers) /\ Cardinality(papers) = Len(Versions)
        BY DEF Inv, TypeOK, PapersInv
      <4>2. Cardinality(papers \cup {row}) = Cardinality(papers) + 1
        BY <2>6, <4>1, FS_AddElement
      <4> QED BY <2>6, <2>10, <4>1, <4>2
    <3>2. k.ref.version = Len(Versions) + 1 /\ k.ref.paper_id = Versions'[1].paper_id
      <4>1. CASE Versions = <<>>
        BY <2>4, <2>10, <4>1 DEF NextInLine
      <4>2. CASE Versions # <<>>
        BY <2>4, <2>10, <4>2 DEF NextInLine
      <4> QED BY <4>1, <4>2
    <3>3. \A i \in DOMAIN Versions' :
            /\ Versions'[i].version = i /\ Versions'[i].paper_id = Versions'[1].paper_id
            /\ \E r \in papers' : r.ref = Versions'[i]
      <4> SUFFICES ASSUME NEW i \in DOMAIN Versions'
                   PROVE  /\ Versions'[i].version = i
                          /\ Versions'[i].paper_id = Versions'[1].paper_id
                          /\ \E r \in papers' : r.ref = Versions'[i]
        OBVIOUS
      <4>1. CASE i = Len(Versions) + 1
        BY <2>6, <2>10, <3>2, <4>1
      <4>2. CASE i # Len(Versions) + 1
        <5>1. i \in DOMAIN Versions /\ 1 \in DOMAIN Versions
          BY <2>10, <4>2
        <5>2. /\ Versions[i].version = i /\ Versions[i].paper_id = Versions[1].paper_id
              /\ \E r \in papers : r.ref = Versions[i]
          BY <5>1 DEF Inv, PapersInv
        <5> QED BY <2>6, <2>10, <5>1, <5>2
      <4> QED BY <4>1, <4>2
    <3>4. \A r \in papers :
            /\ r.ref.version \in DOMAIN Versions /\ r.ref = Versions[r.ref.version]
            /\ r.created_at <= clock
      BY DEF Inv, PapersInv
    <3>5. \A r \in papers' :
            /\ r.ref.version \in DOMAIN Versions' /\ r.ref = Versions'[r.ref.version]
            /\ r.created_at <= clock'
      BY <1>1, <2>4, <2>6, <2>10, <3>2, <3>4
    <3>6. \A r, s \in papers :
            /\ r.ref.version < s.ref.version => r.created_at < s.created_at
            /\ r.ref.version = s.ref.version => r = s
      BY DEF Inv, PapersInv
    <3>7. \A r, s \in papers' :
            /\ r.ref.version < s.ref.version => r.created_at < s.created_at
            /\ r.ref.version = s.ref.version => r = s
      <4>1. \A r \in papers : r.ref.version < row.ref.version /\ r.created_at < row.created_at
        BY <2>4, <2>6, <2>10, <3>2, <3>4
      <4>2. \A r \in papers : ~(row.ref.version < r.ref.version)
        BY <2>6, <2>10, <3>2, <3>4
      <4>3. \A r \in papers : row.ref.version # r.ref.version
        BY <2>6, <2>10, <3>2, <3>4
      <4>4. ~(row.ref.version < row.ref.version)
        BY <2>6, <2>10, <3>2
      <4> QED BY <2>6, <3>6, <4>1, <4>2, <4>3, <4>4
    <3> QED BY <3>1, <3>3, <3>5, <3>7 DEF PapersInv
  <2>12. RequestsInv'
    BY <1>1, <2>5, <2>6, RequestsAfterCommit
  <2>13. SnapshotInv'
    <3>1. \A ref : (Ready(ref) => Ready(ref)') /\ (Listed(ref) => Listed(ref)')
      BY <2>6, <2>10 DEF Ready, Listed
    <3> QED BY <1>1, <2>5, <3>1 DEF Inv, SnapshotInv, Packed
  <2>14. ReadinessInv'
    BY <1>1, <2>5 DEF Inv, ReadinessInv, Youngest
  <2> QED BY <2>8, <2>9, <2>11, <2>12, <2>13, <2>14 DEF Inv
<1> QED BY <1>2, <1>3 DEF PersistPaper

LEMMA RecheckFields ==
  ASSUME NEW base \in ProblemState
  PROVE  /\ Recheck(base) \in ProblemState /\ Recheck(base).version = base.version + 1
         /\ Recheck(base).paper_versions = base.paper_versions
         /\ Recheck(base).submission_snapshots = base.submission_snapshots
<1>1. PICK v \in Nat : v = base.version + 1
  BY StateFields
<1>2. PICK shown \in SubmissionState : shown = [base.submission_state EXCEPT !.status = "DIRTY"]
  BY StateFields DEF SubmissionState
<1>3. Recheck(base) = [base EXCEPT !.version = v, !.current_stage = "PAPER", !.status = "RUNNING",
                         !.submission_state = shown]
  BY <1>1, <1>2 DEF Recheck, ProblemState
<1> QED BY <1>1, <1>2, <1>3 DEF ProblemState, WorkflowStage

LEMMA JuryStateFields ==
  ASSUME NEW base \in ProblemState, NEW k \in Request, k.ticket \in Ticket
  PROVE  /\ JuryState(base, k) \in ProblemState /\ JuryState(base, k).version = base.version + 1
         /\ JuryState(base, k).paper_versions = base.paper_versions
         /\ JuryState(base, k).submission_snapshots = base.submission_snapshots
         /\ JuryState(base, k).submission_state.jury_report_id = k.ticket
<1>1. PICK v \in Nat : v = base.version + 1
  BY StateFields
<1> PICK shown : shown = [jury_report_id |-> k.ticket, status |-> "CHECKING"]
  OBVIOUS
<1>2. shown \in SubmissionState /\ shown.jury_report_id = k.ticket
  BY DEF SubmissionState
<1>3. PICK status \in {"RUNNING", "SUCCEEDED", "HUMAN_REVIEW", "FAILED"} :
        JuryState(base, k) = [base EXCEPT !.version = v, !.current_stage = "FINAL_JURY",
                                !.status = status, !.submission_state = shown]
  BY <1>1, <1>2 DEF JuryState
<1> QED BY <1>1, <1>2, <1>3 DEF ProblemState, WorkflowStage

LEMMA CheckStateFields ==
  ASSUME NEW base \in ProblemState, NEW k \in Request
  PROVE  /\ CheckState(base, k) \in ProblemState /\ CheckState(base, k).version = base.version + 1
         /\ CheckState(base, k).paper_versions = base.paper_versions
         /\ CheckState(base, k).submission_snapshots = base.submission_snapshots
         /\ CheckState(base, k).submission_state.jury_report_id
              = base.submission_state.jury_report_id
         /\ CheckState(base, k).submission_state.status # "FROZEN"
         /\ CheckState(base, k).submission_state.status = "READY" => k.check = "PASS"
<1>1. PICK v \in Nat : v = base.version + 1
  BY StateFields
<1>2. PICK status \in {"RUNNING", "SUCCEEDED", "HUMAN_REVIEW", "FAILED"},
           ready \in {"READY", "HUMAN_REVIEW", "FAILED"} :
        /\ ready = "READY" => k.check = "PASS"
        /\ CheckState(base, k) = [base EXCEPT !.version = v, !.current_stage = "SUBMISSION",
                                    !.status = status, !.submission_state.status = ready]
  BY <1>1 DEF CheckState
<1>3. PICK shown \in SubmissionState :
        /\ shown.jury_report_id = base.submission_state.jury_report_id /\ shown.status = ready
        /\ CheckState(base, k) = [base EXCEPT !.version = v, !.current_stage = "SUBMISSION",
                                    !.status = status, !.submission_state = shown]
  <2>1. [base.submission_state EXCEPT !.status = ready] \in SubmissionState
    BY StateFields DEF SubmissionState
  <2> QED BY <1>2, <2>1 DEF ProblemState, SubmissionState
<1> QED BY <1>1, <1>2, <1>3 DEF ProblemState, WorkflowStage

LEMMA FrozenStateFields ==
  ASSUME NEW base \in ProblemState, NEW k \in Request, k.ticket \in Ticket
  PROVE  /\ FrozenState(base, k) \in ProblemState
         /\ FrozenState(base, k).version = base.version + 1
         /\ FrozenState(base, k).paper_versions = base.paper_versions
         /\ FrozenState(base, k).submission_snapshots = Append(base.submission_snapshots, k.ticket)
         /\ FrozenState(base, k).submission_state.jury_report_id
              = base.submission_state.jury_report_id
         /\ FrozenState(base, k).submission_state.status = "FROZEN"
<1>1. PICK v \in Nat : v = base.version + 1
  BY StateFields
<1>2. PICK shown \in SubmissionState :
        /\ shown.jury_report_id = base.submission_state.jury_report_id /\ shown.status = "FROZEN"
        /\ shown = [base.submission_state EXCEPT !.status = "FROZEN"]
  BY StateFields DEF SubmissionState
<1>3. PICK list \in Seq(Ticket) : list = Append(base.submission_snapshots, k.ticket)
  <2>1. base.submission_snapshots \in Seq(Ticket)
    BY StateFields
  <2>2. Append(base.submission_snapshots, k.ticket) \in Seq(Ticket)
    BY <2>1
  <2> QED BY <2>2
<1>4. FrozenState(base, k) = [base EXCEPT !.version = v, !.current_stage = "FINAL",
        !.status = "SUCCEEDED", !.submission_snapshots = list, !.submission_state = shown]
  BY <1>1, <1>2, <1>3 DEF FrozenState, ProblemState
<1> QED BY <1>1, <1>2, <1>3, <1>4 DEF ProblemState, WorkflowStage

\* The last of two to four states.
LEMMA LastOf ==
  ASSUME NEW a, NEW b, NEW c, NEW d
  PROVE  /\ Last(<<>> \o <<b, c>> \o <<>>) = c /\ Last(<<a>> \o <<b, c>> \o <<>>) = c
         /\ Last(<<>> \o <<b, c>> \o <<d>>) = d /\ Last(<<a>> \o <<b, c>> \o <<d>>) = d
         /\ \A s \in {<<>>, <<d>>} :
              /\ 1 \in DOMAIN (<<>> \o <<b, c>> \o s) /\ (<<>> \o <<b, c>> \o s)[1] = b
              /\ 1 \in DOMAIN (<<a>> \o <<b, c>> \o s) /\ (<<a>> \o <<b, c>> \o s)[1] = a
BY DEF Last

\* What a final run appends, if its revisions follow the current one.
LEMMA Committed ==
  ASSUME proj \in ProblemState, NEW k \in Request, k.ticket \in Ticket,
         Consecutive(StateHistory(k)), NEW last, last = Last(StateHistory(k))
  PROVE  /\ k.base.version = proj.version
         /\ last \in ProblemState /\ last.version \in Nat /\ k.base.version < last.version
         /\ last.paper_versions = k.base.paper_versions
         /\ last.submission_snapshots =
              IF k.frozen # 0 THEN Append(k.base.submission_snapshots, k.ticket)
              ELSE k.base.submission_snapshots
         /\ last.submission_state.jury_report_id = k.ticket
         /\ last.submission_state.status = "READY" => k.check = "PASS"
         /\ last.submission_state.status = "FROZEN" => k.frozen # 0
<1>1. k.base \in ProblemState /\ k.base.version \in Nat /\ proj.version \in Nat
  BY RequestFields, StateFields
<1>2. PICK base : base = IF k.base.current_stage = "PAPER" THEN k.base ELSE Recheck(k.base)
  OBVIOUS
<1>3. /\ base \in ProblemState /\ base.version \in Nat
      /\ base.paper_versions = k.base.paper_versions
      /\ base.submission_snapshots = k.base.submission_snapshots
      /\ base.version = IF base = k.base THEN k.base.version ELSE k.base.version + 1
  <2>1. Recheck(k.base) # k.base
    BY <1>1, RecheckFields
  <2>2. CASE k.base.current_stage = "PAPER"
    BY <1>1, <1>2, <2>2
  <2>3. CASE k.base.current_stage # "PAPER"
    BY <1>1, <1>2, <2>1, <2>3, RecheckFields
  <2> QED BY <2>2, <2>3
<1>4. PICK jury : jury = JuryState(base, k)
  OBVIOUS
<1>5. PICK check : check = CheckState(jury, k)
  OBVIOUS
<1>6. PICK frozen : frozen = FrozenState(check, k)
  OBVIOUS
<1>7. StateHistory(k) =
        (IF base = k.base THEN <<>> ELSE <<base>>) \o <<jury, check>>
          \o (IF k.frozen # 0 THEN <<frozen>> ELSE <<>>)
  BY <1>2, <1>4, <1>5, <1>6 DEF StateHistory
<1>8. /\ jury \in ProblemState /\ jury.version = base.version + 1
      /\ jury.paper_versions = base.paper_versions
      /\ jury.submission_snapshots = base.submission_snapshots
      /\ jury.submission_state.jury_report_id = k.ticket
  BY <1>3, <1>4, JuryStateFields
<1>9. /\ check \in ProblemState /\ check.version = jury.version + 1
      /\ check.paper_versions = jury.paper_versions
      /\ check.submission_snapshots = jury.submission_snapshots
      /\ check.submission_state.jury_report_id = jury.submission_state.jury_report_id
      /\ check.submission_state.status # "FROZEN"
      /\ check.submission_state.status = "READY" => k.check = "PASS"
  BY <1>5, <1>8, CheckStateFields
<1>10. /\ frozen \in ProblemState /\ frozen.version = check.version + 1
       /\ frozen.paper_versions = check.paper_versions
       /\ frozen.submission_snapshots = Append(check.submission_snapshots, k.ticket)
       /\ frozen.submission_state.jury_report_id = check.submission_state.jury_report_id
       /\ frozen.submission_state.status = "FROZEN"
  BY <1>6, <1>9, FrozenStateFields
<1>11. last = IF k.frozen # 0 THEN frozen ELSE check
  <2>1. CASE k.frozen # 0 /\ base = k.base
    BY <1>7, <2>1, LastOf
  <2>2. CASE k.frozen # 0 /\ base # k.base
    BY <1>7, <2>2, LastOf
  <2>3. CASE k.frozen = 0 /\ base = k.base
    <3>1. StateHistory(k) = <<>> \o <<jury, check>> \o <<>>
      BY <1>7, <2>3
    <3>2. Last(<<>> \o <<jury, check>> \o <<>>) = check
      BY LastOf
    <3> QED BY <2>3, <3>1, <3>2
  <2>4. CASE k.frozen = 0 /\ base # k.base
    BY <1>7, <2>4, LastOf
  <2> QED BY <2>1, <2>2, <2>3, <2>4
<1>12. /\ 1 \in DOMAIN StateHistory(k)
       /\ StateHistory(k)[1] = IF base = k.base THEN jury ELSE base
  BY <1>7, LastOf
<1>13. StateHistory(k)[1].version = proj.version + 1
  BY <1>12 DEF Consecutive
<1>14. k.base.version = proj.version
  BY <1>1, <1>3, <1>8, <1>12, <1>13
<1>15. /\ jury.version \in Nat /\ check.version \in Nat /\ frozen.version \in Nat
       /\ k.base.version < check.version /\ check.version < frozen.version
  BY <1>1, <1>3, <1>8, <1>9, <1>10
<1>16. CASE k.frozen # 0
  BY <1>1, <1>3, <1>8, <1>9, <1>10, <1>11, <1>14, <1>15, <1>16
<1>17. CASE k.frozen = 0
  BY <1>1, <1>3, <1>8, <1>9, <1>11, <1>14, <1>15, <1>17
<1> QED BY <1>16, <1>17

LEMMA CommitFinalInv ==
  ASSUME Inv, NEW c \in Client, CommitFinal(c)
  PROVE  Inv'
<1> PICK k \in Request : k = requests[c]
  BY DEF Inv, TypeOK
<1>1. /\ k.step = "commit" /\ ~At(c, "idle") /\ Holds(k) /\ End(c)
      /\ UNCHANGED <<papers, references, store, clock, drawn, expired>>
  BY DEF Inv, RequestsInv, CommitFinal, At
<1>2. CASE UNCHANGED <<approvals, proj>>
  <2>1. references' \subseteq ReferenceRecord /\ clock' \in Nat /\ clock <= clock'
    BY <1>1, <1>2 DEF Inv, TypeOK
  <2> QED BY <1>1, <1>2, <2>1, EndStep
<1>3. CASE /\ Consecutive(StateHistory(k))
           /\ juries' = juries \cup
                {[report_id |-> k.ticket, ref |-> k.ref, decision |-> k.decision,
                  created_at |-> k.created]}
           /\ checks' = checks \cup
                {[check_id |-> k.ticket, jury_report_id |-> k.ticket, status |-> k.check]}
           /\ snapshots' = IF k.frozen = 0 THEN snapshots
                ELSE snapshots \cup
                  {[submission_id |-> k.ticket, ref |-> k.ref, jury_report_id |-> k.ticket,
                    check_id |-> k.ticket, created_at |-> k.frozen]}
           /\ proj' = Last(StateHistory(k))
  <2>1. proj \in ProblemState /\ k.ticket \in Ticket /\ k.ticket \in 1..drawn
    BY <1>1, MaxRequestsAssumption DEF Inv, TypeOK, TicketInv, Ticket
  <2>2. /\ k.base.version = proj.version
        /\ proj' \in ProblemState /\ proj'.version \in Nat /\ k.base.version < proj'.version
        /\ Versions' = k.base.paper_versions
        /\ Frozen' = IF k.frozen # 0 THEN Append(k.base.submission_snapshots, k.ticket)
                     ELSE k.base.submission_snapshots
        /\ proj'.submission_state.jury_report_id = k.ticket
        /\ proj'.submission_state.status = "READY" => k.check = "PASS"
        /\ proj'.submission_state.status = "FROZEN" => k.frozen # 0
    <3> PICK last : last = Last(StateHistory(k))
      OBVIOUS
    <3>1. proj' = last
      BY <1>3
    <3> QED BY <1>3, <2>1, <3>1, Committed DEF Versions, Frozen
  <2>3. k.base = proj
    BY <1>1, <2>2 DEF Holds, Loaded, UpToDate
  <2>4. /\ Versions' = Versions
        /\ Frozen' = IF k.frozen # 0 THEN Append(Frozen, k.ticket) ELSE Frozen
    BY <2>2, <2>3 DEF Versions, Frozen
  <2>5. /\ k.ref \in PaperVersionRef /\ Ready(k.ref) /\ Listed(k.ref)
        /\ k.created <= clock /\ (\A jury \in juries : jury.created_at < k.created)
        /\ (k.check = "PASS" => k.decision = "PASS")
        /\ (k.frozen # 0 =>
              /\ Passed(k) /\ Packed(k.ticket) /\ k.frozen <= clock
              /\ expired = 0 \/ k.frozen < expired
              /\ \A s \in snapshots : s.created_at < k.frozen)
    BY <1>1, <2>3 DEF Holds, Reviewing, Judged, UpToDate, Listed, Versions
  <2> PICK jury : jury = [report_id |-> k.ticket, ref |-> k.ref, decision |-> k.decision,
                          created_at |-> k.created]
    OBVIOUS
  <2> PICK check : check = [check_id |-> k.ticket, jury_report_id |-> k.ticket, status |-> k.check]
    OBVIOUS
  <2> PICK snapshot : snapshot = [submission_id |-> k.ticket, ref |-> k.ref,
        jury_report_id |-> k.ticket, check_id |-> k.ticket, created_at |-> k.frozen]
    OBVIOUS
  <2>6. /\ jury \in FinalJuryReport /\ check \in SubmissionCheckResult
        /\ snapshot \in SubmissionSnapshot
    BY <2>1, <2>5, RequestFields DEF FinalJuryReport, SubmissionCheckResult, SubmissionSnapshot
  <2>7. /\ jury.report_id = k.ticket /\ jury.ref = k.ref /\ jury.decision = k.decision
        /\ jury.created_at = k.created
        /\ check.check_id = k.ticket /\ check.jury_report_id = k.ticket /\ check.status = k.check
        /\ snapshot.submission_id = k.ticket /\ snapshot.ref = k.ref
        /\ snapshot.jury_report_id = k.ticket /\ snapshot.check_id = k.ticket
        /\ snapshot.created_at = k.frozen
    OBVIOUS
  <2>8. /\ juries' = juries \cup {jury} /\ checks' = checks \cup {check}
        /\ snapshots' = IF k.frozen = 0 THEN snapshots ELSE snapshots \cup {snapshot}
    BY <1>3
  <2>9. TypeOK'
    <3>1. requests' \in [Client -> Request]
      BY <1>1, TicketsAfterEnd
    <3> QED BY <1>1, <2>2, <2>6, <2>8, <3>1 DEF Inv, TypeOK
  <2>10. \A i \in DOMAIN Frozen : Frozen[i] # k.ticket
    BY <1>1 DEF Inv, TicketInv, Spent, Held
  <2>11. /\ Frozen \in Seq(Ticket) /\ DOMAIN Frozen = 1..Len(Frozen) /\ Len(Frozen) \in Nat
    BY <2>1, StateFields DEF Frozen
  <2>12. k.frozen # 0 =>
           /\ DOMAIN Frozen' = 1..(Len(Frozen) + 1) /\ Len(Frozen') = Len(Frozen) + 1
           /\ \A i \in DOMAIN Frozen : Frozen'[i] = Frozen[i]
           /\ Frozen'[Len(Frozen) + 1] = k.ticket
    BY <2>1, <2>4, <2>11
  <2>13. TicketInv'
    <3>1. \A t : Spent(t) \/ t = k.ticket => Spent(t)'
      BY <1>1, TicketsAfterEnd
    <3>2. \A s \in snapshots' : Spent(s.submission_id)'
      BY <2>7, <2>8, <3>1 DEF Inv, TicketInv
    <3>3. \A i \in DOMAIN Frozen' : Frozen'[i] = k.ticket \/ Spent(Frozen'[i])
      BY <2>4, <2>11, <2>12 DEF Inv, TicketInv
    <3>4. \A i \in DOMAIN Frozen' : Spent(Frozen[i])'
      <4> SUFFICES ASSUME NEW i \in DOMAIN Frozen' PROVE Spent(Frozen[i])'
        OBVIOUS
      <4> PICK t : t = Frozen'[i]
        OBVIOUS
      <4>1. Spent(t)'
        BY <3>1, <3>3
      <4> QED BY <4>1 DEF Spent, Held
    <3> QED BY <1>1, <3>2, <3>4, TicketsAfterEnd DEF TicketInv
  <2>14. PapersInv'
    BY <1>1, <2>4 DEF Inv, PapersInv
  <2>15. RequestsInv'
    BY <1>1, <2>2, RequestsAfterCommit
  <2>16. SnapshotInv'
    <3>1. \A s \in snapshots : \E i \in DOMAIN Frozen' :
            /\ Frozen'[i] = s.submission_id
            /\ \A j \in DOMAIN Frozen' : Frozen'[j] = s.submission_id => j = i
      <4> SUFFICES ASSUME NEW s \in snapshots
                   PROVE  \E i \in DOMAIN Frozen' :
                            /\ Frozen'[i] = s.submission_id
                            /\ \A j \in DOMAIN Frozen' : Frozen'[j] = s.submission_id => j = i
        OBVIOUS
      <4>1. PICK i \in DOMAIN Frozen :
              /\ Frozen[i] = s.submission_id
              /\ \A j \in DOMAIN Frozen : Frozen[j] = s.submission_id => j = i
        BY DEF Inv, SnapshotInv
      <4>2. s.submission_id # k.ticket
        BY <2>10, <4>1
      <4> QED BY <2>4, <2>11, <2>12, <4>1, <4>2
    <3>2. k.frozen # 0 => \E i \in DOMAIN Frozen' :
            /\ Frozen'[i] = k.ticket
            /\ \A j \in DOMAIN Frozen' : Frozen'[j] = k.ticket => j = i
      <4> HAVE k.frozen # 0
      <4>1. Len(Frozen) + 1 \in DOMAIN Frozen'
        BY <2>11, <2>12
      <4>2. \A j \in DOMAIN Frozen' : j \in DOMAIN Frozen \/ j = Len(Frozen) + 1
        BY <2>11, <2>12
      <4>3. \A j \in DOMAIN Frozen' : Frozen'[j] = k.ticket => j = Len(Frozen) + 1
        BY <2>10, <2>12, <4>2
      <4> QED BY <2>12, <4>1, <4>3
    <3>3. \A ref : (Ready(ref) => Ready(ref)') /\ (Listed(ref) => Listed(ref)')
      BY <1>1, <2>4 DEF Ready, Listed
    <3>4. \A t : Packed(t) => Packed(t)'
      BY <1>1 DEF Packed
    <3> DEFINE Kept(s) ==
          /\ \E j \in juries' :
               j.report_id = s.jury_report_id /\ j.decision = "PASS" /\ j.ref = s.ref
          /\ \E ch \in checks' :
               /\ ch.check_id = s.check_id /\ ch.status = "PASS"
               /\ ch.jury_report_id = s.jury_report_id
          /\ expired = 0 \/ s.created_at < expired
          /\ s.created_at <= clock
          /\ Packed(s.submission_id) /\ Ready(s.ref) /\ Listed(s.ref)
    <3>5. \A s \in snapshots : Kept(s)
      BY <2>8 DEF Inv, SnapshotInv
    <3>6. k.frozen # 0 => Kept(snapshot)
      BY <2>5, <2>7, <2>8 DEF Passed
    <3>7. \A s \in snapshots' : Kept(s)
      BY <2>8, <3>5, <3>6
    <3>8. \A s \in snapshots' : \E i \in DOMAIN Frozen' :
            /\ Frozen'[i] = s.submission_id
            /\ \A j \in DOMAIN Frozen' : Frozen'[j] = s.submission_id => j = i
      BY <2>7, <2>8, <3>1, <3>2
    <3> QED BY <1>1, <3>3, <3>4, <3>7, <3>8 DEF SnapshotInv
  <2>17. ReadinessInv'
    <3>1. \A j \in juries' : j.created_at <= clock'
      BY <1>1, <2>5, <2>7, <2>8 DEF Inv, ReadinessInv
    <3>2. jury \in juries' /\ Youngest(jury, juries')
      BY <2>5, <2>7, <2>8 DEF Youngest
    <3>3. proj'.submission_state.status \in {"READY", "FROZEN"} =>
            /\ jury.decision = "PASS"
            /\ \E ch \in checks' : ch.jury_report_id = jury.report_id /\ ch.status = "PASS"
      BY <2>2, <2>5, <2>7, <2>8 DEF Passed
    <3>4. k.frozen # 0 =>
            /\ snapshot \in snapshots' /\ Youngest(snapshot, snapshots')
            /\ Frozen' # <<>> /\ Frozen'[Len(Frozen')] = snapshot.submission_id
      BY <2>5, <2>7, <2>8, <2>11, <2>12 DEF Youngest
    <3>5. proj'.submission_state.status = "FROZEN" =>
            \E s \in snapshots' :
              /\ Youngest(s, snapshots')
              /\ Frozen' # <<>> /\ Frozen'[Len(Frozen')] = s.submission_id
      BY <2>2, <3>4
    <3>6. proj'.submission_state.jury_report_id = jury.report_id
      BY <2>2, <2>7
    <3> QED BY <3>1, <3>2, <3>3, <3>5, <3>6 DEF ReadinessInv, Youngest
  <2> QED BY <2>9, <2>13, <2>14, <2>15, <2>16, <2>17 DEF Inv
<1> QED BY <1>2, <1>3 DEF CommitFinal

-----------------------------------------------------------------------------
(* The invariant holds, and says what the properties ask for.                *)

LEMMA StepInv ==
  ASSUME Inv, [SubmissionNext]_submissionVars
  PROVE  Inv'
<1>1. CASE UNCHANGED submissionVars
  BY <1>1 DEF submissionVars, paperStored, approvals, Inv, TypeOK, TicketInv, PapersInv,
              RequestsInv, SnapshotInv, ReadinessInv, Versions, Frozen, Packed, Held, Spent,
              NextInLine, Listed, Ready, UpToDate, Holds, Youngest, At
<1>2. CASE SubmissionNext
  <2>1. ASSUME NEW c \in Client, PaperRequest(c) PROVE Inv'
    <3>1. UNCHANGED <<approvals, expired>>
      BY <2>1 DEF PaperRequest
    <3>2. \/ \E step \in {"evidence", "search", "final"} : Submit(c, step)
          \/ Fail(c) \/ BuildEvidence(c) \/ NextIdentity(c) \/ PersistLiterature(c)
          \/ Compose(c) \/ PersistPaper(c)
      BY <2>1 DEF PaperRequest, PaperStep
    <3> QED BY <3>1, <3>2, SubmitInv, FailInv, BuildEvidenceInv, NextIdentityInv,
               PersistLiteratureInv, ComposeInv, PersistPaperInv
  <2>2. ASSUME NEW c \in Client, FinalStep(c) PROVE Inv'
    BY <2>2, LoadFinalInv, CandidateInv, JuryAndCheckInv, FreezeInv, CommitFinalInv
      DEF FinalStep
  <2> QED BY <1>2, <2>1, <2>2, SaveElsewhereInv, DeadlinePassesInv, BytesChangeInv
        DEF SubmissionNext
<1> QED BY <1>1, <1>2

LEMMA InvNumbersPapers == Inv => PapersAreNumbered
<1> SUFFICES ASSUME Inv PROVE PapersAreNumbered
  OBVIOUS
<1>1. Cardinality(papers) = Len(Versions)
  BY DEF Inv, PapersInv
<1>2. ASSUME NEW i \in DOMAIN Versions
      PROVE  /\ Versions[i].version = i /\ Versions[i].paper_id = Versions[1].paper_id
             /\ \E row \in papers :
                  /\ row.ref = Versions[i]
                  /\ \A other \in papers :
                       other.ref.version < i => other.created_at < row.created_at
  BY DEF Inv, PapersInv
<1> QED BY <1>1, <1>2 DEF PapersAreNumbered, Versions

LEMMA InvApproves == Inv => FrozenIsApproved
BY DEF Inv, SnapshotInv, FrozenIsApproved, Packed, Package

LEMMA InvKeepsProofs == Inv => SnapshotsStayProven
<1> SUFFICES ASSUME Inv, NEW s \in snapshots PROVE ContextValid(s)
  BY DEF SnapshotsStayProven
<1>1. Ready(s.ref) /\ Listed(s.ref)
  BY DEF Inv, SnapshotInv
<1>2. PICK i \in DOMAIN Versions : Versions[i] = s.ref
  BY <1>1 DEF Listed
<1>3. \A j \in DOMAIN Versions :
        Versions[j].version = j /\ Versions[j].paper_id = Versions[1].paper_id
  BY DEF Inv, PapersInv
<1>4. {j \in DOMAIN Versions : SameVersion(Versions[j], s.ref)} = {i}
  BY <1>2, <1>3 DEF SameVersion
<1>5. PICK n \in DOMAIN Frozen :
        /\ Frozen[n] = s.submission_id
        /\ \A j \in DOMAIN Frozen : Frozen[j] = s.submission_id => j = n
  BY DEF Inv, SnapshotInv
<1>6. {j \in DOMAIN Frozen : Frozen[j] = s.submission_id} = {n}
  BY <1>5
<1>7. /\ Cardinality({j \in DOMAIN Versions : SameVersion(Versions[j], s.ref)}) = 1
      /\ Cardinality({j \in DOMAIN Frozen : Frozen[j] = s.submission_id}) = 1
  BY <1>4, <1>6, FS_Singleton
<1>8. \E row \in papers : row.ref = s.ref /\ row.ref.status = "READY_FOR_FINAL_JURY"
  BY <1>1 DEF Ready
<1>9. \E jury \in juries, check \in checks :
        /\ jury.report_id = s.jury_report_id
        /\ check.check_id = s.check_id
        /\ check.jury_report_id = jury.report_id
  BY DEF Inv, SnapshotInv
<1> QED BY <1>2, <1>7, <1>8, <1>9 DEF ContextValid, Versions, Frozen

\* The newest row of a table, by created_at, if one row is younger than all others.
LEMMA NewestIsYoungest ==
  ASSUME NEW rows, \A row \in rows : row.created_at \in Nat,
         NEW row \in rows, Youngest(row, rows)
  PROVE  Newest(rows) = row
<1>1. \A other \in rows : other.created_at <= row.created_at
  BY DEF Youngest
<1>2. Newest(rows) \in rows /\ row.created_at <= Newest(rows).created_at
  BY <1>1 DEF Newest
<1> QED BY <1>2 DEF Youngest

LEMMA InvBacksReadiness == Inv => ReadinessIsBacked
<1> SUFFICES ASSUME Inv, juries # {} PROVE ReadinessIsBacked
  BY DEF ReadinessIsBacked
<1>1. PICK jury \in juries :
        /\ Youngest(jury, juries)
        /\ proj.submission_state.jury_report_id = jury.report_id
        /\ proj.submission_state.status \in {"READY", "FROZEN"} =>
             /\ jury.decision = "PASS"
             /\ \E check \in checks :
                  check.jury_report_id = jury.report_id /\ check.status = "PASS"
        /\ proj.submission_state.status = "FROZEN" =>
             \E s \in snapshots :
               /\ Youngest(s, snapshots)
               /\ Frozen # <<>> /\ Frozen[Len(Frozen)] = s.submission_id
  BY DEF Inv, ReadinessInv
<1>2. /\ \A row \in juries : row.created_at \in Nat
      /\ \A row \in snapshots : row.created_at \in Nat
  BY DEF Inv, TypeOK, FinalJuryReport, SubmissionSnapshot
<1>3. Newest(juries) = jury
  BY <1>1, <1>2, NewestIsYoungest
<1>4. proj.submission_state.status = "FROZEN" =>
        Last(proj.submission_snapshots) = Newest(snapshots).submission_id
  BY <1>1, <1>2, NewestIsYoungest DEF Last, Frozen
<1> QED BY <1>1, <1>3, <1>4 DEF ReadinessIsBacked

\* The invariant is inductive: every step of every request, of the clock, of the
\* disk and of the other workflows keeps it.
THEOREM InvariantHolds == SubmissionSpec => []Inv
<1>1. SubmissionInit => Inv
  BY InitInv
<1>2. Inv /\ [SubmissionNext]_submissionVars => Inv'
  BY StepInv
<1> QED BY <1>1, <1>2, PTL DEF SubmissionSpec

\* The tables, the state, the store and the requests keep their types.
THEOREM TypeCorrectness == SubmissionSpec => []TypeOK
<1>1. Inv => TypeOK
  BY DEF Inv
<1> QED BY <1>1, InvariantHolds, PTL

\* Versions of the paper are numbered 1, 2, ... under one identity, in the
\* order of their creation, with one row each: neither gap nor twin.
THEOREM NumberingCorrectness == SubmissionSpec => []PapersAreNumbered
BY InvNumbersPapers, InvariantHolds, PTL

\* Every snapshot rests on a jury report and a check that passed, on its
\* version of the paper, on the bytes that were approved, before the deadline.
THEOREM ApprovalCorrectness == SubmissionSpec => []FrozenIsApproved
BY InvApproves, InvariantHolds, PTL

\* snapshot_context_valid never turns false for a snapshot that was frozen.
THEOREM SnapshotCorrectness == SubmissionSpec => []SnapshotsStayProven
BY InvKeepsProofs, InvariantHolds, PTL

\* The submission state of the current revision is that of the newest jury
\* report, and READY and FROZEN are only shown after both approvals.
THEOREM ReadinessCorrectness == SubmissionSpec => []ReadinessIsBacked
BY InvBacksReadiness, InvariantHolds, PTL
===============================================================================
