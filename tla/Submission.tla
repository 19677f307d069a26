------------------------------ MODULE Submission -------------------------------
(***************************************************************************)
(* Phase 7 composed with Phase 6: final runs on explicit paper versions,   *)
(* beside searches and builds.  A run reads the paper and its bytes,       *)
(* awaits the jury, packs the approved candidate into the file store and   *)
(* appends two to four revisions, with the jury, the check and the         *)
(* snapshot, in one transaction.                                           *)
(***************************************************************************)
EXTENDS Paper, SequencesExt

VARIABLES
  juries,     \* the rows of final_jury_reports
  checks,     \* the rows of submission_checks
  snapshots,  \* the rows of submission_snapshots, with their manifests
  expired     \* when the deadline of the competition passed; 0 before that

approvals == <<juries, checks, snapshots>>

submissionVars == <<paperStored, drawn, requests, approvals, expired>>

\* What the rules of a profile say: WARNING is a failed rule that does not
\* block, UNKNOWN a blocking one that nobody could evaluate.
RuleOutcome == {"PASS", "WARNING", "UNKNOWN", "BLOCKED"}

\* What the review comes to: every required problem covered, no open critical
\* finding and a sufficient score, or not; UNATTENDED is a profile that asks
\* for an independent reviewer, and had none.
Opinion == {"GOOD", "POOR", "UNATTENDED"}

JuryDecision == {"PASS", "FAIL", "HUMAN_REVIEW"}

SubmissionCheckStatus == {"PASS", "WARNING", "FAIL", "HUMAN_REVIEW"}

FinalJuryReport ==
  [report_id : Ticket, ref : PaperVersionRef, decision : JuryDecision, created_at : Nat]

SubmissionCheckResult ==
  [check_id : Ticket, jury_report_id : Ticket, status : SubmissionCheckStatus]

SubmissionSnapshot ==
  [submission_id : Ticket, ref : PaperVersionRef, jury_report_id : Ticket,
   check_id : Ticket, created_at : Nat]

SubmissionInit ==
  /\ PaperInit
  /\ juries = {} /\ checks = {} /\ snapshots = {}
  /\ expired = 0

-----------------------------------------------------------------------------
(* The environment: time and the disk.                                       *)

DeadlinePasses ==
  /\ expired = 0
  /\ clock' = clock + 1
  /\ expired' = clock + 1
  /\ UNCHANGED <<proj, papers, references, store, drawn, requests, approvals>>

\* Somebody edits or loses the bytes of a paper that could be submitted.
BytesChange ==
  /\ \E row \in papers :
       /\ row.ref.status = "READY_FOR_FINAL_JURY"
       /\ store[PaperObject(row.ref.manifest_hash)] = "intact"
       /\ store' = [store EXCEPT ![PaperObject(row.ref.manifest_hash)] = "changed"]
  /\ UNCHANGED <<proj, papers, references, clock, drawn, requests, approvals, expired>>

-----------------------------------------------------------------------------
(* FinalSubmissionWorkflow.run                                               *)

LoadFinal(c) ==
  /\ At(c, "final")
  /\ proj.current_stage \in {"PAPER", "FINAL_JURY", "SUBMISSION", "FINAL"}
  /\ Become(c, [requests[c] EXCEPT !.base = proj, !.step = "paper"])
  /\ UNCHANGED <<paperStored, drawn, approvals, expired>>

SameVersion(ref, other) == ref.paper_id = other.paper_id /\ ref.version = other.version

\* The version that was named is in the loaded state once, as the same row,
\* and ready.
ValidateExplicitPaper(state, ref) ==
  /\ Cardinality({i \in DOMAIN state.paper_versions :
                    SameVersion(state.paper_versions[i], ref)}) = 1
  /\ \E i \in DOMAIN state.paper_versions : state.paper_versions[i] = ref
  /\ ref.status = "READY_FOR_FINAL_JURY"
  /\ ref.manifest_hash # 0

Untouched(ref) == store[PaperObject(ref.manifest_hash)] = "intact"

\* The paper, its artifacts and their bytes, which have to hash to the rows;
\* then the requirements and the rules are evaluated, at this time.
Candidate(c) ==
  /\ At(c, "paper")
  /\ \E row \in papers, freeze \in BOOLEAN, rules \in RuleOutcome :
       /\ ValidateExplicitPaper(requests[c].base, row.ref)
       /\ Untouched(row.ref)
       /\ expired # 0 => rules = "BLOCKED"
       /\ Become(c, [requests[c] EXCEPT !.step = "jury", !.ref = row.ref,
            !.rules = rules, !.freeze = freeze])
  /\ UNCHANGED <<paperStored, drawn, approvals, expired>>

\* FinalJuryGate._decision.
Decision(rules, opinion) ==
  CASE rules = "BLOCKED" -> "FAIL"
    [] rules = "UNKNOWN" \/ opinion = "UNATTENDED" -> "HUMAN_REVIEW"
    [] opinion = "POOR" -> "FAIL"
    [] OTHER -> "PASS"

\* SubmissionCheck._status; intact tells whether the bytes that were read and
\* the scan of the files raise no issue.
CheckStatus(rules, decision, intact) ==
  CASE decision = "HUMAN_REVIEW" \/ rules = "UNKNOWN" -> "HUMAN_REVIEW"
    [] rules = "BLOCKED" \/ decision # "PASS" \/ ~intact -> "FAIL"
    [] rules = "WARNING" -> "WARNING"
    [] OTHER -> "PASS"

Approved(decision, check) == decision = "PASS" /\ check = "PASS"

\* The answer of the jury agent arrives.  A run that is to freeze ends here,
\* without a trace in the state, unless everything passed.
JuryAndCheck(c) ==
  LET k == requests[c] IN
  /\ At(c, "jury")
  /\ clock' = clock + 1
  /\ \E opinion \in Opinion, intact \in BOOLEAN :
       LET decision == Decision(k.rules, opinion)
           check == CheckStatus(k.rules, decision, intact) IN
       IF k.freeze /\ ~Approved(decision, check) THEN End(c)
       ELSE Become(c, [k EXCEPT !.decision = decision, !.check = check,
              !.created = clock + 1, !.step = IF k.freeze THEN "freeze" ELSE "commit",
              !.rules = Idle.rules, !.freeze = FALSE])
  /\ UNCHANGED <<proj, papers, references, store, drawn, approvals, expired>>

\* The package copies what the files of the paper hold now.
PackageBytes(c) ==
  [object \in DOMAIN store \cup {[owner |-> requests[c].ticket, kind |-> "package"]} |->
     IF object.kind = "package" /\ object.owner = requests[c].ticket
     THEN store[PaperObject(requests[c].ref.manifest_hash)] ELSE store[object]]

\* Mutant: what the check established a moment ago is taken to hold still.
FreezeBug(c) ==
  /\ At(c, "freeze")
  /\ clock' = clock + 1
  /\ store' = PackageBytes(c)
  /\ Become(c, [requests[c] EXCEPT !.frozen = clock + 1, !.step = "commit"])
  /\ UNCHANGED <<proj, papers, references, drawn, approvals, expired>>

\* SubmissionFreeze.freeze and SubmissionPackageBuilder.build: the rules are
\* evaluated again and have to say the same, the files are read again and have
\* to hash to their records; then the package goes into the store.
Freeze(c) ==
  /\ At(c, "freeze")
  /\ clock' = clock + 1
  /\ IF expired = 0 /\ Untouched(requests[c].ref)
     THEN /\ store' = PackageBytes(c)
          /\ Become(c, [requests[c] EXCEPT !.frozen = clock + 1, !.step = "commit"])
     ELSE End(c) /\ UNCHANGED store
  /\ UNCHANGED <<proj, papers, references, drawn, approvals, expired>>

-----------------------------------------------------------------------------
(* FinalSubmissionWorkflow._state_history                                    *)

Recheck(base) ==
  [base EXCEPT !.version = @ + 1, !.current_stage = "PAPER", !.status = "RUNNING",
     !.submission_state.status = "DIRTY"]

JuryState(base, k) ==
  [base EXCEPT !.version = @ + 1, !.current_stage = "FINAL_JURY",
     !.status = CASE k.decision = "PASS" -> "SUCCEEDED"
                  [] k.decision = "HUMAN_REVIEW" -> "HUMAN_REVIEW"
                  [] OTHER -> "FAILED",
     !.submission_state = [jury_report_id |-> k.ticket, status |-> "CHECKING"]]

CheckState(base, k) ==
  [base EXCEPT !.version = @ + 1, !.current_stage = "SUBMISSION",
     !.status = CASE k.check = "PASS" -> "SUCCEEDED"
                  [] k.check = "HUMAN_REVIEW" -> "HUMAN_REVIEW"
                  [] OTHER -> "FAILED",
     !.submission_state.status = CASE k.check = "PASS" -> "READY"
                                   [] k.check = "HUMAN_REVIEW" -> "HUMAN_REVIEW"
                                   [] OTHER -> "FAILED"]

FrozenState(base, k) ==
  [base EXCEPT !.version = @ + 1, !.current_stage = "FINAL", !.status = "SUCCEEDED",
     !.submission_snapshots = Append(@, k.ticket),
     !.submission_state.status = "FROZEN"]

\* The revisions a run appends: a recheck first, unless the paper is new.
StateHistory(k) ==
  LET base == IF k.base.current_stage = "PAPER" THEN k.base ELSE Recheck(k.base)
      jury == JuryState(base, k)
      check == CheckState(jury, k)
  IN (IF base = k.base THEN <<>> ELSE <<base>>) \o <<jury, check>>
     \o (IF k.frozen # 0 THEN <<FrozenState(check, k)>> ELSE <<>>)

-----------------------------------------------------------------------------
(* SubmissionRepository                                                      *)

\* Mutant: the revisions follow each other, if not the current one.
ConsecutiveBug(states) ==
  \A i \in DOMAIN states : states[i].version = states[1].version + i - 1

Consecutive(states) == \A i \in DOMAIN states : states[i].version = proj.version + i

\* persist_run: everything the run has found, or nothing.
CommitFinal(c) ==
  LET k == requests[c]
      states == StateHistory(k) IN
  /\ At(c, "commit")
  /\ IF Consecutive(states)
     THEN /\ juries' = juries \cup
               {[report_id |-> k.ticket, ref |-> k.ref, decision |-> k.decision,
                 created_at |-> k.created]}
          /\ checks' = checks \cup
               {[check_id |-> k.ticket, jury_report_id |-> k.ticket, status |-> k.check]}
          /\ snapshots' = IF k.frozen = 0 THEN snapshots
               ELSE snapshots \cup
                      {[submission_id |-> k.ticket, ref |-> k.ref, jury_report_id |-> k.ticket,
                        check_id |-> k.ticket, created_at |-> k.frozen]}
          /\ proj' = Last(states)
     ELSE UNCHANGED <<approvals, proj>>
  /\ End(c)
  /\ UNCHANGED <<papers, references, store, clock, drawn, expired>>

\* snapshot_context_valid: what reading a snapshot proves again each time.
ContextValid(snapshot) ==
  /\ \E row \in papers : row.ref = snapshot.ref /\ row.ref.status = "READY_FOR_FINAL_JURY"
  /\ Cardinality({i \in DOMAIN proj.paper_versions :
                    SameVersion(proj.paper_versions[i], snapshot.ref)}) = 1
  /\ \E i \in DOMAIN proj.paper_versions : proj.paper_versions[i] = snapshot.ref
  /\ Cardinality({i \in DOMAIN proj.submission_snapshots :
                    proj.submission_snapshots[i] = snapshot.submission_id}) = 1
  /\ \E jury \in juries, check \in checks :
       /\ jury.report_id = snapshot.jury_report_id
       /\ check.check_id = snapshot.check_id
       /\ check.jury_report_id = jury.report_id

-----------------------------------------------------------------------------
(* The composition.                                                          *)

FinalStep(c) ==
  \/ LoadFinal(c) \/ Candidate(c) \/ JuryAndCheck(c) \/ Freeze(c) \/ CommitFinal(c)

PaperRequest(c) ==
  /\ Submit(c, "evidence") \/ Submit(c, "search") \/ Submit(c, "final")
     \/ PaperStep(c) \/ Fail(c)
  /\ UNCHANGED <<approvals, expired>>

SubmissionNext ==
  \/ \E c \in Client : PaperRequest(c) \/ FinalStep(c)
  \/ SaveElsewhere /\ UNCHANGED <<approvals, expired>>
  \/ DeadlinePasses
  \/ BytesChange

SubmissionSpec == SubmissionInit /\ [][SubmissionNext]_submissionVars

-----------------------------------------------------------------------------
(* Properties.                                                               *)

\* Nothing is frozen that was not approved as it is: every snapshot rests on a
\* jury report and a check that both passed, on this version of the paper; its
\* package holds the bytes that were approved and was built before the
\* deadline, although minutes of agent work lie between reading and packing.
FrozenIsApproved ==
  \A s \in snapshots :
    /\ \E jury \in juries : jury.report_id = s.jury_report_id
                            /\ jury.decision = "PASS" /\ jury.ref = s.ref
    /\ \E check \in checks : check.check_id = s.check_id /\ check.status = "PASS"
    /\ store[[owner |-> s.submission_id, kind |-> "package"]] = "intact"
    /\ expired = 0 \/ s.created_at < expired

\* A frozen snapshot stays provable: whatever searches, builds, final runs and
\* other workflows add later, each snapshot that was ever frozen still stands
\* in the state once, with its paper, its jury and its check.
SnapshotsStayProven == \A s \in snapshots : ContextValid(s)

\* The readiness the current revision shows is that of the newest jury report,
\* found by created_at as get_latest_jury finds it; READY and FROZEN are only
\* shown after both approvals, and what is FROZEN is the newest snapshot.
ReadinessIsBacked ==
  juries # {} =>
    LET shown == proj.submission_state
        jury == Newest(juries) IN
    /\ shown.jury_report_id = jury.report_id
    /\ shown.status \in {"READY", "FROZEN"} =>
         /\ jury.decision = "PASS"
         /\ \E check \in checks : check.jury_report_id = jury.report_id /\ check.status = "PASS"
    /\ shown.status = "FROZEN" =>
         Last(proj.submission_snapshots) = Newest(snapshots).submission_id
=============================================================================
