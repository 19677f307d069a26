--------------------------- MODULE SubmissionPackage --------------------------
(***************************************************************************)
(* What happens to a paper that is ready: the rules of a competition       *)
(* profile, the final jury, the submission check, and the frozen package   *)
(* (the components FinalSubmissionWorkflow calls, on the data they see).   *)
(* The jury, the clock and the file store are the surroundings.            *)
(***************************************************************************)
EXTENDS PaperBuild

CONSTANTS
  Profile,    \* the competition profiles that may be registered
  JuryDraft,  \* what FinalJuryAgent can hand in
  Hours       \* the hours to a deadline at which something is looked at

VARIABLES
  profile,  \* the profile of the final run
  left,     \* hours to its deadline, negative once it has passed
  review,   \* what the run found so far
  package   \* the frozen package and its last verification

reviewVars == <<profile, left, review, package>>

NoReview == [phase |-> "none", rules |-> {}, coverage |-> {}, jury |-> "NONE", mock |-> FALSE]

NoPackage ==
  [status |-> "NONE", bytes |-> [k \in {} |-> "stored"], verified_at |-> 0, mock |-> FALSE]

-----------------------------------------------------------------------------
(* schemas/submission.py and submission/profiles.py                          *)

ProfileVerificationStatus ==
  {"TEST_FIXTURE", "VERIFIED", "PARTIALLY_VERIFIED", "UNVERIFIED", "UNKNOWN", "CONFLICT"}

AIDisclosurePolicy ==
  {"REQUIRED", "PROHIBITED", "ALLOWED_WITH_CONDITIONS", "NOT_APPLICABLE", "UNKNOWN"}

\* A profile has finitely many rules, and its enumerations are those of the schema.
ASSUME ProfileAssumption ==
  \A p \in Profile :
    /\ IsFiniteSet(p.rules) /\ p.ai_disclosure \in AIDisclosurePolicy
    /\ { x.verification_status : x \in {p} \cup p.rules } \subseteq ProfileVerificationStatus

ASSUME HoursAssumption == Hours \subseteq Int

\* CompetitionRule; a limit, a role or terms are the parameters of the types
\* that use them.
Rule(type, severity, status, limit, terms) ==
  [ rule_type |-> type, severity |-> severity, verification_status |-> status,
    source |-> "official", scope |-> "TOTAL", limit |-> limit, role |-> "PAPER_PDF",
    terms |-> terms ]

\* CompetitionProfile, with the files it allows by role.  A limit of 0 is none.
GenericProfile(status, rules) ==
  [ verification_status |-> status, source_refs |-> {"official"}, rules |-> rules,
    page_rules |-> [max_pages |-> 0, scope |-> "TOTAL"],
    anonymous |-> [required |-> FALSE, prohibited_terms |-> {}],
    file_rules |-> [count |-> 0, size |-> 0, package |-> 0, mime_types |-> {}],
    paper_filename |-> "paper.pdf", affixes |-> {}, required_sections |-> {"RESULTS"},
    allowed_submission_files |-> {"PAPER_PDF", "PAPER_TEX", "REFERENCES", "FIGURE", "TABLE"},
    ai_disclosure |-> "NOT_APPLICABLE", deadline |-> FALSE, reproduction_required |-> FALSE,
    weights_given |-> TRUE, minimum_jury_score |-> 75, require_independent_reviewer |-> FALSE ]

Blocking(rules) == { r \in rules : r.severity = "BLOCKING" }

\* The validator unique_rules_and_weights: one page limit.
PageLimits(p) ==
  ({ r.limit : r \in { q \in p.rules : q.rule_type = "PAGE_LIMIT" } }
     \cup { p.page_rules.max_pages }) \ {0}

\* validate_competition_profile raises unless this holds.
ValidateCompetitionProfile(p) ==
  /\ Cardinality(PageLimits(p)) <= 1
  /\ \A r \in Blocking(p.rules) : r.source \in p.source_refs
  /\ p.verification_status = "VERIFIED" =>
       /\ "fixture" \notin p.source_refs
       /\ \A r \in Blocking(p.rules) : r.verification_status = "VERIFIED"
  /\ p.reproduction_required =>
       \E r \in Blocking(p.rules) : r.rule_type = "CUSTOM" /\ r.terms = {"REPRODUCTION"}

\* CompetitionProfileRegistry registers valid profiles only.
Registered == { p \in Profile : ValidateCompetitionProfile(p) }

-----------------------------------------------------------------------------
(* FinalSubmissionWorkflow._candidate                                        *)

\* _convert_artifact: the artifacts that are handed in, and their roles.
RoleOf ==
  [ PDF |-> "PAPER_PDF", TEX |-> "PAPER_TEX", BIB |-> "REFERENCES", FIGURE_IMAGE |-> "FIGURE",
    TABLE_DATA |-> "TABLE" ]

Submitted == DOMAIN RoleOf

Roles == { RoleOf[k] : k \in Submitted }

\* The type an artifact is recorded with, and the one its bytes show.
DeclaredMime ==
  [ PDF |-> "application/pdf", TEX |-> "application/x-tex", BIB |-> "application/x-bibtex",
    FIGURE_IMAGE |-> "image/png", TABLE_DATA |-> "application/json" ]

DetectMime ==
  [ PDF |-> "application/pdf", TEX |-> "text/plain", BIB |-> "text/plain",
    FIGURE_IMAGE |-> "image/png", TABLE_DATA |-> "text/plain" ]

\* The names the files get, and what they begin and end with.
NameOf ==
  [ PDF |-> "paper.pdf", TEX |-> "paper.tex", BIB |-> "references.bib",
    FIGURE_IMAGE |-> "FIG-001.png", TABLE_DATA |-> "TAB-001.json" ]

AffixesOf ==
  [ PDF |-> {"paper", "pdf"}, TEX |-> {"paper", "tex"}, BIB |-> {"references", "bib"},
    FIGURE_IMAGE |-> {"FIG", "png"}, TABLE_DATA |-> {"TAB", "json"} ]

\* A page is one unit of size; every other file has one, too.
SizeOf(k) == IF k = "PDF" THEN compilation.pages ELSE 1

SizeOfAll == compilation.pages + Cardinality(Submitted \ {"PDF"})

SectionTypes == { s.section_type : s \in AllSections(paper) }

\* paper_text: the wordings of the claims and of the blocks, which are also in
\* the TeX and the PDF.
PaperText == UNION { t.words : t \in Blocks(paper) \cup paper.claims }

Phase5Verified == \E gate \in project.gates : gate.status = "PASS"

Intact(kinds) == \A k \in kinds : store[k] = "stored"

-----------------------------------------------------------------------------
(* submission/requirements.py                                                *)

RiskOutput == {"risk"}

Measurement == {"NUMERIC", "RESULT", "COMPARISON"}

\* _allowed_claim_types.
AllowedClaimTypes(output, tasks) ==
  CASE output \in RiskOutput -> {"ROBUSTNESS", "SENSITIVITY", "COMPARISON", "CONCLUSION"}
    [] output \notin RiskOutput
         /\ tasks \cap {"PREDICTION", "TIME_SERIES", "OPTIMIZATION", "DECISION",
                        "MULTI_OBJECTIVE", "NETWORK"} # {} -> Measurement
    [] OTHER ->
         Measurement \cup {"CONCLUSION", "ROBUSTNESS", "SENSITIVITY"}
           \cup IF "EVALUATION" \in tasks THEN {} ELSE {"FACTUAL"}

\* RequirementRegistry.from_subproblems.
Requirements ==
  UNION { { [subproblem_id |-> q, required_output |-> o] : o \in project.requirements[q] }
          : q \in DOMAIN project.requirements }

ValidSections(declared, q) ==
  { s \in AllSections(paper) : s.section_id \in declared.section_ids /\ q \in s.subproblem_refs }

\* The claims that count as an answer.
ValidClaims(declared, requirement) ==
  LET sections == ValidSections(declared, requirement.subproblem_id)
      output == requirement.required_output IN
  { c \in paper.claims :
      /\ output \in DOMAIN declared.output_claim_refs
      /\ c.claim_id \in declared.output_claim_refs[output] \cap declared.claim_refs
      /\ c.claim_type \in AllowedClaimTypes(output, project.tasks)
      /\ \E s \in sections : s.section_id = c.section_id /\ c.claim_id \in s.claim_refs
      /\ c.verification_status = "SUPPORTED" /\ c.evidence_refs # {} }

\* RequirementCoverageValidator.validate, for one requirement.
CoverageStatus(requirement) ==
  LET declared == { r \in paper.subproblem_coverage :
                      r.subproblem_id = requirement.subproblem_id }
      r == CHOOSE d \in declared : TRUE IN
  IF declared = {} THEN "MISSING"
  ELSE CASE /\ requirement.required_output \in r.required_outputs
            /\ ValidSections(r, requirement.subproblem_id) # {}
            /\ ValidClaims(r, requirement) # {} -> "COVERED"
         [] ValidSections(r, requirement.subproblem_id) = {} -> "MISSING"
         [] OTHER -> "PARTIAL"

RequirementCoverage ==
  { [requirement |-> q, status |-> CoverageStatus(q)] : q \in Requirements }

-----------------------------------------------------------------------------
(* submission/rules.py                                                       *)

\* DeadlineEvaluator.evaluate, as a status and a mode.
DeadlineStatus(p, hours) ==
  CASE ~p.deadline -> "UNKNOWN"
    [] p.deadline /\ hours < 0 -> "EXPIRED"
    [] p.deadline /\ hours \in 0 .. 2 -> "NEAR_DEADLINE"
    [] OTHER -> "OPEN"

DeadlineMode(p, hours) ==
  CASE ~p.deadline -> "UNKNOWN"
    [] p.deadline /\ hours < 1 -> "SUBMISSION_MODE"
    [] p.deadline /\ hours \in 1 .. 2 -> "MODEL_FREEZE"
    [] p.deadline /\ hours \in 3 .. 5 -> "FINALIZATION"
    [] p.deadline /\ hours \in 6 .. 12 -> "PRIORITY"
    [] OTHER -> "NORMAL"

\* What SubmissionSecurityScanner finds in the text and in the files, and what
\* counts as a trace of an author.
SecurityFindings == PaperText \cap {"local path", "secret", "mock indicator"}

IdentityFindings(terms) ==
  PaperText \cap ({"email address", "identity label", "local path"} \cup terms)

Outcome(condition, failure) == IF condition THEN "PASS" ELSE failure

PageLimit(rule, p) ==
  LET maximum == IF rule.limit = 0 THEN p.page_rules.max_pages ELSE rule.limit IN
  CASE rule.scope # "TOTAL" -> "HUMAN_REVIEW"
    [] rule.scope = "TOTAL" /\ maximum = 0 -> "NOT_EVALUABLE"
    [] OTHER -> Outcome(compilation.pages <= maximum, "FAIL")

\* The artifacts with a role need the type, as recorded and as it is.
FileFormat(rule) ==
  LET matches == { k \in Submitted : RoleOf[k] = rule.role } IN
    Outcome(/\ matches # {}
            /\ \A k \in matches : {DeclaredMime[k]} = rule.terms /\ {DetectMime[k]} = rule.terms,
            "FAIL")

FileSize(rule, p) ==
  LET maximum == IF rule.limit = 0 THEN p.file_rules.size ELSE rule.limit IN
    IF maximum = 0 THEN "NOT_EVALUABLE"
    ELSE Outcome(\A k \in Submitted : SizeOf(k) <= maximum, "FAIL")

FileCount(rule) == Outcome(rule.limit > 0 /\ Cardinality(Submitted) <= rule.limit, "FAIL")

\* Neither code nor data is among what is handed in.
ContentPolicy(rule) == Outcome(rule.terms # {"REQUIRED"}, "FAIL")

AIDisclosure(p) ==
  CASE p.ai_disclosure = "UNKNOWN" -> "HUMAN_REVIEW"
    [] p.ai_disclosure = "PROHIBITED" -> "FAIL"
    [] p.ai_disclosure \in {"REQUIRED", "ALLOWED_WITH_CONDITIONS"} ->
         Outcome("disclosure" \in PaperText, "FAIL")
    [] OTHER -> "PASS"

Deadline(p, hours) ==
  CASE DeadlineStatus(p, hours) = "UNKNOWN" -> "HUMAN_REVIEW"
    [] DeadlineStatus(p, hours) = "EXPIRED" -> "FAIL"
    [] OTHER -> "PASS"

\* A parameter of the rule, or else what the profile says.
Stated(rule, default) == IF rule.terms = {} THEN default ELSE rule.terms

Anonymity(rule, p) ==
  LET required == Stated(rule, IF p.anonymous.required THEN {"required"} ELSE {"optional"}) IN
    Outcome(required = {"required"} => IdentityFindings(p.anonymous.prohibited_terms) = {}, "FAIL")

\* One file has the role, the name that is asked for, if one is, and the prefix
\* and suffix of the profile.
Filename(rule, p) ==
  LET exact == Stated(rule, {p.paper_filename})
      files == { k \in Submitted : RoleOf[k] = rule.role } IN
  Outcome(\E k \in files : /\ files = {k}
                           /\ exact # {"none"} => {NameOf[k]} = exact
                           /\ p.affixes \subseteq AffixesOf[k], "FAIL")

RequiredSection(rule, p) ==
  Outcome(Stated(rule, p.required_sections) \subseteq SectionTypes, "FAIL")

ProhibitedContent(rule) == Outcome(rule.terms \cap PaperText = {}, "FAIL")

Unproven == {"UNVERIFIED", "UNKNOWN", "CONFLICT"}

\* RuleEngine._evaluate_rule.
Handled(rule, p, hours) ==
  CASE rule.rule_type = "PAGE_LIMIT" -> PageLimit(rule, p)
    [] rule.rule_type = "FILE_FORMAT" -> FileFormat(rule)
    [] rule.rule_type = "FILE_COUNT" -> FileCount(rule)
    [] rule.rule_type = "FILE_SIZE" -> FileSize(rule, p)
    [] rule.rule_type = "FILENAME" -> Filename(rule, p)
    [] rule.rule_type = "ANONYMITY" -> Anonymity(rule, p)
    [] rule.rule_type = "REQUIRED_SECTION" -> RequiredSection(rule, p)
    [] rule.rule_type = "PROHIBITED_CONTENT" -> ProhibitedContent(rule)
    [] rule.rule_type \in {"CODE_SUBMISSION", "DATA_SUBMISSION"} -> ContentPolicy(rule)
    [] rule.rule_type = "AI_DISCLOSURE" -> AIDisclosure(p)
    [] rule.rule_type = "DEADLINE" -> Deadline(p, hours)
    [] OTHER -> IF rule.severity = "BLOCKING" THEN "HUMAN_REVIEW" ELSE "NOT_EVALUABLE"

\* A result carries its message, and the message of a deadline its mode.
RuleResult(rule, status, p, hours) ==
  [ rule |-> rule, status |-> status,
    mode |-> IF rule.rule_type = "DEADLINE" /\ status = "PASS" THEN DeadlineMode(p, hours)
             ELSE "none" ]

\* Mutant: only the status of the rule itself is looked at.
EvaluateRuleBug(rule, p, hours) ==
  RuleResult(rule, IF rule.verification_status \in Unproven THEN "HUMAN_REVIEW"
                   ELSE Handled(rule, p, hours), p, hours)

EvaluateRule(rule, p, hours) ==
  RuleResult(rule,
             IF \/ rule.verification_status \in Unproven
                \/ rule.severity = "BLOCKING" /\ p.verification_status \in Unproven
             THEN "HUMAN_REVIEW" ELSE Handled(rule, p, hours), p, hours)

\* RuleEngine.evaluate.
Evaluate(p, hours) == { EvaluateRule(rule, p, hours) : rule \in p.rules }

-----------------------------------------------------------------------------
(* submission/jury.py                                                        *)

Blocked(results, statuses) ==
  \E r \in results : r.rule.severity = "BLOCKING" /\ r.status \in statuses

\* recompute_score: the dimensions are those of the profile, whose weights have
\* to be given for any to be.
RecomputeScore(draft, p) ==
  IF draft.dimensions_match /\ p.weights_given THEN draft.score ELSE 0

\* _deterministic_findings; of two findings with one identifier the first counts.
DeterministicFindings(results, coverage) ==
  { [finding_id |-> "JURY-requirement", severity |-> "CRITICAL", resolved |-> FALSE]
    : c \in { d \in coverage : d.status # "COVERED" } } \cup
  { [finding_id |-> "JURY-rule", severity |-> "CRITICAL", resolved |-> FALSE]
    : r \in { q \in results : q.rule.severity = "BLOCKING" /\ q.status # "PASS" } }

JuryFindings(draft, results, coverage) ==
  LET certain == DeterministicFindings(results, coverage) IN
    certain \cup { f \in draft.findings : \A g \in certain : g.finding_id # f.finding_id }

\* FinalJuryGate._decision.  No reviewer is ever independent.
JuryDecision(draft, p, results, coverage) ==
  LET open == { f \in JuryFindings(draft, results, coverage) :
                  f.severity = "CRITICAL" /\ ~f.resolved } IN
  CASE ~(draft.dimensions_match /\ p.weights_given) \/ ~Phase5Verified -> "FAIL"
    [] OTHER ->
       IF report.status # "READY_FOR_FINAL_JURY" \/ Blocked(results, {"FAIL"}) THEN "FAIL"
       ELSE IF Blocked(results, {"HUMAN_REVIEW", "NOT_EVALUABLE"}) \/ p.require_independent_reviewer
       THEN "HUMAN_REVIEW"
       ELSE Outcome(/\ \A c \in coverage : c.status = "COVERED"
                    /\ open = {} /\ RecomputeScore(draft, p) >= p.minimum_jury_score, "FAIL")

-----------------------------------------------------------------------------
(* submission/checks.py                                                      *)

\* is_allowed_path, over the paths of the roles.
NotAllowed(p) == Roles \ p.allowed_submission_files

\* The severities of the issues SubmissionCheck._issues finds, with the bytes
\* the candidate was made from.
CheckIssues(p, results, coverage, jury) ==
  { r.rule.severity : r \in { q \in results : q.status = "FAIL" } } \cup
  { "BLOCKING" : c \in { d \in coverage : d.status # "COVERED" } } \cup
  (IF jury = "PASS" THEN {} ELSE IF jury = "HUMAN_REVIEW" THEN {"MAJOR"} ELSE {"BLOCKING"}) \cup
  { "BLOCKING" : f \in SecurityFindings \cup NotAllowed(p) } \cup
  (IF Phase5Verified /\ report.status = "READY_FOR_FINAL_JURY" THEN {} ELSE {"BLOCKING"})

CheckStatus(p, results, coverage, jury) ==
  LET issues == CheckIssues(p, results, coverage, jury) IN
  CASE jury = "HUMAN_REVIEW" \/ Blocked(results, {"HUMAN_REVIEW", "NOT_EVALUABLE"}) ->
         "HUMAN_REVIEW"
    [] OTHER -> IF "BLOCKING" \in issues THEN "FAIL" ELSE IF issues # {} THEN "WARNING" ELSE "PASS"

-----------------------------------------------------------------------------
(* submission/package.py                                                     *)

\* SubmissionPackageBuilder._validate_sources, of the bytes as they are now.
ValidateSources(p) ==
  /\ Intact(Submitted)
  /\ p.file_rules.mime_types # {} =>
       { DeclaredMime[k] : k \in Submitted } \subseteq p.file_rules.mime_types
  /\ NotAllowed(p) = {}
  /\ SecurityFindings = {}
  /\ p.file_rules.package # 0 => SizeOfAll <= p.file_rules.package

\* _profile_package_valid: the limits of the profile and of its total page rules.
ProfilePackageValid(p) ==
  LET total == { r.limit : r \in { q \in p.rules : q.rule_type = "PAGE_LIMIT"
                                                  /\ q.scope = "TOTAL" } } \cup
               (IF p.page_rules.scope = "TOTAL" THEN {p.page_rules.max_pages} ELSE {}) IN
  /\ p.file_rules.count # 0 => Cardinality(Submitted) <= p.file_rules.count
  /\ NotAllowed(p) = {}
  /\ p.file_rules.size # 0 => \A k \in Submitted : SizeOf(k) <= p.file_rules.size
  /\ p.paper_filename \in {"none", "paper.pdf"}
  /\ \A limit \in total \ {0} : compilation.pages <= limit

\* SubmissionIntegrityVerifier.verify: the clock, the sources and the package.
Verify(p, hours, bytes, mock) ==
  IF /\ ValidateCompetitionProfile(p)
     /\ (\E r \in Blocking(p.rules) : r.rule_type = "DEADLINE") =>
          DeadlineStatus(p, hours) \notin {"EXPIRED", "UNKNOWN"}
     /\ ~(p.require_independent_reviewer /\ mock)
     /\ Intact(Submitted) /\ \A k \in DOMAIN bytes : bytes[k] = "stored"
     /\ SecurityFindings = {}
     /\ p.anonymous.required => IdentityFindings(p.anonymous.prohibited_terms) = {}
     /\ ProfilePackageValid(p)
  THEN "FROZEN" ELSE "DIRTY"

\* SubmissionPackageBuilder.build: the bytes are read and checked, the rules
\* evaluated again with them at this hour, jury and check held against that,
\* and the package verified before it counts; NoPackage if anything raises.
BuildPackage ==
  LET built == [k \in Submitted |-> store[k]] IN
  IF /\ ValidateCompetitionProfile(profile) /\ ValidateSources(profile)
     /\ Evaluate(profile, left) = review.rules
     /\ review.jury = "PASS"
     /\ CheckStatus(profile, review.rules, review.coverage, review.jury) = "PASS"
     /\ Verify(profile, left, built, review.mock) = "FROZEN"
  THEN [status |-> "FROZEN", bytes |-> built, verified_at |-> left, mock |-> review.mock]
  ELSE NoPackage

-----------------------------------------------------------------------------
(* FinalSubmissionWorkflow.run                                               *)

SubmissionInit ==
  /\ profile = CHOOSE p \in Profile : TRUE
  /\ left = 0
  /\ review = NoReview /\ package = NoPackage

\* A final run of the ready paper, for a problem that was structured: all its
\* bytes are read, the requirements and rules evaluated, and the jury called.
FinalReview ==
  /\ step = "built" /\ review.phase = "none"
  /\ report.status = "READY_FOR_FINAL_JURY"
  /\ \E p \in Registered, hours \in Hours :
       /\ profile' = p
       /\ left' = IF p.deadline THEN hours ELSE 0
       /\ review' = IF Intact(DOMAIN store) /\ DOMAIN project.requirements # {}
                    THEN [NoReview EXCEPT !.phase = "jury", !.rules = Evaluate(p, hours),
                            !.coverage = RequirementCoverage]
                    ELSE [NoReview EXCEPT !.phase = "refused"]
  /\ UNCHANGED package

\* The jury's answer and the check.
JuryAndCheck ==
  /\ review.phase = "jury"
  /\ \/ \E draft \in JuryDraft, mock \in BOOLEAN :
          review' = [review EXCEPT !.phase = "checked", !.mock = mock, !.jury =
                       JuryDecision(draft, profile, review.rules, review.coverage)]
     \/ review' = [review EXCEPT !.phase = "refused"]
  /\ UNCHANGED <<profile, left, package>>

\* SubmissionFreeze.freeze: jury, check, rules and coverage are looked at again
\* with the bytes read for the review, then the package is built.
Freeze ==
  /\ review.phase = "checked"
  /\ IF /\ review.jury = "PASS"
        /\ CheckStatus(profile, review.rules, review.coverage, review.jury) = "PASS"
        /\ Evaluate(profile, left) = review.rules
        /\ RequirementCoverage = review.coverage
        /\ BuildPackage # NoPackage
     THEN package' = BuildPackage /\ review' = [review EXCEPT !.phase = "frozen"]
     ELSE review' = [review EXCEPT !.phase = "refused"] /\ UNCHANGED package
  /\ UNCHANGED <<profile, left>>

\* The frozen package is verified again.
VerifyPackage ==
  /\ review.phase = "frozen"
  /\ package' = [package EXCEPT !.status = Verify(profile, left, package.bytes, package.mock),
                                !.verified_at = left]
  /\ UNCHANGED <<profile, left, review>>

TimePasses ==
  /\ review.phase \in {"jury", "checked", "frozen"} /\ profile.deadline
  /\ \E h \in Hours : h < left /\ left' = h
  /\ UNCHANGED <<profile, review, package>>

ReviewNext == FinalReview \/ JuryAndCheck \/ Freeze \/ VerifyPackage \/ TimePasses

Next ==
  \/ BuildNext /\ UNCHANGED reviewVars
  \/ ReviewNext /\ UNCHANGED buildVars

Init == BuildInit /\ SubmissionInit

Spec == Init /\ [][Next]_<<buildVars, reviewVars>>

-----------------------------------------------------------------------------
(* Properties                                                                *)

\* What a rule asks is so, of the paper and the files that are packaged at hour;
\* nothing is said to obey a rule of a type the engine does not look at.
Obeyed(rule, p, hour) ==
  CASE rule.rule_type = "PAGE_LIMIT" ->
         PageLimits(p) # {} /\ \A limit \in PageLimits(p) : compilation.pages <= limit
    [] rule.rule_type = "ANONYMITY" ->
         (\/ rule.terms = {"required"}
          \/ rule.terms = {} /\ p.anonymous.required) =>
           PaperText \cap ({"email address", "identity label", "local path"}
                              \cup p.anonymous.prohibited_terms) = {}
    [] rule.rule_type = "REQUIRED_SECTION" ->
         \A type \in Stated(rule, p.required_sections) : type \in SectionTypes
    [] rule.rule_type = "PROHIBITED_CONTENT" -> rule.terms \cap PaperText = {}
    [] rule.rule_type = "FILENAME" ->
         /\ \E k \in Submitted : RoleOf[k] = rule.role
         /\ \A k \in Submitted : RoleOf[k] = rule.role =>
              /\ Stated(rule, {p.paper_filename}) \in {{"none"}, {NameOf[k]}}
              /\ p.affixes \subseteq AffixesOf[k]
    [] rule.rule_type = "FILE_FORMAT" ->
         /\ \E k \in Submitted : RoleOf[k] = rule.role
         /\ \A k \in Submitted : RoleOf[k] = rule.role => rule.terms = {DetectMime[k]}
    [] rule.rule_type = "FILE_COUNT" -> Cardinality(Submitted) <= rule.limit
    [] rule.rule_type = "FILE_SIZE" ->
         LET limit == IF rule.limit = 0 THEN p.file_rules.size ELSE rule.limit IN
           limit # 0 /\ \A k \in Submitted : SizeOf(k) <= limit
    [] rule.rule_type \in {"CODE_SUBMISSION", "DATA_SUBMISSION"} -> rule.terms # {"REQUIRED"}
    [] rule.rule_type = "AI_DISCLOSURE" ->
         /\ p.ai_disclosure \notin {"UNKNOWN", "PROHIBITED"}
         /\ p.ai_disclosure = "NOT_APPLICABLE" \/ "disclosure" \in PaperText
    [] rule.rule_type = "DEADLINE" -> p.deadline /\ hour >= 0
    [] OTHER -> FALSE

\* A frozen package can be handed in: its paper is grounded, each output the
\* problem asks for is answered by a claim that shows what was measured, every
\* blocking rule comes from a source that is believed and is obeyed, nothing
\* in it gives a secret away, and its bytes are those that were compiled.
FrozenPackageIsCompliant ==
  package.status = "FROZEN" =>
    /\ \A q \in Requirements : \E r \in paper.subproblem_coverage :
         /\ r.subproblem_id = q.subproblem_id
         /\ \E c \in paper.claims :
              /\ q.required_output \in DOMAIN r.output_claim_refs
              /\ c.claim_id \in r.output_claim_refs[q.required_output]
              /\ c.importance \in Material => c.claim_id \in ClaimsShown(paper)
              /\ ShowsMeasured(c) /\ c.evidence_refs \cap { e.evidence_id : e \in Evidence } # {}
    /\ \A rule \in Blocking(profile.rules) :
         /\ Obeyed(rule, profile, package.verified_at)
         /\ {rule.verification_status, profile.verification_status} \subseteq
              {"VERIFIED", "PARTIALLY_VERIFIED", "TEST_FIXTURE"}
    /\ PaperText \cap {"local path", "secret", "mock indicator"} = {}
    /\ compilation.figure = "stored" /\ DOMAIN package.bytes = Submitted
    /\ \A k \in Submitted : package.bytes[k] = "stored"
=============================================================================
