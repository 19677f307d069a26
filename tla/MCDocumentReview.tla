--------------------------- MODULE MCDocumentReview ---------------------------
(* A small paper with one fault at a time, and what surrounds it.  An amount *)
(* of 12.4 kg is the verified result, found in 5 min with 5 machines of      *)
(* 1240 kg, a rise from 8 g to 10 g what the sensitivity report found.       *)
EXTENDS SubmissionPackage

Nothing == [none |-> NotANumber]

GoodLeaves ==
  { EvidenceRecord("result", "RESULT", [ objective |-> Number(1240, "kg"), label |-> NotANumber,
                     time |-> Number(500, "min"), count |-> Number(500, "machines"),
                     mass |-> Number(124000, "kg") ],
                   {"optimal"}),
    EvidenceRecord("sensitivity", "SENSITIVITY",
                   [before |-> Number(800, "g"), after |-> Number(1000, "g")], {}),
    EvidenceRecord("model", "MODEL", Nothing, {}),
    EvidenceRecord("review", "RED_TEAM", Nothing, {}),
    EvidenceRecord("assumed", "ASSUMPTION", Nothing, {"supported"}) }

Finding(id, severity, resolved) ==
  [finding_id |-> id, severity |-> severity, resolved |-> resolved]

\* One finding was dealt with, another has to be disclosed.
Findings0 == {Finding("dealt with", "CRITICAL", TRUE), Finding("finding", "MAJOR", FALSE)}

GoodChain ==
  [ bound |-> TRUE, validation |-> "PASS", sensitivity |-> "PASS", robustness |-> "PASS",
    red_team |-> "PASS", review_is_mock |-> FALSE, findings |-> Findings0 ]

OldChain == [GoodChain EXCEPT !.bound = FALSE]

GoodProject ==
  [ gates |-> {[status |-> "PASS", errors |-> FALSE, checks |-> {TRUE}]}, status |-> "SUCCEEDED",
    context |-> [ evidence_valid |-> TRUE, identities |-> {"m1"},
                  execution |-> [is_mock |-> FALSE, status |-> "SUCCEEDED", safe |-> TRUE] ],
    chains |-> {GoodChain, OldChain}, leaves |-> GoodLeaves,
    experiments |-> {[parameter |-> 1, objective |-> "8 g"], [parameter |-> 2, objective |-> "10 g"]},
    symbols_valid |-> TRUE, equations |-> {"EQ-1", "EQ-2"}, unsafe_equations |-> {"EQ-2"},
    requirements |-> [Q1 |-> {"amount"}], tasks |-> {"OPTIMIZATION"} ]

MCProject ==
  { GoodProject,
    [GoodProject EXCEPT !.gates = @ \cup {[status |-> "PASS", errors |-> TRUE, checks |-> {TRUE}]}],
    [GoodProject EXCEPT !.gates = {[status |-> "PASS", errors |-> FALSE, checks |-> {TRUE, FALSE}]}],
    [GoodProject EXCEPT !.status = "FAILED"],
    [GoodProject EXCEPT !.context.identities = {"m1", "m2"}],
    [GoodProject EXCEPT !.context.execution.is_mock = TRUE],
    [GoodProject EXCEPT !.chains = {OldChain}],
    [GoodProject EXCEPT !.chains = {GoodChain, [GoodChain EXCEPT !.findings = {}]}],
    [GoodProject EXCEPT !.chains =
       {[GoodChain EXCEPT !.findings = {Finding("finding", "CRITICAL", FALSE)}]}],
    [GoodProject EXCEPT !.experiments = {[parameter |-> 1, objective |-> "8 g"],
                                         [parameter |-> 2, objective |-> "none"]}],
    [GoodProject EXCEPT !.symbols_valid = FALSE] }

MCSource ==
  LET answer == [resolved |-> "same", is_mock |-> FALSE, trusted_text |-> TRUE] IN
  { [r1 |-> answer], [r1 |-> [answer EXCEPT !.is_mock = TRUE]],
    [r1 |-> [answer EXCEPT !.trusted_text = FALSE]],
    [r1 |-> [answer EXCEPT !.resolved = "different"]], [r1 |-> [answer EXCEPT !.resolved = "absent"]] }

-----------------------------------------------------------------------------
AClaim(id, type, importance, evidence, numbers, words, value) ==
  [ claim_id |-> id, claim_type |-> type, importance |-> importance, evidence_refs |-> evidence,
    citation_refs |-> {}, numbers |-> numbers, words |-> words, value |-> value,
    section_id |-> "S1", verification_status |-> "PENDING" ]

Amount(number, decimals, unit, said, tolerance) ==
  AClaim("C1", "NUMERIC", "CRITICAL", {"result"}, {Written(number, decimals, unit)}, {},
         NumericClaimValue(said, tolerance))

Objective(value, unit) == Says("weight", "objective", value, unit)

\* Another claim of the result, with one number.
Also(number, decimals, unit, field, value, said) ==
  [Amount(number, decimals, unit, Says(field, field, value, said), 0)
     EXCEPT !.claim_id = "C4", !.importance = "MINOR"]

Grouped(claim) ==
  [claim EXCEPT !.numbers = { [token EXCEPT !.grouped = TRUE] : token \in @ }]

Amount0 == Amount(1240, 1, "kg", Objective(1240, "kg"), 0)

Rise(words, change, direction) ==
  AClaim("C2", "COMPARISON", "MAJOR", {"sensitivity"}, {Written(2500, 0, "percent")}, words,
         ComparisonClaimValue(Says("comparison-baseline", "before", 800, "g"),
                              Says("comparison-verified", "after", 1000, "g"), change, direction))

Rise0 == Rise({"increase"}, 2500, "INCREASE")

Known == [AClaim("C3", "LITERATURE", "MINOR", {"r1"}, {}, {}, NoValue) EXCEPT !.citation_refs = {"r1"}]

ABlock(id, type) ==
  [ block_id |-> id, block_type |-> type, numbers |-> {}, words |-> {}, claim_ref |-> "none",
    object_ref |-> "none", citation_refs |-> {}, abstract_role |-> "none" ]

ClaimBlock(id, claim) == [ABlock(id, "CLAIM") EXCEPT !.claim_ref = claim]

ObjectBlock(id, type, object) == [ABlock(id, type) EXCEPT !.object_ref = object]

Section ==
  [ section_id |-> "S1", section_type |-> "RESULTS",
    blocks |-> { ClaimBlock("B1", "C1"), ClaimBlock("B2", "C2"), ClaimBlock("B3", "C3"),
                 ObjectBlock("B4", "EQUATION", "EQ-1"), ObjectBlock("B5", "FIGURE", "FIG-001"),
                 ObjectBlock("B6", "TABLE", "TAB-001"), ObjectBlock("B7", "TABLE", "TAB-002"),
                 ABlock("B8", "TEXT") },
    claim_refs |-> {"C1", "C2", "C3"}, equation_refs |-> {"EQ-1"}, figure_refs |-> {"FIG-001"},
    table_refs |-> {"TAB-001", "TAB-002"}, citation_refs |-> {}, subproblem_refs |-> {"Q1"} ]

GoodPaper ==
  [ claims |-> {Amount0, Rise0, Known},
    abstract |-> { [ABlock(r, "TEXT") EXCEPT !.abstract_role = r] : r \in AbstractRole \ {"KEY_RESULT"} }
                   \cup {[ClaimBlock("A1", "C1") EXCEPT !.abstract_role = "KEY_RESULT"]},
    sections |-> {Section}, appendices |-> {}, bibliography |-> {"r1"},
    subproblem_coverage |->
      {[ subproblem_id |-> "Q1", required_outputs |-> {"amount"}, section_ids |-> {"S1"},
         claim_refs |-> {"C1"}, output_claim_refs |-> [amount |-> {"C1"}] ]},
    required_sections |-> {"RESULTS"}, fail_on_unreferenced_assets |-> TRUE,
    evidence_snapshot |-> {}, document_registry |-> {}, changed_identity |-> FALSE,
    pages |-> 10, sound |-> TRUE ]

WithClaims(claims) == [GoodPaper EXCEPT !.claims = claims]

WithSection(section) == [GoodPaper EXCEPT !.sections = {section}]

Unsound(papers) == { [p EXCEPT !.sound = FALSE] : p \in papers }

\* A text block of the section, with other numbers or words.
WithProse(block) == WithSection([Section EXCEPT !.blocks = (@ \ {ABlock("B8", "TEXT")}) \cup {block}])

Coverage == CHOOSE r \in GoodPaper.subproblem_coverage : TRUE

\* Other units, roundings and tolerances; of the last four, all that is written
\* is right, but not all of it is plainly written.
SoundPapers ==
  { GoodPaper,
    WithClaims({Amount(1240000, 0, "g", Objective(1240, "kg"), 0), Rise0, Known}),
    WithClaims({Amount(1240, 1, "kg", Objective(1240000, "g"), 0), Rise0, Known}),
    WithClaims({Amount(1200, 0, "kg", Objective(1240, "kg"), 0), Rise0, Known}),
    WithClaims({Amount(1240, 2, "none", Objective(1240, "kg"), 0), Rise0, Known}),
    WithClaims({Amount(1250, 1, "kg", Objective(1250, "kg"), 1), Rise0, Known}),
    WithClaims({[Amount0 EXCEPT !.words = {"optimal"}], Rise0, Known}),
    WithClaims({Amount0, Rise0, Known,
                [Amount(1240000, 0, "g", Objective(1240000, "g"), 0)
                   EXCEPT !.claim_id = "C4", !.importance = "MINOR"]}),
    WithClaims({Amount0, Rise0, Known, Also(30000, 0, "s", "time", 500, "min")}),
    WithClaims({Amount0, Rise0, Known, Also(124, 2, "t", "mass", 124000, "kg")}),
    WithClaims({Amount0, Rise0, Known, Also(500, 0, "min", "time", 500, "min")}),
    WithClaims({Amount0, Rise0, Known, Also(500, 0, "machines", "count", 500, "machines")}),
    WithClaims({Amount0, Rise0, Known, Grouped(Also(124000, 0, "kg", "mass", 124000, "kg"))}),
    WithProse([ABlock("B8", "TEXT") EXCEPT !.numbers = {Written(202400, 0, "none")}]) }

\* Texts that are read as what they do not say: 12.4 lb as 12.4 kg, 5,012.4 kg
\* as 5 and 12.4 kg, 1 truck as the 1 t of 1240 kg, 2000 kg as a year.
MisreadPapers ==
  { WithClaims({[Amount0 EXCEPT !.numbers = {Written(1240, 1, "lb")}], Rise0, Known}),
    WithClaims({Grouped([Amount0 EXCEPT !.numbers = {Written(501240, 1, "kg")}]), Rise0, Known}),
    WithClaims({Amount0, Rise0, Known, Also(100, 0, "truck", "mass", 124000, "kg")}),
    WithProse([ABlock("B8", "TEXT") EXCEPT !.numbers = {Written(200000, 0, "kg")}]),
    WithProse([ABlock("B8", "TEXT") EXCEPT
                 !.numbers = {[Written(200, 0, "none") EXCEPT !.labelled = TRUE]}]),
    WithProse([ABlock("B8", "TEXT") EXCEPT
                 !.numbers = {[Written(195000, 0, "none") EXCEPT !.grouped = TRUE]}]) }

WrongClaims ==
  { {Amount(1290, 1, "kg", Objective(1240, "kg"), 0), Rise0, Known},
    {Amount(1290, 1, "kg", Objective(1290, "kg"), 0), Rise0, Known},
    {Amount(1240, 1, "g", Objective(1240, "g"), 0), Rise0, Known},
    {Amount(1240, 1, "s", Objective(1240, "s"), 0), Rise0, Known},
    {Amount(1240, 1, "kg", Says("weight", "label", 1240, "kg"), 0), Rise0, Known},
    {Amount(1240, 1, "kg", Says("weight", "missing", 1240, "kg"), 0), Rise0, Known},
    {[Amount0 EXCEPT !.evidence_refs = {"unknown"}], Rise0, Known},
    {[Amount0 EXCEPT !.evidence_refs = {}], Rise0, Known},
    {[Amount0 EXCEPT !.words = {"exact"}], Rise0, Known},
    {[Amount0 EXCEPT !.words = {"gurobi"}], Rise0, Known},
    {[Amount0 EXCEPT !.words = {"best"}], Rise0, Known},
    {[Amount0 EXCEPT !.words = {"named source"}], Rise0, Known},
    {[Amount0 EXCEPT !.claim_type = "COMPARISON"], Rise0, Known},
    {[Amount0 EXCEPT !.claim_type = "RESULT", !.value = NoValue, !.evidence_refs = {}], Rise0, Known},
    {Amount0, Rise({"decrease"}, 2500, "INCREASE"), Known},
    {Amount0, Rise({"increase"}, 2400, "INCREASE"), Known},
    {Amount0, Rise({"decrease"}, -2500, "DECREASE"), Known},
    {Amount0, [Rise0 EXCEPT !.numbers = {Written(2600, 0, "percent")}], Known},
    {Amount0, [Rise0 EXCEPT !.words = @ \cup {"insensitive"}], Known},
    {Amount0, Rise0, [Known EXCEPT !.evidence_refs = {"result"}]},
    {Amount0, Rise0, [Known EXCEPT !.claim_type = "ASSUMPTION"]},
    {Amount0, Rise0, [Known EXCEPT !.citation_refs = {"r9"}]},
    {Amount0, Rise0, [Known EXCEPT !.words = {"redefined symbol"}]},
    {Amount0, Rise0, [Known EXCEPT !.evidence_refs = {"review"}, !.claim_type = "CONCLUSION"]},
    {Amount0, Rise0, Known, [Amount(1250, 1, "kg", Objective(1250, "kg"), 1) EXCEPT !.claim_id = "C4"]},
    {Amount0, Rise0, Known, [Amount0 EXCEPT !.importance = "MINOR"]} }

\* An open finding may be disclosed; a warning is no fault.
OtherPapers ==
  { WithClaims({Amount0, Rise0,
                [Known EXCEPT !.evidence_refs = {"review", "r1"}, !.claim_type = "CONCLUSION",
                   !.value = [NoValue EXCEPT !.findings = {"finding"}]]}),
    [WithClaims({Amount0, Rise0}) EXCEPT !.sections =
       {[Section EXCEPT !.blocks = @ \ {ClaimBlock("B3", "C3")}, !.claim_refs = @ \ {"C3"}]}],
    [WithSection([Section EXCEPT !.blocks = @ \ {ObjectBlock("B7", "TABLE", "TAB-002")},
                                 !.table_refs = @ \ {"TAB-002"}])
       EXCEPT !.fail_on_unreferenced_assets = FALSE] }

WrongPapers ==
  { WithProse([ABlock("B8", "TEXT") EXCEPT !.numbers = {Written(9900, 0, "none")}]),
    WithProse([ABlock("B8", "TEXT") EXCEPT !.words = {"best"}]),
    WithProse(ObjectBlock("B8", "FIGURE", "FIG-009")),
    WithProse(ObjectBlock("B8", "EQUATION", "EQ-2")),
    WithProse(ClaimBlock("B8", "none")),
    WithSection([Section EXCEPT !.blocks = @ \ {ObjectBlock("B5", "FIGURE", "FIG-001")},
                                !.figure_refs = {}]),
    WithSection([Section EXCEPT !.equation_refs = {"EQ-9"}]),
    WithSection([Section EXCEPT !.citation_refs = {"r1"}, !.blocks = @ \ {ClaimBlock("B3", "C3")}]),
    WithSection([Section EXCEPT !.blocks = @ \ {ClaimBlock("B2", "C2")}]),
    WithSection([Section EXCEPT !.section_type = "METHOD"]),
    WithSection([Section EXCEPT !.subproblem_refs = {}]),
    [GoodPaper EXCEPT !.sections = @ \cup {[Section EXCEPT !.section_id = "S2", !.blocks = {}]}],
    [GoodPaper EXCEPT !.abstract = { b \in @ : b.abstract_role # "METHOD" }],
    [GoodPaper EXCEPT !.abstract = {}],
    [GoodPaper EXCEPT !.bibliography = @ \cup {"r9"}],
    [GoodPaper EXCEPT !.bibliography = {}],
    [GoodPaper EXCEPT !.changed_identity = TRUE],
    [GoodPaper EXCEPT !.subproblem_coverage = {}],
    [GoodPaper EXCEPT !.subproblem_coverage = {[Coverage EXCEPT !.required_outputs = {"other"}]}],
    [GoodPaper EXCEPT !.subproblem_coverage = {[Coverage EXCEPT !.claim_refs = {"C9"}]}],
    [GoodPaper EXCEPT !.subproblem_coverage = @ \cup {[Coverage EXCEPT !.subproblem_id = "Q9"]}] }

\* Papers that are ready, for the profiles to judge.
JudgedPapers ==
  { WithProse([ABlock("B8", "TEXT") EXCEPT !.words = {w}]) : w \in
      {"email address", "local path", "secret", "mock indicator", "disclosure", "banned"} } \cup
  { [GoodPaper EXCEPT !.pages = 25],
    [GoodPaper EXCEPT !.subproblem_coverage = {[Coverage EXCEPT !.output_claim_refs.amount = {}]}],
    [GoodPaper EXCEPT !.subproblem_coverage =
       {[Coverage EXCEPT !.claim_refs = {"C3"}, !.output_claim_refs.amount = {"C3"}]}],
    [GoodPaper EXCEPT !.subproblem_coverage = {[Coverage EXCEPT !.section_ids = {}]}],
    WithSection([Section EXCEPT !.claim_refs = {"C2", "C3"}]) }

MCManuscript ==
  SoundPapers \cup Unsound(MisreadPapers \cup OtherPapers \cup WrongPapers \cup JudgedPapers
                            \cup { WithClaims(c) : c \in WrongClaims })

-----------------------------------------------------------------------------
Must(type, limit, terms) == Rule(type, "BLOCKING", "VERIFIED", limit, terms)

UsualRules ==
  { Must("PAGE_LIMIT", 20, {}), Must("FILENAME", 0, {"paper.pdf"}),
    Must("FILE_FORMAT", 0, {"application/pdf"}), Must("ANONYMITY", 0, {"required"}),
    Must("REQUIRED_SECTION", 0, {"RESULTS"}), Must("CODE_SUBMISSION", 0, {"ALLOWED"}),
    Must("FILE_COUNT", 100, {}) }

Usual == GenericProfile("VERIFIED", UsualRules)

With(rules) == [Usual EXCEPT !.rules = @ \cup rules]

Dated(rules) == [With(rules) EXCEPT !.deadline = TRUE]

MCProfile ==
  { Usual, GenericProfile("UNVERIFIED", UsualRules),
    GenericProfile("TEST_FIXTURE", { [r EXCEPT !.verification_status = "TEST_FIXTURE"] : r \in UsualRules }),
    GenericProfile("TEST_FIXTURE", { [r EXCEPT !.verification_status = "UNKNOWN"] : r \in UsualRules }),
    [With({}) EXCEPT !.source_refs = @ \cup {"fixture"}], [Usual EXCEPT !.reproduction_required = TRUE],
    With({Must("PAGE_LIMIT", 30, {})}), [Usual EXCEPT !.page_rules.max_pages = 5],
    GenericProfile("VERIFIED", {Must("PAGE_LIMIT", 0, {})}),
    GenericProfile("VERIFIED", {Must("PAGE_LIMIT", 5, {})}),
    GenericProfile("VERIFIED", {[Must("PAGE_LIMIT", 20, {}) EXCEPT !.scope = "MAIN_TEXT"]}),
    GenericProfile("VERIFIED", {Rule("PAGE_LIMIT", "MINOR", "VERIFIED", 20, {})}),
    With({Must("PROHIBITED_CONTENT", 0, {"banned"})}),
    With({Rule("PROHIBITED_CONTENT", "MAJOR", "VERIFIED", 0, {"banned"})}),
    With({Must("CUSTOM", 0, {"REPRODUCTION"})}), With({Rule("LANGUAGE", "MINOR", "VERIFIED", 0, {})}),
    With({Must("DATA_SUBMISSION", 0, {"REQUIRED"})}), With({Must("FILE_SIZE", 15, {})}),
    [Usual EXCEPT !.file_rules.size = 5], [Usual EXCEPT !.file_rules.package = 5],
    [Usual EXCEPT !.file_rules.count = 3], [Usual EXCEPT !.file_rules.mime_types = {"application/pdf"}],
    [Usual EXCEPT !.allowed_submission_files = {"PAPER_PDF"}], [Usual EXCEPT !.weights_given = FALSE],
    [Usual EXCEPT !.require_independent_reviewer = TRUE], [Usual EXCEPT !.paper_filename = "team.pdf"],
    [Usual EXCEPT !.paper_filename = "none"], [Usual EXCEPT !.affixes = {"paper"}],
    [Usual EXCEPT !.affixes = {"team"}], With({Must("FILENAME", 0, {"team.pdf"})}),
    With({[Must("FILENAME", 0, {"paper.tex"}) EXCEPT !.role = "PAPER_TEX"]}),
    With({[Must("FILENAME", 0, {}) EXCEPT !.role = "CODE"]}),
    With({Must("FILE_FORMAT", 0, {"text/plain"})}),
    With({[Must("FILE_FORMAT", 0, {"application/x-tex"}) EXCEPT !.role = "PAPER_TEX"]}),
    GenericProfile("VERIFIED", {Must("FILE_COUNT", 4, {})}),
    GenericProfile("VERIFIED", {Must("FILE_COUNT", 0, {})}),
    With({Must("AI_DISCLOSURE", 0, {})}), [With({Must("AI_DISCLOSURE", 0, {})}) EXCEPT !.ai_disclosure = "UNKNOWN"],
    [With({Must("AI_DISCLOSURE", 0, {})}) EXCEPT !.ai_disclosure = "REQUIRED"],
    With({Must("DEADLINE", 0, {})}), Dated({Must("DEADLINE", 0, {})}),
    Dated({Rule("DEADLINE", "MAJOR", "VERIFIED", 0, {})}), Dated({}) }

MCHours == {24, 5, 2, -1}

MCJuryDraft ==
  LET draft == [dimensions_match |-> TRUE, score |-> 80, findings |-> {}]
      Open(resolved) == {[finding_id |-> "JURY-gap", severity |-> "CRITICAL", resolved |-> resolved]} IN
  { draft, [draft EXCEPT !.score = 60], [draft EXCEPT !.dimensions_match = FALSE],
    [draft EXCEPT !.findings = Open(FALSE)], [draft EXCEPT !.findings = Open(TRUE)] }
=============================================================================
