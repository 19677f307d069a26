------------------------------ MODULE PaperClaims ------------------------------
(***************************************************************************)
(* What a paper is and what is checked of it: claims, their evidence and   *)
(* the document around them (schemas/paper.py), with the validators of     *)
(* paper/claims.py, paper/validators.py and paper/integrity.py as          *)
(* operators that return the issues they raise.                            *)
(*                                                                         *)
(* Amounts are integers, in hundredths of their unit.  A text is the set   *)
(* of numbers as they are written in it and the set of wordings the        *)
(* validators look for; what the validators make of a written number is    *)
(* an operator, since they do not always read what is written.             *)
(* A union that is joined with another set is in parentheses, since not    *)
(* every tool binds UNION as tightly as the others.                        *)
(***************************************************************************)
EXTENDS Integers, Sequences, FiniteSets

-----------------------------------------------------------------------------
(* schemas/paper.py                                                          *)

EvidenceType ==
  {"PROBLEM_FACT", "DATA_FACT", "MODEL", "ASSUMPTION", "EQUATION", "RESULT",
   "VALIDATION", "SENSITIVITY", "ROBUSTNESS", "RED_TEAM", "LITERATURE"}

ClaimType ==
  {"FACTUAL", "NUMERIC", "MODEL", "ASSUMPTION", "DERIVATION", "RESULT",
   "COMPARISON", "SENSITIVITY", "ROBUSTNESS", "LITERATURE", "CONCLUSION"}

Material == {"CRITICAL", "MAJOR"}  \* ClaimImportance, but for MINOR

\* The payload of a record gives its fields, facts the wordings it bears out.
EvidenceRecord(id, type, payload, facts) ==
  [ evidence_id |-> id, evidence_type |-> type, payload |-> payload, facts |-> facts,
    verified |-> TRUE, is_mock |-> FALSE ]

Number(value, unit) == [numeric |-> TRUE, value |-> value, unit |-> unit]

NotANumber == [numeric |-> FALSE, value |-> 0, unit |-> "none"]

\* ClaimStructuredValue: what a claim says of its source fields, within a
\* tolerance in percent.  findings is what a plain dictionary may list.
NoValue ==
  [ kind |-> "none", says |-> {}, change |-> 0, direction |-> "CHANGE", tolerance |-> 0,
    findings |-> {} ]

Says(metric, field, value, unit) ==
  [metric |-> metric, field |-> field, value |-> value, unit |-> unit]

NumericClaimValue(said, tolerance) ==
  [NoValue EXCEPT !.kind = "numeric", !.says = {said}, !.tolerance = tolerance]

\* The change is in percent of the baseline, in hundredths as well.
ComparisonClaimValue(baseline, verified, change, direction) ==
  [NoValue EXCEPT !.kind = "comparison", !.says = {baseline, verified}, !.change = change,
     !.direction = direction]

\* What the schema lets a structured value be: a numeric one speaks of one
\* field, a comparison of two in one unit, and each names its fields.
ClaimStructuredValue(value) ==
  /\ value.kind \in {"none", "numeric", "comparison"}
  /\ value.tolerance \in Nat /\ value.change \in Int
  /\ \A said \in value.says : said.value \in Int /\ said.field # "none"
  /\ value.kind = "numeric" => \E said \in value.says : value.says = {said}
  /\ value.kind = "comparison" =>
       \E baseline, verified \in value.says :
         /\ value.says = {baseline, verified} /\ baseline.unit = verified.unit
         /\ baseline.metric = "comparison-baseline" /\ verified.metric = "comparison-verified"

\* A number as it is written: its unit is the word or sign after it, "none" if
\* there is none; grouped, if a comma sets its thousands off; labelled, if its
\* digits follow a label in the text around it ("Table 2", "Q2").
Written(number, decimals, unit) ==
  [ number |-> number, decimals |-> decimals, unit |-> unit, grouped |-> FALSE,
    labelled |-> FALSE ]

\* The fields of a Claim, and what the proofs need of them.
ClaimSchema(claim) ==
  /\ DOMAIN claim =
       {"claim_id", "claim_type", "importance", "evidence_refs", "citation_refs", "numbers",
        "words", "value", "section_id", "verification_status"}
  /\ ClaimStructuredValue(claim.value)
  /\ \A token \in claim.numbers :
       DOMAIN token = DOMAIN Written(0, 0, "none") /\ token.number \in Int

Magnitude(n) == IF n < 0 THEN -n ELSE n

\* math.isclose with one tolerance, relative and absolute; one is the unit of
\* the scale both are measured on.
Close(a, b, tolerance, one) ==
  \E scale \in {Magnitude(a), Magnitude(b), one} :
    100 * Magnitude(a - b) <= tolerance * scale

SaidOf(value, metric) == (CHOOSE s \in value.says : s.metric = metric).value

\* The validator of a comparison: a change that follows from its two values,
\* and the direction that follows from the change.
PercentageIsDeterministic(value) ==
  LET baseline == SaidOf(value, "comparison-baseline")
      rise == 10000 * (SaidOf(value, "comparison-verified") - baseline)
      noise == value.tolerance * Magnitude(baseline) IN
  /\ baseline # 0
  /\ Close(value.change * Magnitude(baseline), rise, value.tolerance, 100 * Magnitude(baseline))
  /\ value.direction = CASE rise > noise -> "INCREASE"
                         [] rise < -noise -> "DECREASE"
                         [] OTHER -> "CHANGE"

StructuredTypeMatchesClaim(claim) ==
  /\ claim.claim_type = "NUMERIC" => claim.value.kind = "numeric"
  /\ claim.claim_type = "COMPARISON" => claim.value.kind = "comparison"
  /\ claim.value.kind = "comparison" => PercentageIsDeterministic(claim.value)

BlockHasRequiredPayload(block) ==
  /\ block.block_type = "CLAIM" => block.claim_ref # "none"
  /\ block.block_type \in {"EQUATION", "FIGURE", "TABLE"} => block.object_ref # "none"

AllSections(paper) == paper.sections \cup paper.appendices

Blocks(paper) == paper.abstract \cup UNION { s.blocks : s \in AllSections(paper) }

ClaimIds(paper) == { c.claim_id : c \in paper.claims }

Shown(blocks) == { b.claim_ref : b \in blocks } \ {"none"}

\* The validators of PaperIR and of its parts.
ValidPaperIR(paper) ==
  /\ paper.abstract # {} /\ paper.sections # {}
  /\ \A s, t \in AllSections(paper) : s.section_id = t.section_id => s = t
  /\ \A c, d \in paper.claims : c.claim_id = d.claim_id => c = d
  /\ \A r, q \in paper.subproblem_coverage : r.subproblem_id = q.subproblem_id => r = q
  /\ Shown(Blocks(paper)) \cup UNION { s.claim_refs : s \in AllSections(paper) }
       \subseteq ClaimIds(paper)
  /\ \A c \in paper.claims : StructuredTypeMatchesClaim(c)
  /\ \A b \in Blocks(paper) : BlockHasRequiredPayload(b)

-----------------------------------------------------------------------------
(* Issues.                                                                   *)

Issue(code, severity, ref) == [code |-> code, severity |-> severity, object_ref |-> ref]

\* An issue of severity ERROR, if the condition holds.
Flag(condition, code, ref) == IF condition THEN {Issue(code, "ERROR", ref)} ELSE {}

Integrity(condition, ref) == Flag(condition, "DOCUMENT_INTEGRITY_ERROR", ref)

-----------------------------------------------------------------------------
(* paper/claims.py                                                           *)

\* _UNIT_SCALE, as the dimension and the multiple of its smallest unit; percent
\* stands for its sign.
UnitScale ==
  [ g |-> <<"mass", 1>>, kg |-> <<"mass", 1000>>, t |-> <<"mass", 1000000>>,
    cm |-> <<"length", 1>>, m |-> <<"length", 100>>, km |-> <<"length", 100000>>,
    s |-> <<"time", 1>>, min |-> <<"time", 60>>, h |-> <<"time", 3600>>,
    percent |-> <<"percentage", 1>> ]

Factor(unit) == IF unit \in DOMAIN UnitScale THEN UnitScale[unit][2] ELSE 1

\* Mutant: units of one dimension are not converted.
ConvertibleBug(source, target) == source = target

\* convert_unit raises unless the units are the same or of one dimension.
Convertible(source, target) ==
  \/ source = target
  \/ /\ {source, target} \subseteq DOMAIN UnitScale
     /\ UnitScale[source][1] = UnitScale[target][1]

\* The unit _TEXT_NUMBER takes from the word after a number: the first of its
\* alternatives that the word begins with, and m comes before min; none from a
\* word that begins with no unit it knows.
UnitRead(word) ==
  CASE word \in DOMAIN UnitScale \ {"min"} -> word
    [] word \in {"min", "machines"} -> "m"
    [] word = "truck" -> "t"
    [] OTHER -> "none"

Read(number, decimals, unit) == [number |-> number, decimals |-> decimals, unit |-> unit]

\* _TEXT_NUMBER on a written number.  A comma ends a number: the thousands are
\* read as a number without a unit, what follows as another.
TextNumbers(token) ==
  LET size == Magnitude(token.number)
      thousands == 100 * (size \div 100000) IN
  IF token.grouped
  THEN { Read(IF token.number < 0 THEN -thousands ELSE thousands, 0, "none"),
         Read(size % 100000, token.decimals, UnitRead(token.unit)) }
  ELSE { Read(token.number, token.decimals, UnitRead(token.unit)) }

NumbersRead(claim) == UNION { TextNumbers(token) : token \in claim.numbers }

\* The last digit of a number shown with 0, 1 or 2 decimals.
Grain(token) == CASE token.decimals = 0 -> 100 [] token.decimals = 1 -> 10 [] OTHER -> 1

\* A number is the rounding of an amount.
IsRounding(token, unit, amount, source) ==
  2 * Magnitude(token.number * Factor(unit) - amount * Factor(source))
    <= Grain(token) * Factor(unit)

\* PaperNumericFormattingPolicy.text_matches: one number that is read will do.
TextMatches(claim) ==
  LET value == claim.value
      rising == "increase" \in claim.words
      falling == "decrease" \in claim.words IN
  CASE value.kind = "numeric" ->
         \E said \in value.says, token \in NumbersRead(claim) :
           LET unit == IF token.unit = "none" THEN said.unit ELSE token.unit IN
             Convertible(said.unit, unit) /\ IsRounding(token, unit, said.value, said.unit)
    [] value.kind = "comparison" ->
         /\ \E token \in NumbersRead(claim) :
              /\ token.unit = "percent"
              /\ IsRounding([token EXCEPT !.number = Magnitude(@)], "percent",
                            Magnitude(value.change), "percent")
         /\ CASE value.direction = "INCREASE" -> rising /\ ~falling
              [] value.direction = "DECREASE" -> falling /\ ~rising
              [] OTHER -> ~rising /\ ~falling
    [] OTHER -> TRUE

SourceFields(claim) ==
  IF claim.value.kind \in {"numeric", "comparison"} THEN { s.field : s \in claim.value.says }
  ELSE {"none"}

\* The links of a claim in the ClaimEvidenceGraph that _claim_graph makes: one
\* for each cited record and each field that resolves in it.
Links(claim, records) ==
  { link \in { r \in records : r.evidence_id \in claim.evidence_refs } \X SourceFields(claim) :
      link[2] = "none" \/ link[2] \in DOMAIN link[1].payload }

Linked(claim, records) == { link[1] : link \in Links(claim, records) }

\* _claim_graph raises for unknown evidence, and for a claim nothing links.
ClaimGraphRefuses(claims, records) ==
  \E claim \in claims :
    \/ ~(claim.evidence_refs \subseteq { r.evidence_id : r \in records })
    \/ claim.evidence_refs # {} /\ Links(claim, records) = {}

\* Mutant: amounts of one dimension are compared without converting them.
FieldIssuesBug(claim, said, actual) ==
  CASE ~actual.numeric -> Flag(TRUE, "NUMERIC_CLAIM_MISMATCH", claim.claim_id)
    [] actual.numeric /\ ~Convertible(actual.unit, said.unit) ->
         Flag(TRUE, "UNIT_CLAIM_MISMATCH", claim.claim_id)
    [] OTHER -> Flag(~Close(actual.value, said.value, claim.value.tolerance, 100),
                     "NUMERIC_CLAIM_MISMATCH", claim.claim_id)

FieldIssues(claim, said, actual) ==
  CASE ~actual.numeric -> Flag(TRUE, "NUMERIC_CLAIM_MISMATCH", claim.claim_id)
    [] actual.numeric /\ ~Convertible(actual.unit, said.unit) ->
         Flag(TRUE, "UNIT_CLAIM_MISMATCH", claim.claim_id)
    [] OTHER ->
         LET apart == ~Close(actual.value * Factor(actual.unit), said.value * Factor(said.unit),
                             claim.value.tolerance, 100 * Factor(said.unit)) IN
           Flag(apart, "NUMERIC_CLAIM_MISMATCH", claim.claim_id) \cup
           Flag(apart /\ actual.unit # said.unit, "UNIT_CLAIM_MISMATCH", claim.claim_id)

\* NumericClaimValidator: the text shows what the value says, and every cited
\* record with a field of the value agrees with it.
NumericClaimIssues(claim, records) ==
  IF claim.value.kind \notin {"numeric", "comparison"} THEN {}
  ELSE Flag(~TextMatches(claim), "NUMERIC_CLAIM_MISMATCH", claim.claim_id) \cup
       UNION { LET found == { l \in Links(claim, records) : l[2] = said.field } IN
                 Flag(found = {}, "NUMERIC_CLAIM_MISMATCH", claim.claim_id) \cup
                 UNION { FieldIssues(claim, said, l[1].payload[l[2]]) : l \in found }
               : said \in claim.value.says }

Provenance(claim) ==
  CASE claim.claim_type = "ASSUMPTION" -> {"ASSUMPTION"}
    [] claim.claim_type = "FACTUAL" -> {"PROBLEM_FACT", "DATA_FACT", "LITERATURE"}
    [] claim.claim_type = "LITERATURE" -> {"LITERATURE"}
    [] OTHER -> EvidenceType

\* ClaimEvidenceValidator, for one claim.  Every link is direct support.
ClaimEvidenceIssues(claim, records) ==
  LET linked == Linked(claim, records)
      direct == { r \in linked : r.verified }
      id == claim.claim_id IN
  Flag(claim.importance \in Material /\ direct = {}, "UNSUPPORTED_CLAIM", id) \cup
  Flag(\E r \in linked : r.is_mock, "MOCK_EVIDENCE", id) \cup
  Flag(linked # direct /\ \A r \in linked : ~r.is_mock, "UNVERIFIED_EVIDENCE", id) \cup
  Flag(\E r \in direct : r.evidence_type \notin Provenance(claim),
       "PROVENANCE_TYPE_MISMATCH", id) \cup
  Flag(claim.claim_type = "ASSUMPTION" /\ \E r \in direct : "supported" \notin r.facts,
       "UNSUPPORTED_ASSUMPTION", id) \cup
  NumericClaimIssues(claim, records)

ApplyStatuses(claims, records) ==
  { [c EXCEPT !.verification_status =
       IF ClaimEvidenceIssues(c, records) = {} THEN "SUPPORTED" ELSE "UNSUPPORTED"]
    : c \in claims }

\* Two claims say different things of one field of the same evidence.
NumberConsistencyIssues(claims) ==
  LET said == UNION { {c} \X c.value.says : c \in claims }
      same == { p \in said \X said :
                  /\ p[1][1] # p[2][1]
                  /\ p[1][1].evidence_refs = p[2][1].evidence_refs
                  /\ p[1][2].metric = p[2][2].metric /\ p[1][2].field = p[2][2].field } IN
  UNION { LET s == p[1][2] t == p[2][2] IN
            IF ~Convertible(s.unit, t.unit)
            THEN Flag(TRUE, "UNIT_CLAIM_MISMATCH", p[1][1].claim_id)
            ELSE Flag(s.value * Factor(s.unit) # t.value * Factor(t.unit),
                      "CROSS_SECTION_VALUE_CONFLICT", p[1][1].claim_id)
          : p \in same }

-----------------------------------------------------------------------------
(* paper/validators.py: what the claims and the prose say.                   *)

\* Wordings that need the payload of the cited result behind them.
ResultWording ==
  {"optimal", "exact", "gurobi", "scipy", "solver version", "linear", "integer"}

\* FactualIntegrityValidator, for the wordings of one claim.
WordingIssues(claim, records) ==
  LET linked == Linked(claim, records)
      Of(type) == { r \in linked : r.evidence_type = type }
      Unsaid(words, type) ==
        Of(type) # {} /\ \E w \in words \cap claim.words, r \in Of(type) : w \notin r.facts
      id == claim.claim_id IN
  Flag(Unsaid({"optimal", "exact"}, "RESULT"), "OPTIMALITY_CLAIM_MISMATCH", id) \cup
  Flag(Unsaid(ResultWording \ {"optimal", "exact"}, "RESULT"), "SOLVER_CLAIM_MISMATCH", id) \cup
  Flag(Unsaid({"insensitive"}, "SENSITIVITY"), "SENSITIVITY_CLAIM_MISMATCH", id) \cup
  Flag(Unsaid({"highly robust"}, "ROBUSTNESS"), "ROBUSTNESS_CLAIM_MISMATCH", id) \cup
  Flag("best" \in claim.words /\ \A r \in linked : "test" \notin r.facts,
       "UNSUPPORTED_CLAIM", id) \cup
  Flag("named source" \in claim.words /\ \A r \in linked : "named source" \notin r.facts,
       "UNSUPPORTED_CLAIM", id)

\* The rest of it: the open findings of the red team records that are linked.
RedTeamIssues(claims, records, findings) ==
  LET cited == { r \in UNION { Linked(c, records) : c \in claims } :
                   r.evidence_type = "RED_TEAM" }
      Disclosed(f) == \E c \in claims, r \in cited :
                        r.evidence_id \in c.evidence_refs /\ f.finding_id \in c.value.findings IN
  IF cited = {} THEN {}
  ELSE UNION { CASE f.severity = "CRITICAL" ->
                      Flag(TRUE, "UNRESOLVED_RED_TEAM_CRITICAL", f.finding_id)
                 [] f.severity = "MAJOR" ->
                      Flag(~Disclosed(f), "UNRESOLVED_RED_TEAM_MAJOR", f.finding_id)
                 [] OTHER -> {}
               : f \in { g \in findings : ~g.resolved } }

\* A list carries items, the text of a claim is its own.
Prose(paper) == { b \in Blocks(paper) : b.block_type \notin {"CLAIM", "LIST"} }

\* The numbers HallucinatedNumberDetector lets pass: whole ones that could be a
\* year, whatever unit follows, and those with a label.  It stops at a comma as
\* well, and what follows it is neither.
Exempt(token) ==
  /\ ~token.grouped
  /\ token.labelled \/ (token.decimals = 0 /\ token.number \in 190000 .. 210000)

HallucinatedNumberIssues(paper) ==
  UNION { Flag(\E token \in b.numbers : ~Exempt(token), "UNSUPPORTED_CLAIM", b.block_id)
          : b \in Prose(paper) }

UnsupportedLanguageIssues(paper) ==
  UNION { Flag(b.words \cap {"best", "highly robust", "named source"} # {},
               "UNSUPPORTED_CLAIM", b.block_id) : b \in Prose(paper) }

SymbolNarrativeIssues(paper) ==
  Flag(\E text \in Prose(paper) \cup paper.claims : "redefined symbol" \in text.words,
       "SYMBOL_CONFLICT", "symbol")

-----------------------------------------------------------------------------
(* Citations: paper/validators.py and paper/integrity.py.  A reference is    *)
(* known by its status, is_mock and whether it has a trusted text; a support *)
(* check by its claim, its reference, its status and its reviewer.           *)

CitationQualityIssues(claims, references, support) ==
  UNION { LET checks == { k \in support : k.claim_id = p[1] /\ k.reference_id = p[2]
                                          /\ k.status = "SUPPORTED" } IN
          CASE p[2] \notin DOMAIN references -> Flag(TRUE, "REFERENCE_NOT_FOUND", p[2])
            [] p[2] \in DOMAIN references /\ references[p[2]].status # "VERIFIED" ->
                 Flag(TRUE, "REFERENCE_NOT_FOUND", p[2])
            [] OTHER ->
                 Flag(checks = {}, "REFERENCE_NOT_SUPPORTED", p[1]) \cup
                 Flag(\E k \in checks : k.reviewer_is_mock, "MOCK_EVIDENCE", p[1])
          : p \in UNION { {c.claim_id} \X c.citation_refs : c \in claims } }

CitationFreshnessIssues(claims, references, support) ==
  (UNION { Flag(references[id].is_mock, "MOCK_EVIDENCE", id) : id \in DOMAIN references }) \cup
  UNION { Flag(k.reference_id \notin DOMAIN references
                 \/ \A c \in claims : c.claim_id # k.claim_id,
               "REFERENCE_NOT_SUPPORTED", k.claim_id) : k \in support }

-----------------------------------------------------------------------------
(* paper/validators.py: cross references.  assets are the identifiers of the *)
(* registries: equations, figures, tables, references.                       *)

ReferenceSetIssues(owner, equations, figures, tables, citations, assets) ==
  Flag(~(equations \subseteq assets.equations), "MISSING_EQUATION", owner) \cup
  Flag(~(figures \subseteq assets.figures), "MISSING_FIGURE", owner) \cup
  Flag(~(tables \subseteq assets.tables), "MISSING_TABLE", owner) \cup
  Flag(~(citations \subseteq assets.references), "MISSING_REFERENCE", owner)

ObjectsOf(block, type) == IF block.block_type = type THEN {block.object_ref} ELSE {}

ObjectsShown(blocks, type) == UNION { ObjectsOf(b, type) : b \in blocks }

\* Everything the sections, the blocks and the claims refer to.
Referenced(paper) ==
  [ equations |-> (UNION { s.equation_refs : s \in AllSections(paper) })
                    \cup ObjectsShown(Blocks(paper), "EQUATION"),
    figures |-> (UNION { s.figure_refs : s \in AllSections(paper) })
                  \cup ObjectsShown(Blocks(paper), "FIGURE"),
    tables |-> (UNION { s.table_refs : s \in AllSections(paper) })
                 \cup ObjectsShown(Blocks(paper), "TABLE"),
    references |-> (UNION { s.citation_refs : s \in AllSections(paper) })
                     \cup (UNION { b.citation_refs : b \in Blocks(paper) })
                     \cup UNION { c.citation_refs : c \in paper.claims } ]

\* CrossReferenceValidator, but for the document registry.
CrossReferenceIssues(paper, assets) ==
  LET used == Referenced(paper)
      orphan == IF paper.fail_on_unreferenced_assets THEN "ERROR" ELSE "WARNING" IN
  (UNION { ReferenceSetIssues(s.section_id, s.equation_refs, s.figure_refs, s.table_refs,
                              s.citation_refs, assets) : s \in AllSections(paper) }) \cup
  (UNION { ReferenceSetIssues(b.block_id, ObjectsOf(b, "EQUATION"), ObjectsOf(b, "FIGURE"),
                              ObjectsOf(b, "TABLE"), b.citation_refs, assets)
           : b \in Blocks(paper) }) \cup
  { Issue("MISSING_REFERENCE", "ERROR", r) : r \in used.references \ paper.bibliography } \cup
  { Issue("MISSING_REFERENCE", "ERROR", r) : r \in paper.bibliography \ assets.references } \cup
  { Issue("NEVER_CITED", "WARNING", r) : r \in paper.bibliography \ used.references } \cup
  { Issue("UNREFERENCED_FIGURE", orphan, f) : f \in assets.figures \ used.figures } \cup
  { Issue("UNREFERENCED_TABLE", orphan, t) : t \in assets.tables \ used.tables }

Entry(type, id, content) == [object_type |-> type, object_id |-> id, content |-> content]

\* What the registry has to list.  Of the contents only the status of a claim
\* changes after it was written.
ExpectedEntries(paper, assets) ==
  { Entry("SECTION", s.section_id, "source") : s \in AllSections(paper) } \cup
  { Entry("CLAIM", c.claim_id, c.verification_status) : c \in paper.claims } \cup
  { Entry("FIGURE", f, "source") : f \in assets.figures } \cup
  { Entry("TABLE", t, "source") : t \in assets.tables } \cup
  { Entry("REFERENCE", r, "source") : r \in assets.references }

DocumentRegistryIssues(paper, assets) ==
  LET equations == { Entry("EQUATION", e, "source") : e \in assets.equations }
      needed == ExpectedEntries(paper, assets)
                  \cup { e \in equations : e.object_id \in Referenced(paper).equations } IN
  (UNION { Integrity(e \notin paper.document_registry, e.object_id) : e \in needed }) \cup
  UNION { Integrity(e \notin needed /\ e.object_type # "EQUATION", e.object_id)
          : e \in paper.document_registry }

-----------------------------------------------------------------------------
(* paper/integrity.py: the document.                                         *)

AbstractRole == {"PROBLEM", "METHOD", "KEY_RESULT", "CONCLUSION"}

DocumentCompletenessIssues(paper) ==
  LET blocks == paper.abstract \cup UNION { s.blocks : s \in paper.sections } IN
  { Issue("MISSING_REQUIRED_SECTION", "ERROR", t)
    : t \in paper.required_sections \ { s.section_type : s \in paper.sections } } \cup
  Flag(\E s \in paper.sections : s.blocks = {}, "EMPTY_PAPER", "paper") \cup
  (UNION { Flag(c.importance \in Material /\ c.claim_id \notin Shown(blocks),
                "REQUIRED_CLAIM_MISSING", c.claim_id) : c \in paper.claims }) \cup
  Flag({ b.abstract_role : b \in paper.abstract } \ {"none"} # AbstractRole,
       "ABSTRACT_COVERAGE_MISSING", "abstract") \cup
  Flag(\A c \in paper.claims :
         c.importance = "CRITICAL" =>
           c.claim_id \notin Shown({ b \in paper.abstract : b.abstract_role = "KEY_RESULT" }),
       "ABSTRACT_COVERAGE_MISSING", "key result")

\* requirements: the outputs every subproblem asks for.
SubproblemCoverageIssues(paper, requirements) ==
  LET covered == { r.subproblem_id : r \in paper.subproblem_coverage } IN
  { Issue("MISSING_SUBPROBLEM", "ERROR", q) : q \in DOMAIN requirements \ covered } \cup
  { Issue("DOCUMENT_INTEGRITY_ERROR", "ERROR", q) : q \in covered \ DOMAIN requirements } \cup
  UNION { Flag(\/ r.required_outputs # requirements[r.subproblem_id]
               \/ \E id \in r.section_ids : \A s \in AllSections(paper) :
                    s.section_id = id => r.subproblem_id \notin s.subproblem_refs
               \/ ~(r.claim_refs \subseteq ClaimIds(paper)),
               "MISSING_SUBPROBLEM", r.subproblem_id)
          : r \in { q \in paper.subproblem_coverage : q.subproblem_id \in DOMAIN requirements } }

\* Evidence and its snapshot: the records that were attached, in their set.
EvidenceSnapshotIssues(snapshot, records) ==
  Flag(snapshot # { r.evidence_id : r \in records }, "EVIDENCE_SNAPSHOT_STALE", "snapshot") \cup
  Flag(Cardinality({ r \in records : r.evidence_type = "RESULT" }) # 1,
       "WRONG_VERIFIED_RESULT", "snapshot") \cup
  UNION { Flag(~r.verified \/ r.is_mock, "UNVERIFIED_EVIDENCE", r.evidence_id) : r \in records }

\* What the emitted TeX has to show of the sections, against what it shows.
RenderedContentIssues(paper, rendered) ==
  (UNION { Integrity(s.section_id \notin rendered.sections
                       \/ ~(s.equation_refs \subseteq rendered.equations)
                       \/ ~(s.figure_refs \subseteq rendered.figures)
                       \/ ~(s.table_refs \subseteq rendered.tables), s.section_id)
           : s \in AllSections(paper) }) \cup
  (UNION { Integrity(id \notin rendered.claims, id) : id \in Shown(Blocks(paper)) }) \cup
  Integrity(rendered.cited # (UNION { c.citation_refs : c \in paper.claims })
                               \cup UNION { s.citation_refs : s \in AllSections(paper) },
            "citations")
=============================================================================
