------------------------------ MODULE PaperBuild -------------------------------
(***************************************************************************)
(* One run of PaperWorkflow, from the verified evidence to a paper version *)
(* (paper/workflow.py and the components it calls).  What the repositories *)
(* hold, what the agents and the literature source answer and how the      *)
(* compilation ends are inputs; the bytes of an artifact may be edited or  *)
(* lost between any two steps.                                             *)
(***************************************************************************)
EXTENDS PaperClaims

CONSTANTS
  Project,     \* what the repositories can hold of a project
  Manuscript,  \* what PaperAgent can hand in
  Source       \* what the literature source can answer

\* The payloads of evidence records and the manuscripts have their schemas.
ASSUME ProjectAssumption ==
  \A p \in Project : \A r \in p.leaves : \A f \in DOMAIN r.payload : r.payload[f].value \in Int

ASSUME ManuscriptAssumption ==
  \A m \in Manuscript : "claims" \in DOMAIN m /\ \A c \in m.claims : ClaimSchema(c)

VARIABLES
  step,        \* how far the run is
  project,     \* the state and the reports it reads
  references,  \* the references found, by identifier
  paper,       \* the PaperIR in progress
  support,     \* the citation support checks
  audit,       \* the independent audit: [passed, is_mock]
  compilation, \* how the PDF compilation ended
  store,       \* the artifacts of this build and the state of their bytes
  report       \* the quality report; its status is that of the version

buildVars == <<step, project, references, paper, support, audit, compilation, store, report>>

\* PaperCompileStatus is SUCCEEDED or one of the ways to fail; figure is the
\* state of the bytes that were embedded, legible whether the text can be
\* extracted from the PDF.
NoCompilation == [status |-> "NONE", figure |-> "stored", legible |-> TRUE, pages |-> 0]

NoReport == [status |-> "NONE", errors |-> {}]

BuildInit ==
  /\ step = "evidence" /\ project \in Project
  /\ references = [r \in {} |-> "none"]
  /\ paper = CHOOSE m \in Manuscript : TRUE
  /\ support = {} /\ audit = [passed |-> FALSE, is_mock |-> FALSE]
  /\ compilation = NoCompilation
  /\ store = [k \in {} |-> "stored"]
  /\ report = NoReport

\* An exception ends the run; nothing of a version is stored.
Refuse == step' = "refused"

Stores(kinds) == [k \in DOMAIN store \cup kinds |-> IF k \in kinds THEN "stored" ELSE store[k]]

-----------------------------------------------------------------------------
(* VerifiedEvidenceBuilder                                                   *)

RequireVerifiedGate(p) ==
  /\ Cardinality(p.gates) = 1
  /\ \A gate \in p.gates :
       gate.status = "PASS" /\ ~gate.errors /\ gate.checks # {} /\ gate.checks \subseteq {TRUE}
  /\ p.status = "SUCCEEDED"

\* identities are those the model, the result, the solver run and the
\* execution agree on: one, if they belong together.
RequireContext(context) ==
  /\ context.evidence_valid
  /\ Cardinality(context.identities) = 1
  /\ context.execution = [is_mock |-> FALSE, status |-> "SUCCEEDED", safe |-> TRUE]

ChainPasses(chain) ==
  /\ chain.bound
  /\ chain.validation = "PASS" /\ chain.sensitivity = "PASS"
  /\ chain.robustness = "PASS" /\ chain.red_team = "PASS"
  /\ ~chain.review_is_mock
  /\ \A finding \in chain.findings : finding.severity = "CRITICAL" => finding.resolved

ResolveUniqueChain(p) == { chain \in p.chains : ChainPasses(chain) }

\* _records: accepted facts, the model with its supported assumptions and its
\* equations, the result and the four reports.
Records(p) ==
  { r \in p.leaves :
      CASE r.evidence_type \in {"PROBLEM_FACT", "DATA_FACT"} -> "accepted" \in r.facts
        [] r.evidence_type = "ASSUMPTION" -> "supported" \in r.facts
        [] OTHER -> TRUE }

\* attach_references adds one record for each reference.
AttachReferences(p, found) ==
  Records(p) \cup
  { EvidenceRecord(id, "LITERATURE", [f \in {} |-> NotANumber], {}) : id \in DOMAIN found }

Evidence == AttachReferences(project, references)

BuildEvidence ==
  /\ step = "evidence"
  /\ IF /\ RequireVerifiedGate(project)
        /\ RequireContext(project.context)
        /\ Cardinality(ResolveUniqueChain(project)) = 1
     THEN step' = "literature" ELSE Refuse
  /\ UNCHANGED <<project, references, paper, support, audit, compilation, store, report>>

Findings == UNION { chain.findings : chain \in ResolveUniqueChain(project) }

-----------------------------------------------------------------------------
(* Literature                                                                *)

\* CitationMetadataVerifier: the candidate against what the source resolves.
MetadataStatus(resolved) ==
  CASE resolved = "absent" -> "NOT_FOUND"
    [] resolved = "same" -> "VERIFIED"
    [] resolved = "different" -> "CONFLICT"

\* The searches and their verification; references that are not all verified
\* cannot be attached, and there has to be one.
Literature ==
  /\ step = "literature"
  /\ \E found \in Source :
       LET verified == [id \in DOMAIN found |->
             [ status |-> MetadataStatus(found[id].resolved), is_mock |-> found[id].is_mock,
               trusted_text |-> found[id].trusted_text ]] IN
       IF DOMAIN found # {} /\ \A id \in DOMAIN found : verified[id].status = "VERIFIED"
       THEN references' = verified /\ step' = "assets"
       ELSE Refuse /\ UNCHANGED references
  /\ UNCHANGED <<project, paper, support, audit, compilation, store, report>>

\* CitationSupportVerifier: a draft counts only if it quotes the trusted text,
\* and a mock reviewer can support nothing.
SupportStatus(reference, draft) ==
  LET positive == draft.status \in {"SUPPORTED", "PARTIALLY_SUPPORTED"} IN
  IF reference.status # "VERIFIED" THEN "NOT_SUPPORTED"
  ELSE CASE ~reference.trusted_text \/ (draft.is_mock /\ positive) -> "INSUFFICIENT_TEXT"
         [] reference.trusted_text /\ ~draft.is_mock /\ positive /\ ~draft.quotes_text ->
              "NOT_SUPPORTED"
         [] OTHER -> draft.status

-----------------------------------------------------------------------------
(* Figures and tables                                                        *)

FigureArtifacts == {"FIGURE_DATA", "FIGURE_CODE", "FIGURE_IMAGE"}

\* The points of the figure: experiments with an objective value.
Points(p) == { e \in p.experiments : e.objective # "none" }

\* _render_png needs two observations, SymbolTableBuilder valid symbols.
Assets ==
  /\ step = "assets"
  /\ IF Cardinality(Points(project)) >= 2 /\ project.symbols_valid
     THEN /\ store' = Stores(FigureArtifacts \cup {"TABLE_DATA"})
          /\ step' = "author"
     ELSE Refuse /\ UNCHANGED store
  /\ UNCHANGED <<project, references, paper, support, audit, compilation, report>>

Registries ==
  [ equations |-> project.equations, figures |-> {"FIG-001"},
    tables |-> {"TAB-001", "TAB-002"}, references |-> DOMAIN references ]

\* FigureRegistry.verify and TableRegistry.verify: the bytes have to hash to
\* their records.
FigureIssues ==
  UNION { Integrity(store[k] # "stored", "FIG-001") : k \in FigureArtifacts }

TableIssues == Integrity(store["TABLE_DATA"] # "stored", "TAB-001")

-----------------------------------------------------------------------------
(* The author and the reviewers                                              *)

\* _document_registry.
DocumentRegistry(ir) ==
  ExpectedEntries(ir, Registries)
    \cup { Entry("EQUATION", e, "source") : e \in Registries.equations }

\* _author, _claim_graph and the statuses of the claims; the registry is built
\* again afterwards.
Author ==
  /\ step = "author"
  /\ \E m \in Manuscript :
       LET claims == ApplyStatuses(m.claims, Evidence)
           judged == [m EXCEPT !.claims = claims, !.evidence_snapshot =
                        { r.evidence_id : r \in Evidence }] IN
       IF /\ ValidPaperIR(m) /\ ~m.changed_identity
          /\ m.bibliography \subseteq DOMAIN references
          /\ ~ClaimGraphRefuses(m.claims, Evidence)
       THEN /\ paper' = [judged EXCEPT !.document_registry = DocumentRegistry(judged)]
            /\ step' = "citations"
       ELSE Refuse /\ UNCHANGED paper
  /\ UNCHANGED <<project, references, support, audit, compilation, store, report>>

Draft ==
  [status : {"SUPPORTED", "NOT_SUPPORTED"}, quotes_text : BOOLEAN, is_mock : BOOLEAN]

\* The pairs _citation_support asks about: the reference is known and has text.
Reviewed(ir) ==
  UNION { {c.claim_id} \X { id \in c.citation_refs \cap DOMAIN references :
                              references[id].trusted_text } : c \in ir.claims }

CitationSupport ==
  /\ step = "citations"
  /\ \/ /\ \E drafts \in [Reviewed(paper) -> Draft] :
             support' = { [ claim_id |-> p[1], reference_id |-> p[2],
                            status |-> SupportStatus(references[p[2]], drafts[p]),
                            reviewer_is_mock |-> drafts[p].is_mock ] : p \in Reviewed(paper) }
        /\ step' = "audit"
     \/ Reviewed(paper) # {} /\ Refuse /\ UNCHANGED support
  /\ UNCHANGED <<project, references, paper, audit, compilation, store, report>>

\* _audit_status.
AuditStatus(run, claims) ==
  [ passed |->
      /\ run.succeeded /\ run.passed /\ ~run.findings
      /\ { c.claim_id : c \in { d \in claims : d.importance \in Material } } \subseteq run.reviewed,
    is_mock |-> run.is_mock ]

\* The audit agent reviews all claims or leaves one out.
Audit ==
  /\ step = "audit"
  /\ \E succeeded, passed, findings, is_mock \in BOOLEAN,
        omitted \in { {} } \cup { {id} : id \in ClaimIds(paper) } :
       audit' = AuditStatus([ succeeded |-> succeeded, passed |-> passed, findings |-> findings,
                              is_mock |-> is_mock, reviewed |-> ClaimIds(paper) \ omitted ],
                            paper.claims)
  /\ step' = "compile"
  /\ UNCHANGED <<project, references, paper, support, compilation, store, report>>

-----------------------------------------------------------------------------
(* LaTeXRenderer and PDFCompiler                                             *)

ClaimsShown(ir) == Shown({ b \in Blocks(ir) : b.block_type = "CLAIM" })

\* What the emitted TeX contains.
Render(ir) ==
  [ sections  |-> { s.section_id : s \in AllSections(ir) },
    claims    |-> ClaimsShown(ir),
    equations |-> ObjectsShown(Blocks(ir), "EQUATION"),
    figures   |-> ObjectsShown(Blocks(ir), "FIGURE"),
    tables    |-> ObjectsShown(Blocks(ir), "TABLE"),
    cited     |-> (UNION { b.citation_refs : b \in Blocks(ir) })
                    \cup UNION { c.citation_refs : c \in
                           { d \in ir.claims : d.claim_id \in ClaimsShown(ir) } } ]

\* It raises for a key no registry knows, and for an unsafe equation.
RenderRefuses(ir) ==
  LET shown == Render(ir) IN
  \/ ~(Referenced(ir).references \cup ir.bibliography \subseteq Registries.references)
  \/ ~(shown.equations \subseteq Registries.equations)
  \/ ~(shown.figures \subseteq Registries.figures)
  \/ ~(shown.tables \subseteq Registries.tables)
  \/ shown.equations \cap project.unsafe_equations # {}

\* How the container can end, and what it can leave behind.
CompileResult ==
  [ image : BOOLEAN, exit : {"zero", "nonzero", "timeout", "error"}, fatal_warning : BOOLEAN,
    pdf : {"absent", "unreadable", "valid"} ]

\* PDFCompiler.compile.
CompileStatus(result) ==
  CASE ~result.image -> "UNAVAILABLE"
    [] result.image /\ result.exit = "timeout" -> "TIMEOUT"
    [] result = [image |-> TRUE, exit |-> "zero", fatal_warning |-> FALSE, pdf |-> "valid"] ->
         "SUCCEEDED"
    [] OTHER -> "FAILED"

\* TeX and BibTeX are stored before the container runs; the images it embeds
\* are read from the store.
Compile ==
  /\ step = "compile"
  /\ IF RenderRefuses(paper) \/ store["FIGURE_IMAGE"] = "lost"
     THEN Refuse /\ UNCHANGED <<store, compilation>>
     ELSE \E status \in { CompileStatus(r) : r \in CompileResult }, legible \in BOOLEAN :
            /\ store' = Stores({"TEX", "BIB"} \cup IF status = "SUCCEEDED" THEN {"PDF"} ELSE {})
            /\ compilation' = [ status |-> status, figure |-> store["FIGURE_IMAGE"],
                                legible |-> legible \/ status # "SUCCEEDED",
                                pages |-> IF status = "SUCCEEDED" THEN paper.pages ELSE 0 ]
            /\ step' = "manifest"
  /\ UNCHANGED <<project, references, paper, support, audit, report>>

\* PaperBundleBuilder.build_manifest, of a compiled paper only.
BuildManifest ==
  /\ step = "manifest"
  /\ step' = "gate"
  /\ store' = Stores(IF compilation.status = "SUCCEEDED" THEN {"MANIFEST"} ELSE {})
  /\ UNCHANGED <<project, references, paper, support, audit, compilation, report>>

-----------------------------------------------------------------------------
(* The quality gate                                                          *)

\* _pdf_content: the claims the PDF can be seen to contain.
PdfContentIssues(ir) ==
  UNION { Integrity(c.importance \in Material
                      /\ ~(compilation.legible /\ c.claim_id \in Render(ir).claims), c.claim_id)
          : c \in ir.claims }

\* ArtifactIntegrityValidator: the bytes are read again; a bundle has a TeX, a
\* BibTeX, a PDF and a manifest, and is bound together by the manifest.
ArtifactIntegrityIssues ==
  (UNION { Integrity(store[k] # "stored", k) : k \in DOMAIN store }) \cup
  IF {"TEX", "BIB", "PDF", "MANIFEST"} \subseteq DOMAIN store
  THEN IF store["PDF"] = "lost" \/ store["MANIFEST"] # "stored" THEN {}
       ELSE PdfContentIssues(paper)
  ELSE Integrity(TRUE, "bundle")

\* AssetSemanticIntegrityValidator: the figure shows the experiments of the
\* sensitivity report, the table the objective of the result.
AssetSemanticIssues ==
  LET types == { r.evidence_type : r \in Evidence } IN
  Integrity("SENSITIVITY" \notin types, "FIG-001") \cup
  Integrity({"RESULT", "MODEL"} \cap types # {"RESULT", "MODEL"}, "TAB-001") \cup
  Integrity(Points(project) = {}, "FIG-001")

\* PaperQualityGate.evaluate, with the integrity issues of run.
Issues ==
  (UNION { ClaimEvidenceIssues(c, Evidence) \cup WordingIssues(c, Evidence)
           : c \in paper.claims }) \cup
  NumberConsistencyIssues(paper.claims) \cup
  RedTeamIssues(paper.claims, Evidence, Findings) \cup
  CitationQualityIssues(paper.claims, references, support) \cup
  CitationFreshnessIssues(paper.claims, references, support) \cup
  CrossReferenceIssues(paper, Registries) \cup DocumentRegistryIssues(paper, Registries) \cup
  SymbolNarrativeIssues(paper) \cup HallucinatedNumberIssues(paper) \cup
  UnsupportedLanguageIssues(paper) \cup DocumentCompletenessIssues(paper) \cup
  FigureIssues \cup TableIssues \cup EvidenceSnapshotIssues(paper.evidence_snapshot, Evidence) \cup
  RenderedContentIssues(paper, Render(paper)) \cup AssetSemanticIssues \cup
  SubproblemCoverageIssues(paper, project.requirements) \cup ArtifactIntegrityIssues \cup
  Flag(compilation.status # "SUCCEEDED", "PDF_COMPILE_ERROR", "paper") \cup
  Flag(~audit.passed \/ audit.is_mock, "INDEPENDENT_REVIEW_REQUIRED", "paper")

ErrorCodes(issues) == { i.code : i \in { j \in issues : j.severity = "ERROR" } }

QualityStatus(errors) ==
  CASE errors = {} -> "READY_FOR_FINAL_JURY"
    [] errors \cap {"MOCK_EVIDENCE", "INDEPENDENT_REVIEW_REQUIRED"} # {} -> "HUMAN_REVIEW"
    [] OTHER -> "FAILED"

\* _artifact_integrity reads figures and tables unguarded.
Gate ==
  /\ step = "gate"
  /\ IF \E k \in FigureArtifacts \cup {"TABLE_DATA"} : store[k] = "lost"
     THEN Refuse /\ UNCHANGED report
     ELSE /\ report' = [ status |-> QualityStatus(ErrorCodes(Issues)),
                         errors |-> ErrorCodes(Issues) ]
          /\ step' = "built"
  /\ UNCHANGED <<project, references, paper, support, audit, compilation, store>>

-----------------------------------------------------------------------------
(* The file store, under the build: the bytes of at most one artifact are    *)
(* edited or lost.  Nothing reads them before the compilation does.          *)

BytesChange ==
  /\ step \in {"compile", "manifest", "gate", "built"}
  /\ \A k \in DOMAIN store : store[k] = "stored"
  /\ \E k \in DOMAIN store, damage \in {"changed", "lost"} : store' = [store EXCEPT ![k] = damage]
  /\ UNCHANGED <<step, project, references, paper, support, audit, compilation, report>>

BuildNext ==
  \/ BuildEvidence \/ Literature \/ Assets \/ Author \/ CitationSupport
  \/ Audit \/ Compile \/ BuildManifest \/ Gate \/ BytesChange

-----------------------------------------------------------------------------
(* Properties                                                                *)

\* The amounts the cited evidence has in a field a claim speaks of.
Measured(claim, said) ==
  { r.payload[said.field] : r \in
      { e \in Evidence : e.evidence_id \in claim.evidence_refs /\ said.field \in DOMAIN e.payload } }

InSmallestUnit(amount) == amount.value * Factor(amount.unit)

\* What a claim says of a field is what every cited record has in it.
SaysWhatIsMeasured(claim, said) ==
  /\ Measured(claim, said) # {}
  /\ \A amount \in Measured(claim, said) :
       /\ amount.numeric /\ Convertible(amount.unit, said.unit)
       /\ InSmallestUnit(amount) = InSmallestUnit(said)

\* Every number of the text is read as it is written: it has no separator and
\* no word after it but a unit that is not taken for another.
PlainlyWritten(claim) ==
  \A token \in claim.numbers :
    TextNumbers(token) = {Read(token.number, token.decimals, token.unit)}

\* Some number of the text, as it is written, is the rounding of what every
\* cited record has in the field, in a unit that amount can be converted to.
ShowsAmount(claim, said) ==
  /\ Measured(claim, said) # {}
  /\ \E token \in claim.numbers :
       LET unit == IF token.unit = "none" THEN said.unit ELSE token.unit IN
       \A amount \in Measured(claim, said) :
         /\ amount.numeric /\ Convertible(amount.unit, unit)
         /\ IsRounding(token, unit, amount.value, amount.unit)

\* A percentage is the rounding of the change between two amounts, and no
\* wording turns its direction round.
ShowsRise(claim, token, baseline, verified) ==
  LET from == InSmallestUnit(baseline)
      rise == InSmallestUnit(verified) - from IN
  /\ baseline.numeric /\ verified.numeric /\ Convertible(baseline.unit, verified.unit)
  /\ 2 * Magnitude(Magnitude(token.number) * Magnitude(from) - 10000 * Magnitude(rise))
       <= Grain(token) * Magnitude(from)
  /\ rise > 0 => "decrease" \notin claim.words
  /\ rise < 0 => "increase" \notin claim.words

\* Some percentage of the text shows what the cited records have in two fields.
ShowsChange(claim, before, after) ==
  /\ Measured(claim, before) # {} /\ Measured(claim, after) # {}
  /\ \E token \in claim.numbers :
       /\ token.unit = "percent"
       /\ \A baseline \in Measured(claim, before), verified \in Measured(claim, after) :
            ShowsRise(claim, token, baseline, verified)

\* The structured value of an exact claim says what was measured, however its
\* text is written; and a text that is plainly written shows it: the amount
\* itself, or the change between two amounts and its direction.
ShowsMeasured(claim) ==
  LET At(metric) == CHOOSE s \in claim.value.says : s.metric = metric IN
  claim.value.tolerance = 0 =>
    /\ claim.value.kind \in {"numeric", "comparison"} =>
         \A said \in claim.value.says : SaysWhatIsMeasured(claim, said)
    /\ claim.value.kind = "numeric" /\ PlainlyWritten(claim) =>
         \A said \in claim.value.says : ShowsAmount(claim, said)
    /\ claim.value.kind = "comparison" /\ PlainlyWritten(claim) =>
         ShowsChange(claim, At("comparison-baseline"), At("comparison-verified"))

\* A reader who follows a citation finds a real source whose own text a real
\* reviewer quoted for the claim.
CitationHolds(claim, id) ==
  /\ id \in DOMAIN references
  /\ references[id].status = "VERIFIED" /\ ~references[id].is_mock /\ references[id].trusted_text
  /\ \E k \in support : /\ k.claim_id = claim.claim_id /\ k.reference_id = id
                        /\ k.status = "SUPPORTED" /\ ~k.reviewer_is_mock

\* A paper that is ready for the final jury can be followed to what was
\* computed, whatever the agents wrote: every exact amount its claims state is
\* one the verified evidence measured, and a claim whose numbers are plainly
\* written shows it, in whatever unit and rounding; every citation holds, every
\* material claim rests on evidence and can be read in the PDF, a real auditor
\* saw it, and the figure is the stored one.  Of a text that is not plainly
\* written ("1,240 kg", "5 min", "12 lb") it says nothing, nor of the years in
\* the prose: there a ready paper may show what nobody measured.
ReadyPaperIsGrounded ==
  report.status = "READY_FOR_FINAL_JURY" =>
    /\ \A c \in paper.claims :
         /\ ShowsMeasured(c)
         /\ \A id \in c.citation_refs : CitationHolds(c, id)
         /\ c.importance \in Material =>
              /\ \E r \in Evidence : r.evidence_id \in c.evidence_refs /\ r.verified /\ ~r.is_mock
              /\ c.claim_id \in ClaimsShown(paper) /\ compilation.legible
    /\ audit = [passed |-> TRUE, is_mock |-> FALSE]
    /\ compilation.status = "SUCCEEDED" /\ compilation.figure = "stored"

\* A paper nothing is wrong with is ready, with whatever units and roundings:
\* the author's text is sound and its claims plainly written, it compiled, its
\* bytes are there and the reviewers, none of them a mock, agreed.  A sound
\* claim of "5 min" or "5 machines" may be refused.
SoundPaperIsReady ==
  /\ step = "built" /\ paper.sound
  /\ \A c \in paper.claims : PlainlyWritten(c)
  /\ \A c \in paper.claims : \A id \in c.citation_refs : CitationHolds(c, id)
  /\ \A id \in DOMAIN references : ~references[id].is_mock
  /\ audit = [passed |-> TRUE, is_mock |-> FALSE]
  /\ compilation.status = "SUCCEEDED" /\ compilation.legible /\ compilation.figure = "stored"
  /\ \A k \in DOMAIN store : store[k] = "stored"
  => report.status = "READY_FOR_FINAL_JURY"
=============================================================================
