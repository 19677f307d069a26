----------------------------- MODULE DocumentProofs -----------------------------
(***************************************************************************)
(* What a ready paper and a frozen package promise, for every project,     *)
(* manuscript, source, profile and hour.  First the arithmetic of amounts  *)
(* and roundings; then what the quality gate lets through and the          *)
(* invariant of the build that makes it enough; then the rules of a        *)
(* profile, the freeze and the invariant of the package.                   *)
(***************************************************************************)
EXTENDS SubmissionPackage, FiniteSetTheorems, FunctionTheorems, TLAPS

-----------------------------------------------------------------------------
(* Amounts.                                                                  *)

LEMMA FactorType ==
  ASSUME NEW u
  PROVE  Factor(u) \in Nat /\ Factor(u) > 0
  <1>1. CASE u \in DOMAIN UnitScale
    <2>1. u \in {"g", "kg", "t", "cm", "m", "km", "s", "min", "h", "percent"}
      BY <1>1 DEF UnitScale
    <2>2. UnitScale[u][2] \in {1, 60, 100, 1000, 3600, 100000, 1000000}
      BY <2>1 DEF UnitScale
    <2> QED BY <1>1, <2>2 DEF Factor
  <1>2. CASE u \notin DOMAIN UnitScale
    BY <1>2 DEF Factor
  <1> QED BY <1>1, <1>2

LEMMA PercentIsOne == Factor("percent") = 1
  BY DEF Factor, UnitScale

LEMMA ConvertibleOnward ==
  ASSUME NEW a, NEW b, NEW c, Convertible(a, b), Convertible(b, c)
  PROVE  Convertible(a, c)
  BY DEF Convertible

LEMMA ConvertibleBack ==
  ASSUME NEW a, NEW b, Convertible(a, b)
  PROVE  Convertible(b, a)
  BY DEF Convertible

LEMMA MagnitudeType ==
  ASSUME NEW n \in Int
  PROVE  Magnitude(n) \in Nat /\ (Magnitude(n) = 0 <=> n = 0)
  BY DEF Magnitude

LEMMA GrainType ==
  ASSUME NEW token
  PROVE  Grain(token) \in Nat
  BY DEF Grain

\* Without a tolerance, close amounts are the same.
LEMMA CloseExactly ==
  ASSUME NEW a \in Int, NEW b \in Int, NEW one \in Int, Close(a, b, 0, one)
  PROVE  a = b
  <1> PICK scale \in {Magnitude(a), Magnitude(b), one} : 100 * Magnitude(a - b) <= 0 * scale
    BY DEF Close
  <1>1. scale \in Int /\ a - b \in Int
    BY MagnitudeType
  <1>2. Magnitude(a - b) \in Nat /\ (Magnitude(a - b) = 0 <=> a - b = 0)
    BY <1>1, MagnitudeType
  <1> QED BY <1>1, <1>2

LEMMA MagnitudeTimes ==
  ASSUME NEW m \in Int, NEW n \in Nat
  PROVE  Magnitude(m * n) = Magnitude(m) * n
  <1>1. CASE m >= 0
    <2>1. m * n >= 0
      BY <1>1
    <2> QED BY <1>1, <2>1 DEF Magnitude
  <1>2. CASE m < 0
    <2> PICK k \in Nat : k = -m
      BY <1>2
    <2>1. m * n = -(k * n) /\ k * n >= 0
      OBVIOUS
    <2> QED BY <1>2, <2>1 DEF Magnitude
  <1> QED BY <1>1, <1>2

LEMMA SignScales ==
  ASSUME NEW b \in Int, NEW v \in Int, NEW factor \in Nat, factor > 0
  PROVE  /\ v * factor - b * factor > 0 => v - b > 0
         /\ v * factor - b * factor < 0 => v - b < 0
  <1> PICK d \in Int : d = v - b
    OBVIOUS
  <1>1. v * factor - b * factor = d * factor
    OBVIOUS
  <1>2. d >= 0 => d * factor >= 0
    OBVIOUS
  <1>3. d <= 0 => d * factor <= 0
    <2> PICK e \in Int : e = -d
      OBVIOUS
    <2>1. d * factor = -(e * factor) /\ (e >= 0 => e * factor >= 0)
      OBVIOUS
    <2> QED BY <2>1
  <1> QED BY <1>1, <1>2, <1>3

\* A percentage that is the rounding of a change stays one in any unit.
LEMMA ChangeScales ==
  ASSUME NEW b \in Int, NEW v \in Int, NEW change \in Int, NEW shown \in Nat, NEW grain \in Nat,
         NEW factor \in Nat,
         change * Magnitude(b) = 10000 * (v - b),
         2 * Magnitude(shown - Magnitude(change)) <= grain
  PROVE  2 * Magnitude(shown * Magnitude(b * factor) - 10000 * Magnitude(v * factor - b * factor))
           <= grain * Magnitude(b * factor)
  <1> PICK size \in Nat : size = Magnitude(b)
    BY MagnitudeType
  <1> PICK rise \in Int : rise = v - b
    OBVIOUS
  <1> PICK whole \in Nat : whole = size * factor
    OBVIOUS
  <1> PICK c \in Nat : c = Magnitude(change)
    BY MagnitudeType
  <1>1. Magnitude(b * factor) = whole
    BY MagnitudeTimes
  <1>2. Magnitude(v * factor - b * factor) = Magnitude(rise) * factor
    <2>1. v * factor - b * factor = rise * factor
      OBVIOUS
    <2> QED BY <2>1, MagnitudeTimes
  <1>3. c * size = 10000 * Magnitude(rise)
    <2>1. Magnitude(change * size) = c * size
      BY MagnitudeTimes
    <2>2. Magnitude(rise * 10000) = Magnitude(rise) * 10000
      BY MagnitudeTimes
    <2>3. change * size = rise * 10000
      OBVIOUS
    <2> QED BY <2>1, <2>2, <2>3, MagnitudeType
  <1>4. 10000 * (Magnitude(rise) * factor) = c * whole
    <2> PICK r \in Nat : r = Magnitude(rise)
      BY MagnitudeType
    <2>1. c * (size * factor) = (c * size) * factor
      OBVIOUS
    <2>2. 10000 * (r * factor) = (10000 * r) * factor
      OBVIOUS
    <2> QED BY <1>3, <2>1, <2>2
  <1> PICK d \in Int : d = shown - c
    OBVIOUS
  <1>5. shown * whole - c * whole = d * whole
    OBVIOUS
  <1>6. Magnitude(d * whole) = Magnitude(d) * whole
    BY MagnitudeTimes
  <1>7. 2 * (Magnitude(d) * whole) <= grain * whole
    <2> PICK e \in Nat : e = Magnitude(d)
      BY MagnitudeType
    <2>1. 2 * e <= grain
      OBVIOUS
    <2>2. (2 * e) * whole <= grain * whole
      BY <2>1
    <2> QED BY <2>2
  <1> QED BY <1>1, <1>2, <1>4, <1>5, <1>6, <1>7

-----------------------------------------------------------------------------
(* What a claim shows, when the validators find nothing.                     *)

\* Nothing here keeps a paper from being ready.
Clean(issues) == \A i \in issues : i.severity # "ERROR"

LEMMA CleanPart ==
  ASSUME NEW issues, NEW part, Clean(issues), part \subseteq issues
  PROVE  Clean(part)
  BY DEF Clean

\* A field that raises nothing has, without a tolerance, exactly what was said.
LEMMA FieldAgrees ==
  ASSUME NEW claim, NEW said, NEW actual, claim.value.tolerance = 0,
         said.value \in Int, actual.value \in Int, Clean(FieldIssues(claim, said, actual))
  PROVE  /\ actual.numeric /\ Convertible(actual.unit, said.unit)
         /\ InSmallestUnit(actual) = InSmallestUnit(said)
  <1>1. ASSUME NEW code PROVE ~Clean(Flag(TRUE, code, claim.claim_id))
    BY DEF Clean, Flag, Issue
  <1>2. actual.numeric
    <2> SUFFICES ASSUME ~actual.numeric PROVE FALSE
      OBVIOUS
    <2>1. FieldIssues(claim, said, actual) = Flag(TRUE, "NUMERIC_CLAIM_MISMATCH", claim.claim_id)
      BY DEF FieldIssues
    <2> QED BY <1>1, <2>1
  <1>3. Convertible(actual.unit, said.unit)
    <2> SUFFICES ASSUME ~Convertible(actual.unit, said.unit) PROVE FALSE
      OBVIOUS
    <2>1. FieldIssues(claim, said, actual) = Flag(TRUE, "UNIT_CLAIM_MISMATCH", claim.claim_id)
      BY <1>2 DEF FieldIssues
    <2> QED BY <1>1, <2>1
  <1> DEFINE same == Close(InSmallestUnit(actual), InSmallestUnit(said), 0, 100 * Factor(said.unit))
  <1>4. same
    <2> SUFFICES ASSUME ~same PROVE FALSE
      OBVIOUS
    <2>1. Flag(~same, "NUMERIC_CLAIM_MISMATCH", claim.claim_id)
            \subseteq FieldIssues(claim, said, actual)
      BY <1>2, <1>3 DEF FieldIssues, InSmallestUnit
    <2>2. Flag(~same, "NUMERIC_CLAIM_MISMATCH", claim.claim_id)
            = Flag(TRUE, "NUMERIC_CLAIM_MISMATCH", claim.claim_id)
      BY DEF Flag
    <2> HIDE DEF same
    <2> QED BY <1>1, <2>1, <2>2, CleanPart
  <1>5. InSmallestUnit(actual) \in Int /\ InSmallestUnit(said) \in Int
        /\ 100 * Factor(said.unit) \in Int
    BY FactorType DEF InSmallestUnit
  <1> QED BY <1>2, <1>3, <1>4, <1>5, CloseExactly

\* Every record of the evidence has amounts.
LEMMA PayloadType ==
  ASSUME project \in Project, NEW r \in Evidence, NEW f \in DOMAIN r.payload
  PROVE  r.payload[f].value \in Int
  <1>1. CASE r \in Records(project)
    BY <1>1, ProjectAssumption DEF Records
  <1>2. CASE r \in { EvidenceRecord(id, "LITERATURE", [g \in {} |-> NotANumber], {})
                     : id \in DOMAIN references }
    BY <1>2 DEF EvidenceRecord
  <1> QED BY <1>1, <1>2 DEF Evidence, AttachReferences

Exact(claim) ==
  claim.value.tolerance = 0 /\ claim.value.kind \in {"numeric", "comparison"}

\* Every record that is cited has the amount that was said, and one is.
LEMMA SaidIsMeasured ==
  ASSUME project \in Project, NEW claim, ClaimSchema(claim), Exact(claim),
         Clean(NumericClaimIssues(claim, Evidence)), NEW said \in claim.value.says
  PROVE  /\ Measured(claim, said) # {}
         /\ \A amount \in Measured(claim, said) :
              /\ amount.numeric /\ Convertible(amount.unit, said.unit)
              /\ amount.value \in Int /\ InSmallestUnit(amount) = InSmallestUnit(said)
  <1> DEFINE found == { l \in Links(claim, Evidence) : l[2] = said.field }
             each == Flag(found = {}, "NUMERIC_CLAIM_MISMATCH", claim.claim_id)
             agrees == UNION { FieldIssues(claim, said, l[1].payload[l[2]]) : l \in found }
  <1>1. said.value \in Int /\ said.field # "none"
    BY DEF ClaimSchema, ClaimStructuredValue
  <1>2. each \cup agrees \subseteq NumericClaimIssues(claim, Evidence)
    BY DEF NumericClaimIssues, Exact
  <1>3. found # {}
    <2> SUFFICES ASSUME found = {} PROVE FALSE
      OBVIOUS
    <2>1. Issue("NUMERIC_CLAIM_MISMATCH", "ERROR", claim.claim_id) \in each
      BY DEF Flag
    <2> HIDE DEF each, agrees
    <2> QED BY <1>2, <2>1 DEF Clean, Issue
  <1>4. ASSUME NEW l \in found
        PROVE  l[1].payload[said.field] \in Measured(claim, said)
    BY <1>1 DEF Links, SourceFields, Measured, Exact
  <1>5. ASSUME NEW amount \in Measured(claim, said)
        PROVE  /\ amount.numeric /\ Convertible(amount.unit, said.unit)
               /\ amount.value \in Int /\ InSmallestUnit(amount) = InSmallestUnit(said)
    <2> PICK r \in Evidence : /\ r.evidence_id \in claim.evidence_refs
                              /\ said.field \in DOMAIN r.payload /\ amount = r.payload[said.field]
      BY DEF Measured
    <2>1. amount.value \in Int
      BY PayloadType
    <2>2. <<r, said.field>> \in found
      BY DEF Links, SourceFields, Exact
    <2>3. FieldIssues(claim, said, amount) \subseteq agrees
      BY <2>2
    <2>4. Clean(FieldIssues(claim, said, amount))
      BY <1>2, <2>3, CleanPart
    <2> QED BY <1>1, <2>1, <2>4, FieldAgrees DEF Exact
  <1> QED BY <1>3, <1>4, <1>5

\* The text shows what the value says.
LEMMA TextIsRight ==
  ASSUME NEW claim, Exact(claim), Clean(NumericClaimIssues(claim, Evidence))
  PROVE  TextMatches(claim)
  <1> DEFINE text == Flag(~TextMatches(claim), "NUMERIC_CLAIM_MISMATCH", claim.claim_id)
  <1> SUFFICES ASSUME ~TextMatches(claim) PROVE FALSE
    OBVIOUS
  <1>1. text \subseteq NumericClaimIssues(claim, Evidence)
    BY DEF NumericClaimIssues, Exact
  <1>2. Issue("NUMERIC_CLAIM_MISMATCH", "ERROR", claim.claim_id) \in text
    BY DEF Flag
  <1> HIDE DEF text
  <1> QED BY <1>1, <1>2 DEF Clean, Issue

\* What is read from a plainly written text is written in it.
LEMMA ReadIsWritten ==
  ASSUME NEW claim, PlainlyWritten(claim), NEW read \in NumbersRead(claim)
  PROVE  \E token \in claim.numbers :
           read = Read(token.number, token.decimals, token.unit)
  <1>1. PICK token \in claim.numbers : read \in TextNumbers(token)
    BY DEF NumbersRead
  <1>2. TextNumbers(token) = {Read(token.number, token.decimals, token.unit)}
    BY DEF PlainlyWritten
  <1> QED BY <1>1, <1>2

LEMMA AmountIsShown ==
  ASSUME project \in Project, NEW claim, ClaimSchema(claim), claim.value.tolerance = 0,
         claim.value.kind = "numeric", PlainlyWritten(claim), Clean(NumericClaimIssues(claim, Evidence)),
         NEW said \in claim.value.says
  PROVE  ShowsAmount(claim, said)
  <1>1. Exact(claim)
    BY DEF Exact
  <1>2. claim.value.says = {said}
    BY DEF ClaimSchema, ClaimStructuredValue
  <1>3. PICK token \in claim.numbers :
          LET unit == IF token.unit = "none" THEN said.unit ELSE token.unit IN
            Convertible(said.unit, unit) /\ IsRounding(token, unit, said.value, said.unit)
    <2>1. PICK read \in NumbersRead(claim) :
            LET unit == IF read.unit = "none" THEN said.unit ELSE read.unit IN
              Convertible(said.unit, unit) /\ IsRounding(read, unit, said.value, said.unit)
      BY <1>1, <1>2, TextIsRight DEF TextMatches
    <2>2. PICK token \in claim.numbers :
            read = Read(token.number, token.decimals, token.unit)
      BY ReadIsWritten
    <2>3. read.number = token.number /\ read.decimals = token.decimals /\ read.unit = token.unit
      BY <2>2 DEF Read
    <2> QED BY <2>1, <2>3 DEF IsRounding, Grain
  <1> DEFINE unit == IF token.unit = "none" THEN said.unit ELSE token.unit
  <1>4. ASSUME NEW amount \in Measured(claim, said)
        PROVE  /\ amount.numeric /\ Convertible(amount.unit, unit)
               /\ IsRounding(token, unit, amount.value, amount.unit)
    <2>1. /\ amount.numeric /\ Convertible(amount.unit, said.unit)
          /\ InSmallestUnit(amount) = InSmallestUnit(said)
      BY <1>1, SaidIsMeasured
    <2>2. Convertible(said.unit, unit) /\ IsRounding(token, unit, said.value, said.unit)
      BY <1>3
    <2> HIDE DEF unit
    <2>3. IsRounding(token, unit, amount.value, amount.unit)
      BY <2>1, <2>2 DEF IsRounding, InSmallestUnit
    <2> QED BY <2>1, <2>2, <2>3, ConvertibleOnward
  <1>5. Measured(claim, said) # {}
    BY <1>1, SaidIsMeasured
  <1> QED BY <1>4, <1>5 DEF ShowsAmount

\* The validator of a comparison, without a tolerance.
LEMMA ChangeIsExact ==
  ASSUME NEW value, NEW b \in Int, NEW v \in Int, value.change \in Int, value.tolerance = 0,
         SaidOf(value, "comparison-baseline") = b, SaidOf(value, "comparison-verified") = v,
         PercentageIsDeterministic(value)
  PROVE  /\ value.change * Magnitude(b) = 10000 * (v - b)
         /\ v - b > 0 => value.direction = "INCREASE"
         /\ v - b < 0 => value.direction = "DECREASE"
  <1> DEFINE rise == 10000 * (v - b)
  <1>1. /\ Close(value.change * Magnitude(b), rise, 0, 100 * Magnitude(b))
        /\ value.direction = CASE rise > 0 * Magnitude(b) -> "INCREASE"
                               [] rise < -(0 * Magnitude(b)) -> "DECREASE"
                               [] OTHER -> "CHANGE"
    BY DEF PercentageIsDeterministic
  <1>2. Magnitude(b) \in Nat
    BY MagnitudeType
  <1>3. value.change * Magnitude(b) \in Int /\ rise \in Int /\ 100 * Magnitude(b) \in Int
    BY <1>2
  <1>4. value.change * Magnitude(b) = rise
    BY <1>1, <1>3, CloseExactly
  <1>5. 0 * Magnitude(b) = 0 /\ -(0 * Magnitude(b)) = 0
    BY <1>2
  <1> HIDE DEF rise
  <1>6. value.direction = CASE rise > 0 -> "INCREASE" [] rise < 0 -> "DECREASE" [] OTHER -> "CHANGE"
    BY <1>1, <1>5
  <1>7. (rise > 0 => value.direction = "INCREASE") /\ (rise < 0 => value.direction = "DECREASE")
    BY <1>3, <1>6
  <1> QED BY <1>3, <1>4, <1>7 DEF rise

LEMMA ChangeIsShown ==
  ASSUME project \in Project, NEW claim, ClaimSchema(claim), claim.value.tolerance = 0,
         claim.value.kind = "comparison", PlainlyWritten(claim),
         PercentageIsDeterministic(claim.value),
         Clean(NumericClaimIssues(claim, Evidence)),
         NEW before, before = CHOOSE s \in claim.value.says : s.metric = "comparison-baseline",
         NEW after, after = CHOOSE s \in claim.value.says : s.metric = "comparison-verified"
  PROVE  ShowsChange(claim, before, after)
  <1> PICK value : value = claim.value
    OBVIOUS
  <1>1. Exact(claim)
    BY DEF Exact
  <1>2. /\ before \in value.says /\ after \in value.says /\ before.unit = after.unit
        /\ before.value \in Int /\ after.value \in Int /\ value.change \in Int
    <2>1. PICK b, v \in value.says : /\ value.says = {b, v} /\ b.unit = v.unit
                                     /\ b.metric = "comparison-baseline"
                                     /\ v.metric = "comparison-verified"
      BY DEF ClaimSchema, ClaimStructuredValue
    <2>2. before = b /\ after = v
      BY <2>1
    <2> QED BY <2>1, <2>2 DEF ClaimSchema, ClaimStructuredValue
  <1> PICK b \in Int : b = before.value
    BY <1>2
  <1> PICK v \in Int : v = after.value
    BY <1>2
  <1> PICK change \in Int : change = value.change
    BY <1>2
  <1> PICK factor \in Nat : factor = Factor(before.unit) /\ factor > 0
    BY FactorType
  <1>4. /\ change * Magnitude(b) = 10000 * (v - b)
        /\ v - b > 0 => value.direction = "INCREASE"
        /\ v - b < 0 => value.direction = "DECREASE"
    <2>1. SaidOf(value, "comparison-baseline") = b /\ SaidOf(value, "comparison-verified") = v
      BY DEF SaidOf
    <2>2. value.tolerance = 0 /\ PercentageIsDeterministic(value)
      OBVIOUS
    <2>3. value.change \in Int
      BY <1>2
    <2> QED BY <2>1, <2>2, <2>3, ChangeIsExact, SMTT(30)
  <1>5. PICK token \in NumbersRead(claim) :
          /\ token.unit = "percent"
          /\ IsRounding([token EXCEPT !.number = Magnitude(@)], "percent",
                        Magnitude(change), "percent")
          /\ value.direction = "INCREASE" => "decrease" \notin claim.words
          /\ value.direction = "DECREASE" => "increase" \notin claim.words
    BY <1>1, TextIsRight DEF TextMatches
  <1>6. PICK written \in claim.numbers :
          token = Read(written.number, written.decimals, written.unit)
    BY ReadIsWritten
  <1>6a. /\ token.number \in Int /\ DOMAIN token = {"number", "decimals", "unit"}
         /\ token.number = written.number /\ token.decimals = written.decimals
         /\ token.unit = written.unit
    BY <1>6 DEF ClaimSchema, Read
  <1> PICK shown \in Nat : shown = Magnitude(token.number)
    BY <1>6a, MagnitudeType
  <1> PICK grain \in Nat : grain = Grain(token)
    BY GrainType
  <1>7. 2 * Magnitude(shown - Magnitude(change)) <= grain
    <2> PICK t : t = [token EXCEPT !.number = Magnitude(@)]
      OBVIOUS
    <2>1. t.number = shown /\ t.decimals = token.decimals
      BY <1>6a
    <2>2. Grain(t) = grain
      BY <2>1 DEF Grain
    <2>3. 2 * Magnitude(shown * 1 - Magnitude(change) * 1) <= grain * 1
      BY <1>5, <2>1, <2>2, PercentIsOne DEF IsRounding
    <2> QED BY <2>3, MagnitudeType
  <1>8. 2 * Magnitude(shown * Magnitude(b * factor) - 10000 * Magnitude(v * factor - b * factor))
          <= grain * Magnitude(b * factor)
    <2>1. change * Magnitude(b) = 10000 * (v - b)
      BY <1>4
    <2> QED BY <1>7, <2>1, ChangeScales, SMTT(30)
  <1>9. /\ v * factor - b * factor > 0 => v - b > 0
        /\ v * factor - b * factor < 0 => v - b < 0
    BY SignScales
  <1>10. ASSUME NEW baseline \in Measured(claim, before), NEW verified \in Measured(claim, after)
         PROVE  ShowsRise(claim, written, baseline, verified)
    <2>1. /\ baseline.numeric /\ Convertible(baseline.unit, before.unit)
          /\ InSmallestUnit(baseline) = b * factor
      BY <1>1, <1>2, SaidIsMeasured DEF InSmallestUnit
    <2>2. /\ verified.numeric /\ Convertible(verified.unit, before.unit)
          /\ InSmallestUnit(verified) = v * factor
      BY <1>1, <1>2, SaidIsMeasured DEF InSmallestUnit
    <2>3. Convertible(baseline.unit, verified.unit)
      BY <2>1, <2>2, ConvertibleOnward, ConvertibleBack
    <2>4. /\ v * factor - b * factor > 0 => "decrease" \notin claim.words
          /\ v * factor - b * factor < 0 => "increase" \notin claim.words
      BY <1>4, <1>5, <1>9
    <2>5. Grain(written) = grain /\ Magnitude(written.number) = shown
      BY <1>6a DEF Grain
    <2> QED BY <1>8, <2>1, <2>2, <2>3, <2>4, <2>5 DEF ShowsRise
  <1>11. Measured(claim, before) # {} /\ Measured(claim, after) # {}
    BY <1>1, <1>2, SaidIsMeasured
  <1> QED BY <1>5, <1>10, <1>11, <1>6a DEF ShowsChange

\* A claim without issues shows what was measured.
LEMMA MeasuredIsShown ==
  ASSUME project \in Project, NEW claim, ClaimSchema(claim), StructuredTypeMatchesClaim(claim),
         Clean(NumericClaimIssues(claim, Evidence))
  PROVE  ShowsMeasured(claim)
  <1>1. ASSUME Exact(claim), NEW said \in claim.value.says PROVE SaysWhatIsMeasured(claim, said)
    BY <1>1, SaidIsMeasured DEF SaysWhatIsMeasured
  <1> QED BY <1>1, AmountIsShown, ChangeIsShown
          DEF ShowsMeasured, StructuredTypeMatchesClaim, Exact

-----------------------------------------------------------------------------
(* The build.                                                                *)

\* What ReadyPaperIsGrounded asks of a paper that is ready.
Grounded ==
  /\ \A c \in paper.claims :
       /\ ShowsMeasured(c)
       /\ \A id \in c.citation_refs : CitationHolds(c, id)
       /\ c.importance \in Material =>
            /\ \E r \in Evidence : r.evidence_id \in c.evidence_refs /\ r.verified /\ ~r.is_mock
            /\ c.claim_id \in ClaimsShown(paper) /\ compilation.legible
  /\ audit = [passed |-> TRUE, is_mock |-> FALSE]
  /\ compilation.status = "SUCCEEDED" /\ compilation.figure = "stored"

EvidenceIds == { r.evidence_id : r \in Evidence }

\* What the schemas and the claim graph made sure of when the author was done.
WellFormed(claim) ==
  /\ ClaimSchema(claim) /\ StructuredTypeMatchesClaim(claim)
  /\ claim.evidence_refs \subseteq EvidenceIds

PaperInv ==
  step \in {"citations", "audit", "compile", "manifest", "gate", "built"} =>
    \A c \in paper.claims : WellFormed(c)

\* A support check is about a reference whose text was there to be quoted.
SupportInv ==
  /\ step \in {"evidence", "literature"} => support = {}
  /\ \A k \in support :
       k.reference_id \in DOMAIN references /\ references[k.reference_id].trusted_text

\* The figure is stored before anything reads it, and bytes that were damaged
\* when the compilation embedded them are so when the gate looks.
FigureInv ==
  /\ step \in {"author", "citations", "audit", "compile", "manifest", "gate", "built"} =>
       "FIGURE_IMAGE" \in DOMAIN store
  /\ step \in {"manifest", "gate"} /\ compilation.figure # "stored" =>
       store["FIGURE_IMAGE"] # "stored"

ReportInv == report.status = "READY_FOR_FINAL_JURY" => step = "built" /\ Grounded

BuildInv ==
  /\ project \in Project
  /\ PaperInv /\ SupportInv /\ FigureInv /\ ReportInv
  /\ audit \in [passed : BOOLEAN, is_mock : BOOLEAN]

\* What the gate says of a paper it finds no error in.
LEMMA FlagClean ==
  ASSUME NEW condition, NEW code, NEW ref, Clean(Flag(condition, code, ref))
  PROVE  ~condition
  BY DEF Clean, Flag, Issue

LEMMA ReadyHasNoError ==
  ASSUME NEW errors, QualityStatus(errors) = "READY_FOR_FINAL_JURY"
  PROVE  errors = {}
  <1> SUFFICES ASSUME errors # {} PROVE FALSE
    OBVIOUS
  <1>1. QualityStatus(errors) \in {"HUMAN_REVIEW", "FAILED"}
    BY DEF QualityStatus
  <1> QED BY <1>1

LEMMA ReadyIsClean ==
  ASSUME QualityStatus(ErrorCodes(Issues)) = "READY_FOR_FINAL_JURY"
  PROVE  Clean(Issues)
  <1>1. ErrorCodes(Issues) = {}
    BY ReadyHasNoError
  <1>2. ASSUME NEW i \in Issues, i.severity = "ERROR" PROVE FALSE
    <2>1. i.code \in ErrorCodes(Issues)
      BY <1>2 DEF ErrorCodes
    <2> QED BY <1>1, <2>1
  <1> QED BY <1>2 DEF Clean
\* Evidence that supports a material claim is verified and no mock.
LEMMA MaterialIsSupported ==
  ASSUME NEW claim, Clean(ClaimEvidenceIssues(claim, Evidence)), claim.importance \in Material
  PROVE  \E r \in Evidence : r.evidence_id \in claim.evidence_refs /\ r.verified /\ ~r.is_mock
  <1> DEFINE linked == Linked(claim, Evidence)
             direct == { r \in linked : r.verified }
             bare == claim.importance \in Material /\ direct = {}
             mocked == \E r \in linked : r.is_mock
  <1>1. /\ Flag(bare, "UNSUPPORTED_CLAIM", claim.claim_id)
             \subseteq ClaimEvidenceIssues(claim, Evidence)
        /\ Flag(mocked, "MOCK_EVIDENCE", claim.claim_id)
             \subseteq ClaimEvidenceIssues(claim, Evidence)
    BY DEF ClaimEvidenceIssues
  <1>2. ~bare /\ ~mocked
    <2> HIDE DEF bare, mocked
    <2> QED BY <1>1, CleanPart, FlagClean
  <1>3. PICK r \in linked : r.verified /\ ~r.is_mock
    BY <1>2
  <1>4. r \in Evidence /\ r.evidence_id \in claim.evidence_refs
    BY DEF Linked, Links
  <1> QED BY <1>3, <1>4

\* A citation the validators let through.
LEMMA CitationIsSupported ==
  ASSUME NEW claims, NEW claim \in claims, NEW id \in claim.citation_refs,
         Clean(CitationQualityIssues(claims, references, support)),
         Clean(CitationFreshnessIssues(claims, references, support))
  PROVE  /\ id \in DOMAIN references
         /\ references[id].status = "VERIFIED" /\ ~references[id].is_mock
         /\ \E k \in support : /\ k.claim_id = claim.claim_id /\ k.reference_id = id
                               /\ k.status = "SUPPORTED" /\ ~k.reviewer_is_mock
  <1> DEFINE checks == { k \in support : /\ k.claim_id = claim.claim_id /\ k.reference_id = id
                                         /\ k.status = "SUPPORTED" }
             mocked == \E k \in checks : k.reviewer_is_mock
             quality == CitationQualityIssues(claims, references, support)
             freshness == CitationFreshnessIssues(claims, references, support)
             found == /\ id \in DOMAIN references
                      /\ references[id].status = "VERIFIED"
             pairs == UNION { {c.claim_id} \X c.citation_refs : c \in claims }
             Each(p) ==
               LET known == { k \in support : k.claim_id = p[1] /\ k.reference_id = p[2]
                                                /\ k.status = "SUPPORTED" } IN
               CASE p[2] \notin DOMAIN references -> Flag(TRUE, "REFERENCE_NOT_FOUND", p[2])
                 [] p[2] \in DOMAIN references /\ references[p[2]].status # "VERIFIED" ->
                      Flag(TRUE, "REFERENCE_NOT_FOUND", p[2])
                 [] OTHER ->
                      Flag(known = {}, "REFERENCE_NOT_SUPPORTED", p[1]) \cup
                      Flag(\E k \in known : k.reviewer_is_mock, "MOCK_EVIDENCE", p[1])
  <1>1. <<claim.claim_id, id>> \in pairs
    OBVIOUS
  <1>2. Each(<<claim.claim_id, id>>) \subseteq quality
    <2>1. quality = UNION { Each(p) : p \in pairs }
      BY DEF CitationQualityIssues
    <2> HIDE DEF Each, pairs, quality
    <2> QED BY <1>1, <2>1
  <1>3. Clean(Each(<<claim.claim_id, id>>))
    <2> HIDE DEF Each
    <2> QED BY <1>2, CleanPart
  <1>4. found
    <2> SUFFICES ASSUME ~found PROVE FALSE
      OBVIOUS
    <2>1. Each(<<claim.claim_id, id>>) = Flag(TRUE, "REFERENCE_NOT_FOUND", id)
      OBVIOUS
    <2> HIDE DEF Each
    <2> QED BY <1>3, <2>1, FlagClean
  <1>5. Each(<<claim.claim_id, id>>) =
          Flag(checks = {}, "REFERENCE_NOT_SUPPORTED", claim.claim_id) \cup
          Flag(mocked, "MOCK_EVIDENCE", claim.claim_id)
    BY <1>4
  <1> DEFINE none == checks = {}
  <1>6. ~none /\ ~mocked
    <2>1. /\ Flag(none, "REFERENCE_NOT_SUPPORTED", claim.claim_id) \subseteq Each(<<claim.claim_id, id>>)
          /\ Flag(mocked, "MOCK_EVIDENCE", claim.claim_id) \subseteq Each(<<claim.claim_id, id>>)
      BY <1>5
    <2> HIDE DEF Each, none, mocked
    <2> QED BY <1>3, <2>1, CleanPart, FlagClean
  <1>7. ~references[id].is_mock
    <2>1. Flag(references[id].is_mock, "MOCK_EVIDENCE", id) \subseteq freshness
      BY <1>4 DEF CitationFreshnessIssues
    <2> QED BY <2>1, CleanPart, FlagClean
  <1> QED BY <1>4, <1>6, <1>7

\* Bytes the gate finds nothing wrong with show every material claim.
LEMMA BytesAreRight ==
  ASSUME Clean(ArtifactIntegrityIssues)
  PROVE  /\ \A k \in DOMAIN store : store[k] = "stored"
         /\ \A c \in paper.claims :
              c.importance \in Material => c.claim_id \in ClaimsShown(paper) /\ compilation.legible
  <1> DEFINE bytes == UNION { Integrity(store[k] # "stored", k) : k \in DOMAIN store }
             whole == {"TEX", "BIB", "PDF", "MANIFEST"} \subseteq DOMAIN store
             rest == IF {"TEX", "BIB", "PDF", "MANIFEST"} \subseteq DOMAIN store
                     THEN IF store["PDF"] = "lost" \/ store["MANIFEST"] # "stored" THEN {}
                          ELSE PdfContentIssues(paper)
                     ELSE Integrity(TRUE, "bundle")
  <1>1. ArtifactIntegrityIssues = bytes \cup rest
    BY DEF ArtifactIntegrityIssues
  <1>2. Clean(bytes) /\ Clean(rest)
    <2> HIDE DEF bytes, rest
    <2> QED BY <1>1, CleanPart
  <1>3. ASSUME NEW k \in DOMAIN store PROVE store[k] = "stored"
    <2>1. Integrity(store[k] # "stored", k) \subseteq bytes
      OBVIOUS
    <2> HIDE DEF bytes
    <2>2. Clean(Flag(store[k] # "stored", "DOCUMENT_INTEGRITY_ERROR", k))
      BY <1>2, <2>1, CleanPart DEF Integrity
    <2> QED BY <2>2, FlagClean
  <1>4. whole
    <2> SUFFICES ASSUME ~whole PROVE FALSE
      OBVIOUS
    <2>1. rest = Flag(TRUE, "DOCUMENT_INTEGRITY_ERROR", "bundle")
      BY DEF Integrity
    <2> HIDE DEF rest
    <2> QED BY <1>2, <2>1, FlagClean
  <1>5. Clean(PdfContentIssues(paper))
    <2>1. store["PDF"] = "stored" /\ store["MANIFEST"] = "stored"
      BY <1>3, <1>4
    <2>2. rest = PdfContentIssues(paper)
      BY <1>4, <2>1
    <2> HIDE DEF rest
    <2> QED BY <1>2, <2>2
  <1>6. ASSUME NEW c \in paper.claims, c.importance \in Material
        PROVE  c.claim_id \in ClaimsShown(paper) /\ compilation.legible
    <2> DEFINE hidden == /\ c.importance \in Material
                         /\ ~(compilation.legible /\ c.claim_id \in Render(paper).claims)
    <2>1. Integrity(hidden, c.claim_id) \subseteq PdfContentIssues(paper)
      BY DEF PdfContentIssues
    <2>2. ~hidden
      <3> HIDE DEF hidden
      <3>1. Clean(Flag(hidden, "DOCUMENT_INTEGRITY_ERROR", c.claim_id))
        BY <1>5, <2>1, CleanPart DEF Integrity
      <3> QED BY <3>1, FlagClean
    <2>3. Render(paper).claims = ClaimsShown(paper)
      BY DEF Render
    <2> QED BY <1>6, <2>2, <2>3
  <1> QED BY <1>3, <1>6
\* A paper the gate finds no error in is grounded, in a build whose invariant
\* holds.
LEMMA CleanIsGrounded ==
  ASSUME BuildInv, step = "gate", Clean(Issues)
  PROVE  Grounded
  <1> DEFINE uncompiled == compilation.status # "SUCCEEDED"
             unaudited == ~audit.passed \/ audit.is_mock
  <1>1. /\ Clean(CitationQualityIssues(paper.claims, references, support))
        /\ Clean(CitationFreshnessIssues(paper.claims, references, support))
        /\ Clean(ArtifactIntegrityIssues)
        /\ Clean(Flag(uncompiled, "PDF_COMPILE_ERROR", "paper"))
        /\ Clean(Flag(unaudited, "INDEPENDENT_REVIEW_REQUIRED", "paper"))
    <2> HIDE DEF uncompiled, unaudited
    <2>1. /\ CitationQualityIssues(paper.claims, references, support) \subseteq Issues
          /\ CitationFreshnessIssues(paper.claims, references, support) \subseteq Issues
          /\ ArtifactIntegrityIssues \subseteq Issues
      BY DEF Issues
    <2>2. /\ Flag(uncompiled, "PDF_COMPILE_ERROR", "paper") \subseteq Issues
          /\ Flag(unaudited, "INDEPENDENT_REVIEW_REQUIRED", "paper") \subseteq Issues
      BY DEF Issues, uncompiled, unaudited
    <2> QED BY <2>1, <2>2, CleanPart
  <1>2. ASSUME NEW c \in paper.claims
        PROVE  Clean(ClaimEvidenceIssues(c, Evidence)) /\ Clean(NumericClaimIssues(c, Evidence))
    <2>1. ClaimEvidenceIssues(c, Evidence) \subseteq Issues
      BY DEF Issues
    <2>2. NumericClaimIssues(c, Evidence) \subseteq ClaimEvidenceIssues(c, Evidence)
      BY DEF ClaimEvidenceIssues
    <2> QED BY <2>1, <2>2, CleanPart
  <1>3. ASSUME NEW c \in paper.claims PROVE ShowsMeasured(c)
    <2>1. project \in Project /\ ClaimSchema(c) /\ StructuredTypeMatchesClaim(c)
      BY DEF BuildInv, PaperInv, WellFormed
    <2> QED BY <1>2, <2>1, MeasuredIsShown
  <1>4. ASSUME NEW c \in paper.claims, NEW id \in c.citation_refs PROVE CitationHolds(c, id)
    <2>1. /\ id \in DOMAIN references
          /\ references[id].status = "VERIFIED" /\ ~references[id].is_mock
          /\ \E k \in support : /\ k.claim_id = c.claim_id /\ k.reference_id = id
                                /\ k.status = "SUPPORTED" /\ ~k.reviewer_is_mock
      BY <1>1, CitationIsSupported
    <2>2. references[id].trusted_text
      BY <2>1 DEF BuildInv, SupportInv
    <2> QED BY <2>1, <2>2 DEF CitationHolds
  <1>5. ASSUME NEW c \in paper.claims, c.importance \in Material
        PROVE  /\ \E r \in Evidence : r.evidence_id \in c.evidence_refs /\ r.verified /\ ~r.is_mock
               /\ c.claim_id \in ClaimsShown(paper) /\ compilation.legible
    BY <1>1, <1>2, <1>5, MaterialIsSupported, BytesAreRight
  <1>6. ~uncompiled /\ ~unaudited
    <2> HIDE DEF uncompiled, unaudited
    <2> QED BY <1>1, FlagClean
  <1>7. audit = [passed |-> TRUE, is_mock |-> FALSE]
    <2>1. audit \in [passed : BOOLEAN, is_mock : BOOLEAN]
      BY DEF BuildInv
    <2> QED BY <1>6, <2>1
  <1>8. compilation.figure = "stored"
    <2>1. "FIGURE_IMAGE" \in DOMAIN store
      BY DEF BuildInv, FigureInv
    <2>2. store["FIGURE_IMAGE"] = "stored"
      BY <1>1, <2>1, BytesAreRight
    <2> QED BY <2>2 DEF BuildInv, FigureInv
  <1> QED BY <1>3, <1>4, <1>5, <1>6, <1>7, <1>8 DEF Grounded

\* Grounded is about what no later step writes.
LEMMA GroundedStays ==
  ASSUME Grounded, UNCHANGED <<project, references, paper, support, audit, compilation>>
  PROVE  Grounded'
  <1>1. Evidence' = Evidence /\ ClaimsShown(paper)' = ClaimsShown(paper)
    BY DEF Evidence, ClaimsShown
  <1>2. ASSUME NEW c PROVE ShowsMeasured(c)' = ShowsMeasured(c)
    BY <1>1 DEF ShowsMeasured, ShowsAmount, ShowsChange, SaysWhatIsMeasured, Measured
  <1>3. ASSUME NEW c, NEW id PROVE CitationHolds(c, id)' = CitationHolds(c, id)
    BY DEF CitationHolds
  <1> QED BY <1>1, <1>2, <1>3 DEF Grounded

-----------------------------------------------------------------------------
(* The steps of the build.                                                   *)

LEMMA InitBuildInv ==
  ASSUME BuildInit
  PROVE  BuildInv
  BY DEF BuildInit, BuildInv, PaperInv, SupportInv, FigureInv, ReportInv, NoReport, NoCompilation

LEMMA BuildEvidenceStep ==
  ASSUME BuildInv, BuildEvidence
  PROVE  BuildInv'
  BY DEF BuildInv, PaperInv, SupportInv, FigureInv, ReportInv, BuildEvidence, Refuse

LEMMA LiteratureStep ==
  ASSUME BuildInv, Literature
  PROVE  BuildInv'
  BY DEF BuildInv, PaperInv, SupportInv, FigureInv, ReportInv, Literature, Refuse

LEMMA AssetsStep ==
  ASSUME BuildInv, Assets
  PROVE  BuildInv'
  BY DEF BuildInv, PaperInv, SupportInv, FigureInv, ReportInv, Assets, Refuse, Stores, FigureArtifacts

\* Evidence grows until there are references; claims stay as they were judged.
LEMMA ClaimsStay ==
  ASSUME \A c \in paper.claims : WellFormed(c), UNCHANGED <<project, references, paper>>
  PROVE  (\A c \in paper.claims : WellFormed(c))'
  <1>1. EvidenceIds' = EvidenceIds
    BY DEF EvidenceIds, Evidence
  <1>2. ASSUME NEW c PROVE WellFormed(c)' = WellFormed(c)
    BY <1>1 DEF WellFormed
  <1> QED BY <1>2

LEMMA AuthorStep ==
  ASSUME BuildInv, Author
  PROVE  BuildInv'
  <1>1. step = "author" /\ UNCHANGED <<project, references, support, audit, compilation, store, report>>
    BY DEF Author
  <1>2. CASE step' = "refused"
    BY <1>1, <1>2 DEF BuildInv, PaperInv, SupportInv, FigureInv, ReportInv
  <1>3. CASE step' # "refused"
    <2>1. PICK m \in Manuscript :
            LET claims == ApplyStatuses(m.claims, Evidence)
                judged == [m EXCEPT !.claims = claims, !.evidence_snapshot = EvidenceIds] IN
            /\ ValidPaperIR(m) /\ ~ClaimGraphRefuses(m.claims, Evidence)
            /\ paper' = [judged EXCEPT !.document_registry = DocumentRegistry(judged)]
            /\ step' = "citations"
      BY <1>3 DEF Author, Refuse, EvidenceIds
    <2>2. "claims" \in DOMAIN m /\ \A c \in m.claims : ClaimSchema(c)
      BY ManuscriptAssumption
    <2>3. paper'.claims = ApplyStatuses(m.claims, Evidence)
      BY <2>1, <2>2
    <2>4. ASSUME NEW c \in m.claims PROVE StructuredTypeMatchesClaim(c) /\ c.evidence_refs \subseteq EvidenceIds
      BY <2>1 DEF ValidPaperIR, ClaimGraphRefuses, EvidenceIds
    <2>5. ASSUME NEW c \in paper'.claims PROVE WellFormed(c)
      <3>1. PICK d \in m.claims : \E status : c = [d EXCEPT !.verification_status = status]
        BY <2>3 DEF ApplyStatuses
      <3>2. ClaimSchema(d) /\ StructuredTypeMatchesClaim(d) /\ d.evidence_refs \subseteq EvidenceIds
        BY <2>2, <2>4
      <3>3. /\ DOMAIN c = DOMAIN d /\ c.value = d.value /\ c.numbers = d.numbers
            /\ c.claim_type = d.claim_type /\ c.evidence_refs = d.evidence_refs
        BY <3>1, <3>2 DEF ClaimSchema
      <3>4. ClaimSchema(c) /\ StructuredTypeMatchesClaim(c)
        BY <3>2, <3>3 DEF ClaimSchema, StructuredTypeMatchesClaim
      <3> QED BY <3>2, <3>3, <3>4 DEF WellFormed
    <2>6. EvidenceIds' = EvidenceIds
      BY <1>1 DEF EvidenceIds, Evidence
    <2>7. PaperInv'
      <3>1. ASSUME NEW c PROVE WellFormed(c)' = WellFormed(c)
        BY <2>6 DEF WellFormed
      <3> QED BY <2>5, <3>1 DEF PaperInv
    <2> QED BY <1>1, <2>1, <2>7 DEF BuildInv, SupportInv, FigureInv, ReportInv
  <1> QED BY <1>2, <1>3

LEMMA CitationSupportStep ==
  ASSUME BuildInv, CitationSupport
  PROVE  BuildInv'
  <1>1. step = "citations" /\ UNCHANGED <<project, references, paper, audit, compilation, store, report>>
    BY DEF CitationSupport
  <1>2. PaperInv'
    BY <1>1, ClaimsStay DEF BuildInv, PaperInv
  <1>3. step' \in {"audit", "refused"}
    BY DEF CitationSupport, Refuse
  <1>4. CASE support' = support
    BY <1>1, <1>2, <1>3, <1>4 DEF BuildInv, SupportInv, FigureInv, ReportInv
  <1>5. CASE support' # support
    <2>1. PICK drafts \in [Reviewed(paper) -> Draft] :
            support' = { [ claim_id |-> p[1], reference_id |-> p[2],
                           status |-> SupportStatus(references[p[2]], drafts[p]),
                           reviewer_is_mock |-> drafts[p].is_mock ] : p \in Reviewed(paper) }
      BY <1>5 DEF CitationSupport
    <2>2. ASSUME NEW p \in Reviewed(paper)
          PROVE  p[2] \in DOMAIN references /\ references[p[2]].trusted_text
      BY DEF Reviewed
    <2>3. ASSUME NEW k \in support'
          PROVE  k.reference_id \in DOMAIN references /\ references[k.reference_id].trusted_text
      BY <2>1, <2>2
    <2>4. SupportInv'
      BY <1>1, <1>3, <2>3 DEF SupportInv
    <2> QED BY <1>1, <1>2, <1>3, <2>4 DEF BuildInv, FigureInv, ReportInv
  <1> QED BY <1>4, <1>5

LEMMA AuditStep ==
  ASSUME BuildInv, Audit
  PROVE  BuildInv'
  <1>1. /\ step = "audit" /\ step' = "compile"
        /\ UNCHANGED <<project, references, paper, support, compilation, store, report>>
    BY DEF Audit
  <1>2. PaperInv'
    BY <1>1, ClaimsStay DEF BuildInv, PaperInv
  <1>3. audit' \in [passed : BOOLEAN, is_mock : BOOLEAN]
    BY DEF Audit, AuditStatus
  <1> QED BY <1>1, <1>2, <1>3 DEF BuildInv, SupportInv, FigureInv, ReportInv

\* Storing other artifacts leaves the figure as it is.
LEMMA StoresKeeps ==
  ASSUME NEW kinds, "FIGURE_IMAGE" \in DOMAIN store, "FIGURE_IMAGE" \notin kinds
  PROVE  /\ "FIGURE_IMAGE" \in DOMAIN Stores(kinds)
         /\ Stores(kinds)["FIGURE_IMAGE"] = store["FIGURE_IMAGE"]
  BY DEF Stores

LEMMA CompileStep ==
  ASSUME BuildInv, Compile
  PROVE  BuildInv'
  <1>1. step = "compile" /\ UNCHANGED <<project, references, paper, support, audit, report>>
    BY DEF Compile
  <1>2. PaperInv'
    BY <1>1, ClaimsStay DEF BuildInv, PaperInv
  <1> DEFINE refuses == RenderRefuses(paper) \/ store["FIGURE_IMAGE"] = "lost"
             Kinds(status) == {"TEX", "BIB"} \cup IF status = "SUCCEEDED" THEN {"PDF"} ELSE {}
  <1>3. \/ step' = "refused" /\ UNCHANGED <<store, compilation>>
        \/ /\ step' = "manifest" /\ compilation'.figure = store["FIGURE_IMAGE"]
           /\ \E status : store' = Stores(Kinds(status))
    <2>1. CASE refuses
      BY <2>1 DEF Compile, Refuse
    <2>2. CASE ~refuses
      <3>1. \E status, legible :
              /\ store' = Stores(Kinds(status))
              /\ compilation' = [ status |-> status, figure |-> store["FIGURE_IMAGE"],
                                  legible |-> legible \/ status # "SUCCEEDED",
                                  pages |-> IF status = "SUCCEEDED" THEN paper.pages ELSE 0 ]
              /\ step' = "manifest"
        BY <2>2, Zenon DEF Compile
      <3> HIDE DEF Kinds
      <3> QED BY <3>1
    <2> QED BY <2>1, <2>2
  <1>4. "FIGURE_IMAGE" \in DOMAIN store
    BY <1>1 DEF BuildInv, FigureInv
  <1>5. FigureInv'
    <2>1. CASE step' = "refused" /\ UNCHANGED <<store, compilation>>
      BY <2>1 DEF FigureInv
    <2>2. CASE step' # "refused"
      <3>1. PICK status : store' = Stores(Kinds(status))
        BY <1>3, <2>2
      <3>2. "FIGURE_IMAGE" \notin Kinds(status)
        OBVIOUS
      <3> HIDE DEF Kinds
      <3>3. "FIGURE_IMAGE" \in DOMAIN store' /\ store'["FIGURE_IMAGE"] = store["FIGURE_IMAGE"]
        BY <1>4, <3>1, <3>2, StoresKeeps
      <3> QED BY <1>3, <2>2, <3>3 DEF FigureInv
    <2> QED BY <1>3, <2>1, <2>2
  <1> QED BY <1>1, <1>2, <1>3, <1>5 DEF BuildInv, SupportInv, ReportInv

LEMMA BuildManifestStep ==
  ASSUME BuildInv, BuildManifest
  PROVE  BuildInv'
  <1>1. /\ step = "manifest" /\ step' = "gate"
        /\ UNCHANGED <<project, references, paper, support, audit, compilation, report>>
    BY DEF BuildManifest
  <1>2. PaperInv'
    BY <1>1, ClaimsStay DEF BuildInv, PaperInv
  <1>3. FigureInv'
    <2>1. "FIGURE_IMAGE" \in DOMAIN store
      BY <1>1 DEF BuildInv, FigureInv
    <2>2. store' = Stores(IF compilation.status = "SUCCEEDED" THEN {"MANIFEST"} ELSE {})
      BY DEF BuildManifest
    <2> QED BY <1>1, <2>1, <2>2, StoresKeeps DEF BuildInv, FigureInv
  <1> QED BY <1>1, <1>2, <1>3 DEF BuildInv, SupportInv, ReportInv

LEMMA GateStep ==
  ASSUME BuildInv, Gate
  PROVE  BuildInv'
  <1>1. step = "gate" /\ UNCHANGED <<project, references, paper, support, audit, compilation, store>>
    BY DEF Gate
  <1>2. PaperInv'
    BY <1>1, ClaimsStay DEF BuildInv, PaperInv
  <1>3. \/ step' = "refused" /\ UNCHANGED report
        \/ step' = "built" /\ report'.status = QualityStatus(ErrorCodes(Issues))
    BY DEF Gate, Refuse
  <1>4. ReportInv'
    <2> SUFFICES ASSUME report'.status = "READY_FOR_FINAL_JURY" PROVE step' = "built" /\ Grounded'
      BY DEF ReportInv
    <2>1. report.status # "READY_FOR_FINAL_JURY"
      BY <1>1 DEF BuildInv, ReportInv
    <2>2. step' = "built" /\ QualityStatus(ErrorCodes(Issues)) = "READY_FOR_FINAL_JURY"
      BY <1>3, <2>1
    <2>3. Grounded
      BY <1>1, <2>2, ReadyIsClean, CleanIsGrounded
    <2> QED BY <1>1, <2>2, <2>3, GroundedStays
  <1> QED BY <1>1, <1>2, <1>3, <1>4 DEF BuildInv, SupportInv, FigureInv

LEMMA BytesChangeStep ==
  ASSUME BuildInv, BytesChange
  PROVE  BuildInv'
  <1>1. /\ step \in {"compile", "manifest", "gate", "built"}
        /\ UNCHANGED <<step, project, references, paper, support, audit, compilation, report>>
        /\ \A k \in DOMAIN store : store[k] = "stored"
        /\ DOMAIN store' = DOMAIN store
    BY DEF BytesChange
  <1>2. PaperInv'
    BY <1>1, ClaimsStay DEF BuildInv, PaperInv
  <1>3. FigureInv'
    BY <1>1 DEF BuildInv, FigureInv
  <1>4. ReportInv'
    BY <1>1, GroundedStays DEF BuildInv, ReportInv
  <1> QED BY <1>1, <1>2, <1>3, <1>4 DEF BuildInv, SupportInv
LEMMA BuildStays ==
  ASSUME BuildInv, UNCHANGED buildVars
  PROVE  BuildInv'
  <1>1. UNCHANGED <<step, project, references, paper, support, audit, compilation, store, report>>
    BY DEF buildVars
  <1>2. PaperInv' /\ ReportInv'
    BY <1>1, ClaimsStay, GroundedStays DEF BuildInv, PaperInv, ReportInv
  <1> QED BY <1>1, <1>2 DEF BuildInv, SupportInv, FigureInv

LEMMA BuildStep ==
  ASSUME BuildInv, BuildNext
  PROVE  BuildInv'
  BY BuildEvidenceStep, LiteratureStep, AssetsStep, AuthorStep, CitationSupportStep, AuditStep,
     CompileStep, BuildManifestStep, GateStep, BytesChangeStep DEF BuildNext

\* The invariant of the build, which the review of a paper does not touch.
THEOREM BuildInvariance == Spec => []BuildInv
  <1>1. Init => BuildInv
    BY InitBuildInv DEF Init
  <1>2. BuildInv /\ [Next]_<<buildVars, reviewVars>> => BuildInv'
    <2> SUFFICES ASSUME BuildInv, [Next]_<<buildVars, reviewVars>> PROVE BuildInv'
      OBVIOUS
    <2>1. CASE BuildNext
      BY <2>1, BuildStep
    <2>2. CASE UNCHANGED buildVars
      BY <2>2, BuildStays
    <2> QED BY <2>1, <2>2 DEF Next
  <1> QED BY <1>1, <1>2, PTL DEF Spec

\* Whatever the agents, the sources and the reviewers answer and whichever
\* bytes are damaged, a paper that is ready is grounded in what was computed.
THEOREM GroundedCorrectness == Spec => []ReadyPaperIsGrounded
  <1>1. BuildInv => ReadyPaperIsGrounded
    BY DEF BuildInv, ReportInv, ReadyPaperIsGrounded, Grounded
  <1> QED BY <1>1, BuildInvariance, PTL

-----------------------------------------------------------------------------
(* The rules of a profile.                                                   *)

LEMMA ImageIsFinite ==
  ASSUME NEW S, IsFiniteSet(S), NEW T, NEW F \in [S -> T], \A t \in T : \E s \in S : F[s] = t
  PROVE  IsFiniteSet(T)
  <1>1. PICK n \in Nat : ExistsSurjection(1 .. n, S)
    BY FS_NatSurjection
  <1>2. PICK G : G \in Surjection(1 .. n, S)
    BY <1>1, Fun_ExistsSurj
  <1>3. F \in Surjection(S, T)
    BY Fun_IsSurj
  <1>4. [i \in 1 .. n |-> F[G[i]]] \in Surjection(1 .. n, T)
    BY <1>2, <1>3, Fun_SurjTransitive
  <1>5. ExistsSurjection(1 .. n, T)
    BY <1>4, Fun_ExistsSurj
  <1> QED BY <1>5, FS_NatSurjection

LEMMA RegisteredLimits ==
  ASSUME NEW p \in Profile, ValidateCompetitionProfile(p),
         NEW limit \in PageLimits(p)
  PROVE  PageLimits(p) = {limit}
  <1> DEFINE ruled == { r \in p.rules : r.rule_type = "PAGE_LIMIT" }
             limits == { r.limit : r \in ruled }
  <1>1. IsFiniteSet(ruled)
    <2>1. IsFiniteSet(p.rules) /\ ruled \subseteq p.rules
      BY ProfileAssumption
    <2> HIDE DEF ruled
    <2> QED BY <2>1, FS_Subset
  <1>2. IsFiniteSet(limits)
    <2> DEFINE LimitOf == [r \in ruled |-> r.limit]
    <2>1. LimitOf \in [ruled -> limits] /\ \A t \in limits : \E r \in ruled : LimitOf[r] = t
      OBVIOUS
    <2> HIDE DEF ruled, limits, LimitOf
    <2> QED BY <1>1, <2>1, ImageIsFinite
  <1>3. IsFiniteSet(limits \cup {p.page_rules.max_pages})
    <2> HIDE DEF limits
    <2> QED BY <1>2, FS_AddElement
  <1>4. IsFiniteSet(PageLimits(p))
    <2>1. PageLimits(p) \subseteq limits \cup {p.page_rules.max_pages}
      BY DEF PageLimits
    <2> HIDE DEF limits
    <2> QED BY <1>3, <2>1, FS_Subset
  <1>5. Cardinality(PageLimits(p)) <= 1
    BY DEF ValidateCompetitionProfile
  <1>6. ASSUME NEW other \in PageLimits(p), other # limit PROVE FALSE
    <2>1. Cardinality({limit, other}) = 2
      <3>1. IsFiniteSet({limit}) /\ Cardinality({limit}) = 1 /\ other \notin {limit}
        BY <1>6, FS_Singleton
      <3>2. Cardinality({limit} \cup {other}) = 1 + 1
        BY <3>1, FS_AddElement
      <3>3. {limit, other} = {limit} \cup {other}
        OBVIOUS
      <3> QED BY <3>2, <3>3
    <2>2. Cardinality({limit, other}) <= Cardinality(PageLimits(p))
      BY <1>4, FS_Subset
    <2>3. Cardinality(PageLimits(p)) \in Nat
      BY <1>4, FS_CardinalityType
    <2> QED BY <1>5, <2>1, <2>2, <2>3
  <1> QED BY <1>6

LEMMA PageLimitObeyed ==
  ASSUME NEW p \in Profile, ValidateCompetitionProfile(p), NEW rule \in p.rules,
         rule.rule_type = "PAGE_LIMIT", PageLimit(rule, p) = "PASS"
  PROVE  PageLimits(p) # {} /\ \A limit \in PageLimits(p) : compilation.pages <= limit
  <1> DEFINE maximum == IF rule.limit = 0 THEN p.page_rules.max_pages ELSE rule.limit
  <1>1. maximum # 0 /\ compilation.pages <= maximum
    BY DEF PageLimit, Outcome
  <1>2. maximum \in PageLimits(p)
    BY <1>1 DEF PageLimits
  <1> HIDE DEF maximum
  <1> QED BY <1>1, <1>2, RegisteredLimits

LEMMA DeadlineObeyed ==
  ASSUME NEW p, NEW hours \in Int, Deadline(p, hours) = "PASS"
  PROVE  p.deadline /\ hours >= 0
  <1>1. DeadlineStatus(p, hours) \notin {"UNKNOWN", "EXPIRED"}
    BY DEF Deadline
  <1> QED BY <1>1 DEF DeadlineStatus

LEMMA DisclosureObeyed ==
  ASSUME NEW p \in Profile, AIDisclosure(p) = "PASS"
  PROVE  /\ p.ai_disclosure \notin {"UNKNOWN", "PROHIBITED"}
         /\ p.ai_disclosure = "NOT_APPLICABLE" \/ "disclosure" \in PaperText
  <1>1. p.ai_disclosure \in AIDisclosurePolicy
    BY ProfileAssumption
  <1> QED BY <1>1 DEF AIDisclosure, Outcome, AIDisclosurePolicy

LEMMA FilesObeyed ==
  ASSUME NEW p, NEW rule
  PROVE  /\ FileCount(rule) = "PASS" => Cardinality(Submitted) <= rule.limit
         /\ FileFormat(rule) = "PASS" =>
              /\ \E k \in Submitted : RoleOf[k] = rule.role
              /\ \A k \in Submitted : RoleOf[k] = rule.role => rule.terms = {DetectMime[k]}
         /\ Filename(rule, p) = "PASS" =>
              /\ \E k \in Submitted : RoleOf[k] = rule.role
              /\ \A k \in Submitted : RoleOf[k] = rule.role =>
                   /\ Stated(rule, {p.paper_filename}) \in {{"none"}, {NameOf[k]}}
                   /\ p.affixes \subseteq AffixesOf[k]
  <1> DEFINE files == { k \in Submitted : RoleOf[k] = rule.role }
  <1>1. ASSUME FileCount(rule) = "PASS" PROVE Cardinality(Submitted) <= rule.limit
    BY <1>1 DEF FileCount, Outcome
  <1>2. ASSUME FileFormat(rule) = "PASS"
        PROVE  /\ files # {} /\ \A k \in files : rule.terms = {DetectMime[k]}
    BY <1>2 DEF FileFormat, Outcome
  <1>3. ASSUME Filename(rule, p) = "PASS"
        PROVE  \E k \in files : /\ files = {k}
                                /\ Stated(rule, {p.paper_filename}) \in {{"none"}, {NameOf[k]}}
                                /\ p.affixes \subseteq AffixesOf[k]
    BY <1>3 DEF Filename, Outcome
  <1> QED BY <1>1, <1>2, <1>3

\* Of the rules that are looked at, one that passes is obeyed.
LEMMA PassIsObeyed ==
  ASSUME NEW p \in Profile, ValidateCompetitionProfile(p), NEW hours \in Int,
         NEW rule \in Blocking(p.rules), Handled(rule, p, hours) = "PASS"
  PROVE  Obeyed(rule, p, hours)
  <1> DEFINE type == rule.rule_type
  <1>0. rule \in p.rules /\ rule.severity = "BLOCKING"
    BY DEF Blocking
  <1>1. CASE type = "PAGE_LIMIT"
    BY <1>0, <1>1, PageLimitObeyed DEF Handled, Obeyed
  <1>2. CASE type \in {"FILE_FORMAT", "FILE_COUNT", "FILENAME"}
    BY <1>2, FilesObeyed DEF Handled, Obeyed
  <1>3. CASE type = "FILE_SIZE"
    <2>1. FileSize(rule, p) = "PASS"
      BY <1>3 DEF Handled
    <2> QED BY <1>3, <2>1 DEF FileSize, Outcome, Obeyed
  <1>4. CASE type = "ANONYMITY"
    <2>1. Anonymity(rule, p) = "PASS"
      BY <1>4 DEF Handled
    <2> QED BY <1>4, <2>1 DEF Anonymity, Outcome, Obeyed, Stated, IdentityFindings
  <1>5. CASE type = "REQUIRED_SECTION"
    <2>1. RequiredSection(rule, p) = "PASS"
      BY <1>5 DEF Handled
    <2> QED BY <1>5, <2>1 DEF RequiredSection, Outcome, Obeyed
  <1>6. CASE type = "PROHIBITED_CONTENT"
    <2>1. ProhibitedContent(rule) = "PASS"
      BY <1>6 DEF Handled
    <2> QED BY <1>6, <2>1 DEF ProhibitedContent, Outcome, Obeyed
  <1>7. CASE type \in {"CODE_SUBMISSION", "DATA_SUBMISSION"}
    <2>1. ContentPolicy(rule) = "PASS"
      BY <1>7 DEF Handled
    <2> QED BY <1>7, <2>1 DEF ContentPolicy, Outcome, Obeyed
  <1>8. CASE type = "AI_DISCLOSURE"
    BY <1>8, DisclosureObeyed DEF Handled, Obeyed
  <1>9. CASE type = "DEADLINE"
    BY <1>9, DeadlineObeyed DEF Handled, Obeyed
  <1>10. CASE type \notin {"PAGE_LIMIT", "FILE_FORMAT", "FILE_COUNT", "FILENAME", "FILE_SIZE",
                          "ANONYMITY", "REQUIRED_SECTION", "PROHIBITED_CONTENT",
                          "CODE_SUBMISSION", "DATA_SUBMISSION", "AI_DISCLOSURE", "DEADLINE"}
    <2>1. Handled(rule, p, hours) = "HUMAN_REVIEW"
      BY <1>0, <1>10 DEF Handled
    <2> QED BY <2>1
  <1> QED BY <1>1, <1>2, <1>3, <1>4, <1>5, <1>6, <1>7, <1>8, <1>9, <1>10

LEMMA HandledType ==
  ASSUME NEW rule, NEW p, NEW hours
  PROVE  Handled(rule, p, hours) \in {"PASS", "FAIL", "HUMAN_REVIEW", "NOT_EVALUABLE"}
  <1>1. /\ PageLimit(rule, p) \in {"PASS", "FAIL", "HUMAN_REVIEW", "NOT_EVALUABLE"}
        /\ FileSize(rule, p) \in {"PASS", "FAIL", "NOT_EVALUABLE"}
    BY DEF PageLimit, FileSize, Outcome
  <1>2. /\ FileFormat(rule) \in {"PASS", "FAIL"} /\ FileCount(rule) \in {"PASS", "FAIL"}
        /\ Filename(rule, p) \in {"PASS", "FAIL"} /\ Anonymity(rule, p) \in {"PASS", "FAIL"}
        /\ RequiredSection(rule, p) \in {"PASS", "FAIL"} /\ ProhibitedContent(rule) \in {"PASS", "FAIL"}
        /\ ContentPolicy(rule) \in {"PASS", "FAIL"}
    BY DEF FileFormat, FileCount, Filename, Anonymity, RequiredSection, ProhibitedContent,
           ContentPolicy, Outcome
  <1>3. /\ AIDisclosure(p) \in {"PASS", "FAIL", "HUMAN_REVIEW"}
        /\ Deadline(p, hours) \in {"PASS", "FAIL", "HUMAN_REVIEW"}
    BY DEF AIDisclosure, Deadline, Outcome
  <1> QED BY <1>1, <1>2, <1>3 DEF Handled
\* What a check that passes says of the results it was given.
LEMMA CheckPasses ==
  ASSUME NEW p, NEW results, NEW coverage, NEW jury,
         CheckStatus(p, results, coverage, jury) = "PASS"
  PROVE  /\ \A r \in results : r.rule.severity = "BLOCKING" =>
                r.status \notin {"FAIL", "HUMAN_REVIEW", "NOT_EVALUABLE"}
         /\ \A c \in coverage : c.status = "COVERED"
  <1> DEFINE issues == CheckIssues(p, results, coverage, jury)
             unsure == jury = "HUMAN_REVIEW" \/ Blocked(results, {"HUMAN_REVIEW", "NOT_EVALUABLE"})
             status == IF "BLOCKING" \in issues THEN "FAIL"
                       ELSE IF issues # {} THEN "WARNING" ELSE "PASS"
  <1>1. CheckStatus(p, results, coverage, jury) = CASE unsure -> "HUMAN_REVIEW" [] OTHER -> status
    BY Zenon DEF CheckStatus
  <1>2. ~unsure /\ status = "PASS"
    <2> HIDE DEF unsure, status
    <2> QED BY <1>1
  <1>3. issues = {}
    <2> HIDE DEF issues
    <2> QED BY <1>2
  <1>4. ASSUME NEW r \in results, r.status = "FAIL" PROVE FALSE
    <2>1. r.rule.severity \in issues
      BY <1>4 DEF CheckIssues
    <2> HIDE DEF issues
    <2> QED BY <1>3, <2>1
  <1>5. ASSUME NEW c \in coverage, c.status # "COVERED" PROVE FALSE
    <2>1. "BLOCKING" \in issues
      BY <1>5 DEF CheckIssues
    <2> HIDE DEF issues
    <2> QED BY <1>3, <2>1
  <1>6. ASSUME NEW r \in results, r.rule.severity = "BLOCKING"
        PROVE  r.status \notin {"HUMAN_REVIEW", "NOT_EVALUABLE"}
    BY <1>2, <1>6 DEF Blocked
  <1> QED BY <1>4, <1>5, <1>6

Believed == {"VERIFIED", "PARTIALLY_VERIFIED", "TEST_FIXTURE"}

\* Every blocking rule of a profile whose evaluation passes the check is
\* believed and obeyed.
LEMMA RulesObeyed ==
  ASSUME NEW p \in Profile, ValidateCompetitionProfile(p), NEW hours \in Int,
         NEW coverage, NEW jury, CheckStatus(p, Evaluate(p, hours), coverage, jury) = "PASS",
         NEW rule \in Blocking(p.rules)
  PROVE  /\ Obeyed(rule, p, hours)
         /\ {rule.verification_status, p.verification_status} \subseteq Believed
  <1>1. rule \in p.rules /\ rule.severity = "BLOCKING"
    BY DEF Blocking
  <1> DEFINE unproven == \/ rule.verification_status \in Unproven
                         \/ rule.severity = "BLOCKING" /\ p.verification_status \in Unproven
             result == EvaluateRule(rule, p, hours)
  <1>2. result.rule = rule /\ result \in Evaluate(p, hours)
    BY <1>1 DEF EvaluateRule, RuleResult, Evaluate
  <1>3. result.status \notin {"FAIL", "HUMAN_REVIEW", "NOT_EVALUABLE"}
    <2> HIDE DEF result
    <2> QED BY <1>1, <1>2, CheckPasses
  <1>4. result.status = IF unproven THEN "HUMAN_REVIEW" ELSE Handled(rule, p, hours)
    BY DEF EvaluateRule, RuleResult
  <1>5. ~unproven /\ Handled(rule, p, hours) = "PASS"
    <2> HIDE DEF unproven, result
    <2> QED BY <1>3, <1>4, HandledType
  <1>6. Obeyed(rule, p, hours)
    BY <1>5, PassIsObeyed
  <1>7. {rule.verification_status, p.verification_status} \subseteq ProfileVerificationStatus
    BY <1>1, ProfileAssumption
  <1> QED BY <1>1, <1>5, <1>6, <1>7 DEF Unproven, ProfileVerificationStatus, Believed

\* Only a deadline is judged by the hour.
LEMMA ObeyedLater ==
  ASSUME NEW rule, NEW p, NEW hours, NEW later, rule.rule_type # "DEADLINE", Obeyed(rule, p, hours)
  PROVE  Obeyed(rule, p, later)
  BY DEF Obeyed

-----------------------------------------------------------------------------
(* The package.                                                              *)

\* Each output the problem asks for is answered by a claim of the paper.
Answered ==
  \A q \in Requirements : \E r \in paper.subproblem_coverage :
    /\ r.subproblem_id = q.subproblem_id
    /\ \E c \in paper.claims :
         /\ q.required_output \in DOMAIN r.output_claim_refs
         /\ c.claim_id \in r.output_claim_refs[q.required_output]
         /\ c.evidence_refs # {}

\* A requirement that is covered is answered by a claim that counts.
LEMMA CoveredIsAnswered ==
  ASSUME \A c \in RequirementCoverage : c.status = "COVERED"
  PROVE  Answered
  <1> SUFFICES ASSUME NEW q \in Requirements
               PROVE  \E r \in paper.subproblem_coverage :
                        /\ r.subproblem_id = q.subproblem_id
                        /\ \E c \in paper.claims :
                             /\ q.required_output \in DOMAIN r.output_claim_refs
                             /\ c.claim_id \in r.output_claim_refs[q.required_output]
                             /\ c.evidence_refs # {}
    BY DEF Answered
  <1> DEFINE declared == { r \in paper.subproblem_coverage : r.subproblem_id = q.subproblem_id }
             answer == CHOOSE d \in declared : TRUE
             counts == /\ q.required_output \in answer.required_outputs
                       /\ ValidSections(answer, q.subproblem_id) # {}
                       /\ ValidClaims(answer, q) # {}
  <1>1. CoverageStatus(q) = "COVERED"
    <2>1. [requirement |-> q, status |-> CoverageStatus(q)] \in RequirementCoverage
      BY DEF RequirementCoverage
    <2> QED BY <2>1
  <1>2. CoverageStatus(q) =
          IF declared = {} THEN "MISSING"
          ELSE CASE counts -> "COVERED"
                 [] ValidSections(answer, q.subproblem_id) = {} -> "MISSING"
                 [] OTHER -> "PARTIAL"
    BY Zenon DEF CoverageStatus
  <1>3. declared # {} /\ counts
    <2>1. declared # {}
      <3> HIDE DEF counts, answer, declared
      <3> QED BY <1>1, <1>2
    <2>2. CASE ~counts
      <3> HIDE DEF counts, answer, declared
      <3> QED BY <1>1, <1>2, <2>1, <2>2
    <2> QED BY <2>1, <2>2
  <1>4. answer \in declared
    <2> HIDE DEF declared
    <2> QED BY <1>3
  <1> HIDE DEF answer
  <1>5. PICK c \in ValidClaims(answer, q) : TRUE
    BY <1>3
  <1>6. /\ c \in paper.claims /\ q.required_output \in DOMAIN answer.output_claim_refs
        /\ c.claim_id \in answer.output_claim_refs[q.required_output] /\ c.evidence_refs # {}
    BY <1>5 DEF ValidClaims
  <1> QED BY <1>4, <1>6

\* What the freeze makes sure of, and what nothing after it can change: the
\* paper, the profile and the bytes of the package.
Sealed ==
  /\ Answered
  /\ \A rule \in Blocking(profile.rules) :
       /\ rule.rule_type # "DEADLINE" => Obeyed(rule, profile, 0)
       /\ {rule.verification_status, profile.verification_status} \subseteq Believed
  /\ PaperText \cap {"local path", "secret", "mock indicator"} = {}
  /\ DOMAIN package.bytes = Submitted /\ \A k \in Submitted : package.bytes[k] = "stored"

\* A package is frozen as of an hour at which every deadline that blocks is met.
InTime ==
  \A rule \in Blocking(profile.rules) :
    rule.rule_type = "DEADLINE" => Obeyed(rule, profile, package.verified_at)

PackageInv ==
  /\ left \in Int
  /\ DOMAIN review = DOMAIN NoReview /\ DOMAIN package = DOMAIN NoPackage
  /\ review.phase # "none" =>
       profile \in Profile /\ step = "built" /\ report.status = "READY_FOR_FINAL_JURY"
  /\ review.phase = "frozen" => Sealed
  /\ package.status = "FROZEN" => review.phase = "frozen" /\ InTime

\* A package that is verified is in time.
LEMMA VerifiedInTime ==
  ASSUME NEW p, NEW hours \in Int, NEW bytes, NEW mock, Verify(p, hours, bytes, mock) = "FROZEN",
         NEW rule \in Blocking(p.rules), rule.rule_type = "DEADLINE"
  PROVE  Obeyed(rule, p, hours)
  <1>1. DeadlineStatus(p, hours) \notin {"EXPIRED", "UNKNOWN"}
    BY Zenon DEF Verify
  <1>2. p.deadline /\ hours >= 0
    BY <1>1 DEF DeadlineStatus
  <1> QED BY <1>2 DEF Obeyed

\* What has been looked at when a package is built.
LEMMA BuiltPackage ==
  ASSUME BuildPackage # NoPackage
  PROVE  /\ ValidateCompetitionProfile(profile) /\ ValidateSources(profile)
         /\ Verify(profile, left, [k \in Submitted |-> store[k]], review.mock) = "FROZEN"
         /\ BuildPackage = [ status |-> "FROZEN", bytes |-> [k \in Submitted |-> store[k]],
                             verified_at |-> left, mock |-> review.mock ]
  BY Zenon DEF BuildPackage

\* What was built stays what it is, with whatever happens to the files.
LEMMA BuiltStays ==
  ASSUME UNCHANGED <<project, paper, compilation>>
  PROVE  /\ \A rule, p, hours : Obeyed(rule, p, hours)' = Obeyed(rule, p, hours)
         /\ PaperText' = PaperText /\ Answered' = Answered
  <1>1. AllSections(paper)' = AllSections(paper) /\ Blocks(paper)' = Blocks(paper)
    OBVIOUS
  <1>2. PaperText' = PaperText /\ SectionTypes' = SectionTypes
    BY <1>1 DEF PaperText, SectionTypes
  <1>3. \A k : SizeOf(k)' = SizeOf(k)
    BY DEF SizeOf
  <1>4. Answered' = Answered
    BY DEF Answered, Requirements
  <1>5. ASSUME NEW rule, NEW p, NEW hours PROVE Obeyed(rule, p, hours)' = Obeyed(rule, p, hours)
    BY <1>2, <1>3, Zenon DEF Obeyed
  <1> QED BY <1>2, <1>4, <1>5

LEMMA SealedStays ==
  ASSUME Sealed, UNCHANGED <<project, paper, compilation, profile, package.bytes>>
  PROVE  Sealed'
  <1>1. /\ \A rule, p, hours : Obeyed(rule, p, hours)' = Obeyed(rule, p, hours)
        /\ PaperText' = PaperText /\ Answered' = Answered
    BY BuiltStays
  <1> QED BY <1>1 DEF Sealed

LEMMA InTimeStays ==
  ASSUME InTime, UNCHANGED <<project, paper, compilation, profile, package.verified_at>>
  PROVE  InTime'
  BY BuiltStays DEF InTime

LEMMA FreezeSeals ==
  ASSUME PackageInv, Freeze, UNCHANGED buildVars, review'.phase = "frozen"
  PROVE  /\ Sealed' /\ InTime'
         /\ DOMAIN package' = DOMAIN NoPackage
  <1>1. /\ UNCHANGED <<project, paper, compilation, profile, left>> /\ review.phase = "checked"
    BY DEF Freeze, buildVars
  <1>2. /\ CheckStatus(profile, review.rules, review.coverage, review.jury) = "PASS"
        /\ Evaluate(profile, left) = review.rules
        /\ RequirementCoverage = review.coverage
        /\ BuildPackage # NoPackage /\ package' = BuildPackage
    <2> DEFINE frozen == /\ review.jury = "PASS"
                         /\ CheckStatus(profile, review.rules, review.coverage, review.jury) = "PASS"
                         /\ Evaluate(profile, left) = review.rules
                         /\ RequirementCoverage = review.coverage
                         /\ BuildPackage # NoPackage
    <2>1. IF frozen THEN package' = BuildPackage /\ review' = [review EXCEPT !.phase = "frozen"]
          ELSE review' = [review EXCEPT !.phase = "refused"] /\ UNCHANGED package
      BY Zenon DEF Freeze
    <2>2. frozen
      <3> HIDE DEF frozen
      <3>1. "phase" \in DOMAIN review
        BY DEF PackageInv, NoReview
      <3> QED BY <2>1, <3>1
    <2> QED BY <2>1, <2>2
  <1> DEFINE built == [k \in Submitted |-> store[k]]
  <1>3. /\ ValidateCompetitionProfile(profile) /\ ValidateSources(profile)
        /\ Verify(profile, left, built, review.mock) = "FROZEN"
        /\ package' = [status |-> "FROZEN", bytes |-> built, verified_at |-> left, mock |-> review.mock]
    BY <1>2, BuiltPackage
  <1>4. profile \in Profile /\ left \in Int
    BY <1>1 DEF PackageInv
  <1>5. Answered
    BY <1>2, CheckPasses, CoveredIsAnswered
  <1>6. ASSUME NEW rule \in Blocking(profile.rules)
        PROVE  /\ Obeyed(rule, profile, left)
               /\ {rule.verification_status, profile.verification_status} \subseteq Believed
    BY <1>2, <1>3, <1>4, RulesObeyed
  <1>7. SecurityFindings = {} /\ \A k \in Submitted : store[k] = "stored"
    BY <1>3 DEF ValidateSources, Intact
  <1>8. DOMAIN package'.bytes = Submitted /\ \A k \in Submitted : package'.bytes[k] = "stored"
    BY <1>3, <1>7
  <1>9. /\ \A rule, p, hours : Obeyed(rule, p, hours)' = Obeyed(rule, p, hours)
        /\ PaperText' = PaperText /\ Answered' = Answered
    BY <1>1, BuiltStays
  <1>10. Sealed'
    <2>1. PaperText \cap {"local path", "secret", "mock indicator"} = {}
      BY <1>7 DEF SecurityFindings
    <2>2. ASSUME NEW rule \in Blocking(profile.rules), rule.rule_type # "DEADLINE"
          PROVE  Obeyed(rule, profile, 0)
      BY <1>6, <2>2, ObeyedLater
    <2> QED BY <1>1, <1>5, <1>6, <1>8, <1>9, <2>1, <2>2 DEF Sealed
  <1>11. InTime'
    BY <1>1, <1>3, <1>6, <1>9 DEF InTime
  <1>12. DOMAIN package' = DOMAIN NoPackage
    BY <1>3 DEF NoPackage
  <1> QED BY <1>10, <1>11, <1>12
LEMMA InitPackageInv ==
  ASSUME Init
  PROVE  PackageInv
  BY DEF Init, SubmissionInit, PackageInv, NoReview, NoPackage

\* A build that is over is only read; its files may still change.
LEMMA BuildIsOver ==
  ASSUME PackageInv, BuildNext, UNCHANGED reviewVars
  PROVE  PackageInv'
  <1>1. UNCHANGED <<profile, left, review, package>>
    BY DEF reviewVars
  <1>2. CASE review.phase = "none"
    BY <1>1, <1>2 DEF PackageInv
  <1>3. CASE review.phase # "none"
    <2>1. step = "built"
      BY <1>3 DEF PackageInv
    <2>2. BytesChange
      BY <2>1 DEF BuildNext, BuildEvidence, Literature, Assets, Author, CitationSupport, Audit,
                  Compile, BuildManifest, Gate
    <2>3. UNCHANGED <<step, project, paper, compilation, report>>
      BY <2>2 DEF BytesChange
    <2> QED BY <1>1, <2>3, SealedStays, InTimeStays DEF PackageInv
  <1> QED BY <1>2, <1>3

LEMMA FinalReviewStep ==
  ASSUME PackageInv, FinalReview, UNCHANGED buildVars
  PROVE  PackageInv'
  <1>1. /\ step = "built" /\ review.phase = "none" /\ report.status = "READY_FOR_FINAL_JURY"
        /\ UNCHANGED <<step, report, package>>
    BY DEF FinalReview, buildVars
  <1>2. PICK p \in Registered, hours \in Hours :
          /\ profile' = p /\ left' = IF p.deadline THEN hours ELSE 0
          /\ review' = IF Intact(DOMAIN store) /\ DOMAIN project.requirements # {}
                       THEN [NoReview EXCEPT !.phase = "jury", !.rules = Evaluate(p, hours),
                               !.coverage = RequirementCoverage]
                       ELSE [NoReview EXCEPT !.phase = "refused"]
    BY DEF FinalReview
  <1>3. profile' \in Profile /\ left' \in Int
    BY <1>2, HoursAssumption DEF Registered
  <1>4. DOMAIN review' = DOMAIN NoReview /\ review'.phase \in {"jury", "refused"}
    BY <1>2 DEF NoReview
  <1>5. package.status # "FROZEN"
    BY <1>1 DEF PackageInv
  <1> QED BY <1>1, <1>3, <1>4, <1>5 DEF PackageInv

LEMMA JuryAndCheckStep ==
  ASSUME PackageInv, JuryAndCheck, UNCHANGED buildVars
  PROVE  PackageInv'
  <1>1. review.phase = "jury" /\ UNCHANGED <<step, report, profile, left, package>>
    BY DEF JuryAndCheck, buildVars
  <1>2. DOMAIN review' = DOMAIN NoReview /\ review'.phase \in {"checked", "refused"}
    BY DEF JuryAndCheck, PackageInv, NoReview
  <1>3. package.status # "FROZEN"
    BY <1>1 DEF PackageInv
  <1> QED BY <1>1, <1>2, <1>3 DEF PackageInv

LEMMA FreezeStep ==
  ASSUME PackageInv, Freeze, UNCHANGED buildVars
  PROVE  PackageInv'
  <1>1. review.phase = "checked" /\ UNCHANGED <<step, report, profile, left>>
    BY DEF Freeze, buildVars
  <1>2. DOMAIN review' = DOMAIN NoReview /\ review'.phase \in {"frozen", "refused"}
    BY DEF Freeze, PackageInv, NoReview
  <1>3. CASE review'.phase = "frozen"
    BY <1>1, <1>2, <1>3, FreezeSeals DEF PackageInv
  <1>4. CASE review'.phase = "refused"
    <2>1. UNCHANGED package
      BY <1>4 DEF Freeze, PackageInv, NoReview
    <2>2. package.status # "FROZEN"
      BY <1>1 DEF PackageInv
    <2> QED BY <1>1, <1>2, <1>4, <2>1, <2>2 DEF PackageInv
  <1> QED BY <1>2, <1>3, <1>4

LEMMA VerifyPackageStep ==
  ASSUME PackageInv, VerifyPackage, UNCHANGED buildVars
  PROVE  PackageInv'
  <1> DEFINE verified == Verify(profile, left, package.bytes, package.mock)
  <1>1. /\ review.phase = "frozen"
        /\ package' = [package EXCEPT !.status = verified, !.verified_at = left]
        /\ UNCHANGED <<step, project, paper, compilation, report, profile, left, review>>
    BY DEF VerifyPackage, buildVars
  <1> HIDE DEF verified
  <1>2. /\ DOMAIN package' = DOMAIN NoPackage /\ package'.bytes = package.bytes
        /\ package'.status = verified /\ package'.verified_at = left
    BY <1>1 DEF PackageInv, NoPackage
  <1>3. Sealed'
    BY <1>1, <1>2, SealedStays DEF PackageInv
  <1>4. ASSUME verified = "FROZEN" PROVE InTime'
    <2>1. left \in Int
      BY DEF PackageInv
    <2>2. ASSUME NEW rule \in Blocking(profile.rules), rule.rule_type = "DEADLINE"
          PROVE  Obeyed(rule, profile, left)
      BY <1>4, <2>1, <2>2, VerifiedInTime DEF verified
    <2>3. \A rule, p, hours : Obeyed(rule, p, hours)' = Obeyed(rule, p, hours)
      BY <1>1, BuiltStays
    <2> QED BY <1>1, <1>2, <2>2, <2>3 DEF InTime
  <1> QED BY <1>1, <1>2, <1>3, <1>4 DEF PackageInv

LEMMA TimePassesStep ==
  ASSUME PackageInv, TimePasses, UNCHANGED buildVars
  PROVE  PackageInv'
  <1>1. /\ UNCHANGED <<step, project, paper, compilation, report, profile, review, package>>
        /\ left' \in Int
    BY HoursAssumption DEF TimePasses, buildVars
  <1> QED BY <1>1, SealedStays, InTimeStays DEF PackageInv

\* The invariant of the final run and of the package.
THEOREM PackageInvariance == Spec => []PackageInv
  <1>1. Init => PackageInv
    BY InitPackageInv
  <1>2. PackageInv /\ [Next]_<<buildVars, reviewVars>> => PackageInv'
    <2> SUFFICES ASSUME PackageInv, [Next]_<<buildVars, reviewVars>> PROVE PackageInv'
      OBVIOUS
    <2>1. CASE BuildNext /\ UNCHANGED reviewVars
      BY <2>1, BuildIsOver
    <2>2. CASE ReviewNext /\ UNCHANGED buildVars
      BY <2>2, FinalReviewStep, JuryAndCheckStep, FreezeStep, VerifyPackageStep, TimePassesStep
         DEF ReviewNext
    <2>3. CASE UNCHANGED <<buildVars, reviewVars>>
      <3>1. UNCHANGED <<step, project, paper, compilation, report, profile, left, review, package>>
        BY <2>3 DEF buildVars, reviewVars
      <3> QED BY <3>1, SealedStays, InTimeStays DEF PackageInv
    <2> QED BY <2>1, <2>2, <2>3 DEF Next
  <1> QED BY <1>1, <1>2, PTL DEF Spec

\* A package that counts as frozen is compliant, for every profile, whatever
\* the jury says, the files and the clock do.
THEOREM ComplianceCorrectness == Spec => []FrozenPackageIsCompliant
  <1>1. BuildInv /\ PackageInv => FrozenPackageIsCompliant
    <2> SUFFICES ASSUME BuildInv, PackageInv, package.status = "FROZEN"
                 PROVE  FrozenPackageIsCompliant
      BY DEF FrozenPackageIsCompliant
    <2>1. /\ Sealed /\ InTime /\ Grounded /\ step = "built"
      BY DEF PackageInv, BuildInv, ReportInv
    <2>2. ASSUME NEW q \in Requirements
          PROVE  \E r \in paper.subproblem_coverage :
                   /\ r.subproblem_id = q.subproblem_id
                   /\ \E c \in paper.claims :
                        /\ q.required_output \in DOMAIN r.output_claim_refs
                        /\ c.claim_id \in r.output_claim_refs[q.required_output]
                        /\ c.importance \in Material => c.claim_id \in ClaimsShown(paper)
                        /\ ShowsMeasured(c)
                        /\ c.evidence_refs \cap { e.evidence_id : e \in Evidence } # {}
      <3>1. PICK r \in paper.subproblem_coverage :
              /\ r.subproblem_id = q.subproblem_id
              /\ \E c \in paper.claims :
                   /\ q.required_output \in DOMAIN r.output_claim_refs
                   /\ c.claim_id \in r.output_claim_refs[q.required_output]
                   /\ c.evidence_refs # {}
        BY <2>1 DEF Sealed, Answered
      <3>2. PICK c \in paper.claims :
              /\ q.required_output \in DOMAIN r.output_claim_refs
              /\ c.claim_id \in r.output_claim_refs[q.required_output]
              /\ c.evidence_refs # {}
        BY <3>1
      <3>3. c.evidence_refs \subseteq { e.evidence_id : e \in Evidence }
        BY <2>1 DEF BuildInv, PaperInv, WellFormed, EvidenceIds
      <3>4. ShowsMeasured(c) /\ (c.importance \in Material => c.claim_id \in ClaimsShown(paper))
        BY <2>1 DEF Grounded
      <3> QED BY <3>1, <3>2, <3>3, <3>4
    <2>3. ASSUME NEW rule \in Blocking(profile.rules)
          PROVE  /\ Obeyed(rule, profile, package.verified_at)
                 /\ {rule.verification_status, profile.verification_status} \subseteq Believed
      BY <2>1, ObeyedLater DEF Sealed, InTime
    <2>4. compilation.figure = "stored"
      BY <2>1 DEF Grounded
    <2> QED BY <2>1, <2>2, <2>3, <2>4, Zenon DEF FrozenPackageIsCompliant, Sealed, Believed
  <1> QED BY <1>1, BuildInvariance, PackageInvariance, PTL
==================================================
