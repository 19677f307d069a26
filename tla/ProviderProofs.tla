----------------------------- MODULE ProviderProofs -----------------------------
(***************************************************************************)
(* Providers and the agents that call them.  First ModelExecution for any  *)
(* number of models, probes, attempts and settings; its invariant comes in *)
(* three layers: the types, what a probe has seen when it is about to      *)
(* store a pass, and what an attempt has seen since its guard began.  Then *)
(* ProviderCredentials for any number of requests and secrets, and at last *)
(* AgentRun for any number of runs and retries.                            *)
(***************************************************************************)
EXTENDS ModelExecution, ProviderCredentials, AgentRun, TLAPS

\* The initial local states have their types.
LEMMA InitialTypes ==
  /\ SomeModel \in Model /\ SomePair \in Pair
  /\ NoResult \in ProbeResult /\ IdleProber \in ProberState
  /\ IdleCaller \in CallerState /\ NothingHeld \in HeldState
  <1>1. SomeModel \in Model
    BY ModelAssumption DEF SomeModel
  <1>2. PICK e \in Endpoint, f \in Profile : TRUE
    BY EndpointAssumption, ProfileAssumption
  <1>3. [settings |-> e, enabled |-> TRUE] \in ProviderIdentity
    BY DEF ProviderIdentity
  <1>4. [settings |-> f, enabled |-> TRUE] \in ModelIdentity
    BY DEF ModelIdentity
  <1>5. \E pair : pair \in Pair
    <2>1. [provider |-> [settings |-> e, enabled |-> TRUE],
           profile |-> [settings |-> f, enabled |-> TRUE]] \in Pair
      BY <1>3, <1>4 DEF Pair
    <2> QED BY <2>1
  <1>6. SomePair \in Pair
    BY <1>5 DEF SomePair
  <1>7. NoResult \in ProbeResult
    BY <1>1, <1>6 DEF NoResult, ProbeResult, Authentication
  <1>8. IdleProber \in ProberState
    BY <1>6, <1>7 DEF IdleProber, ProberState, ProbePhase
  <1>9. IdleCaller \in CallerState
    BY <1>1, <1>6 DEF IdleCaller, CallerState, CallPhase
  <1>10. NothingHeld \in HeldState
    BY DEF NothingHeld, HeldState
  <1> QED BY <1>1, <1>6, <1>7, <1>8, <1>9, <1>10

\* The health of a row is a health, and never READY.
LEMMA HealthOfType ==
  ASSUME NEW identity \in ProviderIdentity
  PROVE  HealthOf(identity) \in Health \ {"READY"}
  BY DEF HealthOf, Health

-----------------------------------------------------------------------------
\* The types

\* What ProbeStep and Conclude do to the local state of a probe.
ProbeMoves(p, k, allowed, next, auth) ==
  \E x \in ProberState :
    /\ probers' = [probers EXCEPT ![p] = x]
    /\ x.result.model = k.result.model /\ x.result.digests = k.result.digests
    /\ \/ allowed /\ x.phase = next
       \/ x.phase = "record" /\ x.result.auth = auth

\* A result is stamped within the bound.
LEMMA ConcludeMoves ==
  ASSUME TypeOK, NEW p \in Prober, NEW k \in ProberState, NEW auth \in Authentication,
         Conclude(p, k, auth)
  PROVE  /\ stamps' \in 0..MaxProbes
         /\ \E x \in ProberState :
              /\ probers' = [probers EXCEPT ![p] = x]
              /\ x.result.model = k.result.model /\ x.result.digests = k.result.digests
              /\ x.phase = "record" /\ x.result.auth = auth
  <1> DEFINE x == [k EXCEPT !.phase = "record", !.result.auth = auth,
                            !.result.at = stamps + 1]
  <1>1. stamps \in Nat /\ stamps + 1 \in Nat /\ stamps' \in 0..MaxProbes
    BY BoundsAssumption DEF Conclude, TypeOK
  <1>2. k.result \in ProbeResult
    BY DEF ProberState
  <1>3. [k.result EXCEPT !.auth = auth, !.at = stamps + 1] \in ProbeResult
    BY <1>1, <1>2 DEF ProbeResult
  <1>4. x \in ProberState
    BY <1>3 DEF ProberState, ProbePhase
  <1>5. /\ x.result.model = k.result.model /\ x.result.digests = k.result.digests
        /\ x.phase = "record" /\ x.result.auth = auth
    BY <1>2 DEF ProberState, ProbeResult
  <1>6. probers' = [probers EXCEPT ![p] = x]
    BY DEF Conclude, ProbeGoes
  <1> HIDE DEF x
  <1> QED BY <1>1, <1>4, <1>5, <1>6

\* A step of a probe goes on or concludes.
LEMMA ProbeStepMoves ==
  ASSUME TypeOK, NEW p \in Prober, NEW k \in ProberState, NEW allowed \in BOOLEAN,
         NEW next \in ProbePhase, NEW auth \in Authentication,
         ProbeStep(p, k, allowed, next, auth)
  PROVE  /\ stamps' \in 0..MaxProbes
         /\ ProbeMoves(p, k, allowed, next, auth)
         /\ Reading /\ UNCHANGED callers
  <1>1. CASE allowed
    <2> DEFINE x == [k EXCEPT !.phase = next]
    <2>1. x \in ProberState /\ x.phase = next /\ x.result = k.result
      BY DEF ProberState
    <2>2. probers' = [probers EXCEPT ![p] = x] /\ stamps' = stamps
      BY <1>1 DEF ProbeStep, ProbeGoes
    <2> HIDE DEF x
    <2>3. Reading /\ UNCHANGED callers
      BY DEF ProbeStep
    <2> QED BY <1>1, <2>1, <2>2, <2>3 DEF ProbeMoves, TypeOK
  <1>2. CASE ~allowed
    <2>1. Conclude(p, k, auth) /\ Reading /\ UNCHANGED callers
      BY <1>2 DEF ProbeStep
    <2> QED BY <2>1, ConcludeMoves DEF ProbeMoves
  <1> QED BY <1>1, <1>2

\* Any move of a probe that reads the tables keeps the types.
LEMMA ProbeMovesType ==
  ASSUME TypeOK, NEW p \in Prober, NEW x \in ProberState,
         probers' = [probers EXCEPT ![p] = x], stamps' \in 0..MaxProbes,
         Reading, UNCHANGED callers
  PROVE  TypeOK'
  BY DEF TypeOK, Reading, rows

\* A probe that has read an enabled provider and model, or is about to store a
\* pass, is bound to the digests of enabled ones.
Told(x) ==
  \/ x.phase \in {"credential", "bind model", "bind endpoint", "bind credential", "contact"}
  \/ x.phase = "record" /\ x.result.auth = "PASS"
  => Enabled(x.result.digests)

ProbersInv == \A p \in Prober : Told(probers[p])

\* Every step of a probe except the last one only reads the tables.
ProbeReads(p) ==
  \E x \in ProberState :
    /\ probers' = [probers EXCEPT ![p] = x] /\ Told(x)
    /\ stamps' \in 0..MaxProbes /\ Reading /\ UNCHANGED callers

LEMMA MovesRead ==
  ASSUME TypeOK, NEW p \in Prober, NEW k \in ProberState, NEW allowed \in BOOLEAN,
         NEW next \in ProbePhase, NEW auth \in Authentication \ {"PASS"},
         ProbeStep(p, k, allowed, next, auth),
         allowed => Enabled(k.result.digests), next # "record"
  PROVE  ProbeReads(p)
  <1>1. /\ stamps' \in 0..MaxProbes /\ Reading /\ UNCHANGED callers
        /\ ProbeMoves(p, k, allowed, next, auth)
    BY ProbeStepMoves
  <1> QED BY <1>1 DEF ProbeMoves, ProbeReads, Told

LEMMA ReadingProbes ==
  ASSUME TypeOK, ProbersInv, NEW p \in Prober,
         \/ \E m \in Model : ProbeModel(p, m)
         \/ ProbeEndpoint(p) \/ ProbeCredential(p) \/ ProbeBindModel(p)
         \/ ProbeBindEndpoint(p) \/ ProbeBindCredential(p) \/ ProbeContact(p)
         \/ ProbeRefused(p)
  PROVE  ProbeReads(p)
  <1> USE DEF ProbePhase, Authentication
  <1>1. /\ probers[p] \in ProberState /\ Told(probers[p])
        /\ provider \in ProviderIdentity /\ stamps \in 0..MaxProbes
        /\ profiles \in [Model -> ModelIdentity]
    BY DEF TypeOK, ProbersInv
  <1>2. /\ probers[p].result \in ProbeResult /\ probers[p].used \in Pair
        /\ probers[p].result.model \in Model /\ probers[p].result.digests \in Pair
    BY <1>1 DEF ProberState, ProbeResult
  <1>3. ASSUME NEW m \in Model, ProbeModel(p, m) PROVE ProbeReads(p)
    <2> DEFINE x == [IdleProber EXCEPT !.phase = "endpoint", !.result.model = m,
                                       !.result.digests.profile = profiles[m]]
    <2> DEFINE a == [IdleProber EXCEPT !.phase = "endpoint", !.result.model = m]
    <2>1. IdleProber \in ProberState /\ IdleProber.result \in ProbeResult
      BY InitialTypes DEF ProberState
    <2>2. [IdleProber.result EXCEPT !.model = m] \in ProbeResult
      BY <2>1 DEF ProbeResult
    <2>3. a \in ProberState /\ a.phase = "endpoint"
      BY <2>1, <2>2 DEF ProberState
    <2> HIDE DEF a
    <2>4. a.result \in ProbeResult /\ a.result.digests \in Pair /\ profiles[m] \in ModelIdentity
      BY <1>1, <2>3 DEF ProberState, ProbeResult
    <2>5. [a.result.digests EXCEPT !.profile = profiles[m]] \in Pair
      BY <2>4 DEF Pair
    <2>6. [a.result EXCEPT !.digests = [a.result.digests EXCEPT !.profile = profiles[m]]]
            \in ProbeResult
      BY <2>4, <2>5 DEF ProbeResult
    <2>7. [a EXCEPT !.result.digests.profile = profiles[m]] \in ProberState
      BY <2>3, <2>6 DEF ProberState
    <2>8. x = [a EXCEPT !.result.digests.profile = profiles[m]]
      BY DEF a
    <2>9. x.phase = "endpoint"
      BY <2>3, <2>8 DEF ProberState
    <2>10. probers' = [probers EXCEPT ![p] = x] /\ Reading /\ UNCHANGED <<stamps, callers>>
      BY <1>3 DEF ProbeModel, ProbeGoes
    <2> HIDE DEF x
    <2> QED BY <1>1, <2>7, <2>8, <2>9, <2>10 DEF ProbeReads, Told
  <1>4. CASE ProbeEndpoint(p)
    <2> DEFINE k == [probers[p] EXCEPT !.result.digests.provider = provider]
    <2>1. [probers[p].result.digests EXCEPT !.provider = provider] \in Pair
      BY <1>1, <1>2 DEF Pair
    <2>2. [probers[p].result EXCEPT !.digests =
             [probers[p].result.digests EXCEPT !.provider = provider]] \in ProbeResult
      BY <1>2, <2>1 DEF ProbeResult
    <2>3. k \in ProberState
      BY <1>1, <2>2 DEF ProberState
    <2>4. ProbeStep(p, k, Enabled(k.result.digests), "credential", "UNAVAILABLE")
      BY <1>4 DEF ProbeEndpoint
    <2>5. k.result.digests \in Pair
      BY <2>3 DEF ProberState, ProbeResult
    <2>6. Enabled(k.result.digests) \in BOOLEAN
      BY <2>5 DEF Enabled, Pair, ProviderIdentity, ModelIdentity
    <2> HIDE DEF k
    <2> QED BY <2>3, <2>4, <2>6, MovesRead
  <1>5. CASE ProbeCredential(p)
    <2>1. Enabled(probers[p].result.digests)
      BY <1>1, <1>5 DEF ProbeCredential, ProbeIn, Told
    <2>2. HasCredential(provider) \in BOOLEAN
      BY DEF HasCredential
    <2>3. ProbeStep(p, probers[p], HasCredential(provider), "bind model", "NOT_CONFIGURED")
      BY <1>5 DEF ProbeCredential
    <2> QED BY <1>1, <2>1, <2>2, <2>3, MovesRead
  <1>6. CASE ProbeBindModel(p)
    <2> DEFINE k == [probers[p] EXCEPT !.used.profile = profiles[probers[p].result.model]]
    <2>1. [probers[p].used EXCEPT !.profile = profiles[probers[p].result.model]] \in Pair
      BY <1>1, <1>2 DEF Pair
    <2>2. k \in ProberState /\ k.result = probers[p].result
      BY <1>1, <2>1 DEF ProberState
    <2>3. Enabled(k.result.digests)
      BY <1>1, <1>6, <2>2 DEF ProbeBindModel, ProbeIn, Told
    <2>4. ProbeStep(p, k, TRUE, "bind endpoint", "UNAVAILABLE")
      BY <1>6 DEF ProbeBindModel
    <2> HIDE DEF k
    <2> QED BY <2>2, <2>3, <2>4, MovesRead
  <1>7. CASE ProbeBindEndpoint(p)
    <2> DEFINE k == [probers[p] EXCEPT !.used.provider = provider]
    <2>1. [probers[p].used EXCEPT !.provider = provider] \in Pair
      BY <1>1, <1>2 DEF Pair
    <2>2. k \in ProberState /\ k.result = probers[p].result
      BY <1>1, <2>1 DEF ProberState
    <2>3. Enabled(k.result.digests)
      BY <1>1, <1>7, <2>2 DEF ProbeBindEndpoint, ProbeIn, Told
    <2>4. Enabled(k.used) \in BOOLEAN
      BY <2>2 DEF Enabled, ProberState, Pair, ProviderIdentity, ModelIdentity
    <2>5. ProbeStep(p, k, Enabled(k.used), "bind credential", "UNAVAILABLE")
      BY <1>7 DEF ProbeBindEndpoint
    <2> HIDE DEF k
    <2> QED BY <2>2, <2>3, <2>4, <2>5, MovesRead
  <1>8. CASE ProbeBindCredential(p)
    <2> DEFINE allowed == HasCredential(provider) /\ HasCredential(probers[p].used.provider)
    <2>1. Enabled(probers[p].result.digests)
      BY <1>1, <1>8 DEF ProbeBindCredential, ProbeIn, Told
    <2>2. ProbeStep(p, probers[p], allowed, "contact", "UNAVAILABLE") /\ allowed \in BOOLEAN
      BY <1>8 DEF ProbeBindCredential, HasCredential
    <2> HIDE DEF allowed
    <2> QED BY <1>1, <2>1, <2>2, MovesRead
  <1>9. CASE ProbeContact(p)
    <2>1. PICK auth \in {"PASS", "AUTH_FAILED", "UNAVAILABLE"} : Conclude(p, probers[p], auth)
      BY <1>9 DEF ProbeContact
    <2>2. Enabled(probers[p].result.digests) /\ Reading /\ UNCHANGED callers
      BY <1>1, <1>9 DEF ProbeContact, ProbeIn, Told
    <2>3. auth \in Authentication
      OBVIOUS
    <2>4. PICK x \in ProberState :
            /\ probers' = [probers EXCEPT ![p] = x]
            /\ x.result.digests = probers[p].result.digests /\ x.phase = "record"
      BY <1>1, <2>1, <2>3, ConcludeMoves
    <2>5. Told(x)
      BY <2>2, <2>4 DEF Told
    <2>6. stamps' \in 0..MaxProbes
      BY <1>1, <2>1, <2>3, ConcludeMoves
    <2> QED BY <2>2, <2>4, <2>5, <2>6 DEF ProbeReads
  <1>10. CASE ProbeRefused(p)
    <2>1. probers' = [probers EXCEPT ![p] = IdleProber] /\ Reading
          /\ UNCHANGED <<stamps, callers>>
      BY <1>10 DEF ProbeRefused, ProbeGoes
    <2> QED BY <1>1, <2>1, InitialTypes DEF ProbeReads, Told, IdleProber
  <1> QED BY <1>3, <1>4, <1>5, <1>6, <1>7, <1>8, <1>9, <1>10
-----------------------------------------------------------------------------
\* Attempts

HasProbe(x) == x.probe \in (IF x.purpose = "route" THEN {0} ELSE DOMAIN evidence)

\* What an attempt knows at each point of its guard, of what the database held
\* since the guard began.
Guarded(x, h) ==
  /\ x.phase = "send" => x.purpose = "guard"
  /\ x.purpose = "guard" =>
       /\ provider \in h.provider /\ profiles[x.model] \in h.profile
       /\ h.results <= Len(evidence)
       /\ x.phase # "endpoint" => x.digests.provider \in h.provider
       /\ x.phase \notin {"endpoint", "model"} => x.digests.profile \in h.profile
       /\ x.phase \in {"evidence provider", "evidence", "send"} => x.seen.profile \in h.profile
       /\ x.phase \in {"evidence", "send"} => x.seen.provider \in h.provider
       /\ x.phase = "send" =>
            /\ evidence[x.probe].model = x.model /\ evidence[x.probe].digests = x.seen
            /\ \A i \in 1..h.results :
                 evidence[i].model = x.model /\ evidence[i].digests = x.seen
                   => evidence[i].at <= evidence[x.probe].at

CallersInv == \A c \in Caller : Guarded(callers[c], held[c])

\* A step of an attempt moves it on or ends it.
LEMMA StepMoves ==
  ASSUME TypeOK, NEW c \in Caller, NEW k \in CallerState, NEW allowed \in BOOLEAN,
         NEW next \in CallPhase, HasProbe(k), Step(c, k, allowed, next)
  PROVE  /\ TypeOK' /\ Unwritten
         /\ \A d \in Caller : d # c => callers'[d] = callers[d] /\ held'[d] = held[d]
         /\ \/ allowed /\ callers'[c] = [k EXCEPT !.phase = next] /\ held'[c] = held[c]
            \/ ~allowed /\ callers'[c] = IdleCaller /\ held'[c] = NothingHeld
  <1>1. callers \in [Caller -> CallerState] /\ held \in [Caller -> HeldState] /\ Unwritten
    BY DEF TypeOK, Step
  <1>2. CASE allowed
    <2> DEFINE x == [k EXCEPT !.phase = next]
    <2>1. x \in CallerState /\ HasProbe(x)
      BY DEF CallerState, HasProbe
    <2>2. callers' = [callers EXCEPT ![c] = x] /\ held' = held
      BY <1>2 DEF Step, Become
    <2> HIDE DEF x
    <2>3. TypeOK'
      BY <1>1, <2>1, <2>2 DEF TypeOK, HasProbe, Unwritten, rows
    <2> QED BY <1>1, <1>2, <2>1, <2>2, <2>3 DEF x
  <1>3. CASE ~allowed
    <2>1. callers' = [callers EXCEPT ![c] = IdleCaller]
          /\ held' = [held EXCEPT ![c] = NothingHeld]
      BY <1>3 DEF Step, Become
    <2>2. IdleCaller \in CallerState /\ NothingHeld \in HeldState /\ HasProbe(IdleCaller)
      BY InitialTypes DEF IdleCaller, HasProbe
    <2>3. TypeOK'
      BY <1>1, <2>1, <2>2 DEF TypeOK, HasProbe, Unwritten, rows
    <2> QED BY <1>1, <1>3, <2>1, <2>2, <2>3
  <1> QED BY <1>2, <1>3

\* An idle attempt is not guarded.
LEMMA IdleGuarded == ASSUME NEW h PROVE Guarded(IdleCaller, h)
  BY DEF Guarded, IdleCaller

\* Such a step keeps the invariants of all attempts if it keeps its own.
LEMMA StepKeeps ==
  ASSUME TypeOK, CallersInv, NEW c \in Caller, NEW k \in CallerState,
         NEW allowed \in BOOLEAN, NEW next \in CallPhase, HasProbe(k),
         Step(c, k, allowed, next),
         allowed => Guarded([k EXCEPT !.phase = next], held[c])
  PROVE  TypeOK' /\ Unwritten /\ CallersInv'
  <1>1. /\ TypeOK' /\ Unwritten
        /\ \A d \in Caller : d # c => callers'[d] = callers[d] /\ held'[d] = held[d]
        /\ \/ allowed /\ callers'[c] = [k EXCEPT !.phase = next] /\ held'[c] = held[c]
           \/ ~allowed /\ callers'[c] = IdleCaller /\ held'[c] = NothingHeld
    BY StepMoves
  <1>2. provider' = provider /\ profiles' = profiles /\ evidence' = evidence
    BY <1>1 DEF Unwritten, rows
  <1>3. \A d \in Caller : Guarded(callers'[d], held'[d])
    BY <1>1, IdleGuarded DEF CallersInv
  <1>4. ASSUME NEW d \in Caller PROVE Guarded(callers[d], held[d])'
    BY <1>2, <1>3 DEF Guarded
  <1> QED BY <1>1, <1>4 DEF CallersInv

\* The probes an attempt finds are those of the model and the rows it has read.
LEMMA FoundIsCurrent ==
  ASSUME NEW c \in Caller, NEW i \in Found(c)
  PROVE  /\ i \in DOMAIN evidence /\ evidence[i].model = callers[c].model
         /\ evidence[i].digests = callers[c].seen
         /\ \A j \in DOMAIN evidence :
              evidence[j].model = callers[c].model /\ evidence[j].digests = callers[c].seen
                => evidence[j].at <= evidence[i].at
  BY DEF Found, LatestProbe

\* Every step of an attempt keeps the types and what attempts know.
LEMMA CallingSteps ==
  ASSUME TypeOK, CallersInv, NEW c \in Caller, Calling(c)
  PROVE  TypeOK' /\ CallersInv' /\ Unwritten
  <1> USE DEF CallPhase
  <1> DEFINE x == callers[c]
  <1>1. /\ x \in CallerState /\ HasProbe(x) /\ Guarded(x, held[c])
        /\ provider \in ProviderIdentity /\ profiles \in [Model -> ModelIdentity]
    BY DEF TypeOK, CallersInv, HasProbe
  <1>2. x.model \in Model /\ x.digests \in Pair /\ x.seen \in Pair
    BY <1>1 DEF CallerState
  <1>3. provider.enabled \in BOOLEAN /\ \A m \in Model : profiles[m].enabled \in BOOLEAN
    BY <1>1 DEF ProviderIdentity, ModelIdentity
  <1>4. ASSUME NEW m \in Model, Route(c, m) PROVE TypeOK' /\ CallersInv' /\ Unwritten
    <2> DEFINE k == [IdleCaller EXCEPT !.model = m, !.digests.profile = profiles[m]]
    <2>1. IdleCaller \in CallerState /\ IdleCaller.digests \in Pair
          /\ IdleCaller.probe = 0 /\ IdleCaller.purpose = "route"
      BY InitialTypes DEF IdleCaller
    <2>2. [IdleCaller.digests EXCEPT !.profile = profiles[m]] \in Pair
      BY <1>1, <2>1 DEF Pair
    <2>3. k \in CallerState /\ k.purpose = "route" /\ k.probe = 0
      BY <2>1, <2>2 DEF CallerState
    <2>4. Step(c, k, profiles[m].enabled, "endpoint")
      BY <1>4 DEF Route
    <2> HIDE DEF k
    <2>5. HasProbe(k) /\ Guarded([k EXCEPT !.phase = "endpoint"], held[c])
      BY <2>3 DEF HasProbe, Guarded, CallerState
    <2> QED BY <1>3, <2>3, <2>4, <2>5, StepKeeps
  <1>5. CASE RouteEndpoint(c)
    <2> DEFINE k == [x EXCEPT !.digests.provider = provider]
               allowed == provider.enabled /\ health = "READY"
    <2>1. [x.digests EXCEPT !.provider = provider] \in Pair
      BY <1>1, <1>2 DEF Pair
    <2>2. k \in CallerState /\ k.purpose = "route" /\ k.probe = x.probe
      BY <1>1, <1>5, <2>1 DEF CallerState, RouteEndpoint
    <2>3. Step(c, k, allowed, "credential") /\ allowed \in BOOLEAN
      BY <1>5 DEF RouteEndpoint
    <2>4. x.purpose = "route"
      BY <1>5 DEF RouteEndpoint
    <2> HIDE DEF k, allowed
    <2>5. HasProbe(k) /\ Guarded([k EXCEPT !.phase = "credential"], held[c])
      BY <1>1, <2>2, <2>4 DEF HasProbe, Guarded, CallerState
    <2> QED BY <2>2, <2>3, <2>5, StepKeeps
  <1>6. CASE CheckEndpoint(c)
    <2> DEFINE allowed == provider = x.digests.provider /\ provider.enabled /\ health = "READY"
    <2>1. Step(c, x, allowed, "model") /\ allowed \in BOOLEAN /\ In(c, "endpoint")
      BY <1>6 DEF CheckEndpoint
    <2>2. allowed => Guarded([x EXCEPT !.phase = "model"], held[c])
      BY <1>1, <2>1 DEF Guarded, CallerState, In
    <2> HIDE DEF allowed
    <2> QED BY <1>1, <2>1, <2>2, StepKeeps
  <1>7. CASE CheckModel(c)
    <2> DEFINE allowed == profiles[x.model] = x.digests.profile /\ profiles[x.model].enabled
    <2>1. Step(c, x, allowed, "credential") /\ allowed \in BOOLEAN /\ In(c, "model")
      BY <1>7 DEF CheckModel
    <2>2. allowed => Guarded([x EXCEPT !.phase = "credential"], held[c])
      BY <1>1, <2>1 DEF Guarded, CallerState, In
    <2> HIDE DEF allowed
    <2> QED BY <1>1, <2>1, <2>2, StepKeeps
  <1>8. CASE ReadCredential(c)
    <2>1. Step(c, x, HasCredential(provider), "evidence model")
          /\ HasCredential(provider) \in BOOLEAN /\ In(c, "credential")
      BY <1>8 DEF ReadCredential, HasCredential
    <2>2. Guarded([x EXCEPT !.phase = "evidence model"], held[c])
      BY <1>1, <2>1 DEF Guarded, CallerState, In
    <2> QED BY <1>1, <2>1, <2>2, StepKeeps
  <1>9. CASE ReadEvidenceModel(c)
    <2> DEFINE k == [x EXCEPT !.seen.profile = profiles[x.model]]
    <2>1. [x.seen EXCEPT !.profile = profiles[x.model]] \in Pair
      BY <1>1, <1>2 DEF Pair
    <2>2. k \in CallerState /\ HasProbe(k)
      BY <1>1, <2>1 DEF CallerState, HasProbe
    <2>3. Step(c, k, TRUE, "evidence provider") /\ In(c, "evidence model")
      BY <1>9 DEF ReadEvidenceModel
    <2>4. /\ k.purpose = x.purpose /\ k.digests = x.digests /\ k.model = x.model
          /\ k.seen.profile = profiles[x.model]
      BY <1>1, <1>2 DEF CallerState, Pair
    <2> HIDE DEF k
    <2>5. Guarded([k EXCEPT !.phase = "evidence provider"], held[c])
      BY <1>1, <2>2, <2>3, <2>4 DEF Guarded, CallerState, In
    <2> QED BY <2>2, <2>3, <2>5, StepKeeps
  <1>10. CASE ReadEvidenceProvider(c)
    <2> DEFINE k == [x EXCEPT !.seen.provider = provider]
    <2>1. [x.seen EXCEPT !.provider = provider] \in Pair
      BY <1>1, <1>2 DEF Pair
    <2>2. k \in CallerState /\ HasProbe(k)
      BY <1>1, <2>1 DEF CallerState, HasProbe
    <2>3. Step(c, k, TRUE, "evidence") /\ In(c, "evidence provider")
      BY <1>10 DEF ReadEvidenceProvider
    <2>4. /\ k.purpose = x.purpose /\ k.digests = x.digests /\ k.model = x.model
          /\ k.seen.profile = x.seen.profile /\ k.seen.provider = provider
      BY <1>1, <1>2 DEF CallerState, Pair
    <2> HIDE DEF k
    <2>5. Guarded([k EXCEPT !.phase = "evidence"], held[c])
      BY <1>1, <2>2, <2>3, <2>4 DEF Guarded, CallerState, In
    <2> QED BY <2>2, <2>3, <2>5, StepKeeps
  <1>11. CASE RouteEvidence(c)
    <2>1. CASE Found(c) = {} /\ Step(c, x, FALSE, "idle")
      BY <1>1, <2>1, StepKeeps
    <2>2. ASSUME NEW i \in Found(c),
                 Step(c, [x EXCEPT !.purpose = "bind", !.probe = i], TRUE, "endpoint")
          PROVE  TypeOK' /\ CallersInv' /\ Unwritten
      <3> DEFINE k == [x EXCEPT !.purpose = "bind", !.probe = i]
      <3>1. i \in DOMAIN evidence /\ i \in Nat
        BY FoundIsCurrent DEF TypeOK
      <3>2. k \in CallerState /\ HasProbe(k) /\ k.purpose = "bind"
        BY <1>1, <3>1 DEF CallerState, HasProbe
      <3> HIDE DEF k
      <3>3. Guarded([k EXCEPT !.phase = "endpoint"], held[c])
        BY <3>2 DEF Guarded, CallerState
      <3> QED BY <2>2, <3>2, <3>3, StepKeeps DEF k
    <2> QED BY <1>11, <2>1, <2>2 DEF RouteEvidence
  <1>12. CASE BindEvidence(c)
    <2>1. CASE x.probe \notin Found(c) /\ Step(c, x, FALSE, "idle")
      BY <1>1, <2>1, StepKeeps
    <2>2. CASE x.probe \in Found(c) /\ Unwritten /\ held' = [held EXCEPT ![c] = HeldNow(c)]
               /\ Become(c, [x EXCEPT !.purpose = "guard", !.phase = "endpoint"])
      <3> DEFINE k == [x EXCEPT !.purpose = "guard", !.phase = "endpoint"]
      <3>1. /\ x.probe \in DOMAIN evidence /\ Len(evidence) \in Nat
        BY <2>2, FoundIsCurrent DEF TypeOK
      <3>2. /\ k \in CallerState /\ HasProbe(k) /\ k.purpose = "guard" /\ k.phase = "endpoint"
            /\ k.model = x.model
        BY <1>1, <3>1 DEF CallerState, HasProbe
      <3>3. HeldNow(c) \in HeldState
        BY <1>1, <1>2, <3>1 DEF HeldNow, HeldState
      <3>4. callers' = [callers EXCEPT ![c] = k]
        BY <2>2 DEF Become
      <3> HIDE DEF k
      <3>5. TypeOK'
        BY <2>2, <3>2, <3>3, <3>4 DEF TypeOK, HasProbe, Unwritten, rows
      <3>6. Guarded(k, HeldNow(c))
        BY <3>1, <3>2 DEF Guarded, HeldNow
      <3>7. /\ callers'[c] = k /\ held'[c] = HeldNow(c)
            /\ \A d \in Caller : d # c => callers'[d] = callers[d] /\ held'[d] = held[d]
        BY <2>2, <3>4 DEF TypeOK
      <3>8. \A d \in Caller : Guarded(callers'[d], held'[d])
        BY <3>6, <3>7 DEF CallersInv
      <3>9. provider' = provider /\ profiles' = profiles /\ evidence' = evidence
        BY <2>2 DEF Unwritten, rows
      <3>10. ASSUME NEW d \in Caller PROVE Guarded(callers[d], held[d])'
        BY <3>8, <3>9 DEF Guarded
      <3> QED BY <2>2, <3>5, <3>10 DEF CallersInv
    <2> QED BY <1>12, <2>1, <2>2 DEF BindEvidence
  <1>13. CASE GuardEvidence(c)
    <2> DEFINE allowed == x.probe \in Found(c)
    <2>1. Step(c, x, allowed, "send") /\ allowed \in BOOLEAN /\ In(c, "evidence")
          /\ x.purpose = "guard"
      BY <1>13 DEF GuardEvidence, Guarding
    <2>2. ASSUME allowed PROVE Guarded([x EXCEPT !.phase = "send"], held[c])
      <3>1. /\ evidence[x.probe].model = x.model /\ evidence[x.probe].digests = x.seen
            /\ \A j \in DOMAIN evidence :
                 evidence[j].model = x.model /\ evidence[j].digests = x.seen
                   => evidence[j].at <= evidence[x.probe].at
        BY <2>2, FoundIsCurrent
      <3>2. held[c] \in HeldState /\ evidence \in Seq(ProbeResult)
        BY DEF TypeOK
      <3>3. held[c].results <= Len(evidence)
        BY <1>1, <2>1 DEF Guarded
      <3>4. 1..held[c].results \subseteq DOMAIN evidence
        BY <3>2, <3>3 DEF HeldState
      <3> QED BY <1>1, <2>1, <3>1, <3>4 DEF Guarded, CallerState, In
    <2> HIDE DEF allowed
    <2> QED BY <1>1, <2>1, <2>2, StepKeeps
  <1>14. CASE Send(c)
    <2>1. Step(c, x, FALSE, "idle")
      BY <1>14 DEF Send
    <2> QED BY <1>1, <2>1, StepKeeps
  <1> HIDE DEF x
  <1> QED
    BY <1>4, <1>5, <1>6, <1>7, <1>8, <1>9, <1>10, <1>11, <1>12, <1>13, <1>14 DEF Calling

-----------------------------------------------------------------------------
\* The invariant

Inv ==
  TypeOK /\ ProbersInv /\ ReadyHasEvidence /\ PassedWhileEnabled /\ CallersInv

LEMMA InitInv == Init => Inv
  <1> SUFFICES ASSUME Init PROVE Inv
    OBVIOUS
  <1>1. TypeOK
    BY InitialTypes, HealthOfType, BoundsAssumption DEF Init, TypeOK, IdleCaller
  <1>2. ProbersInv
    BY DEF Init, ProbersInv, Told, IdleProber
  <1>3. ReadyHasEvidence /\ PassedWhileEnabled
    BY HealthOfType DEF Init, ReadyHasEvidence, PassedWhileEnabled
  <1>4. CallersInv
    BY IdleGuarded DEF Init, CallersInv
  <1> QED BY <1>1, <1>2, <1>3, <1>4 DEF Inv

\* An edit of a row.
LEMMA EditingInv == ASSUME Inv, Editing PROVE Inv'
  <1> USE DEF Inv
  <1>1. edits' \in 0..MaxEdits /\ UNCHANGED <<evidence, stamps, probers, callers>>
    BY BoundsAssumption DEF Editing, EditProvider, EditModel, TypeOK
  <1>2. /\ provider' \in ProviderIdentity /\ profiles' \in [Model -> ModelIdentity]
        /\ health' \in Health
        /\ health' = "READY" => health = "READY" /\ provider' = provider
    BY HealthOfType DEF Editing, EditProvider, EditModel, TypeOK
  <1>3. ASSUME NEW c \in Caller
        PROVE  /\ held'[c] \in HeldState /\ held'[c].results = held[c].results
               /\ held[c].provider \subseteq held'[c].provider
               /\ held[c].profile \subseteq held'[c].profile
               /\ Guarding(c) /\ provider \in held[c].provider => provider' \in held'[c].provider
               /\ Guarding(c) /\ profiles[callers[c].model] \in held[c].profile
                    => profiles'[callers[c].model] \in held'[c].profile
    <2>1. held[c] \in HeldState /\ callers[c] \in CallerState
      BY DEF TypeOK
    <2>2. CASE \E identity \in ProviderIdentity : EditProvider(identity)
      BY <2>1, <2>2 DEF EditProvider, HeldState
    <2>3. CASE \E m \in Model, identity \in ModelIdentity : EditModel(m, identity)
      <3>1. PICK m \in Model, identity \in ModelIdentity : EditModel(m, identity)
        BY <2>3
      <3>2. /\ profiles' = [profiles EXCEPT ![m] = identity] /\ provider' = provider
            /\ held'[c] = IF Guarding(c) /\ callers[c].model = m
                          THEN [held[c] EXCEPT !.profile = @ \cup {identity}] ELSE held[c]
        BY <3>1 DEF EditModel
      <3>3. [held[c] EXCEPT !.profile = @ \cup {identity}] \in HeldState
        BY <2>1 DEF HeldState
      <3>4. callers[c].model \in Model /\ profiles \in [Model -> ModelIdentity]
        BY <2>1 DEF CallerState, TypeOK
      <3>5. CASE Guarding(c) /\ callers[c].model = m
        BY <2>1, <3>2, <3>3, <3>4, <3>5 DEF HeldState
      <3>6. CASE ~(Guarding(c) /\ callers[c].model = m)
        BY <2>1, <3>2, <3>4, <3>6
      <3> QED BY <3>5, <3>6
    <2> QED BY <2>2, <2>3 DEF Editing
  <1>4. DOMAIN held' = Caller /\ held' \in [Caller -> HeldState]
    BY <1>3 DEF Editing, EditProvider, EditModel
  <1>5. TypeOK'
    BY <1>1, <1>2, <1>4 DEF TypeOK
  <1>6. ProbersInv' /\ ReadyHasEvidence' /\ PassedWhileEnabled'
    BY <1>1, <1>2 DEF ProbersInv, ReadyHasEvidence, PassedWhileEnabled
  <1>7. ASSUME NEW c \in Caller PROVE Guarded(callers[c], held[c])'
    BY <1>1, <1>3 DEF CallersInv, Guarded, Guarding
  <1> QED BY <1>5, <1>6, <1>7 DEF CallersInv

\* A step of a probe that only reads.
LEMMA ReadingInv == ASSUME Inv, NEW p \in Prober, ProbeReads(p) PROVE Inv'
  <1> USE DEF Inv
  <1>1. PICK x \in ProberState :
          /\ probers' = [probers EXCEPT ![p] = x] /\ Told(x)
          /\ stamps' \in 0..MaxProbes /\ Reading /\ UNCHANGED callers
    BY DEF ProbeReads
  <1>2. TypeOK'
    BY <1>1, ProbeMovesType
  <1>3. ProbersInv'
    BY <1>1 DEF ProbersInv, TypeOK
  <1>4. /\ provider' = provider /\ profiles' = profiles /\ evidence' = evidence
        /\ health' = health /\ held' = held /\ callers' = callers
    BY <1>1 DEF Reading, rows
  <1>5. ReadyHasEvidence' /\ PassedWhileEnabled' /\ CallersInv'
    BY <1>4 DEF ReadyHasEvidence, PassedWhileEnabled, CallersInv, Guarded
  <1> QED BY <1>2, <1>3, <1>5

\* A result that is stored is current at that moment.
LEMMA RecordInv == ASSUME Inv, NEW p \in Prober, RecordProbe(p) PROVE Inv'
  <1> USE DEF Inv
  <1> DEFINE result == probers[p].result
  <1>1. /\ probers[p] \in ProberState /\ Told(probers[p]) /\ probers[p].phase = "record"
        /\ result \in ProbeResult /\ result.digests.provider = provider
    BY DEF TypeOK, ProbersInv, RecordProbe, ProbeIn, IsCurrent, ProberState
  <1>2. /\ evidence' = Append(evidence, result) /\ probers' = [probers EXCEPT ![p] = IdleProber]
        /\ UNCHANGED <<provider, profiles, edits, stamps, callers, held>>
    BY DEF RecordProbe, ProbeGoes
  <1>3. evidence \in Seq(ProbeResult) /\ Len(evidence) \in Nat
    BY DEF TypeOK
  <1>4. /\ evidence' \in Seq(ProbeResult) /\ Len(evidence') = Len(evidence) + 1
        /\ DOMAIN evidence' = 1..Len(evidence) + 1 /\ DOMAIN evidence = 1..Len(evidence)
        /\ evidence'[Len(evidence) + 1] = result
        /\ \A i \in DOMAIN evidence : evidence'[i] = evidence[i]
    BY <1>1, <1>2, <1>3
  <1>5. /\ health' \in Health
        /\ health' = "READY" => health = "READY" \/ result.auth = "PASS"
    BY <1>1 DEF RecordProbe, HealthAfter, Health, TypeOK, ProbeResult, Authentication
  <1>6. DOMAIN evidence \subseteq DOMAIN evidence'
    BY <1>3, <1>4
  <1> HIDE DEF result
  <1>7. TypeOK'
    BY <1>2, <1>4, <1>5, <1>6, InitialTypes DEF TypeOK
  <1>8. ProbersInv'
    BY <1>2 DEF ProbersInv, Told, IdleProber, TypeOK
  <1>9. ReadyHasEvidence'
    BY <1>1, <1>2, <1>3, <1>4, <1>5, <1>6 DEF ReadyHasEvidence
  <1>10. PassedWhileEnabled'
    BY <1>1, <1>3, <1>4 DEF PassedWhileEnabled, Told, Enabled, result
  <1>11. ASSUME NEW c \in Caller PROVE Guarded(callers[c], held[c])'
    <2>1. Guarded(callers[c], held[c]) /\ held[c] \in HeldState
      BY DEF CallersInv, TypeOK
    <2>2. CASE callers[c].purpose # "guard"
      BY <1>2, <2>1, <2>2 DEF Guarded
    <2>3. CASE callers[c].purpose = "guard"
      <3>1. held[c].results \in Nat /\ held[c].results <= Len(evidence)
        BY <2>1, <2>3 DEF Guarded, HeldState
      <3>2. held[c].results <= Len(evidence')
        BY <1>3, <1>4, <3>1
      <3>3. \A i \in 1..held[c].results : evidence'[i] = evidence[i]
        BY <1>3, <1>4, <3>1
      <3>4. evidence'[callers[c].probe] = evidence[callers[c].probe]
        BY <1>4, <2>3 DEF TypeOK
      <3> QED BY <1>2, <2>1, <2>3, <3>2, <3>3, <3>4 DEF Guarded
    <2> QED BY <2>2, <2>3
  <1> QED BY <1>7, <1>8, <1>9, <1>10, <1>11 DEF CallersInv

LEMMA NextInv == Inv /\ [Next]_vars => Inv'
  <1> SUFFICES ASSUME Inv, [Next]_vars PROVE Inv'
    OBVIOUS
  <1>1. CASE Editing
    BY <1>1, EditingInv
  <1>2. ASSUME NEW p \in Prober, Probing(p) PROVE Inv'
    <2>1. CASE RecordProbe(p)
      BY <2>1, RecordInv
    <2>2. CASE ~RecordProbe(p)
      BY <1>2, <2>2, ReadingProbes, ReadingInv DEF Probing, Inv
    <2> QED BY <2>1, <2>2
  <1>3. ASSUME NEW c \in Caller, Calling(c) PROVE Inv'
    <2>1. TypeOK' /\ CallersInv' /\ Unwritten
      BY <1>3, CallingSteps DEF Inv
    <2> QED
      BY <2>1 DEF Inv, Unwritten, rows, ProbersInv, ReadyHasEvidence, PassedWhileEnabled
  <1>4. CASE UNCHANGED vars
    BY <1>4 DEF vars, rows, Inv, TypeOK, ProbersInv, ReadyHasEvidence, PassedWhileEnabled,
                CallersInv, Guarded
  <1> QED BY <1>1, <1>2, <1>3, <1>4 DEF Next

LEMMA Invariance == Spec => []Inv
  BY InitInv, NextInv, PTL DEF Spec

-----------------------------------------------------------------------------
\* The theorems

\* Every variable has its type.
THEOREM TypeCorrectness == Spec => []TypeOK
  BY Invariance, PTL DEF Inv

\* A provider is READY only on a pass of exactly its present configuration,
\* whichever edits and probes overlap.
THEOREM ReadyCorrectness == Spec => []ReadyHasEvidence
  BY Invariance, PTL DEF Inv

\* Passing evidence is always evidence for an enabled provider and model.
THEOREM PassedCorrectness == Spec => []PassedWhileEnabled
  BY Invariance, PTL DEF Inv

\* What a request goes out under was in force during its guard.
THEOREM GuardCorrectness == Spec => []GuardedBySameRows
  <1>1. Inv => GuardedBySameRows
    BY DEF Inv, CallersInv, Guarded, GuardedBySameRows, In
  <1> QED BY <1>1, Invariance, PTL

\* A request goes out on the newest evidence stored before its guard.
THEOREM NewestProbeCorrectness == Spec => []GuardedByNewestProbe
  <1>1. Inv => GuardedByNewestProbe
    BY DEF Inv, CallersInv, Guarded, GuardedByNewestProbe, In
  <1> QED BY <1>1, Invariance, PTL


-----------------------------------------------------------------------------
(***************************************************************************)
(* The credential of a provider resolves, unless a PATCH has named it, for *)
(* any number of requests and every interleaving of their transactions.    *)
(* What a request will delete is a reference the row has had and has no    *)
(* more; what it will write, or take back, is a secret of its own that the *)
(* row has never referred to, or that a PATCH has named.                   *)
(***************************************************************************)

\* The request holds a secret it has stored and not written.
Pending(k) == k.phase \in {"write", "undo"} /\ k.put

RequestInv(k) ==
  /\ k.old \in past
  /\ k.phase = "delete" => k.old # ref \/ k.old \in given
  /\ Pending(k) => k.new \in 1..drawn
  /\ Pending(k) /\ k.new \notin given => k.new \in secrets \ past
  /\ k.phase = "write" /\ ~k.put => k.new = 0
  /\ k.phase \in {"store", "undo"} => k.put

Bounded ==
  /\ secrets \subseteq 1..drawn /\ past \ given \subseteq 0..drawn
  /\ 0 \in past /\ ref \in past

Distinct ==
  \A r, s \in Request :
    Pending(requests[r]) /\ Pending(requests[s]) /\ requests[r].new = requests[s].new => r = s

CredentialInv ==
  /\ CredentialTypeOK /\ Bounded /\ Distinct /\ ReferenceResolves
  /\ \A r \in Request : RequestInv(requests[r])

\* An idle request holds nothing.
LEMMA IdleFacts ==
  /\ Idle \in RequestState /\ Idle.phase = "idle" /\ Idle.old = 0 /\ ~Pending(Idle)
  BY DEF Idle, RequestState, Phase, Reference, Pending

LEMMA InitCredentialInv == InitCredential => CredentialInv
  <1> SUFFICES ASSUME InitCredential PROVE CredentialInv
    OBVIOUS
  <1>1. CredentialTypeOK /\ Bounded /\ ReferenceResolves
    BY IdleFacts, BoundAssumption
    DEF InitCredential, CredentialTypeOK, Bounded, ReferenceResolves, Reference, Secret, Doing
  <1>2. Distinct /\ \A r \in Request : RequestInv(requests[r])
    BY IdleFacts DEF InitCredential, Distinct, RequestInv
  <1> QED BY <1>1, <1>2 DEF CredentialInv

\* One request moves to k; the others see a table that has lost nothing of theirs.
LEMMA Moves ==
  ASSUME CredentialInv, NEW r \in Request, NEW k \in RequestState, Proceed(r, k),
         k.phase = "delete" => k.old # 0,
         ref' \in Reference, drawn' \in drawn..MaxSecrets, past' \subseteq Reference,
         given' = given, Bounded', ReferenceResolves', RequestInv(k)',
         Pending(k) =>
           \A s \in Request \ {r} : Pending(requests[s]) => requests[s].new # k.new,
         \A s \in Request \ {r} :
           /\ requests[s].old \in past'
           /\ requests[s].phase = "delete" =>
                requests[s].old # ref' \/ requests[s].old \in given
           /\ Pending(requests[s]) /\ requests[s].new \notin given =>
                requests[s].new \in secrets' \ past'
  PROVE  CredentialInv'
  <1>1. /\ requests' \in [Request -> RequestState] /\ requests'[r] = k
        /\ \A s \in Request : s # r => requests'[s] = requests[s]
    BY DEF Proceed, CredentialInv, CredentialTypeOK
  <1>2. /\ secrets' \subseteq Secret /\ given' \subseteq Secret
        /\ drawn \in 0..MaxSecrets /\ drawn' \in 0..MaxSecrets /\ 1..drawn \subseteq 1..drawn'
    BY BoundAssumption DEF Bounded, Secret, CredentialInv, CredentialTypeOK
  <1>3. \A s \in Request : Doing(s, "delete")' => requests'[s].old # 0
    BY <1>1 DEF CredentialInv, CredentialTypeOK, Doing
  <1>4. CredentialTypeOK'
    BY <1>1, <1>2, <1>3 DEF CredentialTypeOK
  <1>5. Distinct'
    BY <1>1 DEF CredentialInv, Distinct, Pending
  <1>6. ASSUME NEW s \in Request PROVE RequestInv(requests[s])'
    <2>1. CASE s = r
      BY <1>1, <2>1 DEF RequestInv, Pending
    <2>2. CASE s # r
      BY <1>1, <1>2, <2>2 DEF CredentialInv, RequestInv, Pending
    <2> QED BY <2>1, <2>2
  <1> QED BY <1>4, <1>5, <1>6 DEF CredentialInv

LEMMA NextCredentialInv == CredentialInv /\ [NextCredential]_credentialVars => CredentialInv'
  <1> SUFFICES ASSUME CredentialInv, [NextCredential]_credentialVars PROVE CredentialInv'
    OBVIOUS
  <1>1. /\ ref \in Reference /\ drawn \in 0..MaxSecrets /\ past \subseteq Reference
        /\ 0 \in Reference /\ Secret \subseteq Reference /\ MaxSecrets \in Nat
        /\ drawn \in drawn..MaxSecrets
        /\ Bounded /\ ReferenceResolves /\ Distinct
    BY BoundAssumption DEF CredentialInv, CredentialTypeOK, Reference
  <1>2. ASSUME NEW r \in Request
        PROVE  requests[r] \in RequestState /\ RequestInv(requests[r])
               /\ (Doing(r, "delete") => requests[r].old # 0)
    BY DEF CredentialInv, CredentialTypeOK
  <1>3. ASSUME NEW r \in Request, PutCredential(r) PROVE CredentialInv'
    <2> DEFINE k == [phase |-> "store", put |-> TRUE, old |-> ref, new |-> 0]
    <2>1. k \in RequestState /\ Proceed(r, k) /\ ~Pending(k) /\ k.phase = "store"
      BY <1>1, <1>3 DEF PutCredential, RequestState, Phase, Pending
    <2>2. RequestInv(k)'
      BY <1>1, <1>3 DEF RequestInv, Pending, PutCredential, Bounded, history
    <2> QED BY <1>1, <1>2, <1>3, <2>1, <2>2, Moves
        DEF PutCredential, Bounded, ReferenceResolves, RequestInv, history
  <1>4. ASSUME NEW r \in Request, DeleteCredential(r) PROVE CredentialInv'
    <2> DEFINE k == [phase |-> "write", put |-> FALSE, old |-> ref, new |-> 0]
    <2>1. k \in RequestState /\ Proceed(r, k) /\ ~Pending(k) /\ k.phase = "write"
      BY <1>1, <1>4 DEF DeleteCredential, RequestState, Phase, Pending
    <2>2. RequestInv(k)'
      BY <1>1, <1>4 DEF RequestInv, Pending, DeleteCredential, Bounded, history
    <2> QED BY <1>1, <1>2, <1>4, <2>1, <2>2, Moves
        DEF DeleteCredential, Bounded, ReferenceResolves, RequestInv, history
  <1>5. ASSUME NEW r \in Request, Store(r) PROVE CredentialInv'
    <2> PICK n : n = drawn + 1
      OBVIOUS
    <2> PICK k : k = [requests[r] EXCEPT !.phase = "write", !.new = n]
      OBVIOUS
    <2>1. /\ n \in Secret /\ n \notin secrets /\ (n \notin past \/ n \in given) /\ given' = given
          /\ drawn' = n /\ secrets' = secrets \cup {n} /\ ref' = ref /\ past' = past
          /\ Proceed(r, k) /\ requests[r].phase = "store"
      BY <1>1, <1>5 DEF Store, Secret, Bounded, NewReference, Doing, history
    <2>2. k \in RequestState /\ k.phase = "write" /\ k.put /\ k.new = n
          /\ k.old = requests[r].old
      BY <1>1, <1>2, <2>1 DEF RequestState, Phase, RequestInv
    <2>3. Bounded' /\ ReferenceResolves'
      BY <1>1, <2>1 DEF Bounded, ReferenceResolves
    <2> PICK d : d = drawn
      OBVIOUS
    <2>7. d \in Nat /\ n = d + 1 /\ n \in 1..n /\ n \notin 1..d
      BY <1>1
    <2>4. RequestInv(k)'
      BY <1>2, <2>1, <2>2, <2>7 DEF RequestInv, Pending
    <2>5. \A s \in Request : Pending(requests[s]) => requests[s].new # n
      BY <1>2, <2>7 DEF RequestInv
    <2>6. drawn' \in drawn..MaxSecrets
      BY <1>1, <2>1 DEF Secret
    <2> QED BY <1>1, <1>2, <2>1, <2>2, <2>3, <2>4, <2>5, <2>6, Moves DEF RequestInv
  <1>6. ASSUME NEW r \in Request, Write(r) PROVE CredentialInv'
    <2> PICK old, new : old = requests[r].old /\ new = requests[r].new
      OBVIOUS
    <2> PICK k : k = IF old # 0 THEN [requests[r] EXCEPT !.phase = "delete"] ELSE Idle
      OBVIOUS
    <2>1. /\ ref' = new /\ past' = past \cup {new} /\ secrets' = secrets /\ drawn' = drawn
          /\ given' = given
          /\ Proceed(r, k) /\ requests[r].phase = "write"
      BY <1>6 DEF Write, Refer, RefersToStore, Doing
    <2>2. /\ k \in RequestState /\ ~Pending(k) /\ k.phase \in {"delete", "idle"}
          /\ k.phase = "delete" => k.old = old /\ old # 0
          /\ k.old \in {0, old}
      BY <1>2, IdleFacts DEF RequestState, Phase, Pending
    <2>3. old \in past /\ new \in Reference
      BY <1>2 DEF RequestInv, RequestState
    <2>4. CASE requests[r].put
      <3>1. /\ new \in 1..drawn /\ Pending(requests[r])
            /\ new \in given \/ (new \in secrets /\ new \notin past)
        BY <1>2, <2>1, <2>4 DEF RequestInv, Pending
      <3>2. Bounded' /\ ReferenceResolves'
        BY <1>1, <2>1, <3>1 DEF Bounded, ReferenceResolves
      <3>3. RequestInv(k)'
        BY <1>1, <2>1, <2>2, <2>3, <3>1 DEF RequestInv, Bounded
      <3>4. \A s \in Request \ {r} : Pending(requests[s]) => requests[s].new # new
        BY <1>1, <3>1 DEF Distinct
      <3>5. \A s \in Request \ {r} :
              /\ requests[s].old \in past'
              /\ requests[s].phase = "delete" =>
                   requests[s].old # ref' \/ requests[s].old \in given
              /\ Pending(requests[s]) /\ requests[s].new \notin given =>
                   requests[s].new \in secrets' \ past'
        BY <1>2, <2>1, <3>1, <3>4 DEF RequestInv
      <3> QED BY <1>1, <2>1, <2>2, <2>3, <3>2, <3>3, <3>5, Moves
    <2>5. CASE ~requests[r].put
      <3>1. new = 0
        BY <1>2, <2>1, <2>5 DEF RequestInv
      <3>2. ref' = 0 /\ past' = past
        BY <1>1, <2>1, <3>1 DEF Bounded
      <3>3. Bounded' /\ ReferenceResolves'
        BY <1>1, <2>1, <3>2 DEF Bounded, ReferenceResolves
      <3>4. RequestInv(k)'
        BY <1>1, <2>1, <2>2, <2>3, <3>2 DEF RequestInv, Bounded
      <3>5. \A s \in Request \ {r} :
              /\ requests[s].old \in past'
              /\ requests[s].phase = "delete" =>
                   requests[s].old # ref' \/ requests[s].old \in given
              /\ Pending(requests[s]) /\ requests[s].new \notin given =>
                   requests[s].new \in secrets' \ past'
        BY <1>2, <2>1, <3>2 DEF RequestInv, Doing
      <3> QED BY <1>1, <2>1, <2>2, <3>2, <3>3, <3>4, <3>5, Moves
    <2> QED BY <2>4, <2>5
  <1>7. ASSUME NEW r \in Request, WriteRefused(r) PROVE CredentialInv'
    <2> PICK k : k = IF requests[r].put THEN [requests[r] EXCEPT !.phase = "undo"] ELSE Idle
      OBVIOUS
    <2>1. /\ Proceed(r, k) /\ requests[r].phase = "write"
          /\ UNCHANGED <<ref, secrets, drawn, past, given>>
      BY <1>7 DEF WriteRefused, Doing, history
    <2>2. k \in RequestState /\ k.phase \in {"undo", "idle"}
          /\ (Pending(k) => Pending(requests[r]) /\ k.new = requests[r].new)
      BY <1>2, <2>1, IdleFacts DEF RequestState, Phase, Pending
    <2>3. RequestInv(k)'
      BY <1>1, <1>2, <2>1, IdleFacts
      DEF RequestInv, Pending, Bounded, RequestState, Phase
    <2> QED BY <1>1, <1>2, <2>1, <2>2, <2>3, Moves
        DEF Bounded, ReferenceResolves, RequestInv, Distinct
  <1>8. ASSUME NEW r \in Request, Undo(r) PROVE CredentialInv'
    <2> DEFINE new == requests[r].new
    <2>1. /\ Proceed(r, Idle) /\ secrets' = secrets \ {new}
          /\ UNCHANGED <<ref, drawn, past, given>> /\ requests[r].phase = "undo"
      BY <1>8 DEF Undo, Undone, Doing, history
    <2>2. Pending(requests[r]) /\ (new \notin past \/ new \in given)
      BY <1>2, <2>1 DEF RequestInv, Pending
    <2>3. Bounded' /\ ReferenceResolves' /\ RequestInv(Idle)'
      BY <1>1, <2>1, <2>2, IdleFacts DEF Bounded, ReferenceResolves, RequestInv
    <2>4. \A s \in Request \ {r} : Pending(requests[s]) => requests[s].new # new
      BY <1>1, <2>2 DEF Distinct
    <2> QED BY <1>1, <1>2, <2>1, <2>3, <2>4, IdleFacts, Moves DEF RequestInv
  <1>9. ASSUME NEW r \in Request, DeleteOld(r) PROVE CredentialInv'
    <2> DEFINE old == requests[r].old
    <2>1. /\ Proceed(r, Idle) /\ secrets' = secrets \ {old}
          /\ UNCHANGED <<ref, drawn, past, given>> /\ requests[r].phase = "delete"
      BY <1>9 DEF DeleteOld, Doing, history
    <2>2. old \in past /\ (old # ref \/ old \in given)
      BY <1>2, <2>1 DEF RequestInv
    <2>3. Bounded' /\ ReferenceResolves' /\ RequestInv(Idle)'
      BY <1>1, <2>1, <2>2, IdleFacts DEF Bounded, ReferenceResolves, RequestInv
    <2> QED BY <1>1, <1>2, <2>1, <2>2, <2>3, IdleFacts, Moves DEF RequestInv
  <1>10. ASSUME NEW r \in Request, Crash(r) PROVE CredentialInv'
    <2>1. Proceed(r, Idle) /\ UNCHANGED <<ref, secrets, drawn, past, given>>
      BY <1>10 DEF Crash, history
    <2>2. Bounded' /\ ReferenceResolves' /\ RequestInv(Idle)'
      BY <1>1, <2>1, IdleFacts DEF Bounded, ReferenceResolves, RequestInv
    <2> QED BY <1>1, <1>2, <2>1, <2>2, IdleFacts, Moves DEF RequestInv
  <1>11. ASSUME NEW value \in Reference, Names(value), UNCHANGED <<drawn, requests>>,
                \/ Refer(value) /\ secrets' = secrets
                \/ UNCHANGED <<ref, past>> /\ secrets' = secrets \ {value}
         PROVE  CredentialInv'
    <2>1. /\ given' = given \cup ({value} \ {0}) /\ given' \subseteq Secret
          /\ past \subseteq past' /\ past' \subseteq past \cup {value}
          /\ ref' \in past' /\ ref' \in {ref, value}
          /\ secrets' \subseteq secrets /\ secrets \ secrets' \subseteq given'
      BY <1>1, <1>11
      DEF Names, Refer, Reference, Secret, CredentialInv, CredentialTypeOK, Bounded
    <2>2. CredentialTypeOK'
      BY <1>1, <1>11, <2>1 DEF CredentialInv, CredentialTypeOK, Doing
    <2>3. Bounded' /\ Distinct' /\ ReferenceResolves'
      BY <1>1, <1>11, <2>1 DEF Bounded, Distinct, ReferenceResolves
    <2>4. ASSUME NEW r \in Request PROVE RequestInv(requests[r])'
      BY <1>2, <1>11, <2>1, <2>4 DEF RequestInv, Doing, Pending
    <2> QED BY <2>2, <2>3, <2>4 DEF CredentialInv
  <1>12. CASE UNCHANGED credentialVars
    BY <1>12 DEF credentialVars, history, CredentialInv, CredentialTypeOK, Bounded, Distinct,
       ReferenceResolves, RequestInv, Doing
  <1>13. CASE \E value \in Reference : Patch(value)
    BY <1>11, <1>13 DEF Patch
  <1>14. CASE \E value \in Secret : DeleteElsewhere(value)
    BY <1>1, <1>11, <1>14 DEF DeleteElsewhere
  <1> QED BY <1>3, <1>4, <1>5, <1>6, <1>7, <1>8, <1>9, <1>10, <1>12, <1>13, <1>14
          DEF NextCredential

LEMMA CredentialInvariance == CredentialSpec => []CredentialInv
  BY InitCredentialInv, NextCredentialInv, PTL DEF CredentialSpec

\* Every variable has its type, and a request that is about to delete names a
\* stored secret.
THEOREM CredentialTypeCorrectness == CredentialSpec => []CredentialTypeOK
  <1>1. CredentialInv => CredentialTypeOK
    BY DEF CredentialInv
  <1> QED BY <1>1, CredentialInvariance, PTL

\* The provider row never refers to a secret that is not in the store, however
\* many put, delete and patch requests interleave, fail or stop, except to one that
\* a PATCH has named.
THEOREM ReferenceCorrectness == CredentialSpec => []ReferenceResolves
  <1>1. CredentialInv => ReferenceResolves
    BY DEF CredentialInv
  <1> QED BY <1>1, CredentialInvariance, PTL

\* A reference the row receives is one it never had, or one a PATCH has named: the
\* write of a put request changes the reference to one of its own, pending secret.
THEOREM RotationCorrectness == CredentialSpec => RotationIsFresh
  <1>1. ASSUME CredentialInv, [NextCredential]_credentialVars
        PROVE  [ref' \notin {0, ref} /\ ref' \notin given' => ref' \notin past]_credentialVars
    <2>1. ASSUME NEW r \in Request, Write(r)
          PROVE  ref' # 0 /\ ref' \notin given' => ref' \notin past
      <3>1. /\ RequestInv(requests[r]) /\ ref' = requests[r].new /\ given' = given
            /\ requests[r].phase = "write"
        BY <1>1, <2>1 DEF CredentialInv, Write, Refer, Doing
      <3>2. requests[r].put \in BOOLEAN
        BY <1>1 DEF CredentialInv, CredentialTypeOK, RequestState
      <3> QED BY <3>1, <3>2 DEF RequestInv, Pending
    <2>2. CASE \E value \in Reference : Patch(value)
      BY <2>2 DEF Patch, Refer, Names
    <2>3. CASE UNCHANGED ref
      BY <2>3
    <2> QED BY <1>1, <2>1, <2>2, <2>3
        DEF NextCredential, credentialVars, PutCredential, DeleteCredential, Store, WriteRefused,
            Undo, DeleteOld, Crash, DeleteElsewhere
  <1> QED BY <1>1, CredentialInvariance, PTL DEF CredentialSpec, RotationIsFresh

-----------------------------------------------------------------------------
(* The attempts, levels and usage of agent runs, for any number of runs that *)
(* share an adapter and any number of retries.  A run only reaches a         *)
(* provider on an executable level, which bounds its attempts from above;    *)
(* the counter never runs behind what a waiting run has read of it.          *)

\* The level of the attempt, before it is cut off at the last one.
RawLevel(k) == k.base + RetryCount(k.attempt)

AttemptInv(k) ==
  /\ k.attempt \in 1..(MaxRetries + 1)
  /\ k.phase \in {"bind", "await"} => RawLevel(k) <= 5
  /\ k.phase = "route" => RawLevel(k) <= 6
  /\ k.phase \in {"route", "bind"} => k.executed <= k.attempt - 1
  /\ k.phase = "await" => k.executed <= k.attempt /\ k.trace = RawLevel(k)
  /\ k.executed <= Smaller(MaxRetries + 1, 7 - k.base)
  /\ k.status = "ESCALATED" => k.attempt = Smaller(MaxRetries + 1, 8 - k.base)
  /\ k.phase # "ended" => k.status = "RUNNING"

UsageInv(k, counter) ==
  /\ k.own <= k.booked
  /\ k.phase = "await" => k.before <= counter

TraceInv(k) ==
  /\ k.executed = 0 <=> k.trace = 0
  /\ k.at <= k.trace
  /\ k.phase # "ended" => k.trace <= RawLevel(k)

RunInv(k, counter) ==
  k \in RunState /\ AttemptInv(k) /\ UsageInv(k, counter) /\ TraceInv(k)

RunsInv ==
  /\ runs \in [Run -> RunState]
  /\ recorded \in Nat
  /\ \A r \in Run : RunInv(runs[r], recorded)

USE RetriesAssumption

LEMMA NewRunInv ==
  ASSUME NEW base \in Executable, NEW counter \in Nat
  PROVE  /\ RunInv(NewRun(base), counter)
         /\ RunInv([NewRun(base) EXCEPT !.phase = "idle"], counter)
  BY SMTT(30) DEF RunInv, NewRun, RunState, AttemptInv, UsageInv, TraceInv, RawLevel,
         RetryCount, Smaller, Executable, Status

LEMMA InitRunsInv == RunInit => RunsInv
  BY NewRunInv DEF RunInit, RunsInv, Executable, RunInv

\* The counter may grow under a run.
LEMMA CounterGrows ==
  ASSUME NEW k, NEW m \in Nat, NEW n \in Nat, m <= n, RunInv(k, m)
  PROVE  RunInv(k, n)
  BY DEF RunInv, UsageInv, RunState

\* One run moves to k and the counter does not fall.
LEMMA RunMoves ==
  ASSUME RunsInv, NEW r \in Run, NEW k, RunGoes(r, k), recorded' \in Nat,
         recorded <= recorded', RunInv(k, recorded')
  PROVE  RunsInv'
  <1>1. k \in RunState
    BY DEF RunInv
  <1>2. runs' \in [Run -> RunState] /\ runs'[r] = k
        /\ \A s \in Run : s # r => runs'[s] = runs[s]
    BY <1>1 DEF RunGoes, RunsInv
  <1>3. ASSUME NEW s \in Run PROVE RunInv(runs'[s], recorded')
    BY <1>2, CounterGrows DEF RunsInv
  <1> QED BY <1>2, <1>3 DEF RunsInv

\* A failed attempt is followed by the next one, whose level is at most one
\* higher, or by an end that has used every attempt.
LEMMA FailedInv ==
  ASSUME NEW k, NEW counter \in Nat, k \in RunState, UsageInv(k, counter), TraceInv(k),
         k.phase \in {"bind", "await"}, k.status = "RUNNING",
         k.attempt \in 1..(MaxRetries + 1), RawLevel(k) <= 5, k.executed <= k.attempt
  PROVE  RunInv(Failed(k), counter)
  <1>1. k.attempt <= 7 - k.base /\ k.base \in 1..5 /\ k.attempt \in Nat
    BY DEF RawLevel, RetryCount, RunState, Executable
  <1>2. CASE k.attempt > MaxRetries
    <2> DEFINE e == [k EXCEPT !.phase = "ended", !.status = "ESCALATED"]
    <2>1. Failed(k) = e
      BY <1>2 DEF Failed, End
    <2>2. e \in RunState
      BY DEF RunState, Status
    <2>3. AttemptInv(e)
      BY <1>1, <1>2 DEF AttemptInv, RunState, Smaller, Executable
    <2>4. UsageInv(e, counter) /\ TraceInv(e)
      BY DEF UsageInv, TraceInv, RunState
    <2> QED BY <2>1, <2>2, <2>3, <2>4 DEF RunInv
  <1>3. CASE ~(k.attempt > MaxRetries)
    <2> PICK n \in Nat : n = k.attempt + 1
      BY <1>1
    <2> DEFINE e == [k EXCEPT !.phase = "route", !.attempt = n]
    <2>1. Failed(k) = e
      BY <1>3 DEF Failed
    <2>2. e \in RunState
      BY DEF RunState
    <2>3. RawLevel(e) \in RawLevel(k)..(RawLevel(k) + 1)
      BY <1>1, <2>2 DEF RawLevel, RetryCount, RunState, Executable
    <2>4. AttemptInv(e)
      BY <1>1, <1>3, <2>3 DEF AttemptInv, RunState, Smaller, Executable, RawLevel, RetryCount
    <2>5. UsageInv(e, counter)
      BY DEF UsageInv, RunState
    <2>6. TraceInv(e)
      BY <2>3, <1>1 DEF TraceInv, RunState, RawLevel, RetryCount, Executable
    <2> QED BY <2>1, <2>2, <2>4, <2>5, <2>6 DEF RunInv
  <1> QED BY <1>2, <1>3

LEMMA NextRunsInv == RunsInv /\ [RunNext]_runVars => RunsInv'
  <1> SUFFICES ASSUME RunsInv, [RunNext]_runVars PROVE RunsInv'
    OBVIOUS
  <1>1. recorded \in Nat
    BY DEF RunsInv
  <1>2. ASSUME NEW r \in Run PROVE RunInv(runs[r], recorded)
    BY DEF RunsInv
  <1>3. ASSUME NEW r \in Run, Start(r) PROVE RunsInv'
    <2> PICK base \in Executable : RunGoes(r, NewRun(base))
      BY <1>3 DEF Start
    <2>1. recorded' = recorded
      BY <1>3 DEF Start
    <2>2. RunInv(NewRun(base), recorded)
      BY <1>1, NewRunInv
    <2> QED BY <1>1, <2>1, <2>2, RunMoves
  <1>4. ASSUME NEW r \in Run, RouteRun(r) PROVE RunsInv'
    <2> PICK k : k = runs[r]
      OBVIOUS
    <2>1. RunInv(k, recorded) /\ k.phase = "route" /\ recorded' = recorded
      BY <1>2, <1>4 DEF RouteRun, RunIn
    <2>2. /\ k \in RunState /\ k.base \in 1..5 /\ k.attempt \in 1..(MaxRetries + 1)
          /\ RawLevel(k) \in 1..6 /\ RouteLevel(k) = RawLevel(k)
      BY <2>1 DEF RunInv, AttemptInv, RunState, Executable, RawLevel, RetryCount, RouteLevel
    <2>3. CASE RouteLevel(k) = 6 /\ RunGoes(r, End(k, "ESCALATED"))
      <3>1. k.attempt = 8 - k.base
        BY <2>2, <2>3 DEF RawLevel, RetryCount
      <3>2. End(k, "ESCALATED") \in RunState
        BY <2>2 DEF End, RunState, Status
      <3>3. RunInv(End(k, "ESCALATED"), recorded)
        BY <2>1, <2>2, <3>1, <3>2
        DEF RunInv, End, AttemptInv, UsageInv, TraceInv, RunState, Smaller
      <3> QED BY <1>1, <2>1, <2>3, <3>3, RunMoves
    <2>4. CASE RunGoes(r, End(k, "HUMAN_REVIEW"))
      <3>1. End(k, "HUMAN_REVIEW") \in RunState
        BY <2>2 DEF End, RunState, Status
      <3>2. RunInv(End(k, "HUMAN_REVIEW"), recorded)
        BY <2>1, <2>2, <3>1
        DEF RunInv, End, AttemptInv, UsageInv, TraceInv, RunState
      <3> QED BY <1>1, <2>1, <2>4, <3>2, RunMoves
    <2>5. CASE RouteLevel(k) \in Executable /\ RunGoes(r, [k EXCEPT !.phase = "bind"])
      <3>1. [k EXCEPT !.phase = "bind"] \in RunState
        BY <2>2 DEF RunState
      <3>2. RunInv([k EXCEPT !.phase = "bind"], recorded)
        BY <2>1, <2>2, <2>5, <3>1
        DEF RunInv, AttemptInv, UsageInv, TraceInv, RunState, Executable, RawLevel
      <3> QED BY <1>1, <2>1, <2>5, <3>2, RunMoves
    <2> QED BY <1>4, <2>3, <2>4, <2>5 DEF RouteRun
  <1>5. ASSUME NEW r \in Run, Bind(r) \/ BindFails(r) PROVE RunsInv'
    <2> PICK k : k = runs[r]
      OBVIOUS
    <2> PICK b : b = [k EXCEPT !.executed = k.executed + 1, !.trace = RouteLevel(k)]
      OBVIOUS
    <2>1. RunInv(k, recorded) /\ k.phase = "bind" /\ recorded' = recorded
      BY <1>2, <1>5 DEF Bind, BindFails, RunIn
    <2>2. /\ k \in RunState /\ k.base \in 1..5 /\ k.attempt \in 1..(MaxRetries + 1)
          /\ RawLevel(k) \in 1..5 /\ RouteLevel(k) = RawLevel(k)
          /\ k.executed \in Nat /\ k.executed <= k.attempt - 1 /\ k.attempt <= 7 - k.base
          /\ k.status = "RUNNING"
      BY <2>1 DEF RunInv, AttemptInv, RunState, Executable, RawLevel, RetryCount, RouteLevel
    <2>3. b \in RunState /\ UsageInv(b, recorded) /\ TraceInv(b)
      <3>1. k.executed + 1 \in Nat /\ RouteLevel(k) \in {0} \cup Executable
        BY <2>2 DEF Executable
      <3>2. b \in RunState
        BY <2>2, <3>1 DEF RunState
      <3>3. /\ b.trace = RawLevel(k) /\ b.executed = k.executed + 1 /\ b.phase = "bind"
            /\ b.at = k.at /\ RawLevel(b) = RawLevel(k) /\ b.own = k.own
            /\ b.booked = k.booked
        BY <2>1, <2>2 DEF RunState, RawLevel
      <3>4. k.at <= k.trace /\ k.trace <= RawLevel(k) /\ k.at \in Nat /\ k.trace \in Nat
            /\ k.own <= k.booked
        BY <2>1, <2>2 DEF RunInv, TraceInv, UsageInv, RunState, Executable
      <3> QED BY <2>2, <3>2, <3>3, <3>4 DEF UsageInv, TraceInv
    <2>4. CASE Bind(r)
      <3> PICK a : a = [b EXCEPT !.phase = "await", !.before = recorded, !.at = RouteLevel(k)]
        OBVIOUS
      <3>1. a = [k EXCEPT !.phase = "await", !.before = recorded,
                          !.executed = k.executed + 1, !.trace = RouteLevel(k),
                          !.at = RouteLevel(k)]
        BY <2>2 DEF RunState
      <3>2. RunGoes(r, a)
        BY <2>4, <3>1 DEF Bind
      <3>3. a \in RunState
        <4> PICK l \in {0} \cup Executable : l = RouteLevel(k)
          BY <2>2 DEF Executable
        <4> PICK e \in Nat : e = k.executed + 1
          BY <2>2
        <4>1. a = [k EXCEPT !.phase = "await", !.before = recorded, !.executed = e,
                            !.trace = l, !.at = l]
          BY <3>1
        <4>2. k \in RunState /\ recorded \in Nat
          BY <1>1, <2>2
        <4>3. [k EXCEPT !.phase = "await", !.before = recorded] \in RunState
          BY <4>2 DEF RunState
        <4> PICK m \in RunState : m = [k EXCEPT !.phase = "await", !.before = recorded]
          BY <4>3
        <4>4. a = [m EXCEPT !.executed = e, !.trace = l, !.at = l]
          BY <4>1, <4>2 DEF RunState
        <4> QED BY <4>4 DEF RunState
      <3>4. /\ a.phase = "await" /\ a.before = recorded /\ a.at = RouteLevel(k)
            /\ a.trace = RouteLevel(k) /\ a.executed = k.executed + 1
            /\ a.base = k.base /\ a.attempt = k.attempt /\ a.status = "RUNNING"
            /\ a.own = k.own /\ a.booked = k.booked
        BY <2>2, <3>1 DEF RunState
      <3>5. RawLevel(a) = RawLevel(k)
        BY <3>4 DEF RawLevel
      <3>6. AttemptInv(a)
        <4>1. /\ k.base \in 1..5 /\ k.attempt \in 1..(MaxRetries + 1)
              /\ k.executed \in Nat /\ k.executed + 1 <= k.attempt
              /\ k.attempt <= 7 - k.base
          BY <2>2
        <4>2. k.executed + 1 <= Smaller(MaxRetries + 1, 7 - k.base)
          BY <4>1 DEF Smaller
        <4> QED BY <2>2, <3>4, <3>5, <4>1, <4>2 DEF AttemptInv
      <3>7. UsageInv(a, recorded) /\ TraceInv(a)
        <4>2. k.own <= k.booked
          BY <2>1 DEF RunInv, UsageInv
        <4>3. UsageInv(a, recorded)
          BY <1>1, <3>4, <4>2 DEF UsageInv
        <4> QED BY <2>2, <3>4, <3>5, <4>3 DEF TraceInv
      <3> QED BY <1>1, <2>1, <3>2, <3>3, <3>6, <3>7, RunMoves DEF RunInv
    <2>5. CASE BindFails(r)
      <3>1. RunInv(Failed(k), recorded)
        BY <1>1, <2>1, <2>2, FailedInv DEF RunInv
      <3>2. b.phase = "bind" /\ b.status = "RUNNING" /\ b.attempt = k.attempt
            /\ b.base = k.base /\ b.executed = k.executed + 1
        BY <2>1, <2>2 DEF RunState
      <3>3. RunInv(Failed(b), recorded)
        <4>1. RawLevel(b) <= 5
          BY <2>2, <3>2 DEF RawLevel
        <4>2. b.executed <= b.attempt /\ b.attempt \in 1..(MaxRetries + 1)
          BY <2>2, <3>2
        <4> QED BY <1>1, <2>3, <3>2, <4>1, <4>2, FailedInv
      <3> QED BY <1>1, <2>1, <2>5, <3>1, <3>3, RunMoves DEF BindFails
    <2> QED BY <1>5, <2>4, <2>5
  <1>6. ASSUME NEW r \in Run,
               RequestLost(r) \/ ResponseMalformed(r) \/ ResponseRefused(r) \/ ResponseAccepted(r)
        PROVE  RunsInv'
    <2> PICK k : k = runs[r]
      OBVIOUS
    <2> PICK m : m = [k EXCEPT !.own = k.own + 1]
      OBVIOUS
    <2>1. RunInv(k, recorded) /\ k.phase = "await"
      BY <1>2, <1>6
      DEF RequestLost, ResponseMalformed, ResponseRefused, ResponseAccepted, RunIn
    <2>2. /\ k \in RunState /\ k.base \in 1..5 /\ k.attempt \in 1..(MaxRetries + 1)
          /\ RawLevel(k) <= 5 /\ k.executed \in Nat /\ k.executed <= k.attempt
          /\ k.status = "RUNNING" /\ k.own \in Nat /\ k.booked \in Nat /\ k.before \in Nat
          /\ k.before <= recorded /\ k.own <= k.booked
      <3>1. k \in RunState /\ AttemptInv(k) /\ UsageInv(k, recorded)
        BY <2>1 DEF RunInv
      <3>2. k.attempt \in Nat /\ k.executed \in Nat
        BY <3>1 DEF RunState
      <3>3. k.base \in 1..5 /\ k.own \in Nat /\ k.booked \in Nat /\ k.before \in Nat
        BY <3>1 DEF RunState, Executable
      <3> QED BY <2>1, <3>1, <3>2, <3>3 DEF AttemptInv, UsageInv
    <2>3. ASSUME NEW c \in Nat, NEW d \in Nat, c >= recorded, d >= 1
          PROVE  /\ Book(m, d) \in RunState
                 /\ UsageInv(Book(m, d), c) /\ TraceInv(Book(m, d)) /\ AttemptInv(Book(m, d))
                 /\ Book(m, d).phase = "await" /\ Book(m, d).status = "RUNNING"
                 /\ Book(m, d).attempt = k.attempt /\ Book(m, d).base = k.base
                 /\ Book(m, d).executed = k.executed
      <3> PICK o \in Nat : o = k.own + 1
        BY <2>2
      <3> PICK p \in Nat : p = k.booked + d
        BY <2>2
      <3> PICK b : b = Book(m, d)
        OBVIOUS
      <3>1. b = [k EXCEPT !.own = o, !.booked = p]
        BY <2>2 DEF Book, RunState
      <3>2. b \in RunState
        BY <2>2, <3>1 DEF RunState
      <3>3. /\ b.phase = k.phase /\ b.status = k.status /\ b.attempt = k.attempt
            /\ b.base = k.base /\ b.executed = k.executed /\ b.trace = k.trace
            /\ b.at = k.at /\ b.before = k.before /\ b.own = o /\ b.booked = p
        BY <2>2, <3>1 DEF RunState
      <3>4. UsageInv(b, c)
        BY <1>1, <2>1, <2>2, <2>3, <3>3 DEF UsageInv
      <3>5. TraceInv(b) /\ AttemptInv(b)
        BY <2>1, <3>3 DEF RunInv, TraceInv, AttemptInv, RawLevel
      <3> QED BY <2>1, <2>2, <3>2, <3>3, <3>4, <3>5
    <2>4. ASSUME NEW c \in Nat, NEW d \in Nat, c >= recorded, d >= 1
          PROVE  RunInv(Failed(Book(m, d)), c)
      BY <2>2, <2>3, <2>4, FailedInv DEF RawLevel
    <2>5. CASE RequestLost(r)
      <3> PICK d : d = recorded - k.before
        OBVIOUS
      <3> PICK b : b = [k EXCEPT !.booked = k.booked + d]
        OBVIOUS
      <3>1. d \in Nat /\ recorded' = recorded /\ RunGoes(r, Failed(b))
        BY <1>1, <2>2, <2>5 DEF RequestLost, UsageDelta, Book
      <3>2. /\ b \in RunState /\ UsageInv(b, recorded) /\ TraceInv(b)
            /\ b.phase = "await" /\ b.status = "RUNNING" /\ b.attempt = k.attempt
            /\ b.base = k.base /\ b.executed = k.executed
        BY <1>1, <2>1, <2>2, <3>1 DEF RunInv, RunState, UsageInv, TraceInv, RawLevel
      <3>3. RunInv(Failed(b), recorded)
        BY <1>1, <2>2, <3>2, FailedInv DEF RawLevel
      <3> QED BY <1>1, <3>1, <3>3, RunMoves
    <2>6. CASE ResponseMalformed(r)
      <3> PICK d : d = recorded + 1 - k.before
        OBVIOUS
      <3>1. d \in Nat /\ d >= 1 /\ recorded' = recorded + 1 /\ RunGoes(r, Failed(Book(m, d)))
        BY <1>1, <2>2, <2>6 DEF ResponseMalformed, UsageDelta
      <3> QED BY <1>1, <2>4, <3>1, RunMoves
    <2>7. CASE ResponseRefused(r)
      <3>1. recorded' = recorded + 1 /\ RunGoes(r, Failed(Book(m, 1)))
        BY <2>7 DEF ResponseRefused
      <3> QED BY <1>1, <2>4, <3>1, RunMoves
    <2>8. CASE ResponseAccepted(r)
      <3> PICK b : b = Book(m, 1)
        OBVIOUS
      <3>1. recorded' = recorded + 1 /\ RunGoes(r, End(b, "SUCCEEDED"))
        BY <2>8 DEF ResponseAccepted
      <3>2. RunInv(b, recorded + 1)
        <4>1. recorded + 1 \in Nat /\ recorded + 1 >= recorded
          BY <1>1
        <4> QED BY <2>3, <4>1 DEF RunInv
      <3>3. RunInv(End(b, "SUCCEEDED"), recorded + 1)
        <4> PICK e : e = End(b, "SUCCEEDED")
          OBVIOUS
        <4>1. b \in RunState /\ AttemptInv(b) /\ UsageInv(b, recorded + 1) /\ TraceInv(b)
          BY <3>2 DEF RunInv
        <4>2. e \in RunState
          BY <4>1 DEF End, RunState, Status
        <4>3. /\ e.phase = "ended" /\ e.status = "SUCCEEDED" /\ e.attempt = b.attempt
              /\ e.base = b.base /\ e.executed = b.executed /\ e.trace = b.trace
              /\ e.at = b.at /\ e.own = b.own /\ e.booked = b.booked
          BY <4>1 DEF End, RunState
        <4>4. AttemptInv(e)
          BY <4>1, <4>3 DEF AttemptInv
        <4>5. UsageInv(e, recorded + 1) /\ TraceInv(e)
          BY <4>1, <4>3 DEF UsageInv, TraceInv
        <4> QED BY <4>2, <4>4, <4>5 DEF RunInv
      <3> QED BY <1>1, <3>1, <3>3, RunMoves
    <2> QED BY <1>6, <2>5, <2>6, <2>7, <2>8
  <1>7. CASE UNCHANGED runVars
    BY <1>7 DEF runVars, RunsInv
  <1> QED BY <1>3, <1>4, <1>5, <1>6, <1>7 DEF RunNext, Progress, AllEnded

LEMMA RunsInvariance == RunSpec => []RunsInv
  BY InitRunsInv, NextRunsInv, PTL DEF RunSpec

\* Every variable has its type, and a run has a trace exactly when an attempt
\* of it was executed.
THEOREM RunTypeCorrectness == RunSpec => []RunTypeOK
  <1>1. RunsInv => RunTypeOK
    BY DEF RunsInv, RunTypeOK, RunInv, TraceInv
  <1> QED BY <1>1, RunsInvariance, PTL

\* No request of a run is left out of its usage, however many runs share the
\* adapter's counter.
THEOREM UsageCorrectness == RunSpec => []UsageCoversRequests
  <1>1. RunsInv => UsageCoversRequests
    BY DEF RunsInv, UsageCoversRequests, RunInv, UsageInv
  <1> QED BY <1>1, RunsInvariance, PTL

\* Whatever max_retries is, a run reaches a provider at most once per attempt,
\* and never above its flagship levels.
THEOREM ExecutionBound == RunSpec => []ExecutionsAreBounded
  <1>1. RunsInv => ExecutionsAreBounded
    BY DEF RunsInv, ExecutionsAreBounded, RunInv, AttemptInv
  <1> QED BY <1>1, RunsInvariance, PTL

\* A run ends as ESCALATED only when its attempts or its levels are used up.
THEOREM EscalationCorrectness == RunSpec => []EscalationIsExhausted
  <1>1. RunsInv => EscalationIsExhausted
    BY DEF RunsInv, EscalationIsExhausted, RunInv, AttemptInv
  <1> QED BY <1>1, RunsInvariance, PTL

\* A run that ends in a review or a failure still names the route of the last
\* request it has issued.
THEOREM TraceCorrectness == RunSpec => []TraceIsLastRequest
  <1>1. RunsInv => TraceIsLastRequest
    <2>1. ASSUME RunsInv, NEW r \in Run PROVE runs[r].trace >= runs[r].at
      BY <2>1 DEF RunsInv, RunInv, TraceInv, RunState, Executable
    <2> QED BY <2>1 DEF TraceIsLastRequest
  <1> QED BY <1>1, RunsInvariance, PTL
===============================================================================
