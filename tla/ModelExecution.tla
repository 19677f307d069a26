---------------------------- MODULE ModelExecution ----------------------------
(***************************************************************************)
(* One registered provider with its models: administrators edit the rows,  *)
(* probes measure a model and store evidence, calls are routed on that     *)
(* evidence and checked again before the request goes out.  Every read is  *)
(* a statement of its own, so the rows a procedure compares were not read  *)
(* at one instant.  What a configuration digest covers is an identity      *)
(* here, the settings (with the credential reference) and the enabled      *)
(* flag; digests are equal exactly when identities are.                    *)
(***************************************************************************)
EXTENDS Naturals, Sequences

CONSTANTS
  Model,         \* models of the provider
  Prober,        \* probes that may run at the same time
  Caller,        \* agent attempts that may run at the same time
  Endpoint,      \* settings of the provider
  NoCredential,  \* those whose credential reference does not resolve
  Profile,       \* settings of a model
  MaxEdits,      \* bound of the model: edits of rows
  MaxProbes      \* bound of the model: probe results

ASSUME ModelAssumption == Model # {}
ASSUME EndpointAssumption == Endpoint # {} /\ NoCredential \subseteq Endpoint
ASSUME ProfileAssumption == Profile # {}
ASSUME BoundsAssumption == MaxEdits \in Nat /\ MaxProbes \in Nat

VARIABLES
  provider,      \* identity of the provider row
  health,        \* its health_status
  profiles,      \* identity of each model row
  evidence,      \* stored probe results, in the order of their commits
  edits,         \* edits so far
  stamps,        \* probe results built so far
  probers,       \* the local state of each probe
  callers,       \* the local state of each attempt
  held           \* what the database held since an attempt began its guard

rows == <<provider, health, profiles>>
vars == <<rows, evidence, edits, stamps, probers, callers, held>>

ProviderIdentity == [settings : Endpoint, enabled : BOOLEAN]

ModelIdentity == [settings : Profile, enabled : BOOLEAN]

Pair == [provider : ProviderIdentity, profile : ModelIdentity]

Health == {"UNCONFIGURED", "READY", "AUTH_FAILED", "UNAVAILABLE", "DISABLED"}

Authentication == {"PASS", "AUTH_FAILED", "NOT_CONFIGURED", "UNAVAILABLE"}

\* digests is what the result is bound to, at its performed_at.
ProbeResult == [model : Model, digests : Pair, auth : Authentication, at : Nat]

ProbePhase ==
  {"idle", "endpoint", "credential", "bind model", "bind endpoint",
   "bind credential", "contact", "record"}

\* used are the identities the adapter of the probe is built from.
ProberState == [phase : ProbePhase, result : ProbeResult, used : Pair]

CallPhase ==
  {"idle", "endpoint", "model", "credential", "evidence model",
   "evidence provider", "evidence", "send"}

\* The rows are read to choose the route, to build its adapter and to guard
\* the request.  digests and probe are those of the route; seen are the rows
\* the look-up of the latest probe has read.
CallerState ==
  [phase : CallPhase, purpose : {"route", "bind", "guard"}, model : Model,
   digests : Pair, probe : Nat, seen : Pair]

HeldState ==
  [provider : SUBSET ProviderIdentity, profile : SUBSET ModelIdentity, results : Nat]

HasCredential(identity) == identity.settings \notin NoCredential

Enabled(pair) == pair.provider.enabled /\ pair.profile.enabled

\* ProviderModelRegistry._with_health
HealthOf(identity) ==
  IF ~identity.enabled THEN "DISABLED"
  ELSE IF HasCredential(identity) THEN "UNAVAILABLE" ELSE "UNCONFIGURED"

SomeModel == CHOOSE m \in Model : TRUE

SomePair == CHOOSE pair \in Pair : TRUE

NoResult ==
  [model |-> SomeModel, digests |-> SomePair, auth |-> "UNAVAILABLE", at |-> 0]

IdleProber == [phase |-> "idle", result |-> NoResult, used |-> SomePair]

IdleCaller ==
  [phase |-> "idle", purpose |-> "route", model |-> SomeModel,
   digests |-> SomePair, probe |-> 0, seen |-> SomePair]

NothingHeld == [provider |-> {}, profile |-> {}, results |-> 0]

Init ==
  /\ provider \in ProviderIdentity
  /\ health = HealthOf(provider)
  /\ profiles \in [Model -> ModelIdentity]
  /\ evidence = <<>>
  /\ edits = 0
  /\ stamps = 0
  /\ probers = [p \in Prober |-> IdleProber]
  /\ callers = [c \in Caller |-> IdleCaller]
  /\ held = [c \in Caller |-> NothingHeld]

-----------------------------------------------------------------------------

Guarding(c) == callers[c].purpose = "guard"

\* An edit keeps the health of an enabled provider.
EditProviderBug(identity) ==
  /\ edits < MaxEdits
  /\ edits' = edits + 1
  /\ provider' = identity
  /\ health' = IF identity.enabled THEN health ELSE "DISABLED"
  /\ UNCHANGED <<profiles, evidence, stamps, probers, callers, held>>

EditProvider(identity) ==
  /\ edits < MaxEdits
  /\ edits' = edits + 1
  /\ provider' = identity
  /\ health' = HealthOf(identity)
  /\ held' = [c \in Caller |->
       IF Guarding(c) THEN [held[c] EXCEPT !.provider = @ \cup {identity}] ELSE held[c]]
  /\ UNCHANGED <<profiles, evidence, stamps, probers, callers>>

EditModel(m, identity) ==
  /\ edits < MaxEdits
  /\ edits' = edits + 1
  /\ profiles' = [profiles EXCEPT ![m] = identity]
  /\ held' = [c \in Caller |->
       IF Guarding(c) /\ callers[c].model = m
       THEN [held[c] EXCEPT !.profile = @ \cup {identity}] ELSE held[c]]
  /\ UNCHANGED <<provider, health, evidence, stamps, probers, callers>>

-----------------------------------------------------------------------------
\* ProviderCompatibilityProbe

ProbeIn(p, phase) == probers[p].phase = phase

ProbeGoes(p, k) == probers' = [probers EXCEPT ![p] = k]

Reading == UNCHANGED <<rows, evidence, edits, held>>

\* The result is built, and stamped, before the transaction that stores it.
Conclude(p, k, auth) ==
  /\ stamps < MaxProbes
  /\ stamps' = stamps + 1
  /\ ProbeGoes(p, [k EXCEPT !.phase = "record", !.result.auth = auth,
                            !.result.at = stamps + 1])

\* The probe goes on if what it has read allows it, and concludes if not.
ProbeStep(p, k, allowed, next, auth) ==
  /\ \/ /\ allowed
        /\ ProbeGoes(p, [k EXCEPT !.phase = next])
        /\ UNCHANGED stamps
     \/ /\ ~allowed
        /\ Conclude(p, k, auth)
  /\ Reading /\ UNCHANGED callers

ProbeModel(p, m) ==
  /\ ProbeIn(p, "idle")
  /\ ProbeGoes(p, [IdleProber EXCEPT !.phase = "endpoint", !.result.model = m,
                                     !.result.digests.profile = profiles[m]])
  /\ Reading /\ UNCHANGED <<stamps, callers>>

ProbeEndpoint(p) ==
  /\ ProbeIn(p, "endpoint")
  /\ LET k == [probers[p] EXCEPT !.result.digests.provider = provider]
     IN ProbeStep(p, k, Enabled(k.result.digests), "credential", "UNAVAILABLE")

ProbeCredential(p) ==
  /\ ProbeIn(p, "credential")
  /\ ProbeStep(p, probers[p], HasCredential(provider), "bind model", "NOT_CONFIGURED")

ProbeBindModel(p) ==
  /\ ProbeIn(p, "bind model")
  /\ LET k == [probers[p] EXCEPT !.used.profile = profiles[probers[p].result.model]]
     IN ProbeStep(p, k, TRUE, "bind endpoint", "UNAVAILABLE")

ProbeBindEndpoint(p) ==
  /\ ProbeIn(p, "bind endpoint")
  /\ LET k == [probers[p] EXCEPT !.used.provider = provider]
     IN ProbeStep(p, k, Enabled(k.used), "bind credential", "UNAVAILABLE")

ProbeBindCredential(p) ==
  /\ ProbeIn(p, "bind credential")
  /\ ProbeStep(p, probers[p], HasCredential(provider) /\ HasCredential(probers[p].used.provider),
               "contact", "UNAVAILABLE")

ProbeContact(p) ==
  /\ ProbeIn(p, "contact")
  /\ \E auth \in {"PASS", "AUTH_FAILED", "UNAVAILABLE"} :
       Conclude(p, probers[p], auth)
  /\ Reading /\ UNCHANGED callers

IsCurrent(result) == result.digests = [provider |-> provider, profile |-> profiles[result.model]]

HealthAfter(auth) ==
  CASE auth = "PASS" -> "READY"
    [] auth = "AUTH_FAILED" -> "AUTH_FAILED"
    [] auth = "NOT_CONFIGURED" -> "UNCONFIGURED"
    [] auth = "UNAVAILABLE" -> "UNAVAILABLE"

RecordProbe(p) ==
  LET result == probers[p].result
  IN /\ ProbeIn(p, "record")
     /\ IsCurrent(result)
     /\ evidence' = Append(evidence, result)
     /\ health' = IF ~provider.enabled THEN "DISABLED"
                  ELSE IF ~profiles[result.model].enabled THEN health
                  ELSE HealthAfter(result.auth)
     /\ ProbeGoes(p, IdleProber)
     /\ UNCHANGED <<provider, profiles, edits, stamps, callers, held>>

\* record_probe raises: the digests are no longer those of the rows.
ProbeRefused(p) ==
  /\ ProbeIn(p, "record")
  /\ ~IsCurrent(probers[p].result)
  /\ ProbeGoes(p, IdleProber)
  /\ Reading /\ UNCHANGED <<stamps, callers>>

-----------------------------------------------------------------------------
\* ModelRouter, ProviderRegistry.get and ExecutionGuardedProvider

In(c, phase) == callers[c].phase = phase

Become(c, k) == callers' = [callers EXCEPT ![c] = k]

Unwritten == UNCHANGED <<rows, evidence, edits, stamps, probers>>

\* The attempt goes on if the row it has read passes, and ends if not.
Step(c, k, allowed, next) ==
  /\ IF allowed THEN Become(c, [k EXCEPT !.phase = next]) /\ UNCHANGED held
     ELSE Become(c, IdleCaller) /\ held' = [held EXCEPT ![c] = NothingHeld]
  /\ Unwritten

\* A candidate of list_models.
Route(c, m) ==
  /\ In(c, "idle")
  /\ Step(c, [IdleCaller EXCEPT !.model = m, !.digests.profile = profiles[m]],
          profiles[m].enabled, "endpoint")

RouteEndpoint(c) ==
  /\ In(c, "endpoint") /\ callers[c].purpose = "route"
  /\ Step(c, [callers[c] EXCEPT !.digests.provider = provider],
          provider.enabled /\ health = "READY", "credential")

CheckEndpoint(c) ==
  /\ In(c, "endpoint") /\ callers[c].purpose # "route"
  /\ Step(c, callers[c],
          provider = callers[c].digests.provider /\ provider.enabled /\ health = "READY",
          "model")

CheckModel(c) ==
  /\ In(c, "model")
  /\ LET profile == profiles[callers[c].model]
     IN Step(c, callers[c], profile = callers[c].digests.profile /\ profile.enabled, "credential")

ReadCredential(c) ==
  /\ In(c, "credential")
  /\ Step(c, callers[c], HasCredential(provider), "evidence model")

ReadEvidenceModel(c) ==
  /\ In(c, "evidence model")
  /\ Step(c, [callers[c] EXCEPT !.seen.profile = profiles[callers[c].model]],
          TRUE, "evidence provider")

ReadEvidenceProvider(c) ==
  /\ In(c, "evidence provider")
  /\ Step(c, [callers[c] EXCEPT !.seen.provider = provider], TRUE, "evidence")

\* The result stored last instead of the one performed last.
LatestProbeBug(m, pair) ==
  LET current == {i \in DOMAIN evidence :
                    evidence[i].model = m /\ evidence[i].digests = pair}
  IN {i \in current : \A j \in current : j <= i}

\* latest_probe: the result performed last of those that are current for the
\* rows just read; there is none or one.
LatestProbe(m, pair) ==
  LET current == {i \in DOMAIN evidence :
                    evidence[i].model = m /\ evidence[i].digests = pair}
  IN {i \in current : \A j \in current : evidence[j].at <= evidence[i].at}

\* The latest probe an attempt finds, if it has passed.
Found(c) ==
  {i \in LatestProbe(callers[c].model, callers[c].seen) : evidence[i].auth = "PASS"}

RouteEvidence(c) ==
  /\ In(c, "evidence") /\ callers[c].purpose = "route"
  /\ \/ \E i \in Found(c) :
          Step(c, [callers[c] EXCEPT !.purpose = "bind", !.probe = i], TRUE, "endpoint")
     \/ /\ Found(c) = {}
        /\ Step(c, callers[c], FALSE, "idle")

HeldNow(c) ==
  [provider |-> {provider}, profile |-> {profiles[callers[c].model]},
   results |-> Len(evidence)]

\* The bound provider is used without its guard.
BindEvidenceBug(c) ==
  /\ In(c, "evidence") /\ callers[c].purpose = "bind"
  /\ callers[c].probe \in Found(c)
  /\ Become(c, [callers[c] EXCEPT !.purpose = "guard", !.phase = "send"])
  /\ held' = [held EXCEPT ![c] = HeldNow(c)]
  /\ Unwritten

BindEvidence(c) ==
  /\ In(c, "evidence") /\ callers[c].purpose = "bind"
  /\ \/ /\ callers[c].probe \in Found(c)
        /\ Become(c, [callers[c] EXCEPT !.purpose = "guard", !.phase = "endpoint"])
        /\ held' = [held EXCEPT ![c] = HeldNow(c)]
        /\ Unwritten
     \/ /\ callers[c].probe \notin Found(c)
        /\ Step(c, callers[c], FALSE, "idle")

GuardEvidence(c) ==
  /\ In(c, "evidence") /\ Guarding(c)
  /\ Step(c, callers[c], callers[c].probe \in Found(c), "send")

\* The request goes out, or its credential cannot be resolved any more.
Send(c) ==
  /\ In(c, "send")
  /\ Step(c, callers[c], FALSE, "idle")

-----------------------------------------------------------------------------

Probing(p) ==
  \/ \E m \in Model : ProbeModel(p, m)
  \/ ProbeEndpoint(p) \/ ProbeCredential(p)
  \/ ProbeBindModel(p) \/ ProbeBindEndpoint(p) \/ ProbeBindCredential(p)
  \/ ProbeContact(p)
  \/ RecordProbe(p) \/ ProbeRefused(p)

Calling(c) ==
  \/ \E m \in Model : Route(c, m)
  \/ RouteEndpoint(c) \/ CheckEndpoint(c) \/ CheckModel(c) \/ ReadCredential(c)
  \/ ReadEvidenceModel(c) \/ ReadEvidenceProvider(c)
  \/ RouteEvidence(c) \/ BindEvidence(c) \/ GuardEvidence(c)
  \/ Send(c)

Editing ==
  \/ \E identity \in ProviderIdentity : EditProvider(identity)
  \/ \E m \in Model, identity \in ModelIdentity : EditModel(m, identity)

Next ==
  \/ Editing
  \/ \E p \in Prober : Probing(p)
  \/ \E c \in Caller : Calling(c)

Spec == Init /\ [][Next]_vars

-----------------------------------------------------------------------------

\* Every variable has its type, and a route beyond its choice names a probe.
TypeOK ==
  /\ provider \in ProviderIdentity
  /\ health \in Health
  /\ profiles \in [Model -> ModelIdentity]
  /\ evidence \in Seq(ProbeResult)
  /\ edits \in 0..MaxEdits
  /\ stamps \in 0..MaxProbes
  /\ probers \in [Prober -> ProberState]
  /\ callers \in [Caller -> CallerState]
  /\ held \in [Caller -> HeldState]
  /\ \A c \in Caller :
       callers[c].probe \in (IF callers[c].purpose = "route" THEN {0} ELSE DOMAIN evidence)

\* A provider is READY only while a probe of exactly its present configuration
\* has passed: no edit, switch, or late result leaves it READY on old evidence.
ReadyHasEvidence ==
  health = "READY" =>
    \E i \in DOMAIN evidence :
      evidence[i].auth = "PASS" /\ evidence[i].digests.provider = provider

\* Passing evidence is always evidence for an enabled provider and model, so
\* the look-up of the latest probe also sees a switch-off.
PassedWhileEnabled ==
  \A i \in DOMAIN evidence : evidence[i].auth = "PASS" => Enabled(evidence[i].digests)

\* "a preview cannot survive a disable, credential removal, config change":
\* the configuration of the route and that of its evidence were both in force
\* at some time between the start of the guard and the request.
GuardedBySameRows ==
  \A c \in Caller : In(c, "send") =>
    LET probed == evidence[callers[c].probe].digests
    IN /\ {callers[c].digests.provider, probed.provider} \subseteq held[c].provider
       /\ {callers[c].digests.profile, probed.profile} \subseteq held[c].profile

\* ... "or new/failing probe": no probe of the same configuration, performed
\* later, was stored before the guard began.
GuardedByNewestProbe ==
  \A c \in Caller : In(c, "send") =>
    LET used == evidence[callers[c].probe]
    IN \A i \in 1..held[c].results :
         (evidence[i].model = used.model /\ evidence[i].digests = used.digests)
           => evidence[i].at <= used.at
===============================================================================
