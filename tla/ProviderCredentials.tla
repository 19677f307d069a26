-------------------------- MODULE ProviderCredentials --------------------------
(***************************************************************************)
(* The stored credential of one provider: the reference in the provider    *)
(* row and the encrypted rows of the secret store.  A request that puts or *)
(* deletes the credential reads the row, changes the store and changes the *)
(* row in separate transactions, so requests interleave at each of them.   *)
(* Secrets are numbered in the order in which they are drawn; the drawn    *)
(* identifiers are taken to be distinct.  Reference 0 stands for a row     *)
(* that refers to no stored secret (null or an environment variable).  A   *)
(* POST or PATCH of a provider may name any reference that is well formed. *)
(***************************************************************************)
EXTENDS Naturals, FiniteSets

CONSTANTS
  Request,       \* requests served at the same time
  MaxSecrets,    \* bound of the model: secrets drawn
  MaxGiven,      \* bound of the model: secrets named by a POST or PATCH
  Disturbances   \* which of "refuse", "patch" and "crash" may happen

ASSUME BoundAssumption == MaxSecrets \in Nat /\ MaxGiven \in Nat
ASSUME DisturbancesAssumption == Disturbances \subseteq {"refuse", "patch", "crash"}

VARIABLES
  ref,           \* credential_ref of the provider row
  secrets,       \* rows of the secret store
  drawn,         \* secrets drawn so far
  past,          \* history: references the row has had
  given,         \* history: secrets that a POST or PATCH has named
  requests       \* the local state of each request

history == <<past, given>>
credentialVars == <<ref, secrets, drawn, history, requests>>

Secret == 1..MaxSecrets

Reference == {0} \cup Secret

Phase == {"idle", "store", "write", "delete", "undo"}

\* old is the reference read when the request started, new the secret it drew.
RequestState == [phase : Phase, put : BOOLEAN, old : Reference, new : Reference]

Idle == [phase |-> "idle", put |-> FALSE, old |-> 0, new |-> 0]

Names(value) == given' = given \cup ({value} \ {0}) /\ Cardinality(given') <= MaxGiven

InitCredential ==
  /\ ref = 0
  /\ secrets = {}
  /\ drawn = 0
  /\ past = {0} /\ given = {}
  /\ requests = [r \in Request |-> Idle]

-----------------------------------------------------------------------------

Doing(r, phase) == requests[r].phase = phase

Proceed(r, k) == requests' = [requests EXCEPT ![r] = k]

Refer(value) == ref' = value /\ past' = past \cup {value}

PutCredential(r) ==
  /\ Doing(r, "idle")
  /\ Proceed(r, [phase |-> "store", put |-> TRUE, old |-> ref, new |-> 0])
  /\ UNCHANGED <<ref, secrets, drawn, history>>

DeleteCredential(r) ==
  /\ Doing(r, "idle")
  /\ Proceed(r, [phase |-> "write", put |-> FALSE, old |-> ref, new |-> 0])
  /\ UNCHANGED <<ref, secrets, drawn, history>>

\* The identifier belongs to the provider and is not drawn anew.
NewReferenceBug == 1

NewReference == drawn + 1

Store(r) ==
  /\ Doing(r, "store")
  /\ drawn < MaxSecrets
  /\ drawn' = drawn + 1
  /\ secrets' = secrets \cup {NewReference}
  /\ Proceed(r, [requests[r] EXCEPT !.phase = "write", !.new = NewReference])
  /\ UNCHANGED <<ref, history>>

RefersToStore(r) == requests[r].old # 0

\* update_provider commits.
Write(r) ==
  /\ Doing(r, "write")
  /\ Refer(requests[r].new)
  /\ Proceed(r, IF RefersToStore(r)
               THEN [requests[r] EXCEPT !.phase = "delete"]
               ELSE Idle)
  /\ UNCHANGED <<secrets, drawn, given>>

\* update_provider raises: the endpoint is no longer allowed, for instance.
WriteRefused(r) ==
  /\ "refuse" \in Disturbances
  /\ Doing(r, "write")
  /\ Proceed(r, IF requests[r].put
               THEN [requests[r] EXCEPT !.phase = "undo"]
               ELSE Idle)
  /\ UNCHANGED <<ref, secrets, drawn, history>>

\* A refused write takes back the old secret.
UndoneBug(r) == requests[r].old

Undone(r) == requests[r].new

Undo(r) ==
  /\ Doing(r, "undo")
  /\ secrets' = secrets \ {Undone(r)}
  /\ Proceed(r, Idle)
  /\ UNCHANGED <<ref, drawn, history>>

DeleteOld(r) ==
  /\ Doing(r, "delete")
  /\ secrets' = secrets \ {requests[r].old}
  /\ Proceed(r, Idle)
  /\ UNCHANGED <<ref, drawn, history>>

\* PATCH of the provider sets any reference, without a look at the store: one of
\* a secret that is there, has been deleted, belongs to a request on its way or
\* was never drawn.  A provider created with a reference is patched at once.
Patch(value) ==
  /\ "patch" \in Disturbances
  /\ Refer(value)
  /\ Names(value)
  /\ UNCHANGED <<secrets, drawn, requests>>

\* Another provider that was given the reference puts or deletes its credential.
DeleteElsewhere(value) ==
  /\ "patch" \in Disturbances
  /\ Names(value)
  /\ secrets' = secrets \ {value}
  /\ UNCHANGED <<ref, drawn, past, requests>>

\* The process stops, or a statement of the store fails.
Crash(r) ==
  /\ "crash" \in Disturbances
  /\ ~Doing(r, "idle")
  /\ Proceed(r, Idle)
  /\ UNCHANGED <<ref, secrets, drawn, history>>

NextCredential ==
  \/ \E r \in Request :
       \/ PutCredential(r)
       \/ DeleteCredential(r)
       \/ Store(r)
       \/ Write(r)
       \/ WriteRefused(r)
       \/ Undo(r)
       \/ DeleteOld(r)
       \/ Crash(r)
  \/ \E value \in Reference : Patch(value)
  \/ \E value \in Secret : DeleteElsewhere(value)

CredentialSpec == InitCredential /\ [][NextCredential]_credentialVars

-----------------------------------------------------------------------------

\* Every variable has its type, and a request that deletes names a secret.
CredentialTypeOK ==
  /\ ref \in Reference
  /\ secrets \subseteq Secret
  /\ drawn \in 0..MaxSecrets
  /\ past \subseteq Reference /\ given \subseteq Secret
  /\ requests \in [Request -> RequestState]
  /\ \A r \in Request : Doing(r, "delete") => requests[r].old # 0

\* However put, delete and patch requests interleave, fail half-way or stop, the
\* provider row never refers to a secret that is not in the store, unless a POST
\* or PATCH, of this provider or another, has named that very secret.
ReferenceResolves == ref # 0 /\ ref \notin given => ref \in secrets

\* A rotation always gives a reference the row never had: the configuration
\* digest changes, and evidence probed under an earlier credential cannot
\* become current again, unless a PATCH names the reference.
RotationIsFresh ==
  [][ref' \notin {0, ref} /\ ref' \notin given' => ref' \notin past]_credentialVars
===============================================================================
