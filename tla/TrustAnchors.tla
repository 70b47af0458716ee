----------------------------- MODULE TrustAnchors -----------------------------
(***************************************************************************)
(* One resolution of an issuer, or of a status-list signer, against the    *)
(* trust anchors a worker caches in Valkey (internal/anchors/valkey.go and *)
(* resolveByTypes in internal/pipeline/check_issuer_authenticity.go).      *)
(*                                                                         *)
(* A lookup reads one key per step, so that the worker's syncs, expiry and *)
(* failing reads come in between.  A type's ValidUntil is the number of    *)
(* ticks left until it: 0 is that very instant, -1 any time after it.      *)
(***************************************************************************)
EXTENDS Integers, Sequences, FiniteSets

CONSTANTS
    Types,          \* trust-anchor types
    Territories,    \* the issuer's country and the EU level
    Anchors,
    TerritoryOrder, \* what go-eudi-trust asks for, in order
    Listings,       \* what a sync may find: territory -> anchors
    Credentials,    \* vct or docType values
    Configured,     \* credential classes of the deployment's configuration
    Defaults,       \* built-in credential classes
    Fallback,       \* issuance types of a credential no class names
    StatusType,     \* types that have a *_status counterpart -> that type
    UseCases,       \* type, anchor -> the use cases it is accredited for there
    Unscoped,       \* the use case of a class that names none
    Validity,       \* ticks from a sync to the ValidUntil it writes
    MaxFaults       \* bound: reads that fail in one lookup

ASSUME LookupTyped ==
    /\ TerritoryOrder \in Seq(Territories) /\ TerritoryOrder # <<>>
    /\ Listings \subseteq [Territories -> SUBSET Anchors]
    /\ Fallback \in Seq(Types)
    /\ Configured \in Seq({Configured[k] : k \in DOMAIN Configured})
    /\ Defaults \in Seq({Defaults[k] : k \in DOMAIN Defaults})
    /\ \A k \in DOMAIN Configured : Configured[k].issuance \in Seq(Types)
    /\ \A k \in DOMAIN Defaults : Defaults[k].issuance \in Seq(Types)
    /\ DOMAIN StatusType \subseteq Types
    /\ \A t \in DOMAIN StatusType : StatusType[t] \in Types
    /\ Validity \in Nat /\ MaxFaults \in Nat

VARIABLES
    blob,       \* trust:anchors:<type>:<territory>, {} when there is no key
    marker,     \* types that have a trust:freshness:<type> key
    stale,      \* X-Trust-Stale of the last sync, on all its keys
    life,       \* ticks until ValidUntil of the last sync
    want,       \* the lookup: credential, signer sought, and its anchor
    pc, ti, ci, \* where it is: type and territory it is at
    faults,     \* reads that failed
    outcome,
    \* History, since the lookup began: types that were never current, types
    \* that always were, types whose blob always had the anchor; and whether a
    \* territory was taken for empty that its sync had filled
    degraded, healthy, readable, overlooked

cache   == <<blob, marker, stale, life>>
lookup  == <<pc, ti, ci, faults, outcome>>
history == <<degraded, healthy, readable, overlooked>>
vars    == <<cache, want, lookup, history>>

Wants == [credential : Credentials, signer : {"issuer", "status"}, anchor : Anchors]

\* The worker has not synced yet.
Init ==
    /\ blob = [t \in Types |-> [c \in Territories |-> {}]]
    /\ marker = {} /\ stale = {}
    /\ life = [t \in Types |-> -1]
    /\ want \in Wants
    /\ pc = "idle" /\ ti = 1 /\ ci = 1 /\ faults = 0 /\ outcome = "none"
    /\ degraded = {} /\ healthy = {} /\ readable = {} /\ overlooked = FALSE

-----------------------------------------------------------------------------
(***************************************************************************)
(* CredentialTrustMap: which types may vouch for a credential.             *)
(***************************************************************************)
\* ParseCredentialTrust: configured classes come first.
Classes == Configured \o Defaults

\* The first class that names the credential.
ClassOf(v) ==
    {Classes[k] : k \in {i \in DOMAIN Classes :
        v \in Classes[i].types /\ \A j \in 1 .. i - 1 : v \notin Classes[j].types}}

Issuance(v) ==
    IF ClassOf(v) = {} THEN Fallback ELSE (CHOOSE k \in ClassOf(v) : TRUE).issuance

\* The issuance types that have a status counterpart, in their order.
WithStatus(issuance) ==
    LET HasStatus(t) == t \in DOMAIN StatusType IN SelectSeq(issuance, HasStatus)

\* What SelectSeq leaves of a sequence of types is one.
ASSUME WithStatusTyped ==
    \A issuance \in {Fallback} \cup {Classes[k].issuance : k \in DOMAIN Classes} :
        WithStatus(issuance) \in Seq({t \in Types : t \in DOMAIN StatusType})

\* Each issuance type's status counterpart, then the issuance types.
Status(v) ==
    LET scoped == WithStatus(Issuance(v))
    IN  [i \in DOMAIN scoped |-> StatusType[scoped[i]]] \o Issuance(v)

UseCaseFor(v) ==
    IF ClassOf(v) = {} THEN Unscoped ELSE (CHOOSE k \in ClassOf(v) : TRUE).useCase

UseCaseAllowed(required, have) == required = Unscoped \/ required \in have

\* As the anchor that was found is listed under the type.
Accredited(t) == UseCaseAllowed(UseCaseFor(want.credential), UseCases[t, want.anchor])

TypesTried == IF want.signer = "issuer" THEN Issuance(want.credential)
                                        ELSE Status(want.credential)

\* Types, and the lookup within the types and territories it may try.
TypeOK ==
    /\ blob \in [Types -> [Territories -> SUBSET Anchors]]
    /\ marker \subseteq Types /\ stale \subseteq Types
    /\ life \in [Types -> -1 .. Validity]
    /\ want \in Wants
    /\ pc \in {"idle", "blob", "marker", "done"}
    /\ ti \in (1 .. Len(TypesTried)) \cup {1} /\ ci \in 1 .. Len(TerritoryOrder)
    /\ faults \in 0 .. MaxFaults
    /\ outcome \in {"none", "resolved", "untrusted", "unavailable"}
    /\ degraded \subseteq Types /\ healthy \subseteq Types /\ readable \subseteq Types
    /\ overlooked \in BOOLEAN

-----------------------------------------------------------------------------
(***************************************************************************)
(* What a read finds.                                                      *)
(***************************************************************************)
Present(t, c) == blob[t][c] # {}

\* AnchorsFor: not stale and not after ValidUntil.
Usable(t) == t \notin stale /\ life[t] \in Nat

\* Mutant: the grace of /readyz leaks into verification.
FreshWithGrace(t) == t \in marker /\ t \notin stale

\* typeFreshForVerification: before ValidUntil, without the grace.
TypeFreshForVerification(t) == t \in marker /\ t \notin stale /\ life[t] \in Nat \ {0}

\* The history of a step that changes the cache.
Remember ==
    /\ degraded' = {t \in degraded : ~Usable(t)'}
    /\ healthy' = {t \in healthy : TypeFreshForVerification(t)'}
    /\ readable' = {t \in readable : Usable(t)' /\ want.anchor \in blob'[t][TerritoryOrder[1]]}
    /\ UNCHANGED overlooked

-----------------------------------------------------------------------------
(***************************************************************************)
(* The worker and time, outside this repository, until the lookup ends.    *)
(***************************************************************************)
\* A sync swaps all keys of one type at once.
Sync(t) ==
    /\ pc # "done"
    /\ \E listing \in Listings : blob' = [blob EXCEPT ![t] = listing]
    /\ marker' = marker \cup {t}
    /\ stale' \in {stale \ {t}, stale \cup {t}}
    /\ life' = [life EXCEPT ![t] = Validity]
    /\ Remember
    /\ UNCHANGED <<want, lookup>>

\* One key goes: its TTL runs out, or the race of the worker's 304 path.
Vanish(t) ==
    /\ pc # "done"
    /\ \/ /\ \E c \in Territories : Present(t, c) /\ blob' = [blob EXCEPT ![t][c] = {}]
          /\ UNCHANGED marker
       \/ t \in marker /\ life[t] <= 0 /\ marker' = marker \ {t} /\ UNCHANGED blob
    /\ UNCHANGED <<stale, life, want, lookup>>
    /\ Remember

Tick ==
    /\ pc # "done"
    /\ life' = [t \in Types |-> IF life[t] >= 0 THEN life[t] - 1 ELSE -1]
    /\ UNCHANGED <<blob, marker, stale, want, lookup>>
    /\ Remember

-----------------------------------------------------------------------------
(***************************************************************************)
(* The lookup.                                                             *)
(***************************************************************************)
Type      == TypesTried[ti]
Territory == TerritoryOrder[ci]

Ends(o) == pc' = "done" /\ outcome' = o /\ UNCHANGED <<ti, ci>>

\* Mutant: the first type that does not resolve decides.
OnlyFirstType == Ends("untrusted")

\* Mutant: one type too many.
PastLastType ==
    \/ ti <= Len(TypesTried) /\ ti' = ti + 1 /\ ci' = 1 /\ pc' = "blob" /\ UNCHANGED outcome
    \/ ti > Len(TypesTried) /\ Ends("untrusted")

\* resolveByTypes goes on with the next type; the last error is the outcome.
NextType ==
    \/ ti < Len(TypesTried) /\ ti' = ti + 1 /\ ci' = 1 /\ pc' = "blob" /\ UNCHANGED outcome
    \/ ti = Len(TypesTried) /\ Ends("untrusted")

\* go-eudi-trust goes on with the next territory if there are no anchors here.
NextTerritory ==
    \/ ci < Len(TerritoryOrder) /\ ci' = ci + 1 /\ pc' = "blob" /\ UNCHANGED <<ti, outcome>>
    \/ ci = Len(TerritoryOrder) /\ NextType

\* No types at all: fail closed.
Begin ==
    /\ pc = "idle"
    /\ \/ TypesTried # <<>> /\ pc' = "blob" /\ UNCHANGED <<ti, ci, outcome>>
       \/ TypesTried = <<>> /\ Ends("untrusted")
    /\ degraded' = {t \in Types : ~Usable(t)}
    /\ healthy' = {t \in Types : TypeFreshForVerification(t)}
    /\ readable' = {t \in Types : Usable(t) /\ want.anchor \in blob[t][TerritoryOrder[1]]}
    /\ UNCHANGED <<cache, want, faults, overlooked>>

\* A read that fails is no ErrCacheExpired: the next type is tried.
ReadFails ==
    /\ pc = "blob"
    /\ faults < MaxFaults /\ faults' = faults + 1
    /\ NextType
    /\ UNCHANGED <<cache, want, history>>

\* resolveIssuerFor: the anchor that was found must be accredited.
Accept ==
    Ends(IF Accredited(Type) THEN "resolved" ELSE "untrusted")

\* Mutant: ErrCacheExpired does not stop resolveByTypes.
ExpiredGoesOn == NextType

\* resolveByTypes: ErrCacheExpired ends it.
Expired == Ends("unavailable")

ReadBlob ==
    /\ pc = "blob"
    /\ \/ ~Present(Type, Territory) /\ pc' = "marker" /\ UNCHANGED <<ti, ci, outcome>>
       \/ /\ Present(Type, Territory)
          /\ \/ ~Usable(Type) /\ Expired
             \/ Usable(Type) /\ want.anchor \in blob[Type][Territory] /\ Accept
             \/ Usable(Type) /\ want.anchor \notin blob[Type][Territory] /\ NextType
    /\ UNCHANGED <<cache, want, faults, history>>

\* Mutant: a missing blob is always taken for an expired one.
MissIsExpired ==
    /\ pc = "marker"
    /\ Expired
    /\ UNCHANGED <<cache, want, faults, history>>

\* A missing blob means no anchors if the type is fresh.  A marker that cannot
\* be read is one that is not fresh.
ReadMarker ==
    /\ pc = "marker"
    /\ \/ /\ TypeFreshForVerification(Type)
          /\ NextTerritory
          /\ overlooked' = (overlooked \/ Present(Type, Territory))
          /\ UNCHANGED faults
       \/ /\ ~TypeFreshForVerification(Type) /\ Expired
          /\ UNCHANGED <<faults, overlooked>>
       \/ /\ faults < MaxFaults /\ faults' = faults + 1
          /\ Expired
          /\ UNCHANGED overlooked
    /\ UNCHANGED <<cache, want, degraded, healthy, readable>>

Next ==
    \/ \E t \in Types : Sync(t) \/ Vanish(t)
    \/ Tick \/ Begin \/ ReadFails \/ ReadBlob \/ ReadMarker

Spec == Init /\ [][Next]_vars

-----------------------------------------------------------------------------
(***************************************************************************)
(* Properties.                                                             *)
(***************************************************************************)
\* Valkey, fail closed: an issuer is accepted on a type, or refused after some,
\* only if their anchors were current at some time during the lookup; the grace
\* of /readyz never makes up for it.  Only an anchor without accreditation ends
\* a refused lookup before its last type.
DecidedOnCurrentAnchors ==
    /\ outcome = "resolved" => Accredited(Type) /\ Type \notin degraded
    /\ outcome = "untrusted" /\ faults = 0 =>
        /\ \A i \in 1 .. Len(TypesTried) : i <= ti => TypesTried[i] \notin degraded
        /\ ti < Len(TypesTried) => ~Accredited(Type)

\* resolveByTypes: as long as reads succeed, no issuer is refused while its
\* anchor could be read all along, whatever the types tried before say.
ListedIssuerNotRefused ==
    /\ outcome = "untrusted" /\ faults = 0
    /\ \A i \in 1 .. Len(TypesTried) : Accredited(TypesTried[i])
    => \A i \in 1 .. Len(TypesTried) : TypesTried[i] \notin readable

\* A type that could not be used all along, or that had the anchor all along.
Unheard(t) == t \in degraded \/ (t \in readable /\ Accredited(t))
UnheardUpTo(n) == {i \in (1 .. n) \cap DOMAIN TypesTried : Unheard(TypesTried[i])}

\* resolveByTypes goes on after any error but ErrCacheExpired: an issuer may be refused
\* although a type that was tried could not be used, or would have vouched for it, but
\* each of these takes a read that failed, and all types are tried unless an anchor is
\* found that is not accredited.
EachFaultHidesOne ==
    outcome = "untrusted" =>
        /\ Cardinality(UnheardUpTo(ti)) <= faults
        /\ ti < Len(TypesTried) => ~Accredited(Type)

\* AnchorsFor: an issuer that is simply unknown is not taken for an outage of
\* the trust cache when that was current all along.
HealthyCacheDecides ==
    outcome = "unavailable" /\ faults = 0 =>
        \E i \in 1 .. Len(TypesTried) : TypesTried[i] \notin healthy

-----------------------------------------------------------------------------
(***************************************************************************)
(* The inductive invariant of TrustAnchorsProofs.                          *)
(***************************************************************************)
\* Where the lookup is.
PlaceInv ==
    /\ ti \in Nat \ {0} /\ ci \in Nat \ {0} /\ faults \in Nat
    /\ pc \in {"blob", "marker"} => ti <= Len(TypesTried)
    /\ pc \in {"idle", "blob", "marker"} => outcome = "none"
    /\ pc = "idle" => ti = 1 /\ ci = 1

\* The history agrees with the cache as it is.
HistoryInv ==
    /\ \A t \in degraded : ~Usable(t)
    /\ \A t \in healthy : TypeFreshForVerification(t)
    /\ \A t \in readable : Usable(t) /\ want.anchor \in blob[t][TerritoryOrder[1]]

\* The types the lookup has left behind were current and had not the anchor;
\* nor had the one it is at, once its first territory was found missing.
BehindInv ==
    /\ faults = 0 => \A i \in 1 .. Len(TypesTried) : i < ti =>
            TypesTried[i] \notin degraded /\ TypesTried[i] \notin readable
    /\ pc = "marker" \/ (pc = "blob" /\ ci > 1) => Type \notin readable

IndInv == /\ PlaceInv /\ HistoryInv /\ BehindInv
          /\ DecidedOnCurrentAnchors /\ ListedIssuerNotRefused /\ HealthyCacheDecides

-----------------------------------------------------------------------------
(***************************************************************************)
(* What comments say and the code does not keep.                           *)
(***************************************************************************)
\* AnchorsFor: a territory is confirmed empty by the sync that wrote the marker.
EmptyIsConfirmed == ~overlooked

\* wallet_error.go: trust anchors that cannot be reached are our fault, not a
\* reason to refuse the credential.
UnreachableIsOurs == outcome = "untrusted" /\ want.signer = "issuer" => faults = 0
=============================================================================
