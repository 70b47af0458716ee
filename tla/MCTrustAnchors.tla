---------------------------- MODULE MCTrustAnchors ----------------------------
(***************************************************************************)
(* TrustAnchors for TLC: two types, an issuer listed in its country or at  *)
(* EU level, or not at all, next to a foreign anchor.                      *)
(***************************************************************************)
EXTENDS TrustAnchors

CONSTANTS provider, status, country, eu, issuer, other, pid, eaa, unknown, scope

MCOrder == <<country, eu>>
Listed(inCountry, inEU) == [c \in Territories |-> IF c = country THEN inCountry ELSE inEU]
MCListings == {Listed({}, {}), Listed({issuer}, {}), Listed({other}, {issuer})}

\* A class for PID, and one scoped to a use case the issuer may not have.
MCConfigured == << [types |-> {eaa}, issuance |-> <<provider, status>>, useCase |-> scope] >>
MCDefaults == << [types |-> {pid, eaa}, issuance |-> <<provider>>, useCase |-> Unscoped] >>
MCFallback == <<status, provider>>
MCStatusType == [t \in {provider} |-> status]
MCUseCases == [l \in Types \X Anchors |-> IF l[2] = issuer THEN {scope} ELSE {}]
=============================================================================
