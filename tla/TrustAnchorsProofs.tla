-------------------------- MODULE TrustAnchorsProofs --------------------------
(***************************************************************************)
(* Proofs about TrustAnchors, for any configuration of credential classes, *)
(* any listings and any number of failing reads.                           *)
(*                                                                         *)
(* The argument: a type is left behind only on an answer that took it for  *)
(* current, so it is not in degraded; and only if its first territory      *)
(* missed or did not list the anchor, so it is not in readable.  Both sets *)
(* only shrink during a lookup, which keeps what was left behind true.     *)
(*                                                                         *)
(* And about Readiness, with any required types and any grace: a behaviour *)
(* of it is one of TrustAnchors, and what the probe has passed over was in *)
(* order when it read it.                                                  *)
(***************************************************************************)
EXTENDS Readiness, FiniteSetTheorems, TLAPS

\* The classes of a deployment and the types each of them names are sequences.
LEMMA IssuanceTyped ==
    ASSUME NEW v
    PROVE  /\ Issuance(v) \in Seq(Types)
           /\ Issuance(v) \in {Fallback} \cup {Classes[k].issuance : k \in DOMAIN Classes}
<1> DEFINE C == {Configured[k] : k \in DOMAIN Configured}
           D == {Defaults[k] : k \in DOMAIN Defaults}
<1>1. \A k \in C \cup D : k.issuance \in Seq(Types)
  BY LookupTyped
<1>2. Configured \in Seq(C \cup D) /\ Defaults \in Seq(C \cup D)
  <2>1. Configured \in Seq(C) /\ Defaults \in Seq(D)
    BY LookupTyped
  <2> HIDE DEF C, D
  <2> QED BY <2>1
<1> HIDE DEF C, D
<1>3. Classes \in Seq(C \cup D)
  BY <1>2 DEF Classes
<1>4. \A k \in DOMAIN Classes : Classes[k] \in C \cup D
  BY <1>3
<1>5. CASE ClassOf(v) = {}
  BY <1>5, LookupTyped DEF Issuance
<1>6. CASE ClassOf(v) # {}
  <2>1. (CHOOSE k \in ClassOf(v) : TRUE) \in ClassOf(v)
    BY <1>6
  <2>2. PICK k \in DOMAIN Classes : (CHOOSE c \in ClassOf(v) : TRUE) = Classes[k]
    BY <2>1 DEF ClassOf
  <2>3. Issuance(v) = Classes[k].issuance
    BY <1>6, <2>2 DEF Issuance
  <2> QED BY <1>1, <1>4, <2>3
<1> QED BY <1>5, <1>6

\* What a lookup tries is a sequence of types, whatever is sought.
LEMMA TypesTriedTyped ==
    /\ TypesTried \in Seq(Types)
    /\ Len(TypesTried) \in Nat /\ DOMAIN TypesTried = 1 .. Len(TypesTried)
<1> DEFINE v == want.credential
           scoped == WithStatus(Issuance(v))
           mapped == [i \in DOMAIN scoped |-> StatusType[scoped[i]]]
<1>1. Issuance(v) \in Seq(Types)
  BY IssuanceTyped
<1>2. scoped \in Seq({t \in Types : t \in DOMAIN StatusType})
  BY IssuanceTyped, WithStatusTyped
<1>3. mapped \in Seq(Types)
  <2> DEFINE S == {t \in Types : t \in DOMAIN StatusType}
  <2>1. scoped \in Seq(S) /\ \A t \in S : StatusType[t] \in Types
    BY <1>2, LookupTyped
  <2> HIDE DEF S, scoped
  <2>2. DOMAIN scoped = 1 .. Len(scoped) /\ Len(scoped) \in Nat
        /\ \A i \in DOMAIN scoped : StatusType[scoped[i]] \in Types
    BY <2>1
  <2> QED BY <2>2
<1>4. mapped \o Issuance(v) \in Seq(Types)
  <2> HIDE DEF mapped
  <2> QED BY <1>1, <1>3
<1>5. Status(v) = mapped \o Issuance(v)
  BY DEF Status
<1>6. TypesTried \in Seq(Types)
  <2> HIDE DEF mapped
  <2> QED BY <1>1, <1>4, <1>5 DEF TypesTried
<1> HIDE DEF v
<1> QED BY <1>6

\* What a reading step leaves alone.
Frame == UNCHANGED <<cache, want, degraded, healthy, readable>>

\* Definitions that speak of unprimed state only through the frame.
LEMMA FrameKeeps ==
    ASSUME Frame
    PROVE  /\ TypesTried' = TypesTried
           /\ \A t : Accredited(t)' = Accredited(t)
           /\ \A t : Usable(t)' = Usable(t)
           /\ \A t : TypeFreshForVerification(t)' = TypeFreshForVerification(t)
<1>1. want' = want /\ blob' = blob /\ marker' = marker /\ stale' = stale /\ life' = life
  BY DEF Frame, cache
<1> QED BY <1>1 DEF TypesTried, Accredited, Usable, TypeFreshForVerification

\* Fresh for an empty set is current for one that is not.
LEMMA FreshIsUsable ==
    ASSUME NEW t, TypeFreshForVerification(t)
    PROVE  Usable(t)
BY DEF TypeFreshForVerification, Usable

\* Where the worker and time leave the lookup: the history only shrinks.
LEMMA WorldKeeps ==
    ASSUME IndInv, Remember, UNCHANGED <<want, lookup>>
    PROVE  IndInv'
<1>1. /\ TypesTried' = TypesTried
      /\ \A t : Accredited(t)' = Accredited(t)
  BY DEF TypesTried, Accredited
<1>2. Type' = Type
  BY <1>1 DEF Type, lookup
<1>3. degraded' \subseteq degraded /\ healthy' \subseteq healthy /\ readable' \subseteq readable
  BY DEF Remember
<1>4. PlaceInv'
  BY <1>1 DEF IndInv, PlaceInv, lookup
<1>5. HistoryInv'
  BY DEF Remember, HistoryInv
<1>6. BehindInv'
  BY <1>1, <1>2, <1>3 DEF IndInv, BehindInv, lookup
<1>7. DecidedOnCurrentAnchors'
  BY <1>1, <1>2, <1>3 DEF IndInv, DecidedOnCurrentAnchors, lookup
<1>8. ListedIssuerNotRefused'
  BY <1>1, <1>3 DEF IndInv, ListedIssuerNotRefused, lookup
<1>9. HealthyCacheDecides'
  BY <1>1, <1>3 DEF IndInv, HealthyCacheDecides, lookup
<1> QED BY <1>4, <1>5, <1>6, <1>7, <1>8, <1>9 DEF IndInv

\* The history under a step that only reads.
LEMMA HistoryKept ==
    ASSUME IndInv, Frame
    PROVE  HistoryInv'
<1>1. /\ want' = want /\ blob' = blob /\ degraded' = degraded /\ healthy' = healthy
      /\ readable' = readable
  BY DEF Frame, cache
<1> QED BY <1>1, FrameKeeps DEF IndInv, HistoryInv

\* A lookup that ends keeps the invariant if its outcome is a sound one.
LEMMA EndKeeps ==
    ASSUME IndInv, Frame, NEW o, Ends(o), faults' \in Nat, faults' = 0 => faults = 0,
           DecidedOnCurrentAnchors', ListedIssuerNotRefused', HealthyCacheDecides'
    PROVE  IndInv'
<1>1. PlaceInv'
  BY FrameKeeps DEF IndInv, PlaceInv, Ends
<1>2. BehindInv'
  BY FrameKeeps DEF IndInv, BehindInv, Ends, Frame
<1> QED BY <1>1, <1>2, HistoryKept DEF IndInv

\* A type the lookup leaves behind was current, and had not the anchor in its
\* first territory, unless a read has failed.
LEMMA NextTypeKeeps ==
    ASSUME IndInv, Frame, pc \in {"blob", "marker"}, NextType, faults' \in Nat,
           faults' = 0 => faults = 0 /\ Type \notin degraded /\ Type \notin readable
    PROVE  IndInv'
<1>1. ti \in Nat \ {0} /\ ti <= Len(TypesTried) /\ outcome = "none" /\ TypesTried' = TypesTried
  BY FrameKeeps DEF IndInv, PlaceInv
<1>2. degraded' = degraded /\ readable' = readable /\ want' = want
  BY DEF Frame
<1>3. faults' = 0 => \A i \in 1 .. Len(TypesTried) : i <= ti =>
        TypesTried[i] \notin degraded /\ TypesTried[i] \notin readable
  <2> SUFFICES ASSUME faults' = 0, NEW i \in 1 .. Len(TypesTried), i <= ti
               PROVE  TypesTried[i] \notin degraded /\ TypesTried[i] \notin readable
    OBVIOUS
  <2>1. CASE i = ti
    BY <2>1 DEF Type
  <2>2. CASE i # ti
    <3>1. i < ti
      BY <1>1, <2>2
    <3> QED BY <3>1 DEF IndInv, BehindInv
  <2> QED BY <2>1, <2>2
<1>4. CASE ti < Len(TypesTried) /\ ti' = ti + 1 /\ ci' = 1 /\ pc' = "blob" /\ outcome' = outcome
  <2>1. PlaceInv'
    BY <1>1, <1>4 DEF PlaceInv
  <2>2. \A i \in 1 .. Len(TypesTried) : i < ti' => i <= ti
    BY <1>1, <1>4
  <2>3. BehindInv'
    BY <1>1, <1>2, <1>3, <1>4, <2>2 DEF BehindInv
  <2>4. outcome' = "none"
    BY <1>1, <1>4
  <2>5. DecidedOnCurrentAnchors' /\ ListedIssuerNotRefused' /\ HealthyCacheDecides'
    BY <2>4 DEF DecidedOnCurrentAnchors, ListedIssuerNotRefused, HealthyCacheDecides
  <2> QED BY <2>1, <2>3, <2>5, HistoryKept DEF IndInv
<1>5. CASE ti = Len(TypesTried) /\ Ends("untrusted")
  <2>1. outcome' = "untrusted" /\ ti' = ti
    BY <1>5 DEF Ends
  <2>2. ~(ti < Len(TypesTried)) /\ \A i \in 1 .. Len(TypesTried) : i <= ti
    BY <1>1, <1>5
  <2>3. DecidedOnCurrentAnchors'
    BY <1>1, <1>2, <1>3, <2>1, <2>2 DEF DecidedOnCurrentAnchors
  <2>4. ListedIssuerNotRefused'
    BY <1>1, <1>2, <1>3, <2>1, <2>2 DEF ListedIssuerNotRefused
  <2>5. HealthyCacheDecides'
    BY <2>1 DEF HealthyCacheDecides
  <2> QED BY <1>5, <2>3, <2>4, <2>5, EndKeeps
<1> QED BY <1>4, <1>5 DEF NextType

\* ErrCacheExpired is right about the type the lookup is at, if all reads
\* succeeded.
LEMMA ExpiredKeeps ==
    ASSUME IndInv, Frame, pc \in {"blob", "marker"}, Expired, faults' \in Nat,
           faults' = 0 => faults = 0 /\ ~TypeFreshForVerification(Type)
    PROVE  IndInv'
<1>1. /\ ti \in Nat \ {0} /\ ti <= Len(TypesTried) /\ TypesTried' = TypesTried
      /\ healthy' = healthy
  BY FrameKeeps DEF IndInv, PlaceInv, Frame
<1>2. outcome' = "unavailable" /\ Ends("unavailable")
  BY DEF Expired, Ends
<1>3. DecidedOnCurrentAnchors' /\ ListedIssuerNotRefused'
  BY <1>2 DEF DecidedOnCurrentAnchors, ListedIssuerNotRefused
<1>4. faults' = 0 => Type \notin healthy
  BY DEF IndInv, HistoryInv
<1>5. ti \in 1 .. Len(TypesTried)
  BY <1>1
<1>6. HealthyCacheDecides'
  BY <1>1, <1>4, <1>5 DEF HealthyCacheDecides, Type
<1> QED BY <1>2, <1>3, <1>6, EndKeeps

LEMMA BeginKeeps ==
    ASSUME IndInv, Begin
    PROVE  IndInv'
<1>1. /\ want' = want /\ blob' = blob /\ marker' = marker /\ stale' = stale /\ life' = life
      /\ TypesTried' = TypesTried /\ faults' = faults
  BY DEF Begin, cache, TypesTried
<1>2. ti = 1 /\ ci = 1 /\ ti' = 1 /\ ci' = 1 /\ pc = "idle" /\ outcome = "none" /\ faults \in Nat
  BY DEF IndInv, PlaceInv, Begin, Ends
<1>3. HistoryInv'
  BY <1>1 DEF Begin, HistoryInv, Usable, TypeFreshForVerification
<1>4. BehindInv'
  BY <1>1, <1>2 DEF Begin, BehindInv, Ends
<1>5. CASE TypesTried # <<>> /\ pc' = "blob" /\ UNCHANGED <<ti, ci, outcome>>
  <2>1. PlaceInv'
    <3>1. TypesTried # <<>> => 1 <= Len(TypesTried)
      BY TypesTriedTyped
    <3> QED BY <1>1, <1>2, <1>5, <3>1 DEF PlaceInv
  <2>2. DecidedOnCurrentAnchors' /\ ListedIssuerNotRefused' /\ HealthyCacheDecides'
    BY <1>2, <1>5 DEF DecidedOnCurrentAnchors, ListedIssuerNotRefused, HealthyCacheDecides
  <2> QED BY <1>3, <1>4, <2>1, <2>2 DEF IndInv
<1>6. CASE TypesTried = <<>> /\ Ends("untrusted")
  <2>1. TypesTried' = <<>> /\ Len(<<>>) = 0 /\ pc' = "done" /\ outcome' = "untrusted"
    BY <1>1, <1>6 DEF Ends
  <2>2. PlaceInv'
    BY <1>1, <1>2, <2>1 DEF PlaceInv
  <2>3. DecidedOnCurrentAnchors' /\ ListedIssuerNotRefused' /\ HealthyCacheDecides'
    BY <1>2, <2>1 DEF DecidedOnCurrentAnchors, ListedIssuerNotRefused, HealthyCacheDecides
  <2> QED BY <1>3, <1>4, <2>2, <2>3 DEF IndInv
<1> QED BY <1>5, <1>6 DEF Begin

LEMMA ReadFailsKeeps ==
    ASSUME IndInv, ReadFails
    PROVE  IndInv'
<1>1. Frame /\ NextType /\ pc \in {"blob", "marker"}
  BY DEF ReadFails, Frame, history
<1>2. faults' \in Nat /\ faults' # 0
  BY DEF ReadFails, IndInv, PlaceInv
<1> QED BY <1>1, <1>2, NextTypeKeeps

\* A blob that is there: refused if stale, accepted if it lists the anchor.
LEMMA ReadBlobKeeps ==
    ASSUME IndInv, ReadBlob
    PROVE  IndInv'
<1>1. /\ Frame /\ pc = "blob" /\ pc \in {"blob", "marker"} /\ faults' = faults
      /\ faults \in Nat /\ faults' \in Nat
  BY DEF ReadBlob, Frame, history, IndInv, PlaceInv
<1>2. TypesTried' = TypesTried /\ want' = want /\ degraded' = degraded /\ readable' = readable
  BY <1>1, FrameKeeps DEF Frame
<1>3. CASE ~Present(Type, Territory) /\ pc' = "marker" /\ UNCHANGED <<ti, ci, outcome>>
  <2>1. PlaceInv'
    BY <1>1, <1>2, <1>3 DEF IndInv, PlaceInv
  <2>2. Type \notin readable
    <3>1. CASE ci = 1
      BY <1>3, <3>1 DEF IndInv, HistoryInv, Present, Territory
    <3>2. CASE ci > 1
      BY <1>1, <3>2 DEF IndInv, BehindInv
    <3> QED BY <3>1, <3>2 DEF IndInv, PlaceInv
  <2>3. BehindInv'
    BY <1>1, <1>2, <1>3, <2>2 DEF IndInv, BehindInv, Type
  <2>4. outcome' = "none"
    BY <1>1, <1>3 DEF IndInv, PlaceInv
  <2>5. DecidedOnCurrentAnchors' /\ ListedIssuerNotRefused' /\ HealthyCacheDecides'
    BY <2>4 DEF DecidedOnCurrentAnchors, ListedIssuerNotRefused, HealthyCacheDecides
  <2> QED BY <1>1, <2>1, <2>3, <2>5, HistoryKept DEF IndInv
<1>4. CASE ~Usable(Type) /\ Expired
  BY <1>1, <1>4, FreshIsUsable, ExpiredKeeps
<1>5. CASE Usable(Type) /\ want.anchor \in blob[Type][Territory] /\ Accept
  <2>1. Type \notin degraded
    BY <1>5 DEF IndInv, HistoryInv
  <2>2. ti' = ti /\ Type' = Type
    BY <1>2, <1>5 DEF Accept, Ends, Type
  <2>3. Accredited(Type)' <=> Accredited(Type)
    BY <1>1, <2>2, FrameKeeps
  <2>4. CASE Accredited(Type) /\ Ends("resolved")
    <3>1. outcome' = "resolved"
      BY <2>4 DEF Ends
    <3>2. DecidedOnCurrentAnchors'
      BY <1>2, <2>1, <2>2, <2>3, <2>4, <3>1 DEF DecidedOnCurrentAnchors
    <3>3. ListedIssuerNotRefused' /\ HealthyCacheDecides'
      BY <3>1 DEF ListedIssuerNotRefused, HealthyCacheDecides
    <3> QED BY <1>1, <2>4, <3>2, <3>3, EndKeeps
  <2>5. CASE ~Accredited(Type) /\ Ends("untrusted")
    <3>1. outcome' = "untrusted"
      BY <2>5 DEF Ends
    <3>2. DecidedOnCurrentAnchors'
      <4>1. faults = 0 => \A i \in 1 .. Len(TypesTried) : i <= ti => TypesTried[i] \notin degraded
        BY <2>1 DEF IndInv, BehindInv, PlaceInv, Type
      <4> QED BY <1>1, <1>2, <2>2, <2>3, <2>5, <3>1, <4>1 DEF DecidedOnCurrentAnchors
    <3>3. ListedIssuerNotRefused'
      <4>1. ti \in 1 .. Len(TypesTried)
        BY <1>1 DEF IndInv, PlaceInv
      <4> QED BY <1>2, <2>2, <2>3, <2>5, <4>1 DEF ListedIssuerNotRefused, Type
    <3>4. HealthyCacheDecides'
      BY <3>1 DEF HealthyCacheDecides
    <3> QED BY <1>1, <2>5, <3>2, <3>3, <3>4, EndKeeps
  <2> QED BY <1>5, <2>4, <2>5 DEF Accept
<1>6. CASE Usable(Type) /\ want.anchor \notin blob[Type][Territory] /\ NextType
  <2>1. Type \notin degraded
    BY <1>6 DEF IndInv, HistoryInv
  <2>2. Type \notin readable
    <3>1. CASE ci = 1
      BY <1>6, <3>1 DEF IndInv, HistoryInv, Territory
    <3>2. CASE ci > 1
      BY <1>1, <3>2 DEF IndInv, BehindInv
    <3> QED BY <3>1, <3>2 DEF IndInv, PlaceInv
  <2> QED BY <1>1, <1>6, <2>1, <2>2, NextTypeKeeps
<1> QED BY <1>3, <1>4, <1>5, <1>6 DEF ReadBlob

\* A blob that is not there: what the marker says of it.
LEMMA ReadMarkerKeeps ==
    ASSUME IndInv, ReadMarker
    PROVE  IndInv'
<1>1. Frame /\ pc = "marker" /\ pc \in {"blob", "marker"} /\ faults \in Nat
  BY DEF ReadMarker, Frame, IndInv, PlaceInv
<1>2. TypesTried' = TypesTried /\ readable' = readable
  BY <1>1, FrameKeeps DEF Frame
<1>3. Type \notin readable
  BY <1>1 DEF IndInv, BehindInv
<1>4. CASE TypeFreshForVerification(Type) /\ NextTerritory /\ faults' = faults
  <2>1. Type \notin degraded
    BY <1>4, FreshIsUsable DEF IndInv, HistoryInv
  <2>2. CASE /\ ci < Len(TerritoryOrder) /\ ci' = ci + 1 /\ pc' = "blob"
             /\ UNCHANGED <<ti, outcome>>
    <3>1. PlaceInv'
      BY <1>1, <1>2, <1>4, <2>2 DEF IndInv, PlaceInv
    <3>2. BehindInv'
      <4>1. Type' = Type /\ ti' = ti /\ degraded' = degraded
        BY <1>1, <1>2, <2>2 DEF Type, Frame
      <4> QED BY <1>2, <1>3, <1>4, <4>1 DEF IndInv, BehindInv
    <3>3. outcome' = "none"
      BY <1>1, <2>2 DEF IndInv, PlaceInv
    <3>4. DecidedOnCurrentAnchors' /\ ListedIssuerNotRefused' /\ HealthyCacheDecides'
      BY <3>3 DEF DecidedOnCurrentAnchors, ListedIssuerNotRefused, HealthyCacheDecides
    <3> QED BY <1>1, <3>1, <3>2, <3>4, HistoryKept DEF IndInv
  <2>3. CASE NextType
    <3>1. faults' \in Nat
      BY <1>1, <1>4
    <3> QED BY <1>1, <1>3, <1>4, <2>1, <2>3, <3>1, NextTypeKeeps
  <2> QED BY <1>4, <2>2, <2>3 DEF NextTerritory
<1>5. CASE ~TypeFreshForVerification(Type) /\ Expired /\ faults' = faults
  <2>1. faults' \in Nat
    BY <1>1, <1>5
  <2> QED BY <1>1, <1>5, <2>1, ExpiredKeeps
<1>6. CASE faults' = faults + 1 /\ Expired
  <2>1. faults' \in Nat /\ faults' # 0
    BY <1>1, <1>6
  <2> QED BY <1>1, <1>6, <2>1, ExpiredKeeps
<1> QED BY <1>4, <1>5, <1>6 DEF ReadMarker

-----------------------------------------------------------------------------
\* What the lookup has left behind stays as it was found, for any worker, any
\* classes of credentials and any number of failing reads.
THEOREM Invariance == Spec => []IndInv
<1>1. Init => IndInv
  BY DEF Init, IndInv, PlaceInv, HistoryInv, BehindInv, DecidedOnCurrentAnchors,
         ListedIssuerNotRefused, HealthyCacheDecides
<1>2. IndInv /\ [Next]_vars => IndInv'
  <2> SUFFICES ASSUME IndInv, [Next]_vars PROVE IndInv'
    OBVIOUS
  <2>1. ASSUME NEW t \in Types, Sync(t) PROVE IndInv'
    BY <2>1, WorldKeeps DEF Sync
  <2>2. ASSUME NEW t \in Types, Vanish(t) PROVE IndInv'
    BY <2>2, WorldKeeps DEF Vanish
  <2>3. CASE Tick
    BY <2>3, WorldKeeps DEF Tick
  <2>4. CASE UNCHANGED vars
    <3>1. Remember /\ UNCHANGED <<want, lookup>>
      <4>1. UNCHANGED <<blob, marker, stale, life, want, lookup, history>>
        BY <2>4 DEF vars, cache
      <4>2. /\ \A t : Usable(t)' = Usable(t)
            /\ \A t : TypeFreshForVerification(t)' = TypeFreshForVerification(t)
        BY <4>1 DEF Usable, TypeFreshForVerification
      <4> QED BY <4>1, <4>2 DEF Remember, history, IndInv, HistoryInv
    <3> QED BY <3>1, WorldKeeps
  <2> QED BY <2>1, <2>2, <2>3, <2>4, BeginKeeps, ReadFailsKeeps, ReadBlobKeeps, ReadMarkerKeeps
          DEF Next
<1> QED BY <1>1, <1>2, PTL DEF Spec

\* Valkey, fail closed: no issuer is accepted, nor refused, on anchors that
\* were degraded all along.
THEOREM DecidedOnCurrent == Spec => []DecidedOnCurrentAnchors
<1>1. IndInv => DecidedOnCurrentAnchors
  BY DEF IndInv
<1> QED BY <1>1, Invariance, PTL

\* resolveByTypes: no issuer is refused while its anchor could be read.
THEOREM ListedNotRefused == Spec => []ListedIssuerNotRefused
<1>1. IndInv => ListedIssuerNotRefused
  BY DEF IndInv
<1> QED BY <1>1, Invariance, PTL

\* AnchorsFor: no outage is reported while every type is fresh.
THEOREM HealthyDecides == Spec => []HealthyCacheDecides
<1>1. IndInv => HealthyCacheDecides
  BY DEF IndInv
<1> QED BY <1>1, Invariance, PTL

-----------------------------------------------------------------------------
\* Types.  A lookup that is over keeps its place, and reads have a limit.
TypeInv == TypeOK /\ PlaceInv

\* Where the lookup goes from a type: to the next one, while there is one.
LEMMA NextTypeTyped ==
    ASSUME TypeInv, NextType, pc \in {"blob", "marker"}, UNCHANGED want
    PROVE  /\ ti' \in (1 .. Len(TypesTried)') \cup {1} /\ ci' \in 1 .. Len(TerritoryOrder)
           /\ pc' \in {"blob", "done"} /\ outcome' \in {"none", "untrusted"}
<1>1. TypesTried' = TypesTried
  BY DEF TypesTried
<1>2. ti \in 1 .. Len(TypesTried) /\ ci \in 1 .. Len(TerritoryOrder) /\ outcome = "none"
  BY DEF TypeInv, TypeOK, PlaceInv
<1> QED BY <1>1, <1>2 DEF NextType, Ends

\* Every step keeps the types.
LEMMA TypeStep == TypeInv /\ PlaceInv' /\ [Next]_vars => TypeOK'
<1> SUFFICES ASSUME TypeInv, PlaceInv', [Next]_vars PROVE TypeOK'
  OBVIOUS
<1> USE DEF TypeInv
<1>0. /\ Validity \in Nat /\ MaxFaults \in Nat /\ Listings \subseteq [Territories -> SUBSET Anchors]
      /\ Len(TerritoryOrder) \in Nat
  BY LookupTyped
<1>1. ASSUME UNCHANGED <<want, lookup>>, Remember,
             blob' \in [Types -> [Territories -> SUBSET Anchors]],
             marker' \subseteq Types, stale' \subseteq Types, life' \in [Types -> -1 .. Validity]
      PROVE  TypeOK'
  <2>1. TypesTried' = TypesTried
    BY <1>1 DEF TypesTried
  <2>2. degraded' \subseteq Types /\ healthy' \subseteq Types /\ readable' \subseteq Types
        /\ overlooked' \in BOOLEAN
    BY <1>1 DEF Remember, TypeOK
  <2> QED BY <1>1, <2>1, <2>2 DEF TypeOK, lookup
<1>2. ASSUME NEW t \in Types, Sync(t) PROVE TypeOK'
  <2>1. blob' \in [Types -> [Territories -> SUBSET Anchors]]
    BY <1>0, <1>2 DEF Sync, TypeOK
  <2>2. marker' \subseteq Types /\ stale' \subseteq Types /\ life' \in [Types -> -1 .. Validity]
    BY <1>0, <1>2 DEF Sync, TypeOK
  <2> QED BY <1>1, <1>2, <2>1, <2>2 DEF Sync
<1>3. ASSUME NEW t \in Types, Vanish(t) PROVE TypeOK'
  <2>1. blob' \in [Types -> [Territories -> SUBSET Anchors]]
    <3>1. CASE UNCHANGED blob
      BY <3>1 DEF TypeOK
    <3>2. ASSUME NEW c \in Territories, blob' = [blob EXCEPT ![t][c] = {}]
          PROVE  blob' \in [Types -> [Territories -> SUBSET Anchors]]
      <4>1. [blob[t] EXCEPT ![c] = {}] \in [Territories -> SUBSET Anchors]
        BY DEF TypeOK
      <4> QED BY <3>2, <4>1 DEF TypeOK
    <3> QED BY <1>3, <3>1, <3>2 DEF Vanish
  <2>2. marker' \subseteq Types /\ UNCHANGED <<stale, life>>
    BY <1>3 DEF Vanish, TypeOK
  <2> QED BY <1>1, <1>3, <2>1, <2>2 DEF Vanish, TypeOK
<1>4. CASE Tick
  <2>1. life' \in [Types -> -1 .. Validity]
    BY <1>0, <1>4 DEF Tick, TypeOK
  <2> QED BY <1>1, <1>4, <2>1 DEF Tick, TypeOK
<1>5. ASSUME UNCHANGED <<cache, want>>,
             pc' \in {"idle", "blob", "marker", "done"},
             ti' \in (1 .. Len(TypesTried)') \cup {1}, ci' \in 1 .. Len(TerritoryOrder),
             faults' \in 0 .. MaxFaults,
             outcome' \in {"none", "resolved", "untrusted", "unavailable"},
             degraded' \subseteq Types, healthy' \subseteq Types, readable' \subseteq Types,
             overlooked' \in BOOLEAN
      PROVE  TypeOK'
  BY <1>5 DEF TypeOK, cache
<1>6. CASE Begin
  <2>1. TypesTried' = TypesTried
    BY <1>6 DEF Begin, TypesTried
  <2>2. /\ pc' \in {"blob", "done"} /\ UNCHANGED <<ti, ci, faults, overlooked>>
        /\ outcome' \in {outcome, "untrusted"}
    BY <1>6 DEF Begin, Ends
  <2>3. degraded' \subseteq Types /\ healthy' \subseteq Types /\ readable' \subseteq Types
    BY <1>6 DEF Begin
  <2> QED BY <1>5, <1>6, <2>1, <2>2, <2>3 DEF Begin, TypeOK
<1>7. CASE ReadFails
  <2>1. faults' \in 0 .. MaxFaults
    BY <1>0, <1>7 DEF ReadFails, TypeOK
  <2> QED BY <1>5, <1>7, <2>1, NextTypeTyped DEF ReadFails, TypeOK, history
<1>8. CASE ReadBlob
  <2>1. TypesTried' = TypesTried
    BY <1>8 DEF ReadBlob, TypesTried
  <2>2. \/ /\ pc' \in {"marker", "done"} /\ UNCHANGED <<ti, ci>>
           /\ outcome' \in {outcome, "resolved", "untrusted", "unavailable"}
        \/ NextType
    BY <1>8 DEF ReadBlob, Expired, Accept, Ends
  <2> QED BY <1>5, <1>8, <2>1, <2>2, NextTypeTyped DEF ReadBlob, TypeOK, history
<1>9. CASE ReadMarker
  <2>1. TypesTried' = TypesTried
    BY <1>9 DEF ReadMarker, TypesTried
  <2>2. faults' \in 0 .. MaxFaults /\ overlooked' \in BOOLEAN
    <3>1. UNCHANGED faults \/ (faults < MaxFaults /\ faults' = faults + 1)
      BY <1>9 DEF ReadMarker
    <3>2. faults' \in 0 .. MaxFaults
      BY <1>0, <3>1 DEF TypeOK
    <3>3. UNCHANGED overlooked \/ overlooked' = (overlooked \/ Present(Type, Territory))
      BY <1>9 DEF ReadMarker
    <3>4. (overlooked \/ Present(Type, Territory)) \in BOOLEAN
      BY Zenon
    <3>5. overlooked \in BOOLEAN
      BY DEF TypeOK
    <3> QED BY <3>2, <3>3, <3>4, <3>5
  <2>3. \/ pc' = "done" /\ UNCHANGED <<ti, ci>> /\ outcome' = "unavailable"
        \/ ci < Len(TerritoryOrder) /\ ci' = ci + 1 /\ pc' = "blob" /\ UNCHANGED <<ti, outcome>>
        \/ NextType
    BY <1>9 DEF ReadMarker, Expired, Ends, NextTerritory
  <2>4. ci < Len(TerritoryOrder) => ci + 1 \in 1 .. Len(TerritoryOrder)
    BY <1>0 DEF TypeOK
  <2> QED BY <1>5, <1>9, <2>1, <2>2, <2>3, <2>4, NextTypeTyped DEF ReadMarker, TypeOK
<1>10. CASE UNCHANGED vars
  <2>1. UNCHANGED <<blob, marker, stale, life, want, pc, ti, ci, faults, outcome, degraded,
                    healthy, readable, overlooked>> /\ TypesTried' = TypesTried
    BY <1>10 DEF vars, cache, lookup, history, TypesTried
  <2> QED BY <2>1 DEF TypeOK
<1> QED BY <1>2, <1>3, <1>4, <1>6, <1>7, <1>8, <1>9, <1>10 DEF Next

\* Every reachable state of a lookup is well typed, and its place within what it tries.
THEOREM LookupTypeCorrect == Spec => []TypeOK
<1>1. Init => TypeOK
  <2> SUFFICES ASSUME Init PROVE TypeOK
    OBVIOUS
  <2>1. 1 \in 1 .. Len(TerritoryOrder)
    <3>1. Len(TerritoryOrder) \in Nat /\ Len(TerritoryOrder) # 0
      BY LookupTyped
    <3> QED BY <3>1
  <2>2. /\ blob \in [Types -> [Territories -> SUBSET Anchors]]
        /\ life \in [Types -> -1 .. Validity] /\ 0 \in 0 .. MaxFaults
    BY LookupTyped DEF Init
  <2> QED BY <2>1, <2>2 DEF Init, TypeOK
<1>2. IndInv => PlaceInv
  BY DEF IndInv
<1>3. TypeOK /\ PlaceInv /\ PlaceInv' /\ [Next]_vars => TypeOK'
  BY TypeStep DEF TypeInv
<1> QED BY <1>1, <1>2, <1>3, Invariance, PTL DEF Spec

-----------------------------------------------------------------------------
\* The probe and the records it reads besides touch nothing of a lookup's.
LEMMA ProbeSteps == [ReadinessNext]_<<vars, readiness>> => [Next]_vars
<1>1. ASSUME Environment PROVE [Next]_vars
  <2>1. \A t \in Types : (ProbedSync(t) => Sync(t)) /\ (ProbedVanish(t) => Vanish(t))
    BY DEF ProbedSync, ProbedVanish
  <2>2. ProbedTick => Tick
    BY DEF ProbedTick
  <2>3. SyncSnapshot \/ Outage => UNCHANGED vars
    BY DEF SyncSnapshot, Outage
  <2> QED BY <1>1, <2>1, <2>2, <2>3 DEF Environment, Next
<1>2. ASSUME PingDB \/ PingValkey \/ ReadFreshness \/ ReadSnapshot \/ AnswerProbe
      PROVE  UNCHANGED vars
  BY <1>2 DEF PingDB, PingValkey, ReadFreshness, ReadSnapshot, AnswerProbe
<1> QED BY <1>1, <1>2 DEF ReadinessNext

\* What is proved of a lookup holds next to a probe.
THEOREM ProbeIsIdle == ReadinessSpec => Spec
<1>1. ReadinessInit => Init
  BY DEF ReadinessInit
<1> QED BY <1>1, ProbeSteps, PTL DEF ReadinessSpec, Spec

\* The history of a probe agrees with the cache, and a component it has passed over
\* was in order when it read it.
ProbeInv ==
    /\ at \in Nat \ {0}
    /\ probe \in {"off", "postgres", "valkey", "anchors", "snapshot", "answer", "answered"}
    /\ snapshot \in {"absent", "current", "pending", "stale"}
    /\ probe = "valkey" => at = 1
    /\ probe = "postgres" => at = 1 /\ failing = {}
    /\ probe = "off" => failing = {}
    /\ broken \subseteq Components /\ sound \subseteq Components
    /\ probe # "off" => /\ \A c \in broken : ~InOrder(c)
                        /\ \A c \in sound : InOrder(c)
    /\ failing \cap sound = {}
    /\ failing = {} /\ probe = "anchors" =>
        \A i \in DOMAIN TypeList : i < at => TypeList[i] \notin broken
    /\ failing = {} /\ probe \in {"snapshot", "answer", "answered"} =>
        \A i \in DOMAIN TypeList : TypeList[i] \notin broken
    /\ failing = {} /\ probe \in {"answer", "answered"} => "snapshot" \notin broken
    /\ code = 200 => failing = {} /\ probe = "answered"

\* Nothing is in order before the first sync.
LEMMA ProbeInit == ReadinessInit => ProbeInv
  BY DEF ReadinessInit, Init, ProbeInv, InOrder, FreshForReadyz

\* A step of the probe changes nothing that it reads.
LEMMA InOrderKept ==
    UNCHANGED <<vars, records>> =>
        UNCHANGED snapshot /\ \A c : InOrder(c)' = InOrder(c)
  BY DEF vars, cache, records, InOrder, FreshForReadyz

\* A marker that is read as not fresh is not in order, and the other way round.
LEMMA MarkerJudged ==
    ASSUME NEW t \in Types
    PROVE  InOrder(t) <=> MarkerReads(t)
<1>1. t # "snapshot"
  BY ReadinessTyped
<1> QED BY <1>1 DEF InOrder, MarkerReads

\* What the probe reads next joins what was in order, or what failed.
LEMMA ProbeStep == ProbeInv /\ [ReadinessNext]_<<vars, readiness>> => ProbeInv'
<1> SUFFICES ASSUME ProbeInv, [ReadinessNext]_<<vars, readiness>> PROVE ProbeInv'
  OBVIOUS
<1>0. {"postgres", "valkey"} \cap Components = {} /\ Required \subseteq Types
      /\ TypeList \in Seq(Types) /\ Len(TypeList) \in Nat /\ DOMAIN TypeList = 1 .. Len(TypeList)
  BY ReadinessTyped DEF Components
<1>1. CASE probe = "off" /\ Next /\ UNCHANGED readiness
  <2>1. UNCHANGED <<probe, at, failing, code, snapshot, sound, broken>>
    BY <1>1 DEF readiness, probing, records
  <2> QED BY <1>1, <2>1 DEF ProbeInv
<1>2. CASE Environment
  <2>1. UNCHANGED <<probe, at, failing, code>> /\ probe # "off"
    BY <1>2 DEF Environment, probing
  <2>2. snapshot' \in {"absent", "current", "pending", "stale"}
    BY <1>2 DEF Environment, ProbedSync, ProbedVanish, ProbedTick, SyncSnapshot, Outage, records,
                ProbeInv
  <2>3. broken' \subseteq broken /\ sound' \subseteq sound
        /\ (\A c \in broken' : ~InOrder(c)') /\ (\A c \in sound' : InOrder(c)')
    BY <1>2 DEF Environment, Witness
  <2> QED BY <2>1, <2>2, <2>3 DEF ProbeInv
<1>3. CASE PingDB
  <2>1. /\ UNCHANGED <<vars, records, at, code>> /\ probe = "postgres" /\ probe' = "valkey"
        /\ sound' = {c \in Components : InOrder(c)} /\ broken' = {c \in Components : ~InOrder(c)}
        /\ failing' \in {failing, failing \cup {"postgres"}}
    BY <1>3 DEF PingDB, ProbeTo, Judge
  <2>2. failing' \cap sound' = {} /\ code # 200 /\ at = 1
    BY <1>0, <2>1 DEF ProbeInv
  <2> QED BY <2>1, <2>2, InOrderKept DEF ProbeInv
<1>4. CASE PingValkey
  <2>1. /\ UNCHANGED <<vars, records, at, code, sound, broken>>
        /\ probe = "valkey" /\ probe' = "anchors"
        /\ failing' \in {failing, failing \cup {"valkey"}}
    BY <1>4 DEF PingValkey, ProbeTo, Judge
  <2>2. failing' \cap sound' = {} /\ code # 200 /\ at = 1
    BY <1>0, <2>1 DEF ProbeInv
  <2>3. \A i \in DOMAIN TypeList : ~(i < at)
    BY <1>0, <2>2
  <2> QED BY <2>1, <2>2, <2>3, InOrderKept DEF ProbeInv
<1>5. CASE ReadFreshness
  <2> DEFINE t == TypeList[at]
  <2>1. /\ UNCHANGED <<vars, records, code, sound, broken>> /\ probe = "anchors"
        /\ failing' = IF t \in Required => MarkerReads(t) THEN failing ELSE failing \cup {t}
        /\ \/ at < Len(TypeList) /\ at' = at + 1 /\ probe' = "anchors"
           \/ at = Len(TypeList) /\ probe' = "snapshot" /\ at' = at
    BY <1>5 DEF ReadFreshness, ProbeTo, Judge
  <2>2. at \in DOMAIN TypeList /\ t \in Types
    <3>1. at < Len(TypeList) \/ at = Len(TypeList)
      BY <2>1
    <3>2. at \in Nat \ {0}
      BY DEF ProbeInv
    <3>3. Len(TypeList) \in Nat
      BY <1>0
    <3>4. at \in 1 .. Len(TypeList)
      BY <3>1, <3>2, <3>3
    <3> QED BY <1>0, <3>4
  <2>3. InOrder(t) <=> MarkerReads(t)
    BY <2>2, MarkerJudged
  <2>4. failing' = {} => failing = {} /\ t \notin broken
    <3>1. t # "snapshot"
      BY <2>2, ReadinessTyped
    <3> QED BY <2>1, <2>3, <3>1 DEF ProbeInv, Components
  <2>5. failing' \cap sound' = {}
    BY <2>1, <2>3 DEF ProbeInv
  <2>6. code # 200
    BY <2>1 DEF ProbeInv
  <2>7. at' \in Nat \ {0}
    BY <2>1 DEF ProbeInv
  <2>8. failing' = {} => \A i \in DOMAIN TypeList : i < at \/ i = at => TypeList[i] \notin broken
    BY <2>1, <2>4 DEF ProbeInv
  <2>9. failing' = {} /\ probe' = "anchors" =>
            \A i \in DOMAIN TypeList : i < at' => TypeList[i] \notin broken'
    <3>1. probe' = "anchors" => at' = at + 1
      BY <2>1
    <3>2. \A i \in DOMAIN TypeList : i < at + 1 => i < at \/ i = at
      BY <1>0, <2>2
    <3> QED BY <2>1, <2>8, <3>1, <3>2
  <2>10. failing' = {} /\ probe' = "snapshot" =>
            \A i \in DOMAIN TypeList : TypeList[i] \notin broken'
    <3>1. probe' = "snapshot" => at = Len(TypeList)
      BY <2>1
    <3>2. \A i \in DOMAIN TypeList : i < Len(TypeList) \/ i = Len(TypeList)
      BY <1>0
    <3> QED BY <2>1, <2>8, <3>1, <3>2
  <2>11. /\ snapshot' \in {"absent", "current", "pending", "stale"}
         /\ \A c \in broken' : ~InOrder(c)'
         /\ \A c \in sound' : InOrder(c)'
    BY <2>1, InOrderKept DEF ProbeInv
  <2>12. broken' \subseteq Components /\ sound' \subseteq Components /\ code' # 200
         /\ probe' \in {"anchors", "snapshot"}
    BY <2>1, <2>6 DEF ProbeInv
  <2> QED BY <2>5, <2>7, <2>9, <2>10, <2>11, <2>12 DEF ProbeInv
<1>6. CASE ReadSnapshot
  <2>1. /\ UNCHANGED <<vars, records, at, code, sound, broken>>
        /\ probe = "snapshot" /\ probe' = "answer"
        /\ failing' = IF reachable /\ snapshot \notin {"absent", "pending", "stale"}
                        THEN failing ELSE failing \cup {"snapshot"}
    BY <1>6 DEF ReadSnapshot, ProbeTo, Judge
  <2>2. InOrder("snapshot") <=> reachable /\ snapshot \notin {"absent", "pending", "stale"}
    BY DEF InOrder, ProbeInv
  <2>3. failing' \cap sound' = {} /\ code # 200
        /\ (failing' = {} => failing = {} /\ "snapshot" \notin broken)
    BY <2>1, <2>2 DEF ProbeInv
  <2> QED BY <2>1, <2>3, InOrderKept DEF ProbeInv
<1>7. CASE AnswerProbe
  <2>1. /\ UNCHANGED <<vars, records, at, failing, sound, broken>>
        /\ probe = "answer" /\ probe' = "answered"
        /\ code' = IF failing = {} THEN 200 ELSE 503
    BY <1>7 DEF AnswerProbe, ProbeTo
  <2> QED BY <2>1, InOrderKept DEF ProbeInv
<1>8. CASE UNCHANGED <<vars, readiness>>
  <2>1. UNCHANGED <<vars, records, probe, at, failing, code, snapshot, sound, broken>>
    BY <1>8 DEF readiness, probing, records
  <2> QED BY <2>1, InOrderKept DEF ProbeInv
<1> QED BY <1>1, <1>2, <1>3, <1>4, <1>5, <1>6, <1>7, <1>8 DEF ReadinessNext

\* readyz.go, fail closed: an instance that says it is ready had each required type and
\* the snapshot in order at some time during the probe.
THEOREM ReadyIsTrusted == ReadinessSpec => []ReadyMeansTrusted
<1>1. ProbeInv => ReadyMeansTrusted
  <2> SUFFICES ASSUME ProbeInv, code = 200, NEW c \in broken PROVE FALSE
    BY DEF ReadyMeansTrusted
  <2>1. c \in Required
    BY DEF ProbeInv, Components
  <2>2. PICK i \in DOMAIN TypeList : TypeList[i] = c
    BY <2>1, ReadinessTyped
  <2> QED BY <2>2 DEF ProbeInv
<1> QED BY ProbeInit, ProbeStep, <1>1, PTL DEF ReadinessSpec

\* readyz.go: no component is reported that was in order throughout the probe.
THEOREM AlarmsAreReal == ReadinessSpec => []NoFalseAlarm
<1>1. ProbeInv => NoFalseAlarm
  BY DEF ProbeInv, NoFalseAlarm
<1> QED BY ProbeInit, ProbeStep, <1>1, PTL DEF ReadinessSpec

-----------------------------------------------------------------------------
(***************************************************************************)
(* What failing reads hide.                                                *)
(***************************************************************************)
\* Of the types the lookup has left behind, each that it should have heard cost a fault.
CountInv ==
    /\ pc = "idle" => outcome = "none"
    /\ pc \in {"blob", "marker"} => Cardinality(UnheardUpTo(ti - 1)) <= faults
    /\ EachFaultHidesOne

\* A smaller set, or one with one element more, counts accordingly.
LEMMA Counts ==
    ASSUME NEW n \in Nat, NEW S \in SUBSET (1 .. n), NEW k \in Nat, Cardinality(S) <= k
    PROVE  /\ \A R \in SUBSET S : Cardinality(R) <= k
           /\ \A x, R : R \subseteq S \cup {x} => Cardinality(R) <= k + 1
<1>1. IsFiniteSet(S)
  <2>1. IsFiniteSet(1 .. n)
    BY FS_Interval
  <2> QED BY <2>1, FS_Subset
<1>2. Cardinality(S) \in Nat
  BY <1>1, FS_CardinalityType
<1>3. ASSUME NEW R \in SUBSET S PROVE Cardinality(R) <= k
  <2>1. Cardinality(R) <= Cardinality(S) /\ IsFiniteSet(R)
    BY <1>1, FS_Subset
  <2>2. Cardinality(R) \in Nat
    BY <2>1, FS_CardinalityType
  <2> QED BY <1>2, <2>1, <2>2
<1>4. ASSUME NEW x, NEW R, R \subseteq S \cup {x} PROVE Cardinality(R) <= k + 1
  <2>1. IsFiniteSet(S \cup {x}) /\ Cardinality(S \cup {x}) <= Cardinality(S) + 1
    BY <1>1, <1>2, FS_AddElement
  <2>2. Cardinality(R) <= Cardinality(S \cup {x}) /\ IsFiniteSet(R)
    BY <1>4, <2>1, FS_Subset
  <2>3. Cardinality(R) \in Nat /\ Cardinality(S \cup {x}) \in Nat
    BY <2>1, <2>2, FS_CardinalityType
  <2> QED BY <1>2, <2>1, <2>2, <2>3
<1> QED BY <1>3, <1>4

\* The types left behind are numbered, and grow by one at a time.
LEMMA UnheardGrows ==
    ASSUME NEW n \in Nat
    PROVE  /\ UnheardUpTo(n) \in SUBSET (1 .. n)
           /\ UnheardUpTo(n + 1) \subseteq UnheardUpTo(n) \cup {n + 1}
           /\ n + 1 \in DOMAIN TypesTried /\ ~Unheard(TypesTried[n + 1])
                => UnheardUpTo(n + 1) \subseteq UnheardUpTo(n)
<1>1. \A i \in 1 .. n + 1 : i \in 1 .. n \/ i = n + 1
  OBVIOUS
<1> QED BY <1>1 DEF UnheardUpTo

\* The worker and time make no type unheard.
LEMMA WorldCounts ==
    ASSUME IndInv, CountInv, Remember, UNCHANGED <<want, lookup>>
    PROVE  CountInv'
<1>1. /\ TypesTried' = TypesTried /\ \A t : Accredited(t)' = Accredited(t)
      /\ ti' = ti /\ pc' = pc /\ outcome' = outcome /\ faults' = faults
      /\ ti \in Nat \ {0} /\ faults \in Nat
  BY DEF TypesTried, Accredited, lookup, IndInv, PlaceInv
<1>2. degraded' \subseteq degraded /\ readable' \subseteq readable
  BY DEF Remember
<1>3. ASSUME NEW n \in Nat, Cardinality(UnheardUpTo(n)) <= faults
      PROVE  Cardinality(UnheardUpTo(n)') <= faults
  <2>1. UnheardUpTo(n)' \subseteq UnheardUpTo(n)
    BY <1>1, <1>2 DEF UnheardUpTo, Unheard
  <2> QED BY <1>1, <1>3, <2>1, UnheardGrows, Counts
<1>4. PICK n \in Nat : n = ti /\ n - 1 \in Nat
  BY <1>1
<1>5. Type' = Type
  BY <1>1 DEF Type
<1>6. /\ UnheardUpTo(ti) = UnheardUpTo(n) /\ UnheardUpTo(ti)' = UnheardUpTo(n)'
      /\ UnheardUpTo(ti - 1) = UnheardUpTo(n - 1) /\ UnheardUpTo(ti - 1)' = UnheardUpTo(n - 1)'
  BY <1>1, <1>4 DEF UnheardUpTo
<1>7. pc' \in {"blob", "marker"} => Cardinality(UnheardUpTo(ti - 1)') <= faults'
  BY <1>1, <1>3, <1>4, <1>6 DEF CountInv
<1>8. outcome' = "untrusted" => Cardinality(UnheardUpTo(ti)') <= faults'
  BY <1>1, <1>3, <1>4, <1>6 DEF CountInv, EachFaultHidesOne
<1> QED BY <1>1, <1>5, <1>7, <1>8 DEF CountInv, EachFaultHidesOne

\* Going on to the next type is paid for by a fault, unless the type was heard.
LEMMA NextTypeCounts ==
    ASSUME IndInv, CountInv, Frame, pc \in {"blob", "marker"}, NextType,
           \/ faults' = faults /\ ~Unheard(Type)
           \/ faults' = faults + 1
    PROVE  CountInv'
<1>1. /\ TypesTried' = TypesTried /\ (\A t : Accredited(t)' = Accredited(t))
      /\ ti \in Nat \ {0} /\ ti <= Len(TypesTried) /\ faults \in Nat /\ outcome = "none"
      /\ degraded' = degraded /\ readable' = readable
  BY FrameKeeps DEF Frame, IndInv, PlaceInv
<1>2. PICK n \in Nat : n + 1 = ti /\ n = ti - 1
  BY <1>1
<1>3. \A m : UnheardUpTo(m)' = UnheardUpTo(m)
  BY <1>1 DEF UnheardUpTo, Unheard
<1>4. Cardinality(UnheardUpTo(n)) <= faults
  BY <1>2 DEF CountInv
<1>5. Cardinality(UnheardUpTo(n + 1)) <= faults'
  <2>1. CASE faults' = faults + 1
    BY <1>1, <1>4, <2>1, UnheardGrows, Counts
  <2>2. CASE faults' = faults /\ ~Unheard(Type)
    <3>1. n + 1 \in DOMAIN TypesTried /\ ~Unheard(TypesTried[n + 1])
      BY <1>1, <1>2, <2>2, TypesTriedTyped DEF Type
    <3> QED BY <1>1, <1>4, <2>2, <3>1, UnheardGrows, Counts
  <2> QED BY <2>1, <2>2
<1>6. CASE ti < Len(TypesTried) /\ ti' = ti + 1 /\ pc' = "blob" /\ UNCHANGED outcome
  <2>1. UnheardUpTo(ti - 1)' = UnheardUpTo(n + 1)'
    BY <1>2, <1>6 DEF UnheardUpTo
  <2> QED BY <1>1, <1>3, <1>5, <1>6, <2>1 DEF CountInv, EachFaultHidesOne
<1>7. CASE ti = Len(TypesTried) /\ Ends("untrusted")
  <2>1. UnheardUpTo(ti)' = UnheardUpTo(n + 1)' /\ pc' = "done" /\ ti' = ti
    BY <1>2, <1>7 DEF UnheardUpTo, Ends
  <2> QED BY <1>1, <1>3, <1>5, <1>7, <2>1 DEF CountInv, EachFaultHidesOne
<1> QED BY <1>6, <1>7 DEF NextType

\* A lookup that ends, or that stays at its type, without refusing.
LEMMA StayCounts ==
    ASSUME IndInv, CountInv, Frame, pc \in {"blob", "marker"}, UNCHANGED ti,
           faults' \in {faults, faults + 1},
           outcome' # "untrusted", pc' # "idle"
    PROVE  CountInv'
<1>1. /\ TypesTried' = TypesTried /\ (\A t : Accredited(t)' = Accredited(t))
      /\ ti \in Nat \ {0} /\ faults \in Nat
      /\ degraded' = degraded /\ readable' = readable
  BY FrameKeeps DEF Frame, IndInv, PlaceInv
<1>2. PICK n \in Nat : n = ti - 1
  BY <1>1
<1>3. UnheardUpTo(ti - 1)' = UnheardUpTo(n)
  BY <1>1, <1>2 DEF UnheardUpTo, Unheard
<1>4. Cardinality(UnheardUpTo(n)) <= faults
  BY <1>2 DEF CountInv
<1>5. Cardinality(UnheardUpTo(n)) \in Nat
  <2>1. IsFiniteSet(1 .. n)
    BY FS_Interval
  <2> QED BY <2>1, UnheardGrows, FS_Subset, FS_CardinalityType
<1> QED BY <1>1, <1>3, <1>4, <1>5 DEF CountInv, EachFaultHidesOne

\* An anchor that is found and not accredited ends the lookup at a type that was heard.
LEMMA RefusedCounts ==
    ASSUME IndInv, CountInv, Frame, pc = "blob", faults' = faults, Usable(Type),
           ~Accredited(Type), Ends("untrusted")
    PROVE  CountInv'
<1>1. /\ TypesTried' = TypesTried /\ (\A t : Accredited(t)' = Accredited(t))
      /\ ti \in Nat \ {0} /\ faults \in Nat /\ ti' = ti /\ pc' = "done" /\ ti <= Len(TypesTried)
      /\ degraded' = degraded /\ readable' = readable /\ Type' = Type
  BY FrameKeeps DEF Frame, IndInv, PlaceInv, Ends, Type
<1>2. PICK n \in Nat : n + 1 = ti /\ n = ti - 1
  BY <1>1
<1>3. UnheardUpTo(ti)' = UnheardUpTo(n + 1)
  BY <1>1, <1>2 DEF UnheardUpTo, Unheard
<1>4. Cardinality(UnheardUpTo(n)) <= faults
  BY <1>2 DEF CountInv
<1>5. n + 1 \in DOMAIN TypesTried /\ ~Unheard(TypesTried[n + 1])
  BY <1>1, <1>2, TypesTriedTyped DEF Type, Unheard, IndInv, HistoryInv
<1>6. Cardinality(UnheardUpTo(n + 1)) <= faults
  BY <1>1, <1>4, <1>5, UnheardGrows, Counts
<1> QED BY <1>1, <1>3, <1>6 DEF CountInv, EachFaultHidesOne

\* Only a read that fails leaves a type behind unheard.
LEMMA CountStep == IndInv /\ CountInv /\ [Next]_vars => CountInv'
<1> SUFFICES ASSUME IndInv, CountInv, [Next]_vars PROVE CountInv'
  OBVIOUS
<1>0. /\ ti \in Nat \ {0} /\ ci \in Nat \ {0} /\ faults \in Nat
      /\ pc \in {"blob", "marker"} => outcome = "none"
  BY DEF IndInv, PlaceInv
<1>1. CASE (\E t \in Types : Sync(t) \/ Vanish(t)) \/ Tick
  BY <1>1, WorldCounts DEF Sync, Vanish, Tick
<1>2. CASE Begin
  <2>1. /\ ti = 1 /\ ti' = 1 /\ outcome = "none" /\ faults' = faults /\ TypesTried' = TypesTried
        /\ pc' # "idle"
    BY <1>2 DEF Begin, IndInv, PlaceInv, Ends, TypesTried
  <2>2. UnheardUpTo(ti - 1)' = {} /\ Cardinality({}) = 0
    BY <2>1, FS_EmptySet DEF UnheardUpTo
  <2>3. CASE UNCHANGED outcome
    BY <1>0, <2>1, <2>2, <2>3 DEF CountInv, EachFaultHidesOne
  <2>4. CASE TypesTried = <<>> /\ Ends("untrusted")
    <3>1. DOMAIN TypesTried = {} /\ Len(TypesTried) = 0
      BY <2>4
    <3>2. UnheardUpTo(ti)' = {}
      BY <2>1, <3>1 DEF UnheardUpTo
    <3>3. ~(ti' < Len(TypesTried'))
      BY <2>1, <3>1
    <3>4. Cardinality(UnheardUpTo(ti)') = 0
      BY <2>2, <3>2
    <3>5. pc' = "done"
      BY <2>4 DEF Ends
    <3> QED BY <1>0, <2>1, <3>3, <3>4, <3>5 DEF CountInv, EachFaultHidesOne
  <2> QED BY <1>2, <2>3, <2>4 DEF Begin
<1>3. CASE ReadFails
  BY <1>3, NextTypeCounts DEF ReadFails, Frame, history
<1>4. CASE ReadBlob
  <2>1. Frame /\ pc = "blob" /\ pc \in {"blob", "marker"} /\ faults' = faults
    BY <1>4 DEF ReadBlob, Frame, history
  <2>2. CASE pc' = "marker" /\ UNCHANGED <<ti, ci, outcome>>
    BY <1>0, <2>1, <2>2, StayCounts
  <2>3. CASE Expired
    BY <2>1, <2>3, StayCounts DEF Expired, Ends
  <2>4. CASE Usable(Type) /\ Accept
    <3>1. CASE Ends("resolved")
      BY <2>1, <3>1, StayCounts DEF Ends
    <3>2. CASE ~Accredited(Type) /\ Ends("untrusted")
      BY <2>1, <2>4, <3>2, RefusedCounts
    <3> QED BY <2>4, <3>1, <3>2 DEF Accept
  <2>5. CASE Usable(Type) /\ want.anchor \notin blob[Type][Territory] /\ NextType
    <3>1. Type \notin degraded
      BY <2>5 DEF IndInv, HistoryInv
    <3>2. Type \notin readable
      <4>1. CASE ci = 1
        BY <2>5, <4>1 DEF IndInv, HistoryInv, Territory
      <4>2. CASE ci # 1
        <5>1. ci > 1
          BY <1>0, <4>2
        <5> QED BY <2>1, <5>1 DEF IndInv, BehindInv
      <4> QED BY <4>1, <4>2
    <3> QED BY <2>1, <2>5, <3>1, <3>2, NextTypeCounts DEF Unheard
  <2> QED BY <1>4, <2>2, <2>3, <2>4, <2>5 DEF ReadBlob
<1>5. CASE ReadMarker
  <2>1. Frame /\ pc = "marker" /\ pc \in {"blob", "marker"}
    BY <1>5 DEF ReadMarker, Frame
  <2>2. CASE Expired /\ faults' \in {faults, faults + 1}
    BY <2>1, <2>2, StayCounts DEF Expired, Ends
  <2>3. CASE TypeFreshForVerification(Type) /\ NextTerritory /\ faults' = faults
    <3>1. CASE pc' = "blob" /\ UNCHANGED <<ti, outcome>>
      BY <1>0, <2>1, <2>3, <3>1, StayCounts
    <3>2. CASE NextType
      <4>1. Type \notin degraded /\ Type \notin readable
        BY <2>1, <2>3, FreshIsUsable DEF IndInv, HistoryInv, BehindInv
      <4> QED BY <2>1, <2>3, <3>2, <4>1, NextTypeCounts DEF Unheard
    <3> QED BY <2>3, <3>1, <3>2 DEF NextTerritory
  <2> QED BY <1>5, <2>2, <2>3 DEF ReadMarker
<1>6. CASE UNCHANGED vars
  <2>1. UNCHANGED <<want, pc, ti, outcome, faults, degraded, readable>>
    BY <1>6 DEF vars, lookup, history
  <2>2. /\ TypesTried' = TypesTried /\ (\A t : Accredited(t)' = Accredited(t)) /\ Type' = Type
    BY <2>1 DEF TypesTried, Accredited, Type
  <2>3. UnheardUpTo(ti)' = UnheardUpTo(ti) /\ UnheardUpTo(ti - 1)' = UnheardUpTo(ti - 1)
    BY <2>1, <2>2 DEF UnheardUpTo, Unheard
  <2> QED BY <2>1, <2>2, <2>3 DEF CountInv, EachFaultHidesOne
<1> QED BY <1>1, <1>2, <1>3, <1>4, <1>5, <1>6 DEF Next

\* resolveByTypes: an issuer is refused against what the types tried could have said of
\* it only for as many of them as reads have failed, however many that are.
THEOREM FaultsHideOneEach == Spec => []EachFaultHidesOne
<1>1. Init => CountInv
  BY DEF Init, CountInv, EachFaultHidesOne
<1>2. CountInv => EachFaultHidesOne
  BY DEF CountInv
<1> QED BY <1>1, <1>2, CountStep, Invariance, PTL DEF Spec
=============================================================================
