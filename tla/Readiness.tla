------------------------------- MODULE Readiness -------------------------------
(***************************************************************************)
(* /readyz (routes/readyz.go) next to the lookups of TrustAnchors: both    *)
(* judge the trust cache, the probe with a grace that no lookup may have.  *)
(*                                                                         *)
(* A behaviour is a lookup or a probe.  Neither writes anything, so that   *)
(* the two in one behaviour would show no more.  The probe reads one record *)
(* per step, and the worker, time and outages of Valkey come in between.   *)
(***************************************************************************)
EXTENDS TrustAnchors

CONSTANTS
    Required,       \* requiredAnchorTypes
    TypeList,       \* the types in the order Freshness reads them
    Grace           \* Configuration.AnchorGrace, in ticks

ASSUME ReadinessTyped ==
    /\ TypeList \in Seq(Types) /\ Required \subseteq Types
    /\ \A t \in Required : \E i \in DOMAIN TypeList : TypeList[i] = t
    /\ Grace \in Nat
    /\ {"postgres", "valkey", "snapshot"} \cap Types = {}

VARIABLES
    probe,      \* where the probe is, "off" in a behaviour of a lookup
    at,         \* the type whose marker it reads next
    failing,    \* the components it has found degraded
    code,       \* the status it answers
    graced,     \* ticks until ValidUntil plus grace of the last sync
    snapshot,   \* trust:freshness:snapshot
    reachable,  \* whether Valkey answers
    sound,      \* history: components in order ever since the probe began
    broken      \* history: components not in order ever since

probing == <<probe, at, failing, code>>
records == <<graced, snapshot, reachable>>
readiness == <<probing, records, sound, broken>>

Components == Required \cup {"snapshot"}

\* A marker counts for /readyz before its ValidUntil plus the grace.
FreshForReadyz(t) == t \in marker /\ t \notin stale /\ graced[t] > 0

InOrder(c) == reachable /\ IF c = "snapshot" THEN snapshot = "current" ELSE FreshForReadyz(c)

ReadinessInit ==
    /\ Init
    /\ \/ probe = "off"
       \/ probe = "postgres" /\ want = CHOOSE w \in Wants : TRUE
    /\ at = 1 /\ failing = {} /\ code = 0
    /\ graced = [t \in Types |-> -1] /\ snapshot = "absent" /\ reachable = TRUE
    /\ sound = {} /\ broken = Components

-----------------------------------------------------------------------------
(***************************************************************************)
(* The worker, time and Valkey, outside this repository.  The probe reads  *)
(* no anchors: theirs keep still.                                          *)
(***************************************************************************)
Witness ==
    /\ sound' = {c \in sound : InOrder(c)'}
    /\ broken' = {c \in broken : ~InOrder(c)'}

ProbedSync(t) ==
    /\ Sync(t) /\ UNCHANGED blob
    /\ graced' = [graced EXCEPT ![t] = Validity + Grace]
    /\ UNCHANGED <<snapshot, reachable>>

ProbedVanish(t) == Vanish(t) /\ UNCHANGED records

ProbedTick ==
    /\ Tick
    /\ graced' = [t \in Types |-> IF graced[t] >= 0 THEN graced[t] - 1 ELSE -1]
    /\ UNCHANGED <<snapshot, reachable>>

\* The worker writes the record of its upstream, or the record's key goes.
SyncSnapshot ==
    /\ snapshot' \in {"absent", "current", "pending", "stale"} \ {snapshot}
    /\ UNCHANGED <<vars, graced, reachable>>

Outage ==
    /\ reachable' = ~reachable
    /\ UNCHANGED <<vars, graced, snapshot>>

Environment ==
    /\ probe \notin {"off", "answered"}
    /\ \/ \E t \in Types : ProbedSync(t) \/ ProbedVanish(t)
       \/ ProbedTick \/ SyncSnapshot \/ Outage
    /\ Witness
    /\ UNCHANGED probing

-----------------------------------------------------------------------------
(***************************************************************************)
(* The probe.                                                              *)
(***************************************************************************)
ProbeTo(p) == probe' = p

Judge(c, ok) == failing' = IF ok THEN failing ELSE failing \cup {c}

\* The database answers its ping or does not; the history begins.
PingDB ==
    /\ probe = "postgres"
    /\ \E up \in BOOLEAN : Judge("postgres", up)
    /\ ProbeTo("valkey")
    /\ sound' = {c \in Components : InOrder(c)}
    /\ broken' = {c \in Components : ~InOrder(c)}
    /\ UNCHANGED <<vars, at, code, records>>

PingValkey ==
    /\ probe = "valkey"
    /\ Judge("valkey", reachable)
    /\ ProbeTo("anchors")
    /\ UNCHANGED <<vars, at, code, records, sound, broken>>

\* Mutant: a record that cannot be read says nothing against its type.
MarkerReadsIfThere(t) ==
    IF reachable /\ t \in marker THEN t \notin stale /\ graced[t] > 0 ELSE TRUE

\* Mutant: no grace.
MarkerReadsStrictly(t) == reachable /\ TypeFreshForVerification(t)

\* An absent or unreadable record is not fresh.
MarkerReads(t) == reachable /\ FreshForReadyz(t)

\* Freshness reads every type's marker, required or not.
ReadFreshness ==
    /\ probe = "anchors"
    /\ Judge(TypeList[at], TypeList[at] \in Required => MarkerReads(TypeList[at]))
    /\ \/ at < Len(TypeList) /\ at' = at + 1 /\ UNCHANGED probe
       \/ at = Len(TypeList) /\ ProbeTo("snapshot") /\ UNCHANGED at
    /\ UNCHANGED <<vars, code, records, sound, broken>>

\* Pending bootstrap and a stale upstream are as bad as no snapshot at all.
ReadSnapshot ==
    /\ probe = "snapshot"
    /\ Judge("snapshot", reachable /\ snapshot \notin {"absent", "pending", "stale"})
    /\ ProbeTo("answer")
    /\ UNCHANGED <<vars, at, code, records, sound, broken>>

AnswerProbe ==
    /\ probe = "answer"
    /\ code' = IF failing = {} THEN 200 ELSE 503
    /\ ProbeTo("answered")
    /\ UNCHANGED <<vars, at, failing, records, sound, broken>>

ReadinessNext ==
    \/ probe = "off" /\ Next /\ UNCHANGED readiness
    \/ Environment
    \/ PingDB \/ PingValkey \/ ReadFreshness \/ ReadSnapshot \/ AnswerProbe

ReadinessSpec == ReadinessInit /\ [][ReadinessNext]_<<vars, readiness>>

-----------------------------------------------------------------------------
(***************************************************************************)
(* Properties.                                                             *)
(***************************************************************************)
\* readyz.go, fail closed: an instance that says it is ready had each required type
\* and the snapshot in order at some time during the probe, whatever vanished, grew
\* old or could not be read meanwhile.
ReadyMeansTrusted == code = 200 => broken = {}

\* And names no component that was in order all along; a type within its grace is.
NoFalseAlarm == failing \cap sound = {}
=============================================================================
