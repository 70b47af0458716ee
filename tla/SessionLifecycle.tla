--------------------------- MODULE SessionLifecycle ---------------------------
(***************************************************************************)
(* One verification session from the relying party's create call to the    *)
(* wallet's answer: the wallet-facing handlers (routes/wallet.go), the     *)
(* response processor around the pipeline (routes/processor_pipeline.go),  *)
(* the disposal of a finished run (internal/pipeline/finalize.go), the     *)
(* creator (internal/sessions) and the Valkey store they all share         *)
(* (internal/valkeystore/store.go).                                        *)
(*                                                                         *)
(* Every call to Valkey or PostgreSQL is one step, so that the calls of    *)
(* concurrent requests interleave as they do in the running service.  A    *)
(* key's expiry is the number of clock ticks it has left, what PTTL        *)
(* reports; Tick ages every key at once.                                   *)
(*                                                                         *)
(* Every key is derived from a session id or from a code or token minted   *)
(* for one session, so sessions touch no common key.                       *)
(***************************************************************************)
EXTENDS Integers

CONSTANTS
    Sessions,       \* session ids the engine mints
    Posts,          \* wallet POST .../response requests (retries included)
    Gets,           \* wallet GET .../request.jwt requests
    SessionOf,      \* the session whose token or id a request carries
    SessionTTL,     \* Configuration.SessionTTL, in clock ticks
    RespCodeTTL,    \* Configuration.ResponseCodeTTL
    RequestedTTLs,  \* CreateInput.TTL values; 0 asks for the default
    Deletable,      \* sessions the relying party may DELETE
    FaultyOps,      \* store calls that may fail in this instance
    MaxFaults,      \* bound: calls that fail in one behaviour
    NoRun           \* "no response_code on the session record"

\* Configuration requires both TTLs to be positive.
ASSUME TTLsPositive == SessionTTL \in Nat \ {0} /\ RespCodeTTL \in Nat \ {0}
ASSUME RequestsTyped ==
    /\ SessionOf \in [Posts \cup Gets -> Sessions]
    /\ RequestedTTLs \subseteq Nat
    /\ MaxFaults \in Nat
    /\ NoRun \notin Posts

VARIABLES
    \* Valkey, per session: ticks left on each key, 0 when there is no key.
    session,    \* vc:session:{id}, with what the record says
    served,     \* vc:session:{id}:served
    consumed,   \* vc:session:{id}:consumed
    token,      \* vc:respondtoken:{token}
    respCode,   \* vc:respcode:{code}, one code per run
    payload,    \* vc:handoff:payload:{id}, the outcome last delivered
    \* PostgreSQL
    status, report,
    \* The creator: where it is, the flow and TTL asked for, and the ticks
    \* until the engine session's ExpiresAt
    cpc, flow, ttl, left,
    \* Request handlers: where each one is and its local variables
    ppc, copy, outcome, gpc,
    \* Calls that failed so far, and history that no code reads
    faults, holds, jars, handoffs, codes, cleared, opDeleted

keys    == <<session, served, consumed>>
index   == <<token, respCode>>
meta    == <<status, report>>
creator == <<cpc, flow, ttl, left>>
locals  == <<copy, outcome>>
results == <<jars, handoffs, codes>>
deletes == <<cleared, opDeleted>>
vars    == <<keys, index, payload, meta, creator, ppc, locals, gpc, faults, holds,
             results, deletes>>

\* "cross_device" stands for dcapi too: neither mints a response_code.
Flows == {"same_device", "cross_device"}

InRun   == {"persist", "rollback", "meta", "verify", "deliver", "dispose", "report",
            "markFailed", "deliverFailure", "disposeFailure", "markVerified", "code"}
PostEnd == {"answered", "refused", "crashed"}
PostPC  == {"resolve", "load", "claim", "fail"} \cup InRun \cup PostEnd
GetPC   == {"load", "mark", "sign", "engage", "answered", "refused", "crashed"}

NoSession == [ttl |-> 0, consumed |-> FALSE, code |-> NoRun]
NoExpiry  == -1     \* PTTL of a key that never expires

TypeOK ==
    /\ session \in [Sessions -> [ttl : 0 .. SessionTTL, consumed : BOOLEAN,
                                 code : Posts \cup {NoRun}]]
    /\ served \in [Sessions -> 0 .. SessionTTL]
    /\ consumed \in [Sessions -> 0 .. SessionTTL]
    /\ token \in [Sessions -> 0 .. SessionTTL]
    /\ ttl \in [Sessions -> 0 .. SessionTTL]
    /\ left \in [Sessions -> 0 .. SessionTTL]
    /\ respCode \in [Posts -> 0 .. RespCodeTTL]
    /\ payload \in [Sessions -> {"none", "verified", "failed"}]
    /\ report \in [Sessions -> {"none", "verified", "failed"}]
    /\ status \in [Sessions ->
                    {"none", "pending", "wallet_engaged", "verified", "failed"}]
    /\ cpc \in [Sessions -> {"new", "save", "route", "record", "created", "failed"}]
    /\ flow \in [Sessions -> Flows]
    /\ ppc \in [Posts -> PostPC]
    /\ copy \in [Posts -> Posts \cup {NoRun}]
    /\ outcome \in [Posts -> {"none", "verified", "failed"}]
    /\ gpc \in [Gets -> GetPC]
    /\ faults \in 0 .. MaxFaults
    /\ holds \subseteq Posts /\ handoffs \subseteq Posts /\ codes \subseteq Posts
    /\ jars \subseteq Gets
    /\ cleared \subseteq Sessions /\ opDeleted \subseteq Sessions

Init ==
    /\ session = [s \in Sessions |-> NoSession]
    /\ served = [s \in Sessions |-> 0]
    /\ consumed = [s \in Sessions |-> 0]
    /\ token = [s \in Sessions |-> 0]
    /\ respCode = [p \in Posts |-> 0]
    /\ payload = [s \in Sessions |-> "none"]
    /\ status = [s \in Sessions |-> "none"]
    /\ report = [s \in Sessions |-> "none"]
    /\ cpc = [s \in Sessions |-> "new"]
    /\ flow \in [Sessions -> Flows]
    /\ ttl = [s \in Sessions |-> 0]
    /\ left = [s \in Sessions |-> 0]
    /\ ppc = [p \in Posts |-> "resolve"]
    /\ copy = [p \in Posts |-> NoRun]
    /\ outcome = [p \in Posts |-> "none"]
    /\ gpc = [g \in Gets |-> "load"]
    /\ faults = 0
    /\ holds = {} /\ jars = {} /\ handoffs = {} /\ codes = {}
    /\ cleared = {} /\ opDeleted = {}

-----------------------------------------------------------------------------
(***************************************************************************)
(* The store.                                                              *)
(***************************************************************************)
Live(ticks) == ticks # 0
Age(ticks)  == IF ticks > 0 THEN ticks - 1 ELSE ticks

\* go-redis sends no expiry with a duration that is not positive.
KeyTTL(d) == IF d > 0 THEN d ELSE NoExpiry

\* Mutant: the remaining lifetime, taken without asking whether it has passed.
SaveTTLPastExpiry(s) == KeyTTL(IF left[s] < SessionTTL THEN left[s] ELSE SessionTTL)

\* Mutant: the TTL the caller asked for instead of the engine's ExpiresAt.
SaveTTLAsked(s) == KeyTTL(ttl[s])

\* Store.Save: never beyond ExpiresAt, unless that has passed already.
SaveTTL(s) == KeyTTL(IF left[s] > 0 /\ left[s] < SessionTTL THEN left[s] ELSE SessionTTL)

Save(s, isConsumed, code) ==
    session' = [session EXCEPT ![s] = [ttl |-> SaveTTL(s), consumed |-> isConsumed,
                                       code |-> code]]

\* Store.Load finds a record that neither Valkey nor ExpiresAt has retired.
Loadable(s) == Live(session[s].ttl) /\ left[s] > 0

\* Store.DeleteSession: one DEL of the three session-scoped keys.
DeleteSession(s) ==
    /\ session' = [session EXCEPT ![s] = NoSession]
    /\ served' = [served EXCEPT ![s] = 0]
    /\ consumed' = [consumed EXCEPT ![s] = 0]
    /\ cleared' = cleared \cup {s}

Succeeds  == UNCHANGED faults
Fails(op) == op \in FaultyOps /\ faults < MaxFaults /\ faults' = faults + 1

\* A call and what its handler does next.  One that fails may have taken effect
\* before its reply was lost.
Call(op, Effect, NoEffect, OnSuccess, OnError) ==
    \/ Succeeds /\ Effect /\ OnSuccess
    \/ Fails(op) /\ (Effect \/ NoEffect) /\ OnError

SetStatus(s, new) == status' = [status EXCEPT ![s] = new]

-----------------------------------------------------------------------------
(***************************************************************************)
(* Creator.Create.  An error leaves what was already written.              *)
(***************************************************************************)
CreatorTo(s, pc) == cpc' = [cpc EXCEPT ![s] = pc]

\* Mutant: no test that the caller asked for a TTL at all.
AskedTTL(asked) == IF asked < SessionTTL THEN asked ELSE SessionTTL

\* The caller may shorten the default TTL, never extend it.
EffectiveTTL(asked) == IF asked > 0 /\ asked < SessionTTL THEN asked ELSE SessionTTL

\* engine.NewSession fixes ExpiresAt; the effective TTL is for token and row.
CreateMint(s) ==
    /\ cpc[s] = "new"
    /\ CreatorTo(s, "save")
    /\ \E asked \in RequestedTTLs : ttl' = [ttl EXCEPT ![s] = EffectiveTTL(asked)]
    /\ left' = [left EXCEPT ![s] = SessionTTL]
    /\ UNCHANGED <<keys, index, payload, meta, flow, ppc, locals, gpc, faults, holds,
                   results, deletes>>

CreateSave(s) ==
    /\ cpc[s] = "save"
    /\ Call("create", Save(s, FALSE, NoRun), UNCHANGED session,
            CreatorTo(s, "route"), CreatorTo(s, "failed"))
    /\ UNCHANGED <<served, consumed, index, payload, meta, flow, ttl, left, ppc,
                   locals, gpc, holds, results, deletes>>

CreateRoute(s) ==
    /\ cpc[s] = "route"
    /\ Call("create", token' = [token EXCEPT ![s] = KeyTTL(ttl[s])], UNCHANGED token,
            CreatorTo(s, "record"), CreatorTo(s, "failed"))
    /\ UNCHANGED <<keys, respCode, payload, meta, flow, ttl, left, ppc, locals, gpc,
                   holds, results, deletes>>

CreateRecord(s) ==
    /\ cpc[s] = "record"
    /\ Call("create", SetStatus(s, "pending"), UNCHANGED status,
            CreatorTo(s, "created"), CreatorTo(s, "failed"))
    /\ UNCHANGED <<keys, index, payload, report, flow, ttl, left, ppc, locals, gpc,
                   holds, results, deletes>>

Create(s) == CreateMint(s) \/ CreateSave(s) \/ CreateRoute(s) \/ CreateRecord(s)

-----------------------------------------------------------------------------
(***************************************************************************)
(* GET /wallet/{sessionID}/request.jwt                                     *)
(***************************************************************************)
GetTo(g, pc) == gpc' = [gpc EXCEPT ![g] = pc]

\* The id is known once Create has returned it.
GetLoad(g) ==
    LET s == SessionOf[g] IN
    /\ gpc[g] = "load"
    /\ cpc[s] = "created"
    /\ \/ Succeeds /\ Loadable(s) /\ GetTo(g, "mark")
       \/ Succeeds /\ ~Loadable(s) /\ GetTo(g, "refused")
       \/ Fails("load") /\ GetTo(g, "refused")
    /\ UNCHANGED <<keys, index, payload, meta, creator, ppc, locals, holds, results,
                   deletes>>

\* Mutant: a plain SET instead of SET NX.
GetMarkPlainSet(g) ==
    LET s == SessionOf[g] IN
    /\ gpc[g] = "mark"
    /\ Call("mark", served' = [served EXCEPT ![s] = KeyTTL(SessionTTL)],
            UNCHANGED served, GetTo(g, "sign"), GetTo(g, "refused"))
    /\ UNCHANGED <<session, consumed, index, payload, meta, creator, ppc, locals, holds,
                   results, deletes>>

\* MarkRequestObjectServed: SET NX, first caller wins.
GetMark(g) ==
    LET s == SessionOf[g] IN
    /\ gpc[g] = "mark"
    /\ \/ /\ ~Live(served[s])
          /\ Call("mark", served' = [served EXCEPT ![s] = KeyTTL(SessionTTL)],
                  UNCHANGED served, GetTo(g, "sign"), GetTo(g, "refused"))
       \/ /\ Live(served[s])
          /\ Succeeds /\ UNCHANGED served /\ GetTo(g, "refused")
    /\ UNCHANGED <<session, consumed, index, payload, meta, creator, ppc, locals, holds,
                   results, deletes>>

\* Engine.RequestObjectJWT signs from the copy loaded before.
GetSign(g) ==
    /\ gpc[g] = "sign"
    /\ \/ Succeeds /\ GetTo(g, "engage") /\ jars' = jars \cup {g}
       \/ Fails("sign") /\ GetTo(g, "refused") /\ UNCHANGED jars
    /\ UNCHANGED <<keys, index, payload, meta, creator, ppc, locals, holds, handoffs,
                   codes, deletes>>

\* The status update may fail; the JAR is served all the same.
GetEngage(g) ==
    /\ gpc[g] = "engage"
    /\ Call("status", SetStatus(SessionOf[g], "wallet_engaged"), UNCHANGED status,
            GetTo(g, "answered"), GetTo(g, "answered"))
    /\ UNCHANGED <<keys, index, payload, report, creator, ppc, locals, holds, results,
                   deletes>>

GetCrash(g) ==
    /\ gpc[g] \in {"mark", "sign", "engage"}
    /\ Fails("crash") /\ GetTo(g, "crashed")
    /\ UNCHANGED <<keys, index, payload, meta, creator, ppc, locals, holds, results,
                   deletes>>

Get(g) == GetLoad(g) \/ GetMark(g) \/ GetSign(g) \/ GetEngage(g)

-----------------------------------------------------------------------------
(***************************************************************************)
(* POST /wallet/{token}/response                                           *)
(***************************************************************************)
PostTo(p, pc) == ppc' = [ppc EXCEPT ![p] = pc]

SameDevice(p) == flow[SessionOf[p]] = "same_device"

\* An unknown token and a Valkey error are both answered "no such session".
PostResolve(p) ==
    LET s == SessionOf[p] IN
    /\ ppc[p] = "resolve"
    /\ cpc[s] = "created"
    /\ \/ Succeeds /\ Live(token[s]) /\ PostTo(p, "load")
       \/ Succeeds /\ ~Live(token[s]) /\ PostTo(p, "refused")
       \/ Fails("resolve") /\ PostTo(p, "refused")
    /\ UNCHANGED <<keys, index, payload, meta, creator, locals, gpc, holds, results,
                   deletes>>

\* An oversized body is refused before any session state is touched.
PostOversized(p) ==
    /\ ppc[p] = "load"
    /\ Succeeds /\ PostTo(p, "refused")
    /\ UNCHANGED <<keys, index, payload, meta, creator, locals, gpc, holds, results,
                   deletes>>

\* ConsumeOnce, first call: the record is copied before the claim is made.
PostLoad(p) ==
    LET s == SessionOf[p] IN
    /\ ppc[p] = "load"
    /\ \/ /\ Succeeds /\ Loadable(s) /\ PostTo(p, "claim")
          /\ copy' = [copy EXCEPT ![p] = session[s].code]
       \/ Succeeds /\ ~Loadable(s) /\ PostTo(p, "refused") /\ UNCHANGED copy
       \/ Fails("load") /\ PostTo(p, "refused") /\ UNCHANGED copy
    /\ UNCHANGED <<keys, index, payload, meta, creator, outcome, gpc, holds, results,
                   deletes>>

\* What each PostClaim leaves alone.
ClaimFrame == UNCHANGED <<session, served, index, payload, meta, creator, locals, gpc,
                          results, deletes>>

\* The winner's SET of the marker, with its TTL.
Claim(p, d) ==
    Call("claim", /\ consumed' = [consumed EXCEPT ![SessionOf[p]] = KeyTTL(d)]
                  /\ holds' = holds \cup {p},
         UNCHANGED <<consumed, holds>>, PostTo(p, "persist"), PostTo(p, "refused"))

\* Mutant: a plain SET instead of SET NX.
ClaimPlainSet(p) == ppc[p] = "claim" /\ Claim(p, SessionTTL) /\ ClaimFrame

\* Mutant: the marker expires with the response token.
ClaimTokenTTL(p) ==
    /\ ppc[p] = "claim"
    /\ ~Live(consumed[SessionOf[p]])
    /\ Claim(p, ttl[SessionOf[p]])
    /\ ClaimFrame

\* Mutant: the loser of the race cleans up the marker it did not set.
ClaimLoserCleansUp(p) ==
    /\ ppc[p] = "claim"
    /\ \/ ~Live(consumed[SessionOf[p]]) /\ Claim(p, SessionTTL)
       \/ /\ Live(consumed[SessionOf[p]])
          /\ Succeeds /\ UNCHANGED holds /\ PostTo(p, "refused")
          /\ consumed' = [consumed EXCEPT ![SessionOf[p]] = 0]
    /\ ClaimFrame

\* ConsumeOnce, SET NX on the marker.
PostClaim(p) ==
    /\ ppc[p] = "claim"
    /\ \/ ~Live(consumed[SessionOf[p]]) /\ Claim(p, SessionTTL)
       \/ /\ Live(consumed[SessionOf[p]])
          /\ Succeeds /\ UNCHANGED <<consumed, holds>> /\ PostTo(p, "refused")
    /\ ClaimFrame

\* ConsumeOnce, Save with Consumed set.
PostPersist(p) ==
    /\ ppc[p] = "persist"
    /\ Call("persist", Save(SessionOf[p], TRUE, copy[p]), UNCHANGED session,
            PostTo(p, "meta"), PostTo(p, "rollback"))
    /\ UNCHANGED <<served, consumed, index, payload, meta, creator, locals, gpc, holds,
                   results, deletes>>

\* ConsumeOnce, best-effort DEL of the marker after a failed Save.
PostRollback(p) ==
    /\ ppc[p] = "rollback"
    /\ Call("rollback", /\ consumed' = [consumed EXCEPT ![SessionOf[p]] = 0]
                        /\ holds' = holds \ {p},
            UNCHANGED <<consumed, holds>>, PostTo(p, "refused"), PostTo(p, "refused"))
    /\ UNCHANGED <<session, served, index, payload, meta, creator, locals, gpc, results,
                   deletes>>

\* SessionDB.Get and policy.Parse: either error ends the run.
PostMeta(p) ==
    /\ ppc[p] = "meta"
    /\ \/ Succeeds /\ PostTo(p, "verify")
       \/ Fails("meta") /\ PostTo(p, "fail")
    /\ UNCHANGED <<keys, index, payload, meta, creator, locals, gpc, holds, results,
                   deletes>>

\* Checks 1 to 9.  The engine refuses a session past ExpiresAt and, for a
\* same-device session, mints the response_code onto the run's own copy.
PostVerify(p) ==
    /\ ppc[p] = "verify"
    /\ Succeeds
    /\ \/ /\ left[SessionOf[p]] > 0
          /\ PostTo(p, "deliver")
          /\ outcome' = [outcome EXCEPT ![p] = "verified"]
          /\ copy' = [copy EXCEPT ![p] = IF SameDevice(p) THEN p ELSE @]
       \/ /\ PostTo(p, "report")
          /\ outcome' = [outcome EXCEPT ![p] = "failed"]
          /\ UNCHANGED copy
    /\ UNCHANGED <<keys, index, payload, meta, creator, gpc, holds, results, deletes>>

\* Mutant: an error of Finalize is dropped.
HandoffErrorDropped(p) == PostTo(p, "report") /\ UNCHANGED outcome

\* An error of Finalize turns check 10, and with it the run, into a failed one.
HandoffFailed(p) == PostTo(p, "report") /\ outcome' = [outcome EXCEPT ![p] = "failed"]

\* Check 10, Finalize: the sink first.
PostDeliver(p) ==
    /\ ppc[p] = "deliver"
    /\ Call("deliver", /\ payload' = [payload EXCEPT ![SessionOf[p]] = "verified"]
                       /\ handoffs' = handoffs \cup {p},
            UNCHANGED <<payload, handoffs>>,
            PostTo(p, "dispose") /\ UNCHANGED outcome, HandoffFailed(p))
    /\ UNCHANGED <<keys, index, meta, creator, copy, gpc, holds, jars, codes, deletes>>

\* Mutant: the session is deleted and saved again, so its markers are gone.
DisposeAndSaveAgain(p) ==
    /\ session' = [session EXCEPT ![SessionOf[p]] =
                      IF SameDevice(p) THEN [ttl |-> SaveTTL(SessionOf[p]),
                                             consumed |-> TRUE, code |-> copy[p]]
                                       ELSE NoSession]
    /\ served' = [served EXCEPT ![SessionOf[p]] = 0]
    /\ consumed' = [consumed EXCEPT ![SessionOf[p]] = 0]
    /\ cleared' = cleared \cup {SessionOf[p]}
    /\ holds' = holds \ {p}

\* Mutant: every finished run deletes its session.
DisposeAll(p) == DeleteSession(SessionOf[p]) /\ holds' = holds \ {p}

\* Mutant: every verified run saves its session again.
DisposeSaves(p) ==
    /\ Save(SessionOf[p], TRUE, copy[p])
    /\ UNCHANGED <<served, consumed, holds, cleared>>

\* Check 10, Finalize: a run that minted a code keeps the session and its
\* marker, any other deletes both.
Dispose(p) ==
    \/ /\ SameDevice(p)
       /\ Save(SessionOf[p], TRUE, copy[p])
       /\ UNCHANGED <<served, consumed, holds, cleared>>
    \/ ~SameDevice(p) /\ DeleteSession(SessionOf[p]) /\ holds' = holds \ {p}

PostDispose(p) ==
    /\ ppc[p] = "dispose"
    /\ Call("dispose", Dispose(p), UNCHANGED <<keys, holds, cleared>>,
            PostTo(p, "report") /\ UNCHANGED outcome, HandoffFailed(p))
    /\ UNCHANGED <<index, payload, meta, creator, copy, gpc, results, opDeleted>>

\* SaveReport.  Its error ends the run, whatever the outcome was.
PostReport(p) ==
    /\ ppc[p] = "report"
    /\ Call("report", report' = [report EXCEPT ![SessionOf[p]] = outcome[p]],
            UNCHANGED report,
            PostTo(p, IF outcome[p] = "verified" THEN "markVerified" ELSE "markFailed"),
            PostTo(p, "fail"))
    /\ UNCHANGED <<keys, index, payload, status, creator, locals, gpc, holds, results,
                   deletes>>

\* The failed branch of Process ignores the errors of its own calls, except
\* that Finalize stops when the sink fails.
PostMarkFailed(p) ==
    /\ ppc[p] = "markFailed"
    /\ Call("status", SetStatus(SessionOf[p], "failed"), UNCHANGED status,
            PostTo(p, "deliverFailure"), PostTo(p, "deliverFailure"))
    /\ UNCHANGED <<keys, index, payload, report, creator, locals, gpc, holds, results,
                   deletes>>

PostDeliverFailure(p) ==
    /\ ppc[p] = "deliverFailure"
    /\ Call("deliver", payload' = [payload EXCEPT ![SessionOf[p]] = "failed"],
            UNCHANGED payload, PostTo(p, "disposeFailure"), PostTo(p, "fail"))
    /\ UNCHANGED <<keys, index, meta, creator, locals, gpc, holds, results, deletes>>

PostDisposeFailure(p) ==
    /\ ppc[p] = "disposeFailure"
    /\ Call("dispose", DeleteSession(SessionOf[p]) /\ holds' = holds \ {p},
            UNCHANGED <<keys, holds, cleared>>, PostTo(p, "fail"), PostTo(p, "fail"))
    /\ UNCHANGED <<index, payload, meta, creator, locals, gpc, results, opDeleted>>

\* The verified branch of Process.
PostMarkVerified(p) ==
    /\ ppc[p] = "markVerified"
    /\ Call("status", SetStatus(SessionOf[p], "verified"), UNCHANGED status,
            PostTo(p, IF SameDevice(p) THEN "code" ELSE "answered"), PostTo(p, "fail"))
    /\ UNCHANGED <<keys, index, payload, report, creator, locals, gpc, holds, results,
                   deletes>>

\* SaveResponseCode, then the redirect_uri that carries the code.
PostCode(p) ==
    /\ ppc[p] = "code"
    /\ Call("code", /\ respCode' = [respCode EXCEPT ![p] = KeyTTL(RespCodeTTL)]
                    /\ codes' = codes \cup {p},
            UNCHANGED <<respCode, codes>>, PostTo(p, "answered"), PostTo(p, "fail"))
    /\ UNCHANGED <<keys, token, payload, meta, creator, locals, gpc, holds, jars,
                   handoffs, deletes>>

\* walletResponse on an error from Process.
PostFail(p) ==
    /\ ppc[p] = "fail"
    /\ Call("status", SetStatus(SessionOf[p], "failed"), UNCHANGED status,
            PostTo(p, "refused"), PostTo(p, "refused"))
    /\ UNCHANGED <<keys, index, payload, report, creator, locals, gpc, holds, results,
                   deletes>>

PostCrash(p) ==
    /\ ppc[p] \in PostPC \ ({"resolve"} \cup PostEnd)
    /\ Fails("crash") /\ PostTo(p, "crashed")
    /\ UNCHANGED <<keys, index, payload, meta, creator, locals, gpc, holds, results,
                   deletes>>

Post(p) ==
    \/ PostResolve(p) \/ PostOversized(p) \/ PostLoad(p) \/ PostClaim(p)
    \/ PostPersist(p) \/ PostRollback(p) \/ PostMeta(p) \/ PostVerify(p)
    \/ PostDeliver(p) \/ PostDispose(p) \/ PostReport(p) \/ PostMarkFailed(p)
    \/ PostDeliverFailure(p) \/ PostDisposeFailure(p) \/ PostMarkVerified(p)
    \/ PostCode(p) \/ PostFail(p)

-----------------------------------------------------------------------------
\* DELETE /internal/v1/sessions/{sessionID}: Valkey only, idempotent.
InternalDelete(s) ==
    /\ s \in Deletable
    /\ cpc[s] = "created"
    /\ DeleteSession(s)
    /\ opDeleted' = opDeleted \cup {s}
    /\ UNCHANGED <<index, payload, meta, creator, ppc, locals, gpc, faults, holds,
                   results>>

\* Time passes for every key and for ExpiresAt.
Tick ==
    /\ session' = [s \in Sessions |-> IF Live(Age(session[s].ttl))
                                      THEN [session[s] EXCEPT !.ttl = Age(@)]
                                      ELSE NoSession]
    /\ served' = [s \in Sessions |-> Age(served[s])]
    /\ consumed' = [s \in Sessions |-> Age(consumed[s])]
    /\ token' = [s \in Sessions |-> Age(token[s])]
    /\ respCode' = [p \in Posts |-> Age(respCode[p])]
    /\ left' = [s \in Sessions |-> Age(left[s])]
    /\ UNCHANGED <<payload, meta, cpc, flow, ttl, ppc, locals, gpc, faults, holds,
                   results, deletes>>

Next ==
    \/ \E s \in Sessions : Create(s) \/ InternalDelete(s)
    \/ \E p \in Posts : Post(p) \/ PostCrash(p)
    \/ \E g \in Gets : Get(g) \/ GetCrash(g)
    \/ Tick

Spec == Init /\ [][Next]_vars

\* Handlers run to their end once started, and time passes.
Fairness ==
    /\ \A s \in Sessions : WF_vars(Create(s))
    /\ \A p \in Posts : WF_vars(Post(p))
    /\ \A g \in Gets : WF_vars(Get(g))
    /\ WF_vars(Tick)

FairSpec == Spec /\ Fairness

-----------------------------------------------------------------------------
(***************************************************************************)
(* Properties.  A claim about a session that DeleteSession has cleared, or *)
(* that has expired, is limited by what clearing does to the single-use    *)
(* markers; each property names the limit it needs.                        *)
(***************************************************************************)

\* Runs on session s whose claim of the consumed marker is still theirs.
HoldersOf(s) == {p \in holds : SessionOf[p] = s}
CodesOf(s)   == {p \in codes : SessionOf[p] = s}

\* ConsumeOnce sets the marker after ExpiresAt was fixed and for the full TTL,
\* so eviction alone never leaves a loadable session without its marker.
MarkerOutlivesSession ==
    \A s \in Sessions : Live(consumed[s]) => consumed[s] >= left[s]

\* ConsumeOnce: until the session expires, one run at a time is between its
\* claim and the end of it.  DeleteSession ends the guarantee, except that for
\* same-device only an operator's DELETE does: a failed run's own DELETE comes
\* when it has finished with the session.
ExclusiveRun ==
    \A s \in Sessions :
        /\ left[s] > 0
        /\ s \notin cleared \/ (flow[s] = "same_device" /\ s \notin opDeleted)
        => \A p, q \in HoldersOf(s) : p = q

\* routes/wallet.go and Finalize: a same-device session yields at most one
\* response_code, however many wallet retries race and whichever call fails.
SingleRedemption ==
    \A s \in Sessions \ opDeleted : \A p, q \in CodesOf(s) : p = q

\* Finalize re-saves a verified same-device session: as long as it has not
\* expired, the record a response_code leads to is there and carries the code.
CodeRedeemable ==
    \A s \in Sessions \ opDeleted : \A p \in CodesOf(s) :
        left[s] > 0 => Loadable(s) /\ session[s].code = p /\ Live(consumed[s])

\* Process: what a response_code stands for is a verified result, and no other
\* run has replaced the payload or the report.
RedeemableResultVerified ==
    \A s \in Sessions \ opDeleted : \A p \in CodesOf(s) :
        left[s] > 0 => payload[s] = "verified" /\ report[s] = "verified"

\* Process sets the status only after check 10 handed the result over: a
\* client that polls for "verified" finds that a result was delivered, and on a
\* same-device session that is still the result, and still the report.
VerifiedWasHandedOver ==
    \A s \in Sessions : status[s] = "verified" =>
        /\ \E p \in handoffs : SessionOf[p] = s
        /\ flow[s] = "same_device" /\ s \notin opDeleted /\ left[s] > 0
            => payload[s] = "verified" /\ report[s] = "verified"

\* requestObject: one request object per session, until it expires or is
\* cleared.
RequestObjectOnce ==
    \A s \in Sessions \ cleared :
        left[s] > 0 => \A g, h \in {x \in jars : SessionOf[x] = s} : g = h

\* ConsumeOnce's rollback and Finalize: before the session expires, a claim ends
\* only by the run that made it or by the operator's DELETE.  The exception is a
\* cross-device run whose own DEL was applied and its reply lost: it deletes
\* twice, and the second DEL may hit a later run's marker.
MarkerReleasedByHolder ==
    [][\A s \in Sessions :
        /\ Live(consumed[s]) /\ ~Live(consumed'[s])
        /\ left'[s] > 0 /\ s \notin opDeleted'
        /\ flow[s] = "same_device" \/ faults = 0
        => \E p \in HoldersOf(s) : p \notin holds']_vars

\* store.go: every key is written with an expiry, whichever call failed, so
\* nothing session-scoped stays in Valkey.
NoKeys(s) ==
    /\ ~Live(session[s].ttl) /\ ~Live(served[s]) /\ ~Live(consumed[s])
    /\ ~Live(token[s]) /\ \A p \in Posts : SessionOf[p] = s => ~Live(respCode[p])
KeysForgotten == <>[](\A s \in Sessions : NoKeys(s))

-----------------------------------------------------------------------------
(***************************************************************************)
(* What the comments and the README say and the code does not keep.        *)
(***************************************************************************)

\* store.go: of the callers of ConsumeOnce exactly one sees first==true.
Claimed(p) == ppc[p] \in InRun \/ outcome[p] # "none"
ConsumedOnce ==
    \A p, q \in Posts :
        Claimed(p) /\ Claimed(q) /\ SessionOf[p] = SessionOf[q] => p = q

\* README: DELETE kills the wallet-facing session.
DeletedStaysDead == \A s \in opDeleted : ~Loadable(s)

\* finalize.go: any failure deletes the session, and the client learns of it
\* from a report-only result.
FailedRunFinalized ==
    \A p \in Posts : ppc[p] = "refused" /\ outcome[p] = "failed" =>
        SessionOf[p] \in cleared /\ payload[SessionOf[p]] = "failed"
=============================================================================
