-------------------------- MODULE SessionLifecycleInv --------------------------
(***************************************************************************)
(* The inductive invariant behind the safety properties of                 *)
(* SessionLifecycle, and how far the claims go that the code does not keep *)
(* in full: checked by TLC, proved in SessionLifecycleSafety.              *)
(***************************************************************************)
EXTENDS SessionLifecycle

\* Create asks for a positive TTL before it writes a key with it, so that no key
\* is written without an expiry.
TypeInv == TypeOK /\ \A s \in Sessions : cpc[s] # "new" => ttl[s] > 0

\* Sessions whose claims are still exclusive.
Protected(s) ==
    /\ left[s] > 0
    /\ s \notin cleared \/ (flow[s] = "same_device" /\ s \notin opDeleted)

\* Requests wait for Create, which leaves the markers alone; a marker is set
\* for the full TTL, so it outlives the session.
MarkersInv ==
    /\ \A p \in Posts :
        ppc[p] # "resolve" \/ p \in holds => cpc[SessionOf[p]] = "created"
    /\ \A g \in Gets : gpc[g] # "load" => cpc[SessionOf[g]] = "created"
    /\ \A s \in Sessions :
        /\ cpc[s] # "created" => consumed[s] = 0 /\ served[s] = 0
        /\ Live(consumed[s]) => consumed[s] >= left[s]
        /\ Live(served[s]) => served[s] >= left[s]

\* Where a handler is tells what its run has come to.
OutcomeOf(p) ==
    /\ ppc[p] \in {"resolve", "load", "claim", "persist", "rollback", "meta", "verify"}
        => outcome[p] = "none"
    /\ ppc[p] \in {"deliver", "dispose", "markVerified", "code"} => outcome[p] = "verified"
    /\ ppc[p] \in {"markFailed", "deliverFailure", "disposeFailure"}
        => outcome[p] = "failed"
    /\ ppc[p] = "report" => outcome[p] \in {"verified", "failed"}
    /\ ppc[p] = "code" => SameDevice(p)
    /\ p \in codes => /\ ppc[p] \in {"fail"} \cup PostEnd
                      /\ outcome[p] = "verified"
                      /\ SameDevice(p)
    /\ SameDevice(p) /\ outcome[p] = "verified" => copy[p] = p
OutcomeInv == \A p \in Posts : OutcomeOf(p)

\* A run holds its claim until its rollback or its own DELETE, which a verified
\* same-device run never makes.
HoldsOf(p) ==
    /\ ppc[p] \in {"persist", "rollback", "meta", "verify", "deliver", "dispose"}
        => p \in holds
    /\ SameDevice(p) /\ (ppc[p] \in InRun \/ outcome[p] = "verified") => p \in holds
HoldsInv ==
    /\ \A p \in Posts : HoldsOf(p)
    /\ \A p, q \in holds :
        SessionOf[p] = SessionOf[q] /\ Protected(SessionOf[p]) => p = q
    /\ \A p \in holds : Protected(SessionOf[p]) => Live(consumed[SessionOf[p]])

\* As long as no call has failed, so does a failed run, whatever the flow.
Held(p) ==
    ppc[p] \in {"report", "markFailed", "deliverFailure", "disposeFailure"}
    /\ outcome[p] = "failed" => p \in holds
HeldInv == faults = 0 => \A p \in Posts : Held(p)

\* Of the runs on a same-device session one at most is verified, and what it
\* wrote stands until the session expires.
Verified(p) ==
    SameDevice(p) /\ outcome[p] = "verified" /\ SessionOf[p] \notin opDeleted
VerifiedData(p) ==
    LET s == SessionOf[p] IN
    /\ ppc[p] \in {"dispose", "report", "markVerified", "code"} \/ p \in codes
        => payload[s] = "verified"
    /\ ppc[p] \in {"report", "markVerified", "code"} \/ p \in codes
        => session[s].code = p /\ session[s].ttl >= left[s]
    /\ ppc[p] \in {"markVerified", "code"} \/ p \in codes
        => report[s] = "verified"
VerifiedInv ==
    /\ \A p, q \in Posts :
        Verified(p) /\ Verified(q) /\ SessionOf[p] = SessionOf[q] => p = q
    /\ \A p \in Posts : Verified(p) /\ left[SessionOf[p]] > 0 => VerifiedData(p)

\* A status of "verified" comes after the handoff.
HandoffInv ==
    /\ \A p \in Posts :
        /\ ppc[p] \in {"dispose", "report", "markVerified"}
        /\ outcome[p] = "verified"
        => p \in handoffs
    /\ \A s \in Sessions : status[s] = "verified" =>
        \E p \in handoffs : SessionOf[p] = s

\* Only the request that set the served marker gets to sign.
Signs(g) == gpc[g] = "sign" \/ g \in jars
ServedInv ==
    /\ \A g \in jars : gpc[g] \in {"engage", "answered", "crashed"}
    /\ \A g, h \in Gets :
        /\ Signs(g) /\ Signs(h) /\ SessionOf[g] = SessionOf[h]
        /\ SessionOf[g] \notin cleared /\ left[SessionOf[g]] > 0
        => g = h
    /\ \A g \in Gets :
        Signs(g) /\ SessionOf[g] \notin cleared /\ left[SessionOf[g]] > 0
        => Live(served[SessionOf[g]])

\* A run that got past its claim holds it until the session is deleted.
ClaimedInv ==
    /\ \A p \in Posts : Claimed(p) /\ SessionOf[p] \notin cleared => p \in holds
    /\ \A s \in opDeleted : cpc[s] = "created"

\* The store calls that conclude a failed run have not failed.
Concluding == {"deliver", "dispose", "report"}
Reliable   == faults = 0 \/ FaultyOps \cap Concluding = {}

\* What a failed run left behind, by where it is.  Another run may have
\* delivered since, on a session that this one has deleted.
Told(p) ==
    \/ payload[SessionOf[p]] = "failed"
    \/ \E q \in handoffs \ {p} : SessionOf[q] = SessionOf[p]
FinalizedInv ==
    Reliable => \A p \in Posts : outcome[p] = "failed" =>
        /\ ppc[p] \in {"disposeFailure", "fail", "refused"} => Told(p)
        /\ ppc[p] \in {"fail", "refused"} => SessionOf[p] \in cleared
        /\ ppc[p] # "answered"

\* A status of "verified" is that of a run which has got so far, and so are the
\* payload and the report, as long as no other run can have followed.
StatusInv ==
    \A s \in Sessions : status[s] = "verified" =>
        /\ \E p \in Posts : /\ SessionOf[p] = s /\ outcome[p] = "verified"
                          /\ ppc[p] \in {"markVerified", "code", "fail"} \cup PostEnd
        /\ flow[s] = "same_device" /\ s \notin opDeleted /\ left[s] > 0
            => payload[s] = "verified" /\ report[s] = "verified"

IndInv ==
    /\ TypeInv /\ MarkersInv /\ OutcomeInv /\ HoldsInv /\ HeldInv
    /\ VerifiedInv /\ HandoffInv /\ ServedInv
    /\ ClaimedInv /\ FinalizedInv /\ StatusInv

-----------------------------------------------------------------------------
(***************************************************************************)
(* How far ConsumedOnce, FailedRunFinalized and DeletedStaysDead hold.     *)
(***************************************************************************)
\* store.go: of the callers of ConsumeOnce one at most sees first==true, until
\* the session expires or one of them, or the operator, has deleted it.
ConsumedOnceUntilCleared ==
    \A p, q \in Posts :
        /\ Claimed(p) /\ Claimed(q) /\ SessionOf[p] = SessionOf[q]
        /\ left[SessionOf[p]] > 0 /\ SessionOf[p] \notin cleared
        => p = q

\* finalize.go: a failed run deletes the session and the client learns of it,
\* unless SaveReport, the delivery or the disposal failed.  It may learn of a
\* second run instead, which a deleted session permits.
FailedRunFinalizedReliably ==
    Reliable => \A p \in Posts : ppc[p] = "refused" /\ outcome[p] = "failed" =>
        SessionOf[p] \in cleared /\ Told(p)

\* Responses that have loaded the session and have a Save of it before them.
MaySave(p) ==
    \/ ppc[p] \in {"claim", "persist"}
    \/ SameDevice(p) /\ ppc[p] \in {"meta", "verify", "deliver", "dispose"}
Undisturbed(s) == \A p \in Posts : SessionOf[p] = s => ~MaySave(p)
Dead(s)        == s \in opDeleted /\ ~Loadable(s) /\ Undisturbed(s)

\* README, DELETE kills the wallet-facing session: it does, and for good, when
\* it finds no response between its load and the last save it will make.
DeleteIsFinal ==
    [][\A s \in Sessions :
        Dead(s) \/ (InternalDelete(s) /\ Undisturbed(s)) => Dead(s)']_vars

-----------------------------------------------------------------------------
(***************************************************************************)
(* What KeysForgotten rests on, fairness apart.                            *)
(***************************************************************************)
\* Calls that a handler has before it at most.
PostRank(p) ==
    CASE ppc[p] = "resolve" -> 13 [] ppc[p] = "load" -> 12 [] ppc[p] = "claim" -> 11
      [] ppc[p] = "persist" -> 10 [] ppc[p] = "meta" -> 9 [] ppc[p] = "verify" -> 8
      [] ppc[p] = "deliver" -> 7 [] ppc[p] = "dispose" -> 6 [] ppc[p] = "report" -> 5
      [] ppc[p] = "markFailed" -> 4 [] ppc[p] = "deliverFailure" -> 3
      [] ppc[p] = "disposeFailure" -> 2 [] ppc[p] = "markVerified" -> 3
      [] ppc[p] = "code" -> 2 [] ppc[p] \in {"fail", "rollback"} -> 1 [] OTHER -> 0
GetRank(g) ==
    CASE gpc[g] = "load" -> 4 [] gpc[g] = "mark" -> 3 [] gpc[g] = "sign" -> 2
      [] gpc[g] = "engage" -> 1 [] OTHER -> 0
CreateRank(s) ==
    CASE cpc[s] = "new" -> 4 [] cpc[s] = "save" -> 3 [] cpc[s] = "route" -> 2
      [] cpc[s] = "record" -> 1 [] OTHER -> 0

\* No handler goes round in a circle, whatever fails: each call brings it nearer
\* to its end, and its end is its end.
HandlersEnd ==
    [][/\ \A p \in Posts : ppc'[p] # ppc[p] => PostRank(p)' < PostRank(p)
       /\ \A g \in Gets : gpc'[g] # gpc[g] => GetRank(g)' < GetRank(g)
       /\ \A s \in Sessions : cpc'[s] # cpc[s] => CreateRank(s)' < CreateRank(s)]_vars

\* Nobody will write a key of the session again.
Quiet(s) ==
    \/ cpc[s] = "failed"
    \/ /\ cpc[s] = "created"
       /\ \A p \in Posts : SessionOf[p] = s => ppc[p] \in PostEnd
       /\ \A g \in Gets : SessionOf[g] = s => gpc[g] \in {"answered", "refused", "crashed"}

KeysOf(s) == <<session[s].ttl, served[s], consumed[s], token[s]>>

\* store.go: from then on its keys only grow older, and a tick ages each of them.
QuietKeysAge ==
    [][\A s \in Sessions : Quiet(s) =>
        /\ Quiet(s)'
        /\ \A k \in 1 .. 4 :
            KeysOf(s)'[k] <= KeysOf(s)[k] /\ (Tick /\ KeysOf(s)[k] > 0 => KeysOf(s)'[k] < KeysOf(s)[k])
        /\ \A p \in Posts : SessionOf[p] = s =>
            respCode'[p] <= respCode[p] /\ (Tick /\ respCode[p] > 0 => respCode'[p] < respCode[p])]_vars

\* A status of "verified" gives way only to what was under way already: the
\* wallet_engaged of a request object, or the failed of a run.
StatusKept ==
    [][\A s \in Sessions : status[s] = "verified" /\ status'[s] # "verified" =>
        \/ \E g \in Gets : SessionOf[g] = s /\ gpc[g] = "engage"
        \/ \E p \in Posts : SessionOf[p] = s /\ ppc[p] \in {"fail", "markFailed"}]_vars
=============================================================================
