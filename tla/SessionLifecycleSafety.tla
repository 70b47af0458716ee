------------------------ MODULE SessionLifecycleSafety ------------------------
(***************************************************************************)
(* The inductive invariant of SessionLifecycleInv and the safety           *)
(* properties that follow from it, for any sets of sessions and requests,  *)
(* any TTLs, and any calls that fail.                                      *)
(*                                                                         *)
(* The first part says what each step may do, without the invariant: which *)
(* keys a request writes, where it may move, what it writes for the        *)
(* client.  The second part proves each part of the invariant from that,   *)
(* one step per kind of actor.  The third part draws the consequences.     *)
(***************************************************************************)
EXTENDS SessionLifecycleProofs

\* What a request of session s = SessionOf[p] may do to the record and the markers.
Claims(p, s)    == /\ ppc[p] = "claim" /\ ~Live(consumed[s])
                   /\ ppc'[p] \in {"persist", "refused"}
                   /\ consumed' = [consumed EXCEPT ![s] = SessionTTL]
                   /\ holds' = holds \cup {p}
                   /\ UNCHANGED <<session, served, cleared>>
GivesBack(p, s) == /\ ppc[p] = "rollback" /\ ppc'[p] = "refused"
                   /\ consumed' = [consumed EXCEPT ![s] = 0]
                   /\ holds' = holds \ {p}
                   /\ UNCHANGED <<session, served, cleared>>
Deletes(p, s)   == /\ \/ ppc[p] = "dispose" /\ ~SameDevice(p) /\ ppc'[p] = "report"
                      \/ ppc[p] = "disposeFailure" /\ ppc'[p] = "fail"
                   /\ DeleteSession(s)
                   /\ holds' = holds \ {p}
Saves(p, s)     == /\ \/ ppc[p] = "persist" /\ ppc'[p] \in {"meta", "rollback"}
                      \/ ppc[p] = "dispose" /\ SameDevice(p) /\ ppc'[p] = "report"
                   /\ Save(s, TRUE, copy[p])
                   /\ UNCHANGED <<served, consumed, holds, cleared>>
KeepsKeys(p)    == /\ UNCHANGED <<session, served, consumed, holds, cleared>>
                   /\ ppc[p] = "claim" => ppc'[p] \in {"refused", "crashed"}

\* The store calls of a POST fall into these five kinds.
LEMMA PostKeys ==
  ASSUME TypeInv, NEW p \in Posts, Post(p) \/ PostCrash(p)
  PROVE  LET s == SessionOf[p] IN
         Claims(p, s) \/ GivesBack(p, s) \/ Deletes(p, s) \/ Saves(p, s) \/ KeepsKeys(p)
<1> DEFINE s == SessionOf[p]
<1>0. ppc \in [Posts -> PostPC] /\ KeyTTL(SessionTTL) = SessionTTL
  BY TTLsPositive, KeyTTLPositive DEF TypeInv, TypeOK
<1>3. CASE PostLoad(p) \/ PostOversized(p) \/ PostResolve(p) \/ PostMeta(p) \/ PostVerify(p)
  BY <1>0, <1>3 DEF PostLoad, PostOversized, PostResolve, PostMeta, PostVerify, KeepsKeys, PostTo, keys, deletes
<1>4. CASE PostClaim(p)
  BY <1>0, <1>4 DEF PostClaim, Claim, ClaimFrame, Call, PostTo, deletes, Claims, KeepsKeys
<1>5. CASE PostPersist(p)
  BY <1>0, <1>5 DEF PostPersist, Call, PostTo, deletes, Saves, KeepsKeys
<1>6. CASE PostRollback(p)
  BY <1>0, <1>6 DEF PostRollback, Call, PostTo, deletes, GivesBack, KeepsKeys
<1>10. CASE PostDispose(p)
  BY <1>0, <1>10 DEF PostDispose, HandoffFailed, Dispose, Call, PostTo, keys, Deletes, Saves, KeepsKeys
<1>14. CASE PostDisposeFailure(p)
  BY <1>0, <1>14 DEF PostDisposeFailure, Call, PostTo, keys, Deletes, KeepsKeys
<1>15. CASE \/ PostDeliver(p) \/ PostReport(p) \/ PostMarkFailed(p) \/ PostDeliverFailure(p)
            \/ PostMarkVerified(p) \/ PostCode(p) \/ PostFail(p)
  BY <1>0, <1>15 DEF PostDeliver, HandoffFailed, PostReport, PostMarkFailed, PostDeliverFailure, PostMarkVerified, PostCode, PostFail, Call, KeepsKeys, PostTo, keys, deletes
<1>18. CASE PostCrash(p)
  BY <1>0, <1>18 DEF PostCrash, PostTo, keys, deletes, KeepsKeys
<1> QED BY <1>3, <1>4, <1>5, <1>6, <1>10, <1>14, <1>15, <1>18 DEF Post

\* Where a request may move, with the outcome and the copy of the record it takes along.
Moves(p) ==
    \/ /\ UNCHANGED <<outcome, copy>>
       /\ \/ ppc[p] = "resolve" /\ ppc'[p] \in {"load", "refused"}
          \/ ppc[p] = "load" /\ ppc'[p] = "refused"
          \/ ppc[p] = "claim" /\ ppc'[p] \in {"persist", "refused"}
          \/ ppc[p] = "persist" /\ ppc'[p] \in {"meta", "rollback"}
          \/ ppc[p] = "rollback" /\ ppc'[p] = "refused"
          \/ ppc[p] = "meta" /\ ppc'[p] \in {"verify", "fail"}
          \/ ppc[p] = "deliver" /\ ppc'[p] = "dispose"
          \/ ppc[p] = "dispose" /\ ppc'[p] = "report"
          \/ ppc[p] = "report" /\ ppc'[p] = IF outcome[p] = "verified" THEN "markVerified"
                                                                       ELSE "markFailed"
          \/ ppc[p] = "report" /\ ppc'[p] = "fail"
          \/ ppc[p] = "markFailed" /\ ppc'[p] = "deliverFailure"
          \/ ppc[p] = "deliverFailure" /\ ppc'[p] \in {"disposeFailure", "fail"}
          \/ ppc[p] = "disposeFailure" /\ ppc'[p] = "fail"
          \/ ppc[p] = "markVerified" /\ ppc'[p] = IF SameDevice(p) THEN "code" ELSE "answered"
          \/ ppc[p] = "markVerified" /\ ppc'[p] = "fail"
          \/ ppc[p] = "code" /\ ppc'[p] \in {"answered", "fail"}
          \/ ppc[p] = "fail" /\ ppc'[p] = "refused"
          \/ ppc[p] \notin {"resolve"} \cup PostEnd /\ ppc'[p] = "crashed"
    \/ /\ ppc[p] = "load" /\ ppc'[p] = "claim" /\ UNCHANGED outcome
    \/ /\ ppc[p] = "verify" /\ ppc'[p] = "deliver"
       /\ outcome' = [outcome EXCEPT ![p] = "verified"]
       /\ copy' = [copy EXCEPT ![p] = IF SameDevice(p) THEN p ELSE @]
       /\ left[SessionOf[p]] > 0
    \/ /\ ppc[p] \in {"verify", "deliver", "dispose"} /\ ppc'[p] = "report"
       /\ outcome' = [outcome EXCEPT ![p] = "failed"] /\ UNCHANGED copy

\* Every step of a POST is one of these moves; only SaveResponseCode adds a code.
LEMMA PostMoves ==
  ASSUME TypeInv, NEW p \in Posts, Post(p) \/ PostCrash(p)
  PROVE  /\ Moves(p)
         /\ codes' = codes \/ (ppc[p] = "code" /\ codes' = codes \cup {p})
<1>0. ppc \in [Posts -> PostPC]
  BY DEF TypeInv, TypeOK
<1>1. CASE PostResolve(p) \/ PostOversized(p) \/ PostLoad(p) \/ PostMeta(p) \/ PostVerify(p)
  BY <1>0, <1>1 DEF PostResolve, PostOversized, PostLoad, PostMeta, PostVerify, PostTo, locals, results, Moves
<1>4. CASE PostClaim(p) \/ PostPersist(p) \/ PostRollback(p)
  BY <1>0, <1>4 DEF PostClaim, Claim, ClaimFrame, PostPersist, PostRollback, Call, PostTo, locals, results, Moves
<1>9. CASE PostDeliver(p) \/ PostDispose(p)
  BY <1>0, <1>9 DEF PostDeliver, PostDispose, HandoffFailed, Call, PostTo, results, Moves
<1>11. CASE PostReport(p) \/ PostMarkFailed(p) \/ PostDeliverFailure(p) \/ PostDisposeFailure(p)
  BY <1>0, <1>11 DEF PostReport, PostMarkFailed, PostDeliverFailure, PostDisposeFailure, Call, PostTo, locals, results, Moves
<1>15. CASE PostMarkVerified(p) \/ PostCode(p) \/ PostFail(p)
  BY <1>0, <1>15 DEF PostMarkVerified, PostCode, PostFail, Call, PostTo, locals, results, Moves
<1>18. CASE PostCrash(p)
  BY <1>0, <1>18 DEF PostCrash, PostTo, locals, results, Moves
<1> QED BY <1>1, <1>4, <1>9, <1>11, <1>15, <1>18 DEF Post

\* What it may write for the client.
LEMMA PostResults ==
  ASSUME TypeInv, NEW p \in Posts, Post(p) \/ PostCrash(p)
  PROVE  LET s == SessionOf[p] IN
         /\ \/ UNCHANGED <<payload, handoffs>>
            \/ /\ ppc[p] = "deliver"
               /\ payload' = [payload EXCEPT ![s] = "verified"] /\ handoffs' = handoffs \cup {p}
            \/ /\ ppc[p] = "deliverFailure"
               /\ payload' = [payload EXCEPT ![s] = "failed"] /\ UNCHANGED handoffs
         /\ ppc[p] = "deliver" /\ ppc'[p] = "dispose"
               => payload' = [payload EXCEPT ![s] = "verified"] /\ p \in handoffs'
         /\ \/ UNCHANGED report
            \/ ppc[p] = "report" /\ report' = [report EXCEPT ![s] = outcome[p]]
         /\ ppc[p] = "report" /\ ppc'[p] \in {"markVerified", "markFailed"}
               => report' = [report EXCEPT ![s] = outcome[p]]
         /\ \/ UNCHANGED status
            \/ \E new \in {"verified", "failed"} :
                 /\ SetStatus(s, new)
                 /\ new = "verified" => ppc[p] = "markVerified"
         /\ ppc[p] = "dispose" /\ ppc'[p] = "report" /\ outcome'[p] = "verified" /\ SameDevice(p)
               => Save(s, TRUE, copy[p])
<1>0. ppc \in [Posts -> PostPC] /\ outcome \in [Posts -> {"none", "verified", "failed"}]
  BY DEF TypeInv, TypeOK
<1>1. CASE PostResolve(p) \/ PostOversized(p) \/ PostLoad(p) \/ PostMeta(p) \/ PostVerify(p)
  BY <1>0, <1>1 DEF PostResolve, PostOversized, PostLoad, PostMeta, PostVerify, PostTo, meta, results
<1>4. CASE PostClaim(p) \/ PostPersist(p) \/ PostRollback(p)
  BY <1>0, <1>4 DEF PostClaim, Claim, ClaimFrame, PostPersist, PostRollback, Call, PostTo, meta, results
<1>9. CASE PostDeliver(p)
  BY <1>0, <1>9 DEF PostDeliver, HandoffFailed, Call, PostTo, meta
<1>10. CASE PostDispose(p)
  BY <1>0, <1>10 DEF PostDispose, HandoffFailed, Dispose, Call, PostTo, meta, results
<1>11. CASE PostReport(p)
  BY <1>0, <1>11 DEF PostReport, Call, PostTo, results
<1>12. CASE PostMarkFailed(p) \/ PostMarkVerified(p) \/ PostFail(p)
  BY <1>0, <1>12 DEF PostMarkFailed, PostMarkVerified, PostFail, Call, PostTo, results
<1>13. CASE PostDeliverFailure(p) \/ PostDisposeFailure(p)
  BY <1>0, <1>13 DEF PostDeliverFailure, PostDisposeFailure, Call, PostTo, meta, results
<1>15. CASE PostCode(p) \/ PostCrash(p)
  BY <1>0, <1>15 DEF PostCode, PostCrash, Call, PostTo, meta, results
<1> QED BY <1>1, <1>4, <1>9, <1>10, <1>11, <1>12, <1>13, <1>15 DEF Post

\* It tells the client nothing about another session.
LEMMA PostElsewhere ==
  ASSUME TypeInv, NEW q \in Posts, Post(q) \/ PostCrash(q),
         NEW t \in Sessions, SessionOf[q] # t
  PROVE  payload'[t] = payload[t] /\ report'[t] = report[t] /\ status'[t] = status[t]
<1>0. /\ payload \in [Sessions -> {"none", "verified", "failed"}]
      /\ report \in [Sessions -> {"none", "verified", "failed"}]
      /\ status \in [Sessions -> {"none", "pending", "wallet_engaged", "verified", "failed"}]
  BY DEF TypeInv, TypeOK
<1>1. /\ \/ UNCHANGED payload
         \/ \E x \in {"verified", "failed"} : payload' = [payload EXCEPT ![SessionOf[q]] = x]
      /\ \/ UNCHANGED report
         \/ report' = [report EXCEPT ![SessionOf[q]] = outcome[q]]
      /\ \/ UNCHANGED status
         \/ \E x \in {"verified", "failed"} : status' = [status EXCEPT ![SessionOf[q]] = x]
  BY PostResults DEF SetStatus
<1>2. payload'[t] = payload[t]
  BY <1>0, <1>1
<1>3. report'[t] = report[t]
  BY <1>0, <1>1
<1>4. status'[t] = status[t]
  BY <1>0, <1>1
<1> QED BY <1>2, <1>3, <1>4

\* What a request leaves alone.
LEMMA PostFrame ==
  ASSUME TypeInv, NEW p \in Posts, Post(p) \/ PostCrash(p)
  PROVE  /\ UNCHANGED <<cpc, flow, left, gpc, jars, opDeleted>>
         /\ \A q \in Posts \ {p} : ppc'[q] = ppc[q] /\ copy'[q] = copy[q]
         /\ ppc[p] = "resolve" => cpc[SessionOf[p]] = "created"
<1>0. ppc \in [Posts -> PostPC] /\ copy \in [Posts -> Posts \cup {NoRun}]
  BY DEF TypeInv, TypeOK
<1>1. CASE PostResolve(p) \/ PostOversized(p) \/ PostLoad(p) \/ PostMeta(p) \/ PostVerify(p)
  BY <1>0, <1>1 DEF PostResolve, PostOversized, PostLoad, PostMeta, PostVerify, PostTo, locals, creator, results, deletes
<1>4. CASE PostClaim(p) \/ PostPersist(p) \/ PostRollback(p)
  BY <1>0, <1>4 DEF PostClaim, Claim, ClaimFrame, PostPersist, PostRollback, Call, PostTo, locals, creator, results, deletes
<1>9. CASE PostDeliver(p) \/ PostDispose(p)
  BY <1>0, <1>9 DEF PostDeliver, PostDispose, HandoffFailed, Call, PostTo, creator, results, deletes
<1>11. CASE PostReport(p) \/ PostMarkFailed(p) \/ PostDeliverFailure(p) \/ PostDisposeFailure(p)
  BY <1>0, <1>11 DEF PostReport, PostMarkFailed, PostDeliverFailure, PostDisposeFailure, Call, PostTo, locals, creator, results, deletes
<1>15. CASE PostMarkVerified(p) \/ PostCode(p) \/ PostFail(p) \/ PostCrash(p)
  BY <1>0, <1>15 DEF PostMarkVerified, PostCode, PostFail, PostCrash, Call, PostTo, locals, creator, results, deletes
<1> QED BY <1>1, <1>4, <1>9, <1>11, <1>15 DEF Post

\* What fails is counted; a handoff fails only with a call that failed.
LEMMA PostFaults ==
  ASSUME TypeInv, NEW p \in Posts, Post(p) \/ PostCrash(p)
  PROVE  /\ faults' = 0 => faults = 0
         /\ ppc[p] \in {"deliver", "dispose"} /\ ppc'[p] = "report" /\ outcome'[p] = "failed"
              => faults' # 0 \/ outcome[p] = "failed"
<1>0. ppc \in [Posts -> PostPC] /\ faults \in Nat
  BY RequestsTyped DEF TypeInv, TypeOK
<1>1. CASE PostResolve(p) \/ PostOversized(p) \/ PostLoad(p) \/ PostMeta(p) \/ PostVerify(p)
  BY <1>0, <1>1 DEF PostResolve, PostOversized, PostLoad, PostMeta, PostVerify, PostTo, Succeeds, Fails
<1>4. CASE PostClaim(p) \/ PostPersist(p) \/ PostRollback(p)
  <2>1. UNCHANGED faults \/ faults' = faults + 1
    BY <1>4 DEF PostClaim, Claim, PostPersist, PostRollback, Call, Succeeds, Fails
  <2>2. ppc[p] \notin {"deliver", "dispose"}
    BY <1>4 DEF PostClaim, PostPersist, PostRollback
  <2> QED BY <1>0, <2>1, <2>2
<1>9. CASE PostDeliver(p)
  <2>1. \/ UNCHANGED <<faults, outcome>>
        \/ faults' = faults + 1
    BY <1>9 DEF PostDeliver, Call, Succeeds, Fails
  <2> QED BY <1>0, <2>1
<1>10. CASE PostDispose(p)
  <2>1. \/ UNCHANGED <<faults, outcome>>
        \/ faults' = faults + 1
    BY <1>10 DEF PostDispose, Call, Succeeds, Fails
  <2> QED BY <1>0, <2>1
<1>11. CASE PostReport(p) \/ PostMarkFailed(p) \/ PostDeliverFailure(p) \/ PostDisposeFailure(p)
  BY <1>0, <1>11 DEF PostReport, PostMarkFailed, PostDeliverFailure, PostDisposeFailure, Call, PostTo, Succeeds, Fails
<1>15. CASE PostMarkVerified(p) \/ PostCode(p) \/ PostFail(p) \/ PostCrash(p)
  BY <1>0, <1>15 DEF PostMarkVerified, PostCode, PostFail, PostCrash, Call, PostTo, Succeeds, Fails
<1> QED BY <1>1, <1>4, <1>9, <1>10, <1>11, <1>15 DEF Post

\* So do the other handlers count what fails.
LEMMA OtherFaults ==
  ASSUME TypeInv,
         \/ \E s \in Sessions : Create(s) \/ InternalDelete(s)
         \/ \E g \in Gets : Get(g) \/ GetCrash(g)
         \/ Tick \/ UNCHANGED vars
  PROVE  faults' = 0 => faults = 0
<1>0. faults \in Nat
  BY RequestsTyped DEF TypeInv, TypeOK
<1>1. ASSUME NEW s \in Sessions, Create(s) \/ InternalDelete(s) PROVE faults' = 0 => faults = 0
  <2>1. UNCHANGED faults \/ faults' = faults + 1
    BY <1>1 DEF Create, CreateMint, CreateSave, CreateRoute, CreateRecord, InternalDelete,
       Call, Succeeds, Fails
  <2> QED BY <1>0, <2>1
<1>2. ASSUME NEW g \in Gets, Get(g) \/ GetCrash(g) PROVE faults' = 0 => faults = 0
  BY <1>0, <1>2 DEF Get, GetLoad, GetMark, GetSign, GetEngage, GetCrash, Call, Succeeds, Fails
<1> QED BY <1>1, <1>2 DEF Tick, vars

\* Create touches no marker and no request, and ends with a created session.
LEMMA CreateEffect ==
  ASSUME TypeInv, NEW s \in Sessions, Create(s)
  PROVE  /\ UNCHANGED <<served, consumed, payload, report, flow, ppc, locals, gpc, holds,
                        results, deletes>>
         /\ cpc[s] # "created" /\ \A r \in Sessions \ {s} : cpc'[r] = cpc[r]
         /\ left' = left \/ (cpc[s] = "new" /\ left' = [left EXCEPT ![s] = SessionTTL])
         /\ \A r \in Sessions \ {s} : session'[r] = session[r]
         /\ \A r \in Sessions : status'[r] = status[r] \/ status'[r] = "pending"
<1>0. /\ cpc \in [Sessions -> {"new", "save", "route", "record", "created", "failed"}]
      /\ session \in [Sessions -> [ttl : 0 .. SessionTTL, consumed : BOOLEAN, code : Posts \cup {NoRun}]]
      /\ status \in [Sessions -> {"none", "pending", "wallet_engaged", "verified", "failed"}]
  BY DEF TypeInv, TypeOK
<1>1. CASE CreateMint(s)
  BY <1>0, <1>1 DEF CreateMint, CreatorTo, keys, meta, index
<1>2. CASE CreateSave(s)
  BY <1>0, <1>2 DEF CreateSave, Call, Save, CreatorTo, keys, meta, index
<1>3. CASE CreateRoute(s)
  BY <1>0, <1>3 DEF CreateRoute, Call, CreatorTo, keys, meta, index
<1>4. CASE CreateRecord(s)
  BY <1>0, <1>4 DEF CreateRecord, Call, SetStatus, CreatorTo, keys, meta, index
<1> QED BY <1>1, <1>2, <1>3, <1>4 DEF Create

\* A fetch touches the served marker, its own place and the request objects it signs.
LEMMA GetEffect ==
  ASSUME TypeInv, NEW g \in Gets, Get(g) \/ GetCrash(g)
  PROVE  LET s == SessionOf[g] IN
         /\ UNCHANGED <<session, consumed, index, payload, report, creator, ppc, locals, holds, handoffs,
                        codes, deletes>>
         /\ \A h \in Gets \ {g} : gpc'[h] = gpc[h]
         /\ gpc[g] = "load" => cpc[s] = "created"
         /\ \A r \in Sessions : status'[r] = status[r] \/ status'[r] = "wallet_engaged"
         /\ \/ /\ gpc[g] = "mark" /\ ~Live(served[s]) /\ served' = [served EXCEPT ![s] = SessionTTL]
               /\ gpc'[g] \in {"sign", "refused"} /\ UNCHANGED jars
            \/ /\ gpc[g] = "sign" /\ gpc'[g] = "engage" /\ jars' = jars \cup {g} /\ UNCHANGED served
            \/ /\ gpc[g] = "engage" /\ gpc'[g] \in {"answered", "crashed"} /\ UNCHANGED <<served, jars>>
            \/ /\ gpc'[g] \in {"mark", "refused", "crashed"} /\ UNCHANGED <<served, jars>>
               /\ gpc[g] \in {"load", "mark", "sign"}
<1>0. /\ gpc \in [Gets -> GetPC] /\ KeyTTL(SessionTTL) = SessionTTL
      /\ status \in [Sessions -> {"none", "pending", "wallet_engaged", "verified", "failed"}]
  BY TTLsPositive, KeyTTLPositive DEF TypeInv, TypeOK
<1>1. CASE GetLoad(g)
  BY <1>0, <1>1 DEF GetLoad, GetTo, keys, meta, results
<1>2. CASE GetMark(g)
  BY <1>0, <1>2 DEF GetMark, Call, GetTo, keys, meta, results
<1>3. CASE GetSign(g)
  BY <1>0, <1>3 DEF GetSign, GetTo, keys, meta, results
<1>4. CASE GetEngage(g)
  BY <1>0, <1>4 DEF GetEngage, Call, SetStatus, GetTo, keys, meta, results
<1>5. CASE GetCrash(g)
  BY <1>0, <1>5 DEF GetCrash, GetTo, keys, meta, results
<1> QED BY <1>1, <1>2, <1>3, <1>4, <1>5 DEF Get

\* A tick takes at most one tick from every key and from the session itself.
LEMMA TickEffect ==
  ASSUME TypeInv, Tick
  PROVE  /\ UNCHANGED <<payload, report, status, cpc, flow, ppc, locals, gpc, holds, results, deletes>>
         /\ \A s \in Sessions :
              /\ left'[s] = IF left[s] > 0 THEN left[s] - 1 ELSE 0
              /\ consumed'[s] = IF consumed[s] > 0 THEN consumed[s] - 1 ELSE 0
              /\ served'[s] = IF served[s] > 0 THEN served[s] - 1 ELSE 0
              /\ session[s].ttl > 1 => /\ session'[s].code = session[s].code
                                      /\ session'[s].ttl = session[s].ttl - 1
<1>0. /\ session \in [Sessions -> [ttl : 0 .. SessionTTL, consumed : BOOLEAN, code : Posts \cup {NoRun}]]
      /\ served \in [Sessions -> 0 .. SessionTTL] /\ consumed \in [Sessions -> 0 .. SessionTTL]
      /\ left \in [Sessions -> 0 .. SessionTTL] /\ SessionTTL \in Nat
  BY TTLsPositive DEF TypeInv, TypeOK
<1>1. ASSUME NEW s \in Sessions, session[s].ttl > 1
      PROVE  session'[s].code = session[s].code /\ session'[s].ttl = session[s].ttl - 1
  <2>1. Live(Age(session[s].ttl)) /\ Age(session[s].ttl) = session[s].ttl - 1
    BY <1>0, <1>1 DEF Live, Age
  <2>2. session'[s] = [session[s] EXCEPT !.ttl = Age(@)]
    BY <1>0, <2>1 DEF Tick
  <2> QED BY <1>0, <2>1, <2>2
<1>2. ASSUME NEW s \in Sessions
      PROVE  /\ left'[s] = IF left[s] > 0 THEN left[s] - 1 ELSE 0
             /\ consumed'[s] = IF consumed[s] > 0 THEN consumed[s] - 1 ELSE 0
             /\ served'[s] = IF served[s] > 0 THEN served[s] - 1 ELSE 0
  BY <1>0 DEF Tick, Age
<1> QED BY <1>1, <1>2 DEF Tick, meta, locals, results, deletes

-----------------------------------------------------------------------------
\* The markers outlive the session.
LEMMA MarkersStep == TypeInv /\ MarkersInv /\ [Next]_vars => MarkersInv'
<1> SUFFICES ASSUME TypeInv, MarkersInv, [Next]_vars PROVE MarkersInv'
  OBVIOUS
<1>0. /\ SessionOf \in [Posts \cup Gets -> Sessions] /\ SessionTTL \in Nat \ {0}
      /\ served \in [Sessions -> 0 .. SessionTTL] /\ consumed \in [Sessions -> 0 .. SessionTTL]
      /\ left \in [Sessions -> 0 .. SessionTTL] /\ holds \subseteq Posts
  BY RequestsTyped, TTLsPositive DEF TypeInv, TypeOK
<1>create. ASSUME NEW s \in Sessions, Create(s) PROVE MarkersInv'
  BY <1>0, <1>create, CreateEffect DEF MarkersInv, Live
<1>post. ASSUME NEW p \in Posts, Post(p) \/ PostCrash(p) PROVE MarkersInv'
  <2> DEFINE s == SessionOf[p]
  <2>0. /\ cpc[s] = "created" /\ UNCHANGED <<cpc, left, gpc>>
        /\ \A q \in Posts \ {p} : ppc'[q] = ppc[q]
    BY <1>post, PostFrame DEF MarkersInv
  <2>1. CASE Claims(p, s)
    BY <1>0, <2>0, <2>1 DEF MarkersInv, Claims, Live
  <2>2. CASE GivesBack(p, s)
    BY <1>0, <2>0, <2>2 DEF MarkersInv, GivesBack, Live
  <2>3. CASE Deletes(p, s)
    BY <1>0, <2>0, <2>3 DEF MarkersInv, Deletes, DeleteSession, Live
  <2>4. CASE Saves(p, s) \/ KeepsKeys(p)
    BY <1>0, <2>0, <2>4 DEF MarkersInv, Saves, KeepsKeys
  <2> QED BY <1>post, <2>1, <2>2, <2>3, <2>4, PostKeys
<1>get. ASSUME NEW g \in Gets, Get(g) \/ GetCrash(g) PROVE MarkersInv'
  BY <1>0, <1>get, GetEffect DEF MarkersInv, Live, creator
<1>delete. ASSUME NEW s \in Sessions, InternalDelete(s) PROVE MarkersInv'
  BY <1>0, <1>delete DEF MarkersInv, InternalDelete, DeleteSession, creator, Live
<1>tick. CASE Tick
  BY <1>0, <1>tick, TickEffect DEF MarkersInv, Live
<1>stutter. CASE UNCHANGED vars
  BY <1>stutter DEF MarkersInv, vars, keys, creator
<1> QED BY <1>create, <1>post, <1>get, <1>delete, <1>tick, <1>stutter DEF Next

\* Where a handler is tells what its run has come to.
LEMMA OutcomeStep == TypeInv /\ OutcomeInv /\ [Next]_vars => OutcomeInv'
<1> SUFFICES ASSUME TypeInv, OutcomeInv, [Next]_vars PROVE OutcomeInv'
  OBVIOUS
<1>0. /\ ppc \in [Posts -> PostPC] /\ copy \in [Posts -> Posts \cup {NoRun}]
      /\ outcome \in [Posts -> {"none", "verified", "failed"}] /\ codes \subseteq Posts
  BY DEF TypeInv, TypeOK
<1>create. ASSUME NEW s \in Sessions, Create(s) PROVE OutcomeInv'
  BY <1>create, CreateEffect DEF OutcomeInv, OutcomeOf, SameDevice, locals, results
<1>post. ASSUME NEW p \in Posts, Post(p) \/ PostCrash(p) PROVE OutcomeInv'
  <2>0. /\ Moves(p) /\ UNCHANGED flow
        /\ \A q \in Posts \ {p} : ppc'[q] = ppc[q] /\ copy'[q] = copy[q] /\ outcome'[q] = outcome[q]
        /\ codes' = codes \/ (ppc[p] = "code" /\ codes' = codes \cup {p})
    BY <1>0, <1>post, PostFrame, PostMoves DEF Moves
  <2>1. ASSUME NEW q \in Posts \ {p} PROVE OutcomeOf(q)'
    BY <2>0, <2>1 DEF OutcomeInv, OutcomeOf, SameDevice
  <2>2. OutcomeOf(p)'
    BY <1>0, <2>0 DEF OutcomeInv, OutcomeOf, Moves, SameDevice, PostEnd
  <2> QED BY <2>1, <2>2 DEF OutcomeInv
<1>get. ASSUME NEW g \in Gets, Get(g) \/ GetCrash(g) PROVE OutcomeInv'
  BY <1>get, GetEffect DEF OutcomeInv, OutcomeOf, SameDevice, creator, locals
<1>delete. ASSUME NEW s \in Sessions, InternalDelete(s) PROVE OutcomeInv'
  BY <1>delete DEF OutcomeInv, OutcomeOf, SameDevice, InternalDelete, creator, locals, results
<1>tick. CASE Tick
  BY <1>tick, TickEffect DEF OutcomeInv, OutcomeOf, SameDevice, locals, results
<1>stutter. CASE UNCHANGED vars
  BY <1>stutter DEF OutcomeInv, OutcomeOf, SameDevice, vars, creator, locals, results
<1> QED BY <1>create, <1>post, <1>get, <1>delete, <1>tick, <1>stutter DEF Next

\* A claim is exclusive, and stays with the run until that gives it up.
LEMMA HoldsStep ==
  TypeInv /\ MarkersInv /\ OutcomeInv /\ HoldsInv /\ [Next]_vars => HoldsInv'
<1> SUFFICES ASSUME TypeInv, MarkersInv, OutcomeInv, HoldsInv, [Next]_vars PROVE HoldsInv'
  OBVIOUS
<1>0. /\ SessionOf \in [Posts \cup Gets -> Sessions] /\ SessionTTL \in Nat \ {0}
      /\ consumed \in [Sessions -> 0 .. SessionTTL] /\ left \in [Sessions -> 0 .. SessionTTL]
      /\ holds \subseteq Posts /\ ppc \in [Posts -> PostPC]
      /\ outcome \in [Posts -> {"none", "verified", "failed"}]
      /\ cleared \subseteq Sessions
  BY RequestsTyped, TTLsPositive DEF TypeInv, TypeOK
<1>create. ASSUME NEW s \in Sessions, Create(s) PROVE HoldsInv'
  <2>1. \A p \in holds : SessionOf[p] # s
    BY <1>0, <1>create, CreateEffect DEF MarkersInv
  <2> QED BY <1>0, <1>create, <2>1, CreateEffect
          DEF HoldsInv, HoldsOf, SameDevice, Protected, locals, deletes
<1>post. ASSUME NEW p \in Posts, Post(p) \/ PostCrash(p) PROVE HoldsInv'
  <2> DEFINE s == SessionOf[p]
  <2>0. /\ Moves(p) /\ UNCHANGED <<flow, left, opDeleted>> /\ s \in Sessions
        /\ \A q \in Posts \ {p} : ppc'[q] = ppc[q] /\ outcome'[q] = outcome[q]
        /\ Claims(p, s) \/ GivesBack(p, s) \/ Deletes(p, s) \/ Saves(p, s) \/ KeepsKeys(p)
    BY <1>0, <1>post, PostFrame, PostMoves, PostKeys DEF Moves
  <2>1. \A q \in Posts \ {p} : q \in holds' <=> q \in holds
    BY <2>0 DEF Claims, GivesBack, Deletes, Saves, KeepsKeys
  <2>typed. holds' \subseteq Posts
    BY <1>0, <2>0 DEF Claims, GivesBack, Deletes, Saves, KeepsKeys
  <2>protected. cleared \subseteq cleared'
    BY <2>0 DEF Claims, GivesBack, Deletes, DeleteSession, Saves, KeepsKeys
  <2>2. ASSUME NEW q \in Posts \ {p} PROVE HoldsOf(q)'
    BY <2>0, <2>1, <2>2 DEF HoldsInv, HoldsOf, SameDevice
  <2>3. HoldsOf(p)'
    <3>1. HoldsOf(p) /\ OutcomeOf(p)
      BY DEF HoldsInv, OutcomeInv
    <3>2. CASE Claims(p, s)
      BY <1>0, <3>2 DEF Claims, HoldsOf
    <3>3. CASE GivesBack(p, s)
      BY <1>0, <2>0, <3>1, <3>3 DEF GivesBack, HoldsOf, OutcomeOf, Moves, InRun
    <3>4. CASE Deletes(p, s)
      BY <1>0, <2>0, <3>1, <3>4 DEF Deletes, HoldsOf, OutcomeOf, Moves, InRun, SameDevice
    <3>5. CASE Saves(p, s) \/ KeepsKeys(p)
      BY <1>0, <2>0, <3>1, <3>5 DEF Saves, KeepsKeys, HoldsOf, OutcomeOf, Moves, InRun, SameDevice
    <3> QED BY <2>0, <3>2, <3>3, <3>4, <3>5
  <2>4. ASSUME NEW q \in holds', NEW r \in holds', SessionOf[q] = SessionOf[r],
               Protected(SessionOf[q])'
        PROVE  q = r
    <3>1. q \in Posts /\ r \in Posts /\ Protected(SessionOf[q])
      BY <2>0, <2>typed, <2>protected, <2>4 DEF Protected
    <3>2. CASE Claims(p, s)
      BY <1>0, <2>1, <2>4, <3>1, <3>2 DEF Claims, HoldsInv
    <3>3. CASE ~Claims(p, s)
      BY <2>0, <2>1, <2>4, <3>1, <3>3 DEF HoldsInv, GivesBack, Deletes, Saves, KeepsKeys
    <3> QED BY <3>2, <3>3
  <2>5. ASSUME NEW q \in holds', Protected(SessionOf[q])' PROVE Live(consumed'[SessionOf[q]])
    <3>1. q \in Posts /\ SessionOf[q] \in Sessions
      BY <1>0, <2>typed, <2>5
    <3>2. CASE Claims(p, s)
      BY <1>0, <2>0, <2>1, <2>5, <3>1, <3>2 DEF Claims, HoldsInv, Live, Protected
    <3>3. CASE GivesBack(p, s) \/ Deletes(p, s)
      <4>1. q # p /\ q \in holds
        BY <2>1, <2>5, <3>1, <3>3 DEF GivesBack, Deletes
      <4>2. CASE SessionOf[q] # s
        BY <1>0, <2>0, <2>5, <3>1, <3>3, <4>1, <4>2
           DEF GivesBack, Deletes, DeleteSession, HoldsInv, Live, Protected
      <4>3. CASE SessionOf[q] = s
        <5>1. p \in holds /\ Protected(s)
          BY <1>0, <2>0, <2>5, <3>1, <3>3, <4>3
             DEF GivesBack, Deletes, DeleteSession, Protected, HoldsInv, HoldsOf, InRun,
                 SameDevice
        <5> QED BY <4>1, <4>3, <5>1 DEF HoldsInv
      <4> QED BY <4>2, <4>3
    <3>4. CASE Saves(p, s) \/ KeepsKeys(p)
      BY <2>0, <2>5, <3>1, <3>4 DEF Saves, KeepsKeys, HoldsInv, Protected
    <3> QED BY <2>0, <3>2, <3>3, <3>4
  <2> QED BY <2>2, <2>3, <2>4, <2>5 DEF HoldsInv
<1>get. ASSUME NEW g \in Gets, Get(g) \/ GetCrash(g) PROVE HoldsInv'
  BY <1>get, GetEffect
     DEF HoldsInv, HoldsOf, SameDevice, Protected, creator, locals, deletes
<1>delete. ASSUME NEW s \in Sessions, InternalDelete(s) PROVE HoldsInv'
  BY <1>0, <1>delete DEF HoldsInv, HoldsOf, SameDevice, Protected, InternalDelete,
     DeleteSession, creator, locals
<1>tick. CASE Tick
  BY <1>0, <1>tick, TickEffect
     DEF HoldsInv, HoldsOf, SameDevice, Protected, MarkersInv, Live, locals, deletes
<1>stutter. CASE UNCHANGED vars
  BY <1>stutter
     DEF HoldsInv, HoldsOf, SameDevice, Protected, vars, keys, creator, locals, deletes
<1> QED BY <1>create, <1>post, <1>get, <1>delete, <1>tick, <1>stutter DEF Next

\* As long as no call fails, a failed run holds its claim until its own DELETE.
LEMMA HeldStep ==
  TypeInv /\ OutcomeInv /\ HoldsInv /\ HeldInv /\ [Next]_vars => HeldInv'
<1> SUFFICES ASSUME TypeInv, OutcomeInv, HoldsInv, HeldInv, [Next]_vars, faults' = 0
             PROVE  \A p \in Posts : Held(p)'
  BY DEF HeldInv
<1>0. ppc \in [Posts -> PostPC] /\ outcome \in [Posts -> {"none", "verified", "failed"}]
  BY DEF TypeInv, TypeOK
<1>post. ASSUME NEW q \in Posts, Post(q) \/ PostCrash(q) PROVE \A p \in Posts : Held(p)'
  <2>0. /\ Moves(q) /\ HoldsOf(q) /\ OutcomeOf(q) /\ \A p \in Posts : Held(p)
        /\ \A p \in Posts \ {q} : ppc'[p] = ppc[p] /\ outcome'[p] = outcome[p]
    BY <1>0, <1>post, PostFrame, PostMoves, PostFaults DEF Moves, HoldsInv, HeldInv, OutcomeInv
  <2>1. \A p \in Posts \ {q} : p \in holds' <=> p \in holds
    BY <1>post, PostKeys DEF Claims, GivesBack, Deletes, Saves, KeepsKeys
  <2>2. \A p \in Posts \ {q} : Held(p)'
    BY <2>0, <2>1 DEF Held
  <2>3. ASSUME ppc'[q] \in {"report", "markFailed", "deliverFailure", "disposeFailure"},
               outcome'[q] = "failed"
        PROVE  q \in holds'
    <3>1. ppc[q] \in {"verify", "report", "markFailed", "deliverFailure"}
      BY <1>0, <1>post, <2>0, <2>3, PostFaults DEF Moves, OutcomeOf
    <3>2. q \in holds
      BY <1>0, <2>0, <2>3, <3>1 DEF Held, HoldsOf, Moves
    <3> QED BY <1>post, <3>1, <3>2, PostKeys DEF Claims, GivesBack, Deletes, Saves, KeepsKeys
  <2> QED BY <2>2, <2>3 DEF Held
<1>create. ASSUME NEW s \in Sessions, Create(s) PROVE \A p \in Posts : Held(p)'
  BY <1>create, CreateEffect, OtherFaults DEF HeldInv, Held, locals
<1>get. ASSUME NEW g \in Gets, Get(g) \/ GetCrash(g) PROVE \A p \in Posts : Held(p)'
  BY <1>get, GetEffect, OtherFaults DEF HeldInv, Held, locals
<1>delete. ASSUME NEW s \in Sessions, InternalDelete(s) PROVE \A p \in Posts : Held(p)'
  BY <1>delete, OtherFaults DEF HeldInv, Held, InternalDelete, locals
<1>tick. CASE Tick
  BY <1>tick, TickEffect, OtherFaults DEF HeldInv, Held, locals
<1>stutter. CASE UNCHANGED vars
  BY <1>stutter DEF HeldInv, Held, vars, locals
<1> QED BY <1>create, <1>post, <1>get, <1>delete, <1>tick, <1>stutter DEF Next

\* Two runs cannot both be at work on a same-device session that nobody deleted.
LEMMA Alone ==
  ASSUME TypeInv, HoldsInv,
         NEW p \in Posts, NEW q \in Posts, SessionOf[p] = SessionOf[q],
         SameDevice(p), SessionOf[p] \notin opDeleted, left[SessionOf[p]] > 0,
         ppc[p] \in InRun \/ outcome[p] = "verified",
         ppc[q] \in InRun \/ outcome[q] = "verified"
  PROVE  p = q
<1>1. p \in holds /\ q \in holds
  BY DEF HoldsInv, HoldsOf, SameDevice
<1>2. Protected(SessionOf[p])
  BY DEF Protected, SameDevice
<1> QED BY <1>1, <1>2 DEF HoldsInv

\* A verified same-device run is the only one, and what it wrote stands.
LEMMA VerifiedStep ==
  TypeInv /\ MarkersInv /\ OutcomeInv /\ HoldsInv /\ VerifiedInv /\ [Next]_vars => VerifiedInv'
<1> SUFFICES ASSUME TypeInv, MarkersInv, OutcomeInv, HoldsInv, VerifiedInv, [Next]_vars
             PROVE  VerifiedInv'
  OBVIOUS
<1>0. /\ SessionOf \in [Posts \cup Gets -> Sessions]
      /\ session \in [Sessions -> [ttl : 0 .. SessionTTL, consumed : BOOLEAN, code : Posts \cup {NoRun}]]
      /\ payload \in [Sessions -> {"none", "verified", "failed"}]
      /\ report \in [Sessions -> {"none", "verified", "failed"}]
      /\ left \in [Sessions -> 0 .. SessionTTL] /\ SessionTTL \in Nat
      /\ ppc \in [Posts -> PostPC] /\ outcome \in [Posts -> {"none", "verified", "failed"}]
      /\ codes \subseteq Posts
  BY RequestsTyped, TTLsPositive DEF TypeInv, TypeOK
<1>create. ASSUME NEW s \in Sessions, Create(s) PROVE VerifiedInv'
  <2>1. ASSUME NEW p \in Posts, Verified(p)' PROVE Verified(p) /\ SessionOf[p] # s
    BY <1>0, <1>create, <2>1, CreateEffect
       DEF Verified, SameDevice, locals, deletes, OutcomeInv, OutcomeOf, MarkersInv
  <2>2. ASSUME NEW p \in Posts, Verified(p)', left'[SessionOf[p]] > 0 PROVE VerifiedData(p)'
    <3>1. /\ left'[SessionOf[p]] = left[SessionOf[p]]
          /\ session'[SessionOf[p]] = session[SessionOf[p]]
          /\ Verified(p)
      BY <1>0, <1>create, <2>1, <2>2, CreateEffect
    <3> QED BY <1>create, <2>2, <3>1, CreateEffect DEF VerifiedInv, VerifiedData, results
  <2> QED BY <2>1, <2>2 DEF VerifiedInv
<1>post. ASSUME NEW q \in Posts, Post(q) \/ PostCrash(q) PROVE VerifiedInv'
  <2> DEFINE s == SessionOf[q]
  <2>0. /\ Moves(q) /\ UNCHANGED <<flow, left, opDeleted>> /\ s \in Sessions
        /\ \A p \in Posts \ {q} : ppc'[p] = ppc[p] /\ copy'[p] = copy[p] /\ outcome'[p] = outcome[p]
        /\ codes' = codes \/ (ppc[q] = "code" /\ codes' = codes \cup {q})
    BY <1>0, <1>post, PostFrame, PostMoves DEF Moves
  <2>1. ASSUME NEW p \in Posts, Verified(p)'
        PROVE  Verified(p) \/ (p = q /\ SameDevice(q) /\ s \notin opDeleted /\ left[s] > 0
                               /\ ppc[q] = "verify" /\ ppc'[q] = "deliver")
    BY <1>0, <2>0, <2>1 DEF Verified, SameDevice, Moves
  <2>2. ASSUME NEW p \in Posts, NEW r \in Posts, Verified(p)', Verified(r)',
               SessionOf[p] = SessionOf[r]
        PROVE  p = r
    <3>1. CASE Verified(p) /\ Verified(r)
      BY <2>2, <3>1 DEF VerifiedInv
    <3>2. CASE ~(Verified(p) /\ Verified(r))
      BY <2>1, <2>2, <3>2, Alone DEF Verified, InRun, SameDevice
    <3> QED BY <3>1, <3>2
  <2>3. ASSUME NEW p \in Posts \ {q}, Verified(p)', left'[SessionOf[p]] > 0
        PROVE  VerifiedData(p)'
    <3>1. Verified(p) /\ left[SessionOf[p]] > 0 /\ VerifiedData(p) /\ SessionOf[p] \in Sessions
      BY <1>0, <2>0, <2>1, <2>3 DEF VerifiedInv
    <3>2. /\ session'[SessionOf[p]] = session[SessionOf[p]]
          /\ payload'[SessionOf[p]] = payload[SessionOf[p]]
          /\ report'[SessionOf[p]] = report[SessionOf[p]]
      <4>1. CASE SessionOf[p] # s
        BY <1>0, <1>post, <2>0, <3>1, <4>1, PostKeys, PostResults
           DEF Claims, GivesBack, Deletes, DeleteSession, Saves, Save, KeepsKeys
      <4>2. CASE SessionOf[p] = s
        <5>1. ppc[q] \notin InRun
          BY <2>3, <3>1, <4>2, Alone DEF Verified
        <5>2. UNCHANGED <<payload, report>>
          BY <1>post, <5>1, PostResults DEF InRun
        <5>3. UNCHANGED session
          BY <1>post, <5>1, PostKeys DEF InRun, Claims, GivesBack, Deletes, Saves, KeepsKeys
        <5> QED BY <5>2, <5>3
      <4> QED BY <4>1, <4>2
    <3>3. (p \in codes' <=> p \in codes) /\ ppc'[p] = ppc[p]
      BY <2>0, <2>3
    <3> QED BY <2>0, <3>1, <3>2, <3>3 DEF VerifiedData
  <2>4. ASSUME Verified(q)', left'[s] > 0 PROVE VerifiedData(q)'
    <3>0. OutcomeOf(q) /\ OutcomeOf(q)' /\ SameDevice(q) /\ outcome'[q] = "verified" /\ left[s] > 0
      BY <1>post, <2>0, <2>4, OutcomeStep DEF OutcomeInv, Verified, SameDevice
    <3>1. CASE ~Verified(q)
      BY <2>0, <2>1, <2>4, <3>0, <3>1 DEF VerifiedData, OutcomeOf, PostEnd
    <3>2. CASE Verified(q)
      <4>0. VerifiedData(q) /\ outcome[q] = "verified"
        BY <3>0, <3>2 DEF VerifiedInv, Verified
      <4>1. CASE ppc[q] = "deliver" /\ ppc'[q] = "dispose"
        BY <1>0, <1>post, <2>0, <3>0, <4>0, <4>1, PostResults DEF VerifiedData, OutcomeOf, PostEnd
      <4>2. CASE ppc[q] = "dispose" /\ ppc'[q] = "report"
        <5>1. /\ Save(s, TRUE, q) /\ payload'[s] = "verified" /\ q \notin codes'
          BY <1>post, <2>0, <3>0, <4>0, <4>2, PostResults DEF VerifiedData, OutcomeOf, PostEnd
        <5>2. session'[s].code = q /\ session'[s].ttl >= left'[s]
          BY <1>0, <2>0, <3>0, <5>1, SaveTTLBounds DEF Save, TypeInv
        <5> QED BY <4>2, <5>1, <5>2 DEF VerifiedData
      <4>3. CASE ppc[q] = "report" /\ ppc'[q] = "markVerified"
        <5>1. report'[s] = "verified" /\ UNCHANGED payload
          BY <1>0, <1>post, <2>0, <4>0, <4>3, PostResults
        <5>2. UNCHANGED session
          BY <1>post, <4>3, PostKeys DEF Claims, GivesBack, Deletes, Saves, KeepsKeys
        <5> QED BY <2>0, <4>0, <4>3, <5>1, <5>2 DEF VerifiedData
      <4>4. CASE ppc[q] \in {"markVerified", "code", "fail"} \cup PostEnd
        <5>1. UNCHANGED <<payload, report>>
          BY <1>post, <4>4, PostResults DEF PostEnd
        <5>2. UNCHANGED session
          BY <1>post, <4>4, PostKeys DEF PostEnd, Claims, GivesBack, Deletes, Saves, KeepsKeys
        <5>3. /\ ppc'[q] \in {"code", "answered", "fail", "refused", "crashed"}
              /\ ppc'[q] = "code" => ppc[q] = "markVerified"
          BY <2>0, <4>4 DEF Moves, PostEnd
        <5> QED BY <2>0, <3>0, <4>0, <4>4, <5>1, <5>2, <5>3 DEF VerifiedData, OutcomeOf, PostEnd
      <4>5. CASE ppc'[q] = "crashed" /\ ppc[q] \in {"deliver", "dispose", "report"}
        BY <2>0, <3>0, <4>0, <4>5 DEF VerifiedData, OutcomeOf, PostEnd
      <4>6. CASE ppc[q] = "report" /\ ppc'[q] = "fail"
        BY <2>0, <3>0, <4>0, <4>6 DEF VerifiedData, OutcomeOf, PostEnd
      <4>7. ppc[q] \in {"deliver", "dispose", "report", "markVerified", "code", "fail"} \cup PostEnd
        BY <1>0, <3>0, <4>0 DEF OutcomeOf, PostPC, InRun
      <4>8. CASE ppc[q] \in {"deliver", "dispose", "report"}
        BY <1>0, <2>0, <3>0, <4>0, <4>1, <4>2, <4>3, <4>5, <4>6, <4>8 DEF Moves
      <4> QED BY <4>4, <4>7, <4>8
    <3> QED BY <3>1, <3>2
  <2> QED BY <2>2, <2>3, <2>4 DEF VerifiedInv
<1>get. ASSUME NEW g \in Gets, Get(g) \/ GetCrash(g) PROVE VerifiedInv'
  BY <1>get, GetEffect
     DEF VerifiedInv, Verified, VerifiedData, SameDevice, creator, locals, deletes
<1>delete. ASSUME NEW s \in Sessions, InternalDelete(s) PROVE VerifiedInv'
  BY <1>0, <1>delete DEF VerifiedInv, Verified, VerifiedData, SameDevice, InternalDelete,
     DeleteSession, creator, locals, results, meta
<1>tick. CASE Tick
  <2>1. ASSUME NEW p \in Posts, Verified(p)', left'[SessionOf[p]] > 0 PROVE VerifiedData(p)'
    BY <1>0, <1>tick, <2>1, TickEffect
       DEF VerifiedInv, Verified, VerifiedData, SameDevice, locals, results, deletes
  <2> QED BY <1>tick, <2>1, TickEffect DEF VerifiedInv, Verified, SameDevice, locals, deletes
<1>stutter. CASE UNCHANGED vars
  BY <1>stutter
     DEF VerifiedInv, Verified, VerifiedData, SameDevice, vars, keys, meta, creator, locals,
         results, deletes
<1> QED BY <1>create, <1>post, <1>get, <1>delete, <1>tick, <1>stutter DEF Next

\* A status of "verified" comes after the handoff.
LEMMA HandoffStep ==
  TypeInv /\ OutcomeInv /\ HandoffInv /\ [Next]_vars => HandoffInv'
<1> SUFFICES ASSUME TypeInv, OutcomeInv, HandoffInv, [Next]_vars PROVE HandoffInv'
  OBVIOUS
<1>0. /\ SessionOf \in [Posts \cup Gets -> Sessions]
      /\ status \in [Sessions -> {"none", "pending", "wallet_engaged", "verified", "failed"}]
      /\ outcome \in [Posts -> {"none", "verified", "failed"}] /\ handoffs \subseteq Posts
  BY RequestsTyped DEF TypeInv, TypeOK
<1>create. ASSUME NEW s \in Sessions, Create(s) PROVE HandoffInv'
  BY <1>create, CreateEffect DEF HandoffInv, locals, results
<1>post. ASSUME NEW q \in Posts, Post(q) \/ PostCrash(q) PROVE HandoffInv'
  <2> DEFINE s == SessionOf[q]
  <2>0. /\ Moves(q) /\ s \in Sessions /\ OutcomeOf(q)
        /\ \A p \in Posts \ {q} : ppc'[p] = ppc[p] /\ outcome'[p] = outcome[p]
    BY <1>0, <1>post, PostFrame, PostMoves DEF Moves, OutcomeInv
  <2>1. handoffs \subseteq handoffs'
    BY <1>post, PostResults
  <2>2. ASSUME NEW p \in Posts \ {q}, ppc'[p] \in {"dispose", "report", "markVerified"},
               outcome'[p] = "verified"
        PROVE  p \in handoffs'
    BY <2>0, <2>1, <2>2 DEF HandoffInv
  <2>3. ASSUME ppc'[q] \in {"dispose", "report", "markVerified"}, outcome'[q] = "verified"
        PROVE  q \in handoffs'
    <3>1. CASE ppc[q] = "deliver" /\ ppc'[q] = "dispose"
      BY <1>post, <3>1, PostResults
    <3>2. CASE ppc[q] \in {"dispose", "report"} /\ outcome[q] = "verified"
      BY <2>1, <3>2 DEF HandoffInv
    <3> QED BY <1>0, <2>0, <2>3, <3>1, <3>2 DEF Moves
  <2>4. ASSUME NEW t \in Sessions, status'[t] = "verified"
        PROVE  \E p \in handoffs' : SessionOf[p] = t
    <3>1. CASE status[t] = "verified"
      BY <2>1, <3>1 DEF HandoffInv
    <3>2. CASE status[t] # "verified"
      <4>1. ppc[q] = "markVerified" /\ t = s
        BY <1>0, <1>post, <2>0, <2>4, <3>2, PostResults DEF SetStatus
      <4>2. q \in handoffs'
        BY <2>0, <2>1, <4>1 DEF HandoffInv, OutcomeOf
      <4> QED BY <4>1, <4>2
    <3> QED BY <3>1, <3>2
  <2> QED BY <2>2, <2>3, <2>4 DEF HandoffInv
<1>get. ASSUME NEW g \in Gets, Get(g) \/ GetCrash(g) PROVE HandoffInv'
  BY <1>get, GetEffect DEF HandoffInv, locals
<1>delete. ASSUME NEW s \in Sessions, InternalDelete(s) PROVE HandoffInv'
  BY <1>delete DEF HandoffInv, InternalDelete, locals, results, meta
<1>tick. CASE Tick
  BY <1>tick, TickEffect DEF HandoffInv, locals, results
<1>stutter. CASE UNCHANGED vars
  BY <1>stutter DEF HandoffInv, vars, locals, results, meta
<1> QED BY <1>create, <1>post, <1>get, <1>delete, <1>tick, <1>stutter DEF Next

\* Only the request that set the served marker gets to sign.
LEMMA ServedStep ==
  TypeInv /\ MarkersInv /\ ServedInv /\ [Next]_vars => ServedInv'
<1> SUFFICES ASSUME TypeInv, MarkersInv, ServedInv, [Next]_vars PROVE ServedInv'
  OBVIOUS
<1>0. /\ SessionOf \in [Posts \cup Gets -> Sessions] /\ SessionTTL \in Nat \ {0}
      /\ served \in [Sessions -> 0 .. SessionTTL] /\ left \in [Sessions -> 0 .. SessionTTL]
      /\ jars \subseteq Gets /\ cleared \subseteq Sessions
  BY RequestsTyped, TTLsPositive DEF TypeInv, TypeOK
<1>create. ASSUME NEW s \in Sessions, Create(s) PROVE ServedInv'
  <2>1. \A g \in Gets : Signs(g) => SessionOf[g] # s
    BY <1>0, <1>create, CreateEffect DEF ServedInv, Signs, MarkersInv
  <2>2. \A r \in Sessions \ {s} : left'[r] = left[r]
    BY <1>0, <1>create, CreateEffect
  <2> QED BY <1>0, <1>create, <2>1, <2>2, CreateEffect DEF ServedInv, Signs, results, deletes
<1>post. ASSUME NEW p \in Posts, Post(p) \/ PostCrash(p) PROVE ServedInv'
  <2>0. UNCHANGED <<left, gpc, jars>>
    BY <1>post, PostFrame
  <2>1. UNCHANGED <<served, cleared>> \/ DeleteSession(SessionOf[p])
    BY <1>post, PostKeys DEF Claims, GivesBack, Deletes, Saves, KeepsKeys
  <2> QED BY <1>0, <2>0, <2>1 DEF ServedInv, Signs, DeleteSession, Live
<1>get. ASSUME NEW g \in Gets, Get(g) \/ GetCrash(g) PROVE ServedInv'
  <2> DEFINE s == SessionOf[g]
  <2>0. /\ UNCHANGED <<left, cleared>> /\ s \in Sessions
        /\ \A h \in Gets \ {g} : gpc'[h] = gpc[h]
    BY <1>0, <1>get, GetEffect DEF creator, deletes
  <2>1. CASE /\ gpc[g] = "mark" /\ ~Live(served[s]) /\ served' = [served EXCEPT ![s] = SessionTTL]
             /\ gpc'[g] \in {"sign", "refused"} /\ UNCHANGED jars
    BY <1>0, <2>0, <2>1 DEF ServedInv, Signs, Live
  <2>2. CASE gpc[g] = "sign" /\ gpc'[g] = "engage" /\ jars' = jars \cup {g} /\ UNCHANGED served
    BY <1>0, <2>0, <2>2 DEF ServedInv, Signs
  <2>3. CASE /\ \/ gpc[g] = "engage" /\ gpc'[g] \in {"answered", "crashed"}
                \/ gpc'[g] \in {"mark", "refused", "crashed"} /\ gpc[g] \in {"load", "mark", "sign"}
             /\ UNCHANGED <<served, jars>>
    BY <1>0, <2>0, <2>3 DEF ServedInv, Signs
  <2> QED BY <1>get, <2>1, <2>2, <2>3, GetEffect
<1>delete. ASSUME NEW s \in Sessions, InternalDelete(s) PROVE ServedInv'
  BY <1>0, <1>delete DEF ServedInv, Signs, InternalDelete, DeleteSession, creator, results, Live
<1>tick. CASE Tick
  BY <1>0, <1>tick, TickEffect DEF ServedInv, Signs, MarkersInv, Live, results, deletes
<1>stutter. CASE UNCHANGED vars
  BY <1>stutter DEF ServedInv, Signs, vars, keys, creator, results, deletes
<1> QED BY <1>create, <1>post, <1>get, <1>delete, <1>tick, <1>stutter DEF Next

\* A run that got past its claim holds it until the session is deleted.
LEMMA ClaimedStep ==
  TypeInv /\ OutcomeInv /\ ClaimedInv /\ [Next]_vars => ClaimedInv'
<1> SUFFICES ASSUME TypeInv, OutcomeInv, ClaimedInv, [Next]_vars PROVE ClaimedInv'
  OBVIOUS
<1>0. /\ SessionOf \in [Posts \cup Gets -> Sessions]
      /\ ppc \in [Posts -> PostPC] /\ outcome \in [Posts -> {"none", "verified", "failed"}]
      /\ cleared \subseteq Sessions /\ opDeleted \subseteq Sessions
  BY RequestsTyped DEF TypeInv, TypeOK
<1>create. ASSUME NEW s \in Sessions, Create(s) PROVE ClaimedInv'
  BY <1>0, <1>create, CreateEffect DEF ClaimedInv, Claimed, locals, deletes
<1>post. ASSUME NEW p \in Posts, Post(p) \/ PostCrash(p) PROVE ClaimedInv'
  <2> DEFINE s == SessionOf[p]
  <2>0. /\ Moves(p) /\ UNCHANGED <<cpc, opDeleted>> /\ s \in Sessions
        /\ \A q \in Posts \ {p} : ppc'[q] = ppc[q] /\ outcome'[q] = outcome[q]
        /\ Claims(p, s) \/ GivesBack(p, s) \/ Deletes(p, s) \/ Saves(p, s) \/ KeepsKeys(p)
    BY <1>0, <1>post, PostFrame, PostMoves, PostKeys DEF Moves
  <2>1. \A q \in Posts \ {p} : q \in holds' <=> q \in holds
    BY <2>0 DEF Claims, GivesBack, Deletes, Saves, KeepsKeys
  <2>2. cleared \subseteq cleared'
    BY <2>0 DEF Claims, GivesBack, Deletes, DeleteSession, Saves, KeepsKeys
  <2>3. ASSUME NEW q \in Posts \ {p}, Claimed(q)', SessionOf[q] \notin cleared'
        PROVE  q \in holds'
    BY <2>0, <2>1, <2>2, <2>3 DEF ClaimedInv, Claimed
  <2>4. ASSUME Claimed(p)', s \notin cleared' PROVE p \in holds'
    <3>1. CASE Claims(p, s)
      BY <3>1 DEF Claims
    <3>2. CASE GivesBack(p, s)
      BY <1>0, <2>0, <2>4, <3>2 DEF GivesBack, Moves, Claimed, InRun, OutcomeInv, OutcomeOf
    <3>3. CASE Deletes(p, s)
      BY <2>4, <3>3 DEF Deletes, DeleteSession
    <3>4. CASE Saves(p, s) \/ KeepsKeys(p)
      <4>1. Claimed(p)
        BY <1>0, <2>0, <2>4, <3>4 DEF Saves, KeepsKeys, Moves, Claimed, InRun, OutcomeInv, OutcomeOf
      <4> QED BY <2>4, <3>4, <4>1 DEF Saves, KeepsKeys, ClaimedInv
    <3> QED BY <2>0, <3>1, <3>2, <3>3, <3>4
  <2> QED BY <2>0, <2>3, <2>4 DEF ClaimedInv
<1>get. ASSUME NEW g \in Gets, Get(g) \/ GetCrash(g) PROVE ClaimedInv'
  BY <1>get, GetEffect DEF ClaimedInv, Claimed, creator, locals, deletes
<1>delete. ASSUME NEW s \in Sessions, InternalDelete(s) PROVE ClaimedInv'
  BY <1>0, <1>delete DEF ClaimedInv, Claimed, InternalDelete, DeleteSession, creator, locals
<1>tick. CASE Tick
  BY <1>tick, TickEffect DEF ClaimedInv, Claimed, locals, deletes
<1>stutter. CASE UNCHANGED vars
  BY <1>stutter DEF ClaimedInv, Claimed, vars, creator, locals, deletes
<1> QED BY <1>create, <1>post, <1>get, <1>delete, <1>tick, <1>stutter DEF Next

\* While no concluding call has failed, a failed run takes every one of its steps.
LEMMA PostConcludes ==
  ASSUME TypeInv, NEW p \in Posts, Post(p) \/ PostCrash(p), Reliable'
  PROVE  /\ Reliable
         /\ ppc[p] \in {"report", "deliverFailure"} => ppc'[p] # "fail"
         /\ ppc[p] = "deliverFailure" /\ ppc'[p] = "disposeFailure"
              => payload' = [payload EXCEPT ![SessionOf[p]] = "failed"]
         /\ ppc[p] = "disposeFailure" /\ ppc'[p] = "fail" => SessionOf[p] \in cleared'
<1>0. ppc \in [Posts -> PostPC] /\ faults \in Nat
  BY RequestsTyped DEF TypeInv, TypeOK
<1>1. Reliable
  BY PostFaults DEF Reliable
<1>2. \A op \in Concluding : ~Fails(op)
  BY <1>0 DEF Fails, Reliable
<1>3. CASE PostReport(p)
  <2>1. ~Fails("report")
    BY <1>2 DEF Concluding
  <2> QED BY <1>0, <1>1, <1>3, <2>1 DEF PostReport, Call, PostTo
<1>4. CASE PostDeliverFailure(p)
  <2>1. ~Fails("deliver")
    BY <1>2 DEF Concluding
  <2> QED BY <1>0, <1>1, <1>4, <2>1 DEF PostDeliverFailure, Call, PostTo
<1>5. CASE PostDisposeFailure(p)
  <2>1. ~Fails("dispose")
    BY <1>2 DEF Concluding
  <2> QED BY <1>0, <1>1, <1>5, <2>1 DEF PostDisposeFailure, Call, PostTo, DeleteSession
<1>6. CASE PostCrash(p)
  BY <1>0, <1>1, <1>6 DEF PostCrash, PostTo
<1>7. CASE ppc[p] \notin {"report", "deliverFailure", "disposeFailure"}
  BY <1>1, <1>7
<1> QED BY <1>3, <1>4, <1>5, <1>6, <1>7 DEF Post, PostResolve, PostOversized, PostLoad, PostClaim,
       PostPersist, PostRollback, PostMeta, PostVerify, PostDeliver, PostDispose, PostMarkFailed,
       PostMarkVerified, PostCode, PostFail

\* So it deletes the session and tells the client.
LEMMA FinalizedStep ==
  TypeInv /\ OutcomeInv /\ FinalizedInv /\ [Next]_vars => FinalizedInv'
<1> DEFINE Final(p) == outcome[p] = "failed" =>
               /\ ppc[p] \in {"disposeFailure", "fail", "refused"} => Told(p)
               /\ ppc[p] \in {"fail", "refused"} => SessionOf[p] \in cleared
               /\ ppc[p] # "answered"
<1> SUFFICES ASSUME TypeInv, OutcomeInv, FinalizedInv, [Next]_vars, Reliable'
             PROVE  \A p \in Posts : Final(p)'
  BY DEF FinalizedInv
<1>0. /\ SessionOf \in [Posts \cup Gets -> Sessions]
      /\ ppc \in [Posts -> PostPC] /\ outcome \in [Posts -> {"none", "verified", "failed"}]
      /\ payload \in [Sessions -> {"none", "verified", "failed"}]
  BY RequestsTyped DEF TypeInv, TypeOK
<1>post. ASSUME NEW q \in Posts, Post(q) \/ PostCrash(q) PROVE \A p \in Posts : Final(p)'
  <2> DEFINE s == SessionOf[q]
  <2>0. /\ Moves(q) /\ s \in Sessions /\ OutcomeOf(q)
        /\ \A p \in Posts \ {q} : ppc'[p] = ppc[p] /\ outcome'[p] = outcome[p]
        /\ \A p \in Posts : Final(p)
    BY <1>0, <1>post, PostFrame, PostMoves, PostConcludes DEF Moves, OutcomeInv, FinalizedInv
  <2>1. cleared \subseteq cleared'
    BY <1>post, PostKeys DEF Claims, GivesBack, Deletes, DeleteSession, Saves, KeepsKeys
  <2>2. ASSUME NEW p \in Posts, Told(p), ppc[p] # "deliver" PROVE Told(p)'
    <3>1. CASE UNCHANGED <<payload, handoffs>>
      BY <2>2, <3>1 DEF Told
    <3>2. CASE /\ ppc[q] = "deliver"
               /\ payload' = [payload EXCEPT ![s] = "verified"] /\ handoffs' = handoffs \cup {q}
      BY <1>0, <2>2, <3>2 DEF Told
    <3>3. CASE payload' = [payload EXCEPT ![s] = "failed"] /\ UNCHANGED handoffs
      BY <1>0, <2>2, <3>3 DEF Told
    <3> QED BY <1>post, <3>1, <3>2, <3>3, PostResults
  <2>3. ASSUME NEW p \in Posts \ {q} PROVE Final(p)'
    BY <2>0, <2>1, <2>2, <2>3
  <2>4. ASSUME outcome'[q] = "failed" PROVE Final(q)'
    <3>1. CASE ppc'[q] = "disposeFailure"
      <4>1. ppc[q] = "deliverFailure"
        BY <2>0, <3>1 DEF Moves
      <4>2. payload'[s] = "failed"
        BY <1>0, <1>post, <2>0, <3>1, <4>1, PostConcludes
      <4> QED BY <3>1, <4>2 DEF Told
    <3>2. CASE ppc'[q] = "fail"
      <4>1. ppc[q] = "disposeFailure" /\ outcome[q] = "failed"
        BY <1>0, <1>post, <2>0, <2>4, <3>2, PostConcludes DEF Moves, OutcomeOf
      <4> QED BY <1>post, <2>0, <2>2, <3>2, <4>1, PostConcludes
    <3>3. CASE ppc'[q] = "refused"
      <4>1. ppc[q] = "fail" /\ outcome[q] = "failed"
        BY <1>0, <2>0, <2>4, <3>3 DEF Moves, OutcomeOf
      <4> QED BY <2>0, <2>1, <2>2, <3>3, <4>1
    <3>4. ppc'[q] # "answered"
      BY <1>0, <2>0, <2>4 DEF Moves, OutcomeOf
    <3> QED BY <3>1, <3>2, <3>3, <3>4
  <2> QED BY <2>3, <2>4
<1>other. ASSUME UNCHANGED <<payload, handoffs, ppc, outcome>>, cleared \subseteq cleared', Reliable
          PROVE  \A p \in Posts : Final(p)'
  BY <1>other DEF FinalizedInv, Told
<1>reliable. ASSUME faults' = 0 => faults = 0 PROVE Reliable
  BY <1>reliable DEF Reliable
<1>create. ASSUME NEW s \in Sessions, Create(s) PROVE \A p \in Posts : Final(p)'
  BY <1>create, <1>other, <1>reliable, CreateEffect, OtherFaults DEF locals, results, deletes
<1>get. ASSUME NEW g \in Gets, Get(g) \/ GetCrash(g) PROVE \A p \in Posts : Final(p)'
  BY <1>get, <1>other, <1>reliable, GetEffect, OtherFaults DEF locals, deletes
<1>delete. ASSUME NEW s \in Sessions, InternalDelete(s) PROVE \A p \in Posts : Final(p)'
  BY <1>delete, <1>other, <1>reliable, OtherFaults DEF InternalDelete, DeleteSession, locals, results
<1>tick. CASE Tick
  BY <1>tick, <1>other, <1>reliable, TickEffect, OtherFaults DEF locals, results, deletes
<1>stutter. CASE UNCHANGED vars
  BY <1>stutter, <1>other, <1>reliable DEF vars, locals, results, deletes
<1> QED BY <1>create, <1>post, <1>get, <1>delete, <1>tick, <1>stutter DEF Next

\* What the status says stands, as long as no other run can have followed.
LEMMA StatusStep ==
  TypeInv /\ MarkersInv /\ OutcomeInv /\ HoldsInv /\ VerifiedInv /\ StatusInv /\ [Next]_vars
    => StatusInv'
<1> DEFINE Author(p, t) == /\ SessionOf[p] = t /\ outcome[p] = "verified"
                           /\ ppc[p] \in {"markVerified", "code", "fail"} \cup PostEnd
           Current(t) == flow[t] = "same_device" /\ t \notin opDeleted /\ left[t] > 0
           Stands(t) == payload[t] = "verified" /\ report[t] = "verified"
<1> SUFFICES ASSUME TypeInv, MarkersInv, OutcomeInv, HoldsInv, VerifiedInv, StatusInv,
                    [Next]_vars, NEW t \in Sessions, status'[t] = "verified"
             PROVE  (\E p \in Posts : Author(p, t)') /\ (Current(t)' => Stands(t)')
  BY DEF StatusInv
<1>0. /\ SessionOf \in [Posts \cup Gets -> Sessions]
      /\ status \in [Sessions -> {"none", "pending", "wallet_engaged", "verified", "failed"}]
      /\ ppc \in [Posts -> PostPC] /\ outcome \in [Posts -> {"none", "verified", "failed"}]
      /\ payload \in [Sessions -> {"none", "verified", "failed"}]
      /\ report \in [Sessions -> {"none", "verified", "failed"}]
      /\ left \in [Sessions -> 0 .. SessionTTL] /\ SessionTTL \in Nat
      /\ opDeleted \subseteq Sessions
  BY RequestsTyped, TTLsPositive DEF TypeInv, TypeOK
<1>1. status[t] = "verified" => (\E p \in Posts : Author(p, t)) /\ (Current(t) => Stands(t))
  BY DEF StatusInv
<1>post. ASSUME NEW q \in Posts, Post(q) \/ PostCrash(q)
         PROVE  (\E p \in Posts : Author(p, t)') /\ (Current(t)' => Stands(t)')
  <2>0. /\ Moves(q) /\ UNCHANGED <<flow, left, opDeleted>> /\ OutcomeOf(q) /\ SessionOf[q] \in Sessions
        /\ \A p \in Posts \ {q} : ppc'[p] = ppc[p] /\ outcome'[p] = outcome[p]
    BY <1>0, <1>post, PostFrame, PostMoves DEF Moves, OutcomeInv
  <2>1. CASE status[t] = "verified"
    <3>1. PICK p \in Posts : Author(p, t)
      BY <1>1, <2>1
    <3>2. Author(p, t)'
      <4>1. CASE p = q
        BY <1>0, <2>0, <3>1, <4>1 DEF Moves, PostEnd
      <4>2. CASE p # q
        BY <2>0, <3>1, <4>2
      <4> QED BY <4>1, <4>2
    <3>3. ASSUME Current(t)' PROVE Stands(t)'
      <4>1. Current(t) /\ Stands(t)
        BY <1>1, <2>0, <2>1, <3>3
      <4>2. CASE SessionOf[q] # t
        BY <1>post, <4>1, <4>2, PostElsewhere
      <4>3. CASE SessionOf[q] = t
        <5>1. ppc[q] \in {"deliver", "deliverFailure", "report"} => p = q
          BY <3>1, <4>1, <4>3, Alone DEF SameDevice, InRun
        <5>2. ppc[q] \notin {"deliver", "deliverFailure", "report"}
          BY <3>1, <5>1 DEF PostEnd
        <5> QED BY <1>post, <4>1, <5>2, PostResults
      <4> QED BY <4>2, <4>3
    <3> QED BY <3>2, <3>3
  <2>2. CASE status[t] # "verified"
    <3>1. ppc[q] = "markVerified" /\ t = SessionOf[q]
      <4>1. PICK new \in {"verified", "failed"} :
               /\ status' = [status EXCEPT ![SessionOf[q]] = new]
               /\ new = "verified" => ppc[q] = "markVerified"
        BY <1>post, <2>2, PostResults DEF SetStatus
      <4> QED BY <1>0, <2>2, <4>1
    <3>2. outcome[q] = "verified" /\ UNCHANGED <<payload, report>>
      BY <1>post, <2>0, <3>1, PostResults DEF OutcomeOf
    <3>3. Author(q, t)'
      BY <1>0, <2>0, <3>1, <3>2 DEF Moves, PostEnd
    <3>4. Current(t)' => Stands(t)'
      BY <2>0, <3>1, <3>2 DEF VerifiedInv, Verified, VerifiedData, SameDevice
    <3> QED BY <3>3, <3>4
  <2> QED BY <2>1, <2>2
<1>other. ASSUME UNCHANGED <<payload, report, ppc, outcome, flow>>, status[t] = "verified",
                 Current(t)' => Current(t)
          PROVE  (\E p \in Posts : Author(p, t)') /\ (Current(t)' => Stands(t)')
  BY <1>1, <1>other
<1>create. ASSUME NEW s \in Sessions, Create(s)
           PROVE  (\E p \in Posts : Author(p, t)') /\ (Current(t)' => Stands(t)')
  <2>1. status[t] = "verified" /\ UNCHANGED <<payload, report, ppc, outcome, flow, opDeleted>>
    BY <1>create, CreateEffect DEF locals, deletes
  <2>2. cpc[t] = "created"
    BY <1>1, <2>1 DEF MarkersInv, PostEnd
  <2>3. left'[t] = left[t]
    BY <1>0, <1>create, <2>2, CreateEffect
  <2> QED BY <1>other, <2>1, <2>3
<1>get. ASSUME NEW g \in Gets, Get(g) \/ GetCrash(g)
        PROVE  (\E p \in Posts : Author(p, t)') /\ (Current(t)' => Stands(t)')
  BY <1>get, <1>other, GetEffect DEF creator, locals, deletes
<1>delete. ASSUME NEW s \in Sessions, InternalDelete(s)
           PROVE  (\E p \in Posts : Author(p, t)') /\ (Current(t)' => Stands(t)')
  BY <1>delete, <1>other DEF InternalDelete, creator, locals, meta
<1>tick. CASE Tick
  <2>1. status[t] = "verified" /\ UNCHANGED <<payload, report, ppc, outcome, flow, opDeleted>>
    BY <1>tick, TickEffect DEF locals, deletes
  <2>2. left'[t] > 0 => left[t] > 0
    BY <1>0, <1>tick, TickEffect
  <2> QED BY <1>other, <2>1, <2>2
<1>stutter. CASE UNCHANGED vars
  BY <1>stutter, <1>other DEF vars, creator, locals, deletes, meta
<1> QED BY <1>create, <1>post, <1>get, <1>delete, <1>tick, <1>stutter DEF Next

\* The invariant holds initially ...
LEMMA IndInit == Init => IndInv
<1> SUFFICES ASSUME Init PROVE IndInv
  OBVIOUS
<1>0. SessionOf \in [Posts \cup Gets -> Sessions]
  BY RequestsTyped
<1>1. TypeInv
  BY TypeInit
<1>2. MarkersInv
  BY <1>0 DEF Init, MarkersInv, Live
<1>3. OutcomeInv /\ HoldsInv /\ VerifiedInv
  BY <1>0 DEF Init, OutcomeInv, OutcomeOf, HoldsInv, HoldsOf, InRun, VerifiedInv, Verified
<1>4. HandoffInv /\ ServedInv
  BY <1>0 DEF Init, HandoffInv, ServedInv, Signs
<1>5. HeldInv /\ ClaimedInv
  BY <1>0 DEF Init, HeldInv, Held, ClaimedInv, Claimed, InRun
<1>6. FinalizedInv /\ StatusInv
  BY DEF Init, FinalizedInv, StatusInv
<1> QED BY <1>1, <1>2, <1>3, <1>4, <1>5, <1>6 DEF IndInv

\* ... and every step keeps it.
LEMMA IndStep == IndInv /\ [Next]_vars => IndInv'
  BY TypeStep, MarkersStep, OutcomeStep, HoldsStep, VerifiedStep, HandoffStep, ServedStep,
     HeldStep, ClaimedStep, FinalizedStep, StatusStep
     DEF IndInv

\* The inductive invariant: what every reachable state of the service satisfies,
\* whatever interleaves and whichever call fails.
THEOREM Invariance == Spec => []IndInv
  BY IndInit, IndStep, PTL DEF Spec

-----------------------------------------------------------------------------
\* ConsumeOnce sets its marker for the full TTL after ExpiresAt was fixed:
\* eviction alone never leaves a loadable session without its marker.
THEOREM MarkerOutlives == Spec => []MarkerOutlivesSession
<1>1. IndInv => MarkerOutlivesSession
  BY DEF IndInv, MarkersInv, MarkerOutlivesSession
<1> QED BY Invariance, <1>1, PTL

\* ConsumeOnce: until expiry or deletion, one run at a time holds the session,
\* for any number of racing wallet retries.
THEOREM RunsExclusive == Spec => []ExclusiveRun
<1>1. IndInv => ExclusiveRun
  BY DEF IndInv, HoldsInv, Protected, ExclusiveRun, HoldersOf
<1> QED BY Invariance, <1>1, PTL

\* Finalize and Process: at most one response_code per same-device session.
THEOREM RedemptionSingle == Spec => []SingleRedemption
<1>1. ASSUME IndInv, NEW s \in Sessions \ opDeleted, NEW p \in CodesOf(s), NEW q \in CodesOf(s)
      PROVE  p = q
  BY <1>1 DEF IndInv, OutcomeInv, OutcomeOf, VerifiedInv, Verified, CodesOf, TypeInv, TypeOK
<1>2. IndInv => SingleRedemption
  BY <1>1 DEF SingleRedemption
<1> QED BY Invariance, <1>2, PTL

\* A run that handed out a code left what the code leads to.
LEMMA CodeData ==
  ASSUME IndInv, NEW s \in Sessions \ opDeleted, NEW p \in CodesOf(s), left[s] > 0
  PROVE  p \in Posts /\ SessionOf[p] = s /\ SameDevice(p) /\ outcome[p] = "verified"
         /\ VerifiedData(p)
<1>1. p \in Posts /\ p \in codes /\ SessionOf[p] = s
  BY DEF CodesOf, IndInv, TypeInv, TypeOK
<1> QED BY <1>1 DEF IndInv, OutcomeInv, OutcomeOf, VerifiedInv, Verified

\* Finalize re-saves the record of a verified same-device session: a code leads
\* to it until the session expires.
THEOREM CodesRedeemable == Spec => []CodeRedeemable
<1>1. ASSUME IndInv, NEW s \in Sessions \ opDeleted, NEW p \in CodesOf(s), left[s] > 0
      PROVE  Loadable(s) /\ session[s].code = p /\ Live(consumed[s])
  <2>1. p \in codes /\ VerifiedData(p) /\ SessionOf[p] = s /\ SameDevice(p)
    BY <1>1, CodeData DEF CodesOf
  <2>2. session[s].code = p /\ session[s].ttl >= left[s] /\ left[s] \in Nat
    BY <1>1, <2>1, TTLsPositive DEF VerifiedData, IndInv, TypeInv, TypeOK
  <2>3. p \in holds /\ Protected(s)
    BY <1>1, CodeData DEF IndInv, HoldsInv, HoldsOf, Protected, SameDevice
  <2> QED BY <1>1, <2>1, <2>2, <2>3 DEF Loadable, Live, IndInv, HoldsInv, TypeInv, TypeOK
<1>2. IndInv => CodeRedeemable
  BY <1>1 DEF CodeRedeemable
<1> QED BY Invariance, <1>2, PTL

\* Process: a code stands for a verified payload and a verified report.
THEOREM CodesStandForVerified == Spec => []RedeemableResultVerified
<1>1. ASSUME IndInv, NEW s \in Sessions \ opDeleted, NEW p \in CodesOf(s), left[s] > 0
      PROVE  payload[s] = "verified" /\ report[s] = "verified"
  BY <1>1, CodeData DEF CodesOf, VerifiedData
<1>2. IndInv => RedeemableResultVerified
  BY <1>1 DEF RedeemableResultVerified
<1> QED BY Invariance, <1>2, PTL

\* Process sets the status after check 10 handed the result over.
THEOREM HandedOverFirst == Spec => []VerifiedWasHandedOver
<1>1. IndInv => VerifiedWasHandedOver
  BY DEF IndInv, HandoffInv, StatusInv, VerifiedWasHandedOver
<1> QED BY Invariance, <1>1, PTL

\* MarkRequestObjectServed: one request object per session.
THEOREM RequestObjectsOnce == Spec => []RequestObjectOnce
<1>1. IndInv => RequestObjectOnce
  BY DEF IndInv, ServedInv, Signs, RequestObjectOnce, TypeInv, TypeOK
<1> QED BY Invariance, <1>1, PTL

\* ConsumeOnce's rollback and Finalize: a claim on an unexpired session ends by
\* the run that made it or by the operator's DELETE.
THEOREM MarkersReleasedByHolder == Spec => MarkerReleasedByHolder
<1> DEFINE Released(s) ==
      /\ Live(consumed[s]) /\ ~Live(consumed'[s])
      /\ left'[s] > 0 /\ s \notin opDeleted'
      /\ flow[s] = "same_device" \/ faults = 0
<1>1. ASSUME IndInv, [Next]_vars, NEW s \in Sessions, Released(s)
      PROVE  \E p \in HoldersOf(s) : p \notin holds'
  <2>0. /\ SessionOf \in [Posts \cup Gets -> Sessions] /\ SessionTTL \in Nat \ {0}
        /\ consumed \in [Sessions -> 0 .. SessionTTL] /\ left \in [Sessions -> 0 .. SessionTTL]
        /\ TypeInv
    BY <1>1, RequestsTyped, TTLsPositive DEF IndInv, TypeInv, TypeOK
  <2>1. ASSUME NEW p \in Posts, Post(p) \/ PostCrash(p)
        PROVE  \E q \in HoldersOf(s) : q \notin holds'
    <3>1. s = SessionOf[p] /\ (GivesBack(p, s) \/ Deletes(p, s))
      BY <1>1, <2>0, <2>1, PostKeys
         DEF Claims, GivesBack, Deletes, DeleteSession, Saves, KeepsKeys, Live
    <3>2. p \in holds
      BY <1>1, <3>1 DEF GivesBack, Deletes, IndInv, HoldsInv, HoldsOf, OutcomeInv, OutcomeOf,
         HeldInv, Held, SameDevice, InRun
    <3> QED BY <3>1, <3>2 DEF HoldersOf, GivesBack, Deletes
  <2>2. ASSUME NEW t \in Sessions, Create(t) PROVE FALSE
    BY <1>1, <2>0, <2>2, CreateEffect
  <2>3. ASSUME NEW g \in Gets, Get(g) \/ GetCrash(g) PROVE FALSE
    BY <1>1, <2>0, <2>3, GetEffect
  <2>4. ASSUME NEW t \in Sessions, InternalDelete(t) PROVE FALSE
    BY <1>1, <2>0, <2>4 DEF InternalDelete, DeleteSession, IndInv, TypeInv, TypeOK
  <2>5. CASE Tick
    BY <1>1, <2>0, <2>5, TickEffect DEF Live, IndInv, MarkersInv
  <2>6. CASE UNCHANGED vars
    BY <1>1, <2>6 DEF vars, keys
  <2> QED BY <1>1, <2>1, <2>2, <2>3, <2>4, <2>5, <2>6 DEF Next
<1>2. IndInv /\ [Next]_vars => [\A s \in Sessions : Released(s)
                                  => \E p \in HoldersOf(s) : p \notin holds']_vars
  BY <1>1
<1> QED BY Invariance, <1>2, PTL DEF Spec, MarkerReleasedByHolder

-----------------------------------------------------------------------------
\* ConsumeOnce: until the session expires or is deleted, one caller at most is
\* told that it was first.
THEOREM ConsumedOnceWhileKept == Spec => []ConsumedOnceUntilCleared
<1>1. ASSUME IndInv, NEW p \in Posts, NEW q \in Posts, Claimed(p), Claimed(q),
             SessionOf[p] = SessionOf[q], left[SessionOf[p]] > 0, SessionOf[p] \notin cleared
      PROVE  p = q
  <2>1. p \in holds /\ q \in holds
    BY <1>1 DEF IndInv, ClaimedInv
  <2> QED BY <1>1, <2>1 DEF IndInv, HoldsInv, Protected
<1>2. IndInv => ConsumedOnceUntilCleared
  BY <1>1 DEF ConsumedOnceUntilCleared
<1> QED BY Invariance, <1>2, PTL

\* Finalize and SaveReport: unless one of their own calls failed, a failed run
\* has deleted its session and delivered its report.
THEOREM FailedRunsFinalized == Spec => []FailedRunFinalizedReliably
<1>1. IndInv => FailedRunFinalizedReliably
  BY DEF IndInv, FinalizedInv, FailedRunFinalizedReliably
<1> QED BY Invariance, <1>1, PTL

\* Only a response that finds the record goes on to claim it.
LEMMA ClaimNeedsRecord ==
  ASSUME TypeInv, NEW p \in Posts, Post(p) \/ PostCrash(p), ppc[p] = "load", ppc'[p] = "claim"
  PROVE  Loadable(SessionOf[p])
<1>0. ppc \in [Posts -> PostPC]
  BY DEF TypeInv, TypeOK
<1>1. PostLoad(p) \/ PostOversized(p) \/ PostCrash(p)
  BY DEF Post, PostResolve, PostClaim, PostPersist, PostRollback, PostMeta, PostVerify,
     PostDeliver, PostDispose, PostReport, PostMarkFailed, PostDeliverFailure,
     PostDisposeFailure, PostMarkVerified, PostCode, PostFail
<1> QED BY <1>0, <1>1 DEF PostLoad, PostOversized, PostCrash, PostTo

\* No step but a Save of its own run brings a record back.
LEMMA StaysUnloadable ==
  ASSUME IndInv, [Next]_vars, NEW s \in Sessions, cpc[s] = "created",
         ~Loadable(s), Undisturbed(s)
  PROVE  ~Loadable(s)'
<1>0. /\ session \in [Sessions -> [ttl : 0 .. SessionTTL, consumed : BOOLEAN, code : Posts \cup {NoRun}]]
      /\ left \in [Sessions -> 0 .. SessionTTL] /\ SessionTTL \in Nat
      /\ SessionOf \in [Posts \cup Gets -> Sessions] /\ TypeInv
  BY TTLsPositive, RequestsTyped DEF IndInv, TypeInv, TypeOK
<1>kept. ASSUME session'[s].ttl = session[s].ttl \/ session'[s].ttl = 0, left'[s] = left[s]
         PROVE  ~Loadable(s)'
  BY <1>kept DEF Loadable, Live
<1>post. ASSUME NEW p \in Posts, Post(p) \/ PostCrash(p) PROVE ~Loadable(s)'
  <2>1. ~(SessionOf[p] = s /\ Saves(p, s))
    BY DEF Undisturbed, MaySave, Saves
  <2>2. session'[s] = session[s] \/ session'[s] = NoSession
    BY <1>0, <1>post, <2>1, PostKeys
       DEF Claims, GivesBack, Deletes, DeleteSession, Saves, Save, KeepsKeys
  <2> QED BY <1>kept, <1>post, <1>0, <2>2, PostFrame DEF NoSession
<1>create. ASSUME NEW t \in Sessions, Create(t) PROVE ~Loadable(s)'
  BY <1>0, <1>create, <1>kept, CreateEffect
<1>get. ASSUME NEW g \in Gets, Get(g) \/ GetCrash(g) PROVE ~Loadable(s)'
  BY <1>0, <1>get, <1>kept, GetEffect DEF creator
<1>delete. ASSUME NEW t \in Sessions, InternalDelete(t) PROVE ~Loadable(s)'
  BY <1>0, <1>delete, <1>kept DEF InternalDelete, DeleteSession, NoSession, creator
<1>tick. CASE Tick
  <2>1. left[s] = 0 => left'[s] = 0
    BY <1>0, <1>tick, TickEffect
  <2>2. session[s].ttl = 0 => session'[s].ttl = 0
    BY <1>0, <1>tick DEF Tick, Live, Age, NoSession
  <2> QED BY <1>0, <2>1, <2>2 DEF Loadable, Live
<1>stutter. CASE UNCHANGED vars
  BY <1>kept, <1>stutter DEF vars, keys, creator
<1> QED BY <1>create, <1>post, <1>get, <1>delete, <1>tick, <1>stutter DEF Next

\* DELETE /internal/v1/sessions: it is final when no response is between its load
\* and its last save.
THEOREM DeletionFinal == Spec => DeleteIsFinal
<1> DEFINE Final(s) == Dead(s) \/ (InternalDelete(s) /\ Undisturbed(s)) => Dead(s)'
<1>1. ASSUME IndInv, [Next]_vars, NEW s \in Sessions PROVE Final(s)
  <2>0. /\ SessionOf \in [Posts \cup Gets -> Sessions] /\ TypeInv
        /\ session \in [Sessions -> [ttl : 0 .. SessionTTL, consumed : BOOLEAN, code : Posts \cup {NoRun}]]
        /\ \A t \in opDeleted : cpc[t] = "created"
    BY <1>1, RequestsTyped DEF IndInv, TypeInv, TypeOK, ClaimedInv
  <2>1. ASSUME InternalDelete(s), Undisturbed(s) PROVE Dead(s)'
    BY <2>0, <2>1
       DEF InternalDelete, DeleteSession, NoSession, Dead, Loadable, Live, Undisturbed,
           MaySave, SameDevice, creator
  <2>2. ASSUME Dead(s) PROVE Dead(s)'
    <3>0. s \in opDeleted /\ cpc[s] = "created" /\ ~Loadable(s) /\ Undisturbed(s)
      BY <2>0, <2>2 DEF Dead
    <3>1. ~Loadable(s)'
      BY <1>1, <3>0, StaysUnloadable
    <3>same. ASSUME UNCHANGED <<ppc, flow>>, opDeleted \subseteq opDeleted' PROVE Dead(s)'
      BY <3>0, <3>1, <3>same DEF Dead, Undisturbed, MaySave, SameDevice
    <3>post. ASSUME NEW p \in Posts, Post(p) \/ PostCrash(p) PROVE Dead(s)'
      <4>0. /\ Moves(p) /\ UNCHANGED <<flow, opDeleted>>
            /\ \A q \in Posts \ {p} : ppc'[q] = ppc[q]
        BY <2>0, <3>post, PostFrame, PostMoves
      <4>1. ASSUME NEW q \in Posts \ {p}, SessionOf[q] = s PROVE ~MaySave(q)'
        BY <3>0, <4>0, <4>1 DEF Undisturbed, MaySave, SameDevice
      <4>2. ASSUME SessionOf[p] = s PROVE ~MaySave(p)'
        <5>1. ~MaySave(p)
          BY <3>0, <4>2 DEF Undisturbed
        <5>2. ~(ppc[p] = "load" /\ ppc'[p] = "claim")
          BY <2>0, <3>0, <3>post, <4>2, ClaimNeedsRecord
        <5> QED BY <4>0, <5>1, <5>2 DEF MaySave, Moves, SameDevice, PostEnd
      <4> QED BY <3>0, <3>1, <4>0, <4>1, <4>2 DEF Dead, Undisturbed
    <3>create. ASSUME NEW t \in Sessions, Create(t) PROVE Dead(s)'
      BY <2>0, <3>create, <3>same, CreateEffect DEF deletes
    <3>get. ASSUME NEW g \in Gets, Get(g) \/ GetCrash(g) PROVE Dead(s)'
      BY <2>0, <3>get, <3>same, GetEffect DEF creator, deletes
    <3>delete. ASSUME NEW t \in Sessions, InternalDelete(t) PROVE Dead(s)'
      BY <3>delete, <3>same DEF InternalDelete, creator
    <3>tick. CASE Tick
      BY <3>tick, <3>same DEF Tick, deletes
    <3>stutter. CASE UNCHANGED vars
      BY <3>stutter, <3>same DEF vars, creator, deletes
    <3> QED BY <1>1, <3>create, <3>post, <3>get, <3>delete, <3>tick, <3>stutter DEF Next
  <2> QED BY <2>1, <2>2
<1>2. IndInv /\ [Next]_vars => [\A s \in Sessions : Final(s)]_vars
  BY <1>1
<1> QED BY Invariance, <1>2, PTL DEF Spec, DeleteIsFinal

-----------------------------------------------------------------------------
\* Creating a session goes forward, call by call.
LEMMA CreateRanks ==
  ASSUME TypeInv, NEW s \in Sessions, Create(s), NEW t \in Sessions, cpc'[t] # cpc[t]
  PROVE  CreateRank(t)' < CreateRank(t)
<1>0. cpc \in [Sessions -> {"new", "save", "route", "record", "created", "failed"}]
  BY DEF TypeInv, TypeOK
<1>1. t = s
  BY CreateEffect
<1>2. \/ cpc[s] = "new" /\ cpc'[s] = "save"
      \/ cpc[s] = "save" /\ cpc'[s] \in {"route", "failed"}
      \/ cpc[s] = "route" /\ cpc'[s] \in {"record", "failed"}
      \/ cpc[s] = "record" /\ cpc'[s] \in {"created", "failed"}
  BY <1>0 DEF Create, CreateMint, CreateSave, CreateRoute, CreateRecord, Call, CreatorTo
<1> QED BY <1>1, <1>2 DEF CreateRank

\* Every handler does its calls in an order that leads to its end.
THEOREM HandlersReachTheirEnd == Spec => HandlersEnd
<1> DEFINE PostDown(p)   == ppc'[p] # ppc[p] => PostRank(p)' < PostRank(p)
           GetDown(g)    == gpc'[g] # gpc[g] => GetRank(g)' < GetRank(g)
           CreateDown(s) == cpc'[s] # cpc[s] => CreateRank(s)' < CreateRank(s)
           Down == /\ \A p \in Posts : PostDown(p)
                   /\ \A g \in Gets : GetDown(g)
                   /\ \A s \in Sessions : CreateDown(s)
<1>1. ASSUME TypeInv, [Next]_vars PROVE Down
  <2>post. ASSUME NEW q \in Posts, Post(q) \/ PostCrash(q) PROVE Down
    <3>1. ASSUME NEW p \in Posts \ {q} PROVE PostDown(p)
      BY <1>1, <2>post, <3>1, PostFrame
    <3>2. PostDown(q)
      <4>0. Moves(q)
        BY <1>1, <2>post, PostMoves
      <4>1. CASE ppc[q] \in {"resolve", "load", "claim", "persist", "rollback", "meta"}
        BY <4>0, <4>1 DEF Moves, PostRank
      <4>2. CASE ppc[q] \in {"verify", "deliver", "dispose", "report"}
        BY <4>0, <4>2 DEF Moves, PostRank
      <4>3. CASE ppc[q] \in {"markFailed", "deliverFailure", "disposeFailure"}
        BY <4>0, <4>3 DEF Moves, PostRank
      <4>4. CASE ppc[q] \in {"markVerified", "code", "fail"}
        BY <4>0, <4>4 DEF Moves, PostRank
      <4>5. ppc[q] \in PostPC /\ ppc[q] \notin PostEnd
        BY <1>1, <4>0 DEF TypeInv, TypeOK, Moves, PostEnd
      <4> QED BY <4>1, <4>2, <4>3, <4>4, <4>5 DEF PostPC, InRun
    <3> QED BY <1>1, <2>post, <3>1, <3>2, PostFrame
  <2>create. ASSUME NEW s \in Sessions, Create(s) PROVE Down
    BY <1>1, <2>create, CreateEffect, CreateRanks
  <2>get. ASSUME NEW g \in Gets, Get(g) \/ GetCrash(g) PROVE Down
    <3>1. ASSUME NEW h \in Gets \ {g} PROVE GetDown(h)
      BY <1>1, <2>get, <3>1, GetEffect
    <3>2. GetDown(g)
      <4>1. \/ gpc[g] = "load" /\ gpc'[g] \in {"mark", "refused"}
            \/ gpc[g] = "mark" /\ gpc'[g] \in {"sign", "refused", "crashed"}
            \/ gpc[g] = "sign" /\ gpc'[g] \in {"engage", "refused", "crashed"}
            \/ gpc[g] = "engage" /\ gpc'[g] \in {"answered", "crashed"}
        <5>0. gpc \in [Gets -> GetPC]
          BY <1>1 DEF TypeInv, TypeOK
        <5> QED BY <2>get, <5>0
                DEF Get, GetLoad, GetMark, GetSign, GetEngage, GetCrash, Call, GetTo
      <4> QED BY <4>1 DEF GetRank
    <3> QED BY <1>1, <2>get, <3>1, <3>2, GetEffect DEF creator
  <2>delete. ASSUME NEW s \in Sessions, InternalDelete(s) PROVE Down
    BY <2>delete DEF InternalDelete, creator
  <2>tick. CASE Tick
    BY <2>tick DEF Tick
  <2>stutter. CASE UNCHANGED vars
    BY <2>stutter DEF vars, creator
  <2> QED BY <1>1, <2>create, <2>post, <2>get, <2>delete, <2>tick, <2>stutter DEF Next
<1>2. TypeInv /\ [Next]_vars => [Down]_vars
  BY <1>1
<1>3. IndInv => TypeInv
  BY DEF IndInv
<1> QED BY <1>2, <1>3, Invariance, PTL DEF Spec, HandlersEnd

\* The status of a session is overwritten only by calls that were under way.
THEOREM StatusOfVerifiedKept == Spec => StatusKept
<1> DEFINE Kept(s) == status[s] = "verified" /\ status'[s] # "verified" =>
             \/ \E g \in Gets : SessionOf[g] = s /\ gpc[g] = "engage"
             \/ \E p \in Posts : SessionOf[p] = s /\ ppc[p] \in {"fail", "markFailed"}
<1>1. ASSUME IndInv, [Next]_vars, NEW s \in Sessions, status[s] = "verified", status'[s] # "verified"
      PROVE  \/ \E g \in Gets : SessionOf[g] = s /\ gpc[g] = "engage"
             \/ \E p \in Posts : SessionOf[p] = s /\ ppc[p] \in {"fail", "markFailed"}
  <2>0. /\ TypeInv /\ cpc[s] = "created"
        /\ status \in [Sessions -> {"none", "pending", "wallet_engaged", "verified", "failed"}]
    <3>1. PICK p \in Posts : SessionOf[p] = s /\ ppc[p] # "resolve"
      BY <1>1 DEF IndInv, StatusInv, PostEnd
    <3> QED BY <1>1, <3>1 DEF IndInv, TypeInv, TypeOK, MarkersInv
  <2>create. ASSUME NEW t \in Sessions, Create(t) PROVE FALSE
    <3>1. t # s
      BY <2>0, <2>create, CreateEffect
    <3>2. UNCHANGED status \/ status' = [status EXCEPT ![t] = "pending"]
      BY <2>create
         DEF Create, CreateMint, CreateSave, CreateRoute, CreateRecord, Call, SetStatus, meta
    <3> QED BY <1>1, <2>0, <3>1, <3>2
  <2>post. ASSUME NEW q \in Posts, Post(q) \/ PostCrash(q)
           PROVE  SessionOf[q] = s /\ ppc[q] \in {"fail", "markFailed"}
    <3>1. SessionOf[q] = s
      BY <1>1, <2>0, <2>post, PostElsewhere
    <3>2. status' # status /\ status'[s] # "verified"
      BY <1>1
    <3>3. PostMarkFailed(q) \/ PostMarkVerified(q) \/ PostFail(q)
      BY <2>post, <3>2
         DEF Post, PostResolve, PostOversized, PostLoad, PostClaim, ClaimFrame, PostPersist,
             PostRollback, PostMeta, PostVerify, PostDeliver, PostDispose, PostReport,
             PostDeliverFailure, PostDisposeFailure, PostCode, PostCrash, meta
    <3>4. ~PostMarkVerified(q)
      BY <2>0, <3>1, <3>2 DEF PostMarkVerified, Call, SetStatus
    <3> QED BY <3>1, <3>3, <3>4 DEF PostMarkFailed, PostFail
  <2>get. ASSUME NEW g \in Gets, Get(g) \/ GetCrash(g) PROVE SessionOf[g] = s /\ gpc[g] = "engage"
    <3>1. GetEngage(g)
      BY <1>1, <2>get DEF Get, GetLoad, GetMark, GetSign, GetCrash, meta
    <3> QED BY <1>1, <2>0, <3>1 DEF GetEngage, Call, SetStatus
  <2>delete. ASSUME NEW t \in Sessions, InternalDelete(t) PROVE FALSE
    BY <1>1, <2>delete DEF InternalDelete, meta
  <2>tick. CASE Tick
    BY <1>1, <2>tick DEF Tick, meta
  <2>stutter. CASE UNCHANGED vars
    BY <1>1, <2>stutter DEF vars, meta
  <2> QED BY <1>1, <2>create, <2>post, <2>get, <2>delete, <2>tick, <2>stutter DEF Next
<1>2. IndInv /\ [Next]_vars => [\A s \in Sessions : Kept(s)]_vars
  BY <1>1
<1> QED BY Invariance, <1>2, PTL DEF Spec, StatusKept

-----------------------------------------------------------------------------
\* A response writes keys of its own session alone, and no token.
LEMMA PostKeysElsewhere ==
  ASSUME TypeInv, NEW q \in Posts, Post(q) \/ PostCrash(q), NEW s \in Sessions, SessionOf[q] # s
  PROVE  /\ session'[s] = session[s] /\ served'[s] = served[s]
         /\ consumed'[s] = consumed[s] /\ token' = token
         /\ \A p \in Posts : SessionOf[p] = s => respCode'[p] = respCode[p]
<1>0. /\ session \in [Sessions -> [ttl : 0 .. SessionTTL, consumed : BOOLEAN, code : Posts \cup {NoRun}]]
      /\ served \in [Sessions -> 0 .. SessionTTL] /\ consumed \in [Sessions -> 0 .. SessionTTL]
      /\ respCode \in [Posts -> 0 .. RespCodeTTL]
  BY DEF TypeInv, TypeOK
<1>1. session'[s] = session[s] /\ served'[s] = served[s] /\ consumed'[s] = consumed[s]
  BY <1>0, PostKeys DEF Claims, GivesBack, Deletes, DeleteSession, Saves, Save, KeepsKeys
<1>2. token' = token /\ (respCode' = respCode \/ respCode' = [respCode EXCEPT ![q] = KeyTTL(RespCodeTTL)])
  BY DEF Post, PostResolve, PostOversized, PostLoad, PostClaim, ClaimFrame, PostPersist,
     PostRollback, PostMeta, PostVerify, PostDeliver, PostDispose, PostReport, PostMarkFailed,
     PostDeliverFailure, PostDisposeFailure, PostMarkVerified, PostCode, PostFail, PostCrash,
     Call, index
<1> QED BY <1>0, <1>1, <1>2

\* Nobody is at work for a quiet session, so that each step leaves its keys
\* alone, deletes some, or is a tick.
LEMMA QuietStep ==
  ASSUME IndInv, [Next]_vars, NEW s \in Sessions, Quiet(s)
  PROVE  /\ cpc'[s] = cpc[s]
         /\ \A p \in Posts : SessionOf[p] = s => ppc'[p] = ppc[p]
         /\ \A g \in Gets : SessionOf[g] = s => gpc'[g] = gpc[g]
         /\ \/ Tick
            \/ /\ token'[s] = token[s]
               /\ session'[s].ttl \in {0, session[s].ttl}
               /\ served'[s] \in {0, served[s]} /\ consumed'[s] \in {0, consumed[s]}
               /\ \A p \in Posts : SessionOf[p] = s => respCode'[p] = respCode[p]
<1> DEFINE Same == /\ cpc'[s] = cpc[s]
                   /\ \A p \in Posts : SessionOf[p] = s => ppc'[p] = ppc[p]
                   /\ \A g \in Gets : SessionOf[g] = s => gpc'[g] = gpc[g]
           Older == /\ token'[s] = token[s]
                    /\ session'[s].ttl \in {0, session[s].ttl}
                    /\ served'[s] \in {0, served[s]} /\ consumed'[s] \in {0, consumed[s]}
                    /\ \A p \in Posts : SessionOf[p] = s => respCode'[p] = respCode[p]
<1>0. /\ SessionOf \in [Posts \cup Gets -> Sessions] /\ TypeInv /\ MarkersInv
      /\ session \in [Sessions -> [ttl : 0 .. SessionTTL, consumed : BOOLEAN, code : Posts \cup {NoRun}]]
      /\ served \in [Sessions -> 0 .. SessionTTL] /\ consumed \in [Sessions -> 0 .. SessionTTL]
      /\ token \in [Sessions -> 0 .. SessionTTL]
  BY RequestsTyped DEF IndInv, TypeInv, TypeOK
<1>post. ASSUME NEW q \in Posts, Post(q) \/ PostCrash(q) PROVE Same /\ Older
  <2>1. SessionOf[q] # s
    <3>1. Moves(q) /\ (ppc[q] = "resolve" => cpc[SessionOf[q]] = "created")
      BY <1>0, <1>post, PostMoves, PostFrame
    <3>2. ppc[q] \notin PostEnd
      BY <3>1 DEF Moves, PostEnd
    <3> QED BY <1>0, <3>1, <3>2 DEF Quiet, MarkersInv
  <2>2. Same
    BY <1>0, <1>post, <2>1, PostFrame
  <2>3. Older
    BY <1>0, <1>post, <2>1, PostKeysElsewhere
  <2> QED BY <2>2, <2>3
<1>create. ASSUME NEW t \in Sessions, Create(t) PROVE Same /\ Older
  <2>1. t # s
    BY <1>create DEF Create, CreateMint, CreateSave, CreateRoute, CreateRecord, Quiet
  <2>2. Same
    BY <1>0, <1>create, <2>1, CreateEffect
  <2>3. respCode' = respCode /\ token'[s] = token[s]
    BY <1>0, <1>create, <2>1
       DEF Create, CreateMint, CreateSave, CreateRoute, CreateRecord, Call, index
  <2> QED BY <1>0, <1>create, <2>1, <2>2, <2>3, CreateEffect
<1>get. ASSUME NEW g \in Gets, Get(g) \/ GetCrash(g) PROVE Same /\ Older
  <2>1. SessionOf[g] # s
    <3>1. gpc[g] \in {"load", "mark", "sign", "engage"}
      BY <1>get DEF Get, GetLoad, GetMark, GetSign, GetEngage, GetCrash
    <3> QED BY <1>0, <1>get, <3>1, GetEffect DEF Quiet, MarkersInv
  <2>2. Same
    BY <1>0, <1>get, <2>1, GetEffect DEF creator
  <2>3. served'[s] = served[s]
    BY <1>0, <1>get, <2>1, GetEffect
  <2> QED BY <1>0, <1>get, <2>2, <2>3, GetEffect DEF index
<1>delete. ASSUME NEW t \in Sessions, InternalDelete(t) PROVE Same /\ Older
  BY <1>0, <1>delete DEF InternalDelete, DeleteSession, NoSession, creator, index
<1>tick. CASE Tick
  BY <1>tick DEF Tick
<1>stutter. CASE UNCHANGED vars
  BY <1>stutter DEF vars, keys, creator, index
<1> QED BY <1>create, <1>post, <1>get, <1>delete, <1>tick, <1>stutter DEF Next

\* store.go: no key without an expiry, so once nobody is at work for a session
\* every tick takes one from each of its keys.
THEOREM QuietSessionsForgotten == Spec => QuietKeysAge
<1> DEFINE Ages(s) == Quiet(s) =>
             /\ Quiet(s)'
             /\ \A k \in 1 .. 4 :
                 KeysOf(s)'[k] <= KeysOf(s)[k] /\ (Tick /\ KeysOf(s)[k] > 0 => KeysOf(s)'[k] < KeysOf(s)[k])
             /\ \A p \in Posts : SessionOf[p] = s =>
                 respCode'[p] <= respCode[p] /\ (Tick /\ respCode[p] > 0 => respCode'[p] < respCode[p])
<1>1. ASSUME IndInv, [Next]_vars, NEW s \in Sessions, Quiet(s) PROVE Ages(s)
  <2>0. /\ session[s].ttl \in Nat /\ served[s] \in Nat /\ consumed[s] \in Nat /\ token[s] \in Nat
        /\ respCode \in [Posts -> 0 .. RespCodeTTL] /\ RespCodeTTL \in Nat /\ SessionTTL \in Nat
        /\ session \in [Sessions -> [ttl : 0 .. SessionTTL, consumed : BOOLEAN, code : Posts \cup {NoRun}]]
    BY <1>1, TTLsPositive DEF IndInv, TypeInv, TypeOK
  <2>1. Quiet(s)'
    BY <1>1, QuietStep DEF Quiet
  <2>tick. ASSUME Tick
           PROVE  /\ session'[s].ttl = Age(session[s].ttl) /\ served'[s] = Age(served[s])
                  /\ consumed'[s] = Age(consumed[s]) /\ token'[s] = Age(token[s])
                  /\ \A p \in Posts : respCode'[p] = Age(respCode[p])
    <3>1. session'[s].ttl = Age(session[s].ttl)
      <4>1. CASE Age(session[s].ttl) # 0
        BY <2>0, <2>tick, <4>1 DEF Tick, Live
      <4>2. CASE Age(session[s].ttl) = 0
        BY <2>0, <2>tick, <4>2 DEF Tick, Live, NoSession
      <4> QED BY <4>1, <4>2
    <3> QED BY <2>tick, <3>1 DEF Tick
  <2>2. \A n \in Nat : Age(n) <= n /\ (n > 0 => Age(n) < n)
    BY DEF Age
  <2>3. ASSUME NEW k \in 1 .. 4
        PROVE  /\ KeysOf(s)'[k] <= KeysOf(s)[k]
               /\ Tick /\ KeysOf(s)[k] > 0 => KeysOf(s)'[k] < KeysOf(s)[k]
    <3>1. KeysOf(s)[k] \in Nat
      BY <2>0, <2>3 DEF KeysOf
    <3>2. Tick => KeysOf(s)'[k] = Age(KeysOf(s)[k])
      BY <2>tick, <2>3 DEF KeysOf
    <3>3. ~Tick => KeysOf(s)'[k] \in {0, KeysOf(s)[k]}
      BY <1>1, <2>3, QuietStep DEF KeysOf
    <3> HIDE DEF KeysOf
    <3> QED BY <2>2, <3>1, <3>2, <3>3
  <2>4. ASSUME NEW p \in Posts, SessionOf[p] = s
        PROVE  /\ respCode'[p] <= respCode[p]
               /\ Tick /\ respCode[p] > 0 => respCode'[p] < respCode[p]
    <3>1. respCode[p] \in Nat
      BY <2>0
    <3>2. ~Tick => respCode'[p] = respCode[p]
      BY <1>1, <2>4, QuietStep
    <3> QED BY <2>2, <2>tick, <3>1, <3>2
  <2> QED BY <2>1, <2>3, <2>4
<1>2. IndInv /\ [Next]_vars => [\A s \in Sessions : Ages(s)]_vars
  <2> SUFFICES ASSUME IndInv, [Next]_vars, NEW s \in Sessions PROVE Ages(s)
    OBVIOUS
  <2> HIDE DEF Ages
  <2>1. CASE Quiet(s)
    BY <1>1, <2>1
  <2>2. CASE ~Quiet(s)
    BY <2>2 DEF Ages
  <2> QED BY <2>1, <2>2
<1> QED BY Invariance, <1>2, PTL DEF Spec, QuietKeysAge
==============================================================================
