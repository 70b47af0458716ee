------------------------ MODULE SessionLifecycleProofs ------------------------
(***************************************************************************)
(* Machine-checked proofs of the safety properties of SessionLifecycle,    *)
(* for any sets of sessions and requests, any TTLs and any calls that fail. *)
(***************************************************************************)
EXTENDS SessionLifecycleInv, TLAPS

\* Where a handler may go: the members of the two sets of program counters.
LEMMA PCs ==
  /\ "load" \in PostPC /\ "claim" \in PostPC /\ "persist" \in PostPC
  /\ "rollback" \in PostPC /\ "meta" \in PostPC /\ "verify" \in PostPC
  /\ "deliver" \in PostPC /\ "dispose" \in PostPC /\ "report" \in PostPC
  /\ "markFailed" \in PostPC /\ "deliverFailure" \in PostPC /\ "disposeFailure" \in PostPC
  /\ "markVerified" \in PostPC /\ "code" \in PostPC /\ "fail" \in PostPC
  /\ "answered" \in PostPC /\ "refused" \in PostPC /\ "crashed" \in PostPC
  /\ "mark" \in GetPC /\ "sign" \in GetPC /\ "engage" \in GetPC
  /\ "answered" \in GetPC /\ "refused" \in GetPC /\ "crashed" \in GetPC
  BY DEF PostPC, InRun, PostEnd, GetPC

\* KeyTTL never writes a key without expiry: both TTLs are positive.
LEMMA KeyTTLPositive == \A d \in Nat \ {0} : KeyTTL(d) = d
  BY DEF KeyTTL

\* Store.Save gives a record a positive TTL that reaches to ExpiresAt at least.
LEMMA SaveTTLBounds ==
  ASSUME TypeOK, NEW s \in Sessions
  PROVE  /\ SaveTTL(s) \in 1 .. SessionTTL
         /\ left[s] > 0 => SaveTTL(s) >= left[s]
  BY TTLsPositive DEF TypeOK, SaveTTL, KeyTTL

\* What Store.Save writes is a session record.
LEMMA SavedTyped ==
  ASSUME TypeOK, NEW s \in Sessions, NEW isConsumed \in BOOLEAN,
         NEW code \in Posts \cup {NoRun}, Save(s, isConsumed, code)
  PROVE  session' \in [Sessions -> [ttl : 0 .. SessionTTL, consumed : BOOLEAN,
                                   code : Posts \cup {NoRun}]]
  BY SaveTTLBounds DEF TypeOK, Save

\* A key with n ticks left has no more of them after a tick.
LEMMA AgeTyped == \A n \in Nat : \A k \in 0 .. n : Age(k) \in 0 .. n
  BY DEF Age

-----------------------------------------------------------------------------
\* Types.  One step per action; the frame of each is in its tuples.
LEMMA TypeInit == Init => TypeInv
  BY TTLsPositive, RequestsTyped DEF Init, TypeInv, TypeOK, NoSession, PostPC, GetPC

LEMMA TypeStep == TypeInv /\ [Next]_vars => TypeInv'
<1> SUFFICES ASSUME TypeInv, [Next]_vars PROVE TypeInv'
  OBVIOUS
<1>create. ASSUME NEW s \in Sessions, Create(s) PROVE TypeInv'
  <2>0. /\ faults \in 0 .. MaxFaults
        /\ cpc \in [Sessions -> {"new", "save", "route", "record", "created", "failed"}]
        /\ ttl \in [Sessions -> 0 .. SessionTTL]
        /\ left \in [Sessions -> 0 .. SessionTTL]
        /\ token \in [Sessions -> 0 .. SessionTTL]
        /\ status \in [Sessions ->
                {"none", "pending", "wallet_engaged", "verified", "failed"}]
        /\ cpc[s] = "route" => ttl[s] \in 1 .. SessionTTL
    BY TTLsPositive DEF TypeInv, TypeOK
  <2>1. CASE CreateMint(s)
    <3>1. \A asked \in RequestedTTLs : EffectiveTTL(asked) \in 1 .. SessionTTL
      BY TTLsPositive, RequestsTyped DEF EffectiveTTL
    <3>2. /\ cpc' \in [Sessions -> {"new", "save", "route", "record", "created", "failed"}]
          /\ ttl' \in [Sessions -> 0 .. SessionTTL]
          /\ left' \in [Sessions -> 0 .. SessionTTL]
      BY <2>1, <2>0, <3>1, TTLsPositive DEF CreateMint, CreatorTo
    <3>3. \A r \in Sessions : cpc'[r] # "new" => ttl'[r] > 0
      BY <2>1, <2>0, <3>1, TTLsPositive DEF CreateMint, CreatorTo, TypeInv
    <3> QED
      BY <2>1, <3>2, <3>3
         DEF TypeInv, TypeOK, CreateMint, keys, index, meta, locals, results, deletes
  <2>2. CASE CreateSave(s)
    <3>1. cpc' \in [Sessions -> {"new", "save", "route", "record", "created", "failed"}]
      BY <2>2, <2>0 DEF CreateSave, Call, CreatorTo
    <3>2. faults' \in 0 .. MaxFaults
      BY <2>2, <2>0, RequestsTyped DEF CreateSave, Call, Succeeds, Fails, Save
    <3>3. \A r \in Sessions : cpc'[r] # "new" => ttl'[r] > 0
      BY <2>2, <2>0 DEF CreateSave, Call, CreatorTo, TypeInv
    <3>4. session' \in [Sessions -> [ttl : 0 .. SessionTTL, consumed : BOOLEAN,
                                   code : Posts \cup {NoRun}]]
      <4>1. CASE Save(s, FALSE, NoRun)
        BY <4>1, SavedTyped DEF TypeInv
      <4>2. CASE UNCHANGED session
        BY <4>2 DEF TypeInv, TypeOK
      <4> QED BY <2>2, <4>1, <4>2 DEF CreateSave, Call
    <3> QED
      BY <2>2, <3>1, <3>2, <3>3, <3>4 DEF TypeInv, TypeOK, CreateSave, index,
         meta, locals, results, deletes
  <2>3. CASE CreateRoute(s)
    <3>1. cpc' \in [Sessions -> {"new", "save", "route", "record", "created", "failed"}]
      BY <2>3, <2>0 DEF CreateRoute, Call, CreatorTo
    <3>2. faults' \in 0 .. MaxFaults
      BY <2>3, <2>0, RequestsTyped DEF CreateRoute, Call, Succeeds, Fails, Save
    <3>3. \A r \in Sessions : cpc'[r] # "new" => ttl'[r] > 0
      BY <2>3, <2>0 DEF CreateRoute, Call, CreatorTo, TypeInv
    <3>4. token' \in [Sessions -> 0 .. SessionTTL]
      BY <2>3, <2>0, KeyTTLPositive DEF CreateRoute, Call
    <3> QED
      BY <2>3, <3>1, <3>2, <3>3, <3>4 DEF TypeInv, TypeOK, CreateRoute, keys,
         meta, locals, results, deletes
  <2>4. CASE CreateRecord(s)
    <3>1. cpc' \in [Sessions -> {"new", "save", "route", "record", "created", "failed"}]
      BY <2>4, <2>0 DEF CreateRecord, Call, CreatorTo
    <3>2. faults' \in 0 .. MaxFaults
      BY <2>4, <2>0, RequestsTyped DEF CreateRecord, Call, Succeeds, Fails, Save
    <3>3. \A r \in Sessions : cpc'[r] # "new" => ttl'[r] > 0
      BY <2>4, <2>0 DEF CreateRecord, Call, CreatorTo, TypeInv
    <3>4. status' \in [Sessions ->
                        {"none", "pending", "wallet_engaged", "verified", "failed"}]
      BY <2>4, <2>0 DEF CreateRecord, Call, SetStatus
    <3> QED
      BY <2>4, <3>1, <3>2, <3>3, <3>4 DEF TypeInv, TypeOK, CreateRecord, keys,
         index, locals, results, deletes
  <2> QED BY <1>create, <2>1, <2>2, <2>3, <2>4 DEF Create
<1>delete. ASSUME NEW s \in Sessions, InternalDelete(s) PROVE TypeInv'
  BY <1>delete, TTLsPositive, RequestsTyped
     DEF TypeInv, TypeOK, InternalDelete, DeleteSession, NoSession, index, meta, creator,
         locals, results
<1>post. ASSUME NEW p \in Posts, Post(p) \/ PostCrash(p) PROVE TypeInv'
  <2>0. /\ TypeOK
        /\ SessionOf[p] \in Sessions
        /\ ppc \in [Posts -> PostPC] /\ faults \in 0 .. MaxFaults
        /\ copy \in [Posts -> Posts \cup {NoRun}] /\ copy[p] \in Posts \cup {NoRun}
        /\ outcome \in [Posts -> {"none", "verified", "failed"}] /\ outcome[p] \in {"none", "verified", "failed"}
        /\ session \in [Sessions -> [ttl : 0 .. SessionTTL, consumed : BOOLEAN,
                                    code : Posts \cup {NoRun}]]
        /\ served \in [Sessions -> 0 .. SessionTTL]
        /\ consumed \in [Sessions -> 0 .. SessionTTL]
        /\ respCode \in [Posts -> 0 .. RespCodeTTL]
        /\ payload \in [Sessions -> {"none", "verified", "failed"}]
        /\ report \in [Sessions -> {"none", "verified", "failed"}]
        /\ status \in [Sessions ->
                {"none", "pending", "wallet_engaged", "verified", "failed"}]
        /\ holds \subseteq Posts /\ handoffs \subseteq Posts /\ codes \subseteq Posts
        /\ cleared \subseteq Sessions
    BY RequestsTyped DEF TypeInv, TypeOK
  <2>full. 0 \in 0 .. SessionTTL /\ KeyTTL(SessionTTL) \in 0 .. SessionTTL /\ KeyTTL(RespCodeTTL) \in 0 .. RespCodeTTL
    BY TTLsPositive, KeyTTLPositive
  <2>1. CASE PostResolve(p)
    <3>1. ppc' \in [Posts -> PostPC] /\ faults' \in 0 .. MaxFaults
      BY <2>1, <2>0, PCs, RequestsTyped DEF PostResolve, PostTo, Succeeds,
         Fails
    <3> QED
      BY <2>1, <3>1 DEF TypeInv, TypeOK, PostResolve, keys, index, meta,
         creator, locals, results, deletes
  <2>2. CASE PostOversized(p)
    <3>1. ppc' \in [Posts -> PostPC] /\ faults' \in 0 .. MaxFaults
      BY <2>2, <2>0, PCs, RequestsTyped DEF PostOversized, PostTo, Succeeds
    <3> QED
      BY <2>2, <3>1 DEF TypeInv, TypeOK, PostOversized, keys, index, meta,
         creator, locals, results, deletes
  <2>3. CASE PostLoad(p)
    <3>1. ppc' \in [Posts -> PostPC] /\ faults' \in 0 .. MaxFaults
      BY <2>3, <2>0, PCs, RequestsTyped DEF PostLoad, PostTo, Succeeds, Fails
    <3>2. copy' \in [Posts -> Posts \cup {NoRun}]
      BY <2>3, <2>0 DEF PostLoad
    <3> QED
      BY <2>3, <3>1, <3>2 DEF TypeInv, TypeOK, PostLoad, keys, index, meta,
         creator, results, deletes
  <2>4. CASE PostClaim(p)
    <3>1. ppc' \in [Posts -> PostPC] /\ faults' \in 0 .. MaxFaults
      BY <2>4, <2>0, PCs, RequestsTyped DEF PostClaim, Claim, PostTo, Call, Succeeds,
         Fails
    <3>2. consumed' \in [Sessions -> 0 .. SessionTTL]
      BY <2>4, <2>0, <2>full DEF PostClaim, Claim, Call
    <3>3. holds' \subseteq Posts
      BY <2>4, <2>0 DEF PostClaim, Claim, Call
    <3> QED
      BY <2>4, <3>1, <3>2, <3>3 DEF TypeInv, TypeOK, PostClaim, Claim, ClaimFrame, index, meta,
         creator, locals, results, deletes
  <2>5. CASE PostPersist(p)
    <3>1. ppc' \in [Posts -> PostPC] /\ faults' \in 0 .. MaxFaults
      BY <2>5, <2>0, PCs, RequestsTyped DEF PostPersist, PostTo, Call,
         Succeeds, Fails, Save
    <3>2. session' \in [Sessions -> [ttl : 0 .. SessionTTL, consumed : BOOLEAN,
                                   code : Posts \cup {NoRun}]]
      BY <2>5, <2>0, SavedTyped DEF PostPersist, Call
    <3> QED
      BY <2>5, <3>1, <3>2 DEF TypeInv, TypeOK, PostPersist, index, meta,
         creator, locals, results, deletes
  <2>6. CASE PostRollback(p)
    <3>1. ppc' \in [Posts -> PostPC] /\ faults' \in 0 .. MaxFaults
      BY <2>6, <2>0, PCs, RequestsTyped DEF PostRollback, PostTo, Call,
         Succeeds, Fails
    <3>2. consumed' \in [Sessions -> 0 .. SessionTTL]
      BY <2>6, <2>0, <2>full DEF PostRollback, Call
    <3>3. holds' \subseteq Posts
      BY <2>6, <2>0 DEF PostRollback, Call
    <3> QED
      BY <2>6, <3>1, <3>2, <3>3 DEF TypeInv, TypeOK, PostRollback, index, meta,
         creator, locals, results, deletes
  <2>7. CASE PostMeta(p)
    <3>1. ppc' \in [Posts -> PostPC] /\ faults' \in 0 .. MaxFaults
      BY <2>7, <2>0, PCs, RequestsTyped DEF PostMeta, PostTo, Succeeds, Fails
    <3> QED
      BY <2>7, <3>1 DEF TypeInv, TypeOK, PostMeta, keys, index, meta, creator,
         locals, results, deletes
  <2>8. CASE PostVerify(p)
    <3>1. ppc' \in [Posts -> PostPC] /\ faults' \in 0 .. MaxFaults
      BY <2>8, <2>0, PCs, RequestsTyped DEF PostVerify, PostTo, Succeeds
    <3>2. copy' \in [Posts -> Posts \cup {NoRun}]
      BY <2>8, <2>0 DEF PostVerify
    <3>3. outcome' \in [Posts -> {"none", "verified", "failed"}]
      BY <2>8, <2>0 DEF PostVerify
    <3> QED
      BY <2>8, <3>1, <3>2, <3>3 DEF TypeInv, TypeOK, PostVerify, keys, index,
         meta, creator, results, deletes
  <2>9. CASE PostDeliver(p)
    <3>1. ppc' \in [Posts -> PostPC] /\ faults' \in 0 .. MaxFaults
      BY <2>9, <2>0, PCs, RequestsTyped DEF PostDeliver, PostTo, Call,
         Succeeds, Fails, HandoffFailed
    <3>2. outcome' \in [Posts -> {"none", "verified", "failed"}]
      BY <2>9, <2>0 DEF PostDeliver, Call, HandoffFailed
    <3>3. payload' \in [Sessions -> {"none", "verified", "failed"}]
      BY <2>9, <2>0 DEF PostDeliver, Call
    <3>4. handoffs' \subseteq Posts
      BY <2>9, <2>0 DEF PostDeliver, Call
    <3> QED
      BY <2>9, <3>1, <3>2, <3>3, <3>4 DEF TypeInv, TypeOK, PostDeliver, keys,
         index, meta, creator, results, deletes
  <2>10. CASE PostDispose(p)
    <3>1. ppc' \in [Posts -> PostPC] /\ faults' \in 0 .. MaxFaults
      BY <2>10, <2>0, PCs, RequestsTyped DEF PostDispose, PostTo, Call,
         Succeeds, Fails, HandoffFailed
    <3>2. outcome' \in [Posts -> {"none", "verified", "failed"}]
      BY <2>10, <2>0 DEF PostDispose, Call, HandoffFailed
    <3>3. /\ session' \in [Sessions -> [ttl : 0 .. SessionTTL, consumed : BOOLEAN,
                                   code : Posts \cup {NoRun}]]
          /\ served' \in [Sessions -> 0 .. SessionTTL]
          /\ consumed' \in [Sessions -> 0 .. SessionTTL]
      <4>1. CASE Dispose(p) /\ SameDevice(p)
        BY <2>0, <4>1, SavedTyped DEF Dispose
      <4>2. CASE Dispose(p) /\ ~SameDevice(p)
        <5>1. DeleteSession(SessionOf[p])
          BY <4>2 DEF Dispose
        <5> QED BY <2>0, <2>full, <5>1 DEF DeleteSession, NoSession
      <4>3. CASE UNCHANGED <<keys, holds, cleared>>
        BY <2>0, <4>3 DEF keys
      <4> QED BY <2>10, <4>1, <4>2, <4>3 DEF PostDispose, Call
    <3>4. holds' \subseteq Posts /\ cleared' \subseteq Sessions
      BY <2>10, <2>0 DEF PostDispose, Call, Dispose, DeleteSession, keys
    <3> QED
      BY <2>10, <3>1, <3>2, <3>3, <3>4 DEF TypeInv, TypeOK, PostDispose, index,
         meta, creator, results, deletes
  <2>11. CASE PostReport(p)
    <3>1. ppc' \in [Posts -> PostPC] /\ faults' \in 0 .. MaxFaults
      BY <2>11, <2>0, PCs, RequestsTyped DEF PostReport, PostTo, Call,
         Succeeds, Fails
    <3>2. report' \in [Sessions -> {"none", "verified", "failed"}]
      BY <2>11, <2>0 DEF PostReport, Call
    <3> QED
      BY <2>11, <3>1, <3>2 DEF TypeInv, TypeOK, PostReport, keys, index,
         creator, locals, results, deletes
  <2>12. CASE PostMarkFailed(p)
    <3>1. ppc' \in [Posts -> PostPC] /\ faults' \in 0 .. MaxFaults
      BY <2>12, <2>0, PCs, RequestsTyped DEF PostMarkFailed, PostTo, Call,
         Succeeds, Fails
    <3>2. status' \in [Sessions ->
                        {"none", "pending", "wallet_engaged", "verified", "failed"}]
      BY <2>12, <2>0 DEF PostMarkFailed, Call, SetStatus
    <3> QED
      BY <2>12, <3>1, <3>2 DEF TypeInv, TypeOK, PostMarkFailed, keys, index,
         creator, locals, results, deletes
  <2>13. CASE PostDeliverFailure(p)
    <3>1. ppc' \in [Posts -> PostPC] /\ faults' \in 0 .. MaxFaults
      BY <2>13, <2>0, PCs, RequestsTyped DEF PostDeliverFailure, PostTo, Call,
         Succeeds, Fails
    <3>2. payload' \in [Sessions -> {"none", "verified", "failed"}]
      BY <2>13, <2>0 DEF PostDeliverFailure, Call
    <3> QED
      BY <2>13, <3>1, <3>2 DEF TypeInv, TypeOK, PostDeliverFailure, keys,
         index, meta, creator, locals, results, deletes
  <2>14. CASE PostDisposeFailure(p)
    <3>1. ppc' \in [Posts -> PostPC] /\ faults' \in 0 .. MaxFaults
      BY <2>14, <2>0, PCs, RequestsTyped DEF PostDisposeFailure, PostTo, Call,
         Succeeds, Fails
    <3>2. /\ session' \in [Sessions -> [ttl : 0 .. SessionTTL, consumed : BOOLEAN,
                                   code : Posts \cup {NoRun}]]
          /\ served' \in [Sessions -> 0 .. SessionTTL]
          /\ consumed' \in [Sessions -> 0 .. SessionTTL]
      <4>1. CASE DeleteSession(SessionOf[p])
        BY <2>0, <2>full, <4>1 DEF DeleteSession, NoSession
      <4>2. CASE UNCHANGED <<keys, holds, cleared>>
        BY <2>0, <4>2 DEF keys
      <4> QED BY <2>14, <4>1, <4>2 DEF PostDisposeFailure, Call
    <3>3. holds' \subseteq Posts /\ cleared' \subseteq Sessions
      BY <2>14, <2>0 DEF PostDisposeFailure, Call, DeleteSession, keys
    <3> QED
      BY <2>14, <3>1, <3>2, <3>3 DEF TypeInv, TypeOK, PostDisposeFailure,
         index, meta, creator, locals, results, deletes
  <2>15. CASE PostMarkVerified(p)
    <3>1. ppc' \in [Posts -> PostPC] /\ faults' \in 0 .. MaxFaults
      BY <2>15, <2>0, PCs, RequestsTyped DEF PostMarkVerified, PostTo, Call,
         Succeeds, Fails
    <3>2. status' \in [Sessions ->
                        {"none", "pending", "wallet_engaged", "verified", "failed"}]
      BY <2>15, <2>0 DEF PostMarkVerified, Call, SetStatus
    <3> QED
      BY <2>15, <3>1, <3>2 DEF TypeInv, TypeOK, PostMarkVerified, keys, index,
         creator, locals, results, deletes
  <2>16. CASE PostCode(p)
    <3>1. ppc' \in [Posts -> PostPC] /\ faults' \in 0 .. MaxFaults
      BY <2>16, <2>0, PCs, RequestsTyped DEF PostCode, PostTo, Call, Succeeds,
         Fails
    <3>2. respCode' \in [Posts -> 0 .. RespCodeTTL]
      BY <2>16, <2>0, <2>full DEF PostCode, Call
    <3>3. codes' \subseteq Posts
      BY <2>16, <2>0 DEF PostCode, Call
    <3> QED
      BY <2>16, <3>1, <3>2, <3>3 DEF TypeInv, TypeOK, PostCode, keys, index,
         meta, creator, locals, results, deletes
  <2>17. CASE PostFail(p)
    <3>1. ppc' \in [Posts -> PostPC] /\ faults' \in 0 .. MaxFaults
      BY <2>17, <2>0, PCs, RequestsTyped DEF PostFail, PostTo, Call, Succeeds,
         Fails
    <3>2. status' \in [Sessions ->
                        {"none", "pending", "wallet_engaged", "verified", "failed"}]
      BY <2>17, <2>0 DEF PostFail, Call, SetStatus
    <3> QED
      BY <2>17, <3>1, <3>2 DEF TypeInv, TypeOK, PostFail, keys, index, creator,
         locals, results, deletes
  <2>18. CASE PostCrash(p)
    <3>1. ppc' \in [Posts -> PostPC] /\ faults' \in 0 .. MaxFaults
      BY <2>18, <2>0, PCs, RequestsTyped DEF PostCrash, PostTo, Fails
    <3> QED
      BY <2>18, <3>1 DEF TypeInv, TypeOK, PostCrash, keys, index, meta,
         creator, locals, results, deletes
  <2> QED BY <1>post, <2>1, <2>2, <2>3, <2>4, <2>5, <2>6, <2>7, <2>8, <2>9, <2>10,
     <2>11, <2>12, <2>13, <2>14, <2>15, <2>16, <2>17, <2>18 DEF Post
<1>get. ASSUME NEW g \in Gets, Get(g) \/ GetCrash(g) PROVE TypeInv'
  <2>0. /\ SessionOf[g] \in Sessions
        /\ gpc \in [Gets -> GetPC] /\ faults \in 0 .. MaxFaults
        /\ served \in [Sessions -> 0 .. SessionTTL]
        /\ status \in [Sessions ->
                {"none", "pending", "wallet_engaged", "verified", "failed"}]
        /\ jars \subseteq Gets
    BY RequestsTyped DEF TypeInv, TypeOK
  <2>full. KeyTTL(SessionTTL) \in 0 .. SessionTTL
    BY TTLsPositive, KeyTTLPositive
  <2>1. CASE GetLoad(g)
    <3>1. gpc' \in [Gets -> GetPC] /\ faults' \in 0 .. MaxFaults
      BY <2>1, <2>0, PCs, RequestsTyped DEF GetLoad, GetTo, Succeeds, Fails
    <3> QED
      BY <2>1, <3>1 DEF TypeInv, TypeOK, GetLoad, keys, index, meta, creator,
         locals, results, deletes
  <2>2. CASE GetMark(g)
    <3>1. gpc' \in [Gets -> GetPC] /\ faults' \in 0 .. MaxFaults
      BY <2>2, <2>0, PCs, RequestsTyped DEF GetMark, GetTo, Call, Succeeds,
         Fails
    <3>2. served' \in [Sessions -> 0 .. SessionTTL]
      BY <2>2, <2>0, <2>full DEF GetMark, Call
    <3> QED
      BY <2>2, <3>1, <3>2 DEF TypeInv, TypeOK, GetMark, index, meta, creator,
         locals, results, deletes
  <2>3. CASE GetSign(g)
    <3>1. gpc' \in [Gets -> GetPC] /\ faults' \in 0 .. MaxFaults
      BY <2>3, <2>0, PCs, RequestsTyped DEF GetSign, GetTo, Succeeds, Fails
    <3>2. jars' \subseteq Gets
      BY <2>3, <2>0 DEF GetSign
    <3> QED
      BY <2>3, <3>1, <3>2 DEF TypeInv, TypeOK, GetSign, keys, index, meta,
         creator, locals, results, deletes
  <2>4. CASE GetEngage(g)
    <3>1. gpc' \in [Gets -> GetPC] /\ faults' \in 0 .. MaxFaults
      BY <2>4, <2>0, PCs, RequestsTyped DEF GetEngage, GetTo, Call, Succeeds,
         Fails
    <3>2. status' \in [Sessions ->
                        {"none", "pending", "wallet_engaged", "verified", "failed"}]
      BY <2>4, <2>0 DEF GetEngage, Call, SetStatus
    <3> QED
      BY <2>4, <3>1, <3>2 DEF TypeInv, TypeOK, GetEngage, keys, index, creator,
         locals, results, deletes
  <2>5. CASE GetCrash(g)
    <3>1. gpc' \in [Gets -> GetPC] /\ faults' \in 0 .. MaxFaults
      BY <2>5, <2>0, PCs, RequestsTyped DEF GetCrash, GetTo, Fails
    <3> QED
      BY <2>5, <3>1 DEF TypeInv, TypeOK, GetCrash, keys, index, meta, creator,
         locals, results, deletes
  <2> QED BY <1>get, <2>1, <2>2, <2>3, <2>4, <2>5 DEF Get
<1>tick. CASE Tick
  <2>0. /\ session \in [Sessions -> [ttl : 0 .. SessionTTL, consumed : BOOLEAN,
                                    code : Posts \cup {NoRun}]]
        /\ served \in [Sessions -> 0 .. SessionTTL]
        /\ consumed \in [Sessions -> 0 .. SessionTTL]
        /\ token \in [Sessions -> 0 .. SessionTTL]
        /\ left \in [Sessions -> 0 .. SessionTTL]
        /\ respCode \in [Posts -> 0 .. RespCodeTTL]
        /\ SessionTTL \in Nat /\ RespCodeTTL \in Nat
    BY TTLsPositive DEF TypeInv, TypeOK
  <2>1. session' \in [Sessions -> [ttl : 0 .. SessionTTL, consumed : BOOLEAN,
                                  code : Posts \cup {NoRun}]]
    <3>1. ASSUME NEW s \in Sessions
          PROVE  (IF Live(Age(session[s].ttl)) THEN [session[s] EXCEPT !.ttl = Age(@)]
                                               ELSE NoSession)
                   \in [ttl : 0 .. SessionTTL, consumed : BOOLEAN,
                        code : Posts \cup {NoRun}]
      BY <2>0, AgeTyped DEF NoSession
    <3> QED BY <1>tick, <3>1 DEF Tick
  <2>2. /\ served' \in [Sessions -> 0 .. SessionTTL]
        /\ consumed' \in [Sessions -> 0 .. SessionTTL]
    BY <1>tick, <2>0, AgeTyped DEF Tick
  <2>3. /\ token' \in [Sessions -> 0 .. SessionTTL]
        /\ left' \in [Sessions -> 0 .. SessionTTL]
        /\ respCode' \in [Posts -> 0 .. RespCodeTTL]
    BY <1>tick, <2>0, AgeTyped DEF Tick
  <2> QED
    BY <1>tick, <2>1, <2>2, <2>3 DEF TypeInv, TypeOK, Tick, meta, locals, results, deletes
<1>stutter. CASE UNCHANGED vars
  BY <1>stutter DEF TypeInv, TypeOK, vars, keys, index, meta, creator, locals, results, deletes
<1> QED
  BY <1>create, <1>delete, <1>post, <1>get, <1>tick, <1>stutter DEF Next

\* Every variable keeps its type, whatever fails: in particular no key is ever
\* written without expiry (its ticks are a natural number, never NoExpiry).
THEOREM TypeCorrect == Spec => []TypeOK
<1>1. TypeInv => TypeOK
  BY DEF TypeInv
<1> QED BY TypeInit, TypeStep, <1>1, PTL DEF Spec
=============================================================================
