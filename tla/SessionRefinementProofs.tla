------------------------ MODULE SessionRefinementProofs ------------------------
(***************************************************************************)
(* SessionLifecycle implements ResponseCodes, for any sets of sessions and *)
(* requests, any TTLs and any calls that fail.  Each kind of step maps to  *)
(* a step of ResponseCodes or to a stutter, given the invariant of         *)
(* SessionLifecycleSafety.                                                 *)
(***************************************************************************)
EXTENDS SessionRefinement, SessionLifecycleSafety

\* A request at work on a session that a result is promised of finds it unexpired.
LEMMA PromisedUnexpired ==
  ASSUME IndInv, NEW p \in Posts, ppc[p] # "resolve", Promised(SessionOf[p])
  PROVE  left[SessionOf[p]] > 0 /\ SameDevice(p) /\ SessionOf[p] \notin opDeleted
<1>1. left[SessionOf[p]] \in Nat /\ SessionOf[p] \in Sessions
  BY RequestsTyped, TTLsPositive DEF IndInv, TypeInv, TypeOK
<1>2. cpc[SessionOf[p]] = "created"
  BY DEF IndInv, MarkersInv
<1> QED BY <1>1, <1>2 DEF Promised, Ended, SameDevice

\* Verifying concludes a run, alone on its session.
LEMMA VerifyRefines ==
  ASSUME IndInv, IndInv', NEW q \in Posts, Post(q) \/ PostCrash(q),
         ppc[q] = "verify", ppc'[q] = "deliver"
  PROVE  [Codes!Next]_(Codes!vars)
<1> DEFINE s == SessionOf[q]
<1>0. /\ SessionOf \in [Posts \cup Gets -> Sessions] /\ s \in Sessions
      /\ payload \in [Sessions -> {"none", "verified", "failed"}]
      /\ outcome \in [Posts -> {"none", "verified", "failed"}]
  BY RequestsTyped DEF IndInv, TypeInv, TypeOK
<1>1. /\ outcome' = [outcome EXCEPT ![q] = "verified"] /\ left[s] > 0 /\ outcome[q] = "none"
      /\ UNCHANGED <<payload, codes, flow, opDeleted, cpc, left>>
  BY <1>0, PostMoves, PostResults, PostFrame DEF Moves, IndInv, OutcomeInv, OutcomeOf
<1>2. UNCHANGED <<Issued, Result>>
  BY <1>1 DEF Issued, Result, Promised, Ended
<1>3. CASE SameDevice(q) /\ s \notin opDeleted
  <2>1. Concluded' = Concluded \cup {q}
    BY <1>0, <1>1, <1>3 DEF Concluded, Verified, SameDevice
  <2>2. ASSUME NEW p \in Posts, Verified(p), SessionOf[p] = s PROVE FALSE
    <3>1. p # q /\ Verified(p)' /\ Verified(q)'
      BY <1>0, <1>1, <1>3, <2>2 DEF Verified, SameDevice
    <3> QED BY <2>2, <3>1 DEF IndInv, VerifiedInv
  <2>3. Result[s] # "over"
    BY <1>0, <1>1, <1>3 DEF Result, Promised, Ended, SameDevice
  <2>4. Codes!Conclude(q)
    BY <1>2, <2>1, <2>2, <2>3 DEF Codes!Conclude, Codes!Of, Concluded
  <2> QED BY <2>4 DEF Codes!Next
<1>4. CASE ~(SameDevice(q) /\ s \notin opDeleted)
  <2>1. UNCHANGED Concluded
    BY <1>0, <1>1, <1>4 DEF Concluded, Verified, SameDevice
  <2> QED BY <1>2, <2>1 DEF Codes!vars
<1> QED BY <1>3, <1>4

\* Finalize publishes the result, retracts the run, or does both when the reply
\* of the sink is lost.
LEMMA FinalizeRefines ==
  ASSUME IndInv, NEW q \in Posts, Post(q) \/ PostCrash(q), ppc[q] \in {"deliver", "dispose"}
  PROVE  [Codes!Next]_(Codes!vars)
<1> DEFINE s == SessionOf[q]
<1>0. /\ SessionOf \in [Posts \cup Gets -> Sessions] /\ s \in Sessions
      /\ payload \in [Sessions -> {"none", "verified", "failed"}]
      /\ outcome \in [Posts -> {"none", "verified", "failed"}]
  BY RequestsTyped DEF IndInv, TypeInv, TypeOK
<1>1. /\ outcome' = outcome \/ outcome' = [outcome EXCEPT ![q] = "failed"]
      /\ payload' = payload \/ payload' = [payload EXCEPT ![s] = "verified"]
      /\ UNCHANGED <<codes, flow, opDeleted, cpc, left>>
      /\ outcome[q] = "verified" /\ q \notin codes
  BY <1>0, PostMoves, PostResults, PostFrame
     DEF Moves, IndInv, OutcomeInv, OutcomeOf, PostEnd
<1>2. /\ UNCHANGED Issued /\ q \notin Issued
      /\ Concluded' \in {Concluded, Concluded \ {q}}
  BY <1>0, <1>1 DEF Issued, Concluded, Verified, SameDevice
<1>3. Result' = Result \/ (Promised(s) /\ Result' = [Result EXCEPT ![s] = "verified"])
  <2>1. \A r \in Sessions : Promised(r)' <=> Promised(r)
    BY <1>1 DEF Promised, Ended
  <2>2. CASE payload' = payload
    BY <2>1, <2>2 DEF Result
  <2>3. CASE payload' = [payload EXCEPT ![s] = "verified"] /\ Promised(s)
    BY <1>0, <2>1, <2>3 DEF Result
  <2>4. CASE payload' = [payload EXCEPT ![s] = "verified"] /\ ~Promised(s)
    BY <1>0, <2>1, <2>4 DEF Result
  <2> QED BY <1>1, <2>2, <2>3, <2>4
<1>4. CASE Verified(q)
  <2>1. q \in Concluded \ Issued
    BY <1>2, <1>4 DEF Concluded
  <2>2. CASE Result' = Result
    BY <1>2, <2>1, <2>2 DEF Codes!Next, Codes!Retract, Codes!vars
  <2>3. CASE Promised(s) /\ Result' = [Result EXCEPT ![s] = "verified"]
    <3>1. Result[s] # "over"
      BY <1>0, <2>3 DEF Result
    <3>2. Codes!Publish(q)
      BY <1>2, <2>1, <2>3, <3>1 DEF Codes!Publish
    <3> QED BY <3>2 DEF Codes!Next
  <2> QED BY <1>3, <2>2, <2>3
<1>5. CASE ~Verified(q)
  <2>1. ~Promised(s) /\ UNCHANGED Concluded
    BY <1>0, <1>1, <1>5 DEF Promised, Verified, Concluded, SameDevice
  <2> QED BY <1>2, <1>3, <2>1 DEF Codes!vars
<1> QED BY <1>4, <1>5

\* A failed run's delivery comes before any code of its session.
LEMMA FailureRefines ==
  ASSUME IndInv, NEW q \in Posts, Post(q) \/ PostCrash(q), ppc[q] = "deliverFailure"
  PROVE  [Codes!Next]_(Codes!vars)
<1> DEFINE s == SessionOf[q]
<1>0. /\ SessionOf \in [Posts \cup Gets -> Sessions] /\ s \in Sessions
      /\ payload \in [Sessions -> {"none", "verified", "failed"}]
      /\ codes \subseteq Posts /\ ppc[q] # "resolve" /\ ppc[q] \in InRun
  BY RequestsTyped DEF IndInv, TypeInv, TypeOK, InRun
<1>1. /\ payload' = payload \/ payload' = [payload EXCEPT ![s] = "failed"]
      /\ UNCHANGED <<outcome, codes, flow, opDeleted, cpc, left>>
  BY PostMoves, PostResults, PostFrame DEF Moves, IndInv
<1>2. UNCHANGED <<Concluded, Issued>>
  BY <1>1 DEF Issued, Concluded, Verified, SameDevice
<1>3. Result' = Result \/ (Promised(s) /\ Result' = [Result EXCEPT ![s] = "failed"])
  <2>1. \A r \in Sessions : Promised(r)' <=> Promised(r)
    BY <1>1 DEF Promised, Ended
  <2>2. CASE payload' = payload
    BY <2>1, <2>2 DEF Result
  <2>3. CASE payload' = [payload EXCEPT ![s] = "failed"] /\ Promised(s)
    BY <1>0, <2>1, <2>3 DEF Result
  <2>4. CASE payload' = [payload EXCEPT ![s] = "failed"] /\ ~Promised(s)
    BY <1>0, <2>1, <2>4 DEF Result
  <2> QED BY <1>1, <2>2, <2>3, <2>4
<1>4. CASE Result' = Result
  BY <1>2, <1>4 DEF Codes!vars
<1>5. CASE Promised(s) /\ Result' = [Result EXCEPT ![s] = "failed"]
  <2>1. left[s] > 0 /\ SameDevice(q) /\ s \notin opDeleted
    BY <1>0, <1>5, PromisedUnexpired
  <2>2. ASSUME NEW p \in Issued, SessionOf[p] = s PROVE FALSE
    <3>1. p \in Posts /\ OutcomeOf(p) /\ p \in codes
      BY <1>0, <2>2 DEF Issued, IndInv, OutcomeInv
    <3>2. outcome[p] = "verified" /\ SameDevice(p) /\ ppc[p] # "deliverFailure"
      BY <3>1 DEF OutcomeOf, PostEnd
    <3>3. p = q
      BY <1>0, <2>1, <2>2, <3>1, <3>2, Alone DEF IndInv
    <3> QED BY <3>2, <3>3
  <2>3. Result[s] # "over"
    BY <1>0, <1>5 DEF Result
  <2>4. Codes!Fail(s)
    BY <1>2, <1>5, <2>2, <2>3 DEF Codes!Fail, Codes!Of
  <2> QED BY <1>0, <2>4 DEF Codes!Next
<1> QED BY <1>3, <1>4, <1>5

\* SaveResponseCode issues a code for a result that stands.
LEMMA CodeRefines ==
  ASSUME IndInv, NEW q \in Posts, Post(q) \/ PostCrash(q), ppc[q] = "code"
  PROVE  [Codes!Next]_(Codes!vars)
<1> DEFINE s == SessionOf[q]
<1>0. s \in Sessions /\ ppc[q] # "resolve"
  BY RequestsTyped DEF IndInv, TypeInv, TypeOK
<1>1. /\ codes' = codes \/ codes' = codes \cup {q}
      /\ UNCHANGED <<payload, outcome, flow, opDeleted, cpc, left>>
  BY PostMoves, PostResults, PostFrame DEF Moves, IndInv
<1>2. UNCHANGED <<Concluded, Result>>
  BY <1>1 DEF Result, Promised, Ended, Concluded, Verified, SameDevice
<1>3. SameDevice(q) /\ outcome[q] = "verified" /\ q \notin codes
  BY DEF IndInv, OutcomeInv, OutcomeOf, PostEnd
<1>4. CASE codes' = codes \/ s \in opDeleted
  BY <1>1, <1>2, <1>4 DEF Issued, Codes!vars
<1>5. CASE codes' = codes \cup {q} /\ s \notin opDeleted
  <2>1. q \in Concluded \ Issued /\ Issued' = Issued \cup {q} /\ Verified(q)
    BY <1>1, <1>3, <1>5 DEF Concluded, Issued, Verified
  <2>2. Result[s] \in {"verified", "over"}
    <3>1. CASE Promised(s)
      <4>1. left[s] > 0
        BY <1>0, <3>1, PromisedUnexpired
      <4>2. payload[s] = "verified"
        BY <2>1, <4>1 DEF IndInv, VerifiedInv, VerifiedData
      <4> QED BY <1>0, <3>1, <4>2 DEF Result
    <3>2. CASE ~Promised(s)
      BY <1>0, <3>2 DEF Result
    <3> QED BY <3>1, <3>2
  <2>3. Codes!Issue(q)
    BY <1>2, <2>1, <2>2 DEF Codes!Issue
  <2> QED BY <2>3 DEF Codes!Next
<1> QED BY <1>1, <1>4, <1>5

\* All other steps of a response request stutter.
LEMMA OtherPostStutters ==
  ASSUME IndInv, NEW q \in Posts, Post(q) \/ PostCrash(q),
         ppc[q] \notin {"deliver", "dispose", "deliverFailure", "code"},
         ~(ppc[q] = "verify" /\ ppc'[q] = "deliver")
  PROVE  UNCHANGED Codes!vars
<1>1. UNCHANGED <<payload, codes, flow, opDeleted, cpc, left>>
  BY PostMoves, PostResults, PostFrame DEF IndInv
<1>2. UNCHANGED Concluded
  <2>0. outcome \in [Posts -> {"none", "verified", "failed"}]
    BY DEF IndInv, TypeInv, TypeOK
  <2>1. \/ UNCHANGED outcome
        \/ ppc[q] = "verify" /\ outcome' = [outcome EXCEPT ![q] = "failed"]
    BY PostMoves DEF Moves, IndInv
  <2>2. ppc[q] = "verify" => outcome[q] = "none"
    BY DEF IndInv, OutcomeInv, OutcomeOf
  <2> QED BY <1>1, <2>0, <2>1, <2>2 DEF Concluded, Verified, SameDevice
<1> QED BY <1>1, <1>2 DEF Issued, Result, Promised, Ended, Codes!vars

\* An operator's DELETE ends what is promised.
LEMMA DeleteRefines ==
  ASSUME IndInv, NEW s \in Sessions, InternalDelete(s)
  PROVE  [Codes!Next]_(Codes!vars)
<1>0. codes \subseteq Posts
  BY DEF IndInv, TypeInv, TypeOK
<1>1. /\ UNCHANGED <<payload, outcome, codes, flow, cpc, left>> /\ opDeleted' = opDeleted \cup {s}
  BY DEF InternalDelete, creator, locals, results
<1>2. Concluded' = Concluded \ {p \in Posts : SessionOf[p] = s}
  BY <1>1 DEF Concluded, Verified, SameDevice
<1>3. Issued' = Issued \ {p \in Posts : SessionOf[p] = s}
  BY <1>0, <1>1 DEF Issued
<1>4. Result' = [Result EXCEPT ![s] = "over"]
  BY <1>1 DEF Result, Promised, Ended
<1>5. Codes!Delete(s)
  BY <1>2, <1>3, <1>4 DEF Codes!Delete, Codes!Of
<1> QED BY <1>5 DEF Codes!Next

\* Creating a session promises nothing new of it.
LEMMA CreateStutters ==
  ASSUME IndInv, NEW s \in Sessions, Create(s)
  PROVE  UNCHANGED Codes!vars
<1>0. cpc \in [Sessions -> {"new", "save", "route", "record", "created", "failed"}]
      /\ left \in [Sessions -> 0 .. SessionTTL] /\ SessionTTL \in Nat \ {0}
  BY TTLsPositive DEF IndInv, TypeInv, TypeOK
<1>1. UNCHANGED <<payload, outcome, codes, flow, opDeleted>>
  BY CreateEffect DEF IndInv, locals, results, deletes
<1>2. /\ \A r \in Sessions \ {s} : cpc'[r] = cpc[r] /\ left'[r] = left[r]
      /\ cpc'[s] # "new"
      /\ left'[s] = left[s] \/ (cpc[s] = "new" /\ left'[s] = SessionTTL)
      /\ cpc[s] = "new" => left'[s] = SessionTTL
  BY <1>0 DEF Create, CreateMint, CreateSave, CreateRoute, CreateRecord, Call, CreatorTo
<1>3. ASSUME NEW r \in Sessions PROVE Promised(r)' <=> Promised(r)
  BY <1>0, <1>1, <1>2 DEF Promised, Ended
<1>4. UNCHANGED Result
  BY <1>1, <1>3 DEF Result
<1> QED BY <1>1, <1>4 DEF Issued, Concluded, Verified, SameDevice, Codes!vars

\* Time may end sessions, many at once.
LEMMA TickRefines ==
  ASSUME IndInv, Tick
  PROVE  [Codes!Next]_(Codes!vars)
<1> DEFINE S == {s \in Sessions : ~Promised(s)'}
<1>0. left \in [Sessions -> 0 .. SessionTTL] /\ SessionTTL \in Nat
  BY TTLsPositive DEF IndInv, TypeInv, TypeOK
<1>1. /\ UNCHANGED <<payload, outcome, codes, flow, opDeleted, cpc>>
      /\ \A s \in Sessions : left'[s] = IF left[s] > 0 THEN left[s] - 1 ELSE 0
  BY TickEffect DEF IndInv, locals, results, deletes
<1>2. ASSUME NEW s \in Sessions, Promised(s)' PROVE Promised(s)
  BY <1>0, <1>1, <1>2 DEF Promised, Ended
<1>3. Result' = [s \in Sessions |-> IF s \in S THEN "over" ELSE Result[s]]
  BY <1>1, <1>2 DEF Result
<1>4. UNCHANGED <<Concluded, Issued>>
  BY <1>1 DEF Issued, Concluded, Verified, SameDevice
<1>5. Codes!Expire(S)
  BY <1>3, <1>4 DEF Codes!Expire
<1>6. S \in SUBSET Sessions
  OBVIOUS
<1> QED BY <1>5, <1>6 DEF Codes!Next

\* Init maps to an initial state.
LEMMA InitRefines == Init => Codes!Init
<1> SUFFICES ASSUME Init PROVE Codes!Init
  OBVIOUS
<1>1. Concluded = {} /\ Issued = {}
  BY DEF Init, Concluded, Verified, Issued
<1>2. Result \in [Sessions -> {"none", "over"}]
  BY DEF Init, Result
<1> QED BY <1>1, <1>2 DEF Codes!Init

\* ConsumeOnce, Process and Finalize together: a same-device session behaves as
\* ResponseCodes says, whatever interleaves and whichever calls fail.
THEOREM ResponseCodesImplemented == Spec => ImplementsResponseCodes
<1>1. IndInv /\ IndInv' /\ [Next]_vars => [Codes!Next]_(Codes!vars)
  <2> SUFFICES ASSUME IndInv, IndInv', [Next]_vars PROVE [Codes!Next]_(Codes!vars)
    OBVIOUS
  <2>1. ASSUME NEW q \in Posts, Post(q) \/ PostCrash(q) PROVE [Codes!Next]_(Codes!vars)
    BY <2>1, VerifyRefines, FinalizeRefines, FailureRefines, CodeRefines, OtherPostStutters
  <2>2. ASSUME NEW g \in Gets, Get(g) \/ GetCrash(g) PROVE UNCHANGED Codes!vars
    BY <2>2, GetEffect
       DEF IndInv, creator, locals, deletes, Concluded, Verified, SameDevice, Issued, Result,
           Promised, Ended, Codes!vars
  <2>3. ASSUME UNCHANGED vars PROVE UNCHANGED Codes!vars
    BY <2>3 DEF vars, creator, locals, results, deletes, Concluded, Verified, SameDevice,
       Issued, Result, Promised, Ended, Codes!vars
  <2> QED BY <2>1, <2>2, <2>3, DeleteRefines, CreateStutters, TickRefines DEF Next
<1> QED BY Invariance, InitRefines, <1>1, PTL DEF Spec, ImplementsResponseCodes, Codes!Spec
================================================================================
