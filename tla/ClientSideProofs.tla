--------------------------- MODULE ClientSideProofs ----------------------------
(***************************************************************************)
(* Proofs about ClientSide, for any request bodies, any lifetimes and any  *)
(* width of a duration, any number of sessions and of faults.              *)
(*                                                                         *)
(* Creation and result delivery share the metadata row only, so IndInv is  *)
(* the conjunction of an invariant of each, and a step of one keeps that   *)
(* of the other.  First what the operators of SessionCreation return, then *)
(* the handler, then the run, and what the client is told of it.           *)
(***************************************************************************)
EXTENDS ClientSide, TLAPS

\* A body that passes buildCreateInput fails none of its checks.
LEMMA AcceptedMeans ==
    ASSUME NEW b \in RequestBodies, Accepted(b)
    PROVE  /\ b.flow # "unknown" /\ b.query = "valid"
           /\ ~OriginsAbsent(b) /\ ~OriginsRefused(b)
           /\ ~RedirectAbsent(b) /\ ~RedirectRefused(b)
           /\ ~RegistrationRefused(b) /\ b.policy # "malformed" /\ b.ttl >= 0
<1>1. \A i \in DOMAIN Checks(b) : ~Checks(b)[i].fails
  BY DEF Accepted, Failing
<1>2. DOMAIN Checks(b) = 1 .. 12
  BY DEF Checks
<1>3. /\ ~Checks(b)[3].fails /\ ~Checks(b)[4].fails /\ ~Checks(b)[5].fails
      /\ ~Checks(b)[6].fails /\ ~Checks(b)[7].fails /\ ~Checks(b)[8].fails
      /\ ~Checks(b)[9].fails /\ ~Checks(b)[10].fails /\ ~Checks(b)[11].fails
      /\ ~Checks(b)[12].fails
  BY <1>1, <1>2
<1>4. /\ b.flow # "unknown" /\ b.query # "absent" /\ b.query \notin {"unparsable", "invalid"}
      /\ ~OriginsAbsent(b) /\ ~OriginsRefused(b)
      /\ ~RedirectAbsent(b) /\ ~RedirectRefused(b)
      /\ ~RegistrationRefused(b) /\ b.policy # "malformed" /\ ~(b.ttl < 0)
  BY <1>3 DEF Checks
<1> QED BY <1>4 DEF RequestBodies

\* What buildCreateInput lets through, the engine takes: with a real registration.
LEMMA EngineTakes ==
    ASSUME NEW b \in RequestBodies, Accepted(b)
    PROVE  /\ EngineAccepts(SpecOf(b)) /\ SpecOf(b) \in Specs
           /\ SpecOf(b).registration = "complete" /\ SpecOf(b).flow = b.flow
           /\ b.flow = "dcapi" => SpecOf(b).origins = "good"
<1>1. /\ b.flow \in {"same_device", "cross_device", "dcapi"} /\ b.query = "valid"
      /\ b.registration = "complete"
      /\ IF b.flow = "dcapi" THEN b.origins = "good" ELSE b.origins = "absent"
      /\ b.flow = "same_device" => b.redirect = "good"
  BY AcceptedMeans DEF RequestBodies, OriginsAbsent, OriginsRefused, RedirectAbsent,
       RedirectRefused, RegistrationRefused
<1> QED BY <1>1 DEF SpecOf, EngineAccepts, Specs

\* A refusal has the status of one of the checks.
LEMMA RefusalStatus ==
    ASSUME NEW b, ~Accepted(b)
    PROVE  Refusal(b) \in {400, 422}
<1>1. DOMAIN Checks(b) = 1 .. 12 /\ \A i \in 1 .. 12 : Checks(b)[i].status \in {400, 422}
  BY DEF Checks
<1>2. Failing(b) \subseteq 1 .. 12 /\ Failing(b) # {} /\ Failing(b) \subseteq Nat
  BY <1>1 DEF Failing, Accepted
<1>4. \E i \in Failing(b) : \A j \in Failing(b) : i <= j
  <2> DEFINE F == Failing(b)
  <2>1. \A i \in F : i = 1 \/ i = 2 \/ i = 3 \/ i = 4 \/ i = 5 \/ i = 6
                     \/ i = 7 \/ i = 8 \/ i = 9 \/ i = 10 \/ i = 11 \/ i = 12
    BY <1>2
  <2> HIDE DEF F
  <2>2. F # {} => \E i \in F : \A j \in F : i <= j
    BY <2>1, SMTT(30)
  <2> QED BY <1>2, <2>2 DEF F
<1>5. Min(Failing(b)) \in Failing(b)
  BY <1>4 DEF Min
<1> QED BY <1>1, <1>2, <1>5 DEF Refusal

\* Durations wrap within their range, and what is within it they keep.
LEMMA WrapRange ==
    ASSUME NEW n \in Int
    PROVE  /\ Wrap(n) \in Int
           /\ 0 <= n /\ n < HalfRange => Wrap(n) = n
<1>1. HalfRange \in Nat \ {0} BY CreationTyped
<1>2. 2 * HalfRange \in Nat \ {0} BY <1>1
<1>3. (n + HalfRange) % (2 * HalfRange) \in Int BY <1>1, <1>2
<1>4. ASSUME 0 <= n, n < HalfRange
      PROVE  (n + HalfRange) % (2 * HalfRange) = n + HalfRange
  BY <1>1, <1>4
<1> QED BY <1>1, <1>3, <1>4 DEF Wrap

\* Create grants a lifetime of at most the default, and what was asked within it.
LEMMA GrantedRange ==
    ASSUME NEW b \in RequestBodies, b.ttl >= 0
    PROVE  /\ GrantedTTL(b) \in 1 .. DefaultTTL
           /\ b.ttl * Second < HalfRange =>
                GrantedTTL(b) = IF b.ttl * Second \in 1 .. DefaultTTL THEN b.ttl * Second
                                                                     ELSE DefaultTTL
<1>1. DefaultTTL \in Nat \ {0} /\ Second \in Nat \ {0} /\ b.ttl \in Nat
  BY CreationTyped DEF RequestBodies
<1> DEFINE asked == b.ttl * Second
<1>2. asked \in Nat BY <1>1
<1>3. AskedTTL(b) \in Int /\ (asked < HalfRange => AskedTTL(b) = asked)
  BY <1>2, WrapRange, CreationTyped DEF AskedTTL
<1> HIDE DEF asked
<1>4. /\ GrantedTTL(b) \in 1 .. DefaultTTL
      /\ asked < HalfRange =>
           GrantedTTL(b) = IF asked \in 1 .. DefaultTTL THEN asked ELSE DefaultTTL
  BY <1>1, <1>2, <1>3 DEF GrantedTTL
<1> QED BY <1>4 DEF asked

-----------------------------------------------------------------------------
(***************************************************************************)
(* The handler.                                                            *)
(***************************************************************************)
\* What a step of one request leaves of the others.
LEMMA OthersKept ==
    ASSUME CreationInv, NEW r \in Requests, Creation(r), NEW q \in Requests, q # r
    PROVE  /\ phase'[q] = phase[q] /\ body'[q] = body[q] /\ minted'[q] = minted[q]
           /\ member'[q] = member[q] /\ row'[q] = row[q] /\ answer'[q] = answer[q]
           /\ mode' = mode
BY DEF CreationInv, CreationTypeOK, Creation, Turned, Validate, CreateFails, Mint, Unsign,
       Store, Respond, Answer, CreationTo

\* What the handler's own request has after the step, each step at a time.
Kept(r) ==
    /\ phase'[r] \in {"arrives", "mint", "unsign", "store", "respond", "answered"}
    /\ body'[r] \in Bodies \cup {Nothing} /\ minted'[r] \in Specs \cup {Nothing}
    /\ row'[r] \in Rows \cup {Nothing} /\ member'[r] \in {"none", "signed", "unsigned"}
    /\ answer'[r] \in {0, 201, 400, 401, 422, 500}
    /\ answer'[r] = 500 => failures' # 0
    /\ minted'[r] # Nothing => minted'[r].registration = "complete"
    /\ member'[r] = "unsigned" =>
        /\ minted'[r].flow = "dcapi" /\ minted'[r].origins = "good" /\ mode # "signed"
        /\ mode = "both" /\ row'[r] # Nothing => row'[r].policy = "unsigned"
    /\ CreatedInv(r)'

\* The invariant at one request.
LEMMA AtRequest ==
    ASSUME CreationInv, NEW r \in Requests
    PROVE  /\ phase[r] \in {"arrives", "mint", "unsign", "store", "respond", "answered"}
           /\ body[r] \in Bodies \cup {Nothing} /\ minted[r] \in Specs \cup {Nothing}
           /\ row[r] \in Rows \cup {Nothing} /\ member[r] \in {"none", "signed", "unsigned"}
           /\ answer[r] \in {0, 201, 400, 401, 422, 500}
           /\ answer[r] = 500 => failures # 0
           /\ minted[r] # Nothing => minted[r].registration = "complete"
           /\ member[r] = "unsigned" =>
                /\ minted[r].flow = "dcapi" /\ minted[r].origins = "good" /\ mode # "signed"
                /\ mode = "both" /\ row[r] # Nothing => row[r].policy = "unsigned"
           /\ CreatedInv(r)
           /\ failures \in 0 .. MaxFailures
BY DEF CreationInv, CreationTypeOK, CallersErrorsClassified, FixtureUnreachable,
       UnsignedIsPermitted

\* A step that answers a request leaves it in order.
LEMMA AnsweredKept ==
    ASSUME CreationInv, NEW r \in Requests, NEW code \in {400, 401, 422, 500},
           Answer(r, code), UNCHANGED <<mode, minted, member, row>>,
           failures' = failures \/ failures' = failures + 1, code = 500 => failures' # 0
    PROVE  Kept(r)
<1>1. /\ phase'[r] = "answered" /\ answer'[r] = code /\ body'[r] = Nothing
  BY DEF CreationInv, CreationTypeOK, Answer, CreationTo
<1> QED BY <1>1, AtRequest DEF Kept, CreatedInv

LEMMA TurnedKept ==
    ASSUME CreationInv, NEW r \in Requests, Turned(r)
    PROVE  Kept(r)
BY AnsweredKept DEF Turned

LEMMA ValidateKept ==
    ASSUME CreationInv, NEW r \in Requests, Validate(r)
    PROVE  Kept(r)
<1>1. PICK b \in Bodies :
        \/ ~Accepted(b) /\ Answer(r, Refusal(b))
        \/ Accepted(b) /\ CreationTo(r, "mint") /\ body' = [body EXCEPT ![r] = b]
             /\ UNCHANGED answer
  BY DEF Validate
<1>2. UNCHANGED <<mode, minted, member, row, failures>> /\ phase[r] = "arrives"
  BY DEF Validate
<1>3. CASE ~Accepted(b) /\ Answer(r, Refusal(b))
  <2>1. Refusal(b) \in {400, 422} BY <1>3, RefusalStatus
  <2> QED BY <1>2, <1>3, <2>1, AnsweredKept
<1>4. CASE Accepted(b) /\ CreationTo(r, "mint") /\ body' = [body EXCEPT ![r] = b]
             /\ UNCHANGED answer
  <2>1. phase'[r] = "mint" /\ body'[r] = b /\ answer'[r] = answer[r]
    BY <1>4 DEF CreationInv, CreationTypeOK, CreationTo
  <2> QED BY <1>2, <1>4, <2>1, AtRequest DEF Kept, CreatedInv
<1> QED BY <1>1, <1>3, <1>4

LEMMA CreateFailsKept ==
    ASSUME CreationInv, NEW r \in Requests, CreateFails(r)
    PROVE  Kept(r)
<1>1. failures' # 0 BY AtRequest, CreationTyped DEF CreateFails
<1> QED BY <1>1, AnsweredKept DEF CreateFails

LEMMA MintKept ==
    ASSUME CreationInv, NEW r \in Requests, Mint(r)
    PROVE  Kept(r)
<1> DEFINE b == body[r]
<1>1. b \in RequestBodies /\ Accepted(b) /\ phase[r] = "mint"
  BY AtRequest, CreationTyped DEF Mint, CreatedInv
<1>2. EngineAccepts(SpecOf(b)) /\ SpecOf(b) \in Specs /\ SpecOf(b).registration = "complete"
  BY <1>1, EngineTakes
<1>3. /\ phase'[r] = "unsign" /\ minted'[r] = SpecOf(b)
      /\ member'[r] \in {"signed", "none"} /\ body'[r] = body[r] /\ answer'[r] = answer[r]
      /\ UNCHANGED <<mode, row, failures>>
  BY <1>2 DEF CreationInv, CreationTypeOK, CreationTo, Mint
<1> QED BY <1>1, <1>2, <1>3, AtRequest DEF Kept, CreatedInv

LEMMA UnsignKept ==
    ASSUME CreationInv, NEW r \in Requests, Unsign(r)
    PROVE  Kept(r)
<1> DEFINE b == body[r]
<1>1. b \in RequestBodies /\ Accepted(b) /\ phase[r] = "unsign" /\ minted[r] = SpecOf(b)
      /\ b \in Bodies
  BY AtRequest, CreationTyped DEF Unsign, CreatedInv
<1>2. /\ phase'[r] = "store" /\ body'[r] = b /\ minted'[r] = minted[r]
      /\ row'[r] = row[r] /\ answer'[r] = answer[r] /\ UNCHANGED <<mode, failures>>
  BY DEF CreationInv, CreationTypeOK, CreationTo, Unsign
<1>3. \/ b.flow = "dcapi" /\ ~SignedDCAPIRequired(b) /\ member'[r] = "unsigned"
      \/ member'[r] = member[r]
  BY DEF CreationInv, CreationTypeOK, Unsign
<1>4. CASE member'[r] = member[r]
  BY <1>1, <1>2, <1>4, AtRequest DEF Kept, CreatedInv
<1>5. CASE b.flow = "dcapi" /\ ~SignedDCAPIRequired(b) /\ member'[r] = "unsigned"
  <2>1. minted[r].flow = "dcapi" /\ minted[r].origins = "good"
    BY <1>1, <1>5, EngineTakes
  <2>2. mode # "signed" /\ (mode = "both" => b.policy = "unsigned")
    BY <1>5 DEF SignedDCAPIRequired
  <2> QED BY <1>1, <1>2, <1>5, <2>1, <2>2, AtRequest DEF Kept, CreatedInv
<1> QED BY <1>3, <1>4, <1>5

LEMMA StoreKept ==
    ASSUME CreationInv, NEW r \in Requests, Store(r)
    PROVE  Kept(r)
<1> DEFINE b == body[r]
<1>1. b \in RequestBodies /\ Accepted(b) /\ phase[r] = "store" /\ b \in Bodies
  BY AtRequest, CreationTyped DEF Store, CreatedInv
<1>2. /\ phase'[r] = "respond" /\ body'[r] = b /\ minted'[r] = minted[r]
      /\ member'[r] = member[r] /\ answer'[r] = answer[r] /\ UNCHANGED <<mode, failures>>
      /\ row'[r] = [policy |-> b.policy, webhook |-> b.webhook, ttl |-> GrantedTTL(b)]
  BY DEF CreationInv, CreationTypeOK, CreationTo, Store
<1>3. GrantedTTL(b) \in Int /\ b.policy \in {"absent", "signed", "unsigned"}
      /\ b.webhook \in BOOLEAN
  BY <1>1, AcceptedMeans, GrantedRange, CreationTyped DEF RequestBodies
<1>4. row'[r] \in Rows /\ row'[r].ttl = GrantedTTL(b) /\ row'[r].policy = b.policy
  BY <1>2, <1>3 DEF Rows
<1> QED BY <1>1, <1>2, <1>4, AtRequest DEF Kept, CreatedInv

LEMMA RespondKept ==
    ASSUME CreationInv, NEW r \in Requests, Respond(r)
    PROVE  Kept(r)
<1>1. /\ phase'[r] = "answered" /\ answer'[r] = 201 /\ body'[r] = Nothing
      /\ phase[r] = "respond" /\ UNCHANGED <<mode, minted, member, row, failures>>
  BY DEF CreationInv, CreationTypeOK, Answer, CreationTo, Respond
<1> QED BY <1>1, AtRequest DEF Kept, CreatedInv

\* Every step keeps the invariant: at its request by the above, at the others because
\* it leaves them alone.
LEMMA CreationKeeps ==
    ASSUME CreationInv, NEW r \in Requests, Creation(r)
    PROVE  CreationInv'
<1>1. Kept(r)
  BY TurnedKept, ValidateKept, CreateFailsKept, MintKept, UnsignKept, StoreKept, RespondKept
     DEF Creation
<1>2. /\ mode' = mode /\ failures' \in 0 .. MaxFailures
      /\ failures # 0 => failures' # 0
  BY CreationTyped DEF CreationInv, CreationTypeOK, Creation, Turned, Validate, CreateFails,
     Mint, Unsign, Store, Respond
<1>3. /\ phase' = [q \in Requests |-> phase'[q]] /\ body' = [q \in Requests |-> body'[q]]
      /\ minted' = [q \in Requests |-> minted'[q]] /\ row' = [q \in Requests |-> row'[q]]
      /\ member' = [q \in Requests |-> member'[q]] /\ answer' = [q \in Requests |-> answer'[q]]
  BY DEF CreationInv, CreationTypeOK, Creation, Turned, Validate, CreateFails, Mint, Unsign,
     Store, Respond, Answer, CreationTo
<1>4. ASSUME NEW q \in Requests, q # r PROVE Kept(q)
  <2>1. /\ phase'[q] = phase[q] /\ body'[q] = body[q] /\ minted'[q] = minted[q]
        /\ member'[q] = member[q] /\ row'[q] = row[q] /\ answer'[q] = answer[q]
    BY <1>4, OthersKept
  <2> QED BY <1>2, <2>1, AtRequest DEF Kept, CreatedInv
<1>5. \A q \in Requests : Kept(q) BY <1>1, <1>4
<1>6. CreationTypeOK'
  BY <1>2, <1>3, <1>5 DEF CreationTypeOK, Kept, CreationInv
<1>7. (CallersErrorsClassified /\ FixtureUnreachable /\ UnsignedIsPermitted)'
  BY <1>2, <1>5 DEF Kept, CallersErrorsClassified, FixtureUnreachable, UnsignedIsPermitted
<1> QED BY <1>5, <1>6, <1>7 DEF CreationInv, Kept

-----------------------------------------------------------------------------
(***************************************************************************)
(* The run.                                                                *)
(***************************************************************************)
LEMMA TTLRange == QueueTTL \in 1 .. HardCap /\ HardCap \in Nat
BY HandoffTyped DEF QueueTTL

\* The invariant at one session.
LEMMA AtSession ==
    ASSUME HandoffInv, NEW s \in Sessions
    PROVE  /\ payload[s].res \in {"none", "verified", "failed"}
           /\ payload[s].life \in 0 .. HardCap /\ payload[s].due \in 0 .. HardCap
           /\ payload[s] \in [res : {"none", "verified", "failed"},
                              life : 0 .. HardCap, due : 0 .. HardCap]
           /\ rpc[s] \in {"idle", "verify", "seal", "exec", "dispose", "report", "mark",
                          "fail", "end"}
           /\ hook[s] \in BOOLEAN /\ outcome[s] \in {"none", "verified", "failed"}
           /\ env[s] \in 0 .. HardCap /\ report[s] \in {"none", "verified", "failed"}
           /\ status[s] \in {"created", "verified", "failed"}
           /\ faults \in 0 .. MaxFaults
           /\ payload[s].due <= payload[s].life
           /\ RunInv(s) /\ ResultInv(s) /\ env[s] <= QueueTTL
BY DEF HandoffInv, HandoffTypeOK, ExpiresAtHonest

\* What the run's own session has after a step.
RunKept(s) ==
    /\ payload'[s] \in [res : {"none", "verified", "failed"},
                        life : 0 .. HardCap, due : 0 .. HardCap]
    /\ payload'[s].due <= payload'[s].life
    /\ rpc'[s] \in {"idle", "verify", "seal", "exec", "dispose", "report", "mark",
                    "fail", "end"}
    /\ hook'[s] \in BOOLEAN /\ outcome'[s] \in {"none", "verified", "failed"}
    /\ env'[s] \in 0 .. HardCap /\ report'[s] \in {"none", "verified", "failed"}
    /\ status'[s] \in {"created", "verified", "failed"}
    /\ RunInv(s)' /\ ResultInv(s)' /\ env'[s] <= QueueTTL
    /\ payload[s].res # "none" => payload'[s].res # "none" /\ hook'[s] = hook[s]

LEMMA FaultCounts ==
    ASSUME HandoffInv, Fault
    PROVE  faults' = faults + 1 /\ faults \in Nat /\ faults' \in 0 .. MaxFaults
BY HandoffTyped DEF Fault, HandoffInv, HandoffTypeOK

LEMMA VerifyKept ==
    ASSUME HandoffInv, NEW s \in Sessions, Verify(s)
    PROVE  RunKept(s)
<1>1. /\ rpc[s] = "verify"
      /\ \/ outcome'[s] = "verified" /\ rpc'[s] = "seal"
         \/ outcome'[s] = "failed" /\ rpc'[s] = "report"
      /\ UNCHANGED <<payload, hook, env, report, status, faults>>
  <2>1. PICK res \in {"verified", "failed"} :
          /\ outcome' = [outcome EXCEPT ![s] = res]
          /\ RunTo(s, IF res = "verified" THEN "seal" ELSE "report")
    BY DEF Verify
  <2> QED BY <2>1 DEF HandoffInv, HandoffTypeOK, Verify, RunTo, store, records
<1>r. RunInv(s)'
  BY <1>1, AtSession DEF RunInv, PayloadLive
<1>v. ResultInv(s)'
  BY <1>1, AtSession DEF RunInv, ResultInv
<1> QED BY <1>1, <1>r, <1>v, AtSession DEF RunKept

\* A Finalize that fails leaves a fault behind.
LEMMA FinalizeFailsKept ==
    ASSUME HandoffInv, NEW s \in Sessions, rpc[s] \in {"seal", "exec", "dispose"},
           FinalizeFails(s), Fault, UNCHANGED <<hook, report, status>>,
           payload'[s] = payload[s]
             \/ payload'[s] = [res |-> outcome[s], life |-> QueueTTL, due |-> env[s]],
           env'[s] = env[s]
    PROVE  RunKept(s)
<1>1. /\ outcome'[s] = "failed" /\ outcome[s] \in {"verified", "failed"}
      /\ rpc'[s] = IF outcome[s] = "verified" THEN "report" ELSE "fail"
  BY AtSession DEF HandoffInv, HandoffTypeOK, FinalizeFails, RunTo, RunInv
<1>2. faults' = faults + 1 /\ faults \in Nat BY FaultCounts
<1>3. CASE payload'[s] = payload[s]
  <2>r. RunInv(s)'
    BY <1>1, <1>2, <1>3, AtSession DEF RunInv, PayloadLive
  <2>v. ResultInv(s)'
    BY <1>1, <1>2, <1>3, AtSession DEF RunInv, ResultInv
  <2> QED BY <1>1, <1>2, <1>3, <2>r, <2>v, AtSession DEF RunKept
<1>4. CASE payload'[s] = [res |-> outcome[s], life |-> QueueTTL, due |-> env[s]]
  <2>1. /\ payload'[s].res = outcome[s] /\ payload'[s].life = QueueTTL
        /\ payload'[s].due = env[s] /\ payload'[s].life # 0
        /\ payload'[s] \in [res : {"none", "verified", "failed"},
                            life : 0 .. HardCap, due : 0 .. HardCap]
    BY <1>1, <1>4, AtSession, TTLRange, SMTT(30)
  <2>r. RunInv(s)'
    BY <1>1, <1>2, <2>1, AtSession, TTLRange DEF RunInv, PayloadLive
  <2>v. ResultInv(s)'
    BY <1>1, <1>2, <2>1, AtSession, TTLRange DEF RunInv, ResultInv
  <2> QED BY <1>1, <1>2, <2>1, <2>r, <2>v, AtSession, TTLRange DEF RunKept
<1> QED BY <1>3, <1>4

LEMMA SealKept ==
    ASSUME HandoffInv, NEW s \in Sessions, Seal(s)
    PROVE  RunKept(s)
<1>1. rpc[s] = "seal" /\ UNCHANGED <<payload, hook, report, status>>
  BY DEF Seal, store, records
<1>2. CASE env' = [env EXCEPT ![s] = SealedFor] /\ RunTo(s, "exec") /\ UNCHANGED <<outcome, faults>>
  <2>1. env'[s] = QueueTTL /\ rpc'[s] = "exec" /\ outcome'[s] = outcome[s] /\ faults' = faults
    BY <1>2 DEF HandoffInv, HandoffTypeOK, RunTo, SealedFor
  <2>r. RunInv(s)'
    BY <1>1, <2>1, AtSession, TTLRange DEF RunInv, PayloadLive
  <2>v. ResultInv(s)'
    BY <1>1, <2>1, AtSession, TTLRange DEF RunInv, ResultInv
  <2> QED BY <1>1, <2>1, <2>r, <2>v, AtSession, TTLRange DEF RunKept
<1>3. CASE Fault /\ FinalizeFails(s) /\ UNCHANGED env
  BY <1>1, <1>3, FinalizeFailsKept
<1> QED BY <1>2, <1>3 DEF Seal

LEMMA ExecKept ==
    ASSUME HandoffInv, NEW s \in Sessions, Exec(s)
    PROVE  RunKept(s)
<1>1. rpc[s] = "exec" /\ UNCHANGED <<hook, env, report, status>>
  BY DEF Exec, records
<1>2. Land(s) => payload'[s] = [res |-> outcome[s], life |-> QueueTTL, due |-> env[s]]
  BY DEF Land, HandoffInv, HandoffTypeOK
<1>3. CASE Land(s) /\ RunTo(s, "dispose") /\ UNCHANGED outcome /\ UNCHANGED faults
  <2>1. /\ payload'[s].res = outcome[s] /\ payload'[s].life = QueueTTL
        /\ payload'[s].due = env[s] /\ payload'[s].life # 0 /\ outcome[s] # "none"
        /\ payload'[s] \in [res : {"none", "verified", "failed"},
                            life : 0 .. HardCap, due : 0 .. HardCap]
        /\ rpc'[s] = "dispose" /\ outcome'[s] = outcome[s] /\ faults' = faults
    BY <1>1, <1>2, <1>3, AtSession, TTLRange DEF RunTo, RunInv, HandoffInv, HandoffTypeOK
  <2>r. RunInv(s)'
    BY <1>1, <2>1, AtSession, TTLRange DEF RunInv, PayloadLive
  <2>v. ResultInv(s)'
    BY <1>1, <2>1, AtSession, TTLRange DEF RunInv, ResultInv
  <2> QED BY <1>1, <2>1, <2>r, <2>v, AtSession, TTLRange DEF RunKept
<1>4. CASE Fault /\ (Land(s) \/ UNCHANGED store) /\ FinalizeFails(s)
  BY <1>1, <1>2, <1>4, FinalizeFailsKept DEF store
<1> QED BY <1>3, <1>4 DEF Exec, Attempt

LEMMA DisposeKept ==
    ASSUME HandoffInv, NEW s \in Sessions, DisposeSession(s)
    PROVE  RunKept(s)
<1>1. rpc[s] = "dispose" /\ UNCHANGED <<payload, hook, env, report, status>>
  BY DEF DisposeSession, store, records
<1>2. CASE /\ RunTo(s, IF outcome[s] = "verified" THEN "report" ELSE "fail")
           /\ UNCHANGED outcome /\ UNCHANGED faults
  <2>1. /\ rpc'[s] = IF outcome[s] = "verified" THEN "report" ELSE "fail"
        /\ outcome' = outcome /\ faults' = faults
    BY <1>2 DEF RunTo, HandoffInv, HandoffTypeOK
  <2>r. RunInv(s)'
    BY <1>1, <2>1, AtSession DEF RunInv, PayloadLive
  <2>v. ResultInv(s)'
    BY <1>1, <2>1, AtSession DEF RunInv, ResultInv
  <2> QED BY <1>1, <2>1, <2>r, <2>v, AtSession DEF RunKept
<1>3. CASE Fault /\ FinalizeFails(s)
  BY <1>1, <1>3, FinalizeFailsKept
<1> QED BY <1>2, <1>3 DEF DisposeSession, Attempt

LEMMA ReportKept ==
    ASSUME HandoffInv, NEW s \in Sessions, SaveReport(s)
    PROVE  RunKept(s)
<1>1. rpc[s] = "report" /\ UNCHANGED <<payload, hook, outcome, env, status>>
  BY DEF SaveReport, store
<1>2. /\ report' = [report EXCEPT ![s] = outcome[s]] => report'[s] = outcome[s]
      /\ RunTo(s, "mark") => rpc'[s] = "mark"
      /\ RunTo(s, "fail") => rpc'[s] = "fail"
  BY DEF RunTo, HandoffInv, HandoffTypeOK
<1>3. CASE rpc'[s] = "mark" /\ report'[s] = outcome[s] /\ faults' = faults
  <2>r. RunInv(s)'
    BY <1>1, <1>3, AtSession DEF RunInv, PayloadLive
  <2>v. ResultInv(s)'
    BY <1>1, <1>3, AtSession DEF RunInv, ResultInv
  <2> QED BY <1>1, <1>3, <2>r, <2>v, AtSession DEF RunKept
<1>4. CASE Fault /\ rpc'[s] = "fail" /\ (report'[s] = outcome[s] \/ report'[s] = report[s])
  <2>1. faults' = faults + 1 /\ faults \in Nat BY <1>4, FaultCounts
  <2>r. RunInv(s)'
    BY <1>1, <1>4, <2>1, AtSession DEF RunInv, PayloadLive
  <2>v. ResultInv(s)'
    BY <1>1, <1>4, <2>1, AtSession DEF RunInv, ResultInv
  <2> QED BY <1>1, <1>4, <2>1, <2>r, <2>v, AtSession DEF RunKept
<1> QED BY <1>2, <1>3, <1>4 DEF SaveReport, Attempt

LEMMA MarkKept ==
    ASSUME HandoffInv, NEW s \in Sessions, MarkOutcome(s)
    PROVE  RunKept(s)
<1>1. rpc[s] = "mark" /\ UNCHANGED <<payload, hook, outcome, env, report>>
  BY DEF MarkOutcome, store
<1>2. /\ status' = [status EXCEPT ![s] = outcome[s]] => status'[s] = outcome[s]
      /\ \A pc : RunTo(s, AfterMark(s, pc)) => rpc'[s] = AfterMark(s, pc)
  BY DEF RunTo, HandoffInv, HandoffTypeOK
<1>0. outcome[s] \in {"verified", "failed"}
  BY <1>1, AtSession DEF RunInv
<1>3. \/ rpc'[s] = AfterMark(s, "end") /\ status'[s] = outcome[s] /\ faults' = faults
      \/ /\ Fault /\ rpc'[s] = AfterMark(s, "fail")
         /\ status'[s] = outcome[s] \/ status'[s] = status[s]
  BY <1>2 DEF MarkOutcome, Attempt
<1>4. CASE rpc'[s] = AfterMark(s, "end") /\ status'[s] = outcome[s] /\ faults' = faults
  <2>1. rpc'[s] = IF outcome[s] = "failed" THEN "seal" ELSE "end" BY <1>4 DEF AfterMark
  <2>r. RunInv(s)'
    BY <1>1, <1>4, <2>1, AtSession DEF RunInv, PayloadLive
  <2>v. ResultInv(s)'
    BY <1>1, <1>4, <2>1, AtSession DEF RunInv, ResultInv
  <2> QED BY <1>0, <1>1, <1>4, <2>1, <2>r, <2>v, AtSession DEF RunKept
<1>5. CASE /\ Fault /\ rpc'[s] = AfterMark(s, "fail")
           /\ status'[s] = outcome[s] \/ status'[s] = status[s]
  <2>1. rpc'[s] = IF outcome[s] = "failed" THEN "seal" ELSE "fail" BY <1>5 DEF AfterMark
  <2>2. faults' = faults + 1 /\ faults \in Nat BY <1>5, FaultCounts
  <2>r. RunInv(s)'
    BY <1>1, <1>5, <2>1, <2>2, AtSession DEF RunInv, PayloadLive
  <2>v. ResultInv(s)'
    BY <1>1, <1>5, <2>1, <2>2, AtSession DEF RunInv, ResultInv
  <2> QED BY <1>0, <1>1, <1>5, <2>1, <2>2, <2>r, <2>v, AtSession DEF RunKept
<1> QED BY <1>3, <1>4, <1>5

LEMMA MarkFailedKept ==
    ASSUME HandoffInv, NEW s \in Sessions, MarkFailed(s)
    PROVE  RunKept(s)
<1>1. rpc[s] = "fail" /\ rpc'[s] = "end" /\ UNCHANGED <<payload, hook, outcome, env, report>>
  BY DEF MarkFailed, store, RunTo, HandoffInv, HandoffTypeOK
<1>2. /\ status'[s] = "failed" \/ status'[s] = status[s]
      /\ faults' = faults \/ (faults' = faults + 1 /\ faults \in Nat)
  BY FaultCounts DEF MarkFailed, Attempt, HandoffInv, HandoffTypeOK
<1>r. RunInv(s)'
  BY <1>1, <1>2, AtSession DEF RunInv, PayloadLive
<1>v. ResultInv(s)'
  BY <1>1, <1>2, AtSession DEF RunInv, ResultInv
<1> QED BY <1>1, <1>2, <1>r, <1>v, AtSession DEF RunKept

LEMMA CrashKept ==
    ASSUME HandoffInv, NEW s \in Sessions, Crash(s)
    PROVE  RunKept(s)
<1>1. /\ rpc[s] \notin {"idle", "end"} /\ rpc'[s] = "end"
      /\ UNCHANGED <<payload, hook, outcome, env, report, status>>
  BY DEF Crash, store, records, RunTo, HandoffInv, HandoffTypeOK
<1>2. faults' = faults + 1 /\ faults \in Nat BY FaultCounts DEF Crash
<1>r. RunInv(s)'
  BY <1>1, <1>2, AtSession DEF RunInv, PayloadLive
<1>v. ResultInv(s)'
  BY <1>1, <1>2, AtSession DEF RunInv, ResultInv
<1> QED BY <1>1, <1>2, <1>r, <1>v, AtSession DEF RunKept

LEMMA StartKept ==
    ASSUME HandoffInv, NEW s \in Sessions, NEW webhook \in BOOLEAN, StartRun(s, webhook)
    PROVE  RunKept(s)
<1>1. /\ rpc[s] = "idle" /\ rpc'[s] \in {"verify", "fail"} /\ hook'[s] \in BOOLEAN
      /\ UNCHANGED <<payload, outcome, env, report, status>>
      /\ faults' = faults \/ (faults' = faults + 1 /\ faults \in Nat)
  BY FaultCounts DEF StartRun, Attempt, store, records, RunTo, HandoffInv, HandoffTypeOK
<1>2. payload[s].res = "none"
  BY <1>1, AtSession DEF RunInv
<1>r. RunInv(s)'
  BY <1>1, AtSession DEF RunInv, PayloadLive
<1>v. ResultInv(s)'
  BY <1>1, AtSession DEF RunInv, ResultInv
<1> QED BY <1>1, <1>2, <1>r, <1>v, AtSession DEF RunKept

\* A step of a run touches its session only, and the queue with what has landed.
RunFrame(s) ==
    /\ \A q \in Sessions \ {s} :
        /\ payload'[q] = payload[q] /\ rpc'[q] = rpc[q] /\ hook'[q] = hook[q]
        /\ outcome'[q] = outcome[q] /\ env'[q] = env[q] /\ report'[q] = report[q]
        /\ status'[q] = status[q]
    /\ payload' = [q \in Sessions |-> payload'[q]] /\ rpc' = [q \in Sessions |-> rpc'[q]]
    /\ hook' = [q \in Sessions |-> hook'[q]] /\ outcome' = [q \in Sessions |-> outcome'[q]]
    /\ env' = [q \in Sessions |-> env'[q]] /\ report' = [q \in Sessions |-> report'[q]]
    /\ status' = [q \in Sessions |-> status'[q]]
    /\ faults' \in faults .. MaxFaults
    /\ hand' = hand /\ told' = told
    /\ \/ queue' = queue
       \/ queue' = Append(queue, s) /\ hook[s] /\ payload'[s].res # "none" /\ hook'[s] = hook[s]

LEMMA VerifyFrame ==
    ASSUME HandoffInv, NEW s \in Sessions, Verify(s)
    PROVE  RunFrame(s)
<1>1. UNCHANGED <<queue, payload, hook, env, report, status, hand, told, faults>>
  BY DEF Verify, store, run, records, consumer
<1>2. faults' \in faults .. MaxFaults
  BY AtSession, FaultCounts, HandoffTyped DEF Verify, Attempt
<1>3. \E pc : rpc' = [rpc EXCEPT ![s] = pc]
  BY DEF Verify, Attempt, RunTo, FinalizeFails
<1> QED BY <1>1, <1>2, <1>3, AtSession
     DEF Verify, RunFrame, HandoffInv, HandoffTypeOK, Attempt, FinalizeFails

LEMMA SealFrame ==
    ASSUME HandoffInv, NEW s \in Sessions, Seal(s)
    PROVE  RunFrame(s)
<1>1. UNCHANGED <<queue, payload, hook, report, status, hand, told>>
  BY DEF Seal, store, run, records, consumer
<1>2. faults' \in faults .. MaxFaults
  BY AtSession, FaultCounts, HandoffTyped DEF Seal, Attempt
<1>3. \E pc : rpc' = [rpc EXCEPT ![s] = pc]
  BY DEF Seal, Attempt, RunTo, FinalizeFails
<1> QED BY <1>1, <1>2, <1>3, AtSession
     DEF Seal, RunFrame, HandoffInv, HandoffTypeOK, Attempt, FinalizeFails

LEMMA ExecFrame ==
    ASSUME HandoffInv, NEW s \in Sessions, Exec(s)
    PROVE  RunFrame(s)
<1>1. UNCHANGED <<hook, env, report, status, hand, told>>
  BY DEF Exec, store, run, records, consumer
<1>2. faults' \in faults .. MaxFaults
  BY AtSession, FaultCounts, HandoffTyped DEF Exec, Attempt
<1>3. \E pc : rpc' = [rpc EXCEPT ![s] = pc]
  BY DEF Exec, Attempt, RunTo, FinalizeFails
<1>4. \/ /\ payload' = [payload EXCEPT ![s] = [res |-> outcome[s], life |-> QueueTTL,
                                                due |-> env[s]]]
         /\ (queue' = Append(queue, s) /\ hook[s]) \/ queue' = queue
      \/ UNCHANGED <<payload, queue>>
  BY DEF Exec, Attempt, Land, store
<1>5. payload'[s].res # "none" \/ UNCHANGED <<payload, queue>>
  BY <1>4, AtSession DEF Exec, RunInv, HandoffInv, HandoffTypeOK
<1>6. \E res : outcome' = [outcome EXCEPT ![s] = res]
  <2>1. outcome' = outcome \/ outcome' = [outcome EXCEPT ![s] = "failed"]
    BY DEF Exec, Attempt, FinalizeFails
  <2>2. outcome = [outcome EXCEPT ![s] = outcome[s]]
    BY DEF HandoffInv, HandoffTypeOK
  <2> QED BY <2>1, <2>2
<1> QED BY <1>1, <1>2, <1>3, <1>4, <1>5, <1>6, AtSession
     DEF RunFrame, HandoffInv, HandoffTypeOK

LEMMA DisposeFrame ==
    ASSUME HandoffInv, NEW s \in Sessions, DisposeSession(s)
    PROVE  RunFrame(s)
<1>1. UNCHANGED <<queue, payload, hook, env, report, status, hand, told>>
  BY DEF DisposeSession, store, run, records, consumer
<1>2. faults' \in faults .. MaxFaults
  BY AtSession, FaultCounts, HandoffTyped DEF DisposeSession, Attempt
<1>3. \E pc : rpc' = [rpc EXCEPT ![s] = pc]
  BY DEF DisposeSession, Attempt, RunTo, FinalizeFails
<1> QED BY <1>1, <1>2, <1>3, AtSession
     DEF DisposeSession, RunFrame, HandoffInv, HandoffTypeOK, Attempt, FinalizeFails

LEMMA ReportFrame ==
    ASSUME HandoffInv, NEW s \in Sessions, SaveReport(s)
    PROVE  RunFrame(s)
<1>1. UNCHANGED <<queue, payload, hook, outcome, env, status, hand, told>>
  BY DEF SaveReport, store, run, records, consumer
<1>2. faults' \in faults .. MaxFaults
  BY AtSession, FaultCounts, HandoffTyped DEF SaveReport, Attempt
<1>3. \E pc : rpc' = [rpc EXCEPT ![s] = pc]
  BY DEF SaveReport, Attempt, RunTo, FinalizeFails
<1> QED BY <1>1, <1>2, <1>3, AtSession
     DEF SaveReport, RunFrame, HandoffInv, HandoffTypeOK, Attempt, FinalizeFails

LEMMA MarkFrame ==
    ASSUME HandoffInv, NEW s \in Sessions, MarkOutcome(s)
    PROVE  RunFrame(s)
<1>1. UNCHANGED <<queue, payload, hook, outcome, env, report, hand, told>>
  BY DEF MarkOutcome, store, run, records, consumer
<1>2. faults' \in faults .. MaxFaults
  BY AtSession, FaultCounts, HandoffTyped DEF MarkOutcome, Attempt
<1>3. \E pc : rpc' = [rpc EXCEPT ![s] = pc]
  BY DEF MarkOutcome, Attempt, RunTo, FinalizeFails
<1> QED BY <1>1, <1>2, <1>3, AtSession
     DEF MarkOutcome, RunFrame, HandoffInv, HandoffTypeOK, Attempt, FinalizeFails

LEMMA MarkFailedFrame ==
    ASSUME HandoffInv, NEW s \in Sessions, MarkFailed(s)
    PROVE  RunFrame(s)
<1>1. UNCHANGED <<queue, payload, hook, outcome, env, report, hand, told>>
  BY DEF MarkFailed, store, run, records, consumer
<1>2. faults' \in faults .. MaxFaults
  BY AtSession, FaultCounts, HandoffTyped DEF MarkFailed, Attempt
<1>3. \E pc : rpc' = [rpc EXCEPT ![s] = pc]
  BY DEF MarkFailed, Attempt, RunTo, FinalizeFails
<1> QED BY <1>1, <1>2, <1>3, AtSession
     DEF MarkFailed, RunFrame, HandoffInv, HandoffTypeOK, Attempt, FinalizeFails

LEMMA CrashFrame ==
    ASSUME HandoffInv, NEW s \in Sessions, Crash(s)
    PROVE  RunFrame(s)
<1>1. UNCHANGED <<queue, payload, hook, outcome, env, report, status, hand, told>>
  BY DEF Crash, store, run, records, consumer
<1>2. faults' \in faults .. MaxFaults
  BY AtSession, FaultCounts, HandoffTyped DEF Crash, Attempt
<1>3. \E pc : rpc' = [rpc EXCEPT ![s] = pc]
  BY DEF Crash, Attempt, RunTo, FinalizeFails
<1> QED BY <1>1, <1>2, <1>3, AtSession
     DEF Crash, RunFrame, HandoffInv, HandoffTypeOK, Attempt, FinalizeFails

LEMMA StartFrame ==
    ASSUME HandoffInv, NEW s \in Sessions, NEW webhook \in BOOLEAN,
           StartRun(s, webhook)
    PROVE  RunFrame(s)
<1>1. UNCHANGED <<queue, payload, outcome, env, report, status, hand, told>>
  BY DEF StartRun, store, run, records, consumer
<1>2. faults' \in faults .. MaxFaults
  BY AtSession, FaultCounts, HandoffTyped DEF StartRun, Attempt
<1>3. \E pc : rpc' = [rpc EXCEPT ![s] = pc]
  BY DEF StartRun, Attempt, RunTo, FinalizeFails
<1> QED BY <1>1, <1>2, <1>3, AtSession
     DEF StartRun, RunFrame, HandoffInv, HandoffTypeOK, Attempt, FinalizeFails

\* A run's step keeps the invariant, at its session and at the others.
LEMMA RunKeeps ==
    ASSUME HandoffInv, NEW s \in Sessions, RunKept(s), RunFrame(s)
    PROVE  HandoffInv'
<1>1. faults \in Nat /\ faults' \in Nat /\ faults' >= faults /\ faults' \in 0 .. MaxFaults
  BY HandoffTyped DEF RunFrame, HandoffInv, HandoffTypeOK
<1>2. ASSUME NEW q \in Sessions, q # s PROVE RunKept(q)
  <2>1. /\ payload'[q] = payload[q] /\ rpc'[q] = rpc[q] /\ hook'[q] = hook[q]
        /\ outcome'[q] = outcome[q] /\ env'[q] = env[q] /\ report'[q] = report[q]
        /\ status'[q] = status[q]
    BY <1>2 DEF RunFrame
  <2>2. RunInv(q)' BY <2>1, AtSession DEF RunInv, PayloadLive
  <2>3. ResultInv(q)' BY <1>1, <2>1, AtSession DEF ResultInv
  <2> QED BY <2>1, <2>2, <2>3, AtSession DEF RunKept
<1>3. \A q \in Sessions : RunKept(q) BY <1>2
<1>4. queue' \in Seq(Sessions) /\ Pending' \subseteq Pending \cup {s}
      /\ (s \in Pending' => s \in Pending \/ (hook'[s] /\ payload'[s].res # "none"))
  <2>1. CASE queue' = queue
    BY <2>1 DEF RunFrame, HandoffInv, HandoffTypeOK, Pending
  <2>2. CASE /\ queue' = Append(queue, s) /\ hook[s] /\ payload'[s].res # "none"
             /\ hook'[s] = hook[s]
    <3>1. queue' \in Seq(Sessions) /\ Range(queue') \subseteq Range(queue) \cup {s}
      <4>1. queue \in Seq(Sessions) /\ queue' = Append(queue, s)
        BY <2>2 DEF HandoffInv, HandoffTypeOK
      <4> DEFINE n == Len(queue)
      <4>2. n \in Nat /\ queue' \in Seq(Sessions) /\ DOMAIN queue = 1 .. n
            /\ Len(queue') = n + 1 /\ DOMAIN queue' = 1 .. Len(queue')
        BY <4>1
      <4>3. ASSUME NEW i \in 1 .. n + 1
            PROVE  IF i <= n THEN queue'[i] = queue[i] ELSE queue'[i] = s
        BY <4>1, <4>2, <4>3
      <4>4. \A i \in DOMAIN queue' : queue'[i] = s \/ (i \in DOMAIN queue /\ queue'[i] = queue[i])
        BY <4>2, <4>3
      <4> QED BY <4>2, <4>4 DEF Range
    <3> QED BY <2>2, <3>1 DEF RunFrame, Pending
  <2> QED BY <2>1, <2>2 DEF RunFrame
<1>5. HandoffTypeOK'
  BY <1>1, <1>3, <1>4 DEF HandoffTypeOK, RunKept, RunFrame, HandoffInv
<1>6. QueuedDeliverable'
  BY <1>3, <1>4 DEF QueuedDeliverable, RunKept, HandoffInv
<1>7. ExpiresAtHonest'
  <2>1. ASSUME NEW q \in Sessions
        PROVE  payload'[q].life <= HardCap /\ payload'[q].due <= payload'[q].life
    BY <1>3, HandoffTyped DEF RunKept
  <2> QED BY <2>1 DEF ExpiresAtHonest
<1> QED BY <1>3, <1>5, <1>6, <1>7 DEF HandoffInv, RunKept, QueueTTL

\* The consumer only takes from the queue.
LEMMA PopKeeps ==
    ASSUME HandoffInv, Pop
    PROVE  HandoffInv'
<1>1. /\ UNCHANGED <<payload, rpc, hook, outcome, env, report, status, told, faults>>
      /\ queue # <<>> /\ hand' = Head(queue) /\ queue' = Tail(queue)
      /\ queue \in Seq(Sessions)
  BY DEF Pop, run, records, HandoffInv, HandoffTypeOK
<1>2. hand' \in Range(queue) /\ hand' \in Sessions /\ queue' \in Seq(Sessions)
      /\ Range(queue') \subseteq Range(queue)
  <2> DEFINE n == Len(queue)
  <2>1. n \in Nat \ {0} /\ DOMAIN queue = 1 .. n /\ 1 \in 1 .. n /\ hand' = queue[1]
    BY <1>1
  <2>2. queue' \in Seq(Sessions) /\ DOMAIN queue' = 1 .. n - 1
        /\ \A i \in 1 .. n - 1 : queue'[i] = queue[i + 1] /\ i + 1 \in 1 .. n
    BY <1>1, <2>1
  <2> HIDE DEF n
  <2>3. \A i \in DOMAIN queue' : queue'[i] \in Range(queue)
    BY <2>1, <2>2 DEF Range
  <2> QED BY <1>1, <2>1, <2>2, <2>3 DEF Range
<1>3. Pending' \subseteq Pending BY <1>2 DEF Pending
<1>4. HandoffTypeOK' BY <1>1, <1>2 DEF HandoffInv, HandoffTypeOK
<1>5. QueuedDeliverable' /\ ExpiresAtHonest'
  BY <1>1, <1>3 DEF HandoffInv, QueuedDeliverable, ExpiresAtHonest
<1>6. \A s \in Sessions : (RunInv(s) /\ ResultInv(s) /\ env[s] <= QueueTTL)'
  BY <1>1 DEF HandoffInv, RunInv, ResultInv, PayloadLive, QueueTTL
<1> QED BY <1>4, <1>5, <1>6 DEF HandoffInv

LEMMA TellKeeps ==
    ASSUME HandoffInv, Tell
    PROVE  HandoffInv'
<1>1. /\ UNCHANGED <<payload, queue, rpc, hook, outcome, env, report, status, faults>>
      /\ hand \in Sessions /\ hand' = Nobody
  BY DEF Tell, store, run, records, HandoffInv, HandoffTypeOK
<1>2. told' \in [Sessions -> Seq({"verified", "failed", "delivery-failed"})]
  <2> DEFINE word == IF PayloadLive(hand) THEN payload[hand].res ELSE "delivery-failed"
  <2>1. word \in {"verified", "failed", "delivery-failed"}
    BY <1>1, AtSession DEF RunInv
  <2>2. told' = [told EXCEPT ![hand] = Append(told[hand], word)]
    BY DEF Tell
  <2> HIDE DEF word
  <2>3. told \in [Sessions -> Seq({"verified", "failed", "delivery-failed"})]
    BY DEF HandoffInv, HandoffTypeOK
  <2>4. Append(told[hand], word) \in Seq({"verified", "failed", "delivery-failed"})
    BY <1>1, <2>1, <2>3
  <2> QED BY <1>1, <2>2, <2>3, <2>4
<1>3. Pending' \cap Sessions \subseteq Pending BY <1>1, HandoffTyped DEF Pending
<1>4. HandoffTypeOK' BY <1>1, <1>2 DEF HandoffInv, HandoffTypeOK
<1>5. QueuedDeliverable' /\ ExpiresAtHonest'
  BY <1>1, <1>3 DEF HandoffInv, QueuedDeliverable, ExpiresAtHonest
<1>6. \A s \in Sessions : (RunInv(s) /\ ResultInv(s) /\ env[s] <= QueueTTL)'
  BY <1>1 DEF HandoffInv, RunInv, ResultInv, PayloadLive, QueueTTL
<1> QED BY <1>4, <1>5, <1>6 DEF HandoffInv

\* A payload and the envelope's promise run out at the same pace.
LEMMA TimeKeeps ==
    ASSUME HandoffInv, TimePasses
    PROVE  HandoffInv'
<1>1. UNCHANGED <<queue, rpc, hook, outcome, report, status, hand, told, faults>>
  BY DEF TimePasses, records, consumer
<1>2. \A n \in 0 .. HardCap : Less(n) \in 0 .. HardCap /\ Less(n) <= n /\ (n = 0 => Less(n) = 0)
  BY HandoffTyped DEF Less
<1>3. \A m, n \in 0 .. HardCap : m <= n => Less(m) <= Less(n)
  BY HandoffTyped DEF Less
<1>4. /\ payload' = [s \in Sessions |-> payload'[s]] /\ env' = [s \in Sessions |-> env'[s]]
      /\ \A s \in Sessions :
           /\ payload'[s] \in [res : {"none", "verified", "failed"},
                               life : 0 .. HardCap, due : 0 .. HardCap]
           /\ payload'[s].res = payload[s].res
           /\ payload'[s].life = Less(payload[s].life)
           /\ payload'[s].due = Less(payload[s].due)
           /\ env'[s] = Less(env[s])
  BY <1>2, AtSession DEF TimePasses
<1>5. ASSUME NEW s \in Sessions
      PROVE  /\ RunInv(s)' /\ ResultInv(s)' /\ env'[s] <= QueueTTL /\ env'[s] \in 0 .. HardCap
             /\ payload'[s].life <= HardCap /\ payload'[s].due <= payload'[s].life
  <2>1. RunInv(s)' BY <1>1, <1>2, <1>4, AtSession DEF RunInv, PayloadLive
  <2>2. ResultInv(s)' BY <1>1, <1>4, AtSession DEF ResultInv
  <2>3. env'[s] <= QueueTTL /\ env'[s] \in 0 .. HardCap
    BY <1>2, <1>4, AtSession, TTLRange
  <2>4. payload'[s].life <= HardCap /\ payload'[s].due <= payload'[s].life
    BY <1>2, <1>3, <1>4, AtSession, TTLRange
  <2> QED BY <2>1, <2>2, <2>3, <2>4
<1>6. HandoffTypeOK' BY <1>1, <1>4, <1>5 DEF HandoffInv, HandoffTypeOK
<1>7. QueuedDeliverable' /\ ExpiresAtHonest'
  BY <1>1, <1>4, <1>5 DEF HandoffInv, QueuedDeliverable, ExpiresAtHonest, Pending
<1> QED BY <1>5, <1>6, <1>7 DEF HandoffInv, QueueTTL

LEMMA HandoffKeeps ==
    ASSUME HandoffInv, HandoffNext
    PROVE  HandoffInv'
<1>1. ASSUME NEW s \in Sessions, RunStep(s) \/ Crash(s) PROVE HandoffInv'
  <2>1. RunKept(s)
    BY <1>1, VerifyKept, SealKept, ExecKept, DisposeKept, ReportKept, MarkKept, MarkFailedKept,
       CrashKept DEF RunStep
  <2>2. RunFrame(s)
    BY <1>1, VerifyFrame, SealFrame, ExecFrame, DisposeFrame, ReportFrame, MarkFrame,
       MarkFailedFrame, CrashFrame DEF RunStep
  <2> QED BY <2>1, <2>2, RunKeeps
<1> QED BY <1>1, PopKeeps, TellKeeps, TimeKeeps DEF HandoffNext

-----------------------------------------------------------------------------
(***************************************************************************)
(* The two together.                                                       *)
(***************************************************************************)
LEMMA InitEstablishes == Init => IndInv
<1> SUFFICES ASSUME Init PROVE IndInv OBVIOUS
<1>1. CreationInv
  BY CreationTyped DEF Init, CreationInit, CreationInv, CreationTypeOK,
     CallersErrorsClassified, FixtureUnreachable, UnsignedIsPermitted, CreatedInv
<1>2. HandoffTypeOK /\ ExpiresAtHonest
  BY HandoffTyped DEF Init, HandoffInit, HandoffTypeOK, ExpiresAtHonest
<1>3. QueuedDeliverable
  BY HandoffTyped DEF Init, HandoffInit, QueuedDeliverable, Pending, Range
<1>4. \A s \in Sessions : RunInv(s) /\ ResultInv(s) /\ env[s] <= QueueTTL
  BY TTLRange DEF Init, HandoffInit, RunInv, ResultInv, PayloadLive
<1> QED BY <1>1, <1>2, <1>3, <1>4 DEF HandoffInv, IndInv

LEMMA CreationUnchanged ==
    ASSUME CreationInv, UNCHANGED creation
    PROVE  CreationInv'
BY DEF creation, CreationInv, CreationTypeOK, CallersErrorsClassified, FixtureUnreachable,
       UnsignedIsPermitted, CreatedInv

LEMMA HandoffUnchanged ==
    ASSUME HandoffInv, UNCHANGED handoff
    PROVE  HandoffInv'
<1>1. UNCHANGED <<payload, queue, rpc, hook, outcome, env, report, status, faults, hand, told>>
  BY DEF handoff, store, run, records, consumer
<1> QED BY <1>1 DEF HandoffInv, HandoffTypeOK, QueuedDeliverable, ExpiresAtHonest, Pending,
       RunInv, ResultInv, PayloadLive, QueueTTL

LEMMA NextKeeps == IndInv /\ [Next]_vars => IndInv'
<1> SUFFICES ASSUME CreationInv, HandoffInv, [Next]_vars PROVE CreationInv' /\ HandoffInv'
  BY DEF IndInv
<1>1. CASE (\E r \in Requests : Creation(r)) /\ UNCHANGED handoff
  BY <1>1, CreationKeeps, HandoffUnchanged
<1>2. CASE HandoffNext /\ UNCHANGED creation
  BY <1>2, HandoffKeeps, CreationUnchanged
<1>3. ASSUME NEW s \in Sessions, Start(s), UNCHANGED creation PROVE CreationInv' /\ HandoffInv'
  <2>1. row[s] \in Rows
    BY <1>3, SessionsAreRequests DEF Start, CreationInv, CreatedInv
  <2>2. row[s].webhook \in BOOLEAN /\ StartRun(s, row[s].webhook)
    BY <1>3, <2>1 DEF Rows, Start
  <2> QED BY <1>3, <2>2, StartKept, StartFrame, RunKeeps, CreationUnchanged
<1>4. CASE UNCHANGED vars
  BY <1>4, CreationUnchanged, HandoffUnchanged DEF vars
<1> QED BY <1>1, <1>2, <1>3, <1>4 DEF Next

\* The invariant of both parts, for any number of sessions and of faults.
THEOREM Inductive == Spec => []IndInv
BY InitEstablishes, NextKeeps, PTL DEF Spec

\* Every variable keeps its type: every refusal is a 400 or a 422, every lifetime an
\* integer, no payload outlives the cap.
THEOREM Typed == Spec => []TypeOK
<1>1. IndInv => TypeOK BY DEF IndInv, CreationInv, HandoffInv, TypeOK
<1> QED BY <1>1, Inductive, PTL

\* routes/internal.go: whatever the caller sent, it is not our 500.
THEOREM CallersErrorsAreTheirs == Spec => []CallersErrorsClassified
<1>1. IndInv => CallersErrorsClassified BY DEF IndInv, CreationInv
<1> QED BY <1>1, Inductive, PTL

\* Create's fixture stands in for no caller's registration.
THEOREM FixtureNeverMinted == Spec => []FixtureUnreachable
<1>1. IndInv => FixtureUnreachable BY DEF IndInv, CreationInv
<1> QED BY <1>1, Inductive, PTL

\* creator.go: an unsigned browser request is one the deployment allows and, where it
\* leaves the choice, one the client chose.
THEOREM UnsignedOnlyIfPermitted == Spec => []UnsignedIsPermitted
<1>1. IndInv => UnsignedIsPermitted BY DEF IndInv, CreationInv
<1> QED BY <1>1, Inductive, PTL

\* CreateInput.TTL, for every width of a duration and every length of a second.
THEOREM LifetimeGranted == Spec => []LifetimeAsAsked
<1>1. ASSUME CreationInv PROVE LifetimeAsAsked
  <2>1. ASSUME NEW r \in Requests, phase[r] = "respond"
        PROVE  /\ row[r].ttl = GrantedTTL(body[r])
               /\ body[r] \in RequestBodies /\ body[r].ttl >= 0
    <3>1. /\ row[r].ttl = GrantedTTL(body[r]) /\ body[r] \in Bodies /\ Accepted(body[r])
      BY <1>1, <2>1 DEF CreationInv, CreatedInv
    <3> QED BY <3>1, AcceptedMeans, CreationTyped
  <2> QED BY <2>1, GrantedRange DEF LifetimeAsAsked
<1>2. IndInv => LifetimeAsAsked BY <1>1 DEF IndInv
<1> QED BY <1>2, Inductive, PTL

\* queue.go: an id in the queue names a payload that has landed, of a session that has
\* a webhook.
THEOREM QueueIsDeliverable == Spec => []QueuedDeliverable
<1>1. IndInv => QueuedDeliverable BY DEF IndInv, HandoffInv
<1> QED BY <1>1, Inductive, PTL

\* The envelope's ExpiresAt never promises a payload that has gone.
THEOREM ExpiryIsHonest == Spec => []ExpiresAtHonest
<1>1. IndInv => ExpiresAtHonest BY DEF IndInv, HandoffInv
<1> QED BY <1>1, Inductive, PTL

\* After one fault at most, polling and the saved report agree.
THEOREM PollingAgrees == Spec => []PollAgrees
<1>1. ASSUME HandoffInv PROVE PollAgrees
  <2>1. ASSUME NEW s \in Sessions, rpc[s] = "end", faults <= 1, report[s] # "none",
               PayloadLive(s)
        PROVE  payload[s].res = report[s]
    <3>1. RunInv(s) /\ ResultInv(s) /\ faults \in Nat
          /\ report[s] \in {"none", "verified", "failed"}
          /\ payload[s].res \in {"none", "verified", "failed"}
      BY <1>1, AtSession, HandoffTyped
    <3> QED BY <2>1, <3>1 DEF RunInv, ResultInv
  <2> QED BY <2>1 DEF PollAgrees
<1>2. IndInv => PollAgrees BY <1>1 DEF IndInv
<1> QED BY <1>2, Inductive, PTL

\* A session marked verified has handed its verified result over.
THEOREM VerifiedIsHandedOver == Spec => []VerifiedWasHandedOver
<1>1. IndInv => VerifiedWasHandedOver
  BY DEF IndInv, HandoffInv, RunInv, ResultInv, VerifiedWasHandedOver
<1> QED BY <1>1, Inductive, PTL

-----------------------------------------------------------------------------
(***************************************************************************)
(* What the client is told by webhook.  IndInv says nothing of how often   *)
(* and in which order a session is in the queue; the three parts below do. *)
(***************************************************************************)
\* The client was last told what the payload says, unless an entry is left.
WordInv(s) ==
    told[s] # <<>> =>
        /\ hook[s] /\ payload[s].res # "none"
        /\ s \notin Pending => Last(told[s]) \in {payload[s].res, "delivery-failed"}

\* A run without a fault: where it is says what it has written.
ProgressInv(s) ==
    /\ rpc[s] # "idle" => answer[s] = 201
    /\ faults = 0 =>
        /\ rpc[s] # "idle" => hook[s] = row[s].webhook
        /\ rpc[s] \in {"seal", "exec"} => payload[s].res = "none"
        /\ rpc[s] \in {"report", "mark"} =>
            payload[s].res = IF outcome[s] = "verified" THEN "verified" ELSE "none"
        /\ rpc[s] \in {"seal", "exec", "dispose"} /\ outcome[s] = "failed" =>
            report[s] = "failed" /\ status[s] = "failed"
        /\ rpc[s] = "fail" => outcome[s] = "failed"
        /\ rpc[s] \in {"fail", "end"} =>
            /\ outcome[s] # "none" /\ payload[s].res = outcome[s]
            /\ report[s] = outcome[s] /\ status[s] = outcome[s]

\* Without a fault a session is delivered once: it is in one place of the queue, in the
\* consumer's hand, or told.
OnceInv(s) ==
    faults = 0 =>
        /\ s \in Pending => told[s] = <<>>
        /\ hand = s => s \notin Range(queue)
        /\ \A i, j \in DOMAIN queue : queue[i] = s /\ queue[j] = s => i = j
        /\ payload[s].res # "none" /\ hook[s] /\ s \notin Pending => Len(told[s]) = 1

TellingInv == \A s \in Sessions : WordInv(s) /\ ProgressInv(s) /\ OnceInv(s)

LEMMA TellingInit == Init => TellingInv
BY HandoffTyped DEF Init, HandoffInit, TellingInv, WordInv, ProgressInv, OnceInv, Pending, Range

\* What is in the queue after an entry was put in.
LEMMA Appended ==
    ASSUME queue \in Seq(Sessions), NEW s \in Sessions, queue' = Append(queue, s)
    PROVE  /\ Range(queue') = Range(queue) \cup {s}
           /\ s \notin Range(queue) =>
                \A i, j \in DOMAIN queue' : queue'[i] = s /\ queue'[j] = s => i = j
           /\ \A q \in Sessions \ {s} :
                (\A i, j \in DOMAIN queue : queue[i] = q /\ queue[j] = q => i = j) =>
                \A i, j \in DOMAIN queue' : queue'[i] = q /\ queue'[j] = q => i = j
<1> DEFINE n == Len(queue)
<1>1. n \in Nat /\ DOMAIN queue = 1 .. n /\ DOMAIN queue' = 1 .. n + 1
  OBVIOUS
<1>2. /\ \A i \in 1 .. n : queue'[i] = queue[i]
      /\ queue'[n + 1] = s
  OBVIOUS
<1> HIDE DEF n
<1>3. \A i \in DOMAIN queue' : i \in DOMAIN queue \/ i = n + 1
  BY <1>1
<1>4. \A i \in DOMAIN queue : i \in DOMAIN queue' /\ queue'[i] = queue[i] /\ queue[i] \in Range(queue)
  BY <1>1, <1>2 DEF Range
<1>5. n + 1 \in DOMAIN queue'
  BY <1>1
<1>6. Range(queue') = Range(queue) \cup {s}
  BY <1>2, <1>3, <1>4, <1>5 DEF Range
<1> QED BY <1>2, <1>3, <1>4, <1>6

\* And after its first was taken out.
LEMMA Popped ==
    ASSUME queue \in Seq(Sessions), queue # <<>>, queue' = Tail(queue)
    PROVE  /\ Range(queue) = Range(queue') \cup {Head(queue)}
           /\ \A q \in Sessions :
                (\A i, j \in DOMAIN queue : queue[i] = q /\ queue[j] = q => i = j) =>
                /\ \A i, j \in DOMAIN queue' : queue'[i] = q /\ queue'[j] = q => i = j
                /\ q = Head(queue) => q \notin Range(queue')
<1> DEFINE n == Len(queue)
<1>1. n \in Nat \ {0} /\ DOMAIN queue = 1 .. n /\ DOMAIN queue' = 1 .. n - 1
      /\ Head(queue) = queue[1]
  OBVIOUS
<1>2. \A i \in 1 .. n - 1 : queue'[i] = queue[i + 1]
  OBVIOUS
<1> HIDE DEF n
<1>3. \A i \in DOMAIN queue' : i + 1 \in DOMAIN queue /\ i + 1 # 1 /\ queue'[i] = queue[i + 1]
  BY <1>1, <1>2
<1>4. ASSUME NEW i \in DOMAIN queue, i # 1
      PROVE  i - 1 \in DOMAIN queue' /\ queue'[i - 1] = queue[i]
  <2>1. i - 1 \in 1 .. n - 1 /\ (i - 1) + 1 = i
    BY <1>1, <1>4
  <2> QED BY <1>1, <1>2, <2>1
<1>5. 1 \in DOMAIN queue
  BY <1>1
<1>6. Range(queue) = Range(queue') \cup {Head(queue)}
  <2>1. \A i \in DOMAIN queue' : queue'[i] \in Range(queue)
    BY <1>3 DEF Range
  <2>2. \A i \in DOMAIN queue : i # 1 => queue[i] \in Range(queue')
    BY <1>4 DEF Range
  <2>3. Head(queue) \in Range(queue)
    BY <1>1, <1>5 DEF Range
  <2> QED BY <1>1, <2>1, <2>2, <2>3 DEF Range
<1>7. \A i, j \in DOMAIN queue' : i + 1 = j + 1 => i = j
  BY <1>1
<1>8. ASSUME NEW q \in Sessions, \A i, j \in DOMAIN queue : queue[i] = q /\ queue[j] = q => i = j
      PROVE  /\ \A i, j \in DOMAIN queue' : queue'[i] = q /\ queue'[j] = q => i = j
             /\ q = Head(queue) => q \notin Range(queue')
  <2>1. \A i, j \in DOMAIN queue' : queue'[i] = q /\ queue'[j] = q => i = j
    BY <1>3, <1>7, <1>8
  <2>2. q = queue[1] => \A i \in DOMAIN queue' : queue'[i] # q
    BY <1>3, <1>5, <1>8
  <2> QED BY <1>1, <2>1, <2>2 DEF Range
<1> QED BY <1>6, <1>8

LEMMA NoFault ==
    ASSUME HandoffInv, faults' = 0
    PROVE  ~Fault
BY FaultCounts

\* Each step of a run, when neither it nor an earlier one met a fault.
Written(s) ==
    /\ faults = 0 /\ rpc[s] # "idle" /\ hook'[s] = hook[s]
    /\ \/ /\ rpc[s] = "verify" /\ payload'[s].res = "none"
          /\ \/ outcome'[s] = "verified" /\ rpc'[s] = "seal"
             \/ outcome'[s] = "failed" /\ rpc'[s] = "report"
       \/ /\ rpc[s] = "seal" /\ rpc'[s] = "exec"
          /\ UNCHANGED <<payload, outcome, report, status>>
       \/ /\ rpc[s] = "exec" /\ rpc'[s] = "dispose"
          /\ UNCHANGED <<outcome, report, status>>
       \/ /\ rpc[s] = "dispose"
          /\ rpc'[s] = IF outcome[s] = "verified" THEN "report" ELSE "fail"
          /\ UNCHANGED <<payload, outcome, report, status>>
       \/ /\ rpc[s] = "report" /\ rpc'[s] = "mark" /\ report'[s] = outcome[s]
          /\ UNCHANGED <<payload, outcome, status>>
       \/ /\ rpc[s] = "mark" /\ status'[s] = outcome[s]
          /\ rpc'[s] = IF outcome[s] = "failed" THEN "seal" ELSE "end"
          /\ UNCHANGED <<payload, outcome, report>>
       \/ /\ rpc[s] = "fail" /\ rpc'[s] = "end" /\ status'[s] = "failed"
          /\ UNCHANGED <<payload, outcome, report>>

LEMMA StepWritten ==
    ASSUME HandoffInv, NEW s \in Sessions, RunStep(s) \/ Crash(s), faults' = 0
    PROVE  Written(s)
<1> USE DEF HandoffInv, HandoffTypeOK, RunTo, store, records, Written
<1>0. ~Fault BY NoFault
<1>1. CASE Verify(s)
  <2>1. PICK res \in {"verified", "failed"} :
          /\ outcome' = [outcome EXCEPT ![s] = res]
          /\ RunTo(s, IF res = "verified" THEN "seal" ELSE "report")
    BY <1>1 DEF Verify
  <2>2. rpc[s] = "verify" /\ payload[s].res = "none" /\ UNCHANGED <<payload, hook, faults>>
    BY <1>1, AtSession DEF Verify, RunInv
  <2> QED BY <2>1, <2>2
<1>2. CASE Seal(s) BY <1>0, <1>2 DEF Seal
<1>3. CASE Exec(s) BY <1>0, <1>3 DEF Exec, Attempt
<1>4. CASE DisposeSession(s) BY <1>0, <1>4 DEF DisposeSession, Attempt
<1>5. CASE SaveReport(s) BY <1>0, <1>5 DEF SaveReport, Attempt
<1>6. CASE MarkOutcome(s) BY <1>0, <1>6 DEF MarkOutcome, Attempt, AfterMark
<1>7. CASE MarkFailed(s) BY <1>0, <1>7 DEF MarkFailed, Attempt
<1>8. CASE Crash(s) BY <1>0, <1>8 DEF Crash
<1> QED BY <1>1, <1>2, <1>3, <1>4, <1>5, <1>6, <1>7, <1>8 DEF RunStep

LEMMA WrittenProgress ==
    ASSUME HandoffInv, NEW s \in Sessions, ProgressInv(s), RunKept(s), Written(s),
           answer'[s] = answer[s], row'[s] = row[s]
    PROVE  ProgressInv(s)'
<1>1. /\ outcome[s] \in {"none", "verified", "failed"} /\ RunInv(s) /\ RunInv(s)'
  BY AtSession DEF RunKept
<1> QED BY <1>1 DEF ProgressInv, Written, RunInv

\* A landed result is in the queue, if it is for a webhook; without a fault, only once.
Landing(s) ==
    /\ payload'[s].res = payload[s].res \/ ~hook'[s] \/ queue' = Append(queue, s)
    /\ faults' = 0 /\ queue' = Append(queue, s) => payload[s].res = "none"

LEMMA RunLands ==
    ASSUME HandoffInv, NEW s \in Sessions, RunStep(s) \/ Crash(s), ProgressInv(s)
    PROVE  Landing(s)
<1> USE DEF Landing
<1>1. CASE Exec(s)
  <2>1. hook' = hook /\ rpc[s] = "exec"
    BY <1>1 DEF Exec
  <2>2. payload'[s].res = payload[s].res \/ ~hook[s] \/ queue' = Append(queue, s)
    BY <1>1 DEF Exec, Attempt, Land, store
  <2>3. faults' = 0 => payload[s].res = "none"
    BY <2>1, StepWritten DEF ProgressInv, Written
  <2> QED BY <2>1, <2>2, <2>3
<1>2. ASSUME UNCHANGED store PROVE Landing(s)
  <2>1. queue' = queue /\ payload' = payload /\ queue \in Seq(Sessions)
    BY <1>2 DEF store, HandoffInv, HandoffTypeOK
  <2>2. Len(Append(queue, s)) = Len(queue) + 1 /\ Len(queue) \in Nat
    BY <2>1
  <2>3. queue # Append(queue, s) BY <2>2
  <2> QED BY <2>1, <2>3
<1> QED BY <1>1, <1>2
     DEF RunStep, Verify, Seal, DisposeSession, SaveReport, MarkOutcome, MarkFailed, Crash, store

\* A step of a run keeps what the client was told true, for its session and the others.
LEMMA RunTells ==
    ASSUME HandoffInv, TellingInv, NEW s \in Sessions, RunKept(s), RunFrame(s), Landing(s),
           NEW q \in Sessions
    PROVE  WordInv(q)' /\ OnceInv(q)'
<1>1. /\ told' = told /\ hand' = hand /\ queue \in Seq(Sessions)
      /\ queue' = queue \/ queue' = Append(queue, s)
      /\ payload[q].res # "none" => payload'[q].res # "none" /\ hook'[q] = hook[q]
      /\ q # s => payload'[q] = payload[q] /\ hook'[q] = hook[q]
  BY DEF RunFrame, RunKept, HandoffInv, HandoffTypeOK
<1>2. WordInv(q) /\ OnceInv(q) BY DEF TellingInv
<1>3. faults' = 0 => faults = 0
  BY AtSession, HandoffTyped DEF RunFrame
<1>4. CASE queue' = Append(queue, s)
  <2>1. Range(queue') = Range(queue) \cup {s} BY <1>1, <1>4, Appended
  <2>2. Pending' = Pending \cup {s} BY <1>1, <2>1 DEF Pending
  <2>3. WordInv(q)'
    <3>1. q # s \/ q \in Pending' BY <2>2
    <3> QED BY <1>1, <1>2, <2>2, <3>1 DEF WordInv
  <2>4. ASSUME faults' = 0 PROVE OnceInv(q)'
    <3>1. payload[s].res = "none" BY <1>4, <2>4 DEF Landing
    <3>2. s \notin Pending /\ told[s] = <<>>
      BY <3>1 DEF HandoffInv, QueuedDeliverable, TellingInv, WordInv
    <3>3. \A i, j \in DOMAIN queue' : queue'[i] = q /\ queue'[j] = q => i = j
      <4>1. CASE q = s BY <1>1, <1>4, <3>2, <4>1, Appended DEF Pending
      <4>2. CASE q # s BY <1>1, <1>2, <1>3, <1>4, <2>4, <4>2, Appended DEF OnceInv
      <4> QED BY <4>1, <4>2
    <3>4. hand' = q => q \notin Range(queue')
      BY <1>1, <1>2, <1>3, <2>1, <2>4, <3>2 DEF OnceInv, Pending
    <3>5. q \in Pending' => told'[q] = <<>>
      BY <1>1, <1>2, <1>3, <2>2, <2>4, <3>2 DEF OnceInv
    <3>6. payload'[q].res # "none" /\ hook'[q] /\ q \notin Pending' => Len(told'[q]) = 1
      BY <1>1, <1>2, <1>3, <2>2, <2>4 DEF OnceInv
    <3> QED BY <3>3, <3>4, <3>5, <3>6 DEF OnceInv
  <2> QED BY <2>3, <2>4 DEF OnceInv
<1>5. CASE queue' # Append(queue, s)
  <2>1. queue' = queue /\ Pending' = Pending BY <1>1, <1>5 DEF Pending
  <2>2. payload'[q].res = payload[q].res \/ ~hook'[q] BY <1>1, <1>5 DEF Landing
  <2>3. WordInv(q)' BY <1>1, <1>2, <2>1, <2>2 DEF WordInv
  <2>4. payload'[q].res # "none" /\ hook'[q] => payload[q].res # "none" /\ hook[q]
    BY <1>1, <2>2
  <2>5. OnceInv(q)' BY <1>1, <1>2, <1>3, <2>1, <2>4 DEF OnceInv
  <2> QED BY <2>3, <2>5
<1> QED BY <1>4, <1>5

\* What another session's run, the consumer and time leave alone.
LEMMA ProgressKept ==
    ASSUME HandoffInv, NEW q \in Sessions, ProgressInv(q), faults' \in faults .. MaxFaults,
           payload'[q].res = payload[q].res, rpc'[q] = rpc[q], hook'[q] = hook[q],
           outcome'[q] = outcome[q], report'[q] = report[q], status'[q] = status[q],
           rpc[q] # "idle" => answer'[q] = answer[q] /\ row'[q] = row[q]
    PROVE  ProgressInv(q)'
<1>1. faults' = 0 => faults = 0
  BY AtSession, HandoffTyped
<1> QED BY <1>1 DEF ProgressInv

LEMMA RunTelling ==
    ASSUME HandoffInv, TellingInv, UNCHANGED creation, NEW s \in Sessions, RunStep(s) \/ Crash(s)
    PROVE  TellingInv'
<1>1. RunKept(s)
  BY VerifyKept, SealKept, ExecKept, DisposeKept, ReportKept, MarkKept, MarkFailedKept,
     CrashKept DEF RunStep
<1>2. RunFrame(s)
  BY VerifyFrame, SealFrame, ExecFrame, DisposeFrame, ReportFrame, MarkFrame,
     MarkFailedFrame, CrashFrame DEF RunStep
<1>3. Landing(s)
  BY RunLands DEF TellingInv
<1>4. answer' = answer /\ row' = row
  BY DEF creation
<1>5. ASSUME NEW q \in Sessions PROVE ProgressInv(q)'
  <2>1. CASE q # s
    BY <1>2, <1>4, <2>1, ProgressKept DEF RunFrame, TellingInv
  <2>2. CASE q = s /\ faults' = 0
    BY <1>1, <1>4, <2>2, StepWritten, WrittenProgress DEF TellingInv
  <2>3. CASE q = s /\ faults' # 0
    <3>1. rpc[s] # "idle"
      BY DEF RunStep, Verify, Seal, Exec, DisposeSession, SaveReport, MarkOutcome, MarkFailed,
             Crash
    <3> QED BY <1>4, <2>3, <3>1 DEF ProgressInv, TellingInv
  <2> QED BY <2>1, <2>2, <2>3
<1> QED BY <1>1, <1>2, <1>3, <1>5, RunTells DEF TellingInv

LEMMA StartTelling ==
    ASSUME CreationInv, HandoffInv, TellingInv, UNCHANGED creation, NEW s \in Sessions, Start(s)
    PROVE  TellingInv'
<1>1. row[s].webhook \in BOOLEAN /\ StartRun(s, row[s].webhook) /\ answer[s] = 201
  BY SessionsAreRequests DEF Start, CreationInv, CreatedInv, Rows
<1>2. RunKept(s) /\ RunFrame(s)
  BY <1>1, StartKept, StartFrame
<1>3. UNCHANGED <<payload, queue, outcome, report, status>> /\ rpc[s] = "idle"
  BY <1>1 DEF StartRun, store, records
<1>4. Landing(s)
  <2>1. queue \in Seq(Sessions) BY DEF HandoffInv, HandoffTypeOK
  <2>2. Len(Append(queue, s)) = Len(queue) + 1 /\ Len(queue) \in Nat BY <2>1
  <2> QED BY <1>3, <2>2 DEF Landing
<1>5. answer' = answer /\ row' = row
  BY DEF creation
<1>6. faults' = 0 => hook'[s] = row[s].webhook /\ rpc'[s] = "verify"
  <2> SUFFICES ASSUME faults' = 0 PROVE hook'[s] = row[s].webhook /\ rpc'[s] = "verify"
    OBVIOUS
  <2>1. ~Fault BY NoFault
  <2> QED BY <1>1, <2>1 DEF StartRun, Attempt, RunTo, HandoffInv, HandoffTypeOK
<1>7. ASSUME NEW q \in Sessions PROVE ProgressInv(q)'
  <2>1. CASE q # s
    BY <1>2, <1>5, <2>1, ProgressKept DEF RunFrame, TellingInv
  <2>2. CASE q = s
    BY <1>1, <1>5, <1>6, <2>2 DEF ProgressInv
  <2> QED BY <2>1, <2>2
<1> QED BY <1>2, <1>4, <1>7, RunTells DEF TellingInv

LEMMA PopTelling ==
    ASSUME HandoffInv, TellingInv, UNCHANGED creation, Pop
    PROVE  TellingInv'
<1>1. /\ UNCHANGED <<payload, rpc, hook, outcome, report, status, told, faults>>
      /\ hand = Nobody /\ queue \in Seq(Sessions) /\ queue # <<>>
      /\ hand' = Head(queue) /\ queue' = Tail(queue)
  BY DEF Pop, run, records, HandoffInv, HandoffTypeOK
<1>2. answer' = answer /\ row' = row
  BY DEF creation
<1> SUFFICES ASSUME NEW q \in Sessions PROVE WordInv(q)' /\ ProgressInv(q)' /\ OnceInv(q)'
  BY DEF TellingInv
<1>3. WordInv(q) /\ ProgressInv(q) /\ OnceInv(q) BY DEF TellingInv
<1>4. q \in Pending' <=> q \in Pending
  BY <1>1, Popped, HandoffTyped DEF Pending
<1>5. WordInv(q)' BY <1>1, <1>3, <1>4 DEF WordInv
<1>6. ProgressInv(q)' BY <1>1, <1>2, <1>3 DEF ProgressInv
<1>7. OnceInv(q)' BY <1>1, <1>3, <1>4, Popped DEF OnceInv
<1> QED BY <1>5, <1>6, <1>7

LEMMA TellTelling ==
    ASSUME HandoffInv, TellingInv, UNCHANGED creation, Tell
    PROVE  TellingInv'
<1> DEFINE word == IF PayloadLive(hand) THEN payload[hand].res ELSE "delivery-failed"
<1> DEFINE Words == {"verified", "failed", "delivery-failed"}
<1>1. /\ UNCHANGED <<payload, queue, rpc, hook, outcome, report, status, faults>>
      /\ hand \in Sessions /\ hand' = Nobody /\ Nobody \notin Sessions
      /\ told' = [told EXCEPT ![hand] = Append(told[hand], word)]
      /\ told \in [Sessions -> Seq(Words)]
  BY HandoffTyped DEF Tell, store, run, records, HandoffInv, HandoffTypeOK
<1>2. word \in Words /\ word \in {payload[hand].res, "delivery-failed"}
  BY <1>1, AtSession DEF RunInv
<1>3. answer' = answer /\ row' = row
  BY DEF creation
<1> HIDE DEF word, Words
<1>4. told[hand] \in Seq(Words) /\ told'[hand] = Append(told[hand], word)
  BY <1>1
<1>5. /\ Len(told'[hand]) = Len(told[hand]) + 1 /\ told'[hand] # <<>>
      /\ told'[hand][Len(told[hand]) + 1] = word
  BY <1>2, <1>4
<1>6. Last(told'[hand]) = word BY <1>5 DEF Last
<1> SUFFICES ASSUME NEW q \in Sessions PROVE WordInv(q)' /\ ProgressInv(q)' /\ OnceInv(q)'
  BY DEF TellingInv
<1>7. WordInv(q) /\ ProgressInv(q) /\ OnceInv(q) BY DEF TellingInv
<1>8. /\ q # hand => told'[q] = told[q] /\ (q \in Pending' <=> q \in Pending)
      /\ q = hand => q \in Pending
      /\ q \in Pending' => q \in Range(queue)
  BY <1>1 DEF Pending
<1>9. WordInv(q)'
  <2>1. CASE q # hand BY <1>1, <1>7, <1>8, <2>1 DEF WordInv
  <2>2. CASE q = hand
    <3>1. hook[q] /\ payload[q].res # "none"
      BY <1>8, <2>2 DEF HandoffInv, QueuedDeliverable
    <3> QED BY <1>1, <1>2, <1>6, <2>2, <3>1 DEF WordInv
  <2> QED BY <2>1, <2>2
<1>10. ProgressInv(q)' BY <1>1, <1>3, <1>7 DEF ProgressInv
<1>11. ASSUME faults' = 0 PROVE OnceInv(q)'
  <2>1. CASE q # hand BY <1>1, <1>7, <1>8, <2>1 DEF OnceInv
  <2>2. CASE q = hand
    <3>1. told[q] = <<>> /\ q \notin Range(queue)
      BY <1>1, <1>7, <1>8, <1>11, <2>2 DEF OnceInv
    <3>2. Len(told'[q]) = 1 BY <1>5, <2>2, <3>1
    <3>3. q \notin Pending' BY <1>8, <3>1
    <3> QED BY <1>1, <1>7, <1>11, <3>1, <3>2, <3>3 DEF OnceInv
  <2> QED BY <2>1, <2>2
<1>12. OnceInv(q)' BY <1>11 DEF OnceInv
<1> QED BY <1>9, <1>10, <1>12

LEMMA TimeTelling ==
    ASSUME HandoffInv, TellingInv, UNCHANGED creation, TimePasses
    PROVE  TellingInv'
<1>1. /\ UNCHANGED <<queue, rpc, hook, outcome, report, status, hand, told, faults>>
      /\ \A q \in Sessions : payload'[q].res = payload[q].res
  BY AtSession DEF TimePasses, records, consumer
<1>2. answer' = answer /\ row' = row
  BY DEF creation
<1> QED BY <1>1, <1>2 DEF TellingInv, WordInv, ProgressInv, OnceInv, Pending

\* A session whose run has begun was answered, and no handler works on it any more.
LEMMA CreationTelling ==
    ASSUME CreationInv, HandoffInv, TellingInv, UNCHANGED handoff,
           NEW r \in Requests, Creation(r)
    PROVE  TellingInv'
<1>1. UNCHANGED <<payload, queue, rpc, hook, outcome, report, status, hand, told, faults>>
  BY DEF handoff, store, run, records, consumer
<1> SUFFICES ASSUME NEW q \in Sessions PROVE WordInv(q)' /\ ProgressInv(q)' /\ OnceInv(q)'
  BY DEF TellingInv
<1>2. WordInv(q) /\ ProgressInv(q) /\ OnceInv(q) BY DEF TellingInv
<1>3. ASSUME rpc[q] # "idle" PROVE answer'[q] = answer[q] /\ row'[q] = row[q]
  <2>1. phase[q] = "answered" /\ q \in Requests
    BY <1>2, <1>3, SessionsAreRequests DEF ProgressInv, CreationInv, CreatedInv
  <2>2. q # r
    BY <2>1 DEF Creation, Turned, Validate, CreateFails, Mint, Unsign, Store, Respond
  <2> QED BY <2>1, <2>2, OthersKept
<1>4. WordInv(q)' BY <1>1, <1>2 DEF WordInv, Pending
<1>5. OnceInv(q)' BY <1>1, <1>2 DEF OnceInv, Pending
<1>6. ProgressInv(q)'
  <2>1. faults' \in faults .. MaxFaults BY <1>1, AtSession, HandoffTyped
  <2> QED BY <1>1, <1>2, <1>3, <2>1, ProgressKept
<1> QED BY <1>4, <1>5, <1>6

LEMMA TellingStep == IndInv /\ TellingInv /\ [Next]_vars => TellingInv'
<1> SUFFICES ASSUME CreationInv, HandoffInv, TellingInv, [Next]_vars PROVE TellingInv'
  BY DEF IndInv
<1>1. CASE (\E r \in Requests : Creation(r)) /\ UNCHANGED handoff
  BY <1>1, CreationTelling
<1>2. CASE HandoffNext /\ UNCHANGED creation
  BY <1>2, RunTelling, PopTelling, TellTelling, TimeTelling DEF HandoffNext
<1>3. CASE (\E s \in Sessions : Start(s)) /\ UNCHANGED creation
  BY <1>3, StartTelling
<1>4. CASE UNCHANGED vars
  <2>1. UNCHANGED <<payload, queue, rpc, hook, outcome, report, status, hand, told, faults,
                    answer, row>>
    BY <1>4 DEF vars, creation, handoff, store, run, records, consumer
  <2> QED BY <2>1 DEF TellingInv, WordInv, ProgressInv, OnceInv, Pending
<1> QED BY <1>1, <1>2, <1>3, <1>4 DEF Next

\* Deliver, the consumer and the report: how often a session is queued and told, and
\* what it was last told, in every reachable state.
THEOREM TellingInvariance == Spec => []TellingInv
BY Inductive, TellingInit, TellingStep, PTL DEF Spec

\* The last word by webhook is what the saved report says, or that the payload had
\* gone, whatever an entry taken between two deliveries said first.
THEOREM LastWordAgrees == Spec => []WebhookAgrees
<1>1. ASSUME HandoffInv, TellingInv PROVE WebhookAgrees
  <2>1. ASSUME NEW s \in Sessions, rpc[s] = "end", faults <= 1, report[s] # "none",
               s \notin Pending, told[s] # <<>>
        PROVE  Last(told[s]) \in {report[s], "delivery-failed"}
    <3>1. payload[s].res # "none" /\ Last(told[s]) \in {payload[s].res, "delivery-failed"}
      BY <1>1, <2>1 DEF TellingInv, WordInv
    <3>2. RunInv(s) /\ ResultInv(s) /\ faults \in Nat
          /\ report[s] \in {"none", "verified", "failed"}
          /\ payload[s].res \in {"none", "verified", "failed"}
      BY <1>1, AtSession, HandoffTyped
    <3>3. payload[s].res = report[s]
      BY <2>1, <3>1, <3>2 DEF RunInv, ResultInv
    <3> QED BY <3>1, <3>3
  <2> QED BY <2>1 DEF WebhookAgrees
<1>2. IndInv /\ TellingInv => WebhookAgrees BY <1>1 DEF IndInv
<1> QED BY <1>2, Inductive, TellingInvariance, PTL

\* A run without a fault is told on every way there is, and by webhook once or never.
THEOREM FaultlessIsTold == Spec => []FaultlessRunTold
<1>1. ASSUME HandoffInv, TellingInv PROVE FaultlessRunTold
  <2>1. ASSUME NEW s \in Sessions, rpc[s] = "end", faults = 0
        PROVE  /\ ReportRoute(s) = 200
               /\ status[s] = report[s] /\ payload[s].res = report[s]
               /\ s \notin Pending =>
                   /\ Len(told[s]) = IF row[s].webhook THEN 1 ELSE 0
                   /\ Range(told[s]) \subseteq {report[s], "delivery-failed"}
    <3>1. /\ status[s] = report[s] /\ payload[s].res = report[s] /\ report[s] # "none"
          /\ hook[s] = row[s].webhook
      BY <1>1, <2>1 DEF TellingInv, ProgressInv
    <3>2. told[s] \in Seq({"verified", "failed", "delivery-failed"})
      BY <1>1 DEF HandoffInv, HandoffTypeOK
    <3>3. ASSUME s \notin Pending, row[s].webhook
          PROVE  Len(told[s]) = 1 /\ Range(told[s]) \subseteq {report[s], "delivery-failed"}
      <4>1. Len(told[s]) = 1 BY <1>1, <2>1, <3>1, <3>3 DEF TellingInv, OnceInv
      <4>2. DOMAIN told[s] = {1} /\ told[s] # <<>> BY <3>2, <4>1
      <4>3. told[s][1] \in {report[s], "delivery-failed"}
        BY <1>1, <3>1, <3>3, <4>1, <4>2 DEF TellingInv, WordInv, Last
      <4> QED BY <4>1, <4>2, <4>3 DEF Range
    <3>4. ASSUME ~row[s].webhook
          PROVE  Len(told[s]) = 0 /\ Range(told[s]) \subseteq {report[s], "delivery-failed"}
      <4>1. told[s] = <<>> BY <1>1, <3>1, <3>4 DEF TellingInv, WordInv
      <4> QED BY <4>1 DEF Range
    <3> QED BY <3>1, <3>3, <3>4 DEF ReportRoute
  <2> QED BY <2>1 DEF FaultlessRunTold
<1>2. IndInv /\ TellingInv => FaultlessRunTold BY <1>1 DEF IndInv
<1> QED BY <1>2, Inductive, TellingInvariance, PTL

-----------------------------------------------------------------------------
(***************************************************************************)
(* The run implements ResultDelivery.  Each of its calls does one of six   *)
(* things to the result of its own session.                                *)
(***************************************************************************)
Rest(s)     == status'[s] = status[s]
SameDecision(s) == outcome'[s] = outcome[s]
SameHanded(s)   == payload'[s].res = payload[s].res
SameReport(s)   == report'[s] = report[s]

Decides(s)    == /\ outcome[s] = "none" /\ outcome'[s] \in {"verified", "failed"}
                 /\ SameHanded(s) /\ SameReport(s) /\ Rest(s)
HandsOver(s)  == /\ outcome[s] = "verified" /\ report[s] = "none"
                 /\ outcome'[s] \in {"verified", "failed"} /\ payload'[s].res = "verified"
                 /\ SameReport(s) /\ Rest(s)
TakesBack(s)  == /\ outcome[s] = "verified" /\ report[s] = "none" /\ outcome'[s] = "failed"
                 /\ SameHanded(s) /\ SameReport(s) /\ Rest(s)
Reports(s)    == /\ report[s] = "none" /\ outcome[s] # "none" /\ report'[s] = outcome[s]
                 /\ outcome[s] = "verified" => payload[s].res = "verified"
                 /\ SameDecision(s) /\ SameHanded(s) /\ Rest(s)
Replaces(s)   == /\ report[s] = "failed" /\ payload'[s].res = "failed"
                 /\ SameDecision(s) /\ SameReport(s) /\ Rest(s)
Tells(s)      == /\ \/ status'[s] \in {status[s], "failed"}
                    \/ status'[s] = "verified" /\ report[s] = "verified"
                 /\ SameDecision(s) /\ SameHanded(s) /\ SameReport(s)
OneOfSix(s)   == Decides(s) \/ HandsOver(s) \/ TakesBack(s) \/ Reports(s) \/ Replaces(s)
                   \/ Tells(s)

\* A Finalize that fails takes a verified decision back, whether or not the result
\* had landed, and leaves a failed one.
LEMMA FinalizeFailsDoes ==
    ASSUME HandoffInv, NEW s \in Sessions, rpc[s] \in {"seal", "exec", "dispose"},
           FinalizeFails(s), UNCHANGED <<report, status>>,
           payload'[s].res = payload[s].res \/ payload'[s].res = outcome[s]
    PROVE  OneOfSix(s)
<1>1. /\ outcome'[s] = "failed" /\ outcome[s] \in {"verified", "failed"}
      /\ outcome[s] = "verified" => report[s] = "none"
      /\ outcome[s] = "failed" => report[s] = "failed"
  BY AtSession DEF HandoffInv, HandoffTypeOK, FinalizeFails, RunInv
<1> QED BY <1>1 DEF OneOfSix, HandsOver, TakesBack, Replaces, Tells, Rest, SameDecision,
                    SameHanded, SameReport

\* Every step of a run does one of the six.
LEMMA RunDoes ==
    ASSUME HandoffInv, NEW s \in Sessions,
           RunStep(s) \/ Crash(s) \/ \E webhook \in BOOLEAN : StartRun(s, webhook)
    PROVE  OneOfSix(s)
<1>0. /\ RunInv(s) /\ ResultInv(s) /\ outcome[s] \in {"none", "verified", "failed"}
      /\ outcome \in [Sessions -> {"none", "verified", "failed"}]
      /\ report \in [Sessions -> {"none", "verified", "failed"}]
      /\ status \in [Sessions -> {"created", "verified", "failed"}]
      /\ rpc \in [Sessions -> {"idle", "verify", "seal", "exec", "dispose", "report", "mark",
                               "fail", "end"}]
  BY AtSession DEF HandoffInv, HandoffTypeOK
<1>verify. CASE Verify(s)
  BY <1>0, <1>verify DEF Verify, RunInv, store, records, OneOfSix, Decides, SameHanded,
     SameReport, Rest
<1>seal. CASE Seal(s)
  <2>1. rpc[s] = "seal" /\ UNCHANGED <<payload, report, status>>
    BY <1>seal DEF Seal, store, records
  <2>2. CASE UNCHANGED outcome
    BY <2>1, <2>2 DEF OneOfSix, Tells, SameDecision, SameHanded, SameReport
  <2>3. CASE FinalizeFails(s)
    BY <2>1, <2>3, FinalizeFailsDoes
  <2> QED BY <1>seal, <2>2, <2>3 DEF Seal
<1>exec. CASE Exec(s)
  <2>1. rpc[s] = "exec" /\ UNCHANGED <<report, status>>
    BY <1>exec DEF Exec, records
  <2>2. Land(s) => payload'[s].res = outcome[s]
    BY DEF Land, HandoffInv, HandoffTypeOK
  <2>3. CASE Land(s) /\ UNCHANGED outcome
    BY <1>0, <2>1, <2>2, <2>3 DEF RunInv, OneOfSix, HandsOver, Replaces, SameDecision,
       SameReport, Rest
  <2>4. CASE (Land(s) \/ UNCHANGED store) /\ FinalizeFails(s)
    BY <2>1, <2>2, <2>4, FinalizeFailsDoes DEF store
  <2> QED BY <1>exec, <2>3, <2>4 DEF Exec, Attempt
<1>dispose. CASE DisposeSession(s)
  <2>1. rpc[s] = "dispose" /\ UNCHANGED <<payload, report, status>>
    BY <1>dispose DEF DisposeSession, store, records
  <2>2. CASE UNCHANGED outcome
    BY <2>1, <2>2 DEF OneOfSix, Tells, SameDecision, SameHanded, SameReport
  <2>3. CASE FinalizeFails(s)
    BY <2>1, <2>3, FinalizeFailsDoes
  <2> QED BY <1>dispose, <2>2, <2>3 DEF DisposeSession, Attempt
<1>report. CASE SaveReport(s)
  <2>1. /\ rpc[s] = "report" /\ UNCHANGED <<payload, outcome, status>>
        /\ report' = report \/ report'[s] = outcome[s]
    BY <1>0, <1>report DEF SaveReport, Attempt, store
  <2> QED BY <1>0, <2>1 DEF RunInv, ResultInv, OneOfSix, Reports, Tells, SameDecision,
       SameHanded, SameReport, Rest
<1>mark. CASE MarkOutcome(s)
  <2>1. /\ rpc[s] = "mark" /\ UNCHANGED <<payload, outcome, report>>
        /\ status' = status \/ status'[s] = outcome[s]
    BY <1>0, <1>mark DEF MarkOutcome, Attempt, store
  <2> QED BY <1>0, <2>1 DEF RunInv, OneOfSix, Tells, SameDecision, SameHanded, SameReport
<1>fail. CASE MarkFailed(s)
  <2>1. /\ UNCHANGED <<payload, outcome, report>>
        /\ status' = status \/ status'[s] = "failed"
    BY <1>0, <1>fail DEF MarkFailed, Attempt, store
  <2> QED BY <2>1 DEF OneOfSix, Tells, SameDecision, SameHanded, SameReport
<1>rest. CASE Crash(s) \/ \E webhook \in BOOLEAN : StartRun(s, webhook)
  <2>1. UNCHANGED <<payload, outcome, report, status>>
    BY <1>rest DEF Crash, StartRun, store, records
  <2> QED BY <2>1 DEF OneOfSix, Tells, SameDecision, SameHanded, SameReport
<1> QED BY <1>verify, <1>seal, <1>exec, <1>dispose, <1>report, <1>mark, <1>fail, <1>rest
        DEF RunStep

\* What it does to its session's result is a step of ResultDelivery.
LEMMA RunImplements ==
    ASSUME HandoffInv, HandoffInv', NEW s \in Sessions, RunFrame(s), OneOfSix(s)
    PROVE  [Delivery!Next]_Delivery!vars
<1>0. /\ outcome \in [Sessions -> {"none", "verified", "failed"}]
      /\ report \in [Sessions -> {"none", "verified", "failed"}]
      /\ outcome' \in [Sessions -> {"none", "verified", "failed"}]
      /\ report' \in [Sessions -> {"none", "verified", "failed"}]
      /\ status[s] \in {"created", "verified", "failed"}
  BY DEF HandoffInv, HandoffTypeOK
<1>1. \A q \in Sessions \ {s} :
        /\ outcome'[q] = outcome[q] /\ report'[q] = report[q]
        /\ payload'[q] = payload[q] /\ status'[q] = status[q]
  BY DEF RunFrame
<1>outcome. ASSUME NEW v, outcome'[s] = v PROVE outcome' = [outcome EXCEPT ![s] = v]
  BY <1>0, <1>1, <1>outcome
<1>report. ASSUME NEW v, report'[s] = v PROVE report' = [report EXCEPT ![s] = v]
  BY <1>0, <1>1, <1>report
<1>handed. ASSUME NEW v, payload'[s].res = v PROVE HandedOver' = [HandedOver EXCEPT ![s] = v]
  BY <1>1, <1>handed DEF HandedOver
<1>told. ASSUME NEW v \in {"verified", "failed"}, status'[s] = v
         PROVE  StatusTold' = [StatusTold EXCEPT ![s] = v]
  BY <1>1, <1>told DEF StatusTold
<1>same. /\ SameDecision(s) => outcome' = outcome
         /\ SameReport(s) => report' = report
         /\ SameHanded(s) => HandedOver' = HandedOver
         /\ Rest(s) => StatusTold' = StatusTold
  BY <1>0, <1>1 DEF SameDecision, SameReport, SameHanded, Rest, HandedOver, StatusTold
<1>read. HandedOver[s] = payload[s].res
  BY DEF HandedOver
<1>decides. CASE Decides(s)
  BY <1>decides, <1>outcome, <1>same DEF Decides, Delivery!Next, Delivery!Decide
<1>hands. CASE HandsOver(s)
  <2>1. HandedOver' = [HandedOver EXCEPT ![s] = "verified"]
    BY <1>hands, <1>handed DEF HandsOver
  <2>2. outcome' \in {outcome, [outcome EXCEPT ![s] = "failed"]}
    BY <1>0, <1>hands, <1>outcome DEF HandsOver
  <2> QED BY <1>hands, <1>same, <2>1, <2>2
          DEF HandsOver, Delivery!Next, Delivery!HandOver, Delivery!Unreported
<1>takes. CASE TakesBack(s)
  BY <1>takes, <1>outcome, <1>same
     DEF TakesBack, Delivery!Next, Delivery!TakeBack, Delivery!Unreported
<1>reports. CASE Reports(s)
  BY <1>reports, <1>report, <1>read, <1>same DEF Reports, Delivery!Next, Delivery!Report
<1>replaces. CASE Replaces(s)
  BY <1>replaces, <1>handed, <1>same DEF Replaces, Delivery!Next, Delivery!Replace
<1>tells. CASE Tells(s)
  <2>0. /\ UNCHANGED <<outcome, HandedOver, report>>
        /\ \/ Rest(s)
           \/ status'[s] = "failed"
           \/ status'[s] = "verified" /\ report[s] = "verified"
    BY <1>tells, <1>same DEF Tells, Rest
  <2>1. CASE Rest(s)
    BY <1>same, <2>0, <2>1 DEF Delivery!vars
  <2>2. CASE status'[s] = "failed"
    BY <1>told, <2>0, <2>2 DEF Delivery!Next, Delivery!Tell
  <2>3. CASE status'[s] = "verified" /\ report[s] = "verified"
    BY <1>told, <2>0, <2>3 DEF Delivery!Next, Delivery!Tell
  <2> QED BY <2>0, <2>1, <2>2, <2>3
<1> QED BY <1>decides, <1>hands, <1>takes, <1>reports, <1>replaces, <1>tells DEF OneOfSix

\* The consumer, time and creation leave it alone.
LEMMA StepImplements ==
    IndInv /\ IndInv' /\ [Next]_vars => [Delivery!Next]_Delivery!vars
<1> SUFFICES ASSUME CreationInv, HandoffInv, HandoffInv', [Next]_vars
             PROVE  [Delivery!Next]_Delivery!vars
  BY DEF IndInv
<1>same. ASSUME UNCHANGED <<outcome, report, status>>,
                \A s \in Sessions : payload'[s].res = payload[s].res
         PROVE  [Delivery!Next]_Delivery!vars
  BY <1>same DEF Delivery!vars, HandedOver, StatusTold
<1>1. ASSUME NEW s \in Sessions, RunStep(s) \/ Crash(s) PROVE [Delivery!Next]_Delivery!vars
  <2>1. RunFrame(s)
    BY <1>1, VerifyFrame, SealFrame, ExecFrame, DisposeFrame, ReportFrame, MarkFrame,
       MarkFailedFrame, CrashFrame DEF RunStep
  <2> QED BY <1>1, <2>1, RunDoes, RunImplements
<1>2. ASSUME NEW s \in Sessions, Start(s) PROVE [Delivery!Next]_Delivery!vars
  <2>1. row[s].webhook \in BOOLEAN /\ StartRun(s, row[s].webhook)
    BY <1>2, SessionsAreRequests DEF Start, CreationInv, CreatedInv, Rows
  <2> QED BY <2>1, StartFrame, RunDoes, RunImplements
<1>3. CASE Pop \/ Tell
  BY <1>3, <1>same DEF Pop, Tell, run, records, store
<1>4. CASE TimePasses
  <2>1. \A s \in Sessions : payload'[s].res = payload[s].res
    BY <1>4, AtSession DEF TimePasses
  <2> QED BY <1>4, <1>same, <2>1 DEF TimePasses, records
<1>5. CASE UNCHANGED handoff
  BY <1>5, <1>same DEF handoff, store, run, records
<1> QED BY <1>1, <1>2, <1>3, <1>4, <1>5 DEF Next, HandoffNext, vars

\* Finalize, SaveReport and SetStatus: whichever of a run's calls fails, its result is
\* decided, handed over, reported and told as ResultDelivery says.
THEOREM ResultsDelivered == Spec => ImplementsResultDelivery
<1>1. Init => Delivery!Init
  BY DEF Init, HandoffInit, Delivery!Init, HandedOver, StatusTold
<1> QED BY <1>1, StepImplements, Inductive, PTL DEF Spec, ImplementsResultDelivery, Delivery!Spec

\* What ResultDelivery keeps: a report says what was decided, and what is told as
\* verified is reported and to be had.
THEOREM ResultsConsistent == Spec => []Delivery!Consistent
<1>1. Init => Delivery!Consistent
  BY DEF Init, HandoffInit, Delivery!Consistent, HandedOver, StatusTold
<1>2. ASSUME HandoffInv, HandoffInv', Delivery!Consistent, [Delivery!Next]_Delivery!vars
      PROVE  Delivery!Consistent'
  <2>0. /\ outcome \in [Sessions -> {"none", "verified", "failed"}]
        /\ report \in [Sessions -> {"none", "verified", "failed"}]
        /\ HandedOver \in [Sessions -> {"none", "verified", "failed"}]
        /\ StatusTold \in [Sessions -> {"none", "verified", "failed"}]
    BY <1>2 DEF HandoffInv, HandoffTypeOK, HandedOver, StatusTold
  <2> HIDE DEF HandedOver, StatusTold
  <2>1. ASSUME NEW s \in Sessions, Delivery!Decide(s) PROVE Delivery!Consistent'
    BY <1>2, <2>0, <2>1 DEF Delivery!Consistent, Delivery!Decide
  <2>2. ASSUME NEW s \in Sessions, Delivery!HandOver(s) \/ Delivery!TakeBack(s)
        PROVE  Delivery!Consistent'
    BY <1>2, <2>0, <2>2
       DEF Delivery!Consistent, Delivery!HandOver, Delivery!TakeBack, Delivery!Unreported
  <2>3. ASSUME NEW s \in Sessions, Delivery!Report(s) PROVE Delivery!Consistent'
    BY <1>2, <2>0, <2>3 DEF Delivery!Consistent, Delivery!Report
  <2>4. ASSUME NEW s \in Sessions, Delivery!Replace(s) PROVE Delivery!Consistent'
    BY <1>2, <2>0, <2>4 DEF Delivery!Consistent, Delivery!Replace
  <2>5. ASSUME NEW s \in Sessions, Delivery!Tell(s) PROVE Delivery!Consistent'
    BY <1>2, <2>0, <2>5 DEF Delivery!Consistent, Delivery!Tell
  <2>6. CASE UNCHANGED Delivery!vars
    BY <1>2, <2>6 DEF Delivery!Consistent, Delivery!vars
  <2> QED BY <1>2, <2>1, <2>2, <2>3, <2>4, <2>5, <2>6 DEF Delivery!Next
<1>3. IndInv /\ IndInv' /\ Delivery!Consistent /\ [Next]_vars => Delivery!Consistent'
  BY <1>2, StepImplements DEF IndInv
<1> QED BY <1>1, <1>3, Inductive, PTL DEF Spec

\* And an action property of it: no later call changes a report, or what was handed
\* over for a verified one.
THEOREM ReportsFinal == Spec => Delivery!Final
<1>1. ASSUME HandoffInv, NEW s \in Sessions, [Delivery!Next]_Delivery!vars PROVE Delivery!Stands(s)
  <2>0. /\ report \in [Sessions -> {"none", "verified", "failed"}]
        /\ HandedOver \in [Sessions -> {"none", "verified", "failed"}]
    BY <1>1 DEF HandoffInv, HandoffTypeOK, HandedOver
  <2> HIDE DEF HandedOver
  <2> QED BY <1>1, <2>0
          DEF Delivery!Next, Delivery!vars, Delivery!Decide, Delivery!HandOver,
              Delivery!TakeBack, Delivery!Report, Delivery!Replace, Delivery!Tell,
              Delivery!Unreported, Delivery!Stands
<1>2. IndInv /\ IndInv' /\ [Next]_vars
        => [\A r \in Sessions : Delivery!Stands(r)]_Delivery!vars
  BY <1>1, StepImplements DEF IndInv
<1> QED BY <1>2, Inductive, PTL DEF Spec, Delivery!Final

-----------------------------------------------------------------------------
(***************************************************************************)
(* What ResultForgotten needs besides fairness: runs end, and what they    *)
(* have written ages.                                                      *)
(***************************************************************************)
\* What a step does to the session of a run that takes none.
Ages(s) ==
    /\ RunRank(s)' = RunRank(s)
    /\ payload'[s].res = payload[s].res /\ payload'[s].life <= payload[s].life

\* The ranks, one by one.
Ranked(s) ==
    /\ RunRank(s) \in 0 .. 11
    /\ rpc[s] = "idle" => RunRank(s) = 11
    /\ rpc[s] = "verify" => RunRank(s) = 10
    /\ rpc[s] = "seal" => RunRank(s) = IF outcome[s] = "verified" THEN 9 ELSE 4
    /\ rpc[s] = "exec" => RunRank(s) = IF outcome[s] = "verified" THEN 8 ELSE 3
    /\ rpc[s] = "dispose" => RunRank(s) = IF outcome[s] = "verified" THEN 7 ELSE 2
    /\ rpc[s] = "report" => RunRank(s) = 6
    /\ rpc[s] = "mark" => RunRank(s) = 5
    /\ rpc[s] = "fail" => RunRank(s) = 1
    /\ rpc[s] = "end" => RunRank(s) = 0
    /\ rpc[s] # "end" => RunRank(s) > 0

LEMMA RankIs ==
    ASSUME HandoffInv, NEW s \in Sessions
    PROVE  Ranked(s)
<1>1. rpc[s] \in {"idle", "verify", "seal", "exec", "dispose", "report", "mark", "fail", "end"}
  BY AtSession
<1> QED BY <1>1 DEF Ranked, RunRank

\* And after the step.
LEMMA RankWillBe ==
    ASSUME HandoffInv', NEW s \in Sessions
    PROVE  Ranked(s)'
<1>1. rpc'[s] \in {"idle", "verify", "seal", "exec", "dispose", "report", "mark", "fail", "end"}
  BY DEF HandoffInv, HandoffTypeOK
<1> QED BY <1>1 DEF Ranked, RunRank

\* A Finalize that fails has one step less ahead of it than it had.
LEMMA FinalizeFailsRank ==
    ASSUME HandoffInv, HandoffInv', NEW s \in Sessions, FinalizeFails(s),
           rpc[s] \in {"seal", "exec", "dispose"}
    PROVE  RunRank(s)' < RunRank(s)
<1>1. rpc'[s] = IF outcome[s] = "verified" THEN "report" ELSE "fail"
  BY DEF FinalizeFails, RunTo, HandoffInv, HandoffTypeOK
<1>2. CASE outcome[s] = "verified"
  <2>1. RunRank(s)' = 6 /\ RunRank(s) \in 7 .. 9
    BY <1>1, <1>2, RankIs, RankWillBe DEF Ranked
  <2> QED BY <2>1
<1>3. CASE outcome[s] # "verified"
  <2>1. RunRank(s)' = 1 /\ RunRank(s) \in 2 .. 4
    BY <1>1, <1>3, RankIs, RankWillBe DEF Ranked
  <2> QED BY <2>1
<1> QED BY <1>2, <1>3

\* Every call of a run brings it nearer to its end.
LEMMA RunAdvances ==
    ASSUME HandoffInv, HandoffInv', NEW s \in Sessions,
           RunStep(s) \/ Crash(s) \/ \E webhook \in BOOLEAN : StartRun(s, webhook)
    PROVE  RunRank(s)' < RunRank(s)
<1>0. /\ Ranked(s) /\ Ranked(s)'
      /\ rpc \in [Sessions -> {"idle", "verify", "seal", "exec", "dispose", "report", "mark",
                               "fail", "end"}]
      /\ outcome \in [Sessions -> {"none", "verified", "failed"}]
  BY RankIs, RankWillBe DEF HandoffInv, HandoffTypeOK
<1>to. ASSUME NEW pc, RunTo(s, pc) PROVE rpc'[s] = pc
  BY <1>0, <1>to DEF RunTo
<1>verify. CASE Verify(s)
  <2>1. rpc[s] = "verify" /\ rpc'[s] \in {"seal", "report"}
    BY <1>verify, <1>to DEF Verify
  <2> QED BY <1>0, <2>1 DEF Ranked
<1>seal. CASE Seal(s)
  <2>1. rpc[s] = "seal"
    BY <1>seal DEF Seal
  <2>2. CASE RunTo(s, "exec") /\ UNCHANGED outcome
    BY <1>0, <1>to, <2>1, <2>2 DEF Ranked
  <2> QED BY <1>seal, <2>1, <2>2, FinalizeFailsRank DEF Seal
<1>exec. CASE Exec(s)
  <2>1. rpc[s] = "exec"
    BY <1>exec DEF Exec
  <2>2. CASE RunTo(s, "dispose") /\ UNCHANGED outcome
    BY <1>0, <1>to, <2>1, <2>2 DEF Ranked
  <2> QED BY <1>exec, <2>1, <2>2, FinalizeFailsRank DEF Exec, Attempt
<1>dispose. CASE DisposeSession(s)
  <2>1. rpc[s] = "dispose"
    BY <1>dispose DEF DisposeSession
  <2>2. CASE RunTo(s, IF outcome[s] = "verified" THEN "report" ELSE "fail") /\ UNCHANGED outcome
    BY <1>0, <1>to, <2>1, <2>2 DEF Ranked
  <2> QED BY <1>dispose, <2>1, <2>2, FinalizeFailsRank DEF DisposeSession, Attempt
<1>report. CASE SaveReport(s)
  <2>1. rpc[s] = "report" /\ rpc'[s] \in {"mark", "fail"}
    BY <1>report, <1>to DEF SaveReport, Attempt
  <2> QED BY <1>0, <2>1 DEF Ranked
<1>mark. CASE MarkOutcome(s)
  <2>1. /\ rpc[s] = "mark" /\ UNCHANGED outcome
        /\ rpc'[s] = AfterMark(s, "end") \/ rpc'[s] = AfterMark(s, "fail")
    BY <1>mark, <1>to DEF MarkOutcome, Attempt
  <2> QED BY <1>0, <2>1 DEF Ranked, AfterMark
<1>fail. CASE MarkFailed(s)
  <2>1. rpc[s] = "fail" /\ rpc'[s] = "end"
    BY <1>fail, <1>to DEF MarkFailed
  <2> QED BY <1>0, <2>1 DEF Ranked
<1>crash. CASE Crash(s)
  <2>1. rpc[s] # "end" /\ rpc'[s] = "end"
    BY <1>crash, <1>to DEF Crash
  <2> QED BY <1>0, <2>1 DEF Ranked
<1>start. CASE \E webhook \in BOOLEAN : StartRun(s, webhook)
  <2>1. rpc[s] = "idle" /\ rpc'[s] \in {"verify", "fail"}
    BY <1>start, <1>to DEF StartRun, Attempt
  <2> QED BY <1>0, <2>1 DEF Ranked
<1> QED BY <1>verify, <1>seal, <1>exec, <1>dispose, <1>report, <1>mark, <1>fail, <1>crash,
           <1>start DEF RunStep

\* What other runs, the consumer and creation leave alone does not change.
LEMMA StandsStill ==
    ASSUME HandoffInv, NEW s \in Sessions,
           rpc'[s] = rpc[s], outcome'[s] = outcome[s], payload'[s] = payload[s]
    PROVE  Ages(s)
<1>1. RunRank(s)' = RunRank(s)
  BY DEF RunRank
<1>2. payload[s].life \in 0 .. HardCap /\ HardCap \in Nat
  BY AtSession, HandoffTyped
<1> QED BY <1>1, <1>2 DEF Ages

\* A tick ages every payload there is.
LEMMA TimeAges ==
    ASSUME HandoffInv, NEW s \in Sessions, TimePasses
    PROVE  Ages(s) /\ (PayloadLive(s) => payload'[s].life < payload[s].life)
<1>0. payload[s].life \in 0 .. HardCap /\ HardCap \in Nat
  BY AtSession, HandoffTyped
<1>1. RunRank(s)' = RunRank(s)
  BY DEF TimePasses, RunRank
<1>2. payload'[s] = [payload[s] EXCEPT !.life = Less(payload[s].life),
                                       !.due = Less(payload[s].due)]
  BY DEF TimePasses
<1>3. payload'[s].res = payload[s].res /\ payload'[s].life = Less(payload[s].life)
  BY <1>2, AtSession
<1>4. Less(payload[s].life) <= payload[s].life
      /\ (payload[s].life # 0 => Less(payload[s].life) < payload[s].life)
  BY <1>0 DEF Less
<1> QED BY <1>1, <1>3, <1>4 DEF Ages, PayloadLive

\* Every step of the system advances a run or lets payloads age.
LEMMA AdvancesOrAges ==
    ASSUME IndInv, IndInv', [Next]_vars, NEW s \in Sessions
    PROVE  RunRank(s)' < RunRank(s) \/ Ages(s)
<1>0. HandoffInv /\ HandoffInv' /\ CreationInv
  BY DEF IndInv
<1>run. ASSUME NEW q \in Sessions, RunFrame(q),
               RunStep(q) \/ Crash(q) \/ \E webhook \in BOOLEAN : StartRun(q, webhook)
        PROVE  RunRank(s)' < RunRank(s) \/ Ages(s)
  <2>1. CASE q = s
    BY <1>0, <1>run, <2>1, RunAdvances
  <2>2. CASE q # s
    BY <1>0, <1>run, <2>2, StandsStill DEF RunFrame
  <2> QED BY <2>1, <2>2
<1>1. ASSUME NEW q \in Sessions, RunStep(q) \/ Crash(q)
      PROVE  RunRank(s)' < RunRank(s) \/ Ages(s)
  <2>1. RunFrame(q)
    BY <1>0, <1>1, VerifyFrame, SealFrame, ExecFrame, DisposeFrame, ReportFrame, MarkFrame,
       MarkFailedFrame, CrashFrame DEF RunStep
  <2> QED BY <1>1, <1>run, <2>1
<1>2. ASSUME NEW q \in Sessions, Start(q) PROVE RunRank(s)' < RunRank(s) \/ Ages(s)
  <2>1. row[q].webhook \in BOOLEAN /\ StartRun(q, row[q].webhook)
    BY <1>0, <1>2, SessionsAreRequests DEF Start, CreationInv, CreatedInv, Rows
  <2> QED BY <1>0, <1>run, <2>1, StartFrame
<1>3. CASE Pop \/ Tell
  BY <1>0, <1>3, StandsStill DEF Pop, Tell, run, records, store
<1>4. CASE TimePasses
  BY <1>0, <1>4, TimeAges
<1>5. CASE UNCHANGED handoff
  BY <1>0, <1>5, StandsStill DEF handoff, store, run, records
<1> QED BY <1>1, <1>2, <1>3, <1>4, <1>5 DEF Next, HandoffNext, vars

\* finalize.go and queue.go: a run ends after eleven calls at most, whatever fails,
\* and from its last call on a payload only ages.
THEOREM ResultsFade == Spec => PayloadsFade
<1>1. ASSUME IndInv, IndInv', [Next]_vars, NEW s \in Sessions
      PROVE  /\ RunStep(s) \/ Crash(s) => RunRank(s)' < RunRank(s)
             /\ RunRank(s)' = RunRank(s) =>
                 payload'[s].res = payload[s].res /\ payload'[s].life <= payload[s].life
             /\ RunRank(s)' <= RunRank(s)
             /\ TimePasses /\ PayloadLive(s) => payload'[s].life < payload[s].life
  <2>0. HandoffInv /\ HandoffInv'
    BY <1>1 DEF IndInv
  <2>1. RunRank(s) \in 0 .. 11 /\ RunRank(s)' \in 0 .. 11
    BY <2>0, RankIs, RankWillBe DEF Ranked
  <2>2. RunRank(s)' < RunRank(s) \/ Ages(s)
    BY <1>1, AdvancesOrAges
  <2>3. RunStep(s) \/ Crash(s) => RunRank(s)' < RunRank(s)
    BY <2>0, RunAdvances
  <2>4. TimePasses /\ PayloadLive(s) => payload'[s].life < payload[s].life
    BY <2>0, TimeAges
  <2>5. /\ RunRank(s)' <= RunRank(s)
        /\ RunRank(s)' = RunRank(s) => Ages(s)
    BY <2>1, <2>2 DEF Ages
  <2> QED BY <2>3, <2>4, <2>5 DEF Ages
<1>2. IndInv /\ IndInv' /\ [Next]_vars =>
        [\A s \in Sessions :
            /\ RunStep(s) \/ Crash(s) => RunRank(s)' < RunRank(s)
            /\ RunRank(s)' = RunRank(s) =>
                payload'[s].res = payload[s].res /\ payload'[s].life <= payload[s].life
            /\ RunRank(s)' <= RunRank(s)
            /\ TimePasses /\ PayloadLive(s) => payload'[s].life < payload[s].life]_handoff
  BY <1>1
<1> QED BY <1>2, Inductive, PTL DEF Spec, PayloadsFade
=============================================================================
