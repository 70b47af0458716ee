-------------------------- MODULE CredentialLifeProofs --------------------------
(***************************************************************************)
(* What the validity model makes of the time between issuance and          *)
(* presentation, for any lengths of the windows and any number of days.    *)
(***************************************************************************)
EXTENDS CredentialLife, VerificationPipelineProofs

\* The history only adds to the pipeline: it is one of its runs.
LEMMA LifeSteps == [LifeNext]_<<vars, life>> => [Next]_vars
<1>1. ASSUME Living PROVE UNCHANGED vars
  BY <1>1 DEF Living
<1>2. ASSUME Respond PROVE Next
  BY <1>2 DEF Respond, Next
<1>3. ASSUME Peek PROVE Next
  BY <1>3 DEF Peek, Next
<1>4. ASSUME JudgeIssuer PROVE Next
  BY <1>4 DEF JudgeIssuer, Next
<1>5. ASSUME JudgeStatus PROVE Next
  BY <1>5 DEF JudgeStatus, Next
<1>6. ASSUME Remaining PROVE Next
  BY <1>6 DEF Remaining, Next
<1> QED BY <1>1, <1>2, <1>3, <1>4, <1>5, <1>6 DEF LifeNext

\* Everything that is proved of a run holds of one whose credential has a history.
THEOREM LifeIsPipeline == LifeSpec => Spec
<1>1. LifeInit => Init
  BY DEF LifeInit
<1> QED BY <1>1, LifeSteps, PTL DEF LifeSpec, Spec

-----------------------------------------------------------------------------
\* A credential is signed on a day on which its issuer's certificate has begun and that
\* has come; an mdoc says which.
HeldInv ==
    /\ today \in Nat /\ signer.from \in Nat /\ signer.from <= today /\ signer.until \in Nat
    /\ Tracked =>
        /\ held.path.from \in Nat /\ held.path.until \in Nat /\ held.format \in Formats
        /\ held.path.from <= today
        /\ held.iat = NoDay => held.format = "sdjwt"
        /\ held.iat # NoDay => held.iat \in Nat /\ held.path.from <= held.iat /\ held.iat <= today

\* What checks 3 and 5 found of the credential was found on this day; and only that
\* credential's certificate was ever refused.
TimeInv ==
    /\ Past(3) /\ Tracked => verdict[1] \in Findings3
    /\ Past(5) /\ Tracked => status[1] \in Findings5
    /\ failCode = "err:credential:issuer-cert-expired" /\ Tracked =>
        verdict[1] = "certValidity" /\ verdict[1] \in Findings3

\* On the first day there is a certificate and no credential.
LEMMA LifeInvInit == LifeInit => HeldInv /\ TimeInv
  BY LifeTyped DEF LifeInit, Init, HeldInv, TimeInv, Tracked, Past, NoCode, Nothing

\* Issuing, rotating, publishing and the passing of days keep to the calendar.
LEMMA HeldStep == HeldInv /\ [LifeNext]_<<vars, life>> => HeldInv'
<1> SUFFICES ASSUME HeldInv, [LifeNext]_<<vars, life>> PROVE HeldInv'
  OBVIOUS
<1>0. NoDay \notin Nat /\ CertDays \in Nat
  BY LifeTyped
<1>1. CASE Living
  <2>1. ASSUME NEW format \in Formats, NEW iat \in Days \cup {NoDay}, Issue(format, iat)
        PROVE  HeldInv'
    <3>1. /\ held' = [format |-> format, iat |-> iat, path |-> signer,
                      until |-> today + CredentialDays]
          /\ UNCHANGED <<today, signer>> /\ iat \in {today, NoDay}
          /\ format # "sdjwt" => iat = today
      BY <2>1 DEF Issue
    <3> QED BY <1>0, <3>1 DEF HeldInv
  <2>2. CASE Rotate
    BY <1>0, <2>2 DEF Rotate, HeldInv, Tracked
  <2>3. CASE Publish
    BY <2>3 DEF Publish, HeldInv, Tracked
  <2>4. CASE NextDay
    BY <2>4 DEF NextDay, HeldInv, Tracked
  <2> QED BY <1>1, <2>1, <2>2, <2>3, <2>4 DEF Living
<1>2. ASSUME UNCHANGED <<today, signer, held>> PROVE HeldInv'
  BY <1>2 DEF HeldInv, Tracked
<1>3. CASE Respond \/ Peek \/ JudgeIssuer \/ JudgeStatus \/ Remaining \/ UNCHANGED life
  BY <1>2, <1>3 DEF Respond, Peek, JudgeIssuer, JudgeStatus, Remaining, life
<1> QED BY <1>1, <1>3 DEF LifeNext

\* What is known of a credential when checks 3 and 5 judge it does not change any more.
LEMMA FindingsStay ==
  UNCHANGED life => Findings3' = Findings3 /\ Findings5' = Findings5 /\ Tracked' = Tracked
  BY DEF life, Findings3, Findings5, Tracked, Instant, PathValidationTime, TimeConfirmed,
         SigningTimeUsed, StatusInstant, Covers

\* A check that fails before check 4 has delivered nothing.
LEMMA NotPast ==
  ASSUME AcceptInv, check < 11, NEW code, FailsWith(code), code # NoCode, UNCHANGED delivered,
         NEW n \in 1 .. 10
  PROVE  ~(Past(n)')
  BY DEF AcceptInv, Past, FailsWith

\* A step that judges nothing keeps what was judged.
LEMMA JudgedBefore ==
  ASSUME TimeInv, UNCHANGED <<life, verdict, status>>, Past(3)' => Past(3), Past(5)' => Past(5),
         failCode' = failCode \/ failCode' # "err:credential:issuer-cert-expired"
  PROVE  TimeInv'
<1>1. Findings3' = Findings3 /\ Findings5' = Findings5 /\ Tracked' = Tracked
  BY FindingsStay
<1> QED BY <1>1 DEF TimeInv

\* The days of check 3 and of check 5 are the days of the response.
LEMMA TimeStep ==
  ASSUME AcceptInv, ReportInv, TimeInv, [LifeNext]_<<vars, life>>
  PROVE  TimeInv'
<1> DEFINE Own == {"err:credential:binding-failed", "err:presentation:query-unfulfilled",
                   "err:presentation:combined-check", "err:session:handoff-failed"}
<1>0. /\ check < 11 => failCode = NoCode /\ delivered.outcome # "verified"
      /\ NoCode # "err:credential:issuer-cert-expired" /\ check \in 1 .. 11
  BY DEF AcceptInv, NoCode
<1>1. ASSUME check' \in 1 .. 3, failCode' = NoCode PROVE TimeInv'
  BY <1>0, <1>1 DEF TimeInv, Past
<1>2. ASSUME check < 3, NEW code \in Codes, FailsWith(code), UNCHANGED delivered,
             code # "err:credential:issuer-cert-expired"
      PROVE  TimeInv'
  <2>1. ~(Past(3)') /\ ~(Past(5)') /\ failCode' = code
    BY <1>0, <1>2, NotPast, FailCodes DEF FailsWith
  <2> QED BY <1>2, <2>1 DEF TimeInv
<1>3. CASE Living
  BY <1>0, <1>1, <1>3 DEF Living, At, vars
<1>4. CASE Respond
  <2>1. check = 1 /\ UNCHANGED delivered
    BY <1>4 DEF Respond, ResponseIntegrity, At
  <2>2. Passes("pass") \/ \E code \in ResponseCodes : FailsWith(code)
    BY <1>4 DEF Respond, ResponseIntegrity
  <2>3. \A code \in ResponseCodes : code \in Codes /\ code # "err:credential:issuer-cert-expired"
    BY DEF Codes, ResponseCodes
  <2>4. Passes("pass") => check' = 2 /\ failCode' = NoCode
    BY <1>0, <2>1 DEF Passes
  <2> QED BY <1>1, <1>2, <2>1, <2>2, <2>3, <2>4
<1>5. CASE Peek
  <2> DEFINE Unread == {"err:credential:parse", "err:presentation:invalid-response"}
  <2>1. check = 2 /\ UNCHANGED delivered
    BY <1>5 DEF Peek, Parse, At
  <2>2. Passes("pass") \/ \E code \in Unread : FailsWith(code)
    BY <1>5 DEF Peek, Parse
  <2>3. \A code \in Unread : code \in Codes /\ code # "err:credential:issuer-cert-expired"
    BY DEF Codes, ResponseCodes
  <2>4. Passes("pass") => check' = 3 /\ failCode' = NoCode
    BY <1>0, <2>1 DEF Passes
  <2> QED BY <1>1, <1>2, <2>1, <2>2, <2>3, <2>4
<1>6. CASE JudgeIssuer
  <2>1. check = 3 /\ UNCHANGED <<pres, delivered, life>>
    BY <1>6 DEF JudgeIssuer, IssuerAuthenticity, At
  <2>2. Tracked => /\ verdict'[1] \in Findings3
                   /\ \A i \in Creds \ {1} : verdict'[i] \in {"ok", Unset}
    BY <1>6 DEF JudgeIssuer
  <2>3. PICK v \in [Creds -> Verdicts] :
          \/ Passes("pass")
          \/ \E i \in Creds :
             /\ verdict' = [j \in 1 .. MaxCreds |-> IF j <= i THEN v[j] ELSE Unset]
             /\ FailsWith(CodeOf(v[i]))
    BY <1>6 DEF JudgeIssuer, IssuerAuthenticity
  <2>4. Findings3' = Findings3 /\ Tracked' = Tracked
    BY <2>1, FindingsStay
  <2>5. CASE Passes("pass")
    <3>1. check' = 4 /\ failCode' = NoCode
      BY <1>0, <2>1, <2>5 DEF Passes
    <3> QED BY <1>0, <2>2, <2>4, <3>1 DEF TimeInv, Past
  <2>6. ASSUME NEW i \in Creds, FailsWith(CodeOf(v[i])),
               verdict' = [j \in 1 .. MaxCreds |-> IF j <= i THEN v[j] ELSE Unset]
        PROVE  TimeInv'
    <3>1. ~(Past(5)') /\ failCode' = CodeOf(v[i])
      BY <2>1, <2>6, NotPast, FailCodes35 DEF FailsWith
    <3>2. i \in 1 .. MaxCreds /\ verdict'[i] = v[i]
      BY <2>6, CredsNumbered, MaxCredsNat
    <3>3. failCode' = "err:credential:issuer-cert-expired" => v[i] = "certValidity"
      BY <3>1 DEF CodeOf
    <3>4. "certValidity" \notin {"ok", Unset}
      BY DEF Unset
    <3> QED BY <2>2, <2>4, <3>1, <3>2, <3>3, <3>4 DEF TimeInv
  <2> QED BY <2>3, <2>5, <2>6
<1>7. CASE JudgeStatus
  <2>1. check = 5 /\ UNCHANGED <<pres, verdict, delivered, life>>
    BY <1>7 DEF JudgeStatus, Revocation, At
  <2>2. Tracked => status'[1] \in Findings5
    BY <1>7 DEF JudgeStatus
  <2>3. (\E outcome : Passes(outcome)) \/ \E x : FailsWith(StatusCode(x))
    <3>1. PICK s \in [Creds -> StatusAnswers \cup {Unset}] :
            (\E outcome : Passes(outcome)) \/ \E i \in Creds : FailsWith(StatusCode(s[i]))
      BY <1>7 DEF JudgeStatus, Revocation
    <3> QED BY <3>1
  <2>4. failCode' # "err:credential:issuer-cert-expired"
    BY <1>0, <2>1, <2>3 DEF Passes, FailsWith, StatusCode
  <2>5. Past(3)
    BY <1>0, <2>1 DEF Past
  <2>6. Findings3' = Findings3 /\ Findings5' = Findings5 /\ Tracked' = Tracked
    BY <2>1, FindingsStay
  <2> QED BY <2>1, <2>2, <2>4, <2>5, <2>6 DEF TimeInv
<1>8. CASE Remaining
  <2>0. UNCHANGED life
    BY <1>8 DEF Remaining
  <2>1. ASSUME check > 5, check < 11, UNCHANGED <<verdict, status>>,
               \/ \E outcome : Passes(outcome)
               \/ \E code \in Own : FailsWith(code)
        PROVE  TimeInv'
    <3>1. Past(3) /\ Past(5)
      BY <1>0, <2>1 DEF Past
    <3>2. failCode' # "err:credential:issuer-cert-expired"
      BY <1>0, <2>1 DEF Passes, FailsWith
    <3> QED BY <2>0, <2>1, <3>1, <3>2, JudgedBefore
  <2>2. CASE DataIntegrity
    <3>1. check = 4 /\ UNCHANGED <<verdict, status, delivered>>
      BY <2>2 DEF DataIntegrity, At
    <3>2. Past(3)
      BY <1>0, <3>1 DEF Past
    <3>3. Passes("pass") \/ FailsWith("err:credential:integrity")
      BY <2>2 DEF DataIntegrity
    <3>4. ~(Past(5)')
      BY <1>0, <3>1, <3>3, NotPast DEF Passes, Past, NoCode
    <3>5. failCode' # "err:credential:issuer-cert-expired"
      BY <1>0, <3>1, <3>3 DEF Passes, FailsWith
    <3> QED BY <2>0, <3>1, <3>2, <3>4, <3>5, JudgedBefore
  <2>3. CASE DeviceBinding
    <3>1. check = 6 /\ UNCHANGED <<verdict, status>>
      BY <2>3 DEF DeviceBinding, At
    <3>2. (\E outcome : Passes(outcome)) \/ FailsWith("err:credential:binding-failed")
      BY <2>3 DEF DeviceBinding
    <3> QED BY <2>1, <3>1, <3>2
  <2>4. CASE UserBinding \/ QueryFulfilment
    <3>1. check \in {7, 8} /\ UNCHANGED <<verdict, status>>
      BY <2>4 DEF UserBinding, QueryFulfilment, At
    <3>2. Passes("pass") \/ \E code \in Own : FailsWith(code)
      BY <2>4 DEF UserBinding, QueryFulfilment
    <3> QED BY <2>1, <3>1, <3>2
  <2>5. CASE CombinedChecks \/ AssembleForward
    <3>1. check \in {9, 10} /\ UNCHANGED <<verdict, status>>
      BY <2>5 DEF CombinedChecks, AssembleForward, At
    <3>2. Passes("pass") \/ \E code \in Own : FailsWith(code)
      BY <2>5 DEF CombinedChecks, AssembleForward
    <3> QED BY <2>1, <3>1, <3>2
  <2>6. CASE SaveReport \/ Refuse \/ Redirect
    <3>1. UNCHANGED <<check, verdict, status, failCode>>
          /\ (delivered'.outcome = "verified" => delivered' = delivered)
      BY <2>6 DEF SaveReport, Refuse, Redirect
    <3> QED BY <2>0, <3>1, JudgedBefore DEF Past
  <2> QED BY <1>8, <2>2, <2>3, <2>4, <2>5, <2>6 DEF Remaining
<1>9. CASE UNCHANGED <<vars, life>>
  BY <1>9, JudgedBefore DEF vars, Past
<1> QED BY <1>3, <1>4, <1>5, <1>6, <1>7, <1>8, <1>9 DEF LifeNext

\* The invariant of a response whose credential has a history.
LifeInv == AcceptInv /\ ReportInv /\ HeldInv /\ TimeInv

\* It holds throughout: the history of the credential and the pipeline's answers agree.
THEOREM LifeInvariance == LifeSpec => []LifeInv
<1>1. LifeInit => LifeInv
  BY LifeInvInit, AcceptInit, ReportInit DEF LifeInit, LifeInv
<1>2. LifeInv /\ [LifeNext]_<<vars, life>> => LifeInv'
  BY LifeSteps, AcceptStep, ReportStep, HeldStep, TimeStep DEF LifeInv
<1> QED BY <1>1, <1>2, PTL DEF LifeSpec

\* config.go, enforced in both models: what a verified report vouches for is within its
\* window and was signed under a path that was valid then or, under the shell model, is
\* valid now; and the list that did not revoke it has a signer that is valid now.
THEOREM InTime == LifeSpec => []VerifiedInTime
<1>1. LifeInv /\ VerifiedIsAcceptable => VerifiedInTime
  <2> SUFFICES ASSUME LifeInv, VerifiedIsAcceptable, Tracked,
                      Verified \/ delivered.outcome = "verified"
               PROVE  /\ today <= held.until
                      /\ Covers(held.path, IF validity = "chain" /\ held.iat # NoDay
                                             THEN held.iat ELSE today)
                      /\ status[1] = "valid" => Covers(list, today)
    BY DEF VerifiedInTime
  <2>1. Past(3) /\ Past(5)
    BY DEF LifeInv, AcceptInv, Past, Verified, Ended
  <2>2. verdict[1] = "ok"
    <3>1. 1 \in Creds
      BY CredsNumbered DEF LifeInv,  VerifiedIsAcceptable
    <3> QED BY <3>1 DEF VerifiedIsAcceptable, Acceptable
  <2>3. Covers(held.path, Instant) /\ today <= held.until /\ TimeConfirmed
    BY <2>1, <2>2 DEF LifeInv, TimeInv, Findings3, Verifies
  <2>4. status[1] = "valid" => Covers(list, today)
    BY <2>1 DEF LifeInv, TimeInv, Findings5, StatusInstant
  <2>5. Covers(held.path, IF validity = "chain" /\ held.iat # NoDay THEN held.iat ELSE today)
    BY <2>3, LifeTyped
       DEF LifeInv, HeldInv, Covers, Instant, PathValidationTime, TimeConfirmed, SigningTimeUsed
  <2> QED BY <2>3, <2>4, <2>5
<1> QED BY LifeInvariance, LifeIsPipeline, VerifiedAcceptable, <1>1, PTL

\* issuervalidity.go: a credential is refused for its issuer's certificate only if that
\* was not valid at the time its model judges it at: no rotation costs a wallet its
\* credentials under the signing-time model.
THEOREM RotationKeeps == LifeSpec => []RotationSurvived
<1>1. LifeInv => RotationSurvived
  <2> SUFFICES ASSUME LifeInv, Tracked, failCode = "err:credential:issuer-cert-expired",
                      seen = held.iat
               PROVE  ~Covers(held.path, IF validity = "chain" /\ held.iat # NoDay
                                           THEN held.iat ELSE today)
    BY DEF RotationSurvived
  <2>1. ~Covers(held.path, Instant) \/ (held.format = "mdoc" /\ ~TimeConfirmed)
    BY DEF LifeInv, TimeInv, Findings3
  <2> QED BY <2>1, LifeTyped
          DEF LifeInv, HeldInv, Covers, Instant, PathValidationTime, TimeConfirmed, SigningTimeUsed
<1> QED BY LifeInvariance, <1>1, PTL
=============================================================================
