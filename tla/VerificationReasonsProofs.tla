----------------------- MODULE VerificationReasonsProofs -----------------------
(***************************************************************************)
(* What a failed run says of its cause, and what a verified one admits to  *)
(* have let through: for any number of presentations, any set of queries   *)
(* and any errors that the library finds at once.                          *)
(***************************************************************************)
EXTENDS VerificationPipelineProofs

\* Every library answer has one owner, and what check 3 does not stop at is for
\* check 4 or 6.
LEMMA Owners ==
  ASSUME NEW v \in Verdicts
  PROVE  /\ ~Verifies(v) => OwnerOf(v) \in {2, 3, 4, 6}
         /\ OwnerOf(v) = 4 <=> v = "digest"
         /\ OwnerOf(v) = 6 <=> v = "binding"
         /\ ~Verifies(v) /\ ~StopsAt3(v) => OwnerOf(v) \in {4, 6}
         /\ v # Unset
  BY DEF Verdicts, Verifies, OwnerOf, StopsAt3, Unset

\* The failure of check n leaves n rows, and its code.
LEMMA FailedRun ==
  ASSUME ReportInv, check < 11, NEW code \in Codes, FailsWith(code)
  PROVE  /\ failCode = NoCode /\ check \in 1 .. 10
         /\ Len(rows') = check /\ failCode' = code /\ code # NoCode /\ check' = 11
<1>1. failCode = NoCode /\ Len(rows) = check - 1 /\ check \in 1 .. 10
      /\ rows \in Seq({"pass", "fail", "skipped"})
  BY DEF ReportInv, TypeOK
<1>2. Len(Append(rows, "fail")) = Len(rows) + 1
  BY <1>1, RowsGrow
<1> QED BY <1>1, <1>2, FailCodes DEF FailsWith

-----------------------------------------------------------------------------
\* A run that skipped a status lookup has it in its fifth row.
SkipInv ==
    /\ failCode = NoCode /\ check > 5 /\ (\E i \in Creds : Skipped(status[i]))
          => rows[5] = "skipped"

\* Nothing is skipped before check 5.
LEMMA SkipInit == Init => SkipInv
  BY DEF Init, SkipInv

\* A row that is written stays as it is.
LEMMA RowStays ==
  ASSUME ReportInv, NEW outcome \in {"pass", "fail", "skipped"}, failCode = NoCode
  PROVE  /\ check > 5 => Append(rows, outcome)[5] = rows[5]
         /\ check = 5 => Append(rows, outcome)[5] = outcome
<1>1. Len(rows) = check - 1 /\ check \in 1 .. 11 /\ rows \in Seq({"pass", "fail", "skipped"})
  BY DEF ReportInv, TypeOK
<1> QED BY <1>1

\* The fifth row is check 5's, and no later check touches it.
LEMMA SkipStep == ReportInv /\ SkipInv /\ [Next]_vars => SkipInv'
<1> SUFFICES ASSUME ReportInv, SkipInv, [Next]_vars, failCode' = NoCode PROVE SkipInv'
  BY DEF SkipInv
<1>0. check \in 1 .. 11
  BY DEF ReportInv, TypeOK
<1>1. CASE ResponseIntegrity \/ Parse \/ IssuerAuthenticity \/ DataIntegrity
  <2>1. CASE ResponseIntegrity
    BY <2>1, <1>0, FailCodes DEF ResponseIntegrity, At, Passes, FailsWith, Codes, SkipInv
  <2>2. CASE Parse
    BY <2>2, <1>0 DEF Parse, At, Passes, FailsWith, NoCode, SkipInv
  <2>3. CASE IssuerAuthenticity
    <3>1. Passes("pass") \/ \E x : FailsWith(CodeOf(x))
      BY <2>3, LoopsEnd
    <3>2. check = 3
      BY <2>3 DEF IssuerAuthenticity, At
    <3> QED BY <3>1, <3>2, FailCodes35 DEF Passes, FailsWith, SkipInv
  <2>4. CASE DataIntegrity
    BY <2>4, <1>0 DEF DataIntegrity, At, Passes, FailsWith, NoCode, SkipInv
  <2> QED BY <1>1, <2>1, <2>2, <2>3, <2>4
<1>2. CASE Revocation
  <2>1. PICK s \in [Creds -> StatusAnswers \cup {Unset}] :
          \/ /\ status' = [i \in 1 .. MaxCreds |-> IF i \in Creds THEN s[i] ELSE Unset]
             /\ Passes(IF \E i \in Creds : Skipped(s[i]) \/ DeferredTo(i, 6)
                       THEN "skipped" ELSE "pass")
          \/ \E i \in Creds : FailsWith(StatusCode(s[i]))
    BY <1>2 DEF Revocation
  <2>2. CASE \E i \in Creds : FailsWith(StatusCode(s[i]))
    BY <2>2, FailCodes35 DEF FailsWith
  <2>3. CASE /\ status' = [i \in 1 .. MaxCreds |-> IF i \in Creds THEN s[i] ELSE Unset]
             /\ Passes(IF \E i \in Creds : Skipped(s[i]) \/ DeferredTo(i, 6)
                       THEN "skipped" ELSE "pass")
    <3>1. check = 5 /\ Creds' = Creds /\ failCode = NoCode
      BY <1>2, <2>3 DEF Revocation, At, Creds, Passes
    <3>2. Creds \subseteq 1 .. MaxCreds
      BY CredsNumbered, MaxCredsNat
    <3>3. ASSUME NEW i \in Creds, Skipped(status'[i]) PROVE rows' = Append(rows, "skipped")
      <4>1. status'[i] = s[i]
        BY <2>3, <3>2, <3>3
      <4> QED BY <2>3, <3>3, <4>1 DEF Passes
    <3>4. Append(rows, "skipped")[5] = "skipped"
      BY <3>1, RowStays
    <3> QED BY <3>1, <3>3, <3>4 DEF SkipInv
  <2> QED BY <2>1, <2>2, <2>3
<1>3. CASE DeviceBinding \/ UserBinding \/ QueryFulfilment \/ CombinedChecks \/ AssembleForward
  <2>1. check > 5 /\ UNCHANGED <<pres, status>>
    <3>1. DeviceBinding => check = 6 /\ UNCHANGED <<pres, status>>
      BY DEF DeviceBinding, At
    <3>2. UserBinding => check = 7 /\ UNCHANGED <<pres, status>>
      BY DEF UserBinding, At
    <3>3. QueryFulfilment \/ CombinedChecks \/ AssembleForward
              => check \in 8 .. 10 /\ UNCHANGED <<pres, status>>
      BY DEF QueryFulfilment, CombinedChecks, AssembleForward, At
    <3> QED BY <1>3, <3>1, <3>2, <3>3
  <2>2. \E outcome \in {"pass", "skipped"} : Passes(outcome)
    <3>1. \A code : FailsWith(code) => failCode' = code
      BY DEF FailsWith
    <3>2. CASE DeviceBinding
      BY <3>1, <3>2, LoopsEnd DEF NoCode
    <3>4. CASE UserBinding
      BY <3>1, <3>4 DEF UserBinding, NoCode
    <3>5. CASE QueryFulfilment
      BY <3>1, <3>5 DEF QueryFulfilment, NoCode
    <3>6. CASE CombinedChecks
      BY <3>1, <3>6 DEF CombinedChecks, NoCode
    <3>7. CASE AssembleForward
      BY <3>1, <3>7 DEF AssembleForward, NoCode
    <3> QED BY <1>3, <3>2, <3>4, <3>5, <3>6, <3>7
  <2>3. failCode = NoCode /\ rows'[5] = rows[5]
    BY <2>1, <2>2, RowStays DEF Passes
  <2> QED BY <2>1, <2>3 DEF SkipInv, Creds
<1>4. CASE SaveReport \/ Refuse \/ Redirect \/ UNCHANGED vars
  BY <1>4 DEF SaveReport, Refuse, Redirect, vars, SkipInv, Creds
<1> QED BY <1>1, <1>2, <1>3, <1>4 DEF Next

\* README, per-client policy: whatever the deployment relaxes, a verified report shows
\* in its row that the status of a credential was not looked up.
THEOREM SkipsShow == Spec => []SkipVisible
<1>1. SkipInv => SkipVisible
  BY DEF SkipInv, SkipVisible, Skipped, Verified, Ended
<1> QED BY ReportInit, ReportStep, SkipInit, SkipStep, <1>1, PTL DEF Spec

-----------------------------------------------------------------------------
\* The check that reports a library answer, and what a run that is over says of its
\* cause: FailureAttributed, in the words of a single credential.
ReportedAt(v) == IF OwnerOf(v) = 2 THEN 3 ELSE OwnerOf(v)
Erroneous(i)  == verdict[i] # Unset /\ ~Verifies(verdict[i])

Attributed ==
    Len(rows) \in 3 .. 9 =>
        /\ \A i \in Creds : Erroneous(i) => ReportedAt(verdict[i]) >= Len(rows)
        /\ Len(rows) \in {3, 4, 6} =>
            \E i \in Creds : /\ Erroneous(i) /\ ReportedAt(verdict[i]) = Len(rows)
                             /\ failCode = CodeOf(verdict[i])
        /\ Len(rows) = 5 => \E i \in Creds : failCode = StatusCode(status[i])

\* The definitions say the same.
LEMMA AttributedSays == Attributed => FailureAttributed
  BY DEF Attributed, FailureAttributed, ReportedAt, Erroneous

\* A run that failed says why, and what the wallet will be told is that.
EndInv == failCode # NoCode => Attributed /\ VerificationOutcome(failCode) = Cause

\* Nothing failed before the first check.
LEMMA EndInit == Init => EndInv
  BY DEF Init, EndInv

\* The cause of a run that failed outside checks 3 and 5.
LEMMA CauseElsewhere ==
  /\ Len(rows)' = 1 => Cause' = IF failCode' = "err:presentation:wallet-declined"
                                  THEN "declined" ELSE "not_verified"
  /\ Len(rows)' \in {2, 4, 6, 7, 8, 9} => Cause' = "not_verified"
  /\ Len(rows)' = 10 => Cause' = "server_error"
  BY DEF Cause

\* The credential that check 3 stopped at.
StoppedAt(i) == StopsAt3(verdict[i]) /\ \A j \in 1 .. i - 1 : ~StopsAt3(verdict[j])

\* The cause of a run that failed at check 3 is the answer it stopped at.
LEMMA CauseAt3 ==
  ASSUME Len(rows)' = 3, NEW i \in Creds', StoppedAt(i)',
         \A j \in Creds' : StoppedAt(j)' => j = i
  PROVE  Cause' = IF verdict'[i] = "cacheExpired" THEN "server_error"
                  ELSE IF verdict'[i] \in {"validity", "certValidity", "untrusted"}
                         THEN "not_accepted"
                  ELSE "not_verified"
<1>1. Cause' = CASE (\E j \in Creds' : StoppedAt(j)' /\ verdict'[j] \in {"cacheExpired"})
                        -> "server_error"
                 [] (\E j \in Creds' : StoppedAt(j)' /\ verdict'[j] \in {"validity", "certValidity", "untrusted"})
                        -> "not_accepted"
                 [] OTHER -> "not_verified"
  BY DEF Cause, FirstBad, StoppedAt
<1> QED BY <1>1

\* A response that cannot be read says nothing of a credential.
LEMMA Unreadable ==
  ASSUME ReportInv, check < 11, NEW code \in Codes, FailsWith(code),
         \/ check = 1 /\ code \in ResponseCodes
         \/ check = 2 /\ code \in {"err:credential:parse", "err:presentation:invalid-response"}
  PROVE  EndInv'
<1>1. Len(rows') = check /\ failCode' = code
  BY FailedRun
<1>2. Attributed'
  BY <1>1 DEF Attributed
<1>3. VerificationOutcome(code) = IF check = 1 /\ code = "err:presentation:wallet-declined"
                                    THEN "declined" ELSE "not_verified"
  <2>1. ASSUME code # "err:presentation:wallet-declined"
        PROVE  VerificationOutcome(code) = "not_verified"
    <3>1. code \in {"err:presentation:nonce-mismatch", "err:session:consumed",
                    "err:presentation:invalid-response", "err:credential:parse"}
      BY <2>1 DEF ResponseCodes
    <3>2. code \in ClientRated /\ code \notin TrustRefusal
      BY <3>1 DEF TrustRefusal, ClientRated, Codes, ResponseCodes
    <3> QED BY <2>1, <3>2 DEF VerificationOutcome
  <2>2. code = "err:presentation:wallet-declined"
            => check = 1 /\ VerificationOutcome(code) = "declined"
    BY DEF VerificationOutcome, TrustRefusal, ClientRated
  <2> QED BY <2>1, <2>2
<1> QED BY <1>1, <1>2, <1>3, CauseElsewhere DEF EndInv

\* Past check 6 no credential has an error left.
LEMMA NoErrorLeft ==
  ASSUME AcceptInv, failCode = NoCode, check > 6
  PROVE  \A i \in Creds : verdict[i] \in Verdicts /\ Verifies(verdict[i])
<1>1. \A i \in Creds : verdict[i] \in Answers(i) /\ ~StopsAt3(verdict[i])
        /\ ~DeferredTo(i, 4) /\ ~DeferredTo(i, 6)
  BY DEF AcceptInv, Past
<1>2. \A i \in Creds : verdict[i] \in Verdicts
  BY <1>1 DEF Answers
<1> QED BY <1>1, <1>2, Owners DEF DeferredTo

\* Checks 7 to 9 fail on their own account.
LEMMA Combined ==
  ASSUME ReportInv, AcceptInv, check < 11, NEW code \in Codes, FailsWith(code),
         check \in 7 .. 9, UNCHANGED <<pres, verdict>>,
         code \in {"err:credential:binding-failed", "err:presentation:query-unfulfilled",
                   "err:presentation:combined-check"}
  PROVE  EndInv'
<1>1. Len(rows') = check /\ failCode' = code /\ failCode = NoCode
  BY FailedRun
<1>2. \A i \in Creds' : Verifies(verdict'[i])
  BY <1>1, NoErrorLeft DEF Creds
<1>3. Attributed'
  BY <1>1, <1>2 DEF Attributed, Erroneous
<1>5. VerificationOutcome(code) = "not_verified"
  BY DEF VerificationOutcome, TrustRefusal, ClientRated, Codes, ResponseCodes
<1> QED BY <1>1, <1>3, <1>5, CauseElsewhere DEF EndInv

\* Check 10 fails on the engine's account.
LEMMA Undelivered ==
  ASSUME ReportInv, check < 11, FailsWith("err:session:handoff-failed"), check = 10
  PROVE  EndInv'
<1>1. "err:session:handoff-failed" \in Codes
  BY DEF Codes
<1>2. Len(rows') = 10 /\ failCode' = "err:session:handoff-failed"
  BY <1>1, FailedRun
<1>3. Attributed'
  BY <1>2 DEF Attributed
<1>4. VerificationOutcome("err:session:handoff-failed") = "server_error"
  BY DEF VerificationOutcome, TrustRefusal, ClientRated, Codes, ResponseCodes
<1> QED BY <1>2, <1>3, <1>4, CauseElsewhere DEF EndInv

\* Check 3 stops at a credential whose error is its own, or check 2's, and behind
\* those alone whose error has to wait for a later one.
LEMMA IssuerFailed ==
  ASSUME ReportInv, AcceptInv, check = 3, check < 11, UNCHANGED pres,
         NEW v \in [Creds -> Verdicts], NEW i \in Creds,
         StopsAt3(v[i]), \A j \in 1 .. i - 1 : ~StopsAt3(v[j]),
         verdict' = [j \in 1 .. MaxCreds |-> IF j <= i THEN v[j] ELSE Unset],
         FailsWith(CodeOf(v[i]))
  PROVE  EndInv'
<1>0. /\ Len(rows') = 3 /\ failCode' = CodeOf(v[i]) /\ Creds' = Creds
      /\ Creds = 1 .. Len(pres) /\ Len(pres) \in 0 .. MaxCreds /\ MaxCreds \in Nat
  BY FailedRun, CodesTyped, CredsNumbered, MaxCredsNat DEF Creds
<1>1. \A j \in 1 .. MaxCreds : verdict'[j] = IF j <= i THEN v[j] ELSE Unset
  OBVIOUS
<1>2. verdict'[i] = v[i] /\ v[i] \in Verdicts /\ i \in 1 .. MaxCreds
  BY <1>0, <1>1
<1>3. \A j \in 1 .. i - 1 : verdict'[j] = v[j] /\ v[j] \in Verdicts
  BY <1>0, <1>1
<1>4. \A j \in Creds : j > i => verdict'[j] = Unset
  BY <1>0, <1>1
<1>5. Attributed'
  <2>1. Erroneous(i)' /\ ReportedAt(verdict'[i]) = 3
    BY <1>2, Owners DEF Erroneous, ReportedAt, StopsAt3
  <2>2. ASSUME NEW j \in Creds, Erroneous(j)' PROVE ReportedAt(verdict'[j]) >= 3
    <3>1. verdict'[j] \in Verdicts /\ ~Verifies(verdict'[j])
      BY <1>0, <1>1, <1>4, <2>2 DEF Erroneous
    <3> QED BY <3>1, Owners DEF ReportedAt
  <2>3. failCode' = CodeOf(verdict'[i]) /\ i \in Creds' /\ Len(rows') = 3
    BY <1>0, <1>2
  <2>4. verdict'[i] # Unset /\ ~Verifies(verdict'[i])
    BY <2>1 DEF Erroneous
  <2>5. \A j \in Creds' : verdict'[j] # Unset /\ ~Verifies(verdict'[j])
                           => ReportedAt(verdict'[j]) >= 3
    BY <1>0, <2>2 DEF Erroneous
  <2>6. \A j \in Creds' : Erroneous(j)' => ReportedAt(verdict'[j]) >= Len(rows')
    BY <2>3, <2>5 DEF Erroneous
  <2>7. \E j \in Creds' : /\ Erroneous(j)' /\ ReportedAt(verdict'[j]) = Len(rows')
                          /\ failCode' = CodeOf(verdict'[j])
    BY <2>1, <2>3
  <2>8. Len(rows') # 5
    BY <2>3
  <2> QED BY <2>6, <2>7, <2>8 DEF Attributed, Erroneous
<1>6. Cause' = VerificationOutcome(CodeOf(v[i]))
  <2>1. \A j \in Creds' : /\ \A k \in 1 .. j - 1 : ~StopsAt3(verdict'[k])
                          /\ StopsAt3(verdict'[j])
                          => j = i
    <3>1. ASSUME NEW j \in Creds, j < i PROVE ~StopsAt3(verdict'[j])
      BY <1>0, <1>3, <3>1
    <3>2. ASSUME NEW j \in Creds, j > i PROVE i \in 1 .. j - 1
      BY <1>0, <3>2
    <3>3. i \in 1 .. MaxCreds /\ StopsAt3(verdict'[i])
      BY <1>2
    <3>4. ASSUME NEW j \in Creds, j \in Nat, i \in Nat, j # i, StopsAt3(verdict'[j]),
                 \A k \in 1 .. j - 1 : ~StopsAt3(verdict'[k])
          PROVE  FALSE
      BY <3>1, <3>2, <3>3, <3>4
    <3>5. i \in Nat /\ \A j \in Creds' : j \in Creds /\ j \in Nat
      BY <1>0
    <3> QED BY <3>4, <3>5
  <2>2. \A k \in 1 .. i - 1 : ~StopsAt3(verdict'[k])
    BY <1>3
  <2>3. StoppedAt(i)' /\ \A j \in Creds' : StoppedAt(j)' => j = i
    BY <1>0, <1>2, <2>1, <2>2 DEF StoppedAt
  <2>4. Cause' = IF v[i] = "cacheExpired" THEN "server_error"
                 ELSE IF v[i] \in {"validity", "certValidity", "untrusted"} THEN "not_accepted"
                 ELSE "not_verified"
    BY <1>0, <1>2, <2>3, CauseAt3
  <2>5. v[i] \in {"malformed", "cacheExpired", "validity", "certValidity", "untrusted"}
    BY <1>2 DEF StopsAt3, OwnerOf, Verdicts, Verifies
  <2>6. VerificationOutcome("err:trust:anchor-unavailable") = "server_error"
    BY DEF VerificationOutcome, TrustRefusal, ClientRated
  <2>7. \A code \in {"err:credential:issuer-untrusted", "err:credential:issuer-cert-expired",
                    "err:credential:expired"} : VerificationOutcome(code) = "not_accepted"
    BY DEF VerificationOutcome, TrustRefusal, ClientRated
  <2>8. VerificationOutcome("err:credential:parse") = "not_verified"
    BY DEF VerificationOutcome, TrustRefusal, ClientRated, Codes
  <2> QED BY <2>4, <2>5, <2>6, <2>7, <2>8 DEF CodeOf
<1> QED BY <1>0, <1>5, <1>6 DEF EndInv

\* When check 4, 5 or 6 runs, the errors left are its own or a later one's.
LEMMA ErrorsLeft ==
  ASSUME AcceptInv, failCode = NoCode, check \in 4 .. 6
  PROVE  \A i \in Creds : Erroneous(i) => ReportedAt(verdict[i]) >= check
<1> SUFFICES ASSUME NEW i \in Creds, Erroneous(i) PROVE ReportedAt(verdict[i]) >= check
  OBVIOUS
<1>1. verdict[i] \in Answers(i) /\ ~StopsAt3(verdict[i]) /\ (check > 4 => ~DeferredTo(i, 4))
  BY DEF AcceptInv, Past
<1>2. verdict[i] \in Verdicts /\ ~Verifies(verdict[i])
  BY <1>1 DEF Answers, Erroneous
<1>3. OwnerOf(verdict[i]) \in {4, 6} /\ (check > 4 => OwnerOf(verdict[i]) = 6)
  BY <1>1, <1>2, Owners DEF DeferredTo
<1> QED BY <1>3 DEF ReportedAt

\* Checks 4 and 6 report the errors that check 3 left them.
LEMMA DeferredFailed ==
  ASSUME ReportInv, AcceptInv, check \in {4, 6}, check < 11, UNCHANGED <<pres, verdict>>,
         NEW i \in Creds, DeferredTo(i, check), FailsWith(CodeOf(verdict[i]))
  PROVE  EndInv'
<1>0. /\ Len(rows') = check /\ failCode' = CodeOf(verdict[i]) /\ Creds' = Creds
      /\ failCode = NoCode
  BY FailedRun, CodesTyped DEF Creds
<1>1. verdict[i] \in Verdicts
  <2>1. failCode = NoCode /\ check > 3
    BY <1>0
  <2>2. verdict[i] \in Answers(i)
    BY <2>1 DEF AcceptInv, Past
  <2> QED BY <2>2 DEF Answers
<1>2. Erroneous(i) /\ ReportedAt(verdict[i]) = check
  BY <1>1, Owners DEF Erroneous, ReportedAt, DeferredTo
<1>3. verdict[i] = IF check = 4 THEN "digest" ELSE "binding"
  BY <1>1, Owners DEF DeferredTo
<1>4. Attributed'
  <2>1. \A j \in Creds' : Erroneous(j)' => ReportedAt(verdict'[j]) >= Len(rows')
    BY <1>0, ErrorsLeft DEF Erroneous
  <2>2. \E j \in Creds' : /\ Erroneous(j)' /\ ReportedAt(verdict'[j]) = Len(rows')
                          /\ failCode' = CodeOf(verdict'[j])
    BY <1>0, <1>2 DEF Erroneous
  <2>3. Len(rows') # 5
    BY <1>0
  <2> QED BY <2>1, <2>2, <2>3 DEF Attributed, Erroneous
<1>5. VerificationOutcome(CodeOf(verdict[i])) = "not_verified"
  <2>1. CodeOf(verdict[i]) \in {"err:credential:integrity", "err:credential:binding-failed"}
    BY <1>3 DEF CodeOf
  <2>2. VerificationOutcome("err:credential:integrity") = "not_verified"
    BY DEF VerificationOutcome, TrustRefusal, ClientRated, Codes
  <2>3. VerificationOutcome("err:credential:binding-failed") = "not_verified"
    BY DEF VerificationOutcome, TrustRefusal, ClientRated, Codes
  <2> QED BY <2>1, <2>2, <2>3
<1>6. Cause' = "not_verified"
  BY <1>0, CauseElsewhere
<1> QED BY <1>0, <1>4, <1>5, <1>6 DEF EndInv

\* The cause of a run that failed at check 5.
LEMMA CauseAt5 ==
  ASSUME Len(rows)' = 5
  PROVE  Cause' = IF \E i \in Creds' : status'[i] \in {"revoked", "suspended"}
                    THEN "not_accepted" ELSE "not_verified"
  BY DEF Cause

\* Check 5 stops at a credential that is revoked, or of which nothing can be said.
LEMMA StatusFailed ==
  ASSUME ReportInv, AcceptInv, check = 5, check < 11, UNCHANGED <<pres, verdict>>,
         NEW s \in [Creds -> StatusAnswers \cup {Unset}], NEW i \in Creds,
         StopsAt5(s[i]), \A j \in 1 .. i - 1 : ~StopsAt5(s[j]),
         status' = [j \in 1 .. MaxCreds |-> IF j <= i THEN s[j] ELSE Unset],
         FailsWith(StatusCode(s[i]))
  PROVE  EndInv'
<1>0. /\ Len(rows') = 5 /\ failCode' = StatusCode(s[i]) /\ Creds' = Creds /\ failCode = NoCode
      /\ Creds = 1 .. Len(pres) /\ Len(pres) \in 0 .. MaxCreds /\ MaxCreds \in Nat
  BY FailedRun, CodesTyped, CredsNumbered, MaxCredsNat DEF Creds
<1>1. \A j \in 1 .. MaxCreds : status'[j] = IF j <= i THEN s[j] ELSE Unset
  OBVIOUS
<1>2. status'[i] = s[i]
  BY <1>0, <1>1
<1>3. Attributed'
  <2>1. \A j \in Creds' : Erroneous(j)' => ReportedAt(verdict'[j]) >= Len(rows')
    BY <1>0, ErrorsLeft DEF Erroneous
  <2>2. \E j \in Creds' : failCode' = StatusCode(status'[j])
    BY <1>0, <1>2
  <2>3. Len(rows') \notin {3, 4, 6}
    BY <1>0
  <2> QED BY <2>1, <2>2, <2>3 DEF Attributed, Erroneous
<1>4. (\E j \in Creds' : status'[j] \in {"revoked", "suspended"})
          <=> s[i] \in {"revoked", "suspended"}
  <2>1. ASSUME NEW j \in Creds, status'[j] \in {"revoked", "suspended"} PROVE j = i
    <3>1. j \in 1 .. i - 1 \/ j = i \/ (j \in 1 .. MaxCreds /\ j > i)
      BY <1>0
    <3>2. j > i /\ j \in 1 .. MaxCreds => status'[j] = Unset
      BY <1>0, <1>1
    <3>3. j \in 1 .. i - 1 => status'[j] = s[j] /\ ~StopsAt5(s[j])
      BY <1>0, <1>1
    <3> QED BY <2>1, <3>1, <3>2, <3>3 DEF StopsAt5, Unset
  <2> QED BY <1>0, <1>2, <2>1
<1>5. VerificationOutcome(StatusCode(s[i])) = IF s[i] \in {"revoked", "suspended"}
                                                THEN "not_accepted" ELSE "not_verified"
  <2>1. VerificationOutcome("err:revocation:revoked") = "not_accepted"
    BY DEF VerificationOutcome, TrustRefusal, ClientRated
  <2>2. VerificationOutcome("err:revocation:unavailable") = "not_verified"
    BY DEF VerificationOutcome, TrustRefusal, ClientRated, Codes
  <2> QED BY <2>1, <2>2 DEF StatusCode
<1> QED BY <1>0, <1>3, <1>4, <1>5, CauseAt5 DEF EndInv

\* A check that passes has nothing to account for.
LEMMA PassGoesOn ==
  ASSUME ReportInv, check < 11, NEW outcome, Passes(outcome)
  PROVE  EndInv'
<1>1. failCode' = NoCode
  BY DEF ReportInv, TypeOK, Passes
<1> QED BY <1>1 DEF EndInv

\* What failed and why is settled when the run is over.
LEMMA EndStep == ReportInv /\ AcceptInv /\ EndInv /\ [Next]_vars => EndInv'
<1> SUFFICES ASSUME ReportInv, AcceptInv, EndInv, [Next]_vars PROVE EndInv'
  OBVIOUS
<1>1. CASE ResponseIntegrity
  <2>1. check = 1 /\ check < 11
    BY <1>1 DEF ResponseIntegrity, At
  <2>2. Passes("pass") \/ \E code \in ResponseCodes : FailsWith(code)
    BY <1>1 DEF ResponseIntegrity
  <2>3. ResponseCodes \subseteq Codes
    BY DEF Codes
  <2> QED BY <2>1, <2>2, <2>3, PassGoesOn, Unreadable
<1>2. CASE Parse
  <2>1. check = 2 /\ check < 11
    BY <1>2 DEF Parse, At
  <2>2. \/ Passes("pass")
        \/ \E code \in {"err:credential:parse", "err:presentation:invalid-response"} : FailsWith(code)
    BY <1>2 DEF Parse
  <2>3. {"err:credential:parse", "err:presentation:invalid-response"} \subseteq Codes
    BY DEF Codes, ResponseCodes
  <2> QED BY <2>1, <2>2, <2>3, PassGoesOn, Unreadable
<1>3. CASE IssuerAuthenticity
  <2>1. check = 3 /\ check < 11 /\ UNCHANGED pres
    BY <1>3 DEF IssuerAuthenticity, At
  <2>2. PICK v \in [Creds -> Verdicts] :
          \/ Passes("pass")
          \/ \E i \in Creds :
             /\ StopsAt3(v[i]) /\ \A j \in 1 .. i - 1 : ~StopsAt3(v[j])
             /\ verdict' = [j \in 1 .. MaxCreds |-> IF j <= i THEN v[j] ELSE Unset]
             /\ FailsWith(CodeOf(v[i]))
    BY <1>3 DEF IssuerAuthenticity, FirstBad
  <2> QED BY <2>1, <2>2, PassGoesOn, IssuerFailed
<1>4. CASE DataIntegrity
  <2>1. check = 4 /\ check < 11 /\ UNCHANGED <<pres, verdict>>
    BY <1>4 DEF DataIntegrity, At
  <2>2. CASE Passes("pass")
    BY <2>1, <2>2, PassGoesOn
  <2>3. ASSUME NEW i \in Creds, DeferredTo(i, 4), FailsWith("err:credential:integrity")
        PROVE  EndInv'
    <3>1. failCode = NoCode
      BY <2>1, <2>3, FailedRun DEF Codes
    <3>2. verdict[i] \in Verdicts
      BY <2>1, <3>1, <2>3 DEF AcceptInv, Past, Answers
    <3>3. CodeOf(verdict[i]) = "err:credential:integrity"
      BY <2>3, <3>2, Owners DEF DeferredTo, CodeOf
    <3> QED BY <2>1, <2>3, <3>3, DeferredFailed
  <2> QED BY <1>4, <2>2, <2>3 DEF DataIntegrity
<1>5. CASE Revocation
  <2>1. check = 5 /\ check < 11 /\ UNCHANGED <<pres, verdict>>
    BY <1>5 DEF Revocation, At
  <2>2. PICK s \in [Creds -> StatusAnswers \cup {Unset}] :
          \/ \E outcome : Passes(outcome)
          \/ \E i \in Creds :
             /\ StopsAt5(s[i]) /\ \A j \in 1 .. i - 1 : ~StopsAt5(s[j])
             /\ status' = [j \in 1 .. MaxCreds |-> IF j <= i THEN s[j] ELSE Unset]
             /\ FailsWith(StatusCode(s[i]))
    BY <1>5 DEF Revocation, FirstBad
  <2> QED BY <2>1, <2>2, PassGoesOn, StatusFailed
<1>6. CASE DeviceBinding
  <2>1. check = 6 /\ check < 11 /\ UNCHANGED <<pres, verdict>>
    BY <1>6 DEF DeviceBinding, At
  <2>2. \/ \E outcome : Passes(outcome)
        \/ \E i \in Creds : DeferredTo(i, 6) /\ FailsWith("err:credential:binding-failed")
    BY <1>6 DEF DeviceBinding, FirstBad
  <2>3. ASSUME NEW i \in Creds, DeferredTo(i, 6), FailsWith("err:credential:binding-failed")
        PROVE  EndInv'
    <3>1. failCode = NoCode
      BY <2>1, <2>3, FailedRun DEF Codes
    <3>2. verdict[i] \in Verdicts
      BY <2>1, <3>1, <2>3 DEF AcceptInv, Past, Answers
    <3>3. CodeOf(verdict[i]) = "err:credential:binding-failed"
      BY <2>3, <3>2, Owners DEF DeferredTo, CodeOf
    <3> QED BY <2>1, <2>3, <3>3, DeferredFailed
  <2> QED BY <2>1, <2>2, <2>3, PassGoesOn
<1>7. CASE UserBinding \/ QueryFulfilment \/ CombinedChecks
  <2> DEFINE Own == {"err:credential:binding-failed", "err:presentation:query-unfulfilled",
                     "err:presentation:combined-check"}
  <2>1. check \in 7 .. 9 /\ check < 11 /\ UNCHANGED <<pres, verdict>>
    BY <1>7 DEF UserBinding, QueryFulfilment, CombinedChecks, At
  <2>2. Passes("pass") \/ \E code \in Own : FailsWith(code)
    BY <1>7 DEF UserBinding, QueryFulfilment, CombinedChecks
  <2>3. Own \subseteq Codes
    BY DEF Codes
  <2> QED BY <2>1, <2>2, <2>3, PassGoesOn, Combined
<1>8. CASE AssembleForward
  BY <1>8, PassGoesOn, Undelivered DEF AssembleForward, At
<1>9. CASE SaveReport \/ Refuse \/ Redirect \/ UNCHANGED vars
  <2>1. UNCHANGED <<pres, verdict, status, rows, failCode>>
    BY <1>9 DEF SaveReport, Refuse, Redirect, vars
  <2>2. Attributed' = Attributed
    BY <2>1 DEF Attributed, Erroneous, Creds
  <2>3. Cause' = Cause
    BY <2>1 DEF Cause, Creds, FirstBad
  <2> QED BY <2>1, <2>2, <2>3 DEF EndInv
<1> QED BY <1>1, <1>2, <1>3, <1>4, <1>5, <1>6, <1>7, <1>8, <1>9 DEF Next

\* errclass.go: a run that fails at checks 3 to 6 fails at the first check that owns
\* an error of one of any number of credentials, with that error's code.
THEOREM FailuresAttributed == Spec => []FailureAttributed
<1>1. ReportInv /\ EndInv => FailureAttributed
  <2> SUFFICES ASSUME ReportInv, EndInv PROVE FailureAttributed
    OBVIOUS
  <2>1. CASE failCode = NoCode
    <3>1. Len(rows) = check - 1 /\ (Ended => check = 11)
      BY <2>1 DEF Ended, ReportInv
    <3>2. Ended => Len(rows) \notin 3 .. 9
      BY <3>1
    <3> QED BY <3>2 DEF FailureAttributed
  <2>2. CASE failCode # NoCode
    BY <2>2, AttributedSays DEF EndInv
  <2> QED BY <2>1, <2>2
<1> QED BY ReportInit, ReportStep, AcceptInit, AcceptStep, EndInit, EndStep, <1>1, PTL DEF Spec

-----------------------------------------------------------------------------
\* The wallet is told once the run is over, and of a failure by Process alone.
ToldInv ==
    /\ check # 11 => ~persisted /\ wallet = Unset
    /\ persisted /\ wallet # Unset /\ failCode # NoCode => wallet = VerificationOutcome(failCode)

\* It hears nothing before.
LEMMA ToldInit == Init => ToldInv
  BY DEF Init, ToldInv, Unset

\* No check speaks to the wallet.
LEMMA ToldStep == ToldInv /\ ReportInv /\ [Next]_vars => ToldInv'
<1> SUFFICES ASSUME ToldInv, ReportInv, [Next]_vars PROVE ToldInv'
  OBVIOUS
<1>1. ASSUME check # 11, UNCHANGED <<persisted, wallet>> PROVE ToldInv'
  BY <1>1 DEF ToldInv
<1>2. CASE ResponseIntegrity \/ Parse \/ DataIntegrity \/ UserBinding
  BY <1>1, <1>2 DEF ResponseIntegrity, Parse, DataIntegrity, UserBinding, At
<1>3. CASE IssuerAuthenticity
  BY <1>1, <1>3 DEF IssuerAuthenticity, At
<1>4. CASE Revocation
  BY <1>1, <1>4 DEF Revocation, At
<1>5. CASE DeviceBinding
  BY <1>1, <1>5 DEF DeviceBinding, At
<1>6. CASE QueryFulfilment \/ CombinedChecks \/ AssembleForward
  BY <1>1, <1>6 DEF QueryFulfilment, CombinedChecks, AssembleForward, At
<1>7. CASE SaveReport \/ Refuse \/ Redirect \/ UNCHANGED vars
  BY <1>7 DEF SaveReport, Refuse, Redirect, vars, ToldInv
<1> QED BY <1>2, <1>3, <1>4, <1>5, <1>6, <1>7 DEF Next

\* wallet_error.go: a wallet that is told of a failed run is told its cause: whose
\* fault it was, and whether the credential was read and refused.
THEOREM CauseTold == Spec => []WalletToldTheCause
<1>1. EndInv /\ ToldInv => WalletToldTheCause
  BY DEF EndInv, ToldInv, WalletToldTheCause
<1> QED BY ReportInit, ReportStep, AcceptInit, AcceptStep, EndInit, EndStep, ToldInit, ToldStep,
           <1>1, PTL DEF Spec
-----------------------------------------------------------------------------
\* What a run that stopped at check 7 had found.
StoppedInv == check = 11 /\ failCode # NoCode => StoppedOverRelaxed

\* A check that stops elsewhere leaves another number of rows.
LEMMA StopsElsewhere ==
  ASSUME ReportInv, check < 11, check # 7, NEW code \in Codes, FailsWith(code)
  PROVE  StoppedInv'
<1>1. Len(rows') # 7
  BY FailedRun
<1> QED BY <1>1 DEF StoppedInv, StoppedOverRelaxed

\* Check 7 sees a verified binding of every credential, or one that was relaxed.
LEMMA StopsAt7 ==
  ASSUME ReportInv, AcceptInv, UserBinding
  PROVE  StoppedInv'
<1>0. check = 7 /\ UNCHANGED <<policy, binds, pres, status, bound>>
  BY DEF UserBinding, At
<1>1. CASE Passes("pass")
  BY <1>0, <1>1 DEF ReportInv, Passes, StoppedInv
<1>2. CASE (\E i \in Creds : bound[i] # "pass" \/ status[i] \in {"revoked", "suspended"})
           /\ FailsWith("err:credential:binding-failed")
  <2>1. failCode = NoCode
    BY <1>0 DEF ReportInv
  <2>2. \A i \in Creds : bound[i] = BoundAs(i) /\ ~StopsAt5(status[i])
    BY <1>0, <2>1 DEF AcceptInv, Past
  <2>3. PICK i \in Creds : bound[i] # "pass"
    BY <1>2, <2>2 DEF StopsAt5
  <2>4. BoundAs(i) # "pass"
    BY <2>2, <2>3
  <2>5. pres[i].format # "mdoc" /\ ~RequireKB(i) /\ BoundAs(i) = "skipped"
    BY <2>4 DEF BoundAs
  <2>6. pres[i].format \in Formats
    <3> DEFINE P == [format : Formats, query : Queries, artifact : 1 .. MaxCreds]
    <3>1. pres \in Seq(P)
      BY DEF ReportInv, TypeOK
    <3> HIDE DEF P
    <3>2. i \in 1 .. Len(pres)
      BY CredsNumbered
    <3>3. pres[i] \in P
      BY <3>1, <3>2
    <3> QED BY <3>3 DEF P
  <2>7. pres[i].format = "sdjwt" /\ bound[i] = "skipped"
    BY <2>2, <2>5, <2>6 DEF Formats
  <2>8. ASSUME NEW j \in Creds, RequireKB(j) PROVE HolderBound(j)
    <3>1. BoundAs(j) = "pass"
      BY <2>8 DEF BoundAs
    <3> QED BY <2>2, <3>1 DEF HolderBound
  <2>9. Creds' = Creds /\ (\A j : RequireKB(j)' = RequireKB(j) /\ HolderBound(j)' = HolderBound(j))
    BY <1>0 DEF Creds, RequireKB, HolderBound
  <2> QED BY <1>0, <2>5, <2>7, <2>8, <2>9 DEF StoppedInv, StoppedOverRelaxed
<1> QED BY <1>1, <1>2 DEF UserBinding

\* Nothing has stopped at the start.
LEMMA StoppedInit == Init => StoppedInv
  BY DEF Init, StoppedInv

\* The findings of a run that is over stay as they are.
LEMMA StoppedStep == ReportInv /\ AcceptInv /\ StoppedInv /\ [Next]_vars => StoppedInv'
<1> SUFFICES ASSUME ReportInv, AcceptInv, StoppedInv, [Next]_vars PROVE StoppedInv'
  OBVIOUS
<1>passes. ASSUME check < 11, NEW outcome, Passes(outcome) PROVE StoppedInv'
  <2>1. failCode' = NoCode
    BY <1>passes DEF ReportInv, Passes
  <2> QED BY <2>1 DEF StoppedInv
<1>1. CASE ResponseIntegrity \/ Parse
  <2>1. check \in {1, 2} /\ (Passes("pass") \/ \E code \in Codes : FailsWith(code))
    BY <1>1 DEF ResponseIntegrity, Parse, At, Codes, ResponseCodes
  <2> QED BY <1>passes, <2>1, StopsElsewhere
<1>2. CASE IssuerAuthenticity
  <2>1. check = 3
    BY <1>2 DEF IssuerAuthenticity, At
  <2> QED BY <1>2, <1>passes, <2>1, StopsElsewhere, LoopsEnd, CodesTyped
<1>3. CASE DataIntegrity
  BY <1>3, <1>passes, StopsElsewhere DEF DataIntegrity, At, Codes
<1>4. CASE Revocation
  <2>1. check = 5
    BY <1>4 DEF Revocation, At
  <2>2. (\E o : Passes(o)) \/ \E x : FailsWith(StatusCode(x))
    <3>1. PICK s \in [Creds -> StatusAnswers \cup {Unset}] :
            (\E o : Passes(o)) \/ \E i \in Creds : FailsWith(StatusCode(s[i]))
      BY <1>4 DEF Revocation
    <3> QED BY <3>1
  <2> QED BY <1>passes, <2>1, <2>2, StopsElsewhere, CodesTyped
<1>5. CASE DeviceBinding
  <2>1. check = 6 /\ "err:credential:binding-failed" \in Codes
    BY <1>5 DEF DeviceBinding, At, Codes
  <2> QED BY <1>5, <1>passes, <2>1, StopsElsewhere, LoopsEnd
<1>6. CASE UserBinding
  BY <1>6, StopsAt7
<1>7. CASE QueryFulfilment \/ CombinedChecks \/ AssembleForward
  <2>1. /\ check \in 8 .. 10
        /\ Passes("pass") \/ \E code \in Codes : FailsWith(code)
    BY <1>7 DEF QueryFulfilment, CombinedChecks, AssembleForward, At, Codes
  <2> QED BY <1>passes, <2>1, StopsElsewhere
<1>8. CASE SaveReport \/ Refuse \/ Redirect \/ UNCHANGED vars
  <2>1. UNCHANGED <<policy, binds, check, pres, bound, rows, failCode>>
    BY <1>8 DEF SaveReport, Refuse, Redirect, vars
  <2> QED BY <2>1 DEF StoppedInv, StoppedOverRelaxed, Ended, Creds, RequireKB, HolderBound
<1> QED BY <1>1, <1>2, <1>3, <1>4, <1>5, <1>6, <1>7, <1>8 DEF Next

\* check_user_binding.go: how far the disagreement with the README goes.  Check 7 stops
\* a response only over a key binding that was relaxed.
THEOREM OnlyRelaxedStopped == Spec => []StoppedOverRelaxed
<1>1. ReportInv /\ StoppedInv => StoppedOverRelaxed
  <2> SUFFICES ASSUME ReportInv, StoppedInv, Ended, Len(rows) = 7 PROVE StoppedOverRelaxed
    BY DEF StoppedOverRelaxed
  <2>1. failCode # NoCode
    BY DEF ReportInv, Ended
  <2> QED BY <2>1 DEF StoppedInv, Ended
<1> QED BY ReportInit, ReportStep, AcceptInit, AcceptStep, StoppedInit, StoppedStep, <1>1, PTL
        DEF Spec
=============================================================================
