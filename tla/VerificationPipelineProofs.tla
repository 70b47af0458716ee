---------------------- MODULE VerificationPipelineProofs ----------------------
(***************************************************************************)
(* What a verified report vouches for, for any number of presentations and *)
(* any set of queries, whatever the libraries answer.                      *)
(***************************************************************************)
EXTENDS VerificationPipeline, TLAPS

\* The run has got past check n, or has delivered all the same.
Past(n) == check > n /\ (failCode = NoCode \/ delivered.outcome = "verified")

\* What each check leaves to rely on.
AcceptInv ==
    /\ check \in 1 .. 11
    /\ failCode # NoCode \/ delivered.outcome = "verified" => check = 11
    /\ Creds \subseteq 1 .. MaxCreds
    /\ Past(2) => Creds # {}
    /\ Past(3) => \A i \in Creds : verdict[i] \in Answers(i) /\ ~StopsAt3(verdict[i])
    /\ Past(4) => \A i \in Creds : ~DeferredTo(i, 4)
    /\ Past(5) => \A i \in Creds :
                    status[i] \in StatusAnswers \cup {Unset} /\ ~StopsAt5(status[i])
    /\ Past(6) => \A i \in Creds : ~DeferredTo(i, 6) /\ bound[i] = BoundAs(i)
    /\ Past(7) => \A i \in Creds : HolderBound(i)
    /\ Past(8) => \A q \in Queries : Answered(q)
    /\ Past(9) => Independent

\* A run starts with nothing to vouch for.
LEMMA AcceptInit == Init => AcceptInv
  BY DEF Init, AcceptInv, Past, Creds, Nothing, NoCode

\* No failure has the code of a verified report.
LEMMA FailCodes == NoCode \notin Codes
  BY DEF Codes, ResponseCodes, NoCode

\* The codes that checks 3 and 5 fail with are failures.
LEMMA FailCodes35 == \A x : CodeOf(x) # NoCode /\ StatusCode(x) # NoCode
  BY DEF CodeOf, StatusCode, NoCode

\* A check that fails ends the run with nothing delivered and nothing claimed.
LEMMA FailKeeps ==
  ASSUME AcceptInv, check < 11, check' = 11, failCode' # NoCode, UNCHANGED <<pres, delivered>>
  PROVE  AcceptInv'
  BY DEF AcceptInv, Past, Creds

\* Every check adds what it found to what the run relies on.
LEMMA AcceptStep == AcceptInv /\ [Next]_vars => AcceptInv'
<1> SUFFICES ASSUME AcceptInv, [Next]_vars PROVE AcceptInv'
  OBVIOUS
<1> USE DEF AcceptInv, Past, At, Passes, FailsWith, NoCode
<1>1. CASE ResponseIntegrity
  <2>1. CASE \E code \in ResponseCodes : FailsWith(code)
    BY <1>1, <2>1, FailCodes, FailKeeps DEF ResponseIntegrity, Codes
  <2>2. CASE /\ Passes("pass")
             /\ \E n \in 0 .. MaxCreds :
                  pres' \in [1 .. n -> [format : Formats, query : Queries, artifact : 1 .. MaxCreds]]
    <3>1. Creds' \subseteq 1 .. MaxCreds
      BY <2>2, MaxCredsNat DEF Creds
    <3> QED BY <1>1, <2>2, <3>1 DEF ResponseIntegrity
  <2> QED BY <1>1, <2>1, <2>2 DEF ResponseIntegrity
<1>2. CASE Parse
  BY <1>2 DEF Parse, Creds
<1>3. CASE IssuerAuthenticity
  <2>1. PICK v \in [Creds -> Verdicts] :
          /\ \A i \in Creds : v[i] \in Answers(i)
          /\ \/ /\ \A i \in Creds : ~StopsAt3(v[i])
                /\ verdict' = [i \in 1 .. MaxCreds |-> IF i \in Creds THEN v[i] ELSE Unset]
                /\ Passes("pass")
             \/ \E i \in Creds : FailsWith(CodeOf(v[i]))
    BY <1>3 DEF IssuerAuthenticity
  <2>2. CASE \E i \in Creds : FailsWith(CodeOf(v[i]))
    BY <1>3, <2>2, FailCodes35, FailKeeps DEF IssuerAuthenticity
  <2>3. CASE /\ \A i \in Creds : ~StopsAt3(v[i])
             /\ verdict' = [i \in 1 .. MaxCreds |-> IF i \in Creds THEN v[i] ELSE Unset]
             /\ Passes("pass")
    <3>1. \A i \in Creds : verdict'[i] = v[i]
      BY <2>3
    <3> QED BY <1>3, <2>1, <2>3, <3>1
            DEF IssuerAuthenticity, Creds, Answers, RequireKB, StopsAt3
  <2> QED BY <2>1, <2>2, <2>3
<1>4. CASE DataIntegrity
  BY <1>4 DEF DataIntegrity, Creds, Answers, RequireKB, DeferredTo
<1>5. CASE Revocation
  <2>1. PICK s \in [Creds -> StatusAnswers \cup {Unset}] :
          \/ /\ \A i \in Creds : ~StopsAt5(s[i])
             /\ status' = [i \in 1 .. MaxCreds |-> IF i \in Creds THEN s[i] ELSE Unset]
             /\ \E outcome \in {"skipped", "pass"} : Passes(outcome)
          \/ \E i \in Creds : FailsWith(StatusCode(s[i]))
    BY <1>5 DEF Revocation
  <2>2. CASE \E i \in Creds : FailsWith(StatusCode(s[i]))
    BY <1>5, <2>2, FailCodes35, FailKeeps DEF Revocation
  <2>3. CASE /\ \A i \in Creds : ~StopsAt5(s[i])
             /\ status' = [i \in 1 .. MaxCreds |-> IF i \in Creds THEN s[i] ELSE Unset]
             /\ \E outcome \in {"skipped", "pass"} : Passes(outcome)
    <3>1. \A i \in Creds : status'[i] = s[i]
      BY <2>3
    <3> QED BY <1>5, <2>3, <3>1
            DEF Revocation, Creds, Answers, RequireKB, DeferredTo, StatusAnswers, StopsAt5
  <2> QED BY <2>1, <2>2, <2>3
<1>6. CASE DeviceBinding
  <2>1. \/ /\ \A i \in Creds : ~DeferredTo(i, 6)
           /\ bound' = [i \in 1 .. MaxCreds |-> IF i \in Creds THEN BoundAs(i) ELSE Unset]
           /\ \E outcome \in {"skipped", "pass"} : Passes(outcome)
        \/ FailsWith("err:credential:binding-failed")
    BY <1>6 DEF DeviceBinding
  <2>2. CASE FailsWith("err:credential:binding-failed")
    BY <1>6, <2>2, FailKeeps DEF DeviceBinding
  <2>3. CASE /\ \A i \in Creds : ~DeferredTo(i, 6)
             /\ bound' = [i \in 1 .. MaxCreds |-> IF i \in Creds THEN BoundAs(i) ELSE Unset]
             /\ \E outcome \in {"skipped", "pass"} : Passes(outcome)
    <3>1. \A i \in Creds : bound'[i] = BoundAs(i)
      BY <2>3
    <3> QED BY <1>6, <2>3, <3>1
            DEF DeviceBinding, Creds, Answers, RequireKB, DeferredTo, StatusAnswers, StopsAt5, BoundAs
  <2> QED BY <2>1, <2>2, <2>3
<1>7. CASE UserBinding
  BY <1>7 DEF UserBinding, Creds, Answers, RequireKB, DeferredTo, StatusAnswers, StopsAt5, BoundAs, HolderBound
<1>8. CASE QueryFulfilment
  BY <1>8 DEF QueryFulfilment, Creds, Answers, RequireKB, DeferredTo, StatusAnswers, StopsAt5, BoundAs, HolderBound, Answered
<1>9. CASE CombinedChecks
  BY <1>9 DEF CombinedChecks, Creds, Answers, RequireKB, DeferredTo, StatusAnswers, StopsAt5, BoundAs, HolderBound, Answered, Independent
<1>10. CASE AssembleForward
  BY <1>10 DEF AssembleForward, Creds, Answers, RequireKB, DeferredTo, StatusAnswers, StopsAt5, BoundAs, HolderBound, Answered, Independent
<1>11. CASE SaveReport \/ Refuse \/ Redirect \/ UNCHANGED vars
  BY <1>11 DEF SaveReport, Refuse, Redirect, vars, Creds, Answers, RequireKB, DeferredTo, StatusAnswers, StopsAt5, BoundAs, HolderBound, Answered, Independent
<1> QED BY <1>1, <1>2, <1>3, <1>4, <1>5, <1>6, <1>7, <1>8, <1>9, <1>10, <1>11 DEF Next

\* Engine.Run: a verified report, or a result delivered as verified, vouches for
\* every credential of the response.
THEOREM VerifiedAcceptable == Spec => []VerifiedIsAcceptable
<1>1. AcceptInv => VerifiedIsAcceptable
  <2> SUFFICES ASSUME AcceptInv, Verified \/ delivered.outcome = "verified"
               PROVE  /\ Creds # {} /\ \A i \in Creds : Acceptable(i) /\ HolderBound(i)
                      /\ \A q \in Queries : Answered(q)
                      /\ Independent
    BY DEF VerifiedIsAcceptable
  <2>1. \A n \in 1 .. 9 : Past(n)
    BY DEF AcceptInv, Past, Verified, Ended
  <2>2. ASSUME NEW i \in Creds PROVE Acceptable(i)
    <3>1. /\ verdict[i] \in Answers(i) /\ ~StopsAt3(verdict[i])
          /\ ~DeferredTo(i, 4) /\ ~DeferredTo(i, 6)
          /\ BoundAs(i) = "pass"
      BY <2>1, <2>2 DEF AcceptInv, HolderBound
    <3>2. verdict[i] = "ok"
      BY <3>1 DEF Answers, Verdicts, StopsAt3, DeferredTo, OwnerOf, Verifies, BoundAs
    <3>3. status[i] \in StatusAnswers \cup {Unset} /\ ~StopsAt5(status[i])
      BY <2>1, <2>2 DEF AcceptInv
    <3>4. status[i] \in {"valid", Unset}
            \/ (status[i] = "skippedShortLived" /\ policy.shortLived)
            \/ (status[i] = "skippedFailOpen" /\ ~policy.failClosed)
      BY <3>3 DEF StatusAnswers, StopsAt5
    <3> QED BY <3>2, <3>4 DEF Acceptable
  <2> QED BY <2>1, <2>2 DEF AcceptInv
<1> QED BY AcceptInit, AcceptStep, <1>1, PTL DEF Spec

-----------------------------------------------------------------------------
\* One row per check that ran, and what the sink has is the report that was
\* built from them.
ReportInv ==
    /\ TypeOK
    /\ failCode = NoCode => Len(rows) = check - 1
    /\ failCode # NoCode => check = 11
    /\ check = 11 /\ failCode = NoCode => delivered = [outcome |-> "verified", rows |-> rows]
    /\ delivered.outcome = "verified" =>
        /\ check = 11 /\ Len(rows) = 10
        /\ failCode \in {NoCode, "err:session:handoff-failed"}
    /\ wallet \in {"declined", "not_accepted", "not_verified"} =>
        failCode \in ClientRated

\* The report is empty before the first check.
LEMMA ReportInit == Init => ReportInv
<1> SUFFICES ASSUME Init PROVE ReportInv
  OBVIOUS
<1>1. /\ pres \in Seq([format : Formats, query : Queries, artifact : 1 .. MaxCreds])
      /\ rows \in Seq({"pass", "fail", "skipped"}) /\ Len(rows) = 0 /\ Len(pres) = 0
  BY DEF Init
<1>5. delivered \in [outcome : {"none", "verified", "failed"},
                     rows : Seq({"pass", "fail", "skipped"})]
  BY DEF Init, Nothing
<1>2. /\ verdict \in [1 .. MaxCreds -> Verdicts \cup {Unset}]
      /\ status \in [1 .. MaxCreds -> Statuses \cup {Unset}]
      /\ bound \in [1 .. MaxCreds -> {"pass", "fail", "skipped", Unset}]
  BY DEF Init, NotRun
<1>6. /\ policy \in [failClosed : BOOLEAN, shortLived : BOOLEAN, binding : BOOLEAN]
      /\ binds \in [Queries -> BOOLEAN] /\ failCode \in Codes \cup {NoCode}
      /\ persisted \in BOOLEAN /\ wallet = Unset /\ check = 1
  BY DEF Init
<1>7. check \in 1 .. 11 /\ Len(rows) <= 10 /\ Len(pres) <= MaxCreds
  BY <1>1, <1>6, MaxCredsNat
<1>3. TypeOK
  BY <1>1, <1>2, <1>5, <1>6, <1>7 DEF TypeOK
<1>4. Len(rows) = check - 1 /\ check # 11 /\ failCode = NoCode
      /\ delivered.outcome # "verified" /\ wallet = "none"
  BY <1>1 DEF Init, Unset, Nothing
<1> QED BY <1>3, <1>4 DEF ReportInv

\* The codes of checks 3 and 5 are codes.
LEMMA CodesTyped == \A x : CodeOf(x) \in Codes /\ StatusCode(x) \in Codes
<1> TAKE x
<1>1. StatusCode(x) \in {"err:revocation:revoked", "err:revocation:unavailable"}
  BY DEF StatusCode
<1>2. CodeOf(x) \in {"err:credential:parse", "err:credential:integrity",
          "err:credential:binding-failed", "err:trust:anchor-unavailable",
          "err:credential:expired", "err:credential:issuer-cert-expired",
          "err:credential:issuer-untrusted"}
  BY DEF CodeOf
<1> QED BY <1>1, <1>2 DEF Codes

\* Credentials are numbered from 1.
LEMMA CredsNumbered == ReportInv => Creds = 1 .. Len(pres) /\ Len(pres) \in 0 .. MaxCreds
<1> DEFINE P == [format : Formats, query : Queries, artifact : 1 .. MaxCreds]
<1> HIDE DEF P
<1>1. \A p \in Seq(P) : DOMAIN p = 1 .. Len(p) /\ Len(p) \in Nat
  OBVIOUS
<1> QED BY <1>1, MaxCredsNat DEF P, ReportInv, TypeOK, Creds

\* A row more makes the report longer by one.
LEMMA RowsGrow ==
  ASSUME rows \in Seq({"pass", "fail", "skipped"}), NEW r \in {"pass", "fail", "skipped"}
  PROVE  /\ Append(rows, r) \in Seq({"pass", "fail", "skipped"})
         /\ Len(Append(rows, r)) = Len(rows) + 1
  OBVIOUS

\* A check adds its row, and stops the run if it fails.
LEMMA RowAdded ==
  ASSUME ReportInv, check < 11, UNCHANGED <<policy, binds, delivered, persisted, wallet>>,
         \/ check < 10 /\ \E outcome \in {"pass", "skipped"} : Passes(outcome)
         \/ \E code \in Codes : FailsWith(code),
         pres' \in Seq([format : Formats, query : Queries, artifact : 1 .. MaxCreds]),
         Len(pres') <= MaxCreds,
         verdict' \in [1 .. MaxCreds -> Verdicts \cup {Unset}],
         status' \in [1 .. MaxCreds -> Statuses \cup {Unset}],
         bound' \in [1 .. MaxCreds -> {"pass", "fail", "skipped", Unset}]
  PROVE  ReportInv'
<1>0. /\ failCode = NoCode /\ Len(rows) = check - 1 /\ delivered.outcome # "verified"
      /\ rows \in Seq({"pass", "fail", "skipped"}) /\ check \in 1 .. 10
      /\ wallet \notin {"declined", "not_accepted", "not_verified"}
  BY FailCodes DEF ReportInv, TypeOK, ClientRated
<1>1. CASE check < 10 /\ \E outcome \in {"pass", "skipped"} : Passes(outcome)
  <2>1. /\ rows' \in Seq({"pass", "fail", "skipped"}) /\ Len(rows') = check
        /\ check' = check + 1 /\ failCode' = NoCode
    BY <1>0, <1>1 DEF Passes
  <2>2. TypeOK'
    BY <1>0, <1>1, <2>1 DEF ReportInv, TypeOK
  <2> QED BY <1>0, <1>1, <2>1, <2>2 DEF ReportInv
<1>2. CASE \E code \in Codes : FailsWith(code)
  <2>1. /\ rows' \in Seq({"pass", "fail", "skipped"}) /\ Len(rows') = check
        /\ check' = 11 /\ failCode' \in Codes /\ failCode' # NoCode
    BY <1>0, <1>2, FailCodes DEF FailsWith
  <2>2. TypeOK'
    BY <1>0, <1>2, <2>1 DEF ReportInv, TypeOK
  <2> QED BY <1>0, <1>2, <2>1, <2>2 DEF ReportInv
<1> QED BY <1>1, <1>2

\* The report is built one row at a time, delivered once, and persisted as it is.
LEMMA ReportStep == ReportInv /\ [Next]_vars => ReportInv'
<1> SUFFICES ASSUME ReportInv, [Next]_vars PROVE ReportInv'
  OBVIOUS
<1>0. /\ pres \in Seq([format : Formats, query : Queries, artifact : 1 .. MaxCreds])
      /\ Len(pres) <= MaxCreds
      /\ verdict \in [1 .. MaxCreds -> Verdicts \cup {Unset}]
      /\ status \in [1 .. MaxCreds -> Statuses \cup {Unset}]
      /\ bound \in [1 .. MaxCreds -> {"pass", "fail", "skipped", Unset}]
      /\ MaxCreds \in Nat /\ Creds = 1 .. Len(pres) /\ Len(pres) \in 0 .. MaxCreds
  BY MaxCredsNat, CredsNumbered DEF ReportInv, TypeOK
<1>1. CASE ResponseIntegrity
  <2>1. CASE \E code \in ResponseCodes : FailsWith(code) /\ UNCHANGED pres
    BY <1>0, <1>1, <2>1, RowAdded DEF ResponseIntegrity, Codes, At
  <2>2. CASE \E n \in 0 .. MaxCreds :
               /\ pres' \in [1 .. n -> [format : Formats, query : Queries, artifact : 1 .. MaxCreds]]
               /\ Passes("pass")
    <3> DEFINE P == [format : Formats, query : Queries, artifact : 1 .. MaxCreds]
    <3>0. PICK n \in 0 .. MaxCreds : pres' \in [1 .. n -> P]
      BY <2>2
    <3> HIDE DEF P
    <3>1. pres' \in Seq(P) /\ Len(pres') <= MaxCreds
      BY <1>0, <3>0
    <3> USE DEF P
    <3> QED BY <1>0, <1>1, <2>2, <3>1, RowAdded DEF ResponseIntegrity, At
  <2> QED BY <1>1, <2>1, <2>2 DEF ResponseIntegrity
<1>2. CASE Parse \/ DataIntegrity
  BY <1>0, <1>2, RowAdded DEF Parse, DataIntegrity, At, Codes, ResponseCodes
<1>3. CASE IssuerAuthenticity
  <2>1. PICK v \in [Creds -> Verdicts] :
          \/ /\ verdict' = [i \in 1 .. MaxCreds |-> IF i \in Creds THEN v[i] ELSE Unset]
             /\ Passes("pass")
          \/ \E i \in Creds :
             /\ verdict' = [j \in 1 .. MaxCreds |-> IF j <= i THEN v[j] ELSE Unset]
             /\ FailsWith(CodeOf(v[i]))
    BY <1>3 DEF IssuerAuthenticity
  <2>2. ASSUME NEW i \in Creds, NEW j \in 1 .. MaxCreds, j <= i PROVE j \in Creds
    BY <1>0, <2>2
  <2>3. verdict' \in [1 .. MaxCreds -> Verdicts \cup {Unset}]
    BY <2>1, <2>2
  <2>4. Passes("pass") \/ \E code \in Codes : FailsWith(code)
    BY <2>1, CodesTyped
  <2>5. /\ check = 3 /\ UNCHANGED <<policy, binds, pres, status, bound, delivered, persisted, wallet>>
    BY <1>3 DEF IssuerAuthenticity, At
  <2> QED BY <1>0, <2>3, <2>4, <2>5, RowAdded
<1>5. CASE Revocation
  <2>1. StatusAnswers \subseteq Statuses
    BY DEF StatusAnswers, Statuses
  <2>2. PICK s \in [Creds -> StatusAnswers \cup {Unset}] :
          \/ /\ status' = [i \in 1 .. MaxCreds |-> IF i \in Creds THEN s[i] ELSE Unset]
             /\ \E outcome \in {"pass", "skipped"} : Passes(outcome)
          \/ \E i \in Creds :
             /\ status' = [j \in 1 .. MaxCreds |-> IF j <= i THEN s[j] ELSE Unset]
             /\ FailsWith(StatusCode(s[i]))
    BY <1>5 DEF Revocation
  <2>3. ASSUME NEW i \in Creds, NEW j \in 1 .. MaxCreds, j <= i PROVE j \in Creds
    BY <1>0, <2>3
  <2>4. status' \in [1 .. MaxCreds -> Statuses \cup {Unset}]
    BY <2>1, <2>2, <2>3
  <2>5. (\E outcome \in {"pass", "skipped"} : Passes(outcome)) \/ \E code \in Codes : FailsWith(code)
    BY <2>2, CodesTyped
  <2>6. /\ check = 5 /\ UNCHANGED <<policy, binds, pres, verdict, bound, delivered, persisted, wallet>>
    BY <1>5 DEF Revocation, At
  <2> QED BY <1>0, <2>4, <2>5, <2>6, RowAdded
<1>6. CASE DeviceBinding
  <2>1. \A i \in Creds : BoundAs(i) \in {"pass", "skipped"}
    BY DEF BoundAs
  <2>2. \/ /\ bound' = [i \in 1 .. MaxCreds |-> IF i \in Creds THEN BoundAs(i) ELSE Unset]
           /\ \E outcome \in {"pass", "skipped"} : Passes(outcome)
        \/ \E i \in Creds :
           /\ bound' = [j \in 1 .. MaxCreds |-> IF j < i THEN BoundAs(j)
                                                ELSE IF j = i THEN "fail" ELSE Unset]
           /\ FailsWith("err:credential:binding-failed")
    BY <1>6 DEF DeviceBinding
  <2>3. ASSUME NEW i \in Creds, NEW j \in 1 .. MaxCreds, j < i PROVE j \in Creds
    BY <1>0, <2>3
  <2>4. bound' \in [1 .. MaxCreds -> {"pass", "fail", "skipped", Unset}]
    BY <2>1, <2>2, <2>3
  <2>5. (\E outcome \in {"pass", "skipped"} : Passes(outcome)) \/ \E code \in Codes : FailsWith(code)
    BY <2>2 DEF Codes
  <2>6. /\ check = 6 /\ UNCHANGED <<policy, binds, pres, verdict, status, delivered, persisted, wallet>>
    BY <1>6 DEF DeviceBinding, At
  <2> QED BY <1>0, <2>4, <2>5, <2>6, RowAdded
<1>7. CASE UserBinding \/ QueryFulfilment \/ CombinedChecks
  BY <1>0, <1>7, RowAdded DEF UserBinding, QueryFulfilment, CombinedChecks, At, Codes
<1>10. CASE AssembleForward
  <2>0. /\ check = 10 /\ failCode = NoCode /\ Len(rows) = 9
        /\ rows \in Seq({"pass", "fail", "skipped"})
        /\ wallet \notin {"declined", "not_accepted", "not_verified"}
    BY <1>10, FailCodes DEF AssembleForward, At, ReportInv, TypeOK, ClientRated
  <2>1. /\ Append(rows, "pass") \in Seq({"pass", "fail", "skipped"})
        /\ Append(rows, "fail") \in Seq({"pass", "fail", "skipped"})
        /\ Len(Append(rows, "pass")) = 10 /\ Len(Append(rows, "fail")) = 10
    BY <2>0, RowsGrow
  <2>2. "err:session:handoff-failed" \in Codes /\ "err:session:handoff-failed" # NoCode
    BY DEF Codes, NoCode
  <2>3. /\ check' = 11 /\ Len(rows') = 10 /\ rows' \in Seq({"pass", "fail", "skipped"})
        /\ \/ failCode' = NoCode /\ delivered' = [outcome |-> "verified", rows |-> rows']
           \/ /\ failCode' = "err:session:handoff-failed"
              /\ \/ delivered' = [outcome |-> "verified", rows |-> Append(rows, "pass")]
                 \/ UNCHANGED delivered
    <3>1. CASE delivered' = [outcome |-> "verified", rows |-> DeliveredRows] /\ Passes("pass")
      BY <2>0, <2>1, <3>1 DEF Passes, DeliveredRows
    <3>2. CASE /\ FailsWith("err:session:handoff-failed")
               /\ \/ delivered' = [outcome |-> "verified", rows |-> DeliveredRows]
                  \/ UNCHANGED delivered
      BY <2>0, <2>1, <3>2 DEF FailsWith, DeliveredRows
    <3> QED BY <1>10, <3>1, <3>2 DEF AssembleForward
  <2>5. delivered' \in [outcome : {"none", "verified", "failed"},
                        rows : Seq({"pass", "fail", "skipped"})]
    <3> DEFINE R == Seq({"pass", "fail", "skipped"})
    <3> HIDE DEF R
    <3>1. rows' \in R /\ Append(rows, "pass") \in R
      BY <2>1, <2>3 DEF R
    <3>2. delivered \in [outcome : {"none", "verified", "failed"}, rows : R]
      BY DEF ReportInv, TypeOK, R
    <3>3. delivered' \in [outcome : {"none", "verified", "failed"}, rows : R]
      <4>1. CASE delivered' = [outcome |-> "verified", rows |-> rows']
        BY <3>1, <4>1
      <4>2. CASE delivered' = [outcome |-> "verified", rows |-> Append(rows, "pass")]
        BY <3>1, <4>2
      <4>3. CASE UNCHANGED delivered
        BY <3>2, <4>3
      <4> QED BY <2>3, <4>1, <4>2, <4>3
    <3> QED BY <3>3 DEF R
  <2>6. check' \in 1 .. 11 /\ failCode' \in Codes \cup {NoCode} /\ Len(rows') <= 10
    BY <2>2, <2>3
  <2>4. TypeOK'
    BY <1>10, <2>3, <2>5, <2>6 DEF AssembleForward, ReportInv, TypeOK
  <2> QED BY <1>10, <2>0, <2>2, <2>3, <2>4 DEF AssembleForward, ReportInv
<1>11. CASE SaveReport
  BY <1>11 DEF SaveReport, ReportInv, TypeOK
<1>12. CASE Refuse
  <2>1. /\ VerificationOutcome(failCode)
              \in {"declined", "not_accepted", "not_verified", "server_error"}
        /\ VerificationOutcome(failCode) # "server_error" => failCode \in ClientRated
    BY DEF VerificationOutcome, TrustRefusal, ClientRated, Codes, ResponseCodes
  <2>2. TypeOK'
    BY <1>12, <2>1 DEF Refuse, ReportInv, TypeOK
  <2> QED BY <1>12, <2>1, <2>2 DEF Refuse, ReportInv
<1>13. CASE Redirect
  BY <1>13 DEF Redirect, ReportInv, TypeOK
<1>14. CASE UNCHANGED vars
  BY <1>14 DEF vars, ReportInv, TypeOK
<1> QED BY <1>1, <1>2, <1>3, <1>5, <1>6, <1>7, <1>10, <1>11, <1>12, <1>13, <1>14 DEF Next

\* Every reachable state of a run is well typed.
THEOREM PipelineTypeCorrect == Spec => []TypeOK
<1>1. ReportInv => TypeOK
  BY DEF ReportInv
<1> QED BY ReportInit, ReportStep, <1>1, PTL DEF Spec

\* Check 10 and Process: what was delivered with a verified result is the report
\* that is persisted, and no response that checks 1 to 9 refuse leaves a verified
\* result with the sink.
THEOREM DeliveredIsReported == Spec => []DeliveredMatchesReport
<1>1. ASSUME ReportInv PROVE DeliveredMatchesReport
  <2>1. Verified => delivered = [outcome |-> "verified", rows |-> rows]
    BY <1>1 DEF ReportInv, Verified, Ended
  <2>2. ASSUME delivered.outcome = "verified" PROVE Len(rows) >= 9
    <3>1. Len(rows) = 10
      BY <1>1, <2>2 DEF ReportInv
    <3> QED BY <3>1
  <2>3. wallet \in {"declined", "not_accepted", "not_verified"} => delivered.outcome # "verified"
    BY <1>1, FailCodes DEF ReportInv, ClientRated
  <2> QED BY <2>1, <2>2, <2>3 DEF DeliveredMatchesReport
<1> QED BY ReportInit, ReportStep, <1>1, PTL DEF Spec
-----------------------------------------------------------------------------
\* How the two checks end whose loop over the credentials stops at the first bad one.
LEMMA LoopsEnd ==
  /\ IssuerAuthenticity => Passes("pass") \/ \E x : FailsWith(CodeOf(x))
  /\ DeviceBinding => \/ Passes("pass") \/ Passes("skipped")
                     \/ FailsWith("err:credential:binding-failed")
<1>1. ASSUME IssuerAuthenticity PROVE Passes("pass") \/ \E x : FailsWith(CodeOf(x))
  <2>1. PICK v \in [Creds -> Verdicts] :
          Passes("pass") \/ \E i \in Creds : FailsWith(CodeOf(v[i]))
    BY <1>1 DEF IssuerAuthenticity
  <2> QED BY <2>1
<1>2. ASSUME DeviceBinding
      PROVE  \/ Passes("pass") \/ Passes("skipped")
             \/ FailsWith("err:credential:binding-failed")
  <2>1. \/ Passes(IF \E i \in Creds : BoundAs(i) = "skipped" THEN "skipped" ELSE "pass")
        \/ FailsWith("err:credential:binding-failed")
    BY <1>2 DEF DeviceBinding
  <2> QED BY <2>1
<1> QED BY <1>1, <1>2

\* Checks 1 to 9 touch nothing that anybody else sees.
LEMMA ChecksDecide ==
  ASSUME ReportInv,
         \/ ResponseIntegrity \/ Parse \/ IssuerAuthenticity \/ DataIntegrity \/ Revocation
         \/ DeviceBinding \/ UserBinding \/ QueryFulfilment \/ CombinedChecks
  PROVE  /\ check \in 1 .. 9 /\ failCode = NoCode
         /\ UNCHANGED <<delivered, persisted, wallet>>
         /\ \/ check' = check + 1 /\ failCode' = NoCode
            \/ check' = 11 /\ failCode' # NoCode
<1>0. failCode # NoCode => check = 11
  BY DEF ReportInv
<1>passes. ASSUME NEW o, Passes(o), check \in 1 .. 9
           PROVE  check' = check + 1 /\ failCode' = NoCode
  BY <1>0, <1>passes DEF Passes
<1>fails. ASSUME NEW code \in Codes, FailsWith(code) PROVE check' = 11 /\ failCode' # NoCode
  BY <1>fails, FailCodes DEF FailsWith
<1>1. CASE ResponseIntegrity
  <2>1. check = 1 /\ (Passes("pass") \/ \E code \in ResponseCodes : FailsWith(code))
    BY <1>1 DEF ResponseIntegrity, At
  <2> QED BY <1>0, <1>1, <1>passes, <1>fails, <2>1 DEF ResponseIntegrity, Codes
<1>2. CASE Parse \/ DataIntegrity
  BY <1>0, <1>2, <1>passes, <1>fails DEF Parse, DataIntegrity, At, Codes, ResponseCodes
<1>3. CASE IssuerAuthenticity
  <2>1. check = 3 /\ UNCHANGED <<delivered, persisted, wallet>>
    BY <1>3 DEF IssuerAuthenticity, At
  <2> QED BY <1>0, <1>3, <1>passes, <1>fails, <2>1, LoopsEnd, CodesTyped
<1>5. CASE Revocation
  <2>1. check = 5 /\ UNCHANGED <<delivered, persisted, wallet>>
    BY <1>5 DEF Revocation, At
  <2>2. (\E o : Passes(o)) \/ \E x : FailsWith(StatusCode(x))
    <3>1. PICK s \in [Creds -> StatusAnswers \cup {Unset}] :
            (\E o : Passes(o)) \/ \E i \in Creds : FailsWith(StatusCode(s[i]))
      BY <1>5 DEF Revocation
    <3> QED BY <3>1
  <2> QED BY <1>0, <1>passes, <1>fails, <2>1, <2>2, CodesTyped
<1>6. CASE DeviceBinding
  <2>1. check = 6 /\ UNCHANGED <<delivered, persisted, wallet>>
    BY <1>6 DEF DeviceBinding, At
  <2>2. "err:credential:binding-failed" \in Codes
    BY DEF Codes
  <2> QED BY <1>0, <1>6, <1>passes, <1>fails, <2>1, <2>2, LoopsEnd
<1>7. CASE UserBinding \/ QueryFulfilment \/ CombinedChecks
  <2>1. /\ check \in 7 .. 9 /\ UNCHANGED <<delivered, persisted, wallet>>
        /\ Passes("pass") \/ \E code \in Codes : FailsWith(code)
    BY <1>7 DEF UserBinding, QueryFulfilment, CombinedChecks, At, Codes
  <2> QED BY <1>0, <1>passes, <1>fails, <2>1
<1> QED BY <1>1, <1>2, <1>3, <1>5, <1>6, <1>7

\* Nothing is persisted and the wallet hears nothing before the run is over.
SilentInv == persisted \/ wallet # Unset => check = 11

\* Only Process persists the report or answers the wallet.
LEMMA SilentStep == ReportInv /\ SilentInv /\ [Next]_vars => SilentInv'
<1> SUFFICES ASSUME ReportInv, SilentInv, [Next]_vars PROVE SilentInv'
  OBVIOUS
<1>1. CASE AssembleForward
  BY <1>1 DEF AssembleForward, At, SilentInv
<1>2. CASE SaveReport \/ Refuse \/ Redirect \/ UNCHANGED vars
  BY <1>2 DEF SaveReport, Refuse, Redirect, vars, SilentInv
<1> QED BY <1>1, <1>2, ChecksDecide DEF Next, SilentInv

\* A run is the one run of its delivery: a change of its entry changes the function.
LEMMA OneRun ==
  ASSUME NEW a, NEW b
  PROVE  /\ [[r \in {1} |-> a] EXCEPT ![1] = b] = [r \in {1} |-> b]
         /\ [r \in {1} |-> a][1] = a
  OBVIOUS

\* Each step of a run is one of ResultDelivery's, or none.
LEMMA PipelineStepDelivers ==
  ReportInv /\ SilentInv /\ [Next]_vars => [Delivery!Next]_Delivery!vars
<1> SUFFICES ASSUME ReportInv, SilentInv, [Next]_vars
             PROVE  [Delivery!Next]_Delivery!vars
  OBVIOUS
<1>same. ASSUME UNCHANGED <<Decision, delivered, persisted, WalletTold>>
         PROVE  [Delivery!Next]_Delivery!vars
  BY <1>same DEF Delivery!vars
<1>1. CASE \/ ResponseIntegrity \/ Parse \/ IssuerAuthenticity \/ DataIntegrity \/ Revocation
           \/ DeviceBinding \/ UserBinding \/ QueryFulfilment \/ CombinedChecks
  <2>0. /\ check \in 1 .. 9 /\ UNCHANGED <<delivered, persisted, wallet>>
        /\ \/ check' = check + 1 /\ failCode' = NoCode
           \/ check' = 11 /\ failCode' # NoCode
        /\ ~persisted /\ wallet = Unset
    BY <1>1, ChecksDecide DEF SilentInv
  <2>1. Decision = "none" /\ Decision' \in {"none", "verified", "failed"}
    BY <2>0 DEF Decision
  <2>2. WalletTold' = WalletTold
    BY <2>0 DEF WalletTold
  <2>3. CASE Decision' = "none"
    BY <1>same, <2>0, <2>1, <2>2, <2>3
  <2>4. CASE Decision' \in {"verified", "failed"}
    <3> HIDE DEF Decision, WalletTold
    <3>1. Delivery!Decide(1)
      BY <2>0, <2>1, <2>2, <2>4, OneRun DEF Delivery!Decide
    <3> QED BY <3>1 DEF Delivery!Next
  <2> QED BY <2>1, <2>3, <2>4
<1>2. CASE AssembleForward
  <2>0. /\ check = 10 /\ check' = 11 /\ failCode = NoCode
        /\ UNCHANGED <<persisted, wallet>> /\ ~persisted /\ wallet = Unset
        /\ \/ delivered'.outcome = "verified"
           \/ UNCHANGED delivered /\ failCode' # NoCode
    BY <1>2 DEF AssembleForward, At, Passes, FailsWith, ReportInv, SilentInv, NoCode
  <2>1. Decision = "verified" /\ Decision' \in {"verified", "failed"}
    BY <2>0 DEF Decision
  <2>2. WalletTold' = WalletTold
    BY <2>0 DEF WalletTold
  <2>3. CASE delivered'.outcome = "verified"
    <3> HIDE DEF Decision, WalletTold
    <3>1. Delivery!HandOver(1)
      BY <2>0, <2>1, <2>2, <2>3, OneRun DEF Delivery!HandOver, Delivery!Unreported
    <3> QED BY <3>1 DEF Delivery!Next
  <2>4. CASE UNCHANGED delivered /\ failCode' # NoCode
    <3>0. Decision' = "failed"
      BY <2>0, <2>4 DEF Decision
    <3> HIDE DEF Decision, WalletTold
    <3>1. Delivery!TakeBack(1)
      BY <2>0, <2>1, <2>2, <2>4, <3>0, OneRun DEF Delivery!TakeBack, Delivery!Unreported
    <3> QED BY <3>1 DEF Delivery!Next
  <2> QED BY <2>0, <2>3, <2>4
<1>3. CASE SaveReport
  <2>0. /\ check = 11 /\ wallet = Unset /\ ~persisted
        /\ UNCHANGED <<check, failCode, delivered>>
        /\ \/ persisted' = TRUE /\ UNCHANGED wallet
           \/ wallet' = "server_error" /\ UNCHANGED persisted
    BY <1>3 DEF SaveReport
  <2>1. /\ Decision' = Decision /\ Decision \in {"verified", "failed"}
        /\ Decision = "verified" => delivered.outcome = "verified"
    BY <2>0 DEF Decision, ReportInv
  <2>2. CASE persisted' = TRUE /\ UNCHANGED wallet
    <3>0. WalletTold' = WalletTold
      BY <2>2 DEF WalletTold
    <3> HIDE DEF Decision, WalletTold
    <3>1. Delivery!Report(1)
      BY <2>0, <2>1, <2>2, <3>0, OneRun DEF Delivery!Report
    <3> QED BY <3>1 DEF Delivery!Next
  <2>3. CASE wallet' = "server_error" /\ UNCHANGED persisted
    <3>0. WalletTold' = "failed"
      BY <2>3 DEF WalletTold, Unset
    <3> HIDE DEF Decision, WalletTold
    <3>1. Delivery!Tell(1)
      BY <2>0, <2>1, <2>3, <3>0, OneRun DEF Delivery!Tell
    <3> QED BY <3>1 DEF Delivery!Next
  <2> QED BY <2>0, <2>2, <2>3
<1>4. CASE Refuse
  <2>0. /\ persisted /\ failCode # NoCode /\ check = 11
        /\ UNCHANGED <<check, failCode, persisted>>
        /\ UNCHANGED delivered \/ delivered'.outcome = "failed"
    BY <1>4 DEF Refuse, ReportInv
  <2>1. Decision = "failed" /\ Decision' = "failed"
    BY <2>0 DEF Decision
  <2>2. WalletTold' = "failed"
    <3>1. wallet' \in {"declined", "not_accepted", "not_verified", "server_error"}
      BY <1>4 DEF Refuse, VerificationOutcome
    <3> QED BY <3>1 DEF WalletTold, Unset
  <2> HIDE DEF Decision, WalletTold
  <2>3. CASE UNCHANGED delivered
    <3>1. Delivery!Tell(1)
      BY <2>0, <2>1, <2>2, <2>3, OneRun DEF Delivery!Tell
    <3> QED BY <3>1 DEF Delivery!Next
  <2>4. CASE delivered'.outcome = "failed"
    <3>1. Delivery!Replace(1)
      BY <2>0, <2>1, <2>2, <2>4, OneRun DEF Delivery!Replace
    <3> QED BY <3>1 DEF Delivery!Next
  <2> QED BY <2>0, <2>3, <2>4
<1>5. CASE Redirect
  <2>0. /\ persisted /\ failCode = NoCode /\ check = 11
        /\ UNCHANGED <<check, failCode, delivered, persisted>>
        /\ wallet' \in {"redirect", "server_error"}
    BY <1>5 DEF Redirect, SilentInv
  <2>1. Decision = "verified" /\ Decision' = "verified"
    BY <2>0 DEF Decision
  <2>2. WalletTold' \in {"verified", "failed"}
    BY <2>0 DEF WalletTold, Unset
  <2> HIDE DEF Decision, WalletTold
  <2>3. Delivery!Tell(1)
    BY <2>0, <2>1, <2>2, OneRun DEF Delivery!Tell
  <2> QED BY <2>3 DEF Delivery!Next
<1>6. CASE UNCHANGED vars
  <2>1. UNCHANGED <<Decision, delivered, persisted, WalletTold>>
    BY <1>6 DEF vars, Decision, WalletTold
  <2> QED BY <1>same, <2>1
<1> QED BY <1>1, <1>2, <1>3, <1>4, <1>5, <1>6 DEF Next

\* Engine.Run's tenth check and Process: whatever fails on the way, one run decides,
\* hands over, reports and tells the wallet as ResultDelivery says.
THEOREM PipelineDelivers == Spec => DeliversAsPromised
<1>1. Init => SilentInv /\ Delivery!Init
  <2> SUFFICES ASSUME Init PROVE SilentInv /\ Delivery!Init
    OBVIOUS
  <2>0. check = 1 /\ delivered = Nothing /\ ~persisted /\ wallet = Unset
    BY DEF Init
  <2>1. Decision = "none" /\ delivered.outcome = "none" /\ WalletTold = "none"
    <3>1. Decision = "none"
      BY <2>0 DEF Decision
    <3>2. delivered.outcome = "none"
      BY <2>0 DEF Nothing
    <3>3. WalletTold = "none"
      BY <2>0 DEF WalletTold, Unset
    <3> QED BY <3>1, <3>2, <3>3
  <2>2. SilentInv
    BY DEF Init, SilentInv
  <2> QED BY <2>0, <2>1, <2>2 DEF Delivery!Init
<1> QED BY ReportInit, ReportStep, SilentStep, PipelineStepDelivers, <1>1, PTL
        DEF Spec, DeliversAsPromised, Delivery!Spec
==============================================================================
