------------------------- MODULE VerificationPipeline -------------------------
(***************************************************************************)
(* One run of the ten checks over one wallet response (internal/pipeline), *)
(* with what Process does with its report and what the wallet boundary     *)
(* tells the wallet (routes/processor_pipeline.go, routes/wallet_error.go).*)
(*                                                                         *)
(* The format libraries, the status-list checker and the DCQL matcher are  *)
(* the environment: each answers as src/ expects it to, and the model      *)
(* keeps the answer so that the verdict can be compared with it.  Checks 4 *)
(* and 6 only report what the one library call of check 3 found.           *)
(***************************************************************************)
EXTENDS Integers, Sequences

CONSTANTS
    MaxCreds,   \* bound: presentations in one response
    Queries     \* credential query ids of the session's DCQL query

ASSUME MaxCredsNat == MaxCreds \in Nat

VARIABLES
    policy,     \* ClientPolicy: which fail-closed defaults are in force
    binds,      \* require_cryptographic_holder_binding of each query
    check,      \* the check to run next; 11 when the run is over
    pres,       \* pc.Presentations: format, query id and artifact of each
    verdict,    \* check 3's library answer per credential
    status,     \* check 5's status answer per credential
    bound,      \* cred.DeviceBindingCheck
    rows,       \* outcomes in the report, one per executed check
    failCode,   \* Report.FailCode, NoCode for a verified report
    delivered,  \* what the sink last accepted
    persisted,  \* SaveReport has succeeded
    wallet      \* what the wallet was told

vars == <<policy, binds, check, pres, verdict, status, bound, rows, failCode, delivered,
          persisted, wallet>>

Formats == {"sdjwt", "mdoc"}
NoCode  == "none"
Unset   == "none"

\* What one Verify call may come back with, by the class errors.Is puts it in.
\* "unbound" is success without a Key Binding JWT, which needs RequireKB off.
Verdicts == {"ok", "unbound", "malformed", "digest", "binding", "cacheExpired",
             "validity", "certValidity", "untrusted"}

\* What the status-list checker may come back with.
Statuses == {"valid", "revoked", "suspended", "unknown", "error", "skippedShortLived",
             "skippedFailOpen"}

\* Failures of check 1, by code.
ResponseCodes == {"err:presentation:wallet-declined", "err:presentation:nonce-mismatch",
                  "err:session:consumed", "err:presentation:invalid-response"}

Codes == ResponseCodes \cup
    {"err:credential:parse", "err:credential:integrity", "err:credential:binding-failed",
     "err:trust:anchor-unavailable", "err:credential:expired",
     "err:credential:issuer-cert-expired", "err:credential:issuer-untrusted",
     "err:revocation:unavailable", "err:revocation:revoked",
     "err:presentation:query-unfulfilled", "err:presentation:combined-check",
     "err:session:handoff-failed"}

Nothing  == [outcome |-> "none", rows |-> <<>>]
Creds    == DOMAIN pres
NotRun   == [i \in 1 .. MaxCreds |-> Unset]

TypeOK ==
    /\ policy \in [failClosed : BOOLEAN, shortLived : BOOLEAN, binding : BOOLEAN]
    /\ binds \in [Queries -> BOOLEAN]
    /\ check \in 1 .. 11
    /\ pres \in Seq([format : Formats, query : Queries, artifact : 1 .. MaxCreds])
    /\ Len(pres) <= MaxCreds
    /\ verdict \in [1 .. MaxCreds -> Verdicts \cup {Unset}]
    /\ status \in [1 .. MaxCreds -> Statuses \cup {Unset}]
    /\ bound \in [1 .. MaxCreds -> {"pass", "fail", "skipped", Unset}]
    /\ rows \in Seq({"pass", "fail", "skipped"}) /\ Len(rows) <= 10
    /\ failCode \in Codes \cup {NoCode}
    /\ delivered \in [outcome : {"none", "verified", "failed"},
                      rows : Seq({"pass", "fail", "skipped"})]
    /\ persisted \in BOOLEAN
    /\ wallet \in {Unset, "redirect", "declined", "not_accepted", "not_verified",
                   "server_error"}

Init ==
    /\ policy \in [failClosed : BOOLEAN, shortLived : BOOLEAN, binding : BOOLEAN]
    /\ binds \in [Queries -> BOOLEAN]
    /\ check = 1
    /\ pres = <<>>
    /\ verdict = NotRun /\ status = NotRun /\ bound = NotRun
    /\ rows = <<>> /\ failCode = NoCode
    /\ delivered = Nothing
    /\ persisted = FALSE
    /\ wallet = Unset

-----------------------------------------------------------------------------
\* Engine.Run: one row per executed check, and nothing after the first fail.
At(n) == check = n
Passes(outcome) ==
    /\ rows' = Append(rows, outcome)
    /\ check' = check + 1
    /\ UNCHANGED failCode
FailsWith(code) ==
    /\ rows' = Append(rows, "fail")
    /\ check' = 11
    /\ failCode' = code

\* The loops over pc.Credentials return at the first credential that Bad holds of.
FirstBad(i, Bad(_)) == Bad(i) /\ \A j \in 1 .. i - 1 : ~Bad(j)

\* errclass.go: the check that owns a library answer, and its code.
OwnerOf(v) ==
    CASE v = "malformed" -> 2
      [] v = "digest"    -> 4
      [] v = "binding"   -> 6
      [] OTHER           -> 3

CodeOf(v) ==
    CASE v = "malformed"    -> "err:credential:parse"
      [] v = "digest"       -> "err:credential:integrity"
      [] v = "binding"      -> "err:credential:binding-failed"
      [] v = "cacheExpired" -> "err:trust:anchor-unavailable"
      [] v = "validity"     -> "err:credential:expired"
      [] v = "certValidity" -> "err:credential:issuer-cert-expired"
      [] OTHER              -> "err:credential:issuer-untrusted"

Verifies(v) == v \in {"ok", "unbound"}

\* cred.DeferredStep, set by check 3 and read by checks 4 to 6.
DeferredTo(i, step) == ~Verifies(verdict[i]) /\ OwnerOf(verdict[i]) = step

\* RequireKB, decided once from the client's policy and the query.
RequireKB(i) == policy.binding /\ binds[pres[i].query]

\* HolderBound: the credential answered with a key the pipeline insisted on.
HolderBound(i) == bound[i] = "pass"

\* One artifact is one credential in one format.
Presented(p) ==
    \A i, j \in DOMAIN p : p[i].artifact = p[j].artifact => p[i].format = p[j].format

-----------------------------------------------------------------------------
\* Check 1: decrypt and bind the response.
ResponseIntegrity ==
    /\ At(1)
    /\ \/ /\ \E n \in 0 .. MaxCreds :
               pres' \in [1 .. n -> [format : Formats, query : Queries,
                                     artifact : 1 .. MaxCreds]]
          /\ Presented(pres')
          /\ Passes("pass")
       \/ /\ \E code \in ResponseCodes : FailsWith(code)
          /\ UNCHANGED pres
    /\ UNCHANGED <<policy, binds, verdict, status, bound, delivered, persisted, wallet>>

\* Check 2: whether the presentations parse is up to the wallet.
Parse ==
    /\ At(2)
    /\ \/ Creds # {} /\ Passes("pass")
       \/ Creds # {} /\ FailsWith("err:credential:parse")
       \/ Creds = {} /\ FailsWith("err:presentation:invalid-response")
    /\ UNCHANGED <<policy, binds, pres, verdict, status, bound, delivered, persisted, wallet>>

\* What Verify may answer for credential i: a Key Binding JWT that is there is
\* verified whatever RequireKB says, and an mdoc always has a device signature.
Answers(i) ==
    IF pres[i].format = "sdjwt" /\ ~RequireKB(i) THEN Verdicts ELSE Verdicts \ {"unbound"}

\* Check 3: one Verify per credential.  A digest or binding error waits for the
\* check that owns it, any other ends the run.
StopsAt3(v) == ~Verifies(v) /\ OwnerOf(v) \in {2, 3}

IssuerAuthenticity ==
    /\ At(3)
    /\ \E v \in [Creds -> Verdicts] :
        /\ \A i \in Creds : v[i] \in Answers(i)
        /\ \/ /\ \A i \in Creds : ~StopsAt3(v[i])
              /\ verdict' = [i \in 1 .. MaxCreds |-> IF i \in Creds THEN v[i] ELSE Unset]
              /\ Passes("pass")
           \/ \E i \in Creds :
              /\ FirstBad(i, LAMBDA j : StopsAt3(v[j]))
              /\ verdict' = [j \in 1 .. MaxCreds |-> IF j <= i THEN v[j] ELSE Unset]
              /\ FailsWith(CodeOf(v[i]))
    /\ UNCHANGED <<policy, binds, pres, status, bound, delivered, persisted, wallet>>

\* Mutant: the deferred digest error is never reported.
DataIntegrityForgets ==
    /\ At(4)
    /\ Passes("pass")
    /\ UNCHANGED <<policy, binds, pres, verdict, status, bound, delivered, persisted, wallet>>

\* Check 4: report the digest errors check 3 deferred.
DataIntegrity ==
    /\ At(4)
    /\ \/ (\A i \in Creds : ~DeferredTo(i, 4)) /\ Passes("pass")
       \/ (\E i \in Creds : DeferredTo(i, 4)) /\ FailsWith("err:credential:integrity")
    /\ UNCHANGED <<policy, binds, pres, verdict, status, bound, delivered, persisted, wallet>>

\* What the status-list checker may answer under the policy it is given.  It
\* knows the validity window only if the policy allows the exemption, and it
\* turns every inconclusive result into a skip if the policy fails open.
StatusAnswers ==
    {"valid", "revoked", "suspended"}
        \cup (IF policy.shortLived THEN {"skippedShortLived"} ELSE {})
        \cup (IF policy.failClosed THEN {"unknown", "error"} ELSE {"skippedFailOpen"})

\* Mutant: a code of its own for suspension, which nobody registered.
StatusCodeSuspended(s) ==
    CASE s = "revoked"   -> "err:revocation:revoked"
      [] s = "suspended" -> "err:revocation:suspended"
      [] OTHER           -> "err:revocation:unavailable"

StatusCode(s) ==
    IF s \in {"revoked", "suspended"} THEN "err:revocation:revoked"
                                      ELSE "err:revocation:unavailable"
StopsAt5(s) ==
    \/ s \in {"error", "revoked", "suspended"}
    \/ s = "unknown" /\ policy.failClosed

\* Mutant: the fail-open skip is told from a pass by the checker's error only.
SkippedShortLivedOnly(s) == s = "skippedShortLived"

Skipped(s) == s \in {"skippedShortLived", "skippedFailOpen"}

\* Check 5: a credential without a status reference, or one that waits for
\* check 6, is not looked up.
Revocation ==
    /\ At(5)
    /\ \E s \in [Creds -> StatusAnswers \cup {Unset}] :
        /\ \A i \in Creds : DeferredTo(i, 6) => s[i] = Unset
        /\ \/ /\ \A i \in Creds : ~StopsAt5(s[i])
              /\ status' = [i \in 1 .. MaxCreds |-> IF i \in Creds THEN s[i] ELSE Unset]
              /\ Passes(IF \E i \in Creds : Skipped(s[i]) \/ DeferredTo(i, 6)
                        THEN "skipped" ELSE "pass")
           \/ \E i \in Creds :
              /\ FirstBad(i, LAMBDA j : StopsAt5(s[j]))
              /\ status' = [j \in 1 .. MaxCreds |-> IF j <= i THEN s[j] ELSE Unset]
              /\ FailsWith(StatusCode(s[i]))
    /\ UNCHANGED <<policy, binds, pres, verdict, bound, delivered, persisted, wallet>>

\* Check 6: report the binding errors check 3 deferred.  An mdoc that got here
\* has a verified device signature; an SD-JWT counts only if RequireKB was on.
BoundAs(i) ==
    IF pres[i].format = "mdoc" \/ RequireKB(i) THEN "pass" ELSE "skipped"

DeviceBinding ==
    /\ At(6)
    /\ \/ /\ \A i \in Creds : ~DeferredTo(i, 6)
          /\ bound' = [i \in 1 .. MaxCreds |-> IF i \in Creds THEN BoundAs(i) ELSE Unset]
          /\ Passes(IF \E i \in Creds : BoundAs(i) = "skipped" THEN "skipped" ELSE "pass")
       \/ \E i \in Creds :
          /\ FirstBad(i, LAMBDA j : DeferredTo(j, 6))
          /\ bound' = [j \in 1 .. MaxCreds |-> IF j < i THEN BoundAs(j)
                                               ELSE IF j = i THEN "fail" ELSE Unset]
          /\ FailsWith("err:credential:binding-failed")
    /\ UNCHANGED <<policy, binds, pres, verdict, status, delivered, persisted, wallet>>

\* Mutant: a skipped device binding is good enough.
UserBindingTrusting ==
    /\ At(7)
    /\ Passes("pass")
    /\ UNCHANGED <<policy, binds, pres, verdict, status, bound, delivered, persisted, wallet>>

\* Check 7: device binding passed, and no credential is revoked.
UserBinding ==
    LET Fine(i) == bound[i] = "pass" /\ status[i] \notin {"revoked", "suspended"} IN
    /\ At(7)
    /\ \/ (\A i \in Creds : Fine(i)) /\ Passes("pass")
       \/ (\E i \in Creds : ~Fine(i)) /\ FailsWith("err:credential:binding-failed")
    /\ UNCHANGED <<policy, binds, pres, verdict, status, bound, delivered, persisted, wallet>>

\* Check 8: the matcher may be satisfied only if every query is answered, by a
\* holder-bound credential where the query asks for one.
Answered(q) == \E i \in Creds : pres[i].query = q /\ (binds[q] => HolderBound(i))

QueryFulfilment ==
    /\ At(8)
    /\ \/ (\A q \in Queries : Answered(q)) /\ Passes("pass")
       \/ FailsWith("err:presentation:query-unfulfilled")
    /\ UNCHANGED <<policy, binds, pres, verdict, status, bound, delivered, persisted, wallet>>

\* No artifact answers two queries.
Independent ==
    \A i, j \in Creds : i < j /\ pres[i].query # pres[j].query
                        => pres[i].artifact # pres[j].artifact

\* Check 9.
CombinedChecks ==
    /\ At(9)
    /\ \/ Independent /\ Passes("pass")
       \/ ~Independent /\ FailsWith("err:presentation:combined-check")
    /\ UNCHANGED <<policy, binds, pres, verdict, status, bound, delivered, persisted, wallet>>

\* The report that goes out with a verified result: the nine rows so far and
\* the tenth, which Engine.Run has yet to add to its own copy.
\* Mutant: the builder's copy as it stands.
DeliveredSoFar == rows
DeliveredRows  == Append(rows, "pass")

\* Mutant: an error of Finalize is logged only.
AssembleForwardLogs ==
    /\ At(10)
    /\ delivered' \in {delivered, [outcome |-> "verified", rows |-> DeliveredRows]}
    /\ Passes("pass")
    /\ UNCHANGED <<policy, binds, pres, verdict, status, bound, persisted, wallet>>

\* Check 10: Finalize delivers and disposes; its error fails the check.
AssembleForward ==
    /\ At(10)
    /\ \/ /\ delivered' = [outcome |-> "verified", rows |-> DeliveredRows]
          /\ Passes("pass") \/ FailsWith("err:session:handoff-failed")
       \/ UNCHANGED delivered /\ FailsWith("err:session:handoff-failed")
    /\ UNCHANGED <<policy, binds, pres, verdict, status, bound, persisted, wallet>>

-----------------------------------------------------------------------------
\* reasons.go and walletFailProblem: the codes rated 4xx.
ClientRated ==
    Codes \ {"err:trust:anchor-unavailable", "err:session:handoff-failed"}

\* wallet_error.go: the response verified, the credential is refused.
TrustRefusal ==
    {"err:credential:issuer-untrusted", "err:credential:issuer-cert-expired",
     "err:credential:expired", "err:revocation:revoked"}

\* Mutant: the kit's fallback rating of a reason nobody registered.
UnregisteredIs500(code) ==
    CASE code = "err:presentation:wallet-declined" -> "declined"
      [] code \in TrustRefusal \ {"err:credential:issuer-cert-expired"} -> "not_accepted"
      [] code \in ClientRated \ (TrustRefusal \cup {"err:presentation:wallet-declined"})
            -> "not_verified"
      [] OTHER -> "server_error"

\* verificationOutcome, and server_error for what it leaves to the engine.
VerificationOutcome(code) ==
    CASE code = "err:presentation:wallet-declined" -> "declined"
      [] code \in TrustRefusal -> "not_accepted"
      [] code \in ClientRated \ (TrustRefusal \cup {"err:presentation:wallet-declined"})
            -> "not_verified"
      [] OTHER -> "server_error"

\* Process saves the report; an error of that is all the wallet hears of.
SaveReport ==
    /\ check = 11 /\ wallet = Unset /\ ~persisted
    /\ \/ persisted' = TRUE /\ UNCHANGED wallet
       \/ wallet' = "server_error" /\ UNCHANGED persisted
    /\ UNCHANGED <<policy, binds, check, pres, verdict, status, bound, rows, failCode,
                   delivered>>

\* A failed run is finalized with a report-only result, which the sink may refuse.
Refuse ==
    /\ persisted /\ wallet = Unset /\ failCode # NoCode
    /\ wallet' = VerificationOutcome(failCode)
    /\ delivered' \in {delivered, [outcome |-> "failed", rows |-> rows]}
    /\ UNCHANGED <<policy, binds, check, pres, verdict, status, bound, rows, failCode,
                   persisted>>

\* A verified run is answered unless its status or its code cannot be stored.
Redirect ==
    /\ persisted /\ wallet = Unset /\ failCode = NoCode
    /\ wallet' \in {"redirect", "server_error"}
    /\ UNCHANGED <<policy, binds, check, pres, verdict, status, bound, rows, failCode,
                   delivered, persisted>>

Next ==
    \/ ResponseIntegrity \/ Parse \/ IssuerAuthenticity \/ DataIntegrity \/ Revocation
    \/ DeviceBinding \/ UserBinding \/ QueryFulfilment \/ CombinedChecks
    \/ AssembleForward \/ SaveReport \/ Refuse \/ Redirect

Spec == Init /\ [][Next]_vars

-----------------------------------------------------------------------------
(***************************************************************************)
(* Properties.                                                             *)
(***************************************************************************)
Ended    == check = 11
Verified == Ended /\ failCode = NoCode

\* A credential the client's policy lets a relying party act on.
Acceptable(i) ==
    /\ verdict[i] = "ok"
    /\ \/ status[i] \in {"valid", Unset}
       \/ status[i] = "skippedShortLived" /\ policy.shortLived
       \/ status[i] = "skippedFailOpen" /\ ~policy.failClosed

\* Engine.Run with its ten checks: a verified report, or a result delivered as
\* verified, vouches for every credential in the response: none of the errors
\* check 3 deferred got lost, every credential is bound to its holder whatever
\* the policy relaxes, and no artifact answers two queries.
VerifiedIsAcceptable ==
    Verified \/ delivered.outcome = "verified" =>
        /\ Creds # {} /\ \A i \in Creds : Acceptable(i) /\ HolderBound(i)
        /\ \A q \in Queries : Answered(q)
        /\ Independent

\* errclass.go and the matrix tests: a run that fails at checks 3 to 6 fails at
\* the first check that owns an error of some credential, with that error's
\* code, even though one library call found them all at once.
FailureAttributed ==
    Ended /\ Len(rows) \in 3 .. 9 =>
        LET Errors == {i \in Creds : verdict[i] # Unset /\ ~Verifies(verdict[i])}
            Owner(i) == IF OwnerOf(verdict[i]) = 2 THEN 3 ELSE OwnerOf(verdict[i])
        IN  /\ \A i \in Errors : Owner(i) >= Len(rows)
            /\ Len(rows) \in {3, 4, 6} =>
                \E i \in Errors : Owner(i) = Len(rows) /\ failCode = CodeOf(verdict[i])
            /\ Len(rows) = 5 => \E i \in Creds : failCode = StatusCode(status[i])

\* README, per-client policy: a relaxation that let a credential through is
\* there to see in the report, and so is every row of what was delivered.
SkipVisible ==
    Verified /\ (\E i \in Creds : status[i] \in {"skippedShortLived", "skippedFailOpen"})
        => rows[5] = "skipped"

\* check_assemble_forward.go: the report delivered with a verified result is the
\* one that is persisted; and a response that checks 1 to 9 refuse never leaves
\* a verified result with the sink.
DeliveredMatchesReport ==
    /\ Verified => delivered = [outcome |-> "verified", rows |-> rows]
    /\ delivered.outcome = "verified" => Len(rows) >= 9
    /\ wallet \in {"declined", "not_accepted", "not_verified"} =>
        delivered.outcome # "verified"

\* wallet_error.go: a refusal is told as what it is, and unavailable anchors or a
\* failed handoff are never blamed on the wallet.
Cause ==
    LET Stopped(vs) == \E i \in Creds : FirstBad(i, LAMBDA j : StopsAt3(verdict[j]))
                                       /\ verdict[i] \in vs
    IN  CASE Len(rows) = 10 -> "server_error"
          [] Len(rows) = 3 /\ Stopped({"cacheExpired"}) -> "server_error"
          [] Len(rows) = 3 /\ Stopped({"validity", "certValidity", "untrusted"})
                -> "not_accepted"
          [] Len(rows) = 5 /\ \E i \in Creds : status[i] \in {"revoked", "suspended"}
                -> "not_accepted"
          [] Len(rows) = 1 /\ failCode = "err:presentation:wallet-declined" -> "declined"
          [] OTHER -> "not_verified"
WalletToldTheCause ==
    persisted /\ wallet # Unset /\ failCode # NoCode => wallet = Cause

\* Checks 1 to 9 decide, check 10 hands over, Process reports, and what the wallet
\* hears follows: whatever fails on the way, as ResultDelivery says.
Decision == IF check < 10 THEN "none"
            ELSE IF check = 11 /\ failCode # NoCode THEN "failed" ELSE "verified"
WalletTold == CASE wallet = Unset -> "none" [] wallet = "redirect" -> "verified"
                [] OTHER -> "failed"
Delivery == INSTANCE ResultDelivery WITH
    Runs <- {1}, decided <- [r \in {1} |-> Decision],
    handed <- [r \in {1} |-> delivered.outcome],
    reported <- [r \in {1} |-> IF persisted THEN Decision ELSE "none"],
    told <- [r \in {1} |-> WalletTold]
DeliversAsPromised == Delivery!Spec

\* check_user_binding.go: check 7 stops a response only over a credential whose key
\* binding the policy or its query had relaxed; every binding that was insisted on is
\* there by then.
StoppedOverRelaxed ==
    Ended /\ Len(rows) = 7 =>
        /\ \E i \in Creds : pres[i].format = "sdjwt" /\ ~RequireKB(i) /\ bound[i] = "skipped"
        /\ \A i \in Creds : RequireKB(i) => HolderBound(i)

\* README, per-client policy: "SD-JWT VC KB-JWT binding not required".
RelaxedBindingAccepted ==
    Ended /\ Len(rows) = 7 => \E i \in Creds : RequireKB(i) /\ ~HolderBound(i)
=============================================================================
