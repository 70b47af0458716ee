---------------------------- MODULE CredentialLife ----------------------------
(***************************************************************************)
(* A credential from its issuance to the wallet response that presents it, *)
(* and what of the time in between the checks 3 and 5 take into account    *)
(* (internal/pipeline/issuervalidity.go, check_issuer_authenticity.go).    *)
(* VerificationPipeline lets the libraries answer freely.  Here one        *)
(* presentation has a history, and the answers follow from it: from the    *)
(* windows of the certificates that signed the credential and its status   *)
(* list, and from the instant each path is judged at.                      *)
(*                                                                         *)
(* The wallet and the issuer are outside this repository.  Days stand for  *)
(* time; a run of the pipeline is over within the day.                     *)
(***************************************************************************)
EXTENDS VerificationPipeline

CONSTANTS
    Models,         \* values of Configuration.IssuerValidityModel
    CertDays,       \* days a signing certificate is valid after its first
    CredentialDays, \* days a credential is valid after its first
    LastDay,        \* bound: the last day there is
    NoDay,          \* no signing time
    Untracked       \* the response has no credential with a history

Days == 0 .. LastDay
Window == [from : Nat, until : Nat]
HeldCredentials == [format : Formats, iat : Days \cup {NoDay}, path : Window, until : Nat]

\* Configuration's validate tag on issuer_validity_model.
ASSUME LifeTyped ==
    /\ Models \subseteq {"chain", "shell"}
    /\ CertDays \in Nat /\ CredentialDays \in Nat /\ LastDay \in Nat
    /\ NoDay \notin Nat /\ Untracked \notin HeldCredentials

VARIABLES
    validity,   \* the deployment's validity model
    today,
    signer,     \* window of the issuer's certificate path in use
    list,       \* window of the path that the published status list is signed with
    held,       \* the credential in the wallet
    seen        \* its signing time as the pipeline read it before verifying it

life == <<validity, today, signer, list, held, seen>>

Covers(window, day) == day \in window.from .. window.until
Tracked == held # Untracked

LifeInit ==
    /\ Init
    /\ validity \in Models
    /\ today = 0
    /\ signer = [from |-> 0, until |-> CertDays] /\ list = signer
    /\ held = Untracked /\ seen = NoDay

-----------------------------------------------------------------------------
(***************************************************************************)
(* The issuer and the wallet, before there is a response.                  *)
(***************************************************************************)
\* An SD-JWT need not say when it was signed.  Nothing keeps an issuer from signing
\* with a certificate that has expired.
Issue(format, iat) ==
    /\ ~Tracked
    /\ iat \in IF format = "sdjwt" THEN {today, NoDay} ELSE {today}
    /\ held' = [format |-> format, iat |-> iat, path |-> signer,
                until |-> today + CredentialDays]
    /\ UNCHANGED <<today, signer, list>>

Rotate ==
    /\ signer' = [from |-> today, until |-> today + CertDays]
    /\ UNCHANGED <<today, list, held>>

Publish == list' = signer /\ UNCHANGED <<today, signer, held>>

NextDay == today < LastDay /\ today' = today + 1 /\ UNCHANGED <<signer, list, held>>

Living ==
    /\ At(1)
    /\ \/ \E format \in Formats, iat \in Days \cup {NoDay} : Issue(format, iat)
       \/ Rotate \/ Publish \/ NextDay
    /\ UNCHANGED <<validity, seen, vars>>

-----------------------------------------------------------------------------
(***************************************************************************)
(* The instants.                                                           *)
(***************************************************************************)
\* Mutant: the current time, whatever the model.
PathValidationNow(signed, now) == now

PathValidationTime(signed, now) ==
    IF validity = "chain" /\ signed # NoDay THEN signed ELSE now

\* Both formats are judged at the time the credential claims, still unverified: an
\* SD-JWT's by Peek, an mdoc's in the resolver that the library calls back.
Instant == PathValidationTime(seen, today)

\* Mutant: the presented signing time is taken for the authenticated one.
SigningTimeNeverUsed(signed) == FALSE

SigningTimeUsed(signed) == validity = "chain" /\ signed # NoDay

\* Mutant: the status list is judged like the credential.
StatusInstantOfModel == Instant

\* A status list is fetched now, so its signer must be valid now under either model.
StatusInstant == today

\* Under the signing-time model the time read before the signature was verified has
\* to be the one it authenticates.  Of an mdoc the library checks that whatever the
\* model, and that it is within the signer's window.
TimeConfirmed ==
    IF held.format = "mdoc" THEN seen = held.iat /\ Covers(held.path, seen)
                            ELSE SigningTimeUsed(seen) => seen = held.iat

\* What check 3 may come to: a credential verifies only on a path that is valid at its
\* instant and within its own window, now.
Findings3 ==
    LET timely == Covers(held.path, Instant) IN
    {v \in Verdicts :
        /\ Verifies(v) => timely /\ today <= held.until /\ TimeConfirmed
        /\ v = "certValidity" => ~timely \/ (held.format = "mdoc" /\ ~TimeConfirmed)}

\* And check 5: without a valid signer the list says nothing.
Findings5 ==
    {v \in Statuses \cup {Unset} :
        v \in {"valid", "revoked", "suspended"} => Covers(list, StatusInstant)}

-----------------------------------------------------------------------------
(***************************************************************************)
(* The run.  A response whose credentials have no history comes on day 0.  *)
(* The first credential of any other is the one held; the rest is bounded  *)
(* to what does not get in its way: one presentation of the same format for *)
(* each query, and none but the first with anything wrong.                 *)
(***************************************************************************)
OneForEach(p) ==
    /\ Len(p) = MaxCreds
    /\ \A i \in DOMAIN p : p[i].format = held.format /\ p[i].artifact = i
    /\ \A i, j \in DOMAIN p : i # j => p[i].query # p[j].query

Respond ==
    /\ ResponseIntegrity
    /\ IF Tracked THEN pres' # <<>> => OneForEach(pres') ELSE today = 0
    /\ UNCHANGED life

\* Peek reads the signing time; nothing says yet that it is the authentic one.
Peek ==
    /\ Parse
    /\ IF Tracked THEN seen' \in Days \cup {NoDay} ELSE UNCHANGED seen
    /\ UNCHANGED <<validity, today, signer, list, held>>

JudgeIssuer ==
    /\ IssuerAuthenticity
    /\ Tracked => /\ verdict'[1] \in Findings3
                  /\ \A i \in Creds \ {1} : verdict'[i] \in {"ok", Unset}
    /\ UNCHANGED life

JudgeStatus ==
    /\ Revocation
    /\ Tracked => status'[1] \in Findings5 /\ \A i \in Creds \ {1} : status'[i] = Unset
    /\ UNCHANGED life

Remaining ==
    /\ \/ DataIntegrity \/ DeviceBinding \/ UserBinding \/ QueryFulfilment \/ CombinedChecks
       \/ AssembleForward \/ SaveReport \/ Refuse \/ Redirect
    /\ UNCHANGED life

LifeNext == Living \/ Respond \/ Peek \/ JudgeIssuer \/ JudgeStatus \/ Remaining

LifeSpec == LifeInit /\ [][LifeNext]_<<vars, life>>

-----------------------------------------------------------------------------
(***************************************************************************)
(* Properties.                                                             *)
(***************************************************************************)
\* config.go, enforced in both models: what a verified report vouches for is within
\* its own window now, its issuer's path was valid when it was signed or, where that
\* is not known or the model does not allow for it, is valid now; and the list that
\* did not revoke it has a signer that is valid now.
VerifiedInTime ==
    Tracked /\ (Verified \/ delivered.outcome = "verified") =>
        /\ today <= held.until
        /\ Covers(held.path, IF validity = "chain" /\ held.iat # NoDay THEN held.iat ELSE today)
        /\ status[1] = "valid" => Covers(list, today)

\* issuervalidity.go: under the signing-time model a wallet still verifies after its
\* issuer rotated the signer.  A credential is refused for its certificate only if
\* that was not valid at the time the model judges it at.
RotationSurvived ==
    Tracked /\ failCode = "err:credential:issuer-cert-expired" /\ seen = held.iat =>
        ~Covers(held.path, IF validity = "chain" /\ held.iat # NoDay THEN held.iat ELSE today)
=============================================================================
