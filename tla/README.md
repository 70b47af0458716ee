# Verification of eudi-verifier-core

TLA+ models of the verifier core, from the relying party's request for a session
to the result it is told: what a create request turns into, what happens to the
session while wallets, retries and operators race for it, what the ten-check
pipeline concludes from a wallet response, which trust anchors and instants it
concludes that on, and how the result gets out. The models are checked by TLC on
small instances; theorems in `*Proofs.tla` and `SessionLifecycleSafety` are proved
with TLAPS.

## 1. The system and its parts

| Component | State it keeps | Operations | Interacts with |
|---|---|---|---|
| Internal API (`routes/internal.go`) | none | create with its validation, DELETE, report | creator, store, metadata |
| Session creator (`internal/sessions`) | none | `Create`, the routing tokens' `Put` / `Resolve` | engine library, session store, metadata store |
| Wallet endpoints (`routes/wallet.go`) | none, everything is in the stores | `requestObject`, `walletResponse` | store, metadata, processor |
| Response processor (`routes/processor_pipeline.go`) | the run's local context | `Process` | pipeline, metadata store, store, sink |
| Session store (`internal/valkeystore`) | Valkey keys `vc:session:{id}`, `:served`, `:consumed`, `vc:respcode:{code}`, each with a TTL | `Save`, `Load`, `ConsumeOnce`, `MarkRequestObjectServed`, `SaveResponseCode`, `DeleteSession` | Valkey |
| Verification pipeline (`internal/pipeline`) | one context per run | `Engine.Run` with ten checks, `Finalize` | format, trust and status libraries, sink, store |
| Issuer validity model (`internal/pipeline/issuervalidity.go`) | none, fixed at startup | the instant of path validation, the comparison of signing times | checks 3 and 5 |
| Client policy (`internal/policy`) | snapshot on the session | `Parse`, three defaults | pipeline |
| Wallet error boundary (`routes/wallet_error.go`, `reasons.go`) | reason registry, fixed at startup | `verificationOutcome` | processor |
| Trust anchors (`internal/anchors`) | none, reads what the trust-cache worker wrote | `AnchorsFor`, `Freshness`, `SnapshotHealth` | Valkey |
| Handoff queue (`internal/handoff`) | Valkey payload key and one queue | `Deliver` | management service |
| Metadata store (`internal/sessiondb`) | PostgreSQL row per session | `Create`, `Get`, `SetStatus`, `SaveReport` | stored procedures |
| Readiness (`routes/readyz.go`, `truststatus.go`) | none | reads | anchors, Valkey, PostgreSQL |
| Status-list cache (`internal/statuscache`) | one Valkey key per list | `Get`, `Set`, `Record` | status library |
| Wiring and configuration (`app.go`, `config.go`) | none after startup | construction, validation of the TTLs | everything |

The service keeps no state of its own between requests. Everything a request
leaves for the next one is in Valkey or PostgreSQL, several instances may serve
the same session, and no lock or transaction spans two store calls. So the order
of individual store calls, of different requests and with any of them failing,
is what decides whether a session is answered once.

What makes the parts hard, and what makes them right:

| Part | Hard behaviour | What makes it right |
|---|---|---|
| Session lifecycle | retries of the wallet race on SET NX markers; the operator's DELETE and a run's own DELETE remove those markers; calls fail before or after they took effect; keys expire one by one | one run at a time; one redeemable `response_code`, for a verified result that nobody replaced; one request object; no key without an expiry |
| Session creation | the handler repeats rules of the engine; a test fixture stands in for an empty registration; request mode depends on query, origins, client and deployment; seconds times nanoseconds wraps | whatever the engine would refuse is refused as the caller's error; the fixture is out of a caller's reach; an unsigned browser request needs everyone's consent; a granted lifetime is positive, at most the default and the one asked for |
| Pipeline | one library call finds the errors of checks 3, 4 and 6 for all credentials, and the checks report them later; policies turn failures into skips | a verified result vouches for every credential under every policy; failures are reported by the check that owns them; the delivered report is the persisted one |
| Issuer validity | credentials outlive the certificate that signed them; the signing time is used before anything has authenticated it; a status list is judged at another instant than the credential | what a verified report vouches for was valid at the instant the model prescribes; a rotation refuses nobody it should not |
| Wallet error boundary | the rating of a reason decides whether the wallet or the service is blamed | the wallet is told the cause, and never blamed for a fault of the service |
| Trust anchors | several types with their own freshness, two reads per empty territory, a worker that syncs in between | decisions rest on anchors that were current; an outage stops the search, an honest "no" does not |
| Handoff queue | a payload and a queue entry with separate lifetimes; one run may deliver twice; the verified payload is out before report and status are | a queue entry leads to a payload; payload, webhook, report and status do not contradict each other once the run is over; no envelope promises a payload that is gone |
| Readiness | two freshness rules, one with grace; one probe reads five records one after another | 200 means that each component was in order during the probe; no component is blamed that was in order throughout |

`PROJECT.json` lists every component with what is left out of it, and the
hazards at their lines with the properties that cover them.

## 2. Modules and the code they model

| Module | Role |
|---|---|
| `ResponseCodes` | abstract specification: the promise behind a same-device session |
| `ResultDelivery` | abstract specification: what a run promises about its result |
| `SessionLifecycle` | creator, wallet endpoints, processor, store and disposal, composed over their shared keys; properties |
| `SessionLifecycleInv` | the inductive invariant of that module, and how far the three promises it breaks hold |
| `SessionRefinement` | the mapping under which it implements `ResponseCodes` |
| `SessionLifecycleProofs` | type correctness, and lemmas on what each action changes |
| `SessionLifecycleSafety` | the inductive invariant and every safety property, proved |
| `SessionRefinementProofs` | the refinement, proved |
| `SessionCreation` | a create request, from its fields to session, row and answer |
| `HandoffQueue` | a run's deliveries, report and status, and the consumer |
| `ClientSide` | the two composed over the metadata row; the inductive invariant; the mapping to `ResultDelivery` |
| `ClientSideProofs` | their safety properties and that refinement, proved |
| `VerificationPipeline` | the ten checks over one response, and the processor's use of the report |
| `VerificationPipelineProofs` | its type invariant, the meaning of a verified report and that it implements `ResultDelivery`, proved |
| `VerificationReasonsProofs` | what a failed run reports and what the wallet is told, proved |
| `CredentialLife` | the pipeline, over a credential with a history and under both validity models |
| `CredentialLifeProofs` | its two properties, and that it is a pipeline, proved |
| `TrustAnchors` | one lookup of an issuer or status signer against the worker's cache |
| `Readiness` | one probe of `/readyz` against the same cache |
| `TrustAnchorsProofs` | the safety properties of lookups and probes, proved |
| `MC*` | instances for TLC |

**SessionLifecycle.** One step per call to Valkey or PostgreSQL. A handler's
position (`ppc`, `gpc`, `cpc`) is the call it is about to make; `copy` is the
session record it loaded, which it uses although the store may have moved on.
`Call` is the shape of every store call: it succeeds, or it fails and its effect
took place or not. A wallet POST goes through `PostResolve` (routing token),
`PostLoad`, `PostClaim`, `PostPersist` and `PostRollback` (the four calls of
`ConsumeOnce`), `PostMeta`, `PostVerify` (checks 1 to 9), `PostDeliver` and
`PostDispose` (`Finalize`), `PostReport`, and the failed or the verified branch
of `Process`. `GetLoad` to `GetEngage` are `requestObject`, `Create...` the
creator, `InternalDelete` the operator's DELETE. A handler may crash at any
point after its first call.

Time: a key carries the ticks it has left, as PTTL reports, and `left` those
until the engine session's `ExpiresAt`. `Tick` ages all at once. `NoExpiry` is a
key without an expiry, which go-redis writes for a duration that is not
positive.

`holds`, `jars`, `handoffs`, `codes`, `cleared` and `opDeleted` are history: no
action reads them.

**ResponseCodes.** `Conclude`, `Publish`, `Retract`, `Fail`, `Issue`, `Expire` and
`Delete` say what may become of a session's result: at most one run at a time is
concluded, a code is issued only for a concluded run whose result is the
session's, and neither is taken back afterwards. `SessionRefinement` maps a run
past check 9 to a concluded one, the payload in the handoff store to the result
as long as the session is same-device, not expired and not deleted, and the codes
of sessions not deleted to the issued ones.

**ResultDelivery.** A result is decided (`Decide`), handed over (`HandOver`, after
which the decision may be taken back), reported (`Report`, a verified one only when
it has been handed over) and told (`Tell`); only a report of failure lets what was
handed over be replaced (`Replace`). `ClientSide` implements it with the payload as
what was handed over, the metadata row's report, and its status as what the client
was told; `VerificationPipeline` with the delivery of check 10, `SaveReport`, and
the answer to the wallet. The two meet the same promise from both ends of a run.

**SessionCreation.** `phase` is where a request's handler is. `Turned` is an early
refusal (bearer token, JSON), `Validate` the checks of `buildCreateInput` in their
order, with the status each answers; `Mint`, `Unsign` and `Store` are the steps of
`Create`, `CreateFails` their errors, `Respond` the 201. Durations are integers
that wrap at `HalfRange`, 2^63 in the program. `EngineAccepts` is what
`engine.NewSession` refuses, as the comments of `Create` describe it. Where
`SessionLifecycle` has the three store calls one by one, `Store` is one step, for
the question here is what the fields turn into.

**HandoffQueue.** One run per session. A verified one goes through `Verify`, `Seal`
and `Exec` (`Deliver`), `DisposeSession` (`Finalize`), `SaveReport` and
`MarkOutcome`; a failed one reports and marks first, then delivers; a verified one
that fails on the way becomes a failed one, and delivers again. `MarkFailed` is
`walletResponse` on an error. `Attempt` is the shape of a call that may fail with
or without its effect; `Crash` ends the run where it is.
`payload[s].life` is the life of the key, `due` the time to the `ExpiresAt` that
the envelope states. The consumer is outside the repository: `Pop` takes an entry
and `Tell` tells the client what it then finds, or that it found nothing.

**ClientSide** composes both. They share the metadata row: a session is verified
once its creator was answered 201, and its run reads there whether to deliver by
webhook.

**VerificationPipeline.** `check` is the check that runs next, `rows` the report
so far. What the libraries answer for a credential is chosen when the code asks
and kept (`verdict`, `status`), so that the verdict can be compared with it.
Check 3 meets all errors of a credential at once and defers those of checks 4
and 6 (`DeferredTo`); check 10 delivers, `SaveReport` persists, `Refuse` and
`Redirect` are the two ends of `Process`.

**CredentialLife.** Before there is a response, an issuer signs with the
certificate in use (`Issue`), replaces it (`Rotate`), signs its status list anew
(`Publish`), and days pass. Then each step of the pipeline is one here: `Peek` is
`Parse`, and reads a signing time that may not be the authentic one;
`JudgeIssuer` and `JudgeStatus` restrict what the libraries may answer to what
the windows of the certificates allow at `Instant` and `StatusInstant`. So each
behaviour is one of `VerificationPipeline` (`LifeIsPipeline`), and responses
without a tracked credential are among them, so that the run checks the whole
pipeline too.

**TrustAnchors.** A lookup walks over the types `CredentialTrustMap` names and,
in each, over the territories go-eudi-trust asks for. `ReadBlob` and
`ReadMarker` are the two reads of `AnchorsFor`, `ReadFails` a transport error,
`NextType`, `Expired` and `Accept` the branches of `resolveByTypes` and
`resolveIssuerFor`. `Sync`, `Vanish` and `Tick` are the worker, key expiry and
time; they are external. An issuer's chain is reduced to the anchor it leads to.

**Readiness.** A probe goes through `PingDB`, `PingValkey`, `ReadFreshness` (one
step per anchor type), `ReadSnapshot` and `AnswerProbe`, and the worker, expiry,
time and outages of Valkey come in between. A behaviour is a lookup or a probe:
neither writes, so that the two together would show no more. `sound` and `broken`
are the history the answer is compared with.

How the modules fit. `SessionLifecycle`, `ClientSide` and `CredentialLife` compose
components; what one module leaves free, another details, and the free version
admits more: `PostVerify` accepts or refuses freely, as the pipeline decides;
check 3 meets `cacheExpired` or `untrusted` freely, as the lookup decides;
`SessionLifecycle` has no envelopes, but several runs on a session, where
`HandoffQueue` has one run and its envelopes. A safety property of the outer
module therefore does not depend on how the inner one decides.

## 3. The runs

| Run | Question | Result |
|---|---|---|
| `lifecycle_races` | two POSTs, two GETs and a DELETE race while keys expire | at most one claim and one request object until the session is cleared; a marker outlives its session; a DELETE that no loaded copy can undo is for good |
| `lifecycle_faults` | two POSTs and a GET with any two calls failing, or a handler dying | one redeemable `response_code`, for a verified result that stays intact; status verified only after the handoff; markers removed only by their holder; `ResponseCodes` is implemented; the inductive invariant |
| `lifecycle_expiry` | does every key go away | yes, under fairness, also after a fault and a DELETE |
| `lifecycle_consumed_once` | does exactly one caller see `first==true` | no, see findings |
| `lifecycle_deleted_dead` | does DELETE kill the session | no, see findings |
| `lifecycle_failed_finalized` | is every failed run finalized | no, see findings |
| `client_side` | what every request body turns into, and what the client hears of the result while two calls fail | the caller's errors are told as such, no fixture, no unsigned request without consent, lifetimes as asked; payload, report, status and webhook agree; every result is forgotten; `ResultDelivery` is implemented |
| `pipeline_verdicts` | all library answers for up to two presentations, every policy; and for a credential with a history, under both validity models | eight invariants hold; `ResultDelivery` is implemented |
| `pipeline_relaxed_binding` | does relaxing SD-JWT device binding let one through | no, see findings |
| `trust_lookups` | issuer and status-signer lookups, three classifications, up to two failing reads; and probes of `/readyz` | decisions on current anchors, a failing read hides one anchor type at most, a healthy cache decides; ready means trusted, no false alarm |
| `trust_confirmed_empty` | is an empty territory confirmed by the sync that wrote the marker | no, see findings |
| `trust_unreachable` | is an unreachable cache reported as the service's fault | no, see findings |

Bounds, and why they are enough to make the interesting cases happen:

- One session. Every key is derived from a session id, or from a token or code
  minted for one session, so handlers of different sessions share no key; the
  handoff queue, which all share, is in the proofs with any number of sessions.
- Two POSTs and up to two GETs: the shortest races need two claimants. Three
  claimants are covered by the proofs.
- `SessionTTL = 2`, `RespCodeTTL = 1`, requested TTLs 0 and 1: the default and a
  shortened one, so that the token expires before, with and after the session,
  and any key may expire between any two calls. The violation runs use longer
  TTLs so that expiry is no part of the counterexample.
- `MaxFaults = 2` in `lifecycle_faults` and `client_side`: a failed call and the
  failure of what handles it (for example `Save` and the rollback, or a delivery
  and its replacement). Each may have taken effect. `lifecycle_expiry` has one
  fault and one POST, since liveness is dearer.
- `client_side`: bodies with at most two irregular fields (`MCIrregular`), since a
  check can only hide the next; `Second = 4`, `HalfRange = 32` (a clock of 6 bits),
  `DefaultTTL = 8`, and lifetimes of -1, 0, 1, 3, 9, 16 and 17 seconds, which come
  out negative, absent, below and above the default, and overflow to a negative
  duration, to zero and to less than the default. `HandoffTTL = 2` and
  `HardCap = 3`: a payload may expire before and after its entry is taken, and the
  cap is not the TTL. `MaxFailures = 1`: one failure ends a create request.
- `MaxCreds = 2` and two queries: the least number with which errors of two
  credentials compete for the report, or one artifact answers two queries.
- `CertDays = 1`, `CredentialDays = 1`, `LastDay = 2`: windows of two days out of
  three, so that a credential issued on a certificate's last day outlives it, and
  either may be over when it is presented. In a response with a tracked credential
  there is one presentation per query and the others are flawless: what goes
  wrong with several at once is checked in the responses without one.
- `MaxFaults = 2` in `trust_lookups`: one failing read may hide the type that lists
  an issuer, and two may hide two; a lookup tries two types.
- `Validity = 1`: before, at and after `ValidUntil` are the three cases the code
  distinguishes; `Grace = 1` adds the one after it in which a probe and a lookup
  disagree. Two types with two territories; one class that is scoped to a use
  case, one default class, and a fallback that tries two types. Both types are
  required for readiness.
- Deadlock checking is off in the trust and pipeline runs: a lookup, a probe and a
  run of the pipeline end.
- Symmetry: POSTs, GETs and queries are interchangeable and the safety runs use
  it; the liveness runs do not.

Fairness. Two properties assume any. `KeysForgotten` (`FairSpec` of
`SessionLifecycle`): weak fairness of each handler's next call and of time. A
handler runs in its own goroutine with nothing to wait for but its store calls,
and a call returns or times out; a crashed handler has no step left, so fairness
does not revive it. `ResultForgotten` (`HandoffFairness`): weak fairness of each
run's steps and of time, for the same reasons; none of the consumer, so that a
payload goes away although nobody takes it. No fairness is given to the arrival
of a request beyond its first step, nor to `DELETE`, a fault or a crash. Whether a
request is ever made does not matter to either property.

## 4. What is proved

The proofs hold for any sets of sessions, POSTs and GETs, any positive TTLs and
any number of failing calls (`TTLsPositive`, `RequestsTyped`), any number of
presentations and queries (`MaxCredsNat`), any request bodies and clock widths
(`CreationTyped`, `HandoffTyped`, `SessionsAreRequests`), any windows and number of
days (`LifeTyped`), and any classes, listings, required types and failing reads
(`LookupTyped`, `ReadinessTyped`).

One assumption stands for a fact that the provers cannot reach. `WithStatusTyped`
says that what `SelectSeq` leaves of a sequence of types is such a sequence;
`SelectSeq` is defined by recursion over its argument, and induction over data is
beyond TLAPS. TLC evaluates it in the trust runs.

`SessionLifecycleProofs`: `TypeCorrect`. `TypeOK` excludes `NoExpiry`, so it says
that no session-scoped key is ever written without an expiry. It needs `TypeInv`:
once the creator is past minting, the TTL it writes with is positive.

`SessionLifecycleSafety`: `Invariance`, and from it `MarkerOutlives`,
`RunsExclusive`, `RedemptionSingle`, `CodesRedeemable`, `CodesStandForVerified`,
`HandedOverFirst`, `RequestObjectsOnce` and the action property
`MarkersReleasedByHolder`; then the exact extent of the promises that findings 1
to 3 break, `ConsumedOnceWhileKept`, `DeletionFinal` and `FailedRunsFinalized`. The invariant `IndInv` is a conjunction of named parts,
because none of the properties is inductive:

- `MarkersInv`: a marker set is set for at least as long as the session has left.
  Without it a marker may expire under a running claim.
- `OutcomeInv`: the position of a handler says what its run came to.
- `HoldsInv`: whoever is past its claim holds the marker, as long as the session
  is protected: not expired, and not cleared by an operator or, cross-device, by
  a run. `ExclusiveRun` is a part of it.
- `HeldInv`: as long as no call has failed, a failed run still holds its claim.
- `VerifiedInv`: one verified run at most per same-device session, and payload,
  report and record are its own from the moment it wrote them.
- `HandoffInv`, `ServedInv`: the same for the sink and the request object.
- `ClaimedInv`: a run that was ever told it is first holds the claim until the
  session is cleared.
- `FinalizedInv`: what a failed run has left behind, by where it is, as long as no
  report, delivery or disposal failed.
- `StatusInv`: a verified status is that of a verified run past its report.

The proof has one lemma for each action and part that the action can disturb.
For the others, an effect lemma says what the action leaves alone.

`DeletionFinal` is an action property: a session that the operator deleted, that
is not loadable and that no response has in hand (`MaySave`) stays so.
`StatusOfVerifiedKept` names the writers to which a verified status may give way.
`HandlersReachTheirEnd` and `QuietSessionsForgotten` are what `KeysForgotten` rests
on, fairness apart: each call lowers the rank of its handler, and once the handlers
of a session have ended its keys only age, each of them with every tick.

`SessionRefinementProofs`: `ResponseCodesImplemented`. Initial states map to
initial states; given `IndInv`, each step maps to a step of `ResponseCodes` or to a
stutter. `VerifiedInv` is what forbids a second conclusion and a failed result
behind a code.

`ClientSideProofs`: `Inductive`, and from it `Typed`, `CallersErrorsAreTheirs`,
`FixtureNeverMinted`, `UnsignedOnlyIfPermitted`, `LifetimeGranted`,
`QueueIsDeliverable`, `ExpiryIsHonest`, `PollingAgrees` and `VerifiedIsHandedOver`.

- `CreatedInv`: past validation a handler works on a body that passed every check,
  and on what it made of it. `EngineTakes` then says that the engine refuses
  nothing of what the handler lets through, and `GrantedRange` what the arithmetic
  on wrapped durations comes to, for every width.
- `RunInv`: how far a run is, and what it has written by then.
- `ResultInv`: a verified result stands against a failed run only through a fault,
  and after the run only through two.

`IndInv` says nothing of how often a session is in the queue. `TellingInvariance`
adds that, and gives `LastWordAgrees` and `FaultlessIsTold`: `WordInv` (the client
was last told what the payload says, unless an entry is left), `ProgressInv` (what a
run without a fault has written by where it is) and `OnceInv` (without a fault a
session is in one place of the queue, in the consumer's hand, or told).

`ResultsDelivered`: `ClientSide` implements `ResultDelivery`. The lemmas come in two
rows, what a call of a run does to its result, in one of six ways (`RunDoes`), and
that each of the six is a step of the abstract specification (`RunImplements`);
consumer, time and creation are stutters. `ResultsConsistent` and `ReportsFinal`
are proved of `ResultDelivery`'s steps and so hold here: no later call changes a
report, or the payload behind a verified one. `ResultsFade` is what
`ResultForgotten` rests on, fairness apart: a run makes eleven calls at most,
whatever fails, although it may go through `Finalize` twice, and a payload that it
is not writing only ages.

`VerificationPipelineProofs`: `VerifiedAcceptable` from `AcceptInv`, which states
for each check what a run that got past it can rely on; `DeliveredIsReported`
and `PipelineTypeCorrect` from `ReportInv`, which ties the rows to the position
of the run and the delivery to the rows. `PipelineDelivers`: the pipeline implements
`ResultDelivery` too, with the same order at its other end; `SilentInv` says that
no report is saved and the wallet is told nothing before the ten checks are over.

`VerificationReasonsProofs`: `SkipsShow` from `SkipInv` (a skipped lookup is in the
fifth row from then on); `FailuresAttributed` and `CauseTold` from `EndInv` and
`ToldInv`. `EndInv` holds from the step in which the run fails: by then it is
settled which errors there are, and that no credential has one which an earlier
check owns. `AcceptInv` supplies the latter, for check 3 looks at a credential
only after it found none wrong before. `OnlyRelaxedStopped` from `StoppedInv`: check 7
ends a run only over a credential for which check 6 had relaxed the key binding.

`CredentialLifeProofs`: `LifeIsPipeline` (every step is a step of the pipeline, so
what is proved of the pipeline holds), `LifeInvariance`, `InTime` and
`RotationKeeps`. `HeldInv` says that a credential is signed on a day on which its
certificate has begun; `TimeInv` that what checks 3 and 5 found agrees with the
windows on the day of the response.

`TrustAnchorsProofs`: `DecidedOnCurrent`, `ListedNotRefused` and `HealthyDecides`
from `Invariance`: the history sets only shrink during a lookup, and a type is
left behind only when it is in neither `degraded` nor `readable` (`BehindInv`).
`FaultsHideOneEach` from `CountInv`, by counting: the types a lookup has left behind
although they could not be used, or listed the issuer, are at most as many as reads
that failed. `ListedNotRefused` is the case without one.
`LookupTypeCorrect`: a lookup stays within the types and territories it may try.
`ProbeIsIdle`: a probe leaves the lookup alone, so that all of this holds of
`Readiness` too. `ReadyIsTrusted` and `AlarmsAreReal` from `ProbeInv`: whatever the
probe has passed over was in order when it read it, and is no longer in `broken`.

Only model-checked:

- `KeysForgotten`, `ResultForgotten`: liveness under fairness, as ENABLED, is out of
  TLAPS's reach. Their safety halves are proved, see above; that a handler's next
  call is always possible, and that ranks and lifetimes cannot fall for ever, is
  not. Induction over data and RECURSIVE operators are out of reach as well; but for
  `WithStatusTyped` nothing here needs them.
- The violation runs are counterexamples; nothing is proved about them.

## 5. Findings

1. `ConsumeOnce` promises that exactly one caller sees `first==true`
   (`internal/valkeystore/store.go:109`). It loads the session before it sets the
   marker, and a cross-device or failed run deletes session and marker together. A
   retry that loaded before the deletion claims a fresh marker and runs the
   pipeline on its copy.
2. `DELETE` is to kill the session (`src/README.md:67`). A run in flight saves its
   copy afterwards, and the session is loadable again until it expires.
3. A failed run is to delete the session and tell the client
   (`routes/processor_pipeline.go:59`, `src/README.md:206`). If `SaveReport` fails,
   `Process` returns before it does either.
4. With `require_device_binding_sdjwt` off a key-binding JWT is not required
   (`src/README.md:232`). Check 7 refuses the credential that check 6 let through.
5. A fresh freshness record is to confirm that the last sync wrote nothing for a
   territory (`internal/anchors/valkey.go:77-79`). The blob is read before it: a
   sync in between supplies the record and the anchors that are then overlooked.
6. Unreachable trust anchors are to be the service's fault
   (`routes/wallet_error.go:63-64`). A transport error of Valkey falls through
   `resolveByTypes` to `issuer-untrusted`, and the wallet is told that its
   credential is not accepted.

Theorems say how far each goes:

- 1: until a session expires or somebody deletes it, one caller at most is told
  that it is first (`ConsumedOnceWhileKept`). A run deletes it only when it failed
  or is cross-device; a same-device session that the operator leaves alone has one
  redeemable result at most, retries or not (`RedemptionSingle`).
- 2: a DELETE is for good if no response is then between its load and its last save
  (`DeletionFinal`).
- 3: where no saving of a report, delivery or disposal fails, a failed run has
  deleted its session and the client was told (`FailedRunsFinalized`).
- 4: check 7 ends a run over a relaxed key binding and over nothing else
  (`OnlyRelaxedStopped`).
- 5: an issuer is still never accepted on a type that was degraded throughout the
  lookup, nor refused on one while reads succeed (`DecidedOnCurrent`).
- 6: each failing read hides one anchor type at most, and without one no listed
  issuer is refused (`FaultsHideOneEach`).

## 6. What is not modelled

- The format, trust, status and OpenID4VP libraries: they are not in the
  repository, and answer nondeterministically within what the code tells apart.
- `session.set_status` and the other stored procedures: modelled as the
  overwrites of `internal/sessiondb/fake.go`. Whether they refuse a regress of the
  status is unknown.
- Claims, disclosures, report details, encryption of the payload, zeroing of
  memory: data that no step decides on.
- The decoding of JSON and the syntax of URLs and origins, reduced to valid or
  not. Chains of certificates, reduced to an anchor and a window.
- The status-list cache: one key with a TTL, and whether a cached list is still
  good is the checker library's decision.
- The trust status route, which reads the records of `/readyz` and decides
  nothing; `anchors/static.go`, anchors for tests; certificates in the cache that
  cannot be parsed.
- Startup and configuration, but for the constraints on TTLs, modes and models,
  which are assumptions of the modules; key publication, metrics, redaction, the
  test wallet and the test harness.

## 7. Plan

What is left, in order of weight:

1. Several runs on a session together with their envelopes: `SessionLifecycle`'s
   sink replaced by `HandoffQueue`'s, to state `PollAgrees` across retries, and to
   prove that it implements `ResultDelivery` as long as runs are exclusive.
2. The status-list cache, with its TTL, under the checker's fail-open policy.
3. Unparseable certificates in the trust cache, on which `AnchorsFor` fails.
