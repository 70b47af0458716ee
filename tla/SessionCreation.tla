---------------------------- MODULE SessionCreation ----------------------------
(***************************************************************************)
(* POST /internal/v1/sessions: what becomes of a request, from the bearer  *)
(* token through buildCreateInput (routes/internal.go) and Creator.Create  *)
(* (internal/sessions/creator.go) to the answer.  SessionLifecycle has     *)
(* Create's three store calls one by one; here they are one step, and the  *)
(* question is what the caller's fields turn into.                         *)
(*                                                                         *)
(* A field is reduced to what its checks tell apart.  Durations are signed *)
(* integers that count nanoseconds, Second of them a second, and wrap at   *)
(* HalfRange: 2^63 in the program, 2^(w - 1) for a width of w bits.        *)
(***************************************************************************)
EXTENDS Integers, FiniteSetsExt

CONSTANTS
    Requests,       \* requests, and the sessions that come of them
    Bodies,         \* request bodies that are JSON of the right shape
    Modes,          \* values of Configuration.DCAPIRequestMode
    DefaultTTL,     \* Configuration.SessionTTL, in nanoseconds
    Second, HalfRange,
    MaxFailures,    \* bound: calls of Create that fail
    Nothing         \* no body read yet, no session, no row

RequestBodies ==
    [client : {"absent", "given"}, correlation : {"absent", "given"},
     flow : {"same_device", "cross_device", "dcapi", "unknown"},
     query : {"absent", "unparsable", "invalid", "valid"},
     origins : {"absent", "bad", "good"}, redirect : {"absent", "bad", "good"},
     registration : {"zero", "incomplete", "complete"},
     policy : {"absent", "malformed", "signed", "unsigned"},
     webhook : BOOLEAN, ttl : Int]

\* Configuration's validate tags on session_ttl and dcapi_request_mode.
ASSUME CreationTyped ==
    /\ Bodies \subseteq RequestBodies
    /\ Modes \subseteq {"signed", "unsigned", "both"}
    /\ DefaultTTL \in Nat \ {0} /\ Second \in Nat \ {0} /\ HalfRange \in Nat \ {0}
    /\ MaxFailures \in Nat

VARIABLES
    mode,       \* the deployment's ceiling on browser requests
    phase,      \* where the handler of a request is
    body,       \* the decoded body, while the handler runs
    minted,     \* the session engine.NewSession returned, from its spec
    member,     \* the browser request handed out with it
    row,        \* the metadata row
    answer,     \* HTTP status
    failures    \* calls that failed

creation == <<mode, phase, body, minted, member, row, answer, failures>>

CreationInit ==
    /\ mode \in Modes
    /\ phase = [r \in Requests |-> "arrives"]
    /\ body = [r \in Requests |-> Nothing]
    /\ minted = [r \in Requests |-> Nothing]
    /\ member = [r \in Requests |-> "none"]
    /\ row = [r \in Requests |-> Nothing]
    /\ answer = [r \in Requests |-> 0]
    /\ failures = 0

-----------------------------------------------------------------------------
(***************************************************************************)
(* buildCreateInput.                                                       *)
(***************************************************************************)
\* Mutant: only a registration that was given is looked at.
RegistrationRefusedIfGiven(b) == b.registration = "incomplete"

\* rpcert's RegistrationRef.Validate refuses the zero value too.
RegistrationRefused(b) == b.registration # "complete"

\* Origins go with the browser flow, and the return target with same-device.
OriginsAbsent(b)  == b.flow = "dcapi" /\ b.origins = "absent"
OriginsRefused(b) == IF b.flow = "dcapi" THEN b.origins = "bad" ELSE b.origins # "absent"
RedirectAbsent(b)  == b.flow = "same_device" /\ b.redirect = "absent"
RedirectRefused(b) == b.flow = "same_device" /\ b.redirect = "bad"

\* The checks in their order, with the status a request is refused with.
Checks(b) == <<
    [fails |-> b.client = "absent",                      status |-> 400],
    [fails |-> b.correlation = "absent",                 status |-> 400],
    [fails |-> b.flow = "unknown",                       status |-> 422],
    [fails |-> b.query = "absent",                       status |-> 400],
    [fails |-> b.query \in {"unparsable", "invalid"},    status |-> 422],
    [fails |-> OriginsAbsent(b),                         status |-> 400],
    [fails |-> OriginsRefused(b),                        status |-> 422],
    [fails |-> RedirectAbsent(b),                        status |-> 400],
    [fails |-> RedirectRefused(b),                       status |-> 422],
    [fails |-> RegistrationRefused(b),                   status |-> 422],
    [fails |-> b.policy = "malformed",                   status |-> 422],
    [fails |-> b.ttl < 0,                                status |-> 422] >>

Failing(b)  == {i \in DOMAIN Checks(b) : Checks(b)[i].fails}
Accepted(b) == Failing(b) = {}
Refusal(b)  == Checks(b)[Min(Failing(b))].status

\* int64 arithmetic wraps.
Wrap(n) == ((n + HalfRange) % (2 * HalfRange)) - HalfRange

\* time.Duration(req.TTLSeconds) * time.Second
AskedTTL(b) == Wrap(b.ttl * Second)

-----------------------------------------------------------------------------
(***************************************************************************)
(* Create.                                                                 *)
(***************************************************************************)
\* Mutant: no test that a TTL was asked for at all.
GrantedTTLUnchecked(b) == IF AskedTTL(b) < DefaultTTL THEN AskedTTL(b) ELSE DefaultTTL

\* The caller may shorten the default, never extend it.
GrantedTTL(b) ==
    IF AskedTTL(b) > 0 /\ AskedTTL(b) < DefaultTTL THEN AskedTTL(b) ELSE DefaultTTL

\* Mutant: the return target goes into the spec of every flow.
SpecOfAnyReturn(b) ==
    [flow |-> b.flow, query |-> b.query, origins |-> b.origins,
     responseURI |-> b.flow # "dcapi", returnURI |-> b.redirect,
     registration |-> IF b.registration = "zero" THEN "fixture" ELSE b.registration]

\* The spec of the session: a return target for same-device only, a response_uri
\* except for the browser flow, and the fixture for a zero registration.
SpecOf(b) ==
    [flow |-> b.flow, query |-> b.query, origins |-> b.origins,
     responseURI |-> b.flow # "dcapi",
     returnURI |-> IF b.flow = "same_device" THEN b.redirect ELSE "absent",
     registration |-> IF b.registration = "zero" THEN "fixture" ELSE b.registration]

\* What go-oid4vp's validateSpec accepts; anything else is ErrSpec.
EngineAccepts(spec) ==
    /\ spec.query = "valid"
    /\ spec.responseURI <=> spec.flow # "dcapi"
    /\ spec.returnURI = IF spec.flow = "same_device" THEN "good" ELSE "absent"
    /\ spec.origins = IF spec.flow = "dcapi" THEN "good" ELSE "absent"

\* Mutant: the client's choice counts whatever the deployment says.
SignedDCAPIByClient(b) == b.policy # "unsigned"

\* The ceiling first, and only under "both" the client's own choice, which is
\* signed unless recorded otherwise.
SignedDCAPIRequired(b) ==
    CASE mode = "unsigned" -> FALSE
      [] mode = "both" -> b.policy # "unsigned"
      [] OTHER -> TRUE

-----------------------------------------------------------------------------
(***************************************************************************)
(* The handler.                                                            *)
(***************************************************************************)
CreationTo(r, p) == phase' = [phase EXCEPT ![r] = p]

\* The handler answers and its locals are gone.
Answer(r, status) ==
    /\ CreationTo(r, "answered")
    /\ answer' = [answer EXCEPT ![r] = status]
    /\ body' = [body EXCEPT ![r] = Nothing]

\* internalBearerAuth and json.Unmarshal: refused before any field is looked at.
Turned(r) ==
    /\ phase[r] = "arrives"
    /\ \E status \in {401, 400} : Answer(r, status)
    /\ UNCHANGED <<mode, minted, member, row, failures>>

Validate(r) ==
    /\ phase[r] = "arrives"
    /\ \E b \in Bodies :
        \/ ~Accepted(b) /\ Answer(r, Refusal(b))
        \/ /\ Accepted(b) /\ CreationTo(r, "mint")
           /\ body' = [body EXCEPT ![r] = b]
           /\ UNCHANGED answer
    /\ UNCHANGED <<mode, minted, member, row, failures>>

\* A call of Create fails; the caller gets the unclassified 500.
CreateFails(r) ==
    /\ phase[r] \in {"mint", "unsign", "store"}
    /\ failures < MaxFailures /\ failures' = failures + 1
    /\ Answer(r, 500)
    /\ UNCHANGED <<mode, minted, member, row>>

\* engine.NewSession, with the signed browser request for the browser flow.
Mint(r) ==
    LET spec == SpecOf(body[r]) IN
    /\ phase[r] = "mint"
    /\ \/ /\ EngineAccepts(spec)
          /\ CreationTo(r, "unsign")
          /\ minted' = [minted EXCEPT ![r] = spec]
          /\ member' = [member EXCEPT ![r] = IF spec.flow = "dcapi" THEN "signed" ELSE "none"]
          /\ UNCHANGED <<body, answer>>
       \/ ~EngineAccepts(spec) /\ Answer(r, 500) /\ UNCHANGED <<minted, member>>
    /\ UNCHANGED <<mode, row, failures>>

\* The unsigned variant replaces the member where it is permitted.
Unsign(r) ==
    /\ phase[r] = "unsign"
    /\ CreationTo(r, "store")
    /\ \/ /\ body[r].flow = "dcapi" /\ ~SignedDCAPIRequired(body[r])
          /\ member' = [member EXCEPT ![r] = "unsigned"]
       \/ /\ ~(body[r].flow = "dcapi" /\ ~SignedDCAPIRequired(body[r]))
          /\ UNCHANGED member
    /\ UNCHANGED <<mode, body, minted, row, answer, failures>>

\* Save, Put and db.Create; the row keeps policy and webhook for the run.
Store(r) ==
    /\ phase[r] = "store"
    /\ row' = [row EXCEPT ![r] = [policy |-> body[r].policy, webhook |-> body[r].webhook,
                                  ttl |-> GrantedTTL(body[r])]]
    /\ CreationTo(r, "respond")
    /\ UNCHANGED <<mode, body, minted, member, answer, failures>>

Respond(r) ==
    /\ phase[r] = "respond"
    /\ Answer(r, 201)
    /\ UNCHANGED <<mode, minted, member, row, failures>>

Creation(r) ==
    \/ Turned(r) \/ Validate(r) \/ CreateFails(r) \/ Mint(r)
    \/ Unsign(r) \/ Store(r) \/ Respond(r)

-----------------------------------------------------------------------------
(***************************************************************************)
(* Properties.                                                             *)
(***************************************************************************)
Specs ==
    [flow : {"same_device", "cross_device", "dcapi"}, query : {"valid"},
     origins : {"absent", "good"}, responseURI : BOOLEAN, returnURI : {"absent", "good"},
     registration : {"complete", "fixture"}]

Rows == [policy : {"absent", "signed", "unsigned"}, webhook : BOOLEAN, ttl : Int]

CreationTypeOK ==
    /\ mode \in Modes
    /\ phase \in [Requests -> {"arrives", "mint", "unsign", "store", "respond", "answered"}]
    /\ body \in [Requests -> Bodies \cup {Nothing}]
    /\ minted \in [Requests -> Specs \cup {Nothing}]
    /\ row \in [Requests -> Rows \cup {Nothing}]
    /\ member \in [Requests -> {"none", "signed", "unsigned"}]
    /\ answer \in [Requests -> {0, 201, 400, 401, 422, 500}]
    /\ failures \in 0 .. MaxFailures

\* routes/internal.go: what the engine would refuse is refused here first, as the
\* caller's error.  A 500 means that something of ours failed.
CallersErrorsClassified ==
    \A r \in Requests : answer[r] = 500 => failures # 0

\* buildCreateInput: Create's test fixture stands in for no caller's registration.
FixtureUnreachable ==
    \A r \in Requests : minted[r] # Nothing => minted[r].registration = "complete"

\* creator.go: a per-client choice can narrow, never widen; and a session whose
\* browser request goes out unsigned still has the origins that its response is
\* checked against.
UnsignedIsPermitted ==
    \A r \in Requests : member[r] = "unsigned" =>
        /\ minted[r].flow = "dcapi" /\ minted[r].origins = "good"
        /\ mode # "signed"
        /\ mode = "both" /\ row[r] # Nothing => row[r].policy = "unsigned"

\* CreateInput.TTL: a session lasts for what was asked if that is less than the
\* default, else for the default; and for no time at all never, also where the
\* seconds asked for overflow a time.Duration.
LifetimeAsAsked ==
    \A r \in Requests : phase[r] = "respond" =>
        LET asked == body[r].ttl * Second IN
        /\ row[r].ttl \in 1 .. DefaultTTL
        /\ asked < HalfRange =>
            row[r].ttl = IF asked \in 1 .. DefaultTTL THEN asked ELSE DefaultTTL
=============================================================================
