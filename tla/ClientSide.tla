------------------------------- MODULE ClientSide ------------------------------
(***************************************************************************)
(* The client's side of the service: the session it asks for over the      *)
(* internal API (SessionCreation) and what it gets to hear of the result   *)
(* (HandoffQueue).  The metadata row is what the two share: a run reads    *)
(* there whether its result is to be delivered by webhook.                 *)
(***************************************************************************)
EXTENDS SessionCreation, HandoffQueue

ASSUME SessionsAreRequests == Sessions = Requests

vars == <<creation, handoff>>

Init == CreationInit /\ HandoffInit

\* A response to a session that its creator was answered 201 for.
Start(s) == answer[s] = 201 /\ StartRun(s, row[s].webhook)

Next ==
    \/ (\E r \in Requests : Creation(r)) /\ UNCHANGED handoff
    \/ (HandoffNext \/ \E s \in Sessions : Start(s)) /\ UNCHANGED creation

Spec == Init /\ [][Next]_vars

FairSpec == Spec /\ HandoffFairness

-----------------------------------------------------------------------------
(***************************************************************************)
(* Properties.                                                             *)
(***************************************************************************)
TypeOK == CreationTypeOK /\ HandoffTypeOK

\* What GET /internal/v1/sessions/{id}/report answers.
ReportRoute(s) == IF report[s] = "none" THEN 404 ELSE 200

\* The four ways on which a client or an operator learns of a result agree when no
\* call of the run failed: there is a report, the status and the payload say the
\* same, and the client is told by webhook once if it asked for one when it created
\* the session, else never; also when the payload is gone by then.
FaultlessRunTold ==
    \A s \in Sessions : rpc[s] = "end" /\ faults = 0 =>
        /\ ReportRoute(s) = 200
        /\ status[s] = report[s] /\ payload[s].res = report[s]
        /\ s \notin Pending =>
            /\ Len(told[s]) = IF row[s].webhook THEN 1 ELSE 0
            /\ Range(told[s]) \subseteq {report[s], "delivery-failed"}

\* Finalize, SaveReport and SetStatus together: whichever call of a run fails and
\* whether or not it took effect, the run treats its result as ResultDelivery says.
HandedOver == [s \in Sessions |-> payload[s].res]
StatusTold == [s \in Sessions |-> IF status[s] = "created" THEN "none" ELSE status[s]]
Delivery == INSTANCE ResultDelivery WITH
    Runs <- Sessions, decided <- outcome, handed <- HandedOver, reported <- report,
    told <- StatusTold
ImplementsResultDelivery == Delivery!Spec

-----------------------------------------------------------------------------
(***************************************************************************)
(* The inductive invariant of ClientSideProofs.                            *)
(***************************************************************************)
\* The handler works on a body that passed every check, and on what it made of it.
CreatedInv(r) ==
    /\ phase[r] \in {"mint", "unsign", "store", "respond"} =>
        body[r] \in Bodies /\ Accepted(body[r])
    /\ phase[r] \in {"unsign", "store", "respond"} => minted[r] = SpecOf(body[r])
    /\ phase[r] \in {"arrives", "mint"} => minted[r] = Nothing
    /\ phase[r] \in {"arrives", "mint", "unsign"} => member[r] # "unsigned"
    /\ phase[r] \in {"arrives", "mint", "unsign", "store"} => row[r] = Nothing
    /\ phase[r] = "respond" => row[r] \in Rows /\ row[r].ttl = GrantedTTL(body[r])
    /\ answer[r] = 201 => row[r] \in Rows /\ phase[r] = "answered"
    /\ member[r] = "unsigned" => mode # "signed"
    /\ member[r] = "unsigned" /\ mode = "both" /\ phase[r] \in {"store", "respond"} =>
        body[r].policy = "unsigned"

\* How far the run is, and what it has written by then.
RunInv(s) ==
    /\ rpc[s] \in {"idle", "verify"} => outcome[s] = "none" /\ payload[s].res = "none"
    /\ rpc[s] \in {"seal", "exec", "dispose", "report", "mark"} => outcome[s] # "none"
    /\ rpc[s] \in {"seal", "exec", "dispose"} /\ outcome[s] = "verified" => report[s] = "none"
    /\ rpc[s] \in {"seal", "exec", "dispose"} /\ outcome[s] = "failed" => report[s] = "failed"
    /\ rpc[s] \in {"idle", "verify", "report"} => report[s] = "none"
    /\ rpc[s] = "dispose" => payload[s].res = outcome[s]
    /\ rpc[s] = "mark" => report[s] = outcome[s]
    /\ report[s] # "none" => report[s] = outcome[s]
    /\ status[s] = "verified" => report[s] = "verified" /\ rpc[s] \in {"fail", "end"}
    /\ payload[s].res = "none" => ~PayloadLive(s)

\* A verified result landed before it was reported; one that stands against a failed
\* run is the work of a fault, and of two once the run is over.
ResultInv(s) ==
    /\ outcome[s] = "verified" /\ (rpc[s] \in {"dispose", "report", "mark"} \/ report[s] # "none")
        => payload[s].res = "verified"
    /\ payload[s].res = "verified" /\ outcome[s] = "failed" => faults >= 1
    /\ payload[s].res = "verified" /\ report[s] = "failed" /\ rpc[s] \in {"fail", "end"}
        => faults >= 2

CreationInv ==
    /\ CreationTypeOK
    /\ CallersErrorsClassified /\ FixtureUnreachable /\ UnsignedIsPermitted
    /\ \A r \in Requests : CreatedInv(r)

HandoffInv ==
    /\ HandoffTypeOK
    /\ QueuedDeliverable /\ ExpiresAtHonest
    /\ \A s \in Sessions : RunInv(s) /\ ResultInv(s) /\ env[s] <= QueueTTL

IndInv == CreationInv /\ HandoffInv
=============================================================================
