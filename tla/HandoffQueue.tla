----------------------------- MODULE HandoffQueue ------------------------------
(***************************************************************************)
(* The way of one result out of this service: what a verification run      *)
(* (routes/processor_pipeline.go, internal/pipeline/finalize.go) writes to *)
(* the handoff store and to the session's metadata row, and what the       *)
(* service that consumes the store then tells the client.                  *)
(*                                                                         *)
(* SessionLifecycle has runs race for a session and takes a delivery as one *)
(* step that keeps no envelope.  Here a session has one run, and a delivery *)
(* is what Queue.Deliver (internal/handoff/queue.go) does: seal an envelope *)
(* that says when it expires, then land payload and queue id in one EXEC.   *)
(***************************************************************************)
EXTENDS Integers, Sequences, SequencesExt

CONSTANTS
    Sessions,
    HandoffTTL,     \* Configuration.HandoffTTL, in ticks
    HardCap,        \* hardCap, 24 h in ticks
    MaxFaults,      \* bound: calls that fail or lose their reply, and crashes
    Nobody          \* the consumer holds no queue entry

\* handoff_ttl is validated as required, gt=0 and lte=24h.
ASSUME HandoffTyped ==
    /\ HandoffTTL \in 1 .. HardCap /\ HardCap \in Nat /\ MaxFaults \in Nat
    /\ Nobody \notin Sessions

VARIABLES
    payload,    \* vc:handoff:payload:{id}: a result, its life, its ExpiresAt
    queue,      \* vc:handoff:queue, the next entry to be consumed first
    rpc,        \* where the session's verification run is
    hook,       \* the webhook URL its metadata row has, as the run read it
    outcome,    \* the result the run hands over
    env,        \* ticks until the ExpiresAt of the envelope it has sealed
    report,     \* outcome of the saved report
    status,     \* the metadata row's status
    faults,
    hand,       \* the entry the consumer has popped
    told        \* what the client was told by webhook

store == <<payload, queue>>
run == <<rpc, hook, outcome, env>>
records == <<report, status>>
consumer == <<hand, told>>
handoff == <<store, run, records, consumer, faults>>

HandoffInit ==
    /\ payload = [s \in Sessions |-> [res |-> "none", life |-> 0, due |-> 0]]
    /\ queue = <<>>
    /\ rpc = [s \in Sessions |-> "idle"]
    /\ hook = [s \in Sessions |-> FALSE]
    /\ outcome = [s \in Sessions |-> "none"]
    /\ env = [s \in Sessions |-> 0]
    /\ report = [s \in Sessions |-> "none"]
    /\ status = [s \in Sessions |-> "created"]
    /\ faults = 0
    /\ hand = Nobody
    /\ told = [s \in Sessions |-> <<>>]

\* A payload is there while its key has life, and for good if it was SET without any.
PayloadLive(s) == payload[s].life # 0

-----------------------------------------------------------------------------
(***************************************************************************)
(* The run's calls.                                                        *)
(***************************************************************************)
RunTo(s, pc) == rpc' = [rpc EXCEPT ![s] = pc]

Fault == faults < MaxFaults /\ faults' = faults + 1

\* A call takes effect and answers, or it fails: refused, or its reply lost.
Attempt(done, undone, ok, err) ==
    \/ done /\ ok /\ UNCHANGED faults
    \/ Fault /\ (done \/ undone) /\ err

\* NewQueue: out of range fails closed to the cap.
QueueTTL == IF HandoffTTL <= 0 \/ HandoffTTL > HardCap THEN HardCap ELSE HandoffTTL

\* Mutant: the envelope promises the cap and the key lives for the TTL.
SealedAtCap == HardCap

\* ExpiresAt: q.now().Add(q.ttl), some time before the key is written.
SealedFor == QueueTTL

\* Mutant: step 10 passes whatever Finalize returned.
FinalizeErrorIgnored(s) ==
    /\ UNCHANGED outcome
    /\ RunTo(s, IF outcome[s] = "verified" THEN "report" ELSE "fail")

\* Finalize is over.  Step 10 turns its error into a failed check; the processor,
\* delivering the report of a failed run, ignores it.
FinalizeFails(s) ==
    /\ outcome' = [outcome EXCEPT ![s] = "failed"]
    /\ RunTo(s, IF outcome[s] = "verified" THEN "report" ELSE "fail")

\* Mutant: the queue id is pushed for every session.
LandAlways(s) ==
    /\ payload' = [payload EXCEPT ![s] = [res |-> outcome[s], life |-> QueueTTL, due |-> env[s]]]
    /\ queue' = Append(queue, s)

\* Mutant: SET without an expiration.
LandForGood(s) ==
    /\ payload' = [payload EXCEPT ![s] = [res |-> outcome[s], life |-> -1, due |-> env[s]]]
    /\ queue' = IF hook[s] THEN Append(queue, s) ELSE queue

\* One MULTI/EXEC: SET the payload with its TTL and, with a webhook, LPUSH the id.
Land(s) ==
    /\ payload' = [payload EXCEPT ![s] = [res |-> outcome[s], life |-> QueueTTL, due |-> env[s]]]
    /\ queue' = IF hook[s] THEN Append(queue, s) ELSE queue

-----------------------------------------------------------------------------
(***************************************************************************)
(* The run.                                                                *)
(***************************************************************************)
\* A response claimed the session; the processor reads the metadata row.
StartRun(s, webhook) ==
    /\ rpc[s] = "idle"
    /\ Attempt(hook' = [hook EXCEPT ![s] = webhook], UNCHANGED hook,
               RunTo(s, "verify"), RunTo(s, "fail"))
    /\ UNCHANGED <<store, outcome, env, records, consumer>>

\* Steps 1 to 9.  A verified result is handed over within step 10, before there is a
\* report; a failed one after its report.
Verify(s) ==
    /\ rpc[s] = "verify"
    /\ \E res \in {"verified", "failed"} :
        /\ outcome' = [outcome EXCEPT ![s] = res]
        /\ RunTo(s, IF res = "verified" THEN "seal" ELSE "report")
    /\ UNCHANGED <<store, hook, env, records, consumer, faults>>

\* Marshal, encrypt, and build the envelope.
Seal(s) ==
    /\ rpc[s] = "seal"
    /\ \/ /\ env' = [env EXCEPT ![s] = SealedFor]
          /\ RunTo(s, "exec")
          /\ UNCHANGED <<outcome, faults>>
       \/ Fault /\ FinalizeFails(s) /\ UNCHANGED env
    /\ UNCHANGED <<store, hook, records, consumer>>

Exec(s) ==
    /\ rpc[s] = "exec"
    /\ Attempt(Land(s), UNCHANGED store,
               RunTo(s, "dispose") /\ UNCHANGED outcome, FinalizeFails(s))
    /\ UNCHANGED <<hook, env, records, consumer>>

\* The session record is saved again or deleted, as SessionLifecycle has it.
DisposeSession(s) ==
    /\ rpc[s] = "dispose"
    /\ Attempt(TRUE, TRUE,
               /\ RunTo(s, IF outcome[s] = "verified" THEN "report" ELSE "fail")
               /\ UNCHANGED outcome,
               FinalizeFails(s))
    /\ UNCHANGED <<store, hook, env, records, consumer>>

SaveReport(s) ==
    /\ rpc[s] = "report"
    /\ Attempt(report' = [report EXCEPT ![s] = outcome[s]], UNCHANGED report,
               RunTo(s, "mark"), RunTo(s, "fail"))
    /\ UNCHANGED <<store, hook, outcome, env, status, consumer>>

\* Mutant: a failed run hands no report over.
AfterMarkNoReport(s, pc) == IF outcome[s] = "failed" THEN "fail" ELSE pc

\* A failed run goes on to hand its report over, whether or not it could be marked.
AfterMark(s, pc) == IF outcome[s] = "failed" THEN "seal" ELSE pc

\* A verified run ends here, or is refused when the write fails.
MarkOutcome(s) ==
    /\ rpc[s] = "mark"
    /\ Attempt(status' = [status EXCEPT ![s] = outcome[s]], UNCHANGED status,
               RunTo(s, AfterMark(s, "end")), RunTo(s, AfterMark(s, "fail")))
    /\ UNCHANGED <<store, hook, outcome, env, report, consumer>>

\* walletResponse marks the session failed on every error and ignores its own.
MarkFailed(s) ==
    /\ rpc[s] = "fail"
    /\ Attempt(status' = [status EXCEPT ![s] = "failed"], UNCHANGED status, TRUE, TRUE)
    /\ RunTo(s, "end")
    /\ UNCHANGED <<store, hook, outcome, env, report, consumer>>

\* The process stops; nothing takes the run up again.
Crash(s) ==
    /\ rpc[s] \notin {"idle", "end"}
    /\ Fault /\ RunTo(s, "end")
    /\ UNCHANGED <<store, hook, outcome, env, records, consumer>>

RunStep(s) ==
    \/ Verify(s) \/ Seal(s) \/ Exec(s) \/ DisposeSession(s)
    \/ SaveReport(s) \/ MarkOutcome(s) \/ MarkFailed(s)

-----------------------------------------------------------------------------
(***************************************************************************)
(* The consuming service, and time.                                        *)
(***************************************************************************)
Pop ==
    /\ hand = Nobody /\ queue # <<>>
    /\ hand' = Head(queue) /\ queue' = Tail(queue)
    /\ UNCHANGED <<payload, run, records, told, faults>>

\* An entry whose payload is gone is a delivery failure.
Tell ==
    /\ hand # Nobody
    /\ told' = [told EXCEPT ![hand] = Append(@,
                    IF PayloadLive(hand) THEN payload[hand].res ELSE "delivery-failed")]
    /\ hand' = Nobody
    /\ UNCHANGED <<store, run, records, faults>>

Less(n) == IF n > 0 THEN n - 1 ELSE n

TimePasses ==
    /\ payload' = [s \in Sessions |->
                    [payload[s] EXCEPT !.life = Less(@), !.due = Less(@)]]
    /\ env' = [s \in Sessions |-> Less(env[s])]
    /\ UNCHANGED <<queue, rpc, hook, outcome, records, consumer, faults>>

HandoffNext == (\E s \in Sessions : RunStep(s) \/ Crash(s)) \/ Pop \/ Tell \/ TimePasses

\* Every call of a run returns, or the process stops; and time passes.
HandoffFairness ==
    /\ \A s \in Sessions : WF_handoff(RunStep(s))
    /\ WF_handoff(TimePasses)

-----------------------------------------------------------------------------
(***************************************************************************)
(* Properties.                                                             *)
(***************************************************************************)
HandoffTypeOK ==
    /\ payload \in [Sessions -> [res : {"none", "verified", "failed"},
                                 life : 0 .. HardCap, due : 0 .. HardCap]]
    /\ queue \in Seq(Sessions) /\ hand \in Sessions \cup {Nobody}
    /\ rpc \in [Sessions -> {"idle", "verify", "seal", "exec", "dispose", "report",
                             "mark", "fail", "end"}]
    /\ hook \in [Sessions -> BOOLEAN]
    /\ outcome \in [Sessions -> {"none", "verified", "failed"}]
    /\ env \in [Sessions -> 0 .. HardCap]
    /\ report \in [Sessions -> {"none", "verified", "failed"}]
    /\ status \in [Sessions -> {"created", "verified", "failed"}]
    /\ told \in [Sessions -> Seq({"verified", "failed", "delivery-failed"})]
    /\ faults \in 0 .. MaxFaults

\* Sessions with an entry that the consumer has yet to deal with.
Pending == Range(queue) \cup {hand}

\* queue.go: a consumer never sees an id whose payload has not landed, and a session
\* that only polls is never delivered.
QueuedDeliverable ==
    \A s \in Sessions : s \in Pending => payload[s].res # "none" /\ hook[s]

\* queue.go: the envelope never outlives the cap, and the ExpiresAt in it never
\* promises a payload that has gone by then.
ExpiresAtHonest ==
    \A s \in Sessions : payload[s].life <= HardCap /\ payload[s].due <= payload[s].life

\* processor_pipeline.go: the payload says "verified" before there is a report, and
\* may have to be taken back by a second delivery.  However one call or the process
\* fails, what polling fetches after the run is what the saved report says.
PollAgrees ==
    \A s \in Sessions :
        rpc[s] = "end" /\ faults <= 1 /\ report[s] # "none" /\ PayloadLive(s) =>
            payload[s].res = report[s]

\* The same of the last word by webhook, whatever an entry taken between the two
\* deliveries said first.
WebhookAgrees ==
    \A s \in Sessions :
        rpc[s] = "end" /\ faults <= 1 /\ report[s] # "none" /\ s \notin Pending
            /\ told[s] # <<>> => Last(told[s]) \in {report[s], "delivery-failed"}

\* A session marked verified has handed a verified result over, and says so in its
\* report, whichever calls failed on the way.
VerifiedWasHandedOver ==
    \A s \in Sessions : status[s] = "verified" =>
        payload[s].res = "verified" /\ report[s] = "verified"

\* How far a run is from its end; it may go through Finalize twice.
RunRank(s) ==
    LET again == IF outcome[s] = "verified" THEN 5 ELSE 0 IN
    CASE rpc[s] = "end"  -> 0  [] rpc[s] = "fail"    -> 1
      [] rpc[s] = "mark" -> 5  [] rpc[s] = "dispose" -> 2 + again
      [] rpc[s] = "report" -> 6  [] rpc[s] = "exec"  -> 3 + again
      [] rpc[s] = "verify" -> 10 [] rpc[s] = "seal"  -> 4 + again
      [] OTHER -> 11

\* finalize.go and queue.go: whatever fails, each call brings a run nearer to its end;
\* and what it does not write at the time only ages, with every tick, until it is gone.
PayloadsFade ==
    [][\A s \in Sessions :
        /\ RunStep(s) \/ Crash(s) => RunRank(s)' < RunRank(s)
        /\ RunRank(s)' = RunRank(s) =>
            payload'[s].res = payload[s].res /\ payload'[s].life <= payload[s].life
        /\ RunRank(s)' <= RunRank(s)
        /\ TimePasses /\ PayloadLive(s) => payload'[s].life < payload[s].life]_handoff

\* README: results exist under a hard TTL; none is kept for good.
ResultForgotten == <>[](\A s \in Sessions : ~PayloadLive(s))
=============================================================================
