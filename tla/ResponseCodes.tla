----------------------------- MODULE ResponseCodes -----------------------------
(***************************************************************************)
(* What the same-device flow promises, whatever interleaves and whichever  *)
(* call fails: of the runs on a session one at a time is concluded to be   *)
(* verified; only a concluded run gets a response_code, once its result is *)
(* the session's result, and from then on neither is taken back.  When a   *)
(* session expires its result is no longer promised; when the operator     *)
(* deletes it, nothing about it is.                                        *)
(*                                                                         *)
(* SessionRefinement shows that SessionLifecycle implements this.          *)
(***************************************************************************)
CONSTANTS Sessions, Runs, SessionOf

VARIABLES
    concluded,  \* runs that are verified
    issued,     \* runs that have a response_code
    result      \* per session: what its client finds, or "over"

vars == <<concluded, issued, result>>

Of(s) == {p \in Runs : SessionOf[p] = s}

Init ==
    /\ concluded = {} /\ issued = {}
    /\ result \in [Sessions -> {"none", "over"}]

\* A run is verified, on a session that has not ended and no other run's.
Conclude(p) ==
    /\ concluded \cap Of(SessionOf[p]) = {}
    /\ result[SessionOf[p]] # "over"
    /\ concluded' = concluded \cup {p}
    /\ UNCHANGED <<issued, result>>

\* Its result is the session's.  Nobody may learn of it, and then it is not.
Publish(p) ==
    /\ p \in concluded \ issued
    /\ result[SessionOf[p]] # "over"
    /\ result' = [result EXCEPT ![SessionOf[p]] = "verified"]
    /\ concluded' \in {concluded, concluded \ {p}}
    /\ UNCHANGED issued

Retract(p) ==
    /\ p \in concluded \ issued
    /\ concluded' = concluded \ {p}
    /\ UNCHANGED <<issued, result>>

\* A failed run's result is the session's, unless a code leads to another.
Fail(s) ==
    /\ issued \cap Of(s) = {}
    /\ result[s] # "over"
    /\ result' = [result EXCEPT ![s] = "failed"]
    /\ UNCHANGED <<concluded, issued>>

Issue(p) ==
    /\ p \in concluded \ issued
    /\ result[SessionOf[p]] \in {"verified", "over"}
    /\ issued' = issued \cup {p}
    /\ UNCHANGED <<concluded, result>>

Expire(S) ==
    /\ result' = [s \in Sessions |-> IF s \in S THEN "over" ELSE result[s]]
    /\ UNCHANGED <<concluded, issued>>

Delete(s) ==
    /\ result' = [result EXCEPT ![s] = "over"]
    /\ concluded' = concluded \ Of(s)
    /\ issued' = issued \ Of(s)

Next ==
    \/ \E p \in Runs : Conclude(p) \/ Publish(p) \/ Retract(p) \/ Issue(p)
    \/ \E s \in Sessions : Fail(s) \/ Delete(s)
    \/ \E S \in SUBSET Sessions : Expire(S)

Spec == Init /\ [][Next]_vars
=============================================================================
