---------------------------- MODULE ResultDelivery ----------------------------
(***************************************************************************)
(* What a verification run promises about its result, whichever of its     *)
(* calls fails.  The result is decided once; a verified one is handed over *)
(* before it is reported, and whoever hands it over may have to take the   *)
(* decision back.  Once reported a result stands: only a report of failure *)
(* lets what was handed over be replaced, and the client is told of a      *)
(* verified result only when it has been handed over and reported.         *)
(*                                                                         *)
(* ClientSide implements this with a handoff queue and a metadata row, and *)
(* VerificationPipeline with its tenth check and the answer to the wallet. *)
(***************************************************************************)
CONSTANT Runs

VARIABLES
    decided,    \* what the run has come to
    handed,     \* the result last handed over
    reported,   \* the report on record
    told        \* what the client was last told

vars == <<decided, handed, reported, told>>

Init ==
    /\ decided = [r \in Runs |-> "none"]
    /\ handed = [r \in Runs |-> "none"]
    /\ reported = [r \in Runs |-> "none"]
    /\ told = [r \in Runs |-> "none"]

Decide(r) ==
    /\ decided[r] = "none"
    /\ \E res \in {"verified", "failed"} : decided' = [decided EXCEPT ![r] = res]
    /\ UNCHANGED <<handed, reported, told>>

Unreported(r) == decided[r] = "verified" /\ reported[r] = "none"

\* A verified result is handed over; nobody may learn of it, and then it is not.
HandOver(r) ==
    /\ Unreported(r)
    /\ handed' = [handed EXCEPT ![r] = "verified"]
    /\ decided' \in {decided, [decided EXCEPT ![r] = "failed"]}
    /\ UNCHANGED <<reported, told>>

TakeBack(r) ==
    /\ Unreported(r)
    /\ decided' = [decided EXCEPT ![r] = "failed"]
    /\ UNCHANGED <<handed, reported, told>>

Report(r) ==
    /\ reported[r] = "none" /\ decided[r] # "none"
    /\ decided[r] = "verified" => handed[r] = "verified"
    /\ reported' = [reported EXCEPT ![r] = decided[r]]
    /\ UNCHANGED <<decided, handed, told>>

\* The report of a failed run replaces what was handed over.
Replace(r) ==
    /\ reported[r] = "failed"
    /\ handed' = [handed EXCEPT ![r] = "failed"]
    /\ told' \in {told, [told EXCEPT ![r] = "failed"]}
    /\ UNCHANGED <<decided, reported>>

\* The client may be told of a failure, its own or the service's, at any time.
Tell(r) ==
    /\ \E res \in {"failed"} \cup {x \in {"verified"} : reported[r] = x} :
            told' = [told EXCEPT ![r] = res]
    /\ UNCHANGED <<decided, handed, reported>>

Next == \E r \in Runs :
    Decide(r) \/ HandOver(r) \/ TakeBack(r) \/ Report(r) \/ Replace(r) \/ Tell(r)

Spec == Init /\ [][Next]_vars

-----------------------------------------------------------------------------
\* A report says what was decided, and what is verified is to be had.
Consistent ==
    \A r \in Runs :
        /\ reported[r] # "none" => decided[r] = reported[r]
        /\ reported[r] = "verified" => handed[r] = "verified"
        /\ handed[r] = "failed" => reported[r] = "failed"
        /\ told[r] = "verified" => reported[r] = "verified"

\* A report is never changed, nor is what was handed over for a verified one.
Stands(r) ==
    /\ reported[r] # "none" => reported'[r] = reported[r]
    /\ reported[r] = "verified" => handed'[r] = handed[r]
Final == [][\A r \in Runs : Stands(r)]_vars
=============================================================================
