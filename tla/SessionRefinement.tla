--------------------------- MODULE SessionRefinement ---------------------------
(***************************************************************************)
(* SessionLifecycle seen as ResponseCodes: the refinement mapping.         *)
(***************************************************************************)
EXTENDS SessionLifecycleInv

Concluded == {p \in Posts : Verified(p)}
Issued    == {p \in codes : SessionOf[p] \notin opDeleted}

\* The sessions a result is promised of: same-device, not deleted, not expired.
Ended(s)    == cpc[s] # "new" /\ left[s] = 0
Promised(s) == flow[s] = "same_device" /\ s \notin opDeleted /\ ~Ended(s)
Result      == [s \in Sessions |-> IF Promised(s) THEN payload[s] ELSE "over"]

Codes == INSTANCE ResponseCodes WITH
            Runs <- Posts, concluded <- Concluded, issued <- Issued, result <- Result

\* ConsumeOnce, Process and Finalize together: whatever races and whichever
\* call fails, a same-device session behaves as ResponseCodes says.
ImplementsResponseCodes == Codes!Spec
=============================================================================
