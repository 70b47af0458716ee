------------------------------ MODULE MCReadiness ------------------------------
(***************************************************************************)
(* Readiness for TLC, with the lookups of MCTrustAnchors: both types are   *)
(* required.                                                               *)
(***************************************************************************)
EXTENDS MCTrustAnchors, Readiness

MCTypeList == <<provider, status>>
=============================================================================
