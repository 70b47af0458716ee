------------------------ MODULE MCVerificationPipeline ------------------------
(***************************************************************************)
(* VerificationPipeline for TLC: two queries answered by up to two         *)
(* presentations, under every policy.                                      *)
(***************************************************************************)
EXTENDS VerificationPipeline, TLC

CONSTANTS q1, q2

QuerySymmetry == Permutations(Queries)
=============================================================================
