--------------------------- MODULE MCCredentialLife ---------------------------
(***************************************************************************)
(* CredentialLife for TLC, with the responses of MCVerificationPipeline:   *)
(* certificates and credentials are valid for two days out of three, so    *)
(* that one issued a day after its certificate outlives it, and either may *)
(* be over when it is presented.                                           *)
(***************************************************************************)
EXTENDS MCVerificationPipeline, CredentialLife

MCModels == {"chain", "shell"}
=============================================================================
