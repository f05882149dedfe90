------------------------------ MODULE MCOtaRollout ------------------------------
(* Instances of OtaRollout for TLC. *)
EXTENDS OtaRollout
================================================================================
