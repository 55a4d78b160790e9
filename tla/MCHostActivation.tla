-------------------------- MODULE MCHostActivation --------------------------
(***************************************************************************)
(* The instances of HostActivation that TLC checks: two releases, and the   *)
(* requests, failures and lives of the Host that the configurations         *)
(* HostActivation_*.cfg allow.                                              *)
(***************************************************************************)
EXTENDS HostActivation
=============================================================================
