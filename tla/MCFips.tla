------------------------------- MODULE MCFips -------------------------------
(***************************************************************************)
(* Instances of Fips for TLC.                                              *)
(***************************************************************************)
EXTENDS Fips
=============================================================================
