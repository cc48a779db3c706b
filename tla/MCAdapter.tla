------------------------------ MODULE MCAdapter ------------------------------
(***************************************************************************)
(* Instances of Adapter for TLC.                                           *)
(***************************************************************************)
EXTENDS Adapter

MCRequests == {[path |-> "post_swap", body |-> "a"],
               [path |-> "post_melt", body |-> "a"],
               [path |-> "post_mint", body |-> Malformed]}
=============================================================================
