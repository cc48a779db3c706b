----------------------------- MODULE MCUpstream -----------------------------
(***************************************************************************)
(* Instances of Upstream for TLC.                                          *)
(***************************************************************************)
EXTENDS Upstream

CONSTANTS i1, i2

\* A payment of one sat and one of three.
OneAndThree == [i \in {i1, i2} |-> IF i = i1 THEN 1 ELSE 3]
=============================================================================
