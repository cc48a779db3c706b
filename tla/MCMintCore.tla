----------------------------- MODULE MCMintCore -----------------------------
(***************************************************************************)
(* Instances of MintCore for TLC.                                          *)
(***************************************************************************)
EXTENDS MintCore, TLC

\* A backend that never pays when it answers Err (FakeWallet, test doubles).
DefiniteOutcomes == {[ok |-> TRUE, paid |-> TRUE], [ok |-> FALSE, paid |-> FALSE]}

Symmetry == Permutations(Tokens) \cup Permutations(MintQuotes \ Locked)
=============================================================================
