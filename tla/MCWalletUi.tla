----------------------------- MODULE MCWalletUi -----------------------------
(***************************************************************************)
(* Instances of WalletUi for TLC.                                          *)
(***************************************************************************)
EXTENDS WalletUi

\* Tokens are of a mint the wallet knows from the start.
TokensOfKnown == [t \in Tokens |-> CHOOSE m \in Known : TRUE]
=============================================================================
