------------------------------ MODULE MCWallet ------------------------------
(***************************************************************************)
(* Instances of Wallet for TLC.                                            *)
(***************************************************************************)
EXTENDS Wallet

\* A paid quote of one proof (2 sat), and a V3 token whose proofs name the
\* active keyset by its short id and a keyset the mint does not have.
QuoteOf2 == [q \in Quotes |-> 2]
MixedV3 ==
    [t \in Incoming |->
        [prefix |-> "cashuA", mint |-> MintUrl,
         groups |-> <<<<[id |-> "short", amount |-> 1], [id |-> "retired", amount |-> 1]>>>>]]
=============================================================================
