--------------------------- MODULE MCOfflineGate ---------------------------
(***************************************************************************)
(* Instances of OfflineGate for TLC.                                       *)
(***************************************************************************)
EXTENDS OfflineGate

CONSTANTS Good, Bad   \* secrets of genuine proofs; five kinds of others

ASSUME OneOfEachKind == Bad \subseteq STRING

\* The proof of 1 by the key for 1 of the pinned keyset: the price then
\* counts proofs.
Genuine == [amount |-> 1, keyset |-> "00ad", plain |-> TRUE, dleq |-> TRUE,
            hex |-> TRUE, signer |-> <<"00ad", 1>>]

Flawed(kind) ==
    CASE kind = "locked"  -> [Genuine EXCEPT !.plain = FALSE, !.hex = FALSE]
      [] kind = "no dleq" -> [Genuine EXCEPT !.dleq = FALSE]
      [] kind = "foreign" -> [Genuine EXCEPT !.keyset = "00ff",
                                             !.signer = <<"00ff", 1>>]
      [] kind = "raised"  -> [Genuine EXCEPT !.amount = 2]
      [] kind = "no key"  -> [Genuine EXCEPT !.amount = 3]

ProofsOf == [s \in Good \cup Bad |-> IF s \in Bad THEN Flawed(s) ELSE Genuine]

OneKeyset == [id \in {"00ad"} |-> {1, 2}]

\* A sound text, and texts with one thing wrong.
Sound == [prefix |-> TRUE, cut |-> FALSE, lacks |-> {}]
OneWrong == {Sound, [Sound EXCEPT !.prefix = FALSE], [Sound EXCEPT !.cut = TRUE]}
            \cup {[Sound EXCEPT !.lacks = {k}] :
                     k \in {"m", "u", "t", "i", "p", "a", "s", "c"}}
=============================================================================
