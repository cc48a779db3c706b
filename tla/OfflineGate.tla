---------------------------- MODULE OfflineGate ----------------------------
(***************************************************************************)
(* The offline gate (walletport/src/offline.rs, gate.rs): a validator that *)
(* checks a scanned token against pinned keysets without a mint, keeps a   *)
(* bounded ring of the secrets it has accepted in flash, and opens a gate. *)
(*                                                                         *)
(* A scan that is rejected (undecodable, untrusted, locked, replayed,      *)
(* unverifiable) or underpaid changes nothing and is a stuttering step.    *)
(* An accepted one writes the ring first and drives the relay afterwards;  *)
(* the write may fail and power may be lost between the two.               *)
(***************************************************************************)
EXTENDS Integers, Sequences, Functions

CONSTANTS
    Secrets,      \* secrets of proofs that scans may carry
    ProofOf,      \* the proof a scan carries for each secret
    Texts,        \* how the text of a scan may be written
    Mints,        \* mints that tokens may name
    AcceptedMints,\* trust.accepted_mints (allow_untrusted is never set)
    Pinned,       \* denominations of each pinned keyset, by keyset id
    Price,        \* price_sats
    Capacity,     \* SPENT_RING_CAPACITY
    MaxProofs,    \* bound: proofs in one token
    MaxHistory    \* bound: secrets pushed in a behaviour

\* signer is the key <<keyset id, denomination>> that made C and the DLEQ.
Proof == [amount : Nat, keyset : STRING, plain : BOOLEAN, dleq : BOOLEAN,
          hex : BOOLEAN, signer : STRING \X Nat]

\* A text has the V4 prefix somewhere or not, may have been cut short, and
\* its CBOR maps may lack keys.
Text == [prefix : BOOLEAN, cut : BOOLEAN, lacks : SUBSET STRING]

ASSUME ScanAssumption ==
    /\ ProofOf \in [Secrets -> Proof]
    /\ Texts \subseteq Text
    /\ AcceptedMints \subseteq Mints
    /\ Pinned \in [DOMAIN Pinned -> SUBSET Nat]

ASSUME GateAssumption ==
    /\ Price \in Nat
    /\ Capacity \in Nat \ {0}
    /\ MaxProofs \in Nat \ {0}
    /\ MaxHistory \in Nat

VARIABLES
    up,        \* the controller is running
    spent,     \* the validator's ring, most recent last
    blob,      \* the ring in the store
    intact,    \* the stored blob still decodes
    opening,   \* the scan whose Open decision has not driven the relay (or 0)
    history    \* every secret pushed to a ring, with its scan and whether
               \* the gate opened for it; a scan is named by its first push

vars == <<up, spent, blob, intact, opening, history>>

\* Tokens: proofs in the order of the wire, the same one possibly twice.
Tokens == UNION {[1 .. n -> Secrets] : n \in 1 .. MaxProofs}

\* token.total_amount(): every proof counts, repeated ones repeatedly.
TotalAmount(token) ==
    SumFunction([i \in DOMAIN token |-> ProofOf[token[i]].amount])

\* Mutant: the overflow is never drained.
PushedUndrained(token) == spent \o token

\* The ring after a token: push its secrets, drain the overflow in front.
Pushed(token) ==
    LET ring == spent \o token
    IN  IF Len(ring) <= Capacity
        THEN ring
        ELSE SubSeq(ring, Len(ring) - Capacity + 1, Len(ring))

Push == [secret : Secrets, scan : Nat \ {0}, opened : BOOLEAN]

Record(token) ==
    history \o [i \in DOMAIN token |->
        [secret |-> token[i], scan |-> Len(history) + 1, opened |-> FALSE]]

\* Both rings keep to their capacity; the relay is only ever about to be
\* driven for a scan on record, by a controller that is running.
TypeOK ==
    /\ up \in BOOLEAN
    /\ spent \in Seq(Secrets) /\ Len(spent) <= Capacity
    /\ blob \in Seq(Secrets) /\ Len(blob) <= Capacity
    /\ intact \in BOOLEAN
    /\ history \in Seq(Push)
    /\ opening \in 0 .. Len(history)
    /\ ~up => spent = << >> /\ opening = 0
-----------------------------------------------------------------------------
(* A scan on its way to verify_token.                                      *)

\* handle_scan goes on with what follows the V4 prefix, wherever it is.
extract_cashu_token(text) == text.prefix

\* Each CBOR map takes its keys in any order, skips those it does not know
\* and fails without one of its own; a proof may come without a DLEQ ("d").
decode_proof(text) == text.lacks \cap {"a", "s", "c"} = {}

decode_group(text) == text.lacks \cap {"i", "p"} = {} /\ decode_proof(text)

decode_tokenV4(text) == text.lacks \cap {"m", "u", "t"} = {} /\ decode_group(text)

\* base64url_decode skips characters it does not know, so what a cut or a
\* foreign character does to a token shows in its CBOR, which then ends early.
decode_token_or_err(text) == ~text.cut /\ decode_tokenV4(text)

mint_accepted(mint) == mint \in AcceptedMints
-----------------------------------------------------------------------------
(* verify_token.                                                           *)

\* A NUT-10 secret is JSON; the gate cannot unlock it.
secret_has_spending_conditions(s) == ~ProofOf[s].plain

find_keyset(id) == id \in DOMAIN Pinned

\* The DLEQ holds for the key that made it and for no other.
verify_proof_dleq(s, key) == ProofOf[s].dleq /\ ProofOf[s].signer = key

\* A proof verifies against the pinned key of the amount written on it.
Verifies(s) ==
    LET proof == ProofOf[s]
    IN  /\ ~secret_has_spending_conditions(s)
        /\ find_keyset(proof.keyset)
        /\ proof.amount \in Pinned[proof.keyset]
        /\ proof.hex
        /\ verify_proof_dleq(s, <<proof.keyset, proof.amount>>)

\* verify_token up to the value check: every proof is verified, unlocked and
\* not in the ring (as it was before the scan), and they are worth the price.
Accepts(token) ==
    /\ \A i \in DOMAIN token :
          Verifies(token[i]) /\ token[i] \notin Range(spent)
    /\ TotalAmount(token) >= Price

Scanning(token) ==
    /\ up
    /\ opening = 0
    /\ Len(history) + Len(token) <= MaxHistory
    /\ Accepts(token)

\* Mutant: Open is returned with the ring in memory only.
ScanUnsaved(token) ==
    /\ Scanning(token)
    /\ spent' = Pushed(token)
    /\ opening' = Len(history) + 1
    /\ history' = Record(token)
    /\ UNCHANGED <<up, blob, intact>>

\* verify_token, accepted: the ring is saved before Open is returned.
ScanSaved(token) ==
    /\ Scanning(token)
    /\ spent' = Pushed(token)
    /\ blob' = Pushed(token)
    /\ intact' = TRUE
    /\ opening' = Len(history) + 1
    /\ history' = Record(token)
    /\ UNCHANGED up

\* verify_token, accepted, but the save fails: the scan is rejected with
\* the secrets already in the ring in memory, and the ring's oldest gone.
ScanNotSaved(token) ==
    /\ Scanning(token)
    /\ spent' = Pushed(token)
    /\ history' = Record(token)
    /\ UNCHANGED <<up, blob, intact, opening>>

\* handle_scan: the text holds a token that decodes, of a mint the gate
\* accepts, and verify_token accepts its proofs.  A rejected or an underpaid scan is
\* signalled and changes nothing.
handle_scan(text, mint) ==
    /\ extract_cashu_token(text)
    /\ decode_token_or_err(text)
    /\ mint_accepted(mint)
    /\ \E token \in Tokens : ScanSaved(token) \/ ScanNotSaved(token)

\* handle_scan after Open: io.open().
OpenGate ==
    /\ opening # 0
    /\ history' = [i \in DOMAIN history |->
         IF history[i].scan = opening
         THEN [history[i] EXCEPT !.opened = TRUE] ELSE history[i]]
    /\ opening' = 0
    /\ UNCHANGED <<up, spent, blob, intact>>

PowerLoss ==
    /\ up
    /\ up' = FALSE
    /\ spent' = << >>
    /\ opening' = 0
    /\ UNCHANGED <<blob, intact, history>>

\* OfflineGateValidator::new.  A blob it cannot decode starts an empty ring:
\* a new gate, as far as replays are concerned ("documented trade-off").
Restart ==
    /\ ~up
    /\ up' = TRUE
    /\ spent' = IF intact THEN blob ELSE << >>
    /\ history' = IF intact THEN history ELSE << >>
    /\ UNCHANGED <<blob, intact, opening>>

\* The flash loses the blob; the next save that succeeds replaces it.
Rot ==
    /\ intact' = FALSE
    /\ UNCHANGED <<up, spent, blob, opening, history>>

Init ==
    /\ up = TRUE
    /\ spent = << >>
    /\ blob = << >>
    /\ intact = TRUE
    /\ opening = 0
    /\ history = << >>

Next ==
    \/ \E text \in Texts, mint \in Mints : handle_scan(text, mint)
    \/ OpenGate
    \/ PowerLoss
    \/ Restart
    \/ Rot

Spec == Init /\ [][Next]_vars
-----------------------------------------------------------------------------
\* The replay window: the gate never opens for two scans that carry the same
\* secret unless more than Capacity secrets were pushed from the one to the
\* other, whatever saves failed and whatever power losses lie between (the
\* ring is saved before the relay is driven).  The capacity of the ring is
\* the documented bound on what a replay can gain.
NoDoubleEntry ==
    \A i, j \in DOMAIN history :
        /\ history[i].opened /\ history[j].opened
        /\ history[i].secret = history[j].secret
        /\ history[i].scan < history[j].scan
        => j - i > Capacity
=============================================================================
