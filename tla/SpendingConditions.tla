------------------------- MODULE SpendingConditions -------------------------
(***************************************************************************)
(* NUT-10/11/14 spending conditions: the condition parsers of              *)
(* cashu-core-lite (nut10, nut11, nut14), the mint's verification          *)
(* (micronuts-mint spending.rs) and the wallet's witnesses                 *)
(* (micronuts-wallet-core conditions.rs).                                  *)
(*                                                                         *)
(* A transaction is put together over time: the wallet or other key        *)
(* holders add witnesses, outputs can change until the mint has the        *)
(* request, and the clock that opens refund pathways moves on.             *)
(*                                                                         *)
(* A secret is the text [kind, data, tags]; tags is None, Bad or rows      *)
(* [tag, vals], and Bad is a value that does not parse.  A key is          *)
(* <<x, parity>>.  A signature is [by, msg], by the holder of an           *)
(* x-coordinate, or Bad.                                                   *)
(***************************************************************************)
EXTENDS Integers, Sequences, FiniteSets, SequencesExt

CONSTANTS
    Transactions,   \* sequences of secrets: the inputs of a request
    Outputs,        \* what the outputs and the quote id of a request can be
    Signers,        \* x-coordinates of the keys with a holder
    Me,             \* ... and the wallet's
    Preimage,       \* the preimage of every hash lock
    Bad,            \* a value that does not parse
    None,           \* an absent value
    MaxSigs,        \* bound: signatures in a witness
    MaxTime         \* bound: the clock

ASSUME SpendingAssumption ==
    MaxSigs \in Nat /\ MaxTime \in Nat /\ Me \in Signers

VARIABLES
    inputs,   \* the secrets of the proofs to spend
    outputs,  \* the outputs and quote id the request would have
    wit,      \* Proof.witness of each input
    own,      \* every witness is the one the wallet built
    now       \* unix time

conditionVars == <<inputs, outputs, wit, own, now>>
-----------------------------------------------------------------------------
(* nut10, nut11 and nut14: conditions out of a secret.                     *)

SecretKind == {"P2PK", "HTLC"}

\* Secret::parse: a text of another shape or kind is an ordinary secret.
parse(raw) ==
    IF raw.kind \in SecretKind /\ raw.data # None /\ raw.tags # Bad
    THEN raw ELSE [kind |-> "plain", data |-> None, tags |-> None]

Flags == {"SIG_INPUTS", "SIG_ALL"}
KnownTags == {"sigflag", "pubkeys", "n_sigs", "locktime", "refund", "n_sigs_refund"}

Rows(tags, tag) == {k \in DOMAIN tags : tags[k].tag = tag}

\* The rows; an absent tags field has none.
TagRows(s) == IF s.tags = None THEN <<>> ELSE s.tags

\* The rows are lists, of numbers (u64) where the tag's values are numbers.
RowsTyped(s) ==
    \A k \in DOMAIN TagRows(s) :
        LET row == TagRows(s)[k]
        IN  /\ row.vals \in Seq(Range(row.vals))
            /\ row.tag \in {"n_sigs", "n_sigs_refund", "locktime"} =>
                  Range(row.vals) \subseteq Nat \cup {Bad}

ASSUME TransactionsAssumption ==
    \A tx \in Transactions :
        tx \in Seq(Range(tx)) /\ \A i \in DOMAIN tx : RowsTyped(parse(tx[i]))

\* The values of a tag that occurs.
Vals(tags, tag) == tags[CHOOSE k \in Rows(tags, tag) : TRUE].vals

\* parse_condition_tags accepts the rows: known tags once, their values of
\* their type, thresholds positive, a refund pathway that can be satisfied.
parse_condition_tags_ok(tags) ==
    /\ Rows(tags, "") = {}
    /\ \A tag \in KnownTags : Cardinality(Rows(tags, tag)) <= 1
    /\ \A k \in DOMAIN tags :
          LET v == tags[k].vals
          IN  CASE tags[k].tag = "sigflag" -> v # <<>> /\ v[1] \in Flags
                [] tags[k].tag = "pubkeys" -> \A j \in DOMAIN v : v[j] # Bad
                [] tags[k].tag = "refund" -> v # <<>> /\ \A j \in DOMAIN v : v[j] # Bad
                [] tags[k].tag = "locktime" -> v # <<>> /\ v[1] # Bad
                [] tags[k].tag \in {"n_sigs", "n_sigs_refund"} ->
                       v # <<>> /\ v[1] \notin {Bad, 0}
                [] OTHER -> TRUE
    /\ Rows(tags, "n_sigs_refund") # {} =>
          /\ Rows(tags, "refund") # {}
          /\ Vals(tags, "n_sigs_refund")[1] <= Len(Vals(tags, "refund"))

ConditionTags(s) ==
    LET tags == TagRows(s)
        list(tag) == IF Rows(tags, tag) = {} THEN <<>> ELSE Vals(tags, tag)
        value(tag, default) == IF Rows(tags, tag) = {} THEN default ELSE Vals(tags, tag)[1]
    IN  [pubkeys |-> list("pubkeys"), refund |-> list("refund"),
         locktime |-> value("locktime", None), sigflag |-> value("sigflag", "SIG_INPUTS"),
         num_sigs |-> value("n_sigs", None), refundSigs |-> value("n_sigs_refund", 1)]

\* Mutant: keys are compared with their parity.
has_duplicate_points(keys) ==
    \E j, k \in DOMAIN keys : j # k /\ keys[j] = keys[k]

has_duplicate_x_coordinates(keys) ==
    \E j, k \in DOMAIN keys : j # k /\ keys[j][1] = keys[k][1]

\* The keys of the primary pathway: P2PK's data key comes first.
signing_pubkeys(s) ==
    LET pubkeys == ConditionTags(s).pubkeys
    IN  IF s.kind = "P2PK" THEN <<s.data>> \o pubkeys ELSE pubkeys

PathwaysSound(keys, c) ==
    /\ c.num_sigs # None => c.num_sigs <= Len(keys)
    /\ ~has_duplicate_x_coordinates(keys)
    /\ ~has_duplicate_x_coordinates(c.refund)

\* The constructors succeed: P2PK's data is a key of the primary pathway,
\* HTLC's a hash.
P2pkConditions_ok(s) ==
    /\ s.data # Bad
    /\ parse_condition_tags_ok(TagRows(s))
    /\ PathwaysSound(signing_pubkeys(s), ConditionTags(s))

HtlcConditions_ok(s) ==
    /\ s.data # Bad
    /\ parse_condition_tags_ok(TagRows(s))
    /\ PathwaysSound(ConditionTags(s).pubkeys, ConditionTags(s))

from_secret_ok(s) == IF s.kind = "P2PK" THEN P2pkConditions_ok(s) ELSE HtlcConditions_ok(s)

\* The lock has expired: strictly after its locktime.
Expired(locktime, t) == locktime # None /\ locktime < t

RefundPath(c) ==
    IF c.refund = <<>> THEN [pubkeys |-> <<>>, required |-> 0]
                       ELSE [pubkeys |-> c.refund, required |-> c.refundSigs]

\* Signatures the primary pathway asks for: without keys, the preimage alone.
PrimarySigs(s) ==
    LET n == ConditionTags(s).num_sigs
    IN  IF signing_pubkeys(s) = <<>> THEN 0 ELSE IF n = None THEN 1 ELSE n

\* Mutant: an expired lock can only be refunded.
requirements_exclusive(s, t) ==
    LET c == ConditionTags(s)
    IN  IF Expired(c.locktime, t)
        THEN [pubkeys |-> <<>>, required |-> 1, refund |-> RefundPath(c)]
        ELSE [pubkeys |-> signing_pubkeys(s), required |-> PrimarySigs(s), refund |-> None]

\* requirements_at of both kinds; refund_path is None before the expiry.
requirements_at(s, t) ==
    LET c == ConditionTags(s)
    IN  [pubkeys |-> signing_pubkeys(s), required |-> PrimarySigs(s),
         refund |-> IF Expired(c.locktime, t) THEN RefundPath(c) ELSE None]

is_anyone_can_spend(req) == req.refund # None /\ req.refund.required = 0
-----------------------------------------------------------------------------
(* micronuts-mint spending.rs.                                             *)

\* count_valid_signatures: distinct keys that verify, or -1 when a signature
\* does not parse or a key verifies twice.
count_valid_signatures(msg, keys, sigs) ==
    LET verifies(k, j) == sigs[j].by = keys[k][1] /\ sigs[j].msg = msg
        hits == {h \in (DOMAIN keys) \X (DOMAIN sigs) : verifies(h[1], h[2])}
        xs == {keys[h[1]][1] : h \in hits}
    IN  IF \E j \in DOMAIN sigs : sigs[j] = Bad THEN -1
        ELSE IF Cardinality(xs) < Cardinality(hits) THEN -1
        ELSE Cardinality(xs)

\* verify_p2pk_pathways: a failed primary leaves the refund pathway.
verify_p2pk_pathways(msg, req, sigs) ==
    \/ count_valid_signatures(msg, req.pubkeys, sigs) >= req.required
    \/ /\ req.refund # None
       /\ count_valid_signatures(msg, req.refund.pubkeys, sigs) >= req.refund.required

\* P2pkWitness::from_json wants signatures, HtlcWitness::from_json either.
P2pkVerified(msg, req, w) ==
    \/ is_anyone_can_spend(req)
    \/ w # None /\ w.sigs # None /\ verify_p2pk_pathways(msg, req, w.sigs)

matches_preimage(p) == p = Preimage

verify_witness_signatures(msg, keys, w, required) ==
    /\ w # None /\ w.sigs # None
    /\ count_valid_signatures(msg, keys, w.sigs) >= required

\* verify_htlc_pathways: with a valid preimage only the receivers' pathway.
verify_htlc_pathways(msg, req, w) ==
    IF w # None /\ matches_preimage(w.preimage)
    THEN req.required = 0 \/ verify_witness_signatures(msg, req.pubkeys, w, req.required)
    ELSE \/ is_anyone_can_spend(req)
         \/ /\ req.refund # None
            /\ verify_witness_signatures(msg, req.refund.pubkeys, w, req.refund.required)

Verified(s, msg, w, t) ==
    IF s.kind = "P2PK" THEN P2pkVerified(msg, requirements_at(s, t), w)
                       ELSE verify_htlc_pathways(msg, requirements_at(s, t), w)

\* InputLock: the condition of an input.
Lock(i) == parse(inputs[i])

\* The bytes a SIG_INPUTS signature covers, and sig_all_message.
SecretMessage(s) == <<"secret", s>>
sig_all_message == <<"all", inputs, outputs>>

\* What can be signed, by whom, and the witnesses in the making.
Message ==
    {SecretMessage(s) : s \in UNION {Range(tx) : tx \in Transactions}}
      \cup ({"all"} \X Transactions \X Outputs)

Signature == [by : Signers, msg : Message]

Witness ==
    [sigs : Seq(Signature \cup {Bad}) \cup {None}, preimage : {None, Preimage, Bad}]

ASSUME PlaceholdersAssumption ==
    /\ None \notin Nat /\ None \notin Witness /\ None \notin Seq(Signature \cup {Bad})
    /\ Bad \notin Signature

verify_inputs_individually(t) ==
    \A i \in DOMAIN inputs :
        Lock(i).kind # "plain" => Verified(Lock(i), SecretMessage(inputs[i]), wit[i], t)

SigAll(s) == s.kind # "plain" /\ ConditionTags(s).sigflag = "SIG_ALL"

\* Mutant: the message of SIG_ALL leaves out the outputs.
verify_sig_all_inputs_only(t) ==
    /\ SigAll(Lock(1))
    /\ \A i \in DOMAIN inputs : Lock(i) = Lock(1)
    /\ \E o \in Outputs : Verified(Lock(1), <<"all", inputs, o>>, wit[1], t)

\* verify_sig_all: one condition for all inputs, the first input's witness.
verify_sig_all(t) ==
    /\ \A i \in DOMAIN inputs : Lock(i).kind # "plain"
    /\ SigAll(Lock(1))
    /\ \A i \in DOMAIN inputs : Lock(i) = Lock(1)
    /\ Verified(Lock(1), sig_all_message, wit[1], t)

verify_spending_conditions(t) ==
    /\ \A i \in DOMAIN inputs :
          IF Lock(i).kind = "plain" THEN wit[i] = None ELSE from_secret_ok(Lock(i))
    /\ IF \E i \in DOMAIN inputs : SigAll(Lock(i))
       THEN verify_sig_all(t) ELSE verify_inputs_individually(t)
-----------------------------------------------------------------------------
(* micronuts-wallet-core conditions.rs: a witness, None, or Bad for any of *)
(* the errors.                                                             *)

path_holds_identity(keys) == \E k \in DOMAIN keys : keys[k][1] = Me

Signed(s) == [sigs |-> <<[by |-> Me, msg |-> SecretMessage(s)]>>, preimage |-> None]

p2pk_witness(s, req) ==
    CASE is_anyone_can_spend(req) -> None
      [] ~is_anyone_can_spend(req) /\ path_holds_identity(req.pubkeys) ->
             IF req.required = 1 THEN Signed(s) ELSE Bad
      [] OTHER -> IF /\ req.refund # None
                     /\ req.refund.required = 1 /\ path_holds_identity(req.refund.pubkeys)
                  THEN Signed(s) ELSE Bad

htlc_witness(s, req, preimage) ==
    CASE preimage = None -> IF is_anyone_can_spend(req) THEN None ELSE Bad
      [] preimage # None /\ ~matches_preimage(preimage) -> Bad
      [] OTHER ->
           IF req.required = 0 THEN [sigs |-> None, preimage |-> preimage]
           ELSE IF req.required = 1 /\ path_holds_identity(req.pubkeys)
           THEN [Signed(s) EXCEPT !.preimage = preimage]
           ELSE Bad

witness_for_secret(raw, preimage, t) ==
    LET s == parse(raw)
    IN  IF s.kind = "plain" THEN None
        ELSE IF ~from_secret_ok(s) \/ SigAll(s) THEN Bad
        ELSE IF s.kind = "P2PK" THEN p2pk_witness(s, requirements_at(s, t))
        ELSE htlc_witness(s, requirements_at(s, t), preimage)
-----------------------------------------------------------------------------
ConditionsInit ==
    /\ inputs \in Transactions
    /\ outputs \in Outputs
    /\ wit = [i \in DOMAIN inputs |-> None]
    /\ own = FALSE
    /\ now = 0

\* receive_token_with: all witnesses of a group, or an error and no request.
ReceiveToken(preimage) ==
    LET built == [i \in DOMAIN inputs |-> witness_for_secret(inputs[i], preimage, now)]
    IN  /\ \A i \in DOMAIN inputs : wit[i] = None /\ built[i] # Bad
        /\ wit' = built
        /\ own' = TRUE
        /\ UNCHANGED <<inputs, outputs, now>>

\* A key holder adds a signature to a witness, on the secret or on the
\* transaction as it is, or a text that is none.
CoSign(i, sig) ==
    LET w == IF wit[i] = None THEN [sigs |-> <<>>, preimage |-> None] ELSE wit[i]
        sigs == IF w.sigs = None THEN <<>> ELSE w.sigs
    IN  /\ Len(sigs) < MaxSigs
        /\ wit' = [wit EXCEPT ![i] = [w EXCEPT !.sigs = Append(sigs, sig)]]
        /\ own' = FALSE
        /\ UNCHANGED <<inputs, outputs, now>>

\* Somebody adds a preimage to a witness.
Reveal(i, preimage) ==
    LET w == IF wit[i] = None THEN [sigs |-> None, preimage |-> None] ELSE wit[i]
    IN  /\ w.preimage = None
        /\ wit' = [wit EXCEPT ![i] = [w EXCEPT !.preimage = preimage]]
        /\ own' = FALSE
        /\ UNCHANGED <<inputs, outputs, now>>

\* Whoever carries the request puts in other outputs.
Retarget(o) ==
    /\ o # outputs
    /\ outputs' = o
    /\ UNCHANGED <<inputs, wit, own, now>>

Tick ==
    /\ now < MaxTime
    /\ now' = now + 1
    /\ UNCHANGED <<inputs, outputs, wit, own>>

ConditionsNext ==
    \/ \E p \in {None, Preimage, Bad} : ReceiveToken(p)
    \/ \E i \in DOMAIN inputs :
         \/ \E x \in Signers, msg \in {SecretMessage(inputs[i]), sig_all_message} :
                CoSign(i, [by |-> x, msg |-> msg])
         \/ CoSign(i, Bad)
         \/ \E p \in {Preimage, Bad} : Reveal(i, p)
    \/ \E o \in Outputs : Retarget(o)
    \/ Tick

ConditionsSpec == ConditionsInit /\ [][ConditionsNext]_conditionVars
-----------------------------------------------------------------------------
(* Properties.                                                             *)

\* A witness the wallet could build is one the mint accepts, then and at any
\* later time, whatever pathway opens meanwhile: the two implementations of
\* the conditions agree.
OwnWitnessAccepted == own => verify_spending_conditions(now)

\* Reference: people, not signatures.  Enough different holders of keys of a
\* pathway that is open have signed exactly this spend.
Holders(msg, w, xs) ==
    {x \in xs : w # None /\ w.sigs # None /\ \E j \in DOMAIN w.sigs :
        w.sigs[j] = [by |-> x, msg |-> msg]}

Xs(keys) == {keys[k][1] : k \in DOMAIN keys}

Authorized(s, msg, w) ==
    LET c == ConditionTags(s)
        most == IF c.num_sigs = None THEN 1 ELSE c.num_sigs
        enough == Cardinality(Holders(msg, w, Xs(signing_pubkeys(s)))) >= most
    IN  \/ s.kind = "P2PK" /\ enough
        \/ s.kind = "HTLC" /\ w # None /\ w.preimage = Preimage
              /\ (c.pubkeys = <<>> \/ enough)
        \/ /\ c.locktime # None /\ now > c.locktime
           /\ \/ c.refund = <<>>
              \/ Cardinality(Holders(msg, w, Xs(c.refund))) >= c.refundSigs

\* "a malformed condition must never fall back to anyone-can-spend" and the
\* rules of NUT-11 and NUT-14: what the mint accepts has been authorised by
\* enough distinct holders, over these very outputs when any input asks for
\* SIG_ALL, and each threshold can be met by distinct keys.
AcceptedIsAuthorized ==
    verify_spending_conditions(now) =>
        \A i \in DOMAIN inputs : Lock(i).kind # "plain" =>
            LET c == ConditionTags(Lock(i))
            IN  /\ IF \E k \in DOMAIN inputs : SigAll(Lock(k))
                   THEN Authorized(Lock(i), sig_all_message, wit[1])
                   ELSE Authorized(Lock(i), SecretMessage(inputs[i]), wit[i])
                /\ c.num_sigs # None => c.num_sigs <= Cardinality(Xs(signing_pubkeys(Lock(i))))
                /\ c.refund # <<>> => c.refundSigs <= Cardinality(Xs(c.refund))

\* A request the mint would accept stays acceptable while it is on its way:
\* time opens pathways and closes none.
TimeClosesNothing ==
    [][now' > now /\ verify_spending_conditions(now)
         => verify_spending_conditions(now')]_conditionVars
=============================================================================
