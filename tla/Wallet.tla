------------------------------- MODULE Wallet -------------------------------
(***************************************************************************)
(* A wallet: the money operations of the engine (micronuts-wallet-core     *)
(* engine.rs) over the persistent wallet (cashu-core-lite persistent.rs)   *)
(* and the worker that runs them one job at a time (micronuts-wallet       *)
(* ui.rs), against a mint reached over a network that loses requests and   *)
(* replies, with a recipient who claims what the wallet hands out.         *)
(*                                                                         *)
(* Secrets derive from the seed and an index (NUT-13), so an index stands  *)
(* for a secret and for its blinded output, and a proof is the index with  *)
(* the amount the mint signed.  A job is one action for every request it   *)
(* sends with what it does on the answer, because that is where the mint,  *)
(* the network and a crash can come between.                               *)
(*                                                                         *)
(* The mint is honest; a reply may still carry signatures that fail the    *)
(* NUT-12 check.  A write of the wallet's own store does not fail; the     *)
(* blob is lost, or read back.                                             *)
(***************************************************************************)
EXTENDS Amounts

Seqs == INSTANCE SequencesExt

CONSTANTS
    MaxIndex,     \* bound: NUT-13 indices derived in a behaviour
    MaxCrashes,   \* bound: crashes of the process in a behaviour
    Headroom,     \* RESTORE_HEADROOM
    FeePpk,       \* the keyset's input fee
    Quotes,       \* paid mint quotes ...
    QuoteAmount,  \* ... and what each is worth
    Incoming,     \* tokens other wallets hand to this one ...
    Text,         \* ... and what each is: prefix, mint, groups of proofs
    SendAmounts,  \* amounts the user sends
    MeltAmounts,  \* amounts of the invoices the user pays
    FeeReserve,   \* the mint's fee reserve on them
    StoreMayRot   \* the stored blob may be lost or become undecodable

ASSUME WalletAssumption ==
    /\ MaxIndex \in Nat /\ MaxCrashes \in Nat
    /\ Headroom \in Nat /\ FeePpk \in Nat
    /\ QuoteAmount \in [Quotes -> Nat \ {0}]
    /\ \A t \in Incoming : Text[t].groups # <<>> /\ <<>> \notin Range(Text[t].groups)
    /\ SendAmounts \subseteq Nat \ {0}
    /\ MeltAmounts \subseteq Nat \ {0}
    /\ FeeReserve \in Nat
    /\ StoreMayRot \in BOOLEAN

VARIABLES
    mem,        \* counter and proofs of the running PersistentWallet
    disk,       \* the stored blob
    engine,     \* the wallet process: down, built, or connected to the mint
    op,         \* the job in progress
    pending,    \* PendingSend records: the proofs of each token handed out
    saved,      \* the records in the saved wallet state
    handed,     \* tokens that have left the device
    mint,       \* latest: the signature it restores for an index; spent;
                \* again: indices it has signed more than once
    minted,     \* quotes the mint has issued
    redeemed,   \* groups of incoming tokens the mint has seen swapped
    owed,       \* indices credited to this process and not handed out
    crashes,    \* how often the wallet process ended
    derived     \* indices derived by any process so far: the highest counter

vars == <<mem, disk, engine, op, pending, saved, handed, mint, minted, redeemed,
          owed, crashes, derived>>

records == <<pending, saved, handed>>
funding == <<minted, redeemed>>
bounds == <<crashes, derived>>
-----------------------------------------------------------------------------
(* Amounts and proofs.                                                     *)

Index == 0 .. MaxIndex - 1

MintUrl == "this mint"
ActiveKeyset == "active"
Proof == Index \X (Nat \ {0})

Idx(P) == Ids(P)

\* swap_fee_hint and the mint's input_fee_total.
Fee(n) == FeeOf(FeePpk, n)

\* deterministic_outputs: consecutive indices from the counter.
Outputs(amounts) == Numbered(mem.counter, amounts)

\* find_exact: of power-of-two coins the search finds the fewest.
Exacts(P, amount) ==
    LET exact == {S \in SUBSET P : Sum(S) = amount}
    IN  {S \in exact : \A R \in exact : Cardinality(S) <= Cardinality(R)}

Idle == [kind |-> "idle"]

NoWallet == [counter |-> 0, proofs |-> {}]

\* The blob: magic, checksum, and the counter and proofs bound to the seed.
encode_envelope(w) ==
    [intact |-> TRUE, counter |-> w.counter, proofs |-> w.proofs]

NoBlob == [intact |-> FALSE, counter |-> 0, proofs |-> {}]

\* A blob that is missing, damaged or of another seed is a fresh wallet.
decode_envelope(blob) ==
    IF blob.intact THEN [counter |-> blob.counter, proofs |-> blob.proofs]
                   ELSE NoWallet

TypeOK ==
    /\ mem \in [counter : 0 .. MaxIndex, proofs : SUBSET Proof]
    /\ disk \in [intact : BOOLEAN, counter : 0 .. MaxIndex, proofs : SUBSET Proof]
    /\ engine \in {"down", "built", "connected"}
    /\ op.kind \in {"idle", "receive", "send", "handover", "melt", "pay", "save"}
    /\ \A t \in pending \cup saved \cup handed : t # {} /\ t \subseteq Proof
    /\ mint \in [latest : [Index -> Nat], spent : SUBSET Index, again : SUBSET Index]
    /\ minted \subseteq Quotes
    /\ redeemed \subseteq Incoming \X Nat
    /\ owed \subseteq Index
    /\ crashes \in 0 .. MaxCrashes
    /\ derived \in 0 .. MaxIndex
-----------------------------------------------------------------------------
(* The mint and the network.                                               *)

Net == {"ok", "request lost", "reply lost", "short", "garbled"}

\* The swap's or mint's fate is unknown to the wallet (Transport errors).
Ambiguous(net) == net \in {"request lost", "reply lost"}

\* unblind_to_proofs: a proof for every output or none.
unblind_to_proofs(net) == net # "short"

\* verify_fresh: each verifies with its denomination's key.
verify_fresh(net) == net # "garbled"

\* What the mint does with a request it would accept, and whether the
\* wallet credits the answer.  One the mint rejects is answered or lost.
Reaches(accepted, net) == accepted /\ net # "request lost"
Answered(accepted, net) ==
    accepted /\ ~Ambiguous(net) /\ unblind_to_proofs(net) /\ verify_fresh(net)

\* sign_outputs: a second signature on the same output replaces the first.
Sign(outs) ==
    [i \in Index |-> IF i \in Idx(outs)
                     THEN (CHOOSE p \in outs : p[1] = i)[2] ELSE mint.latest[i]]

MintSigns(ins, outs) ==
    mint' = [latest |-> Sign(outs), spent |-> mint.spent \cup Idx(ins),
             again |-> mint.again \cup {i \in Idx(outs) : mint.latest[i] # 0}]

SwapAccepted(ins, outs) ==
    /\ Idx(ins) \cap mint.spent = {}
    /\ Sum(ins) = Sum(outs) + Fee(Cardinality(ins))

\* post_swap of own proofs.
PostSwap(ins, outs, net) ==
    IF Reaches(SwapAccepted(ins, outs), net)
    THEN MintSigns(ins, outs) ELSE UNCHANGED mint
-----------------------------------------------------------------------------
(* The persistent wallet.                                                  *)

\* ensure_connected, of a worker that runs one job at a time.
Ready == engine = "connected" /\ op = Idle

\* FileStore::save: the file is replaced by a rename, whole or not at all.
save(blob) == disk' = blob

Persist == save(encode_envelope(mem'))

Track == derived' = Max({derived, mem'.counter})

\* Every derivation advances the counter in memory, whatever comes of it.
Advanced(n) == [mem EXCEPT !.counter = @ + n]

\* spend and select_covering: the selections that largest-first may make.
Selections(amount) == Coverings(mem.proofs, amount)

undo_spend(w, sel) == [w EXCEPT !.proofs = @ \cup sel]

remove_proofs(w, P) == [w EXCEPT !.proofs = @ \ P]

\* A derivation whose signatures arrived: credit and persist.
Credit(outs) ==
    /\ mem' = [counter |-> mem.counter + Cardinality(outs),
               proofs |-> mem.proofs \cup outs]
    /\ Persist
    /\ owed' = owed \cup Idx(outs)

\* One that failed: only the counter in memory moves.
Failed(outs) ==
    /\ mem' = Advanced(Cardinality(outs))
    /\ UNCHANGED <<disk, owed>>

\* post_check_state: the proofs that mint m reports spent.
post_check_state(P, m) == {p \in P : p[1] \in m.spent}

\* reconcile_spent: the proofs of wallet w that mint m reports spent go.
Reconciled(w, m) == remove_proofs(w, post_check_state(w.proofs, m))

\* Mutants: outputs the mint has no signature for are credited; the counter
\* stays behind; the scan ends at the counter.
RestoredUnsigned(w, m) ==
    LET back == {<<i, m.latest[i]>> : i \in {j \in Index \ Idx(w.proofs) :
                    j < w.counter + Headroom}}
    IN  [w EXCEPT !.proofs = @ \cup back]

RestoredBehind(w, m) ==
    LET back == {<<i, m.latest[i]>> : i \in {j \in Index \ Idx(w.proofs) :
                    m.latest[j] # 0 /\ j < w.counter + Headroom}}
    IN  [w EXCEPT !.proofs = @ \cup back]

RestoredToCounter(w, m) ==
    LET back == {<<i, m.latest[i]>> : i \in {j \in Index \ Idx(w.proofs) :
                    m.latest[j] # 0 /\ j < w.counter}}
    IN  [w EXCEPT !.proofs = @ \cup back]

\* restore: every signature mint m has for an index below the counter and
\* the headroom, spent or not; the counter moves past what came back.
Restored(w, m) ==
    LET back == {<<i, m.latest[i]>> : i \in {j \in Index \ Idx(w.proofs) :
                    m.latest[j] # 0 /\ j < w.counter + Headroom}}
        past == {i + 1 : i \in Idx(back)} \cup {w.counter}
    IN  [counter |-> Max(past),
         proofs |-> w.proofs \cup back]
-----------------------------------------------------------------------------
(* Jobs of the engine.                                                     *)

\* swap_deterministic: derive the outputs, have the mint spend ins (other
\* wallets' proofs are not indices of this one) and sign them if it accepts,
\* and credit what comes back.
swap_deterministic(accepted, ins, outs, net) ==
    /\ mem.counter + Cardinality(outs) <= MaxIndex
    /\ IF Reaches(accepted, net) THEN MintSigns(ins, outs) ELSE UNCHANGED mint
    /\ IF Answered(accepted, net) THEN Credit(outs) ELSE Failed(outs)
    /\ Track

\* mint_deterministic: the same against a paid quote.
mint_deterministic(q, net) ==
    LET ok == q \notin minted
    IN  /\ swap_deterministic(ok, {}, Outputs(Decompose(QuoteAmount[q])), net)
        /\ minted' = IF Reaches(ok, net) THEN minted \cup {q} ELSE minted

\* mint_paid_quote.
MintPaidQuote(q, net) ==
    /\ Ready
    /\ mint_deterministic(q, net)
    /\ UNCHANGED <<engine, op, records, redeemed, crashes>>

\* decode_v3: each group of the JSON is split by the keysets its proofs name.
decode_v3(text) ==
    LET by_keyset(proofs) ==        \* in the order of the ids
            LET ids == Seqs!SetToSeq({p.id : p \in Range(proofs)})
            IN  [j \in DOMAIN ids |->
                    [id |-> ids[j], proofs |-> SelectSeq(proofs, LAMBDA p : p.id = ids[j])]]
    IN  Seqs!FlattenSeq([g \in DOMAIN text.groups |-> by_keyset(text.groups[g])])

\* decode_token: a V4 group names its keyset once.
decode_token(text) ==
    [g \in DOMAIN text.groups |->
        [id |-> text.groups[g][1].id, proofs |-> text.groups[g]]]

decode_token_any(text) ==
    IF text.prefix = "cashuA" THEN decode_v3(text) ELSE decode_token(text)

\* resolve_v3_keyset_prefix: the truncated id of the active keyset.
resolve_v3_keyset_prefix(id) == IF id = "short" THEN ActiveKeyset ELSE id

\* What a group is worth once its input fee is paid.
group_net(group) ==
    Sum({<<k, group.proofs[k].amount>> : k \in DOMAIN group.proofs})
        - Fee(Len(group.proofs))

Group == [id : STRING, proofs : Seq([id : STRING, amount : Nat])]

\* The incoming tokens decode to one or more groups of proofs with amounts.
ASSUME TextAssumption ==
    \A t \in Incoming : decode_token_any(Text[t]) \in Seq(Group) \ {<<>>}

\* receive_token_with: a token of this mint is taken up ...
ReceiveToken(t) ==
    /\ Ready
    /\ Text[t].mint = MintUrl
    /\ op' = [kind |-> "receive", token |-> t, at |-> 1]
    /\ UNCHANGED <<mem, disk, engine, records, mint, funding, owed, bounds>>

\* ... and swapped group by group; the first group that fails ends the job and
\* the groups before it stay credited.
ReceiveGroup(net) ==
    /\ op.kind = "receive"
    /\ LET groups == decode_token_any(Text[op.token])
           group  == groups[op.at]
           value  == group_net(group)
           outs   == IF value < 0 THEN {} ELSE Outputs(Decompose(value))
           ok     == /\ value > 0     \* no amounts is InvalidAmount
                     /\ resolve_v3_keyset_prefix(group.id) = ActiveKeyset
                     /\ <<op.token, op.at>> \notin redeemed
       IN  /\ swap_deterministic(ok, {}, outs, net)
           /\ redeemed' = IF Reaches(ok, net) THEN redeemed \cup {<<op.token, op.at>>}
                                              ELSE redeemed
           /\ op' = IF Answered(ok, net) /\ op.at < Len(groups)
                    THEN [op EXCEPT !.at = @ + 1] ELSE Idle
    /\ UNCHANGED <<engine, records, minted, crashes>>

\* send_token, compose_exact, before the swap: the selection leaves the
\* store.  The fee is the one of a selection for the bare amount.
SendSelect(amount) ==
    /\ Ready
    /\ \E hint \in Selections(amount) :
       LET fee == Fee(Cardinality(hint)) IN
       \E sel \in Selections(amount + fee) :
          LET amounts == Decompose(amount) \o Decompose(Sum(sel) - amount - fee)
          IN  /\ mem.counter + Len(amounts) <= MaxIndex
              /\ mem' = remove_proofs(mem, sel)
              /\ op' = [kind |-> "send", amount |-> amount, sel |-> sel,
                        amounts |-> amounts]
    /\ Persist
    /\ UNCHANGED <<engine, records, mint, funding, owed, bounds>>

\* The swap was answered: the fresh proofs of the amount are handed over.
SendSwapped ==
    LET outs == Outputs(op.amounts)
    IN  /\ op.kind = "send"
        /\ SwapAccepted(op.sel, outs)
        /\ PostSwap(op.sel, outs, "ok")
        /\ Credit(outs)
        /\ op' = [kind |-> "handover",
                  proofs |-> {p \in outs :
                     p[1] < mem.counter + Len(Decompose(op.amount))}]
        /\ Track
        /\ UNCHANGED <<engine, records, funding, crashes>>

\* The mint rejected the swap, or its signatures do not verify: undo_spend,
\* and the send fails.
SendRejected(net) ==
    LET outs == Outputs(op.amounts)
    IN  /\ op.kind = "send"
        /\ ~Ambiguous(net)
        /\ ~Answered(SwapAccepted(op.sel, outs), net)
        /\ PostSwap(op.sel, outs, net)
        /\ mem' = undo_spend(Advanced(Len(op.amounts)), op.sel)
        /\ Persist
        /\ op' = Idle
        /\ Track
        /\ UNCHANGED <<engine, records, funding, owed, crashes>>

\* The swap's request or reply is lost: undo_spend, then, each as far as the
\* mint answers, reconcile_spent and restore, then find_exact.
SendAmbiguous(net, reconciled, restored) ==
    LET outs == Outputs(op.amounts)
        undone == undo_spend(Advanced(Len(op.amounts)), op.sel)
    IN  /\ op.kind = "send"
        /\ Ambiguous(net)
        /\ restored => reconciled
        /\ PostSwap(op.sel, outs, net)
        /\ LET pruned == IF reconciled THEN Reconciled(undone, mint') ELSE undone
           IN  mem' = IF restored THEN Restored(pruned, mint') ELSE pruned
        /\ Persist
        /\ owed' = owed \cup Idx(mem'.proofs)
        /\ IF Exacts(mem'.proofs, op.amount) = {}
           THEN op' = Idle
           ELSE \E exact \in Exacts(mem'.proofs, op.amount) :
                   op' = [kind |-> "handover", proofs |-> exact]
        /\ Track
        /\ UNCHANGED <<engine, records, funding, crashes>>

\* send_token: remove the token's proofs, record the pending send, and show
\* the token; the worker saves the wallet state when the job is done.
HandOver ==
    /\ op.kind = "handover"
    /\ mem' = remove_proofs(mem, op.proofs)
    /\ Persist
    /\ pending' = pending \cup {op.proofs}
    /\ handed' = handed \cup {op.proofs}
    /\ owed' = owed \ Idx(op.proofs)
    /\ op' = [kind |-> "save"]
    /\ UNCHANGED <<engine, saved, mint, funding, bounds>>

\* WalletState::save, again by a rename.
save_state(state) == saved' = state

\* finish_job: persist_state.
SaveState ==
    /\ op.kind = "save"
    /\ save_state(pending)
    /\ op' = Idle
    /\ UNCHANGED <<mem, disk, engine, pending, handed, mint, funding, owed, bounds>>

\* Mutant: the record is finalized whatever the mint answered.
ClaimedAnyway(token, m) == TRUE

\* probe_pending: every proof of the token is spent.
Claimed(token, m) == post_check_state(token, m) = token

\* check_pending_send and check_all_pending, one record at a time.
CheckPendingSend(token) ==
    /\ Ready
    /\ token \in pending
    /\ Claimed(token, mint)
    /\ pending' = pending \ {token}
    /\ op' = [kind |-> "save"]
    /\ UNCHANGED <<mem, disk, engine, saved, handed, mint, funding, owed, bounds>>

\* reclaim_pending: swap the token's proofs into fresh ones.  When the swap
\* fails, for whatever reason, a probe that finds them spent finalizes the
\* record as claimed by the recipient.  A token worth no more than the fee
\* is not sent at all.
ReclaimPending(token, net, probed) ==
    LET value == Sum(token) - Fee(Cardinality(token))
        outs  == Outputs(Decompose(value))
        ok    == value > 0 /\ SwapAccepted(token, outs)
    IN  /\ Ready
        /\ token \in pending
        /\ value >= 0
        /\ swap_deterministic(ok, token, outs, net)
        /\ pending' = IF Answered(ok, net) \/ (probed /\ Claimed(token, mint'))
                      THEN pending \ {token} ELSE pending
        /\ op' = [kind |-> "save"]
        /\ UNCHANGED <<engine, saved, handed, funding, crashes>>

ReconcileSpent ==
    /\ Ready
    /\ mem' = Reconciled(mem, mint)
    /\ mem' # mem
    /\ Persist
    /\ UNCHANGED <<engine, op, records, mint, funding, owed, bounds>>

Restore ==
    /\ Ready
    /\ mem' = Restored(mem, mint)
    /\ mem' # mem
    /\ Persist
    /\ owed' = owed \cup Idx(mem'.proofs)
    /\ Track
    /\ UNCHANGED <<engine, op, records, mint, funding, crashes>>
-----------------------------------------------------------------------------
(* melt_with: the whole balance is swapped into the exact set and change.  *)

MeltFee(amount) == Fee(Len(Decompose(amount + FeeReserve)))

MeltTarget(amount) == amount + FeeReserve + MeltFee(amount)

\* What is left of the balance after the swap's fee and the target.
MeltRest(amount) ==
    Sum(mem.proofs) - Fee(Cardinality(mem.proofs)) - MeltTarget(amount)

\* spend(total): every proof leaves the store.
MeltSelect(amount) ==
    LET target  == MeltTarget(amount)
        amounts == Decompose(target) \o
                      DecomposeCapped(MeltRest(amount), LowestBit(target))
    IN  /\ Ready
        /\ mem.proofs # {}
        /\ MeltRest(amount) >= 0
        /\ mem.counter + Len(amounts) + Len(Decompose(FeeReserve)) <= MaxIndex
        /\ mem' = remove_proofs(mem, mem.proofs)
        /\ Persist
        /\ op' = [kind |-> "melt", amount |-> amount, sel |-> mem.proofs,
                  amounts |-> amounts]
        /\ UNCHANGED <<engine, records, mint, funding, owed, bounds>>

\* The balance does not cover the target: the unsigned subtraction that
\* computes the rest panics, or wraps and exhausts the memory, after
\* spend(total) has emptied the store.
MeltUnderflow(amount) ==
    /\ Ready
    /\ mem.proofs # {}
    /\ MeltRest(amount) < 0
    /\ crashes < MaxCrashes
    /\ save(encode_envelope(remove_proofs(mem, mem.proofs)))
    /\ mem' = NoWallet
    /\ pending' = {}
    /\ owed' = {}
    /\ engine' = "down"
    /\ crashes' = crashes + 1
    /\ UNCHANGED <<op, saved, handed, mint, funding, derived>>

\* Mutant: the selection of a failed swap is not put back.
MeltSwapNotUndone(net) ==
    LET outs == Outputs(op.amounts)
    IN  /\ op.kind = "melt"
        /\ PostSwap(op.sel, outs, net)
        /\ IF Answered(SwapAccepted(op.sel, outs), net)
           THEN Credit(outs) /\ op' = [kind |-> "pay", amount |-> op.amount]
           ELSE Failed(outs) /\ op' = Idle
        /\ Track
        /\ UNCHANGED <<engine, records, funding, crashes>>

\* The swap before the melt; any failure of it is undone.
MeltSwap(net) ==
    LET outs == Outputs(op.amounts)
    IN  /\ op.kind = "melt"
        /\ PostSwap(op.sel, outs, net)
        /\ IF Answered(SwapAccepted(op.sel, outs), net)
           THEN Credit(outs) /\ op' = [kind |-> "pay", amount |-> op.amount]
           ELSE /\ mem' = undo_spend(Advanced(Len(op.amounts)), op.sel)
                /\ Persist
                /\ op' = Idle
                /\ UNCHANGED owed
        /\ Track
        /\ UNCHANGED <<engine, records, funding, crashes>>

\* melt_deterministic.  A mint that takes the melt claims the inputs; it
\* answers paid with some change of the reserve on the blank outputs, or
\* not paid and keeps the claim (pending); one that fails it answers not
\* paid and claims nothing.
MeltPay(net, verdict, change) ==
    LET blanks == Outputs(Decompose(FeeReserve))
        given  == Outputs(Decompose(change))
    IN  /\ op.kind = "pay"
        /\ verdict # "paid" => change = 0
        /\ net # "short"       \* fewer signatures than blanks is less change
        /\ net = "garbled" => change > 0
        /\ Cardinality(given) <= Cardinality(blanks)
        /\ \E sel \in Selections(MeltTarget(op.amount)) :
           LET valid == Idx(sel) \cap mint.spent = {}
               took  == valid /\ verdict # "failed"
               paid  == valid /\ Answered(verdict = "paid", net)
           IN  /\ IF Reaches(took, net) THEN MintSigns(sel, given) ELSE UNCHANGED mint
               /\ mem' = [Advanced(Cardinality(blanks)) EXCEPT
                             !.proofs = IF paid THEN (@ \ sel) \cup given ELSE @]
               /\ disk' = IF valid /\ net = "ok" THEN encode_envelope(mem') ELSE disk
               /\ owed' = IF paid THEN (owed \ Idx(sel)) \cup Idx(given) ELSE owed
        /\ op' = Idle
        /\ Track
        /\ UNCHANGED <<engine, records, funding, crashes>>
-----------------------------------------------------------------------------
(* The process, the store and the recipient.                               *)

Crash ==
    /\ engine # "down"
    /\ crashes < MaxCrashes
    /\ engine' = "down"
    /\ crashes' = crashes + 1
    /\ mem' = NoWallet
    /\ pending' = {}
    /\ owed' = {}
    /\ op' = Idle
    /\ UNCHANGED <<disk, saved, handed, mint, funding, derived>>

\* PersistentWallet::new and with_pending.
Restart ==
    /\ engine = "down"
    /\ engine' = "built"
    /\ mem' = decode_envelope(disk)
    /\ pending' = saved
    /\ owed' = Idx(mem'.proofs)
    /\ UNCHANGED <<disk, op, saved, handed, mint, funding, bounds>>

\* connect: the active keyset, its fee and its keys; no job runs before.
Connect ==
    /\ engine = "built"
    /\ engine' = "connected"
    /\ UNCHANGED <<mem, disk, op, records, mint, funding, owed, bounds>>

\* The medium loses or damages the blob.
Rot ==
    /\ StoreMayRot
    /\ engine = "down"
    /\ disk' = [disk EXCEPT !.intact = FALSE]
    /\ UNCHANGED <<mem, engine, op, records, mint, funding, owed, bounds>>

\* The recipient swaps the whole token.
Claim(token) ==
    /\ token \in handed
    /\ Idx(token) \cap mint.spent = {}
    /\ mint' = [mint EXCEPT !.spent = @ \cup Idx(token)]
    /\ UNCHANGED <<mem, disk, engine, op, records, funding, owed, bounds>>
-----------------------------------------------------------------------------
Init ==
    /\ mem = NoWallet /\ disk = NoBlob
    /\ engine = "built" /\ op = Idle
    /\ pending = {} /\ saved = {} /\ handed = {}
    /\ mint = [latest |-> [i \in Index |-> 0], spent |-> {}, again |-> {}]
    /\ minted = {} /\ redeemed = {}
    /\ owed = {} /\ crashes = 0 /\ derived = 0

Fund ==
    \/ \E q \in Quotes, net \in Net : MintPaidQuote(q, net)
    \/ \E t \in Incoming : ReceiveToken(t)
    \/ \E net \in Net : ReceiveGroup(net)

Send ==
    \/ \E amount \in SendAmounts : SendSelect(amount)
    \/ SendSwapped
    \/ \E net \in Net : SendRejected(net)
    \/ \E net \in Net, reconciled, restored \in BOOLEAN :
          SendAmbiguous(net, reconciled, restored)
    \/ HandOver
    \/ SaveState
    \/ \E token \in pending : CheckPendingSend(token)
    \/ \E token \in pending, net \in Net, probed \in BOOLEAN :
          ReclaimPending(token, net, probed)

Melt ==
    \/ \E amount \in MeltAmounts : MeltSelect(amount) \/ MeltUnderflow(amount)
    \/ \E net \in Net : MeltSwap(net)
    \/ \E net \in Net, verdict \in {"paid", "pending", "failed"},
          change \in 0 .. FeeReserve : MeltPay(net, verdict, change)

Recover == ReconcileSpent \/ Restore

World == Crash \/ Restart \/ Connect \/ Rot \/ \E token \in handed : Claim(token)

Next == Fund \/ Send \/ Melt \/ Recover \/ World

Spec == Init /\ [][Next]_vars
-----------------------------------------------------------------------------
(* Properties.                                                             *)

\* Every proof the wallet holds, in memory or in the store, has an index
\* below the counter beside it, and no two have the same: so no operation
\* derives the secret of a proof that is held, and no balance counts one
\* secret twice, across restarts, restores and undone sends.
HeldBelowCounter ==
    \A w \in {mem, decode_envelope(disk)} :
        /\ \A p \in w.proofs : p[1] < w.counter
        /\ Cardinality(Idx(w.proofs)) = Cardinality(w.proofs)

\* What an operation takes out of the store it brings back unless the mint
\* took it: a proof credited to the running wallet, not handed out and not
\* spent at the mint is in the store or in the hands of the operation in
\* progress (spend, undo_spend, the melt's unpaid and failed paths).
CreditedStaysHeld ==
    LET inHand == IF op.kind \in {"send", "melt"} THEN Idx(op.sel) ELSE {}
    IN  owed \ mint.spent \subseteq Idx(mem.proofs) \cup inHand

\* A record of a send leaves the saved state only when the mint has every
\* proof of its token spent, by the recipient or by the reclaim that raced
\* it: until then the wallet can still take the token back.
PendingKeptWhileLive ==
    [][\A token \in saved \ saved' : Idx(token) \subseteq mint'.spent]_vars

\* A restore brings back the signature on record for every index that is not
\* spent, with its value, whatever replies were lost, whatever process lost
\* them and whether or not the stored counter was lost too, as long as no
\* process ever derived more than RESTORE_HEADROOM indices beyond the counter
\* the restore starts from.  That is every signature the mint ever gave until
\* the wallet is restarted.  A process that starts behind indices an earlier
\* one had signed may have them signed again before it restores, and then the
\* last signature is the one that comes back: what the first was worth is
\* lost, against persistent.rs:18-19.
RestoreRecovers ==
    [][Restore /\ derived <= mem.counter + Headroom =>
          \A i \in Index \ mint.spent : mint.latest[i] # 0 =>
              /\ <<i, mint.latest[i]>> \in mem'.proofs
              /\ i \in mint.again => crashes > 0]_vars
=============================================================================
