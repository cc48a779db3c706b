------------------------------ MODULE MintCore ------------------------------
(***************************************************************************)
(* The demo mint's state machine (micronuts-mint/src/mint_core.rs) with    *)
(* its snapshot store (persist.rs) and its Lightning seam (ln.rs).         *)
(*                                                                         *)
(* The mint serves one request at a time (&mut self).  A request is one    *)
(* action, except post_melt: it makes its claim durable, leaves the        *)
(* process to pay an invoice, and comes back to settle the quote, and the  *)
(* process may die between any two of these.  A request the code rejects   *)
(* before it changes anything is a stuttering step and has no action of    *)
(* its own; the requests rejected AFTER a change do.                       *)
(*                                                                         *)
(* A token stands for a secret and for the blinded output B_ made from it: *)
(* the mint signs B_ with the key of a denomination, and whoever knows     *)
(* that signature holds a proof <<token, denomination>>.  The spent set    *)
(* is keyed by the secret alone (Y = hash_to_curve(secret)).               *)
(***************************************************************************)
EXTENDS Integers, FiniteSets, Functions

CONSTANTS
    Tokens,         \* secrets, and the blinded outputs made from them
    MintQuotes,     \* NUT-04 quote ids (UUIDs: never reused)
    MeltQuotes,     \* NUT-05 quote ids
    Denoms,         \* denominations the keyset has a key for
    QuoteAmounts,   \* amounts clients ask quotes for
    OutputAmounts,  \* amounts clients write on mint and swap outputs
    ChangeAmounts,  \* amounts clients write on melt change outputs
    Locked,         \* mint quotes created with a NUT-20 public key
    InputFeePpk,    \* NUT-08 input fee of the keyset, parts per thousand
    WholeQuotes,    \* TRUE: clients mint a quote whole, never in parts
    PayOutcomes     \* what pay_invoice may answer, and what really happened

ASSUME DenomsAssumption == Denoms \subseteq Nat \ {0}
ASSUME AmountsAssumption ==
    /\ QuoteAmounts \subseteq Nat \ {0}
    /\ OutputAmounts \subseteq Nat
    /\ ChangeAmounts \subseteq Nat
ASSUME ClientsAssumption ==
    /\ Locked \subseteq MintQuotes
    /\ InputFeePpk \in Nat
    /\ WholeQuotes \in BOOLEAN
\* A backend that answers Ok has paid; one that answers Err may have paid.
ASSUME PayAssumption ==
    /\ PayOutcomes \subseteq [ok : BOOLEAN, paid : BOOLEAN]
    /\ \A o \in PayOutcomes : o.ok => o.paid

VARIABLES
    mem,        \* the DemoMint fields while the process runs
    disk,       \* the last snapshot the StateStore made durable
    up,         \* the process is running
    inflight,   \* the post_melt call that is waiting for the backend
    known,      \* proofs clients can build: signatures they were given
    burned,     \* tokens whose value left the mint: swapped or paid out
    settled,    \* mint-quote invoices the payer has paid
    paidOut,    \* melt-quote invoices the Lightning network has paid
    expired     \* mint quotes whose expiry the clock has passed

vars == <<mem, disk, up, inflight, known, burned, settled, paidOut, expired>>
-----------------------------------------------------------------------------
(* Data.                                                                   *)

\* A request's outputs, or its proofs: tokens with the amount on each.  The
\* order of a request is free, so where the code depends on it the outcome
\* is one of those some order gives.
Bundle(S) == UNION {[T -> S] : T \in SUBSET Tokens}

Amount(b) == SumFunction(b)

MintQuoteStates == {"NONE", "UNPAID", "PAID", "ISSUED"}
MeltQuoteStates == {"NONE", "UNPAID", "PENDING", "PAID", "FAILED"}

MintQuoteEntry ==
    [state : MintQuoteStates, amount : Nat, paid : Nat, issued : Nat]
MeltQuoteEntry == [state : MeltQuoteStates, amount : Nat]

\* issued[t] = 0: the mint has no signature on record for the output.
MintState ==
    [mintq : [MintQuotes -> MintQuoteEntry],
     meltq : [MeltQuotes -> MeltQuoteEntry],
     spent : SUBSET Tokens,
     issued : [Tokens -> Denoms \cup {0}]]

EmptyState ==
    [mintq |-> [q \in MintQuotes |->
                    [state |-> "NONE", amount |-> 0, paid |-> 0, issued |-> 0]],
     meltq |-> [q \in MeltQuotes |-> [state |-> "NONE", amount |-> 0]],
     spent |-> {},
     issued |-> [t \in Tokens |-> 0]]

NoMelt == [phase |-> "idle"]

\* phase: "claimed" before the backend answered, "ok" or "err" after it.
Inflight == [phase : {"claimed", "ok", "err"}, quote : MeltQuotes,
             inputs : SUBSET Tokens, change : Bundle(Denoms)]

TypeOK ==
    /\ mem \in MintState
    /\ disk \in MintState
    /\ up \in BOOLEAN
    /\ inflight \in {NoMelt} \cup Inflight
    /\ known \subseteq Tokens \X Denoms
    /\ burned \subseteq Tokens
    /\ settled \subseteq MintQuotes
    /\ paidOut \subseteq MeltQuotes
    /\ expired \subseteq MintQuotes
-----------------------------------------------------------------------------
(* Helpers of the mint.                                                    *)

\* The mint takes a request only when no other one is being served.
Serving == up /\ inflight = NoMelt

\* Mutant: the snapshot is taken before the mutation.
PersistBefore == disk' = mem

\* Every mutation writes the whole state through the store; a save that
\* fails panics, which is Crash before the save.
Persist == disk' = mem'

InputFeeTotal(proofs) ==
    (InputFeePpk * Cardinality(DOMAIN proofs) + 999) \div 1000

Signable(a) == a \in Denoms

\* Blank outputs (amount 0) are skipped by the check.
CheckOutputsSignable(outs) ==
    \A t \in DOMAIN outs : outs[t] # 0 => Signable(outs[t])

\* sign_outputs succeeds on all outputs and records every signature; a
\* second signature on the same B_ replaces the first in the index.
CanSign(outs) == \A t \in DOMAIN outs : Signable(outs[t])

SignOutputs(issued, outs) ==
    [t \in Tokens |-> IF t \in DOMAIN outs THEN outs[t] ELSE issued[t]]

\* What sign_outputs has signed when it stops at the first output it has
\* no key for: in some order of the request, any set of signable ones.
SignedBeforeFailure(outs) ==
    {Restrict(outs, T) : T \in SUBSET {t \in DOMAIN outs : Signable(outs[t])}}

\* Signatures a reply carries; the reply may be lost on the way.
Proofs(outs) == {<<t, outs[t]>> : t \in DOMAIN outs}

Replied(outs) ==
    \/ known' = known \cup Proofs(outs)
    \/ known' = known

VerifyProofs(proofs) ==
    \A t \in DOMAIN proofs : <<t, proofs[t]>> \in known /\ t \notin mem.spent

\* Mutant: the inputs are verified and not marked.
ClaimNothing(proofs) == mem.spent

\* claim_proofs: VerifyProofs has rejected spent tokens, and a bundle has
\* no token twice, which is the other thing it rejects.
ClaimProofs(proofs) == mem.spent \cup DOMAIN proofs

\* An UNPAID quote settles when a lookup before its expiry finds the
\* invoice paid; later lookups leave it UNPAID for good.
Settles(q) ==
    mem.mintq[q].state = "UNPAID" /\ q \notin expired /\ q \in settled

SettledEntry(entry) == [entry EXCEPT !.state = "PAID", !.paid = entry.amount]

RefreshMintQuoteState(Q) ==
    [mem EXCEPT !.mintq = [q \in MintQuotes |->
        IF q \in Q /\ Settles(q) THEN SettledEntry(mem.mintq[q]) ELSE mem.mintq[q]]]

\* Mutant: the refresh leaves its settlement in memory.
PersistNoRefresh(Q) == UNCHANGED disk

\* The refresh persists only when it has settled something.
PersistRefresh(Q) ==
    disk' = IF \E q \in Q : Settles(q) THEN RefreshMintQuoteState(Q) ELSE disk

\* Mutants: blank outputs are not imprinted; priced outputs are not capped
\* by the overpay.
ChangeNotImprinted(outs, overpay) == {outs}

ChangeNotCapped(outs, overpay) ==
    {Restrict(outs, {t \in DOMAIN outs : outs[t] # 0})}

\* imprint_blank_outputs: the remainder, largest denomination first (so no
\* denomination but the largest twice), one piece on each blank used.
ImprintsBlanks(filled, remainder) ==
    /\ Amount(filled) = remainder
    /\ \A t, u \in DOMAIN filled :
          t # u /\ filled[t] = filled[u] => \A d \in Denoms : d <= filled[t]

\* NUT-08 fee return.  Outputs with an amount are kept in request order
\* while they fit into the overpay; what is left of it is imprinted on the
\* blank outputs, and melts whose blanks cannot hold it are rejected.
\* Every change bundle some request order gives:
Change(outs, overpay) ==
    LET blank == {t \in DOMAIN outs : outs[t] = 0}
        Fits(c) ==
            LET kept   == DOMAIN c \ blank
                left   == overpay - Amount(Restrict(outs, kept))
                filled == DOMAIN c \cap blank
            IN  /\ DOMAIN c \subseteq DOMAIN outs
                /\ left >= 0
                /\ \A t \in kept : c[t] = outs[t]
                /\ \A t \in DOMAIN outs \ (kept \cup blank) : outs[t] > left
                /\ blank # {} => ImprintsBlanks(Restrict(c, filled), left)
    IN  {c \in Bundle(Denoms) : Fits(c)}
-----------------------------------------------------------------------------
(* Requests of clients.                                                    *)

PostMintQuote(q, amount) ==
    /\ Serving
    /\ mem.mintq[q].state = "NONE"
    /\ mem' = [mem EXCEPT !.mintq[q] =
                 [state |-> "UNPAID", amount |-> amount, paid |-> 0, issued |-> 0]]
    /\ Persist
    /\ UNCHANGED <<up, inflight, known, burned, settled, paidOut, expired>>

\* get_mint_quote, and batch_check_mint_quotes over several quotes; also
\* what a post_mint or batch_mint rejected after its refresh leaves behind.
GetMintQuotes(Q) ==
    /\ Serving
    /\ \A q \in Q : mem.mintq[q].state # "NONE"
    /\ mem' = RefreshMintQuoteState(Q)
    /\ PersistRefresh(Q)
    /\ UNCHANGED <<up, inflight, known, burned, settled, paidOut, expired>>

\* NUT-20: a locked quote is minted against a signature of its key over the
\* quote id and all outputs (signed); an unlocked one needs none.
VerifyQuoteSignature(Q, signed) == Q \cap Locked # {} => signed

\* The checks of post_mint before it signs: the quote is PAID, a locked one
\* comes with its owner's signature, the outputs fit what is still mintable.
MintAllowed(q, outs, signed) ==
    LET entry    == RefreshMintQuoteState({q}).mintq[q]
        mintable == entry.paid - entry.issued
    IN  /\ entry.state = "PAID"
        /\ VerifyQuoteSignature({q}, signed)
        /\ Amount(outs) \in 0 .. mintable
        /\ WholeQuotes => Amount(outs) = mintable

\* Mutant: a quote issued in full stays PAID.
MintedStaysPaid(entry, sum) == [entry EXCEPT !.issued = entry.issued + sum]

MintedEntry(entry, sum) ==
    [entry EXCEPT !.issued = entry.issued + sum,
                  !.state = IF entry.issued + sum = entry.paid
                            THEN "ISSUED" ELSE "PAID"]

PostMint(q, outs, signed) ==
    LET now == RefreshMintQuoteState({q})
    IN  /\ Serving
        /\ MintAllowed(q, outs, signed)
        /\ CanSign(outs)
        /\ mem' = [now EXCEPT !.mintq[q] = MintedEntry(now.mintq[q], Amount(outs)),
                              !.issued = SignOutputs(now.issued, outs)]
        /\ Persist
        /\ Replied(outs)
        /\ UNCHANGED <<up, inflight, burned, settled, paidOut, expired>>

\* An output without a key: the outputs signed before it stay in the
\* restore index, the quote is not charged, nothing is persisted.
PostMintUnsignable(q, outs, signed) ==
    /\ Serving
    /\ MintAllowed(q, outs, signed)
    /\ ~CanSign(outs)
    /\ \E done \in SignedBeforeFailure(outs) :
          mem' = [RefreshMintQuoteState({q}) EXCEPT
                     !.issued = SignOutputs(mem.issued, done)]
    /\ PersistRefresh({q})
    /\ UNCHANGED <<up, inflight, known, burned, settled, paidOut, expired>>

\* The checks of batch_mint: all quotes PAID, valid signatures on exactly
\* the locked ones (signed), outputs worth the quotes' full amounts (whatever part of
\* them post_mint has issued already), and a key for every priced output.
BatchAllowed(Q, outs, signed) ==
    LET entry == RefreshMintQuoteState(Q).mintq
    IN  /\ Q # {}
        /\ \A q \in Q : entry[q].state = "PAID"
        /\ VerifyQuoteSignature(Q, signed)
        /\ Amount(outs) = Amount([q \in Q |-> entry[q].amount])
        /\ CheckOutputsSignable(outs)

\* Mutant: the batch does not count what it issued.
IssuedUncounted(entry) == [entry EXCEPT !.state = "ISSUED"]

IssuedEntry(entry) == [entry EXCEPT !.state = "ISSUED", !.issued = entry.amount]

BatchMint(Q, outs, signed) ==
    LET now == RefreshMintQuoteState(Q)
    IN  /\ Serving
        /\ BatchAllowed(Q, outs, signed)
        /\ CanSign(outs)
        /\ mem' = [now EXCEPT
                     !.mintq = [q \in MintQuotes |->
                         IF q \in Q THEN IssuedEntry(now.mintq[q])
                                    ELSE now.mintq[q]],
                     !.issued = SignOutputs(now.issued, outs)]
        /\ Persist
        /\ Replied(outs)
        /\ UNCHANGED <<up, inflight, burned, settled, paidOut, expired>>

\* A blank output passes the check and stops sign_outputs half way.
BatchMintUnsignable(Q, outs, signed) ==
    /\ Serving
    /\ BatchAllowed(Q, outs, signed)
    /\ ~CanSign(outs)
    /\ \E done \in SignedBeforeFailure(outs) :
          mem' = [RefreshMintQuoteState(Q) EXCEPT
                     !.issued = SignOutputs(mem.issued, done)]
    /\ PersistRefresh(Q)
    /\ UNCHANGED <<up, inflight, known, burned, settled, paidOut, expired>>
-----------------------------------------------------------------------------
SwapAllowed(ins, outs) ==
    /\ VerifyProofs(ins)
    /\ Amount(ins) = Amount(outs) + InputFeeTotal(ins)
    /\ CheckOutputsSignable(outs)

PostSwap(ins, outs) ==
    /\ Serving
    /\ SwapAllowed(ins, outs)
    /\ CanSign(outs)
    /\ mem' = [mem EXCEPT !.spent = ClaimProofs(ins),
                          !.issued = SignOutputs(mem.issued, outs)]
    /\ Persist
    /\ burned' = burned \cup DOMAIN ins
    /\ Replied(outs)
    /\ UNCHANGED <<up, inflight, settled, paidOut, expired>>

\* A blank output passes the check; the inputs are claimed before signing
\* fails on it, and nothing is persisted.
PostSwapUnsignable(ins, outs) ==
    /\ Serving
    /\ SwapAllowed(ins, outs)
    /\ ~CanSign(outs)
    /\ \E done \in SignedBeforeFailure(outs) :
          mem' = [mem EXCEPT !.spent = ClaimProofs(ins),
                             !.issued = SignOutputs(mem.issued, done)]
    /\ UNCHANGED <<disk, up, inflight, known, burned, settled, paidOut, expired>>

\* NUT-09 over one output (the request is a list, answered item by item).
PostRestore(t) ==
    /\ Serving
    /\ mem.issued[t] # 0
    /\ known' = known \cup {<<t, mem.issued[t]>>}
    /\ UNCHANGED <<mem, disk, up, inflight, burned, settled, paidOut, expired>>
-----------------------------------------------------------------------------
PostMeltQuote(q, amount) ==
    /\ Serving
    /\ mem.meltq[q].state = "NONE"
    /\ mem' = [mem EXCEPT !.meltq[q] = [state |-> "UNPAID", amount |-> amount]]
    /\ Persist
    /\ UNCHANGED <<up, inflight, known, burned, settled, paidOut, expired>>

\* Mutants: a quote found PENDING, or one that FAILED, is paid again.
MeltableWhenPending(q) == mem.meltq[q].state \in {"UNPAID", "PENDING"}

MeltableWhenFailed(q) == mem.meltq[q].state \in {"UNPAID", "FAILED"}

\* The states post_melt accepts.
Meltable(q) == mem.meltq[q].state = "UNPAID"

\* First part of post_melt: checks, claim, PENDING, persist-before-pay.  The
\* quote's fee_reserve is always 0; no change outputs is the empty bundle.
PostMelt(q, ins, outs) ==
    LET required == mem.meltq[q].amount + InputFeeTotal(ins)
    IN  /\ Serving
        /\ Meltable(q)
        /\ VerifyProofs(ins)
        /\ Amount(ins) >= required
        /\ mem' = [mem EXCEPT !.spent = ClaimProofs(ins),
                              !.meltq[q].state = "PENDING"]
        /\ Persist
        /\ \E change \in Change(outs, Amount(ins) - required) :
              inflight' = [phase |-> "claimed", quote |-> q,
                           inputs |-> DOMAIN ins, change |-> change]
        /\ UNCHANGED <<up, known, burned, settled, paidOut, expired>>

\* The backend's pay_invoice: what it answers and whether money moved.
PayInvoice(outcome) ==
    /\ up
    /\ inflight.phase = "claimed"
    /\ inflight' = [inflight EXCEPT !.phase = IF outcome.ok THEN "ok" ELSE "err"]
    /\ paidOut' = IF outcome.paid THEN paidOut \cup {inflight.quote} ELSE paidOut
    /\ burned' = IF outcome.paid THEN burned \cup inflight.inputs ELSE burned
    /\ UNCHANGED <<mem, disk, up, known, settled, expired>>

\* post_melt after Ok: sign the change, PAID, persist.
MeltPaid ==
    /\ up
    /\ inflight.phase = "ok"
    /\ mem' = [mem EXCEPT !.meltq[inflight.quote].state = "PAID",
                          !.issued = SignOutputs(mem.issued, inflight.change)]
    /\ Persist
    /\ Replied(inflight.change)
    /\ inflight' = NoMelt
    /\ UNCHANGED <<up, burned, settled, paidOut, expired>>

\* post_melt after any Err: release the inputs, FAILED, persist.
MeltFailed ==
    /\ up
    /\ inflight.phase = "err"
    /\ mem' = [mem EXCEPT !.meltq[inflight.quote].state = "FAILED",
                          !.spent = mem.spent \ inflight.inputs]
    /\ Persist
    /\ inflight' = NoMelt
    /\ UNCHANGED <<up, known, burned, settled, paidOut, expired>>
-----------------------------------------------------------------------------
(* The process and the world around it.                                    *)

\* The process dies, or a save fails and persist() panics.
Crash ==
    /\ up
    /\ up' = FALSE
    /\ mem' = EmptyState
    /\ inflight' = NoMelt
    /\ UNCHANGED <<disk, known, burned, settled, paidOut, expired>>

\* with_state_store: boot from the snapshot.
Restart ==
    /\ ~up
    /\ up' = TRUE
    /\ mem' = disk
    /\ UNCHANGED <<disk, inflight, known, burned, settled, paidOut, expired>>

\* The payer pays a quote's invoice.
PayerPays(q) ==
    /\ disk.mintq[q].state = "UNPAID"
    /\ settled' = settled \cup {q}
    /\ UNCHANGED <<mem, disk, up, inflight, known, burned, paidOut, expired>>

\* The clock passes a quote's expiry.
Expire(q) ==
    /\ disk.mintq[q].state = "UNPAID"
    /\ expired' = expired \cup {q}
    /\ UNCHANGED <<mem, disk, up, inflight, known, burned, settled, paidOut>>
-----------------------------------------------------------------------------
Init ==
    /\ mem = EmptyState
    /\ disk = EmptyState
    /\ up = TRUE
    /\ inflight = NoMelt
    /\ known = {}
    /\ burned = {}
    /\ settled = {}
    /\ paidOut = {}
    /\ expired = {}

MintRequest ==
    \/ \E q \in MintQuotes, a \in QuoteAmounts : PostMintQuote(q, a)
    \/ \E Q \in SUBSET MintQuotes : GetMintQuotes(Q)
    \/ \E q \in MintQuotes, outs \in Bundle(OutputAmounts), signed \in BOOLEAN :
          \/ PostMint(q, outs, signed)
          \/ PostMintUnsignable(q, outs, signed)
    \/ \E Q \in SUBSET MintQuotes, outs \in Bundle(OutputAmounts), signed \in BOOLEAN :
          \/ BatchMint(Q, outs, signed)
          \/ BatchMintUnsignable(Q, outs, signed)

SwapRequest ==
    \/ \E ins \in Bundle(Denoms), outs \in Bundle(OutputAmounts) :
          \/ PostSwap(ins, outs)
          \/ PostSwapUnsignable(ins, outs)
    \/ \E t \in Tokens : PostRestore(t)

MeltRequest ==
    \/ \E q \in MeltQuotes, a \in QuoteAmounts : PostMeltQuote(q, a)
    \/ \E q \in MeltQuotes, ins \in Bundle(Denoms),
          outs \in Bundle(ChangeAmounts) : PostMelt(q, ins, outs)
    \/ \E outcome \in PayOutcomes : PayInvoice(outcome)
    \/ MeltPaid
    \/ MeltFailed

Environment ==
    \/ Crash
    \/ Restart
    \/ \E q \in MintQuotes : PayerPays(q) \/ Expire(q)

Next == MintRequest \/ SwapRequest \/ MeltRequest \/ Environment

Spec == Init /\ [][Next]_vars
-----------------------------------------------------------------------------
(* Properties.                                                             *)

\* A token whose value left the mint (swapped, or used to pay an invoice
\* that the network did pay) is in the durable spent set from that moment
\* on, so no crash, restart or failed request makes it spendable again:
\* claim_proofs, persist-before-pay and the release of a failed melt.
SpendsSurviveRestart ==
    /\ burned \subseteq disk.spent
    /\ up => burned \subseteq mem.spent

\* The invoice of a melt quote is paid at most once: whenever post_melt is
\* about to call pay_invoice, no earlier call for that quote has moved
\* money, whatever crashed in between.  Two quotes that name one
\* invoice are two payments here.
PaysInvoiceOnce ==
    inflight.phase = "claimed" => inflight.quote \notin paidOut

\* While a melt waits for the backend, its claim is durable: the inputs are
\* in the snapshot's spent set and the snapshot has the quote PENDING
\* ("persist-before-pay"), and a quote settled PAID was really paid.
MeltClaimDurable ==
    /\ inflight # NoMelt =>
          /\ inflight.inputs \subseteq disk.spent
          /\ disk.meltq[inflight.quote].state = "PENDING"
    /\ \A q \in MeltQuotes : disk.meltq[q].state = "PAID" => q \in paidOut

CountersAgree(e, q) ==
    /\ e.state # "NONE" => e.amount > 0
    /\ e.issued <= e.paid
    /\ e.paid = IF e.state \in {"PAID", "ISSUED"} THEN e.amount ELSE 0
    /\ e.state \in {"PAID", "ISSUED"} => q \in settled
    /\ e.state = "ISSUED" <=> e.paid > 0 /\ e.issued = e.paid

\* A quote's state and the NUT-04 counters the mint keeps for it agree, in
\* memory and in the snapshot, through partial mints, batches and restarts:
\* a quote counts as paid only after its payer paid, counts no more as
\* issued than as paid, and is ISSUED exactly when it counts all of it as
\* issued.  What was signed is another matter: see AcceptsMintable.
QuoteCountersAgree ==
    \A q \in MintQuotes :
        CountersAgree(mem.mintq[q], q) /\ CountersAgree(disk.mintq[q], q)

\* Whatever has been minted before, a request to mint that the mint accepts
\* asks for no more than is still mintable of its quotes.  This is the rule
\* of the comment at mint_core.rs:409-411; batch_mint (:531, :572) breaks it
\* once post_mint has issued a part of one of the quotes, and the mint then
\* signs more than was paid.
AcceptsMintable ==
    Serving =>
        \A Q \in SUBSET MintQuotes, outs \in Bundle(OutputAmounts), signed \in BOOLEAN :
            LET entry == RefreshMintQuoteState(Q).mintq
            IN  \/ BatchAllowed(Q, outs, signed)
                \/ \E q \in Q : Q = {q} /\ MintAllowed(q, outs, signed)
                => Amount(outs) <= Amount([q \in Q |-> entry[q].paid - entry[q].issued])

\* Everything the running mint answers from is durable whenever it is free
\* to answer: the snapshot-per-mutation promise of persist(), by which no
\* restart takes back a spent mark, a signature or a quote state.
MemoryIsDurable == Serving => mem = disk

Rank(state) ==
    CASE state = "NONE" -> 0
      [] state = "UNPAID" -> 1
      [] state = "PENDING" -> 2
      [] state = "PAID" -> 3
      [] OTHER -> 4

\* The durable quote states only move forward: an issued mint quote never
\* becomes mintable again and a settled melt quote (PAID or FAILED) never
\* becomes payable again, restarts included.
QuoteStatesAdvance ==
    [][/\ \A q \in MintQuotes :
             Rank(disk.mintq[q].state) <= Rank(disk'.mintq[q].state)
       /\ \A q \in MeltQuotes :
             \/ disk.meltq[q].state = disk'.meltq[q].state
             \/ /\ disk.meltq[q].state \notin {"PAID", "FAILED"}
                /\ Rank(disk.meltq[q].state) < Rank(disk'.meltq[q].state)]_vars

\* The value clients can still claim: the best proof of every unspent token
\* they hold or can restore, and what PAID quotes have not issued yet.
Redeemable(t) ==
    {0} \cup {d \in Denoms : <<t, d>> \in known \/ d = disk.issued[t]}

Liability ==
    LET best == [t \in Tokens \ disk.spent |->
                    CHOOSE d \in Redeemable(t) : \A e \in Redeemable(t) : e <= d]
        open == [q \in MintQuotes |-> disk.mintq[q].paid - disk.mintq[q].issued]
    IN  Amount(best) + Amount(open)

\* Ecash is backed: what clients can still claim and what was paid out
\* never exceeds what was paid in, across mints, batches, swaps with fees,
\* melts with change, failed payments, lost replies and restarts.
Solvent ==
    Liability + Amount([q \in paidOut |-> disk.meltq[q].amount])
        <= Amount([q \in settled |-> disk.mintq[q].amount])
=============================================================================
