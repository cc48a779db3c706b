--------------------------- MODULE MintCoreProofs ---------------------------
(***************************************************************************)
(* What MintCore guarantees for every set of tokens, quotes, amounts and   *)
(* every client.                                                           *)
(***************************************************************************)
EXTENDS MintCore, Sums

(* Lemmas about the operators of the model.                                *)

LEMMA BundleType ==
    ASSUME NEW S, NEW b \in Bundle(S)
    PROVE  /\ DOMAIN b \subseteq Tokens
           /\ \A t \in DOMAIN b : b[t] \in S
BY DEF Bundle

LEMMA EmptyStateType == EmptyState \in MintState
BY DEF EmptyState, MintState, MintQuoteEntry, MeltQuoteEntry,
       MintQuoteStates, MeltQuoteStates

\* Signing outputs the keyset has keys for keeps the index well typed.
LEMMA SignOutputsType ==
    ASSUME NEW issued \in [Tokens -> Denoms \cup {0}], NEW S,
           NEW outs \in Bundle(S), CanSign(outs)
    PROVE  SignOutputs(issued, outs) \in [Tokens -> Denoms \cup {0}]
BY DEF SignOutputs, CanSign, Signable

LEMMA SignedBeforeFailureType ==
    ASSUME NEW S, NEW outs \in Bundle(S), NEW done \in SignedBeforeFailure(outs)
    PROVE  done \in Bundle(Denoms) /\ CanSign(done)
<1>1. PICK T \in SUBSET {t \in DOMAIN outs : Signable(outs[t])} :
          done = Restrict(outs, T)
  BY DEF SignedBeforeFailure
<1>2. T \in SUBSET Tokens /\ \A t \in T : outs[t] \in Denoms
  BY <1>1, BundleType DEF Signable
<1>3. done \in [T -> Denoms]
  BY <1>1, <1>2 DEF Restrict
<1> QED
  BY <1>2, <1>3 DEF Bundle, CanSign, Signable

\* A refresh touches the mint quotes only, and settles some of them.
LEMMA RefreshFields ==
    ASSUME TypeOK, NEW Q
    PROVE  /\ RefreshMintQuoteState(Q) \in MintState
           /\ RefreshMintQuoteState(Q).meltq = mem.meltq
           /\ RefreshMintQuoteState(Q).spent = mem.spent
           /\ RefreshMintQuoteState(Q).issued = mem.issued
           /\ \A q \in MintQuotes :
                 RefreshMintQuoteState(Q).mintq[q] =
                    IF q \in Q /\ Settles(q)
                    THEN SettledEntry(mem.mintq[q]) ELSE mem.mintq[q]
<1>1. ASSUME NEW e \in MintQuoteEntry PROVE SettledEntry(e) \in MintQuoteEntry
  BY <1>1 DEF SettledEntry, MintQuoteEntry, MintQuoteStates
<1>2. mem \in MintState
  BY DEF TypeOK
<1>3. \A q \in MintQuotes : mem.mintq[q] \in MintQuoteEntry
  BY <1>2 DEF MintState
<1> DEFINE new == [q \in MintQuotes |->
                      IF q \in Q /\ Settles(q)
                      THEN SettledEntry(mem.mintq[q]) ELSE mem.mintq[q]]
<1>4. new \in [MintQuotes -> MintQuoteEntry]
  BY <1>1, <1>3
<1>5. RefreshMintQuoteState(Q) = [mem EXCEPT !.mintq = new]
  BY DEF RefreshMintQuoteState
<1> HIDE DEF new
<1>6. /\ RefreshMintQuoteState(Q) \in MintState
      /\ RefreshMintQuoteState(Q).mintq = new
      /\ RefreshMintQuoteState(Q).meltq = mem.meltq
      /\ RefreshMintQuoteState(Q).spent = mem.spent
      /\ RefreshMintQuoteState(Q).issued = mem.issued
  BY <1>2, <1>4, <1>5 DEF MintState
<1> QED
  BY <1>6 DEF new
-----------------------------------------------------------------------------
(* The inductive invariant.                                                *)

\* A running mint's quote tables are its snapshot's, and its spent set can
\* only be larger (a request rejected after its claim); a stopped process
\* has no memory and no call in flight.
Durable ==
    /\ up => /\ mem.mintq = disk.mintq
             /\ mem.meltq = disk.meltq
             /\ disk.spent \subseteq mem.spent
    /\ ~up => mem = EmptyState /\ inflight = NoMelt

\* The call in flight: its claim is durable, and its invoice has been paid
\* exactly when the backend said Ok.
ClaimOK ==
    inflight # NoMelt =>
        /\ inflight.inputs \subseteq disk.spent
        /\ disk.meltq[inflight.quote].state = "PENDING"
        /\ inflight.phase = "claimed" => inflight.quote \notin paidOut
        /\ inflight.phase = "ok" => inflight.quote \in paidOut

\* Invoices are paid for quotes that can never be UNPAID again.
PaidOK ==
    \A q \in MeltQuotes :
        /\ q \in paidOut => disk.meltq[q].state \in {"PENDING", "PAID", "FAILED"}
        /\ disk.meltq[q].state = "PAID" => q \in paidOut

CountersOK == \A q \in MintQuotes : CountersAgree(disk.mintq[q], q)

IInv == TypeOK /\ Durable /\ ClaimOK /\ PaidOK /\ CountersOK

\* The further invariant of a backend that has not paid when it says Err.
DefiniteBackend == \A o \in PayOutcomes : o.ok = o.paid

BurnedOK ==
    /\ burned \subseteq disk.spent
    /\ inflight # NoMelt /\ inflight.phase \in {"claimed", "err"} =>
           inflight.inputs \cap burned = {}
-----------------------------------------------------------------------------
(* How quote entries change.                                               *)

LEMMA SettledEntryOK ==
    ASSUME NEW q \in MintQuotes, NEW e \in MintQuoteEntry, CountersAgree(e, q),
           e.state = "UNPAID", q \in settled
    PROVE  /\ SettledEntry(e) \in MintQuoteEntry
           /\ CountersAgree(SettledEntry(e), q)
           /\ SettledEntry(e).state = "PAID"
           /\ SettledEntry(e).amount = e.amount
<1>1. /\ SettledEntry(e) \in MintQuoteEntry
      /\ SettledEntry(e).state = "PAID"
      /\ SettledEntry(e).paid = e.amount
      /\ SettledEntry(e).issued = e.issued
      /\ SettledEntry(e).amount = e.amount
  BY DEF SettledEntry, MintQuoteEntry, MintQuoteStates
<1>2. e.issued = 0 /\ e.amount > 0
  BY DEF CountersAgree, MintQuoteEntry
<1> QED
  BY <1>1, <1>2 DEF CountersAgree, MintQuoteEntry

LEMMA MintedEntryOK ==
    ASSUME NEW q \in MintQuotes, NEW e \in MintQuoteEntry, CountersAgree(e, q),
           e.state = "PAID", NEW n \in 0 .. (e.paid - e.issued)
    PROVE  /\ MintedEntry(e, n) \in MintQuoteEntry
           /\ CountersAgree(MintedEntry(e, n), q)
           /\ MintedEntry(e, n).state \in {"PAID", "ISSUED"}
<1> DEFINE i == e.issued + n
           s == IF e.issued + n = e.paid THEN "ISSUED" ELSE "PAID"
<1>1. i \in Nat /\ s \in {"PAID", "ISSUED"}
  BY DEF MintQuoteEntry
<1>2. i <= e.paid /\ (s = "ISSUED" <=> i = e.paid)
  BY DEF MintQuoteEntry
<1>3. MintedEntry(e, n) = [e EXCEPT !.issued = i, !.state = s]
  BY DEF MintedEntry
<1> HIDE DEF i, s
<1>4. /\ MintedEntry(e, n) \in MintQuoteEntry
      /\ MintedEntry(e, n).state = s
      /\ MintedEntry(e, n).issued = i
      /\ MintedEntry(e, n).paid = e.paid
      /\ MintedEntry(e, n).amount = e.amount
  BY <1>1, <1>3 DEF MintQuoteEntry, MintQuoteStates
<1> QED
  BY <1>1, <1>2, <1>4 DEF CountersAgree, MintQuoteEntry

LEMMA IssuedEntryOK ==
    ASSUME NEW q \in MintQuotes, NEW e \in MintQuoteEntry, CountersAgree(e, q),
           e.state = "PAID"
    PROVE  /\ IssuedEntry(e) \in MintQuoteEntry
           /\ CountersAgree(IssuedEntry(e), q)
           /\ IssuedEntry(e).state = "ISSUED"
<1>1. /\ IssuedEntry(e) \in MintQuoteEntry
      /\ IssuedEntry(e).state = "ISSUED"
      /\ IssuedEntry(e).paid = e.paid
      /\ IssuedEntry(e).issued = e.amount
      /\ IssuedEntry(e).amount = e.amount
  BY DEF IssuedEntry, MintQuoteEntry, MintQuoteStates
<1> QED
  BY <1>1 DEF CountersAgree, MintQuoteEntry

\* What a step may do to a mint quote: keep its entry or replace it by a
\* consistent one with a later state.
Advances(old, new, q) ==
    /\ new \in MintQuoteEntry
    /\ CountersAgree(new, q)
    /\ Rank(old.state) <= Rank(new.state)

LEMMA RefreshAdvances ==
    ASSUME IInv, up, NEW Q
    PROVE  \A q \in MintQuotes :
              Advances(disk.mintq[q], RefreshMintQuoteState(Q).mintq[q], q)
<1> SUFFICES ASSUME NEW q \in MintQuotes
             PROVE  Advances(disk.mintq[q], RefreshMintQuoteState(Q).mintq[q], q)
  OBVIOUS
<1> DEFINE e == disk.mintq[q]
<1>1. e \in MintQuoteEntry /\ CountersAgree(e, q) /\ mem.mintq[q] = e
  BY DEF IInv, TypeOK, MintState, Durable, CountersOK
<1>2. CASE q \in Q /\ Settles(q)
  <2>1. RefreshMintQuoteState(Q).mintq[q] = SettledEntry(e)
    BY <1>1, <1>2, RefreshFields DEF IInv
  <2>2. e.state = "UNPAID" /\ q \in settled
    BY <1>1, <1>2 DEF Settles
  <2> QED
    BY <1>1, <2>1, <2>2, SettledEntryOK DEF Advances, Rank
<1>3. CASE ~(q \in Q /\ Settles(q))
  <2>1. RefreshMintQuoteState(Q).mintq[q] = e
    BY <1>1, <1>3, RefreshFields DEF IInv
  <2>2. Rank(e.state) <= Rank(e.state)
    BY DEF Rank
  <2> QED
    BY <1>1, <2>1, <2>2 DEF Advances
<1> QED
  BY <1>2, <1>3
-----------------------------------------------------------------------------
(* Every step keeps the invariant and only moves quotes forward.           *)

MeltAdvances(old, new) ==
    \/ old.state = new.state
    \/ /\ old.state \notin {"PAID", "FAILED"}
       /\ Rank(old.state) < Rank(new.state)

QuotesAdvance ==
    /\ \A q \in MintQuotes :
          Rank(disk.mintq[q].state) <= Rank(disk'.mintq[q].state)
    /\ \A q \in MeltQuotes : MeltAdvances(disk.meltq[q], disk'.meltq[q])

LEMMA PersistRefreshEffect ==
    ASSUME IInv, up, NEW Q \in SUBSET MintQuotes, PersistRefresh(Q)
    PROVE  /\ disk' \in MintState
           /\ disk'.mintq = RefreshMintQuoteState(Q).mintq
           /\ disk'.meltq = mem.meltq
           /\ disk'.spent = disk.spent \/ disk'.spent = mem.spent
<1> DEFINE now == RefreshMintQuoteState(Q)
<1>1. /\ now \in MintState
      /\ now.meltq = mem.meltq
      /\ now.spent = mem.spent
      /\ \A q \in MintQuotes :
            now.mintq[q] = IF q \in Q /\ Settles(q)
                           THEN SettledEntry(mem.mintq[q]) ELSE mem.mintq[q]
  BY RefreshFields DEF IInv
<1>2. mem \in MintState /\ disk \in MintState /\ mem.mintq = disk.mintq
      /\ mem.meltq = disk.meltq
  BY DEF IInv, TypeOK, Durable
<1>3. CASE \E q \in Q : Settles(q)
  BY <1>1, <1>3 DEF PersistRefresh
<1>4. CASE ~ \E q \in Q : Settles(q)
  <2>1. \A q \in MintQuotes : now.mintq[q] = mem.mintq[q]
    BY <1>1, <1>4
  <2>2. now.mintq = mem.mintq
    <3> HIDE DEF now
    <3> QED BY <1>1, <1>2, <2>1 DEF MintState
  <2> QED
    BY <1>2, <1>4, <2>2 DEF PersistRefresh
<1> QED
  BY <1>3, <1>4

\* Requests that leave the melt quotes alone and finish in one step.
LEMMA RequestStep ==
    ASSUME IInv, Serving, UNCHANGED <<up, inflight, settled, paidOut, expired>>,
           mem' \in MintState, disk' \in MintState,
           mem'.mintq = disk'.mintq,
           mem'.meltq = mem.meltq, disk'.meltq = mem.meltq,
           disk'.spent \subseteq mem'.spent,
           known' \subseteq Tokens \X Denoms, burned' \subseteq Tokens,
           \A q \in MintQuotes : Advances(disk.mintq[q], disk'.mintq[q], q)
    PROVE  IInv' /\ QuotesAdvance
<1>1. TypeOK'
  BY DEF IInv, TypeOK
<1>2. Durable'
  BY DEF Serving, Durable
<1>3. ClaimOK'
  BY DEF Serving, ClaimOK
<1>4. disk.meltq = disk'.meltq
  BY DEF IInv, Durable, Serving
<1>5. PaidOK'
  BY <1>4 DEF IInv, PaidOK
<1>6. CountersOK'
  BY DEF CountersOK, Advances, CountersAgree
<1>7. QuotesAdvance
  BY <1>4 DEF QuotesAdvance, Advances, MeltAdvances
<1> QED
  BY <1>1, <1>2, <1>3, <1>5, <1>6, <1>7 DEF IInv

\* The entries a step leaves alone advance trivially.
LEMMA SameAdvances ==
    ASSUME IInv, NEW q \in MintQuotes
    PROVE  Advances(disk.mintq[q], disk.mintq[q], q)
BY DEF IInv, TypeOK, MintState, CountersOK, Advances, Rank

LEMMA PostMintQuoteStep ==
    ASSUME IInv, NEW q \in MintQuotes, NEW a \in QuoteAmounts, PostMintQuote(q, a)
    PROVE  IInv' /\ QuotesAdvance
<1> DEFINE new == [state |-> "UNPAID", amount |-> a, paid |-> 0, issued |-> 0]
<1>1. a \in Nat /\ a > 0
  BY AmountsAssumption
<1>2. new \in MintQuoteEntry
  BY <1>1 DEF MintQuoteEntry, MintQuoteStates
<1>3. CountersAgree(new, q) /\ Rank(new.state) = 1
  BY <1>1 DEF CountersAgree, Rank
<1>4. mem \in MintState /\ mem.mintq = disk.mintq /\ mem.mintq[q].state = "NONE"
      /\ disk.spent \subseteq mem.spent
  BY DEF IInv, TypeOK, Durable, PostMintQuote, Serving
<1>5. mem' = [mem EXCEPT !.mintq[q] = new] /\ disk' = mem'
  BY DEF PostMintQuote, Persist
<1> HIDE DEF new
<1>6. /\ mem' \in MintState
      /\ mem'.meltq = mem.meltq
      /\ mem'.spent = mem.spent
      /\ \A p \in MintQuotes : mem'.mintq[p] = IF p = q THEN new ELSE mem.mintq[p]
  BY <1>2, <1>4, <1>5 DEF MintState
<1>7. Rank("NONE") = 0
  BY DEF Rank
<1>8. \A p \in MintQuotes : Advances(disk.mintq[p], disk'.mintq[p], p)
  BY <1>2, <1>3, <1>4, <1>5, <1>6, <1>7, SameAdvances DEF Advances
<1> QED
  BY <1>4, <1>5, <1>6, <1>8, RequestStep DEF PostMintQuote, IInv, TypeOK
\* What every request may rely on.
LEMMA ServingFacts ==
    ASSUME IInv, Serving
    PROVE  /\ up /\ inflight = NoMelt
           /\ mem \in MintState /\ disk \in MintState
           /\ mem.mintq = disk.mintq /\ mem.meltq = disk.meltq
           /\ disk.spent \subseteq mem.spent
           /\ known \subseteq Tokens \X Denoms /\ burned \subseteq Tokens
BY DEF IInv, TypeOK, Durable, Serving

LEMMA GetMintQuotesStep ==
    ASSUME IInv, NEW Q \in SUBSET MintQuotes, GetMintQuotes(Q)
    PROVE  IInv' /\ QuotesAdvance
<1>1. Serving /\ PersistRefresh(Q) /\ mem' = RefreshMintQuoteState(Q)
  BY DEF GetMintQuotes
<1>2. /\ mem' \in MintState /\ mem'.meltq = mem.meltq /\ mem'.spent = mem.spent
  BY <1>1, RefreshFields DEF IInv
<1> QED
  BY <1>1, <1>2, ServingFacts, PersistRefreshEffect, RefreshAdvances, RequestStep
  DEF GetMintQuotes

LEMMA RepliedType ==
    ASSUME IInv, NEW S, NEW outs \in Bundle(S), CanSign(outs), Replied(outs)
    PROVE  known' \subseteq Tokens \X Denoms
<1>1. Proofs(outs) \subseteq Tokens \X Denoms
  BY BundleType DEF Proofs, CanSign, Signable
<1> QED
  BY <1>1 DEF Replied, IInv, TypeOK

LEMMA PostMintStep ==
    ASSUME IInv, NEW q \in MintQuotes, NEW outs \in Bundle(OutputAmounts),
           NEW signed, PostMint(q, outs, signed)
    PROVE  IInv' /\ QuotesAdvance
<1> DEFINE now == RefreshMintQuoteState({q})
           old == now.mintq[q]
           new == MintedEntry(old, Amount(outs))
           sigs == SignOutputs(now.issued, outs)
<1>1. Serving /\ CanSign(outs) /\ Replied(outs)
  BY DEF PostMint
<1>2. /\ now \in MintState
      /\ now.meltq = mem.meltq
      /\ now.spent = mem.spent
  BY RefreshFields DEF IInv
<1>3. \A p \in MintQuotes : Advances(disk.mintq[p], now.mintq[p], p)
  BY <1>1, RefreshAdvances DEF Serving
<1>4. old.state = "PAID" /\ Amount(outs) \in 0 .. (old.paid - old.issued)
  BY DEF PostMint, MintAllowed
<1>5. new \in MintQuoteEntry /\ CountersAgree(new, q)
      /\ new.state \in {"PAID", "ISSUED"}
  BY <1>3, <1>4, MintedEntryOK DEF Advances
<1>6. Advances(disk.mintq[q], new, q)
  <2>1. Rank(disk.mintq[q].state) <= 3
    BY <1>3, <1>4 DEF Advances, Rank
  <2> HIDE DEF new
  <2>2. Rank(new.state) \in {3, 4}
    BY <1>5 DEF Rank
  <2>3. Rank(disk.mintq[q].state) \in 0 .. 4
    BY DEF Rank
  <2> QED
    BY <1>5, <2>1, <2>2, <2>3 DEF Advances
<1>7. sigs \in [Tokens -> Denoms \cup {0}]
  BY <1>1, <1>2, SignOutputsType DEF MintState
<1>8. mem' = [now EXCEPT !.mintq[q] = new, !.issued = sigs] /\ disk' = mem'
  BY DEF PostMint, Persist
<1> HIDE DEF now, new, sigs
<1>9. /\ mem' \in MintState
      /\ mem'.meltq = mem.meltq
      /\ mem'.spent = mem.spent
      /\ \A p \in MintQuotes : mem'.mintq[p] = IF p = q THEN new ELSE now.mintq[p]
  BY <1>2, <1>5, <1>7, <1>8 DEF MintState
<1>10. \A p \in MintQuotes : Advances(disk.mintq[p], disk'.mintq[p], p)
  BY <1>3, <1>6, <1>8, <1>9
<1>11. known' \subseteq Tokens \X Denoms
  BY <1>1, RepliedType
<1> QED
  BY <1>1, <1>8, <1>9, <1>10, <1>11, ServingFacts, RequestStep DEF PostMint

LEMMA BatchMintStep ==
    ASSUME IInv, NEW Q \in SUBSET MintQuotes, NEW outs \in Bundle(OutputAmounts),
           NEW signed, BatchMint(Q, outs, signed)
    PROVE  IInv' /\ QuotesAdvance
<1> DEFINE now == RefreshMintQuoteState(Q)
           new == [q \in MintQuotes |->
                     IF q \in Q THEN IssuedEntry(now.mintq[q]) ELSE now.mintq[q]]
           sigs == SignOutputs(now.issued, outs)
<1>1. Serving /\ CanSign(outs) /\ Replied(outs)
  BY DEF BatchMint
<1>2. /\ now \in MintState
      /\ now.meltq = mem.meltq
      /\ now.spent = mem.spent
  BY RefreshFields DEF IInv
<1>3. \A p \in MintQuotes : Advances(disk.mintq[p], now.mintq[p], p)
  BY <1>1, RefreshAdvances DEF Serving
<1>4. \A p \in Q : now.mintq[p].state = "PAID"
  BY DEF BatchMint, BatchAllowed
<1>5. \A p \in MintQuotes : Advances(disk.mintq[p], new[p], p)
  <2> SUFFICES ASSUME NEW p \in MintQuotes PROVE Advances(disk.mintq[p], new[p], p)
    OBVIOUS
  <2>1. CASE p \notin Q
    BY <2>1, <1>3
  <2>2. CASE p \in Q
    <3> DEFINE f == IssuedEntry(now.mintq[p])
    <3>1. new[p] = f
      BY <2>2
    <3>2. f \in MintQuoteEntry /\ CountersAgree(f, p) /\ f.state = "ISSUED"
      BY <2>2, <1>3, <1>4, IssuedEntryOK DEF Advances
    <3> HIDE DEF f
    <3>3. Rank(f.state) = 4 /\ Rank(disk.mintq[p].state) \in 0 .. 4
      BY <3>2 DEF Rank
    <3>4. Advances(disk.mintq[p], f, p)
      BY <3>2, <3>3 DEF Advances
    <3> QED
      BY <3>1, <3>4
  <2> QED
    BY <2>1, <2>2
<1>6. new \in [MintQuotes -> MintQuoteEntry]
  BY <1>5 DEF Advances
<1>7. sigs \in [Tokens -> Denoms \cup {0}]
  BY <1>1, <1>2, SignOutputsType DEF MintState
<1>8. mem' = [now EXCEPT !.mintq = new, !.issued = sigs] /\ disk' = mem'
  BY DEF BatchMint, Persist
<1> HIDE DEF now, new, sigs
<1>9. /\ mem' \in MintState
      /\ mem'.meltq = mem.meltq
      /\ mem'.spent = mem.spent
      /\ mem'.mintq = new
  BY <1>2, <1>6, <1>7, <1>8 DEF MintState
<1>10. known' \subseteq Tokens \X Denoms
  BY <1>1, RepliedType
<1> QED
  BY <1>1, <1>5, <1>8, <1>9, <1>10, ServingFacts, RequestStep DEF BatchMint

\* A mint or batch that stops at an output it cannot sign.
LEMMA UnsignableStep ==
    ASSUME IInv, Serving, NEW Q \in SUBSET MintQuotes,
           NEW outs \in Bundle(OutputAmounts), NEW done \in SignedBeforeFailure(outs),
           mem' = [RefreshMintQuoteState(Q) EXCEPT
                     !.issued = SignOutputs(mem.issued, done)],
           PersistRefresh(Q),
           UNCHANGED <<up, inflight, known, burned, settled, paidOut, expired>>
    PROVE  IInv' /\ QuotesAdvance
<1> DEFINE now == RefreshMintQuoteState(Q)
           sigs == SignOutputs(mem.issued, done)
<1>1. /\ now \in MintState
      /\ now.meltq = mem.meltq
      /\ now.spent = mem.spent
  BY RefreshFields DEF IInv
<1>2. sigs \in [Tokens -> Denoms \cup {0}]
  BY SignedBeforeFailureType, SignOutputsType, ServingFacts DEF MintState
<1>3. mem' = [now EXCEPT !.issued = sigs]
  OBVIOUS
<1>4. \A p \in MintQuotes : Advances(disk.mintq[p], now.mintq[p], p)
  BY RefreshAdvances DEF Serving
<1>5. /\ disk' \in MintState
      /\ disk'.mintq = now.mintq
      /\ disk'.meltq = mem.meltq
      /\ disk'.spent = disk.spent \/ disk'.spent = mem.spent
  BY PersistRefreshEffect DEF Serving
<1> HIDE DEF now, sigs
<1>6. /\ mem' \in MintState
      /\ mem'.mintq = now.mintq
      /\ mem'.meltq = mem.meltq
      /\ mem'.spent = mem.spent
  BY <1>1, <1>2, <1>3 DEF MintState
<1> QED
  BY <1>4, <1>5, <1>6, ServingFacts, RequestStep
LEMMA PostSwapStep ==
    ASSUME IInv, NEW ins \in Bundle(Denoms), NEW outs \in Bundle(OutputAmounts),
           PostSwap(ins, outs) \/ PostSwapUnsignable(ins, outs)
    PROVE  IInv' /\ QuotesAdvance
<1>1. Serving /\ DOMAIN ins \subseteq Tokens
  BY BundleType DEF PostSwap, PostSwapUnsignable
<1>2. \A p \in MintQuotes : Advances(disk.mintq[p], disk.mintq[p], p)
  BY SameAdvances
<1>3. mem.spent \subseteq Tokens /\ mem.issued \in [Tokens -> Denoms \cup {0}]
  BY <1>1, ServingFacts DEF MintState
<1>4. CASE PostSwap(ins, outs)
  <2> DEFINE sigs == SignOutputs(mem.issued, outs)
             gone == mem.spent \cup DOMAIN ins
  <2>1. sigs \in [Tokens -> Denoms \cup {0}]
    BY <1>3, <1>4, SignOutputsType DEF PostSwap
  <2>2. gone \in SUBSET Tokens
    BY <1>1, <1>3
  <2>3. mem' = [mem EXCEPT !.spent = gone, !.issued = sigs] /\ disk' = mem'
    BY <1>4 DEF PostSwap, Persist, ClaimProofs
  <2>4. burned' \subseteq Tokens /\ known' \subseteq Tokens \X Denoms
    BY <1>1, <1>4, ServingFacts, RepliedType DEF PostSwap
  <2> HIDE DEF sigs, gone
  <2>5. mem' \in MintState /\ mem'.mintq = mem.mintq /\ mem'.meltq = mem.meltq
    BY <1>1, <2>1, <2>2, <2>3, ServingFacts DEF MintState
  <2> QED
    BY <1>1, <1>2, <1>4, <2>3, <2>4, <2>5, ServingFacts, RequestStep DEF PostSwap
<1>5. CASE PostSwapUnsignable(ins, outs)
  <2>1. PICK done \in SignedBeforeFailure(outs) :
           mem' = [mem EXCEPT !.spent = ClaimProofs(ins),
                              !.issued = SignOutputs(mem.issued, done)]
    BY <1>5 DEF PostSwapUnsignable
  <2> DEFINE sigs == SignOutputs(mem.issued, done)
             gone == mem.spent \cup DOMAIN ins
  <2>2. sigs \in [Tokens -> Denoms \cup {0}]
    BY <1>3, SignedBeforeFailureType, SignOutputsType
  <2>3. gone \in SUBSET Tokens
    BY <1>1, <1>3
  <2>4. mem' = [mem EXCEPT !.spent = gone, !.issued = sigs]
    BY <2>1 DEF ClaimProofs
  <2>5. mem.spent \subseteq gone
    OBVIOUS
  <2> HIDE DEF sigs, gone
  <2>6. mem' \in MintState /\ mem'.mintq = mem.mintq /\ mem'.meltq = mem.meltq
        /\ mem'.spent = gone
    BY <1>1, <2>2, <2>3, <2>4, ServingFacts DEF MintState
  <2> QED
    BY <1>1, <1>2, <1>5, <2>5, <2>6, ServingFacts, RequestStep DEF PostSwapUnsignable
<1> QED
  BY <1>4, <1>5

LEMMA PostRestoreStep ==
    ASSUME IInv, NEW t \in Tokens, PostRestore(t)
    PROVE  IInv' /\ QuotesAdvance
<1>1. Serving
  BY DEF PostRestore
<1>2. mem.issued[t] \in Denoms
  BY <1>1, ServingFacts DEF PostRestore, MintState
<1>3. known' \subseteq Tokens \X Denoms
  BY <1>1, <1>2, ServingFacts DEF PostRestore
<1>4. \A p \in MintQuotes : Advances(disk.mintq[p], disk.mintq[p], p)
  BY SameAdvances
<1> QED
  BY <1>1, <1>3, <1>4, ServingFacts, RequestStep DEF PostRestore
-----------------------------------------------------------------------------
\* The steps of a melt: all but the quote it is for keep their entry.
LEMMA MeltStep ==
    ASSUME IInv, up, up' = up, NEW q \in MeltQuotes, NEW new \in MeltQuoteEntry,
           NEW gone \in SUBSET Tokens, NEW sigs \in [Tokens -> Denoms \cup {0}],
           mem' = [mem EXCEPT !.meltq[q] = new, !.spent = gone, !.issued = sigs],
           disk' = mem', MeltAdvances(mem.meltq[q], new),
           UNCHANGED <<burned, settled, paidOut, expired>>,
           known' \subseteq Tokens \X Denoms,
           inflight' \in {NoMelt} \cup Inflight,
           ClaimOK',
           q \in paidOut => new.state \in {"PENDING", "PAID", "FAILED"},
           new.state = "PAID" => q \in paidOut
    PROVE  /\ IInv' /\ QuotesAdvance
<1>1. mem \in MintState /\ mem.mintq = disk.mintq /\ mem.meltq = disk.meltq
  BY DEF IInv, TypeOK, Durable
<1>2. /\ mem' \in MintState
      /\ mem'.mintq = mem.mintq
      /\ \A p \in MeltQuotes : mem'.meltq[p] = IF p = q THEN new ELSE mem.meltq[p]
  BY <1>1 DEF MintState
<1>3. TypeOK'
  BY <1>2 DEF IInv, TypeOK
<1>4. Durable'
  BY DEF Durable
<1>5. PaidOK'
  BY <1>1, <1>2 DEF IInv, PaidOK
<1>6. CountersOK'
  BY <1>1, <1>2 DEF IInv, CountersOK, CountersAgree
<1>7. QuotesAdvance
  <2>1. \A p \in MintQuotes : Advances(disk.mintq[p], disk'.mintq[p], p)
    BY <1>1, <1>2, SameAdvances
  <2> QED
    BY <1>1, <1>2, <2>1 DEF QuotesAdvance, Advances, MeltAdvances
<1> QED
  BY <1>3, <1>4, <1>5, <1>6, <1>7 DEF IInv
\* A step that changes a melt quote writes its whole entry.
LEMMA MeltEntryUpdate ==
    ASSUME NEW m \in MintState, NEW q \in MeltQuotes, NEW s \in MeltQuoteStates
    PROVE  LET new == [m.meltq[q] EXCEPT !.state = s]
           IN  new \in MeltQuoteEntry /\ new.state = s
BY DEF MintState, MeltQuoteEntry

LEMMA PostMeltQuoteStep ==
    ASSUME IInv, NEW q \in MeltQuotes, NEW a \in QuoteAmounts, PostMeltQuote(q, a)
    PROVE  IInv' /\ QuotesAdvance
<1> DEFINE new == [state |-> "UNPAID", amount |-> a]
<1>1. Serving /\ mem.meltq[q].state = "NONE"
  BY DEF PostMeltQuote
<1>2. new \in MeltQuoteEntry
  BY AmountsAssumption DEF MeltQuoteEntry, MeltQuoteStates
<1>3. MeltAdvances(mem.meltq[q], new)
  BY <1>1 DEF MeltAdvances, Rank
<1>4. q \notin paidOut
  BY <1>1, ServingFacts DEF IInv, PaidOK
<1>5. mem.spent \in SUBSET Tokens /\ mem.issued \in [Tokens -> Denoms \cup {0}]
  BY <1>1, ServingFacts DEF MintState
<1>6. mem' = [mem EXCEPT !.meltq[q] = new] /\ disk' = mem'
  BY DEF PostMeltQuote, Persist
<1>7. new.state = "UNPAID"
  OBVIOUS
<1> HIDE DEF new
<1>8. mem' = [mem EXCEPT !.meltq[q] = new, !.spent = mem.spent, !.issued = mem.issued]
  BY <1>1, <1>6, ServingFacts DEF MintState
<1>9. ClaimOK'
  BY <1>1, ServingFacts DEF ClaimOK, PostMeltQuote
<1>10. inflight' \in {NoMelt} \cup Inflight /\ known' \subseteq Tokens \X Denoms
  BY <1>1, ServingFacts DEF PostMeltQuote
<1> QED
  BY <1>1, <1>2, <1>3, <1>4, <1>5, <1>6, <1>7, <1>8, <1>9, <1>10, ServingFacts, MeltStep
  DEF PostMeltQuote

LEMMA PostMeltStep ==
    ASSUME IInv, NEW q \in MeltQuotes, NEW ins \in Bundle(Denoms),
           NEW outs \in Bundle(ChangeAmounts), PostMelt(q, ins, outs)
    PROVE  IInv' /\ QuotesAdvance
<1> DEFINE new == [mem.meltq[q] EXCEPT !.state = "PENDING"]
           gone == mem.spent \cup DOMAIN ins
<1>1. Serving /\ mem.meltq[q].state = "UNPAID" /\ DOMAIN ins \subseteq Tokens
  BY BundleType DEF PostMelt, Meltable
<1>2. PICK change \in Bundle(Denoms) :
         inflight' = [phase |-> "claimed", quote |-> q,
                      inputs |-> DOMAIN ins, change |-> change]
  BY DEF PostMelt, Change
<1>3. new \in MeltQuoteEntry /\ new.state = "PENDING"
  BY <1>1, ServingFacts, MeltEntryUpdate DEF MeltQuoteStates
<1>4. q \notin paidOut
  BY <1>1, ServingFacts DEF IInv, PaidOK
<1>5. gone \in SUBSET Tokens /\ mem.issued \in [Tokens -> Denoms \cup {0}]
  BY <1>1, ServingFacts DEF MintState
<1>6. mem' = [mem EXCEPT !.spent = gone, !.meltq[q].state = "PENDING"] /\ disk' = mem'
  BY DEF PostMelt, Persist, ClaimProofs
<1>7. mem' = [mem EXCEPT !.meltq[q] = new, !.spent = gone, !.issued = mem.issued]
  <2> HIDE DEF gone
  <2> QED
    BY <1>1, <1>6, ServingFacts DEF MintState
<1>8. MeltAdvances(mem.meltq[q], new)
  <2> HIDE DEF new
  <2> QED
    BY <1>1, <1>3 DEF MeltAdvances, Rank
<1>9. DOMAIN ins \subseteq gone
  OBVIOUS
<1> HIDE DEF new, gone
<1>10. disk'.meltq[q] = new /\ disk'.spent = gone
  <2>1. disk' = mem'
    BY <1>6
  <2>2. mem'.meltq[q] = new /\ mem'.spent = gone
    BY <1>1, <1>7, ServingFacts DEF MintState
  <2> QED
    BY <2>1, <2>2
<1>11. inflight' \in Inflight
  BY <1>1, <1>2 DEF Inflight
<1>12. ClaimOK'
  BY <1>2, <1>3, <1>4, <1>9, <1>10 DEF ClaimOK, PostMelt
<1>13. known' \subseteq Tokens \X Denoms
  BY <1>1, ServingFacts DEF PostMelt
<1> QED
  BY <1>1, <1>3, <1>4, <1>5, <1>6, <1>7, <1>8, <1>11, <1>12, <1>13, ServingFacts,
     MeltStep DEF PostMelt

LEMMA InflightFacts ==
    ASSUME IInv, inflight.phase \in {"claimed", "ok", "err"}
    PROVE  /\ inflight \in Inflight
           /\ inflight # NoMelt
           /\ up
           /\ mem \in MintState /\ disk \in MintState
           /\ mem.mintq = disk.mintq /\ mem.meltq = disk.meltq
           /\ disk.spent \subseteq mem.spent
           /\ inflight.inputs \subseteq disk.spent
           /\ mem.meltq[inflight.quote].state = "PENDING"
<1>1. inflight # NoMelt
  BY DEF NoMelt
<1> QED
  BY <1>1 DEF IInv, TypeOK, Durable, ClaimOK

LEMMA PayInvoiceStep ==
    ASSUME IInv, NEW outcome \in PayOutcomes, PayInvoice(outcome)
    PROVE  IInv' /\ QuotesAdvance
<1>1. inflight.phase = "claimed"
  BY DEF PayInvoice
<1> DEFINE f == [inflight EXCEPT !.phase = IF outcome.ok THEN "ok" ELSE "err"]
<1>2. inflight' = f
  BY DEF PayInvoice
<1>3. /\ f \in Inflight
      /\ f.quote = inflight.quote
      /\ f.inputs = inflight.inputs
      /\ f.phase = IF outcome.ok THEN "ok" ELSE "err"
  BY <1>1, InflightFacts DEF Inflight
<1>4. outcome.ok \in BOOLEAN /\ outcome.paid \in BOOLEAN /\ (outcome.ok => outcome.paid)
  BY PayAssumption
<1> HIDE DEF f
<1>5. TypeOK'
  BY <1>1, <1>2, <1>3, InflightFacts DEF PayInvoice, IInv, TypeOK, Inflight
<1>6. Durable'
  BY <1>1, InflightFacts DEF PayInvoice, IInv, Durable
<1>7. ClaimOK'
  BY <1>1, <1>2, <1>3, <1>4, InflightFacts DEF PayInvoice, IInv, ClaimOK
<1>8. PaidOK'
  BY <1>1, <1>4, InflightFacts DEF PayInvoice, IInv, PaidOK
<1>9. CountersOK'
  BY DEF PayInvoice, IInv, CountersOK, CountersAgree
<1>10. QuotesAdvance
  BY DEF PayInvoice, QuotesAdvance, MeltAdvances, Rank
<1> QED
  BY <1>5, <1>6, <1>7, <1>8, <1>9, <1>10 DEF IInv
LEMMA MeltPaidStep ==
    ASSUME IInv, MeltPaid
    PROVE  IInv' /\ QuotesAdvance
<1> DEFINE q == inflight.quote
           new == [mem.meltq[q] EXCEPT !.state = "PAID"]
           sigs == SignOutputs(mem.issued, inflight.change)
<1>1. inflight.phase = "ok" /\ Replied(inflight.change)
  BY DEF MeltPaid
<1>2. q \in MeltQuotes /\ inflight.change \in Bundle(Denoms)
  BY <1>1, InflightFacts DEF Inflight
<1>3. CanSign(inflight.change)
  BY <1>2, BundleType DEF CanSign, Signable
<1>4. new \in MeltQuoteEntry /\ new.state = "PAID"
  BY <1>1, <1>2, InflightFacts, MeltEntryUpdate DEF MeltQuoteStates
<1>5. q \in paidOut
  BY <1>1, InflightFacts DEF IInv, ClaimOK
<1>6. mem.spent \in SUBSET Tokens /\ sigs \in [Tokens -> Denoms \cup {0}]
  BY <1>1, <1>2, <1>3, InflightFacts, SignOutputsType DEF MintState
<1>7. mem' = [mem EXCEPT !.meltq[q].state = "PAID", !.issued = sigs]
  BY DEF MeltPaid
<1>8. mem' = [mem EXCEPT !.meltq[q] = new, !.spent = mem.spent, !.issued = sigs]
  <2> HIDE DEF sigs, q
  <2> QED
    BY <1>1, <1>2, <1>7, InflightFacts DEF MintState
<1>9. MeltAdvances(mem.meltq[q], new)
  <2> HIDE DEF new
  <2> QED
    BY <1>1, <1>4, InflightFacts DEF MeltAdvances, Rank
<1>10. ClaimOK' /\ inflight' \in {NoMelt} \cup Inflight
  BY DEF MeltPaid, ClaimOK
<1>11. known' \subseteq Tokens \X Denoms
  BY <1>1, <1>2, <1>3, RepliedType
<1>12. disk' = mem' /\ UNCHANGED <<up, burned, settled, paidOut, expired>> /\ up
  BY DEF MeltPaid, Persist
<1> HIDE DEF new, sigs, q
<1> QED
  BY <1>2, <1>4, <1>5, <1>6, <1>8, <1>9, <1>10, <1>11, <1>12, MeltStep

LEMMA MeltFailedStep ==
    ASSUME IInv, MeltFailed
    PROVE  IInv' /\ QuotesAdvance
<1> DEFINE q == inflight.quote
           new == [mem.meltq[q] EXCEPT !.state = "FAILED"]
           gone == mem.spent \ inflight.inputs
<1>1. inflight.phase = "err"
  BY DEF MeltFailed
<1>2. q \in MeltQuotes
  BY <1>1, InflightFacts DEF Inflight
<1>3. new \in MeltQuoteEntry /\ new.state = "FAILED"
  BY <1>1, <1>2, InflightFacts, MeltEntryUpdate DEF MeltQuoteStates
<1>4. gone \in SUBSET Tokens /\ mem.issued \in [Tokens -> Denoms \cup {0}]
  BY <1>1, InflightFacts DEF MintState
<1>5. mem' = [mem EXCEPT !.meltq[q].state = "FAILED", !.spent = gone]
  BY DEF MeltFailed
<1>6. mem' = [mem EXCEPT !.meltq[q] = new, !.spent = gone, !.issued = mem.issued]
  <2> HIDE DEF gone, q
  <2> QED
    BY <1>1, <1>2, <1>5, InflightFacts DEF MintState
<1>7. MeltAdvances(mem.meltq[q], new)
  <2> HIDE DEF new
  <2> QED
    BY <1>1, <1>3, InflightFacts DEF MeltAdvances, Rank
<1>8. ClaimOK' /\ inflight' \in {NoMelt} \cup Inflight
  BY DEF MeltFailed, ClaimOK
<1>9. disk' = mem' /\ UNCHANGED <<up, known, burned, settled, paidOut, expired>> /\ up
      /\ known \subseteq Tokens \X Denoms
  BY DEF MeltFailed, Persist, IInv, TypeOK
<1> HIDE DEF new, gone, q
<1> QED
  BY <1>2, <1>3, <1>4, <1>6, <1>7, <1>8, <1>9, MeltStep

LEMMA EnvironmentStep ==
    ASSUME IInv, Environment
    PROVE  IInv' /\ QuotesAdvance
<1>1. QuotesAdvance
  BY DEF Environment, Crash, Restart, PayerPays, Expire, QuotesAdvance, MeltAdvances, Rank
<1>2. TypeOK'
  BY EmptyStateType DEF Environment, Crash, Restart, PayerPays, Expire, IInv, TypeOK
<1>3. Durable'
  BY DEF Environment, Crash, Restart, PayerPays, Expire, IInv, Durable
<1>4. ClaimOK'
  BY DEF Environment, Crash, Restart, PayerPays, Expire, IInv, ClaimOK
<1>5. PaidOK'
  BY DEF Environment, Crash, Restart, PayerPays, Expire, IInv, PaidOK
<1>6. CountersOK'
  BY DEF Environment, Crash, Restart, PayerPays, Expire, IInv, CountersOK, CountersAgree
<1> QED
  BY <1>1, <1>2, <1>3, <1>4, <1>5, <1>6 DEF IInv
-----------------------------------------------------------------------------
LEMMA IInvInit ==
    ASSUME Init
    PROVE  IInv
<1>1. TypeOK
  BY EmptyStateType DEF Init, TypeOK
<1>2. \A q \in MintQuotes : CountersAgree(EmptyState.mintq[q], q)
  BY DEF EmptyState, CountersAgree
<1>3. \A q \in MeltQuotes : EmptyState.meltq[q].state = "NONE"
  BY DEF EmptyState
<1> QED
  BY <1>1, <1>2, <1>3 DEF Init, IInv, Durable, ClaimOK, PaidOK, CountersOK

LEMMA IInvStep ==
    ASSUME IInv, Next
    PROVE  IInv' /\ QuotesAdvance
<1>1. ASSUME NEW q \in MintQuotes, NEW a \in QuoteAmounts, PostMintQuote(q, a)
      PROVE  IInv' /\ QuotesAdvance
  BY <1>1, PostMintQuoteStep
<1>2. ASSUME NEW Q \in SUBSET MintQuotes, GetMintQuotes(Q)
      PROVE  IInv' /\ QuotesAdvance
  BY <1>2, GetMintQuotesStep
<1>3. ASSUME NEW q \in MintQuotes, NEW outs \in Bundle(OutputAmounts),
             NEW signed \in BOOLEAN, PostMint(q, outs, signed)
      PROVE  IInv' /\ QuotesAdvance
  BY <1>3, PostMintStep
<1>4. ASSUME NEW q \in MintQuotes, NEW outs \in Bundle(OutputAmounts),
             NEW signed \in BOOLEAN, PostMintUnsignable(q, outs, signed)
      PROVE  IInv' /\ QuotesAdvance
  BY <1>4, UnsignableStep DEF PostMintUnsignable
<1>5. ASSUME NEW Q \in SUBSET MintQuotes, NEW outs \in Bundle(OutputAmounts),
             NEW signed \in BOOLEAN, BatchMint(Q, outs, signed)
      PROVE  IInv' /\ QuotesAdvance
  BY <1>5, BatchMintStep
<1>6. ASSUME NEW Q \in SUBSET MintQuotes, NEW outs \in Bundle(OutputAmounts),
             NEW signed \in BOOLEAN, BatchMintUnsignable(Q, outs, signed)
      PROVE  IInv' /\ QuotesAdvance
  BY <1>6, UnsignableStep DEF BatchMintUnsignable
<1>7. CASE MintRequest
  BY <1>1, <1>2, <1>3, <1>4, <1>5, <1>6, <1>7 DEF MintRequest
<1>8. CASE SwapRequest
  BY <1>8, PostSwapStep, PostRestoreStep DEF SwapRequest
<1>9. CASE MeltRequest
  BY <1>9, PostMeltQuoteStep, PostMeltStep, PayInvoiceStep, MeltPaidStep,
     MeltFailedStep DEF MeltRequest
<1>10. CASE Environment
  BY <1>10, EnvironmentStep
<1> QED
  BY <1>7, <1>8, <1>9, <1>10 DEF Next
LEMMA IInvInvariant == Spec => []IInv
<1>1. Init => IInv
  BY IInvInit
<1>2. IInv /\ [Next]_vars => IInv'
  <2> SUFFICES ASSUME IInv, [Next]_vars PROVE IInv'
    OBVIOUS
  <2>1. CASE Next
    BY <2>1, IInvStep
  <2>2. CASE UNCHANGED vars
    BY <2>2 DEF vars, IInv, TypeOK, Durable, ClaimOK, PaidOK, CountersOK, CountersAgree
  <2> QED
    BY <2>1, <2>2
<1> QED
  BY <1>1, <1>2, PTL DEF Spec

\* Type correctness of every reachable state of the mint, its snapshot, the
\* call in flight and what clients know.
THEOREM TypeCorrect == Spec => []TypeOK
<1>1. IInv => TypeOK
  BY DEF IInv
<1> QED
  BY <1>1, IInvInvariant, PTL

\* Whatever the backend answers and wherever the process dies, post_melt
\* calls pay_invoice for a quote only while that quote's invoice is unpaid.
THEOREM PaysOnce == Spec => []PaysInvoiceOnce
<1>1. IInv => PaysInvoiceOnce
  <2> SUFFICES ASSUME IInv, inflight.phase = "claimed"
               PROVE  inflight.quote \notin paidOut
    BY DEF PaysInvoiceOnce
  <2> QED
    BY InflightFacts DEF IInv, ClaimOK
<1> QED
  BY <1>1, IInvInvariant, PTL

\* Persist-before-pay: the claim of a melt is durable for as long as its
\* payment is in flight, and a quote recorded PAID has been paid.
THEOREM MeltClaims == Spec => []MeltClaimDurable
<1>1. IInv => MeltClaimDurable
  BY DEF IInv, ClaimOK, PaidOK, MeltClaimDurable
<1> QED
  BY <1>1, IInvInvariant, PTL

\* A mint quote's counters and state agree in memory and on disk, whatever
\* mix of partial mints, batches, failed requests and restarts it sees.
THEOREM QuoteCounters == Spec => []QuoteCountersAgree
<1>1. IInv => QuoteCountersAgree
  <2> SUFFICES ASSUME IInv, NEW q \in MintQuotes
               PROVE  CountersAgree(mem.mintq[q], q) /\ CountersAgree(disk.mintq[q], q)
    BY DEF QuoteCountersAgree
  <2>1. CountersAgree(disk.mintq[q], q)
    BY DEF IInv, CountersOK
  <2>2. CASE up
    BY <2>1, <2>2 DEF IInv, Durable
  <2>3. CASE ~up
    <3>1. mem = EmptyState
      BY <2>3 DEF IInv, Durable
    <3>2. CountersAgree(EmptyState.mintq[q], q)
      BY DEF EmptyState, CountersAgree
    <3> QED
      BY <2>1, <3>1, <3>2
  <2> QED
    BY <2>2, <2>3 DEF IInv, TypeOK
<1> QED
  BY <1>1, IInvInvariant, PTL

\* The durable quote tables only move forward: ISSUED mint quotes and PAID
\* or FAILED melt quotes are final, restarts included.
THEOREM QuotesOnlyAdvance == Spec => QuoteStatesAdvance
<1> DEFINE A == /\ \A q \in MintQuotes :
                      Rank(disk.mintq[q].state) <= Rank(disk'.mintq[q].state)
                /\ \A q \in MeltQuotes :
                      \/ disk.meltq[q].state = disk'.meltq[q].state
                      \/ /\ disk.meltq[q].state \notin {"PAID", "FAILED"}
                         /\ Rank(disk.meltq[q].state) < Rank(disk'.meltq[q].state)
<1>1. IInv /\ [Next]_vars => [A]_vars
  BY IInvStep DEF QuotesAdvance, MeltAdvances
<1>2. Spec => [][A]_vars
  BY <1>1, IInvInvariant, PTL DEF Spec
<1> QED
  BY <1>2 DEF QuoteStatesAdvance
-----------------------------------------------------------------------------
(* Spends survive restarts when an Err of the backend means "not paid".    *)

\* Only the release of a failed melt takes marks out of the durable set.
LEMMA SpentStep ==
    ASSUME IInv, Next
    PROVE  \/ MeltFailed
           \/ disk.spent \subseteq disk'.spent
<1>1. ASSUME NEW Q \in SUBSET MintQuotes, Serving, PersistRefresh(Q)
      PROVE  disk.spent \subseteq disk'.spent
  BY <1>1, ServingFacts, PersistRefreshEffect
<1>2. ASSUME NEW q \in MintQuotes, NEW a \in QuoteAmounts, PostMintQuote(q, a)
      PROVE  disk.spent \subseteq disk'.spent
  BY <1>2, ServingFacts DEF PostMintQuote, Persist, MintState
<1>3. ASSUME NEW q \in MintQuotes, NEW outs \in Bundle(OutputAmounts),
             NEW signed \in BOOLEAN, PostMint(q, outs, signed)
      PROVE  disk.spent \subseteq disk'.spent
  <2> DEFINE now == RefreshMintQuoteState({q})
             new == MintedEntry(now.mintq[q], Amount(outs))
             sigs == SignOutputs(now.issued, outs)
  <2>1. now \in MintState /\ now.spent = mem.spent
    BY RefreshFields DEF IInv
  <2>2. disk' = [now EXCEPT !.mintq[q] = new, !.issued = sigs] /\ Serving
    BY <1>3 DEF PostMint, Persist
  <2> HIDE DEF now, new, sigs
  <2>3. disk'.spent = now.spent
    BY <2>1, <2>2 DEF MintState
  <2> QED
    BY <2>1, <2>2, <2>3, ServingFacts
<1>4. ASSUME NEW Q \in SUBSET MintQuotes, NEW outs \in Bundle(OutputAmounts),
             NEW signed \in BOOLEAN, BatchMint(Q, outs, signed)
      PROVE  disk.spent \subseteq disk'.spent
  <2> DEFINE now == RefreshMintQuoteState(Q)
             new == [q \in MintQuotes |->
                      IF q \in Q THEN IssuedEntry(now.mintq[q]) ELSE now.mintq[q]]
             sigs == SignOutputs(now.issued, outs)
  <2>1. now \in MintState /\ now.spent = mem.spent
    BY RefreshFields DEF IInv
  <2>2. disk' = [now EXCEPT !.mintq = new, !.issued = sigs] /\ Serving
    BY <1>4 DEF BatchMint, Persist
  <2> HIDE DEF now, new, sigs
  <2>3. disk'.spent = now.spent
    BY <2>1, <2>2 DEF MintState
  <2> QED
    BY <2>1, <2>2, <2>3, ServingFacts
<1>5. CASE MintRequest
  BY <1>1, <1>2, <1>3, <1>4, <1>5
  DEF MintRequest, GetMintQuotes, PostMintUnsignable, BatchMintUnsignable
<1>6. ASSUME NEW ins \in Bundle(Denoms), NEW outs \in Bundle(OutputAmounts),
             PostSwap(ins, outs)
      PROVE  disk.spent \subseteq disk'.spent /\ DOMAIN ins \subseteq disk'.spent
  BY <1>6, ServingFacts DEF PostSwap, Persist, ClaimProofs, MintState
<1>7. CASE SwapRequest
  BY <1>6, <1>7 DEF SwapRequest, PostSwapUnsignable, PostRestore
<1>8. ASSUME NEW q \in MeltQuotes, NEW a \in QuoteAmounts, PostMeltQuote(q, a)
      PROVE  disk.spent \subseteq disk'.spent
  BY <1>8, ServingFacts DEF PostMeltQuote, Persist, MintState
<1>9. ASSUME NEW q \in MeltQuotes, NEW ins \in Bundle(Denoms),
             NEW outs \in Bundle(ChangeAmounts), PostMelt(q, ins, outs)
      PROVE  disk.spent \subseteq disk'.spent
  BY <1>9, ServingFacts DEF PostMelt, Persist, ClaimProofs, MintState
<1>10. ASSUME MeltPaid
       PROVE  disk.spent \subseteq disk'.spent
  BY <1>10, InflightFacts DEF MeltPaid, Persist, MintState
<1>11. CASE MeltRequest
  BY <1>8, <1>9, <1>10, <1>11 DEF MeltRequest, PayInvoice
<1>12. CASE Environment
  BY <1>12 DEF Environment, Crash, Restart, PayerPays, Expire
<1> QED
  BY <1>5, <1>7, <1>11, <1>12 DEF Next
LEMMA BurnedStep ==
    ASSUME DefiniteBackend, IInv, BurnedOK, Next
    PROVE  BurnedOK'
<1>1. ASSUME NEW ins \in Bundle(Denoms), NEW outs \in Bundle(OutputAmounts),
             PostSwap(ins, outs)
      PROVE  BurnedOK'
  <2>1. DOMAIN ins \subseteq disk'.spent /\ disk.spent \subseteq disk'.spent
    BY <1>1, ServingFacts DEF PostSwap, Persist, ClaimProofs, MintState
  <2> QED
    BY <1>1, <2>1, ServingFacts DEF PostSwap, BurnedOK
<1>2. ASSUME NEW q \in MeltQuotes, NEW ins \in Bundle(Denoms),
             NEW outs \in Bundle(ChangeAmounts), PostMelt(q, ins, outs)
      PROVE  BurnedOK'
  <2>1. disk.spent \subseteq disk'.spent /\ burned' = burned
    BY <1>2, ServingFacts DEF PostMelt, Persist, ClaimProofs, MintState
  <2>2. inflight'.inputs = DOMAIN ins
    BY <1>2 DEF PostMelt
  <2>3. DOMAIN ins \cap mem.spent = {}
    BY <1>2 DEF PostMelt, VerifyProofs
  <2>4. burned \subseteq mem.spent
    BY <1>2, ServingFacts DEF PostMelt, BurnedOK
  <2> QED
    BY <2>1, <2>2, <2>3, <2>4 DEF BurnedOK
<1>3. ASSUME NEW outcome \in PayOutcomes, PayInvoice(outcome)
      PROVE  BurnedOK'
  <2>1. outcome.ok = outcome.paid /\ outcome.ok \in BOOLEAN
    BY PayAssumption DEF DefiniteBackend
  <2>2. inflight.phase = "claimed" /\ disk' = disk
    BY <1>3 DEF PayInvoice
  <2>3. inflight'.inputs = inflight.inputs
        /\ inflight'.phase = IF outcome.ok THEN "ok" ELSE "err"
    BY <1>3, <2>2, InflightFacts DEF PayInvoice, Inflight
  <2>4. CASE outcome.ok
    BY <1>3, <2>1, <2>2, <2>3, <2>4, InflightFacts DEF PayInvoice, BurnedOK
  <2>5. CASE ~outcome.ok
    BY <1>3, <2>1, <2>2, <2>3, <2>5, InflightFacts DEF PayInvoice, BurnedOK
  <2> QED
    BY <2>1, <2>4, <2>5
<1>4. ASSUME MeltFailed
      PROVE  BurnedOK'
  <2>1. inflight.phase = "err" /\ burned' = burned /\ inflight' = NoMelt
    BY <1>4 DEF MeltFailed
  <2>2. disk'.spent = mem.spent \ inflight.inputs
    BY <1>4, <2>1, InflightFacts DEF MeltFailed, Persist, MintState
  <2>3. burned \subseteq mem.spent /\ inflight.inputs \cap burned = {}
    BY <2>1, InflightFacts DEF BurnedOK
  <2> QED
    BY <2>1, <2>2, <2>3 DEF BurnedOK
<1>5. ASSUME burned' = burned, disk.spent \subseteq disk'.spent,
             inflight' = inflight \/ inflight' = NoMelt
      PROVE  BurnedOK'
  BY <1>5 DEF BurnedOK
<1>6. CASE MintRequest
  <2>1. Serving /\ burned' = burned /\ inflight' = inflight
    BY <1>6 DEF MintRequest, PostMintQuote, GetMintQuotes, PostMint,
                PostMintUnsignable, BatchMint, BatchMintUnsignable
  <2>2. ~MeltFailed
    BY <2>1 DEF Serving, NoMelt, MeltFailed
  <2> QED
    BY <1>5, <2>1, <2>2, SpentStep
<1>7. CASE SwapRequest
  BY <1>1, <1>5, <1>7 DEF SwapRequest, PostSwapUnsignable, PostRestore
<1>8. ASSUME NEW q \in MeltQuotes, NEW a \in QuoteAmounts, PostMeltQuote(q, a)
      PROVE  BurnedOK'
  <2>1. disk.spent \subseteq disk'.spent
    BY <1>8, ServingFacts DEF PostMeltQuote, Persist, MintState
  <2> QED
    BY <1>5, <1>8, <2>1 DEF PostMeltQuote
<1>9. ASSUME MeltPaid
      PROVE  BurnedOK'
  <2>1. disk.spent \subseteq disk'.spent
    BY <1>9, InflightFacts DEF MeltPaid, Persist, MintState
  <2> QED
    BY <1>5, <1>9, <2>1 DEF MeltPaid
<1>10. CASE MeltRequest
  BY <1>2, <1>3, <1>4, <1>8, <1>9, <1>10 DEF MeltRequest
<1>11. CASE Environment
  BY <1>5, <1>11 DEF Environment, Crash, Restart, PayerPays, Expire
<1> QED
  BY <1>6, <1>7, <1>10, <1>11 DEF Next

\* With a backend whose Err means that the invoice was not paid, a token
\* that was swapped or melted away is in the durable spent set for ever, so
\* no crash, restart or failed payment lets it be spent a second time.
THEOREM SpendsSurvive ==
    ASSUME DefiniteBackend
    PROVE  Spec => []SpendsSurviveRestart
<1>1. Init => BurnedOK
  BY DEF Init, BurnedOK
<1>2. IInv /\ BurnedOK /\ [Next]_vars => BurnedOK'
  <2> SUFFICES ASSUME IInv, BurnedOK, [Next]_vars PROVE BurnedOK'
    OBVIOUS
  <2>1. CASE Next
    BY <2>1, BurnedStep
  <2>2. CASE UNCHANGED vars
    BY <2>2 DEF vars, BurnedOK
  <2> QED
    BY <2>1, <2>2
<1>3. IInv /\ BurnedOK => SpendsSurviveRestart
  BY DEF IInv, Durable, BurnedOK, SpendsSurviveRestart
<1> QED
  BY <1>1, <1>2, <1>3, IInvInvariant, PTL DEF Spec
-----------------------------------------------------------------------------
(* Ecash is backed when clients mint whole quotes onto outputs the keyset  *)
(* has keys for, as the repository's wallets do, and Err means "not paid". *)

\* The hypotheses, and a finite keyset and finitely many tokens and quotes.
SignableOutputs == OutputAmounts \subseteq Denoms

Finite == /\ IsFiniteSet(Tokens) /\ IsFiniteSet(Denoms)
          /\ IsFiniteSet(MintQuotes) /\ IsFiniteSet(MeltQuotes)

\* With every output signable no request fails half way, so a running mint's
\* memory is its snapshot, in flight or not.
InSync == up => mem = disk

\* The best proof of a token.
Best(R) == CHOOSE d \in R : \A e \in R : e <= d

Worth(t) == Best(Redeemable(t))

\* The claim of a call whose payment is undecided, and the change of one that
\* has paid.
Undecided(t) ==
    inflight # NoMelt /\ inflight.phase \in {"claimed", "err"} /\ t \in inflight.inputs

Owed(t) == inflight # NoMelt /\ inflight.phase = "ok" /\ t \in DOMAIN inflight.change

\* What a token may still take out of the mint.
Stake == [t \in Tokens |->
            (IF t \in disk.spent /\ ~Undecided(t) THEN 0 ELSE Worth(t))
            + (IF Owed(t) THEN inflight.change[t] ELSE 0)]

Claimed == [t \in Tokens |-> IF Undecided(t) THEN Worth(t) ELSE 0]

\* What has been issued against quotes, and what has been paid out.
In == [q \in MintQuotes |-> disk.mintq[q].issued]
Out == [q \in MeltQuotes |-> IF q \in paidOut THEN disk.meltq[q].amount ELSE 0]

\* Every stake is backed by something issued and not paid out; an undecided
\* claim covers the payment and the change; a quote is minted whole.
Backed == Amount(Stake) + Amount(Out) <= Amount(In)

Covered ==
    inflight # NoMelt /\ inflight.phase = "claimed" =>
        disk.meltq[inflight.quote].amount + Amount(inflight.change) <= Amount(Claimed)

Whole == \A q \in MintQuotes : disk.mintq[q].state = "PAID" => disk.mintq[q].issued = 0

SInv == Backed /\ Covered /\ Whole
-----------------------------------------------------------------------------
LEMMA AllSigned ==
    ASSUME SignableOutputs, NEW outs \in Bundle(OutputAmounts)
    PROVE  CanSign(outs)
BY BundleType DEF SignableOutputs, CanSign, Signable

\* A refresh that settles nothing leaves the state as it is.
LEMMA PersistRefreshSync ==
    ASSUME IInv, mem = disk, NEW Q \in SUBSET MintQuotes, PersistRefresh(Q)
    PROVE  disk' = RefreshMintQuoteState(Q)
<1>1. CASE \E q \in Q : Settles(q)
  BY <1>1 DEF PersistRefresh
<1>2. CASE ~ \E q \in Q : Settles(q)
  <2> DEFINE now == RefreshMintQuoteState(Q)
  <2>1. /\ now \in MintState /\ mem \in MintState
        /\ now.meltq = mem.meltq /\ now.spent = mem.spent /\ now.issued = mem.issued
        /\ \A q \in MintQuotes : now.mintq[q] = mem.mintq[q]
    BY <1>2, RefreshFields DEF IInv, TypeOK
  <2> HIDE DEF now
  <2>2. now.mintq = mem.mintq
    BY <2>1 DEF MintState
  <2>3. now = mem
    BY <2>1, <2>2 DEF MintState
  <2> QED
    BY <1>2, <2>3 DEF PersistRefresh, now
<1> QED
  BY <1>1, <1>2

LEMMA SyncStep ==
    ASSUME SignableOutputs, IInv, InSync, Next
    PROVE  InSync'
<1>1. CASE MintRequest
  <2>1. ASSUME NEW Q \in SUBSET MintQuotes, GetMintQuotes(Q) PROVE InSync'
    BY <2>1, PersistRefreshSync DEF GetMintQuotes, InSync, Serving
  <2>2. ASSUME NEW outs \in Bundle(OutputAmounts), NEW Q, NEW signed
        PROVE  ~PostMintUnsignable(Q, outs, signed) /\ ~BatchMintUnsignable(Q, outs, signed)
    BY AllSigned DEF PostMintUnsignable, BatchMintUnsignable
  <2>3. ASSUME disk' = mem' PROVE InSync'
    BY <2>3 DEF InSync
  <2>4. \/ \E Q \in SUBSET MintQuotes : GetMintQuotes(Q)
        \/ \E q, a : PostMintQuote(q, a)
        \/ \E q, outs, signed : PostMint(q, outs, signed)
        \/ \E Q, outs, signed : BatchMint(Q, outs, signed)
    BY <1>1, <2>2 DEF MintRequest
  <2> QED
    BY <2>1, <2>3, <2>4 DEF PostMintQuote, PostMint, BatchMint, Persist
<1>2. CASE SwapRequest
  BY <1>2, AllSigned
  DEF SwapRequest, PostSwap, PostSwapUnsignable, PostRestore, Persist, InSync, Serving
<1>3. CASE MeltRequest
  BY <1>3 DEF MeltRequest, PostMeltQuote, PostMelt, PayInvoice, MeltPaid, MeltFailed,
              Persist, InSync
<1>4. CASE Environment
  <2>1. \/ ~up'
        \/ mem' = disk'
        \/ UNCHANGED <<mem, disk, up>>
    BY <1>4 DEF Environment, Crash, Restart, PayerPays, Expire
  <2> QED
    BY <2>1 DEF InSync
<1> QED
  BY <1>1, <1>2, <1>3, <1>4 DEF Next

LEMMA SyncAlways ==
    ASSUME SignableOutputs
    PROVE  Spec => []InSync
<1>1. Init => InSync
  BY DEF Init, InSync
<1>2. IInv /\ InSync /\ [Next]_vars => InSync'
  BY SyncStep DEF vars, InSync
<1> QED
  BY <1>1, <1>2, IInvInvariant, PTL DEF Spec

\* The snapshot-per-mutation promise of persist(), for clients that ask for
\* outputs the keyset has keys for: whenever the mint is free to answer, all
\* it answers from is durable.
THEOREM DurableMemory ==
    ASSUME SignableOutputs
    PROVE  Spec => []MemoryIsDurable
<1>1. InSync => MemoryIsDurable
  BY DEF InSync, MemoryIsDurable, Serving
<1> QED
  BY <1>1, SyncAlways, PTL
-----------------------------------------------------------------------------
(* Amounts.                                                                *)

LEMMA AmountType ==
    ASSUME NEW S, IsFiniteSet(S), NEW R, R \in {Int, Nat}, NEW f \in [S -> R]
    PROVE  Amount(f) \in R
<1>1. Amount(f) = SumFunctionOnSet(f, S)
  BY DEF Amount, SumFunction, SumFunctionOnSet, FoldFunction
<1>2. \A x \in S : f[x] \in R
  OBVIOUS
<1> QED
  BY <1>1, <1>2, SumType

LEMMA AmountBalance ==
    ASSUME NEW S, IsFiniteSet(S),
           NEW f \in [S -> Int], NEW a \in [S -> Int],
           NEW g \in [S -> Int], NEW b \in [S -> Int],
           \A x \in S : f[x] + a[x] <= g[x] + b[x]
    PROVE  Amount(f) + Amount(a) <= Amount(g) + Amount(b)
<1>1. /\ Amount(f) = SumFunctionOnSet(f, S) /\ Amount(a) = SumFunctionOnSet(a, S)
      /\ Amount(g) = SumFunctionOnSet(g, S) /\ Amount(b) = SumFunctionOnSet(b, S)
  BY DEF Amount, SumFunction, SumFunctionOnSet, FoldFunction
<1>2. \A x \in S : /\ f[x] \in Int /\ a[x] \in Int /\ g[x] \in Int /\ b[x] \in Int
                   /\ f[x] + a[x] <= g[x] + b[x]
  OBVIOUS
<1> QED
  BY <1>1, <1>2, SumBalance

LEMMA AmountLeq ==
    ASSUME NEW S, IsFiniteSet(S), NEW f \in [S -> Int], NEW g \in [S -> Int],
           \A x \in S : f[x] <= g[x]
    PROVE  Amount(f) <= Amount(g)
<1>1. Amount(f) + Amount(f) <= Amount(g) + Amount(f)
  <2>1. \A x \in S : f[x] + f[x] <= g[x] + f[x]
    OBVIOUS
  <2> QED
    BY <2>1, AmountBalance
<1>2. Amount(f) \in Int /\ Amount(g) \in Int
  BY AmountType
<1> QED
  BY <1>1, <1>2

\* A bundle's amount is that of its spread over all tokens.
LEMMA AmountSpread ==
    ASSUME NEW S, IsFiniteSet(S), NEW b, DOMAIN b \subseteq S,
           \A t \in DOMAIN b : b[t] \in Nat
    PROVE  /\ Spread(b, S) \in [S -> Nat]
           /\ Amount(b) = Amount(Spread(b, S))
           /\ Amount(b) \in Nat
<1>1. Spread(b, S) \in [S -> Nat]
  BY DEF Spread
<1>2. \A t \in DOMAIN b : b[t] \in Int
  OBVIOUS
<1>3. SumFunction(b) = SumFunctionOnSet(Spread(b, S), S)
  BY <1>2, SumSpread
<1>4. DOMAIN Spread(b, S) = S
  BY DEF Spread
<1>5. Amount(b) = Amount(Spread(b, S))
  BY <1>3, <1>4 DEF Amount, SumFunction, SumFunctionOnSet, FoldFunction
<1>6. Amount(Spread(b, S)) \in Nat
  BY <1>1, AmountType
<1> QED
  BY <1>1, <1>5, <1>6

LEMMA BundleAmount ==
    ASSUME Finite, NEW D, D \subseteq Nat, NEW b \in Bundle(D)
    PROVE  /\ Spread(b, Tokens) \in [Tokens -> Nat]
           /\ Amount(b) = Amount(Spread(b, Tokens))
           /\ Amount(b) \in Nat
<1>1. DOMAIN b \subseteq Tokens /\ \A t \in DOMAIN b : b[t] \in Nat
  BY BundleType
<1> QED
  BY <1>1, AmountSpread DEF Finite

LEMMA FeeType ==
    ASSUME Finite, NEW b \in Bundle(Denoms)
    PROVE  InputFeeTotal(b) \in Nat
<1>1. Cardinality(DOMAIN b) \in Nat
  BY BundleType, FS_Subset, FS_CardinalityType DEF Finite
<1>2. InputFeePpk * Cardinality(DOMAIN b) \in Nat
  BY <1>1, ClientsAssumption
<1> QED
  BY <1>2 DEF InputFeeTotal
-----------------------------------------------------------------------------
(* The stakes of a state.                                                  *)

LEMMA BestOf ==
    ASSUME NEW R, IsFiniteSet(R), 0 \in R, \A e \in R : e \in Nat
    PROVE  /\ Best(R) \in R /\ Best(R) \in Nat
           /\ \A e \in R : e <= Best(R)
<1>1. \E m \in R : \A x \in R : x <= m
  BY Greatest
<1> QED
  BY <1>1 DEF Best

LEMMA StakeFacts ==
    ASSUME Finite
    PROVE  IInv =>
             /\ \A t \in Tokens : /\ Worth(t) \in Nat /\ Worth(t) \in Redeemable(t)
                                  /\ \A e \in Redeemable(t) : e <= Worth(t)
             /\ Stake \in [Tokens -> Nat] /\ Claimed \in [Tokens -> Nat]
             /\ In \in [MintQuotes -> Nat] /\ Out \in [MeltQuotes -> Nat]
<1> SUFFICES ASSUME IInv
             PROVE  /\ \A t \in Tokens :
                          /\ Worth(t) \in Nat /\ Worth(t) \in Redeemable(t)
                          /\ \A e \in Redeemable(t) : e <= Worth(t)
                    /\ Stake \in [Tokens -> Nat] /\ Claimed \in [Tokens -> Nat]
                    /\ In \in [MintQuotes -> Nat] /\ Out \in [MeltQuotes -> Nat]
  OBVIOUS
<1>1. ASSUME NEW t \in Tokens
      PROVE  /\ Worth(t) \in Nat /\ Worth(t) \in Redeemable(t)
             /\ \A e \in Redeemable(t) : e <= Worth(t)
  <2>1. Redeemable(t) \in SUBSET (Denoms \cup {0}) /\ 0 \in Redeemable(t)
    BY DEF Redeemable
  <2>2. IsFiniteSet(Denoms \cup {0})
    BY FS_AddElement DEF Finite
  <2>3. IsFiniteSet(Redeemable(t))
    BY <2>1, <2>2, FS_Subset
  <2>4. \A d \in Denoms \cup {0} : d \in Nat
    BY DenomsAssumption
  <2>5. \A e \in Redeemable(t) : e \in Nat
    BY <2>1, <2>4
  <2> QED
    BY <2>1, <2>3, <2>5, BestOf DEF Worth
<1>2. \A t \in Tokens : Owed(t) => inflight.change[t] \in Nat
  <2>1. inflight # NoMelt => inflight.change \in Bundle(Denoms)
    BY DEF IInv, TypeOK, Inflight
  <2> QED
    BY <2>1, BundleType, DenomsAssumption DEF Owed
<1>3. Stake \in [Tokens -> Nat]
  BY <1>1, <1>2 DEF Stake
<1>4. Claimed \in [Tokens -> Nat]
  BY <1>1 DEF Claimed
<1>5. In \in [MintQuotes -> Nat] /\ Out \in [MeltQuotes -> Nat]
  BY DEF In, Out, IInv, TypeOK, MintState, MintQuoteEntry, MeltQuoteEntry
<1> QED
  BY <1>1, <1>3, <1>4, <1>5

\* The same of the next state.
LEMMA StakeFactsNext ==
    ASSUME Finite, IInv'
    PROVE  /\ \A t \in Tokens : /\ Worth(t)' \in Nat /\ Worth(t)' \in Redeemable(t)'
                                /\ \A e \in Redeemable(t)' : e <= Worth(t)'
           /\ Stake' \in [Tokens -> Nat] /\ Claimed' \in [Tokens -> Nat]
           /\ In' \in [MintQuotes -> Nat] /\ Out' \in [MeltQuotes -> Nat]
<1>1. (IInv =>
         /\ \A t \in Tokens : /\ Worth(t) \in Nat /\ Worth(t) \in Redeemable(t)
                              /\ \A e \in Redeemable(t) : e <= Worth(t)
         /\ Stake \in [Tokens -> Nat] /\ Claimed \in [Tokens -> Nat]
         /\ In \in [MintQuotes -> Nat] /\ Out \in [MeltQuotes -> Nat])'
  BY StakeFacts, PTL
<1> QED
  BY <1>1

\* A step that raises no stake, pays nothing out and takes nothing issued
\* back.
LEMMA BackedQuiet ==
    ASSUME Finite, IInv, IInv', Backed,
           \A t \in Tokens : Stake'[t] <= Stake[t],
           \A q \in MintQuotes : In[q] <= In'[q],
           \A q \in MeltQuotes : Out'[q] <= Out[q]
    PROVE  Backed'
<1>1. /\ Stake \in [Tokens -> Int] /\ Stake' \in [Tokens -> Int]
      /\ In \in [MintQuotes -> Int] /\ In' \in [MintQuotes -> Int]
      /\ Out \in [MeltQuotes -> Int] /\ Out' \in [MeltQuotes -> Int]
  BY StakeFacts, StakeFactsNext
<1>2. Amount(Stake') <= Amount(Stake)
  BY <1>1, AmountLeq DEF Finite
<1>3. Amount(In) <= Amount(In')
  BY <1>1, AmountLeq DEF Finite
<1>4. Amount(Out') <= Amount(Out)
  BY <1>1, AmountLeq DEF Finite
<1>5. /\ Amount(Stake) \in Int /\ Amount(Stake') \in Int
      /\ Amount(In) \in Int /\ Amount(In') \in Int
      /\ Amount(Out) \in Int /\ Amount(Out') \in Int
  BY <1>1, AmountType DEF Finite
<1>6. Amount(Stake') + Amount(Out') <= Amount(In')
  BY <1>2, <1>3, <1>4, <1>5 DEF Backed
<1> QED
  BY <1>6 DEF Backed, Amount

\* Signing outputs adds at most their amounts to what the tokens are worth.
LEMMA SignedWorth ==
    ASSUME Finite, IInv, IInv', NEW outs \in Bundle(Denoms),
           known' \subseteq known \cup Proofs(outs),
           disk'.issued = SignOutputs(disk.issued, outs), NEW t \in Tokens
    PROVE  Worth(t)' <= Worth(t) + Spread(outs, Tokens)[t]
<1> DEFINE d == Spread(outs, Tokens)[t]
<1>1. DOMAIN outs \subseteq Tokens /\ (\A u \in DOMAIN outs : outs[u] \in Denoms)
  BY BundleType
<1>2. d = IF t \in DOMAIN outs THEN outs[t] ELSE 0
  BY DEF Spread
<1>3. d \in Nat
  BY BundleAmount, DenomsAssumption
<1>4. disk'.issued[t] = IF t \in DOMAIN outs THEN outs[t] ELSE disk.issued[t]
  BY DEF SignOutputs
<1>5. Redeemable(t)' \subseteq Redeemable(t) \cup {d}
  BY <1>2, <1>4 DEF Redeemable, Proofs
<1>6. /\ Worth(t)' \in Redeemable(t)' /\ Worth(t) \in Nat
      /\ \A e \in Redeemable(t) : e \in Nat /\ e <= Worth(t)
  <2>1. \A e \in Redeemable(t) : e \in Nat
    BY DenomsAssumption DEF Redeemable
  <2> QED
    BY <2>1, StakeFacts, StakeFactsNext
<1> HIDE DEF d
<1>7. Worth(t)' = d \/ Worth(t)' \in Redeemable(t)
  BY <1>5, <1>6
<1>8. Worth(t)' <= Worth(t) + d
  BY <1>3, <1>6, <1>7
<1> QED
  BY <1>8 DEF d

LEMMA StakeServing ==
    ASSUME inflight = NoMelt, NEW t \in Tokens, Worth(t) \in Nat
    PROVE  /\ t \in disk.spent => Stake[t] = 0
           /\ t \notin disk.spent => Stake[t] = Worth(t)
<1>1. ~Undecided(t) /\ ~Owed(t)
  BY DEF Undecided, Owed
<1> QED
  BY <1>1 DEF Stake

LEMMA StakeServingNext ==
    ASSUME inflight' = NoMelt, NEW t \in Tokens, Worth(t)' \in Nat
    PROVE  /\ t \in disk'.spent => Stake'[t] = 0
           /\ t \notin disk'.spent => Stake'[t] = Worth(t)'
<1>1. ~Undecided(t)' /\ ~Owed(t)'
  BY DEF Undecided, Owed
<1> QED
  BY <1>1 DEF Stake

\* A mint of outs that the quotes are charged for.
LEMMA BackedMint ==
    ASSUME Finite, IInv, IInv', Backed, inflight = NoMelt, inflight' = NoMelt,
           NEW outs \in Bundle(Denoms), Replied(outs),
           disk'.issued = SignOutputs(disk.issued, outs),
           disk'.spent = disk.spent, disk'.meltq = disk.meltq, paidOut' = paidOut,
           Amount(In) + Amount(outs) <= Amount(In')
    PROVE  Backed'
<1> DEFINE b == Spread(outs, Tokens)
           z == [t \in Tokens |-> 0]
<1>1. /\ Stake \in [Tokens -> Int] /\ Stake' \in [Tokens -> Int]
      /\ In \in [MintQuotes -> Int] /\ In' \in [MintQuotes -> Int]
      /\ Out \in [MeltQuotes -> Int] /\ Out' = Out
      /\ \A t \in Tokens : Worth(t) \in Nat /\ Worth(t)' \in Nat
  BY StakeFacts, StakeFactsNext DEF Out
<1>2. b \in [Tokens -> Nat] /\ Amount(outs) = Amount(b) /\ Amount(outs) \in Nat
  BY BundleAmount, DenomsAssumption
<1>3. \A t \in Tokens : Worth(t)' <= Worth(t) + b[t]
  BY SignedWorth DEF Replied
<1> HIDE DEF b
<1>4. \A t \in Tokens : Stake'[t] + z[t] <= Stake[t] + b[t]
  BY <1>1, <1>2, <1>3, StakeServing, StakeServingNext
<1>5. Amount(Stake') + Amount(z) <= Amount(Stake) + Amount(b)
  BY <1>1, <1>2, <1>4, AmountBalance DEF Finite
<1>6. Amount(z) \in Nat
  BY AmountType DEF Finite
<1>7. /\ Amount(Stake) \in Int /\ Amount(Stake') \in Int
      /\ Amount(In) \in Int /\ Amount(In') \in Int /\ Amount(Out) \in Int
  BY <1>1, AmountType DEF Finite
<1> HIDE DEF z
<1>8. Amount(Stake') + Amount(Out') <= Amount(In')
  BY <1>1, <1>2, <1>5, <1>6, <1>7 DEF Backed
<1> QED
  BY <1>8 DEF Backed, Amount

\* A swap: the inputs' best proofs are worth at least the inputs.
LEMMA BackedSwap ==
    ASSUME Finite, IInv, IInv', Backed, InSync, SignableOutputs,
           NEW ins \in Bundle(Denoms), NEW outs \in Bundle(OutputAmounts),
           PostSwap(ins, outs)
    PROVE  Backed'
<1> DEFINE a == Spread(ins, Tokens)
           b == Spread(outs, Tokens)
<1>1. /\ Stake \in [Tokens -> Int] /\ Stake' \in [Tokens -> Int]
      /\ In \in [MintQuotes -> Int] /\ Out \in [MeltQuotes -> Int]
      /\ \A t \in Tokens : Worth(t) \in Nat /\ Worth(t)' \in Nat
  BY StakeFacts, StakeFactsNext
<1>2. /\ inflight = NoMelt /\ inflight' = NoMelt /\ mem = disk /\ paidOut' = paidOut
      /\ mem \in MintState /\ VerifyProofs(ins) /\ Replied(outs) /\ CanSign(outs)
      /\ Amount(ins) = Amount(outs) + InputFeeTotal(ins)
      /\ disk' = [mem EXCEPT !.spent = mem.spent \cup DOMAIN ins,
                             !.issued = SignOutputs(mem.issued, outs)]
  BY ServingFacts DEF PostSwap, SwapAllowed, Serving, InSync, Persist, ClaimProofs
<1>3. /\ disk'.spent = disk.spent \cup DOMAIN ins
      /\ disk'.issued = SignOutputs(disk.issued, outs)
      /\ disk'.mintq = disk.mintq /\ disk'.meltq = disk.meltq
  BY <1>2 DEF MintState
<1>4. outs \in Bundle(Denoms)
  BY <1>2 DEF Bundle, CanSign, Signable
<1>5. /\ a \in [Tokens -> Nat] /\ Amount(ins) = Amount(a) /\ Amount(ins) \in Nat
      /\ b \in [Tokens -> Nat] /\ Amount(outs) = Amount(b) /\ Amount(outs) \in Nat
  BY <1>4, BundleAmount, DenomsAssumption
<1>6. \A t \in Tokens : Worth(t)' <= Worth(t) + b[t]
  BY <1>2, <1>3, <1>4, SignedWorth DEF Replied
<1>7. \A t \in Tokens : t \in DOMAIN ins => a[t] <= Worth(t) /\ t \notin disk.spent
  <2> SUFFICES ASSUME NEW t \in Tokens, t \in DOMAIN ins
               PROVE  a[t] <= Worth(t) /\ t \notin disk.spent
    OBVIOUS
  <2>1. <<t, ins[t]>> \in known /\ t \notin disk.spent /\ a[t] = ins[t]
    BY <1>2 DEF VerifyProofs, Spread
  <2>2. ins[t] \in Redeemable(t)
    BY <2>1, BundleType DEF Redeemable
  <2> QED
    BY <2>1, <2>2, StakeFacts
<1>8. \A t \in Tokens : t \notin DOMAIN ins => a[t] = 0
  BY DEF Spread
<1> HIDE DEF a, b
<1>9. \A t \in Tokens : Stake'[t] + a[t] <= Stake[t] + b[t]
  <2> SUFFICES ASSUME NEW t \in Tokens
               PROVE  Stake'[t] + a[t] <= Stake[t] + b[t]
    OBVIOUS
  <2>1. a[t] \in Nat /\ b[t] \in Nat /\ Worth(t) \in Nat /\ Worth(t)' \in Nat
    BY <1>1, <1>5
  <2>2. CASE t \in DOMAIN ins
    BY <1>2, <1>3, <1>7, <2>1, <2>2, StakeServing, StakeServingNext
  <2>3. CASE t \notin DOMAIN ins
    BY <1>2, <1>3, <1>6, <1>8, <2>1, <2>3, StakeServing, StakeServingNext
  <2> QED
    BY <2>2, <2>3
<1>10. Amount(Stake') + Amount(a) <= Amount(Stake) + Amount(b)
  BY <1>1, <1>5, <1>9, AmountBalance DEF Finite
<1>11. /\ Amount(Stake) \in Int /\ Amount(Stake') \in Int
       /\ Amount(In) \in Int /\ Amount(Out) \in Int
  BY <1>1, AmountType DEF Finite
<1>12. In' = In /\ Out' = Out
  BY <1>2, <1>3 DEF In, Out
<1>13. InputFeeTotal(ins) \in Nat
  BY FeeType
<1>14. Amount(Stake') + Amount(Out') <= Amount(In')
  BY <1>2, <1>5, <1>10, <1>11, <1>12, <1>13 DEF Backed
<1> QED
  BY <1>14 DEF Backed, Amount

LEMMA AmountPoint ==
    ASSUME NEW S, IsFiniteSet(S), NEW y \in S, NEW n \in Int
    PROVE  Amount([x \in S |-> IF x = y THEN n ELSE 0]) = n
<1> DEFINE f == [x \in S |-> IF x = y THEN n ELSE 0]
<1>1. DOMAIN f = S /\ f[y] = n /\ (\A x \in S : f[x] \in Int)
      /\ (\A x \in S \ {y} : f[x] = 0)
  OBVIOUS
<1> HIDE DEF f
<1>2. Amount(f) = SumFunctionOnSet(f, S)
  BY <1>1 DEF Amount, SumFunction, SumFunctionOnSet, FoldFunction
<1>3. SumFunctionOnSet(f, S) = SumFunctionOnSet(f, S \ {y}) + f[y]
  BY <1>1, SumRemove
<1>4. SumFunctionOnSet(f, S \ {y}) = 0
  <2>1. IsFiniteSet(S \ {y})
    BY FS_RemoveElement
  <2> QED
    BY <1>1, <2>1, SumZero
<1> QED
  BY <1>1, <1>2, <1>3, <1>4 DEF f

\* What is charged to the quotes adds up.
LEMMA InGrows ==
    ASSUME Finite, IInv, IInv', NEW a \in [MintQuotes -> Int],
           \A q \in MintQuotes : In[q] + a[q] <= In'[q]
    PROVE  Amount(In) + Amount(a) <= Amount(In')
<1> DEFINE z == [q \in MintQuotes |-> 0]
<1>1. In \in [MintQuotes -> Int] /\ In' \in [MintQuotes -> Int]
  BY StakeFacts, StakeFactsNext
<1>2. z \in [MintQuotes -> Int] /\ \A q \in MintQuotes : In[q] + a[q] <= In'[q] + z[q]
  BY <1>1
<1>3. Amount(z) = 0
  <2>1. DOMAIN z = MintQuotes /\ \A q \in MintQuotes : z[q] = 0
    OBVIOUS
  <2> HIDE DEF z
  <2>2. Amount(z) = SumFunctionOnSet(z, MintQuotes)
    BY <2>1 DEF Amount, SumFunction, SumFunctionOnSet, FoldFunction
  <2> QED
    BY <2>1, <2>2, SumZero DEF Finite
<1> HIDE DEF z
<1>4. Amount(In) + Amount(a) <= Amount(In') + Amount(z)
  BY <1>1, <1>2, AmountBalance DEF Finite
<1>5. Amount(In') \in Int
  BY <1>1, AmountType DEF Finite
<1> QED
  BY <1>3, <1>4, <1>5

\* A refresh changes no amount and issues nothing.
LEMMA RefreshWhole ==
    ASSUME IInv, Whole, up, NEW Q, NEW q \in MintQuotes
    PROVE  LET e == RefreshMintQuoteState(Q).mintq[q]
           IN  /\ e \in MintQuoteEntry /\ CountersAgree(e, q)
               /\ e.issued = disk.mintq[q].issued
               /\ e.state = "PAID" => e.issued = 0
<1> DEFINE e == disk.mintq[q]
<1>1. e \in MintQuoteEntry /\ CountersAgree(e, q) /\ mem.mintq[q] = e
  BY DEF IInv, TypeOK, MintState, Durable, CountersOK
<1>2. Advances(e, RefreshMintQuoteState(Q).mintq[q], q)
  BY RefreshAdvances
<1>3. CASE q \in Q /\ Settles(q)
  <2>1. RefreshMintQuoteState(Q).mintq[q] = SettledEntry(e)
    BY <1>1, <1>3, RefreshFields DEF IInv
  <2>2. e.state = "UNPAID"
    BY <1>1, <1>3 DEF Settles
  <2>3. e.issued = 0
    BY <1>1, <2>2 DEF CountersAgree, MintQuoteEntry
  <2>4. SettledEntry(e).issued = e.issued
    BY <1>1 DEF SettledEntry, MintQuoteEntry
  <2> QED
    BY <1>2, <2>1, <2>3, <2>4 DEF Advances
<1>4. CASE ~(q \in Q /\ Settles(q))
  <2>1. RefreshMintQuoteState(Q).mintq[q] = e
    BY <1>1, <1>4, RefreshFields DEF IInv
  <2> QED
    BY <1>2, <2>1 DEF Advances, Whole
<1> QED
  BY <1>3, <1>4

LEMMA SolventPostMint ==
    ASSUME Finite, WholeQuotes, IInv, IInv', InSync, SInv,
           NEW q \in MintQuotes, NEW outs \in Bundle(OutputAmounts), NEW signed,
           PostMint(q, outs, signed)
    PROVE  SInv'
<1> DEFINE now == RefreshMintQuoteState({q})
           old == now.mintq[q]
           n == Amount(outs)
           new == MintedEntry(old, n)
           sigs == SignOutputs(now.issued, outs)
           a == [p \in MintQuotes |-> IF p = q THEN n ELSE 0]
<1>1. /\ Serving /\ CanSign(outs) /\ Replied(outs) /\ inflight = NoMelt /\ up
      /\ inflight' = NoMelt /\ paidOut' = paidOut /\ mem = disk
      /\ old.state = "PAID" /\ n \in 0 .. (old.paid - old.issued)
      /\ n = old.paid - old.issued
      /\ disk' = [now EXCEPT !.mintq[q] = new, !.issued = sigs]
  BY DEF PostMint, Persist, MintAllowed, Serving, InSync
<1>2. /\ now \in MintState /\ now.meltq = mem.meltq
      /\ now.spent = mem.spent /\ now.issued = mem.issued
  BY RefreshFields DEF IInv
<1>3. outs \in Bundle(Denoms)
  BY <1>1 DEF Bundle, CanSign, Signable
<1>4. \A p \in MintQuotes :
         /\ now.mintq[p] \in MintQuoteEntry
         /\ now.mintq[p].issued = disk.mintq[p].issued
         /\ now.mintq[p].state = "PAID" => now.mintq[p].issued = 0
  BY <1>1, RefreshWhole DEF SInv
<1>5. new.issued = old.issued + n /\ new.state = "ISSUED"
  <2>1. old \in MintQuoteEntry
    BY <1>4
  <2>2. old.issued + n = old.paid
    <3> HIDE DEF old, n
    <3> QED BY <1>1, <2>1 DEF MintQuoteEntry
  <2> HIDE DEF old, n
  <2> QED
    BY <2>1, <2>2 DEF new, MintedEntry, MintQuoteEntry
<1>6. n \in Nat
  BY <1>3, BundleAmount, DenomsAssumption
<1> HIDE DEF now, new, sigs, n
<1>7. /\ disk'.issued = sigs /\ disk'.spent = now.spent /\ disk'.meltq = now.meltq
      /\ \A p \in MintQuotes : disk'.mintq[p] = IF p = q THEN new ELSE now.mintq[p]
  BY <1>1, <1>2 DEF MintState
<1>8. a \in [MintQuotes -> Int] /\ \A p \in MintQuotes : In[p] + a[p] <= In'[p]
  <2>1. \A p \in MintQuotes : In[p] = disk.mintq[p].issued /\ In[p] \in Nat
    BY StakeFacts DEF In
  <2>2. \A p \in MintQuotes : In'[p] = disk'.mintq[p].issued
    BY DEF In
  <2> QED
    BY <1>4, <1>5, <1>6, <1>7, <2>1, <2>2
<1>9. Amount(a) = n
  BY <1>6, AmountPoint DEF Finite
<1> HIDE DEF a
<1>10. Amount(In) + Amount(outs) <= Amount(In')
  BY <1>8, <1>9, InGrows DEF n
<1>11. Backed'
  BY <1>1, <1>2, <1>3, <1>7, <1>10, BackedMint DEF SInv, sigs
<1>12. Whole'
  BY <1>4, <1>5, <1>7 DEF Whole
<1> QED
  BY <1>1, <1>11, <1>12 DEF SInv, Covered

LEMMA SolventBatchMint ==
    ASSUME Finite, IInv, IInv', InSync, SInv,
           NEW Q \in SUBSET MintQuotes, NEW outs \in Bundle(OutputAmounts), NEW signed,
           BatchMint(Q, outs, signed)
    PROVE  SInv'
<1> DEFINE now == RefreshMintQuoteState(Q)
           new == [q \in MintQuotes |->
                     IF q \in Q THEN IssuedEntry(now.mintq[q]) ELSE now.mintq[q]]
           sigs == SignOutputs(now.issued, outs)
           priced == [q \in Q |-> now.mintq[q].amount]
           a == Spread(priced, MintQuotes)
<1>1. /\ Serving /\ CanSign(outs) /\ Replied(outs) /\ inflight = NoMelt /\ up
      /\ inflight' = NoMelt /\ paidOut' = paidOut /\ mem = disk
      /\ \A q \in Q : now.mintq[q].state = "PAID"
      /\ Amount(outs) = Amount(priced)
      /\ disk' = [now EXCEPT !.mintq = new, !.issued = sigs]
  BY DEF BatchMint, Persist, BatchAllowed, Serving, InSync
<1>2. /\ now \in MintState /\ now.meltq = mem.meltq
      /\ now.spent = mem.spent /\ now.issued = mem.issued
  BY RefreshFields DEF IInv
<1>3. outs \in Bundle(Denoms)
  BY <1>1 DEF Bundle, CanSign, Signable
<1>4. \A p \in MintQuotes :
         /\ now.mintq[p] \in MintQuoteEntry
         /\ now.mintq[p].issued = disk.mintq[p].issued
         /\ now.mintq[p].state = "PAID" => now.mintq[p].issued = 0
  BY <1>1, RefreshWhole DEF SInv
<1>5. \A p \in MintQuotes :
         /\ IssuedEntry(now.mintq[p]).issued = now.mintq[p].amount
         /\ IssuedEntry(now.mintq[p]).state = "ISSUED"
  BY <1>4 DEF IssuedEntry, MintQuoteEntry
<1>6. /\ disk'.issued = sigs /\ disk'.spent = now.spent /\ disk'.meltq = now.meltq
      /\ disk'.mintq = new
  <2> HIDE DEF now, new, sigs
  <2> QED
    BY <1>1, <1>2 DEF MintState
<1>7. /\ \A q \in Q : priced[q] = now.mintq[q].amount /\ priced[q] \in Nat
      /\ DOMAIN priced = Q
  BY <1>4 DEF MintQuoteEntry
<1> HIDE DEF now, sigs, priced
<1>8. a \in [MintQuotes -> Nat] /\ Amount(priced) = Amount(a)
  BY <1>7, AmountSpread DEF Finite
<1>9. \A p \in MintQuotes : In[p] + a[p] <= In'[p]
  <2>1. \A p \in MintQuotes : In[p] = disk.mintq[p].issued /\ In[p] \in Nat
    BY StakeFacts DEF In
  <2>2. \A p \in MintQuotes : In'[p] = disk'.mintq[p].issued
    BY DEF In
  <2>3. \A p \in MintQuotes : a[p] = IF p \in Q THEN now.mintq[p].amount ELSE 0
    BY <1>7 DEF Spread
  <2>4. \A p \in MintQuotes :
          disk'.mintq[p] = IF p \in Q THEN IssuedEntry(now.mintq[p]) ELSE now.mintq[p]
    BY <1>6
  <2> SUFFICES ASSUME NEW p \in MintQuotes PROVE In[p] + a[p] <= In'[p]
    OBVIOUS
  <2>5. CASE p \in Q
    <3>1. In[p] = 0 /\ In'[p] = a[p] /\ a[p] \in Nat
      BY <1>1, <1>4, <1>5, <1>8, <2>1, <2>2, <2>3, <2>4, <2>5
    <3> QED BY <3>1
  <2>6. CASE p \notin Q
    <3>1. In'[p] = In[p] /\ a[p] = 0 /\ In[p] \in Nat
      BY <1>4, <2>1, <2>2, <2>3, <2>4, <2>6
    <3> QED BY <3>1
  <2> QED BY <2>5, <2>6
<1>10. Whole'
  BY <1>4, <1>5, <1>6 DEF Whole
<1> HIDE DEF new, a
<1>11. Amount(In) + Amount(outs) <= Amount(In')
  BY <1>1, <1>8, <1>9, InGrows
<1>12. Backed'
  BY <1>1, <1>2, <1>3, <1>6, <1>11, BackedMint DEF SInv, sigs
<1> QED
  BY <1>1, <1>10, <1>12 DEF SInv, Covered

\* NUT-08: whatever order the change outputs come in, the change is no more
\* than the overpay.
LEMMA ChangeBound ==
    ASSUME Finite, NEW outs \in Bundle(ChangeAmounts), NEW overpay \in Nat,
           NEW c \in Change(outs, overpay)
    PROVE  c \in Bundle(Denoms) /\ Amount(c) <= overpay
<1> DEFINE blank == {t \in DOMAIN outs : outs[t] = 0}
           kept == DOMAIN c \ blank
           filled == DOMAIN c \cap blank
           priced == Restrict(outs, kept)
           given == Restrict(c, filled)
           left == overpay - Amount(priced)
<1>1. /\ c \in Bundle(Denoms) /\ DOMAIN c \subseteq DOMAIN outs /\ left >= 0
      /\ \A t \in kept : c[t] = outs[t]
      /\ blank # {} => Amount(given) = left
  BY DEF Change, ImprintsBlanks
<1>2. DOMAIN c \subseteq Tokens /\ (\A t \in DOMAIN c : c[t] \in Int)
  <2>1. DOMAIN c \subseteq Tokens /\ (\A t \in DOMAIN c : c[t] \in Denoms)
    BY <1>1, BundleType
  <2>2. \A d \in Denoms : d \in Int
    BY DenomsAssumption
  <2> QED BY <2>1, <2>2
<1>3. /\ DOMAIN priced = kept /\ \A t \in kept : priced[t] = c[t]
      /\ DOMAIN given = filled /\ \A t \in filled : given[t] = c[t]
  BY <1>1 DEF Restrict
<1>4. /\ kept \in SUBSET DOMAIN c /\ filled = DOMAIN c \ kept
      /\ blank = {} => filled = {}
  OBVIOUS
<1> HIDE DEF blank, kept, filled, priced, given
<1>5. IsFiniteSet(DOMAIN c) /\ IsFiniteSet(kept) /\ IsFiniteSet(filled)
  <2>1. IsFiniteSet(DOMAIN c)
    BY <1>2, FS_Subset DEF Finite
  <2> QED
    BY <1>4, <2>1, FS_Subset, FS_Difference
<1> DEFINE k == SumFunctionOnSet(c, kept)
           f == SumFunctionOnSet(c, filled)
<1>6. Amount(c) = k + f
  BY <1>2, <1>4, <1>5, SumSplit DEF Amount, SumFunction
<1>7. Amount(priced) = k
  <2>1. Amount(priced) = SumFunctionOnSet(priced, kept)
    BY <1>3 DEF Amount, SumFunction, SumFunctionOnSet, FoldFunction
  <2> QED
    BY <1>3, <1>5, <2>1, SumSame
<1>8. Amount(given) = f
  <2>1. Amount(given) = SumFunctionOnSet(given, filled)
    BY <1>3 DEF Amount, SumFunction, SumFunctionOnSet, FoldFunction
  <2> QED
    BY <1>3, <1>5, <2>1, SumSame
<1>9. k \in Int /\ f \in Int
  <2>1. (\A t \in kept : c[t] \in Int) /\ (\A t \in filled : c[t] \in Int)
    BY <1>2, <1>4
  <2>2. k \in Int
    BY <1>5, <2>1, SumType
  <2>3. f \in Int
    BY <1>5, <2>1, SumType
  <2> QED BY <2>2, <2>3
<1>10. blank = {} => f = 0
  BY <1>4, <1>5, SumStep
<1> HIDE DEF k, f
<1>11. k + f <= overpay
  BY <1>1, <1>7, <1>8, <1>9, <1>10
<1> QED
  BY <1>1, <1>6, <1>11

\* A step of a serving mint that signs nothing, spends nothing and charges
\* no quote.
LEMMA SolventRequest ==
    ASSUME Finite, IInv, IInv', SInv, inflight = NoMelt, inflight' = NoMelt,
           disk'.spent = disk.spent, paidOut' = paidOut,
           \A t \in Tokens : Redeemable(t)' = Redeemable(t),
           \A q \in MintQuotes : /\ disk'.mintq[q].issued = disk.mintq[q].issued
                                 /\ disk'.mintq[q].state = "PAID" =>
                                       disk'.mintq[q].issued = 0,
           \A q \in paidOut : disk'.meltq[q].amount = disk.meltq[q].amount
    PROVE  SInv'
<1>1. \A t \in Tokens : Worth(t)' = Worth(t) /\ Worth(t) \in Nat
  BY StakeFacts DEF Worth
<1>2. \A t \in Tokens : Stake'[t] <= Stake[t]
  BY <1>1, StakeServing, StakeServingNext
<1>3. \A q \in MintQuotes : In[q] <= In'[q]
  BY StakeFacts DEF In
<1>4. \A q \in MeltQuotes : Out'[q] <= Out[q]
  BY StakeFacts DEF Out
<1>5. Backed'
  BY <1>2, <1>3, <1>4, BackedQuiet DEF SInv
<1> QED
  BY <1>5 DEF SInv, Covered, Whole

LEMMA SolventQuotes ==
    ASSUME Finite, IInv, IInv', InSync, SInv,
           \/ \E q \in MintQuotes, a \in QuoteAmounts : PostMintQuote(q, a)
           \/ \E Q \in SUBSET MintQuotes : GetMintQuotes(Q)
           \/ \E t \in Tokens : PostRestore(t)
           \/ \E q \in MeltQuotes, a \in QuoteAmounts : PostMeltQuote(q, a)
    PROVE  SInv'
<1>1. ASSUME NEW q \in MintQuotes, NEW a \in QuoteAmounts, PostMintQuote(q, a)
      PROVE  SInv'
  <2> DEFINE new == [state |-> "UNPAID", amount |-> a, paid |-> 0, issued |-> 0]
  <2>1. /\ inflight = NoMelt /\ inflight' = NoMelt /\ mem = disk /\ mem \in MintState
        /\ paidOut' = paidOut /\ known' = known /\ disk.mintq[q].state = "NONE"
        /\ disk' = [mem EXCEPT !.mintq[q] = new]
    BY <1>1 DEF PostMintQuote, Persist, Serving, InSync, IInv, TypeOK
  <2>2. new.issued = 0 /\ new.state = "UNPAID"
    OBVIOUS
  <2> HIDE DEF new
  <2>3. /\ disk'.spent = disk.spent /\ disk'.issued = disk.issued
        /\ disk'.meltq = disk.meltq
        /\ \A p \in MintQuotes : disk'.mintq[p] = IF p = q THEN new ELSE disk.mintq[p]
    BY <2>1 DEF MintState
  <2>4. disk.mintq[q].issued = 0
    <3>1. disk.mintq[q] \in MintQuoteEntry /\ CountersAgree(disk.mintq[q], q)
      BY <2>1 DEF IInv, CountersOK, MintState
    <3> QED
      BY <2>1, <3>1 DEF CountersAgree, MintQuoteEntry
  <2>5. \A t \in Tokens : Redeemable(t)' = Redeemable(t)
    BY <2>1, <2>3 DEF Redeemable
  <2>6. \A p \in MintQuotes : /\ disk'.mintq[p].issued = disk.mintq[p].issued
                              /\ disk'.mintq[p].state = "PAID" =>
                                    disk'.mintq[p].issued = 0
    BY <2>2, <2>3, <2>4 DEF SInv, Whole
  <2> QED
    BY <2>1, <2>3, <2>5, <2>6, SolventRequest
<1>2. ASSUME NEW Q \in SUBSET MintQuotes, GetMintQuotes(Q)
      PROVE  SInv'
  <2> DEFINE now == RefreshMintQuoteState(Q)
  <2>1. /\ inflight = NoMelt /\ inflight' = NoMelt /\ mem = disk /\ up
        /\ paidOut' = paidOut /\ known' = known /\ PersistRefresh(Q)
    BY <1>2 DEF GetMintQuotes, Serving, InSync
  <2>2. disk' = now
    BY <2>1, PersistRefreshSync
  <2>3. now.spent = mem.spent /\ now.issued = mem.issued /\ now.meltq = mem.meltq
    BY RefreshFields DEF IInv
  <2>4. \A p \in MintQuotes : /\ now.mintq[p].issued = disk.mintq[p].issued
                              /\ now.mintq[p].state = "PAID" => now.mintq[p].issued = 0
    BY <2>1, RefreshWhole DEF SInv
  <2> HIDE DEF now
  <2>5. \A t \in Tokens : Redeemable(t)' = Redeemable(t)
    BY <2>1, <2>2, <2>3 DEF Redeemable
  <2> QED
    BY <2>1, <2>2, <2>3, <2>4, <2>5, SolventRequest
<1>3. ASSUME NEW t \in Tokens, PostRestore(t)
      PROVE  SInv'
  <2>1. /\ inflight = NoMelt /\ inflight' = NoMelt /\ mem = disk /\ disk' = disk
        /\ paidOut' = paidOut /\ known' = known \cup {<<t, disk.issued[t]>>}
    BY <1>3 DEF PostRestore, Serving, InSync
  <2>2. \A u \in Tokens : Redeemable(u)' = Redeemable(u)
    BY <2>1 DEF Redeemable
  <2> QED
    BY <2>1, <2>2, SolventRequest DEF SInv, Whole
<1>4. ASSUME NEW q \in MeltQuotes, NEW a \in QuoteAmounts, PostMeltQuote(q, a)
      PROVE  SInv'
  <2>1. /\ inflight = NoMelt /\ inflight' = NoMelt /\ mem = disk /\ mem \in MintState
        /\ paidOut' = paidOut /\ known' = known /\ disk.meltq[q].state = "NONE"
        /\ disk' = [mem EXCEPT !.meltq[q] = [state |-> "UNPAID", amount |-> a]]
    BY <1>4 DEF PostMeltQuote, Persist, Serving, InSync, IInv, TypeOK
  <2>2. /\ disk'.spent = disk.spent /\ disk'.issued = disk.issued
        /\ disk'.mintq = disk.mintq
        /\ \A p \in MeltQuotes : p # q => disk'.meltq[p] = disk.meltq[p]
    BY <2>1 DEF MintState
  <2>3. paidOut \subseteq MeltQuotes \ {q}
    BY <2>1 DEF IInv, PaidOK, TypeOK
  <2>4. \A t \in Tokens : Redeemable(t)' = Redeemable(t)
    BY <2>1, <2>2 DEF Redeemable
  <2> QED
    BY <2>1, <2>2, <2>3, <2>4, SolventRequest DEF SInv, Whole
<1> QED
  BY <1>1, <1>2, <1>3, <1>4

\* The claim of a melt keeps the inputs' stakes until the payment is decided.
LEMMA SolventPostMelt ==
    ASSUME Finite, IInv, IInv', InSync, SInv,
           NEW q \in MeltQuotes, NEW ins \in Bundle(Denoms),
           NEW outs \in Bundle(ChangeAmounts), PostMelt(q, ins, outs)
    PROVE  SInv'
<1> DEFINE required == mem.meltq[q].amount + InputFeeTotal(ins)
           a == Spread(ins, Tokens)
<1>1. /\ inflight = NoMelt /\ mem = disk /\ mem \in MintState
      /\ VerifyProofs(ins) /\ Amount(ins) >= required
      /\ paidOut' = paidOut /\ known' = known
      /\ disk' = [mem EXCEPT !.spent = mem.spent \cup DOMAIN ins,
                             !.meltq[q].state = "PENDING"]
  BY ServingFacts DEF PostMelt, Serving, InSync, Persist, ClaimProofs
<1>2. PICK c \in Change(outs, Amount(ins) - required) :
         inflight' = [phase |-> "claimed", quote |-> q,
                      inputs |-> DOMAIN ins, change |-> c]
  BY DEF PostMelt
<1>3. /\ disk'.spent = disk.spent \cup DOMAIN ins /\ disk'.issued = disk.issued
      /\ disk'.mintq = disk.mintq
      /\ \A p \in MeltQuotes : disk'.meltq[p].amount = disk.meltq[p].amount
  BY <1>1 DEF MintState, MeltQuoteEntry
<1>4. /\ a \in [Tokens -> Nat] /\ Amount(ins) = Amount(a) /\ Amount(ins) \in Nat
  BY BundleAmount, DenomsAssumption
<1>5. \A t \in Tokens : Redeemable(t)' = Redeemable(t)
  BY <1>1, <1>3 DEF Redeemable
<1>6. \A t \in Tokens : /\ Worth(t)' = Worth(t) /\ Worth(t) \in Nat
                        /\ \A e \in Redeemable(t) : e <= Worth(t)
  BY <1>5, StakeFacts DEF Worth
<1>7. \A t \in DOMAIN ins : t \notin disk.spent /\ ins[t] \in Redeemable(t)
  BY <1>1, BundleType DEF VerifyProofs, Redeemable
<1>8. \A t \in Tokens : (Undecided(t)' <=> t \in DOMAIN ins) /\ ~Owed(t)'
  BY <1>2 DEF Undecided, Owed, NoMelt
<1>9. \A t \in Tokens : Stake'[t] <= Stake[t]
  <2> SUFFICES ASSUME NEW t \in Tokens PROVE Stake'[t] <= Stake[t]
    OBVIOUS
  <2>1. Stake'[t] = IF t \in disk'.spent /\ t \notin DOMAIN ins THEN 0 ELSE Worth(t)
    BY <1>6, <1>8 DEF Stake
  <2> QED
    BY <1>1, <1>3, <1>6, <1>7, <2>1, StakeServing
<1>10. In' = In /\ Out' = Out
  BY <1>1, <1>3 DEF In, Out
<1>11. Backed'
  BY <1>9, <1>10, StakeFacts, BackedQuiet DEF SInv
<1>12. Whole'
  BY <1>3 DEF SInv, Whole
<1>13. Covered'
  <2>1. Amount(a) <= Amount(Claimed')
    <3>1. Claimed' \in [Tokens -> Int] /\ a \in [Tokens -> Int]
      BY <1>4, StakeFactsNext
    <3>2. \A t \in Tokens : a[t] <= Claimed'[t]
      <4> SUFFICES ASSUME NEW t \in Tokens PROVE a[t] <= Claimed'[t]
        OBVIOUS
      <4>1. Claimed'[t] = IF t \in DOMAIN ins THEN Worth(t) ELSE 0
        BY <1>6, <1>8 DEF Claimed
      <4>2. a[t] = IF t \in DOMAIN ins THEN ins[t] ELSE 0
        BY DEF Spread
      <4> QED
        BY <1>6, <1>7, <4>1, <4>2
    <3> HIDE DEF a
    <3> QED
      BY <3>1, <3>2, AmountLeq DEF Finite
  <2>2. mem.meltq[q].amount \in Nat /\ InputFeeTotal(ins) \in Nat
    BY <1>1, FeeType DEF MintState, MeltQuoteEntry
  <2>3. Amount(ins) - required \in Nat
    BY <1>1, <1>4, <2>2
  <2>4. c \in Bundle(Denoms) /\ Amount(c) <= Amount(ins) - required
    BY <2>3, ChangeBound
  <2>5. Amount(c) \in Nat
    BY <2>4, BundleAmount, DenomsAssumption
  <2>6. Amount(Claimed') \in Nat
    BY StakeFactsNext, AmountType DEF Finite
  <2>7. disk.meltq[q].amount + Amount(c) <= Amount(Claimed')
    BY <1>1, <1>4, <2>1, <2>2, <2>4, <2>5, <2>6
  <2> QED
    BY <1>2, <1>3, <2>7 DEF Covered, Amount
<1> QED
  BY <1>11, <1>12, <1>13 DEF SInv

\* The payment: the claim turns into the payment and the change.
LEMMA SolventPayInvoice ==
    ASSUME Finite, DefiniteBackend, IInv, IInv', SInv,
           NEW outcome \in PayOutcomes, PayInvoice(outcome)
    PROVE  SInv'
<1> DEFINE q == inflight.quote
           ch == inflight.change
           pay == disk.meltq[q].amount
<1>1. /\ inflight.phase = "claimed" /\ disk' = disk /\ known' = known
      /\ inflight \in Inflight /\ inflight # NoMelt
      /\ inflight.inputs \subseteq disk.spent
      /\ disk \in MintState /\ paidOut \subseteq MeltQuotes
  BY InflightFacts DEF PayInvoice, IInv, TypeOK
<1>2. outcome.ok = outcome.paid /\ outcome.ok \in BOOLEAN
  BY PayAssumption DEF DefiniteBackend
<1>3. /\ inflight'.inputs = inflight.inputs /\ inflight'.change = ch
      /\ inflight'.phase = IF outcome.ok THEN "ok" ELSE "err"
      /\ inflight' # NoMelt
  BY <1>1 DEF PayInvoice, Inflight, NoMelt
<1>4. q \in MeltQuotes /\ ch \in Bundle(Denoms)
  BY <1>1 DEF Inflight
<1>5. \A t \in Tokens : Worth(t)' = Worth(t) /\ Worth(t) \in Nat
  BY <1>1, StakeFacts DEF Worth, Redeemable
<1>6. In' = In /\ (Whole' <=> Whole)
  BY <1>1 DEF In, Whole
<1>7. Covered'
  BY <1>2, <1>3 DEF Covered
<1>8. \A t \in Tokens : (Undecided(t) <=> t \in inflight.inputs) /\ ~Owed(t)
  BY <1>1 DEF Undecided, Owed
<1>9. CASE ~outcome.ok
  <2>1. paidOut' = paidOut
    BY <1>2, <1>9 DEF PayInvoice
  <2>2. Out' = Out
    BY <1>1, <2>1 DEF Out
  <2>3. \A t \in Tokens : (Undecided(t)' <=> t \in inflight.inputs) /\ ~Owed(t)'
    BY <1>3, <1>9 DEF Undecided, Owed
  <2>4. \A t \in Tokens : Stake'[t] = Stake[t]
    BY <1>1, <1>5, <1>8, <2>3 DEF Stake
  <2>5. Backed'
    BY <1>6, <2>2, <2>4, StakeFacts, BackedQuiet DEF SInv
  <2> QED
    BY <1>6, <1>7, <2>5 DEF SInv
<1>10. CASE outcome.ok
  <2> DEFINE b == Spread(ch, Tokens)
             z == [p \in MeltQuotes |-> 0]
             one == [p \in MeltQuotes |-> IF p = q THEN pay ELSE 0]
  <2>1. paidOut' = paidOut \cup {q} /\ q \notin paidOut
    BY <1>1, <1>2, <1>10 DEF PayInvoice, IInv, ClaimOK
  <2>2. pay \in Nat
    BY <1>1, <1>4 DEF MintState, MeltQuoteEntry
  <2>3. \A t \in Tokens : ~Undecided(t)' /\ (Owed(t)' <=> t \in DOMAIN ch)
    BY <1>3, <1>10 DEF Undecided, Owed
  <2>4. b \in [Tokens -> Nat] /\ Amount(ch) = Amount(b) /\ Amount(ch) \in Nat
    BY <1>4, BundleAmount, DenomsAssumption
  <2>5. /\ Stake \in [Tokens -> Int] /\ Stake' \in [Tokens -> Int]
        /\ Claimed \in [Tokens -> Int] /\ In \in [MintQuotes -> Int]
        /\ Out \in [MeltQuotes -> Int] /\ Out' \in [MeltQuotes -> Int]
    BY StakeFacts, StakeFactsNext
  <2>6. \A t \in Tokens : Stake'[t] + Claimed[t] <= Stake[t] + b[t]
    <3> SUFFICES ASSUME NEW t \in Tokens
                 PROVE  Stake'[t] + Claimed[t] <= Stake[t] + b[t]
      OBVIOUS
    <3>1. b[t] = (IF t \in DOMAIN ch THEN ch[t] ELSE 0) /\ b[t] \in Nat
      BY <2>4 DEF Spread
    <3>2. Claimed[t] = IF t \in inflight.inputs THEN Worth(t) ELSE 0
      BY <1>8 DEF Claimed
    <3>3. Stake[t] = IF t \in disk.spent /\ t \notin inflight.inputs THEN 0 ELSE Worth(t)
      BY <1>5, <1>8 DEF Stake
    <3>4. Stake'[t] = (IF t \in disk.spent THEN 0 ELSE Worth(t)) + b[t]
      <4>1. Stake'[t] = (IF t \in disk'.spent /\ ~Undecided(t)' THEN 0 ELSE Worth(t)')
                         + (IF Owed(t)' THEN inflight'.change[t] ELSE 0)
        BY DEF Stake
      <4> HIDE DEF b, ch
      <4> QED
        BY <1>1, <1>3, <1>5, <2>3, <3>1, <4>1
    <3> HIDE DEF b, ch
    <3> QED
      BY <1>1, <1>5, <3>1, <3>2, <3>3, <3>4
  <2> HIDE DEF b, ch, pay
  <2>7. Amount(Stake') + Amount(Claimed) <= Amount(Stake) + Amount(b)
    BY <2>4, <2>5, <2>6, AmountBalance DEF Finite
  <2>8. Amount(Out') <= Amount(Out) + pay
    <3>1. one \in [MeltQuotes -> Int] /\ z \in [MeltQuotes -> Int]
      BY <2>2
    <3>2. \A p \in MeltQuotes : Out'[p] + z[p] <= Out[p] + one[p]
      <4> SUFFICES ASSUME NEW p \in MeltQuotes
                   PROVE  Out'[p] + z[p] <= Out[p] + one[p]
        OBVIOUS
      <4>1. /\ Out'[p] = IF p \in paidOut \cup {q} THEN disk.meltq[p].amount ELSE 0
            /\ Out[p] = IF p \in paidOut THEN disk.meltq[p].amount ELSE 0
        BY <1>1, <2>1 DEF Out
      <4>2. z[p] = 0 /\ one[p] = (IF p = q THEN pay ELSE 0) /\ Out[p] \in Int
        BY <2>5
      <4>3. pay = disk.meltq[q].amount
        BY DEF pay
      <4> HIDE DEF q, z, one
      <4> QED
        BY <2>1, <2>2, <4>1, <4>2, <4>3
    <3>3. Amount(one) = pay /\ Amount(z) \in Nat
      <4>1. Amount(one) = pay
        <5> HIDE DEF q
        <5> QED BY <1>4, <2>2, AmountPoint DEF Finite
      <4>2. z \in [MeltQuotes -> Nat]
        OBVIOUS
      <4> QED
        BY <4>1, <4>2, AmountType DEF Finite
    <3> HIDE DEF one, z
    <3>4. Amount(Out') + Amount(z) <= Amount(Out) + Amount(one)
      BY <2>5, <3>1, <3>2, AmountBalance DEF Finite
    <3>5. Amount(Out) \in Int /\ Amount(Out') \in Int
      BY <2>5, AmountType DEF Finite
    <3> QED
      BY <2>2, <3>3, <3>4, <3>5
  <2>9. pay + Amount(ch) <= Amount(Claimed)
    BY <1>1 DEF SInv, Covered, pay, ch
  <2>10. /\ Amount(Stake) \in Int /\ Amount(Stake') \in Int /\ Amount(Claimed) \in Int
         /\ Amount(In) \in Int /\ Amount(Out) \in Int /\ Amount(Out') \in Int
    BY <2>5, AmountType DEF Finite
  <2>11. Amount(Stake') + Amount(Out') <= Amount(In')
    BY <1>6, <2>2, <2>4, <2>7, <2>8, <2>9, <2>10 DEF SInv, Backed
  <2>12. Backed'
    BY <2>11 DEF Backed, Amount
  <2> QED
    BY <1>6, <1>7, <2>12 DEF SInv
<1> QED
  BY <1>2, <1>9, <1>10
LEMMA SolventPostSwap ==
    ASSUME Finite, SignableOutputs, IInv, IInv', InSync, SInv,
           NEW ins \in Bundle(Denoms), NEW outs \in Bundle(OutputAmounts),
           PostSwap(ins, outs)
    PROVE  SInv'
<1>1. Backed'
  BY BackedSwap DEF SInv
<1>2. inflight' = NoMelt /\ mem = disk /\ mem \in MintState
      /\ disk' = [mem EXCEPT !.spent = ClaimProofs(ins),
                             !.issued = SignOutputs(mem.issued, outs)]
  BY ServingFacts DEF PostSwap, Serving, InSync, Persist
<1>3. disk'.mintq = disk.mintq
  BY <1>2 DEF MintState
<1> QED
  BY <1>1, <1>2, <1>3 DEF SInv, Covered, Whole

\* The change is signed: it was owed since the payment.
LEMMA SolventMeltPaid ==
    ASSUME Finite, IInv, IInv', InSync, SInv, MeltPaid
    PROVE  SInv'
<1> DEFINE ch == inflight.change
           b == Spread(ch, Tokens)
<1>1. /\ inflight.phase = "ok" /\ Replied(ch) /\ inflight' = NoMelt
      /\ inflight \in Inflight /\ inflight # NoMelt /\ mem = disk /\ mem \in MintState
      /\ inflight.quote \in MeltQuotes /\ paidOut' = paidOut
      /\ disk' = [mem EXCEPT !.meltq[inflight.quote].state = "PAID",
                             !.issued = SignOutputs(mem.issued, ch)]
  BY InflightFacts DEF MeltPaid, Persist, InSync, Inflight
<1>2. ch \in Bundle(Denoms)
  BY <1>1 DEF Inflight
<1>3. /\ disk'.spent = disk.spent /\ disk'.mintq = disk.mintq
      /\ disk'.issued = SignOutputs(disk.issued, ch)
      /\ \A p \in MeltQuotes : disk'.meltq[p].amount = disk.meltq[p].amount
  <2> HIDE DEF ch
  <2> QED
    BY <1>1 DEF MintState, MeltQuoteEntry
<1>4. b \in [Tokens -> Nat]
  BY <1>2, BundleAmount, DenomsAssumption
<1>5. \A t \in Tokens : Worth(t)' <= Worth(t) + b[t]
  BY <1>1, <1>2, <1>3, SignedWorth DEF Replied
<1>6. \A t \in Tokens : /\ Worth(t) \in Nat /\ Worth(t)' \in Nat
                        /\ ~Undecided(t) /\ (Owed(t) <=> t \in DOMAIN ch)
  BY <1>1, StakeFacts, StakeFactsNext DEF Undecided, Owed
<1>7. \A t \in Tokens : Stake'[t] <= Stake[t]
  <2> SUFFICES ASSUME NEW t \in Tokens PROVE Stake'[t] <= Stake[t]
    OBVIOUS
  <2>1. b[t] = (IF t \in DOMAIN ch THEN ch[t] ELSE 0) /\ b[t] \in Nat
    BY <1>4 DEF Spread
  <2>2. Stake[t] = (IF t \in disk.spent THEN 0 ELSE Worth(t)) + b[t]
    <3>1. Stake[t] = (IF t \in disk.spent /\ ~Undecided(t) THEN 0 ELSE Worth(t))
                       + (IF Owed(t) THEN inflight.change[t] ELSE 0)
      BY DEF Stake
    <3> HIDE DEF b
    <3> QED
      BY <1>6, <2>1, <3>1
  <2> HIDE DEF b, ch
  <2>3. Worth(t) \in Nat /\ Worth(t)' \in Nat /\ Worth(t)' <= Worth(t) + b[t]
    BY <1>5, <1>6
  <2> QED
    BY <1>1, <1>3, <2>1, <2>2, <2>3, StakeServingNext
<1>8. In' = In /\ Out' = Out
  BY <1>1, <1>3 DEF In, Out
<1>9. Backed'
  BY <1>7, <1>8, StakeFacts, BackedQuiet DEF SInv
<1> QED
  BY <1>1, <1>3, <1>9 DEF SInv, Covered, Whole

\* The release gives the inputs back the stakes they kept.
LEMMA SolventMeltFailed ==
    ASSUME Finite, IInv, IInv', InSync, SInv, MeltFailed
    PROVE  SInv'
<1>1. /\ inflight.phase = "err" /\ inflight' = NoMelt /\ inflight.quote \in MeltQuotes
      /\ inflight # NoMelt /\ mem = disk /\ mem \in MintState
      /\ paidOut' = paidOut /\ known' = known
      /\ disk' = [mem EXCEPT !.meltq[inflight.quote].state = "FAILED",
                             !.spent = mem.spent \ inflight.inputs]
  BY InflightFacts DEF MeltFailed, Persist, InSync, Inflight
<1>2. /\ disk'.spent = disk.spent \ inflight.inputs /\ disk'.mintq = disk.mintq
      /\ disk'.issued = disk.issued
      /\ \A p \in MeltQuotes : disk'.meltq[p].amount = disk.meltq[p].amount
  BY <1>1 DEF MintState, MeltQuoteEntry
<1>3. \A t \in Tokens : /\ Worth(t)' = Worth(t) /\ Worth(t) \in Nat
                        /\ (Undecided(t) <=> t \in inflight.inputs) /\ ~Owed(t)
  BY <1>1, <1>2, StakeFacts DEF Worth, Redeemable, Undecided, Owed
<1>4. \A t \in Tokens : Stake'[t] <= Stake[t]
  <2> SUFFICES ASSUME NEW t \in Tokens PROVE Stake'[t] <= Stake[t]
    OBVIOUS
  <2>1. Stake[t] = IF t \in disk.spent /\ t \notin inflight.inputs THEN 0 ELSE Worth(t)
    BY <1>3 DEF Stake
  <2> QED
    BY <1>1, <1>2, <1>3, <2>1, StakeServingNext
<1>5. In' = In /\ Out' = Out
  BY <1>1, <1>2 DEF In, Out
<1>6. Backed'
  BY <1>4, <1>5, StakeFacts, BackedQuiet DEF SInv
<1> QED
  BY <1>1, <1>2, <1>6 DEF SInv, Covered, Whole

\* A crash drops the call in flight and with it what the call is owed; the
\* inputs it claimed stay spent.
LEMMA SolventEnvironment ==
    ASSUME Finite, IInv, IInv', SInv, Environment
    PROVE  SInv'
<1>1. disk' = disk /\ known' = known /\ paidOut' = paidOut
      /\ (inflight' = inflight \/ inflight' = NoMelt)
  BY DEF Environment, Crash, Restart, PayerPays, Expire
<1>2. In' = In /\ Out' = Out /\ (Whole' <=> Whole)
  BY <1>1 DEF In, Out, Whole
<1>3. \A t \in Tokens : Worth(t)' = Worth(t) /\ Worth(t) \in Nat
  BY <1>1, StakeFacts DEF Worth, Redeemable
<1>4. CASE inflight' = inflight
  <2>1. Stake' = Stake /\ Claimed' = Claimed
    BY <1>1, <1>3, <1>4 DEF Stake, Claimed, Undecided, Owed
  <2>2. Backed' /\ Covered'
    BY <1>1, <1>2, <1>4, <2>1 DEF SInv, Backed, Covered, Amount
  <2> QED
    BY <1>2, <2>2 DEF SInv
<1>5. CASE inflight' = NoMelt
  <2>1. \A t \in Tokens : Stake'[t] <= Stake[t]
    <3> SUFFICES ASSUME NEW t \in Tokens PROVE Stake'[t] <= Stake[t]
      OBVIOUS
    <3>1. Stake[t] \in Nat /\ Worth(t) \in Nat
      BY StakeFacts
    <3>2. Owed(t) => inflight.change[t] \in Nat
      <4>1. inflight # NoMelt => inflight.change \in Bundle(Denoms)
        BY DEF IInv, TypeOK, Inflight
      <4> QED
        BY <4>1, BundleType, DenomsAssumption DEF Owed
    <3>3. t \notin disk.spent => Stake[t] >= Worth(t)
      BY <3>1, <3>2 DEF Stake
    <3> QED
      BY <1>1, <1>3, <1>5, <3>1, <3>3, StakeServingNext
  <2>2. Backed'
    BY <1>2, <2>1, StakeFacts, BackedQuiet DEF SInv
  <2> QED
    BY <1>2, <1>5, <2>2 DEF SInv, Covered
<1> QED
  BY <1>1, <1>4, <1>5
LEMMA SolventStep ==
    ASSUME Finite, SignableOutputs, WholeQuotes, DefiniteBackend,
           IInv, InSync, SInv, Next
    PROVE  SInv'
<1>1. IInv'
  BY IInvStep
<1>2. ASSUME NEW outs \in Bundle(OutputAmounts), NEW Q, NEW signed
      PROVE  /\ ~PostMintUnsignable(Q, outs, signed)
             /\ ~BatchMintUnsignable(Q, outs, signed)
             /\ ~PostSwapUnsignable(Q, outs)
  BY AllSigned DEF PostMintUnsignable, BatchMintUnsignable, PostSwapUnsignable
<1>3. CASE MintRequest
  BY <1>1, <1>2, <1>3, SolventQuotes, SolventPostMint, SolventBatchMint DEF MintRequest
<1>4. CASE SwapRequest
  BY <1>1, <1>2, <1>4, SolventQuotes, SolventPostSwap DEF SwapRequest
<1>5. CASE MeltRequest
  BY <1>1, <1>5, SolventQuotes, SolventPostMelt, SolventPayInvoice,
     SolventMeltPaid, SolventMeltFailed DEF MeltRequest
<1>6. CASE Environment
  BY <1>1, <1>6, SolventEnvironment
<1> QED
  BY <1>3, <1>4, <1>5, <1>6 DEF Next

LEMMA AmountZero ==
    ASSUME NEW S, IsFiniteSet(S), NEW f \in [S -> Int], \A x \in S : f[x] = 0
    PROVE  Amount(f) = 0
<1>1. Amount(f) = SumFunctionOnSet(f, S)
  BY DEF Amount, SumFunction, SumFunctionOnSet, FoldFunction
<1> QED
  BY <1>1, SumZero

LEMMA SolventInit ==
    ASSUME Finite, Init
    PROVE  SInv
<1>1. IInv
  BY IInvInit
<1>2. /\ disk = EmptyState /\ inflight = NoMelt /\ known = {} /\ paidOut = {}
  BY DEF Init
<1>3. /\ \A t \in Tokens : disk.issued[t] = 0
      /\ \A q \in MintQuotes : disk.mintq[q].issued = 0
  BY <1>2 DEF EmptyState
<1>4. \A t \in Tokens : Worth(t) = 0
  <2>1. \A t \in Tokens : Redeemable(t) = {0}
    BY <1>2, <1>3, DenomsAssumption DEF Redeemable
  <2> QED
    BY <1>1, <2>1, StakeFacts
<1>5. \A t \in Tokens : Stake[t] = 0
  BY <1>2, <1>4, StakeServing
<1>6. (\A q \in MintQuotes : In[q] = 0) /\ (\A q \in MeltQuotes : Out[q] = 0)
  BY <1>2, <1>3 DEF In, Out
<1>7. /\ Stake \in [Tokens -> Int] /\ In \in [MintQuotes -> Int]
      /\ Out \in [MeltQuotes -> Int]
  BY <1>1, StakeFacts
<1>8. Amount(Stake) = 0 /\ Amount(In) = 0 /\ Amount(Out) = 0
  BY <1>5, <1>6, <1>7, AmountZero DEF Finite
<1> QED
  BY <1>2, <1>3, <1>8 DEF SInv, Backed, Covered, Whole

\* What clients can claim is their stakes and the open quotes, and a quote is
\* paid only when its invoice was.
LEMMA BackedIsSolvent ==
    ASSUME Finite, IInv, Backed
    PROVE  Solvent
<1> DEFINE best == [t \in Tokens \ disk.spent |-> Worth(t)]
           open == [q \in MintQuotes |-> disk.mintq[q].paid - disk.mintq[q].issued]
           due == [q \in settled |-> disk.mintq[q].amount]
           out == [q \in paidOut |-> disk.meltq[q].amount]
           b == Spread(best, Tokens)
           d == Spread(due, MintQuotes)
           z == [q \in MintQuotes |-> 0]
<1>1. /\ disk \in MintState /\ settled \subseteq MintQuotes /\ paidOut \subseteq MeltQuotes
      /\ \A q \in MintQuotes : disk.mintq[q] \in MintQuoteEntry
      /\ \A q \in MeltQuotes : disk.meltq[q].amount \in Nat
  BY DEF IInv, TypeOK, MintState, MeltQuoteEntry
<1>2. \A t \in Tokens : Worth(t) \in Nat
  BY StakeFacts
<1>3. /\ Stake \in [Tokens -> Int] /\ In \in [MintQuotes -> Int]
      /\ Out \in [MeltQuotes -> Int] /\ open \in [MintQuotes -> Int]
      /\ z \in [MintQuotes -> Int]
  BY <1>1, StakeFacts DEF MintQuoteEntry
<1>4. b \in [Tokens -> Nat] /\ Amount(best) = Amount(b) /\ Amount(best) \in Nat
  <2>1. DOMAIN best \subseteq Tokens /\ \A t \in DOMAIN best : best[t] \in Nat
    BY <1>2
  <2> HIDE DEF best
  <2> QED
    BY <2>1, AmountSpread DEF Finite
<1>5. d \in [MintQuotes -> Nat] /\ Amount(due) = Amount(d) /\ Amount(due) \in Nat
  <2>1. DOMAIN due \subseteq MintQuotes /\ \A q \in DOMAIN due : due[q] \in Nat
    BY <1>1 DEF MintQuoteEntry
  <2> HIDE DEF due
  <2> QED
    BY <2>1, AmountSpread DEF Finite
<1>6. Amount(out) = Amount(Out) /\ Amount(out) \in Nat
  <2>1. DOMAIN out \subseteq MeltQuotes /\ \A q \in DOMAIN out : out[q] \in Nat
    BY <1>1
  <2>2. Spread(out, MeltQuotes) = Out
    BY DEF Spread, Out
  <2> HIDE DEF out
  <2> QED
    BY <2>1, <2>2, AmountSpread DEF Finite
<1>7. Amount(b) <= Amount(Stake)
  <2>1. \A t \in Tokens : b[t] <= Stake[t]
    <3> SUFFICES ASSUME NEW t \in Tokens PROVE b[t] <= Stake[t]
      OBVIOUS
    <3>1. b[t] = IF t \in disk.spent THEN 0 ELSE Worth(t)
      BY DEF Spread
    <3>2. Owed(t) => inflight.change[t] \in Nat
      <4>1. inflight # NoMelt => inflight.change \in Bundle(Denoms)
        BY DEF IInv, TypeOK, Inflight
      <4> QED
        BY <4>1, BundleType, DenomsAssumption DEF Owed
    <3> HIDE DEF b
    <3> QED
      BY <1>2, <3>1, <3>2 DEF Stake
  <2> HIDE DEF b
  <2> QED
    BY <1>3, <1>4, <2>1, AmountLeq DEF Finite
<1>8. Amount(open) + Amount(In) <= Amount(d) + Amount(z)
  <2>1. \A q \in MintQuotes : open[q] + In[q] <= d[q] + z[q]
    <3> SUFFICES ASSUME NEW q \in MintQuotes PROVE open[q] + In[q] <= d[q] + z[q]
      OBVIOUS
    <3> DEFINE e == disk.mintq[q]
    <3>1. CountersAgree(e, q) /\ e \in MintQuoteEntry
      BY <1>1 DEF IInv, CountersOK
    <3>2. /\ open[q] = e.paid - e.issued /\ In[q] = e.issued /\ z[q] = 0
          /\ d[q] = IF q \in settled THEN e.amount ELSE 0
      BY DEF In, Spread
    <3> HIDE DEF e, open, d, z
    <3> QED
      BY <3>1, <3>2 DEF CountersAgree, MintQuoteEntry
  <2> HIDE DEF open, d, z
  <2> QED
    BY <1>3, <1>5, <2>1, AmountBalance DEF Finite
<1>9. Amount(z) = 0
  BY AmountZero DEF Finite
<1>10. /\ Amount(Stake) \in Int /\ Amount(In) \in Int /\ Amount(Out) \in Int
       /\ Amount(open) \in Int
  <2> HIDE DEF open
  <2> QED
    BY <1>3, AmountType DEF Finite
<1>11. Liability = Amount(best) + Amount(open)
  BY DEF Liability, Worth, Best
<1>12. Solvent <=> Liability + Amount(out) <= Amount(due)
  BY DEF Solvent
<1> HIDE DEF best, open, due, out, b, d, z
<1> QED
  BY <1>4, <1>5, <1>6, <1>7, <1>8, <1>9, <1>10, <1>11, <1>12 DEF Backed

\* Ecash is backed for any keyset, any number of tokens and quotes and any
\* input fee: what clients can still claim and what was paid out never exceeds
\* what was paid in, when every quote is minted whole, on outputs the keyset
\* has keys for, and an Err of the backend means that nothing was paid.
THEOREM EcashIsBacked ==
    ASSUME Finite, SignableOutputs, WholeQuotes, DefiniteBackend
    PROVE  Spec => []Solvent
<1>1. Init => SInv
  BY SolventInit
<1>2. IInv /\ InSync /\ SInv /\ [Next]_vars => SInv'
  <2> SUFFICES ASSUME IInv, InSync, SInv, [Next]_vars PROVE SInv'
    OBVIOUS
  <2>1. CASE Next
    BY <2>1, SolventStep
  <2>2. CASE UNCHANGED vars
    <3>1. IInv'
      BY <2>2 DEF vars, IInv, TypeOK, Durable, ClaimOK, PaidOK, CountersOK, CountersAgree
    <3>2. /\ disk' = disk /\ known' = known /\ paidOut' = paidOut
          /\ inflight' = inflight
      BY <2>2 DEF vars
    <3>3. Stake' = Stake /\ Claimed' = Claimed /\ In' = In /\ Out' = Out
      BY <3>2 DEF Stake, Claimed, In, Out, Undecided, Owed, Worth, Redeemable
    <3> QED
      BY <3>2, <3>3 DEF SInv, Backed, Covered, Whole, Amount
  <2> QED
    BY <2>1, <2>2
<1>3. IInv /\ SInv => Solvent
  BY BackedIsSolvent DEF SInv
<1> QED
  BY <1>1, <1>2, <1>3, IInvInvariant, SyncAlways, PTL DEF Spec
=============================================================================
