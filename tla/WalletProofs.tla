---------------------------- MODULE WalletProofs ----------------------------
(***************************************************************************)
(* What Wallet guarantees for every number of indices and crashes, every   *)
(* fee, every quote, token and invoice, and every loss of messages and of  *)
(* the store.                                                              *)
(***************************************************************************)
EXTENDS Wallet, Sums

(* The inductive invariant.                                                *)

\* The proofs the job in progress has taken out of the store.
InHand == IF op.kind \in {"send", "melt"} THEN op.sel ELSE {}

\* One proof for each secret, all derived before the counter.
OneEach(P, c) ==
    /\ P \subseteq Proof
    /\ \A p \in P : p[1] < c
    /\ \A p, q \in P : p[1] = q[1] => p = q

\* The jobs, with what each carries from one request to the next.
Idling == {Idle, [kind |-> "save"]}
Receiving == [kind : {"receive"}, token : Incoming, at : Nat]
Swapping(kind) ==
    [kind : {kind}, amount : Coin, sel : SUBSET Proof, amounts : Seq(Coin)]
Handing == [kind : {"handover"}, proofs : SUBSET Proof]
Paying == [kind : {"pay"}, amount : Coin]
Job == Idling \cup Receiving \cup Swapping("send") \cup Swapping("melt")
          \cup Handing \cup Paying

Blanks == Len(Decompose(FeeReserve))

\* A job runs in a connected engine, and the indices it will derive exist.
JobOK ==
    /\ op \in Job
    /\ engine # "connected" => op = Idle
    /\ op.kind = "receive" => op.at \in 1 .. Len(decode_token_any(Text[op.token]))
    /\ op.kind = "send" => /\ mem.counter + Len(op.amounts) <= MaxIndex
                           /\ Len(op.amounts) >= 1
    /\ op.kind = "melt" => mem.counter + Len(op.amounts) + Blanks <= MaxIndex
    /\ op.kind = "pay" => mem.counter + Blanks <= MaxIndex
    /\ op.kind = "handover" => op.proofs # {} /\ IsFiniteSet(op.proofs)

\* A record the running engine has dropped and not yet saved is spent.
DroppedSpent ==
    engine # "down" => \A t \in saved \ pending : Idx(t) \subseteq mint.spent

\* The mint signs only what some process derived.
SignedDerived == \A i \in Index : mint.latest[i] # 0 => i < derived

WalletType == [counter : 0 .. MaxIndex, proofs : SUBSET Proof]
BlobType == [intact : BOOLEAN, counter : 0 .. MaxIndex, proofs : SUBSET Proof]
MintType == [latest : [Index -> Nat], spent : SUBSET Index, again : SUBSET Index]

\* The money, with the proofs a job has in hand: one proof for each secret,
\* in memory and in the store, and nothing credited is missing.
Money(hand) ==
    /\ mem \in WalletType /\ disk \in BlobType /\ mint \in MintType
    /\ owed \subseteq Index /\ derived \in 0 .. MaxIndex
    /\ OneEach(mem.proofs \cup hand, mem.counter)
    /\ OneEach(disk.proofs, disk.counter)
    /\ SignedDerived
    /\ owed \ mint.spent \subseteq Idx(mem.proofs \cup hand)

\* The records of sends.
Tokens == {t \in SUBSET Proof : t # {} /\ IsFiniteSet(t)}
Books ==
    /\ engine \in {"down", "built", "connected"}
    /\ pending \subseteq Tokens /\ saved \subseteq Tokens /\ handed \subseteq Tokens
    /\ DroppedSpent

Counts ==
    /\ minted \subseteq Quotes
    /\ redeemed \subseteq Incoming \X Nat
    /\ crashes \in 0 .. MaxCrashes

Inv == Money(InHand) /\ JobOK /\ Books /\ Counts
-----------------------------------------------------------------------------
(* Sets of proofs.                                                         *)

LEMMA ProofParts ==
    ASSUME NEW p \in Proof
    PROVE  p[1] \in Index /\ p[1] \in Nat /\ p[1] < MaxIndex /\ p[2] \in Coin
           /\ p = <<p[1], p[2]>>
BY WalletAssumption DEF Proof, Index, Coin

LEMMA IndexFinite ==
    IsFiniteSet(Index) /\ \A i \in Index : i \in Nat
BY FS_Interval, WalletAssumption DEF Index

\* Proofs with one index each are finitely many, as many as their indices.
LEMMA OneEachCounted ==
    ASSUME NEW P, NEW c \in Nat, OneEach(P, c)
    PROVE  IsFiniteSet(P) /\ Cardinality(Idx(P)) = Cardinality(P)
           /\ Idx(P) \subseteq Index
<1> DEFINE f == [p \in P |-> p[1]]
<1>1. \A p \in P : p[1] \in Index
  BY ProofParts DEF OneEach
<1>2. Idx(P) \subseteq Index
  BY <1>1 DEF Idx, Ids
<1>3. f \in [P -> Idx(P)] /\ (\A p, q \in P : f[p] = f[q] => p = q)
      /\ \A i \in Idx(P) : \E p \in P : f[p] = i
  BY DEF OneEach, Idx, Ids
<1> HIDE DEF f
<1>4. f \in Bijection(P, Idx(P))
  BY <1>3 DEF Bijection, Injection, Surjection, IsInjective
<1>5. IsFiniteSet(Idx(P))
  BY <1>2, IndexFinite, FS_Subset
<1>6. f \in Injection(P, Idx(P))
  BY <1>4 DEF Bijection
<1>7. IsFiniteSet(P)
  BY <1>5, <1>6, FS_Injection DEF ExistsInjection
<1>8. Cardinality(Idx(P)) = Cardinality(P)
  BY <1>4, <1>7, FS_Bijection DEF ExistsBijection
<1> QED
  BY <1>2, <1>7, <1>8

LEMMA OneEachSubset ==
    ASSUME NEW P, NEW c \in Nat, OneEach(P, c), NEW Q, Q \subseteq P,
           NEW d \in Nat, c <= d
    PROVE  OneEach(Q, d)
<1>1. \A p \in Q : p \in P /\ p \in Proof
  BY DEF OneEach
<1>2. \A p \in Q : p[1] < d
  BY <1>1, ProofParts DEF OneEach
<1> QED
  BY <1>1, <1>2 DEF OneEach

\* Fresh outputs have indices from the counter on, so they join the proofs.
LEMMA OneEachFresh ==
    ASSUME NEW P, NEW c \in Nat, OneEach(P, c), NEW n \in Nat, NEW m \in Nat, n <= m,
           NEW outs, Fresh(outs, c, n), c + m <= MaxIndex
    PROVE  OneEach(P \cup outs, c + m) /\ outs \subseteq Proof
<1>1. \A p \in outs : p \in Proof /\ p[1] >= c /\ p[1] < c + m /\ p[1] \in Nat
  <2> SUFFICES ASSUME NEW p \in outs
               PROVE  p \in Proof /\ p[1] >= c /\ p[1] < c + m /\ p[1] \in Nat
    OBVIOUS
  <2>1. p[1] \in c .. c + n - 1 /\ p[2] \in Coin /\ p = <<p[1], p[2]>>
    BY DEF Fresh
  <2>2. p[1] \in Index /\ p[1] >= c /\ p[1] < c + m /\ p[1] \in Nat
    BY <2>1, WalletAssumption DEF Index
  <2> QED
    BY <2>1, <2>2 DEF Proof, Coin
<1>2. \A p \in P : p \in Proof /\ p[1] < c /\ p[1] \in Nat
  BY ProofParts DEF OneEach
<1>3. ASSUME NEW p \in P \cup outs, NEW q \in P \cup outs, p[1] = q[1] PROVE p = q
  <2>1. CASE p \in P /\ q \in P
    BY <1>3, <2>1 DEF OneEach
  <2>2. CASE p \in outs /\ q \in outs
    BY <1>3, <2>2 DEF Fresh
  <2>3. CASE p \in P /\ q \in outs
    BY <1>1, <1>2, <1>3, <2>3
  <2>4. CASE p \in outs /\ q \in P
    BY <1>1, <1>2, <1>3, <2>4
  <2> QED
    BY <2>1, <2>2, <2>3, <2>4
<1>4. \A p \in P \cup outs : p \in Proof /\ p[1] < c + m
  BY <1>1, <1>2
<1> QED
  BY <1>1, <1>3, <1>4 DEF OneEach
\* No proofs at all.
LEMMA OneEachNone == ASSUME NEW c \in Nat PROVE OneEach({}, c)
BY DEF OneEach

LEMMA IdxUnion ==
    ASSUME NEW P, NEW Q
    PROVE  Idx(P \cup Q) = Idx(P) \cup Idx(Q)
BY DEF Idx, Ids

LEMMA IdxOfProofs ==
    ASSUME NEW P, P \subseteq Proof PROVE Idx(P) \subseteq Index
BY ProofParts DEF Idx, Ids

LEMMA FeeNat == ASSUME NEW n \in Nat PROVE Fee(n) \in Nat
<1>1. PICK f \in Nat : f = FeePpk
  BY WalletAssumption
<1>2. f * n \in Nat
  OBVIOUS
<1>3. (f * n + 999) \div 1000 \in Nat
  BY <1>2
<1> QED
  BY <1>1, <1>3 DEF Fee, FeeOf

\* What a selection or a token is worth.
LEMMA SumOfOneEach ==
    ASSUME NEW P, NEW c \in Nat, OneEach(P, c)
    PROVE  Sum(P) \in Int /\ IsFiniteSet(P) /\ Cardinality(P) \in Nat
<1>1. IsFiniteSet(P)
  BY OneEachCounted
<1>2. \A p \in P : p[2] \in Int
  BY ProofParts DEF OneEach, Coin
<1> QED
  BY <1>1, <1>2, SumOfProofs, FS_CardinalityType

\* deterministic_outputs never reuses an index of the store.
LEMMA OutputsFresh ==
    ASSUME mem.counter \in Nat, NEW amounts \in Seq(Coin)
    PROVE  Fresh(Outputs(amounts), mem.counter, Len(amounts))
BY CoinsNumbered DEF Outputs
-----------------------------------------------------------------------------
(* The mint's and the wallet's moves.                                      *)

\* What the mint signed it signed before or for these outputs, and what it
\* marked spent stays so.
MintGrows(outs) ==
    /\ mint' \in MintType
    /\ mint.spent \subseteq mint'.spent
    /\ \A i \in Index : mint'.latest[i] # 0 =>
          mint.latest[i] # 0 \/ i \in Idx(outs)

LEMMA MintMoves ==
    ASSUME mint \in MintType, NEW ins, ins \subseteq Proof,
           NEW outs, outs \subseteq Proof,
           MintSigns(ins, outs) \/ UNCHANGED mint
    PROVE  MintGrows(outs) /\ (MintSigns(ins, outs) => Idx(ins) \subseteq mint'.spent)
<1>1. CASE UNCHANGED mint
  <2>1. MintGrows(outs)
    BY <1>1 DEF MintGrows
  <2>2. MintSigns(ins, outs) => Idx(ins) \subseteq mint'.spent
    BY DEF MintSigns
  <2> QED
    BY <2>1, <2>2
<1>2. CASE MintSigns(ins, outs)
  <2>1. ASSUME NEW i \in Index, i \in Idx(outs)
        PROVE  (CHOOSE p \in outs : p[1] = i)[2] \in Nat
    <3>1. \E p \in outs : p[1] = i
      BY <2>1 DEF Idx, Ids
    <3>2. PICK p \in outs : p = CHOOSE q \in outs : q[1] = i
      BY <3>1
    <3>3. p[2] \in Nat
      BY ProofParts DEF Coin
    <3> QED
      BY <3>2, <3>3
  <2>2. Sign(outs) \in [Index -> Nat]
    BY <2>1 DEF Sign, MintType
  <2>3. \A i \in Index : Sign(outs)[i] # 0 => mint.latest[i] # 0 \/ i \in Idx(outs)
    BY DEF Sign
  <2>4. Idx(ins) \subseteq Index /\ Idx(outs) \subseteq Index
    BY IdxOfProofs
  <2>5. mint' = [latest |-> Sign(outs), spent |-> mint.spent \cup Idx(ins),
                 again |-> mint.again \cup {i \in Idx(outs) : mint.latest[i] # 0}]
    BY <1>2 DEF MintSigns
  <2> QED
    BY <2>2, <2>3, <2>4, <2>5 DEF MintGrows, MintType
<1> QED
  BY <1>1, <1>2

\* The highest counter so far.
LEMMA Tracked ==
    ASSUME derived \in 0 .. MaxIndex, mem'.counter \in 0 .. MaxIndex, Track
    PROVE  derived' \in 0 .. MaxIndex /\ derived <= derived' /\ mem'.counter <= derived'
<1> DEFINE S == {derived, mem'.counter}
<1>1. IsFiniteSet(S) /\ S # {}
  <2>1. IsFiniteSet(0 .. MaxIndex)
    BY FS_Interval, WalletAssumption
  <2>2. S \in SUBSET (0 .. MaxIndex) /\ S # {}
    OBVIOUS
  <2> QED
    BY <2>1, <2>2, FS_Subset
<1>2. \A x \in S : x \in Int
  BY WalletAssumption
<1> HIDE DEF S
<1>3. Max(S) \in S /\ \A x \in S : x <= Max(S)
  BY <1>1, <1>2, MaxOf
<1>4. derived' = Max(S)
  BY DEF Track, S
<1> QED
  BY <1>3, <1>4 DEF S

\* What is signed below the new counter is derived.
LEMMA StaysDerived ==
    ASSUME SignedDerived, derived \in 0 .. MaxIndex, mem'.counter \in 0 .. MaxIndex, Track,
           NEW outs, outs \subseteq Proof, MintGrows(outs),
           \A p \in outs : p[1] < mem'.counter
    PROVE  SignedDerived' /\ derived' \in 0 .. MaxIndex
<1>1. derived' \in 0 .. MaxIndex /\ derived <= derived' /\ mem'.counter <= derived'
  BY Tracked
<1>2. ASSUME NEW i \in Index, mint'.latest[i] # 0 PROVE i < derived'
  <2>1. i \in Nat
    BY IndexFinite
  <2>2. CASE mint.latest[i] # 0
    BY <1>1, <2>1, <2>2 DEF SignedDerived
  <2>3. CASE i \in Idx(outs)
    <3>1. i < mem'.counter
      BY <2>3 DEF Idx, Ids
    <3> QED
      BY <1>1, <2>1, <3>1
  <2> QED
    BY <1>2, <2>2, <2>3 DEF MintGrows
<1> QED
  BY <1>1, <1>2 DEF SignedDerived

\* swap_deterministic and mint_deterministic keep the money, and what the
\* mint takes in the swap is spent.
LEMMA SwapMoney ==
    ASSUME Money({}), NEW ins, ins \subseteq Proof, NEW n \in Nat, NEW outs,
           Fresh(outs, mem.counter, n), NEW accepted \in BOOLEAN, NEW net,
           swap_deterministic(accepted, ins, outs, net)
    PROVE  /\ Money({})'
           /\ mint.spent \subseteq mint'.spent
           /\ Reaches(accepted, net) => Idx(ins) \subseteq mint'.spent
<1>1. mem \in WalletType /\ mem.counter \in Nat /\ Cardinality(outs) = n
  BY WalletAssumption DEF Money, WalletType, Fresh
<1>2. mem.counter + n <= MaxIndex
  BY <1>1 DEF swap_deterministic
<1>3. OneEach(mem.proofs, mem.counter) /\ n <= n
  BY DEF Money
<1>4. OneEach(mem.proofs \cup outs, mem.counter + n) /\ outs \subseteq Proof
  BY <1>1, <1>2, <1>3, OneEachFresh
<1>5. OneEach(mem.proofs, mem.counter + n)
  <2>1. mem.counter + n \in Nat /\ mem.proofs \subseteq mem.proofs \cup outs
    BY <1>1
  <2> QED
    BY <1>4, <2>1, OneEachSubset
<1>6. MintGrows(outs) /\ (MintSigns(ins, outs) => Idx(ins) \subseteq mint'.spent)
  <2>1. MintSigns(ins, outs) \/ UNCHANGED mint
    BY DEF swap_deterministic
  <2>2. mint \in MintType
    BY DEF Money
  <2> QED
    BY <1>4, <2>1, <2>2, MintMoves
<1>7. mem'.counter = mem.counter + n /\ mem' \in WalletType
  <2>1. CASE Answered(accepted, net)
    BY <1>1, <1>2, <1>4, <2>1 DEF swap_deterministic, Credit, WalletType
  <2>2. CASE ~Answered(accepted, net)
    BY <1>1, <1>2, <2>2 DEF swap_deterministic, Failed, Advanced, WalletType
  <2> QED
    BY <2>1, <2>2
<1>8. SignedDerived' /\ derived' \in 0 .. MaxIndex
  <2>1. \A p \in outs : p[1] < mem'.counter
    BY <1>4, <1>7 DEF OneEach
  <2>2. mem'.counter \in 0 .. MaxIndex
    BY <1>7 DEF WalletType
  <2>3. SignedDerived /\ derived \in 0 .. MaxIndex /\ Track
    BY DEF Money, swap_deterministic
  <2> QED
    BY <1>4, <1>6, <2>1, <2>2, <2>3, StaysDerived
<1>9. Money({})'
  <2>1. CASE Answered(accepted, net)
    <3>1. mem'.proofs = mem.proofs \cup outs /\ disk' = encode_envelope(mem')
          /\ owed' = owed \cup Idx(outs)
      BY <2>1 DEF swap_deterministic, Credit, Persist, save
    <3>2. OneEach(mem'.proofs, mem'.counter)
      BY <1>4, <1>7, <3>1
    <3>3. disk' \in BlobType /\ disk'.proofs = mem'.proofs /\ disk'.counter = mem'.counter
      BY <1>7, <3>1 DEF encode_envelope, BlobType, WalletType
    <3>4. owed' \subseteq Index
      BY <1>4, <3>1, IdxOfProofs DEF Money
    <3>5. owed' \ mint'.spent \subseteq Idx(mem'.proofs)
      <4>1. owed \ mint.spent \subseteq Idx(mem.proofs)
        BY DEF Money
      <4>2. Idx(mem'.proofs) = Idx(mem.proofs) \cup Idx(outs)
        BY <3>1, IdxUnion
      <4> QED
        BY <1>6, <3>1, <4>1, <4>2 DEF MintGrows
    <3>6. mem'.proofs \cup {} = mem'.proofs
      OBVIOUS
    <3> QED
      BY <1>6, <1>7, <1>8, <3>2, <3>3, <3>4, <3>5, <3>6 DEF Money, MintGrows
  <2>2. CASE ~Answered(accepted, net)
    <3>1. mem'.proofs = mem.proofs /\ disk' = disk /\ owed' = owed
      BY <1>1, <2>2 DEF swap_deterministic, Failed, Advanced, WalletType
    <3>2. OneEach(mem'.proofs, mem'.counter)
      BY <1>5, <1>7, <3>1
    <3>3. owed' \ mint'.spent \subseteq Idx(mem'.proofs)
      BY <1>6, <3>1 DEF Money, MintGrows
    <3>4. mem'.proofs \cup {} = mem'.proofs
      OBVIOUS
    <3> QED
      BY <1>6, <1>7, <1>8, <3>1, <3>2, <3>3, <3>4 DEF Money, MintGrows
  <2> QED
    BY <2>1, <2>2
<1>10. Reaches(accepted, net) => Idx(ins) \subseteq mint'.spent
  BY <1>6 DEF swap_deterministic
<1> QED
  BY <1>6, <1>9, <1>10 DEF MintGrows
\* restore brings back every signature below the counter and the headroom,
\* one proof for each secret, and leaves the counter past them.
Recovered(w, m, r) ==
    /\ r \in WalletType /\ OneEach(r.proofs, r.counter)
    /\ w.proofs \subseteq r.proofs /\ w.counter <= r.counter
    /\ \A i \in Index : m.latest[i] # 0 /\ i < w.counter + Headroom => i \in Idx(r.proofs)

LEMMA RestoreSound ==
    ASSUME NEW w \in WalletType, OneEach(w.proofs, w.counter), NEW m \in MintType
    PROVE  Recovered(w, m, Restored(w, m))
<1> DEFINE wanted == {j \in Index \ Idx(w.proofs) :
                         m.latest[j] # 0 /\ j < w.counter + Headroom}
           back == {<<i, m.latest[i]>> : i \in wanted}
           past == {i + 1 : i \in Idx(back)} \cup {w.counter}
           r == Restored(w, m)
<1>1. r = [counter |-> Max(past), proofs |-> w.proofs \cup back]
  BY DEF Restored
<1>2. \A p \in back : p \in Proof /\ p[1] \in Index /\ p[1] \notin Idx(w.proofs)
  <2> SUFFICES ASSUME NEW i \in wanted
               PROVE  /\ <<i, m.latest[i]>> \in Proof
                      /\ i \in Index /\ i \notin Idx(w.proofs)
    OBVIOUS
  <2>1. m.latest[i] \in Nat /\ m.latest[i] # 0
    BY DEF MintType
  <2> QED
    BY <2>1 DEF Proof
<1>3. Idx(back) = wanted /\ \A i \in wanted : i \in Index
  <2>1. ASSUME NEW i \in wanted PROVE \E p \in back : p[1] = i
    <3>1. <<i, m.latest[i]>> \in back /\ <<i, m.latest[i]>>[1] = i
      OBVIOUS
    <3> QED
      BY <3>1, Zenon
  <2>2. \A p \in back : p[1] \in wanted
    OBVIOUS
  <2>3. \A i \in wanted : i \in Index
    OBVIOUS
  <2> HIDE DEF wanted, back
  <2> QED
    BY <2>1, <2>2, <2>3 DEF Idx, Ids
<1>4. \A p, q \in back : p[1] = q[1] => p = q
  OBVIOUS
<1>5. w.counter \in 0 .. MaxIndex /\ w.proofs \subseteq Proof
  BY DEF WalletType
<1>6. past \in SUBSET (0 .. MaxIndex) /\ past # {}
  <2>1. ASSUME NEW i \in wanted PROVE i + 1 \in 0 .. MaxIndex
    BY WalletAssumption DEF Index
  <2> HIDE DEF wanted, back
  <2> QED
    BY <1>3, <1>5, <2>1
<1>7. Max(past) \in past /\ \A x \in past : x <= Max(past)
  <2>1. IsFiniteSet(0 .. MaxIndex) /\ \A x \in 0 .. MaxIndex : x \in Int
    BY FS_Interval, WalletAssumption
  <2> HIDE DEF past
  <2>2. IsFiniteSet(past) /\ \A x \in past : x \in Int
    BY <1>6, <2>1, FS_Subset
  <2> QED
    BY <1>6, <2>2, MaxOf
<1>8. PICK c : c = Max(past)
  OBVIOUS
<1>9. c \in 0 .. MaxIndex /\ w.counter <= c /\ \A i \in wanted : i + 1 <= c
  <2> HIDE DEF wanted, back
  <2> QED
    BY <1>3, <1>6, <1>7, <1>8
<1>10. \A p \in back : p[1] \in wanted
  OBVIOUS
<1> HIDE DEF wanted, back, past, r
<1>11. r \in WalletType /\ r.proofs = w.proofs \cup back /\ r.counter = c
  BY <1>1, <1>2, <1>5, <1>8, <1>9 DEF WalletType
<1>12. OneEach(w.proofs \cup back, c)
  <2>1. ASSUME NEW p \in w.proofs \cup back PROVE p \in Proof /\ p[1] < c
    <3>1. CASE p \in w.proofs
      <4>1. p \in Proof /\ p[1] < w.counter /\ p[1] \in Nat
        BY <1>5, <3>1, ProofParts DEF OneEach
      <4> QED
        BY <1>5, <1>9, <4>1
    <3>2. CASE p \in back
      <4>1. p \in Proof /\ p[1] \in Nat /\ p[1] + 1 <= c
        BY <1>2, <1>9, <1>10, <3>2, ProofParts
      <4> QED
        BY <1>9, <4>1
    <3> QED
      BY <3>1, <3>2
  <2>2. ASSUME NEW p \in w.proofs \cup back, NEW q \in w.proofs \cup back, p[1] = q[1]
        PROVE  p = q
    <3>1. CASE p \in w.proofs /\ q \in w.proofs
      BY <2>2, <3>1 DEF OneEach
    <3>2. CASE p \in back /\ q \in back
      BY <1>4, <2>2, <3>2
    <3>3. \A a \in w.proofs : a[1] \in Idx(w.proofs)
      BY DEF Idx, Ids
    <3> QED
      BY <1>2, <2>2, <3>1, <3>2, <3>3
  <2> QED
    BY <2>1, <2>2 DEF OneEach
<1>13. ASSUME NEW i \in Index, m.latest[i] # 0, i < w.counter + Headroom
       PROVE  i \in Idx(w.proofs \cup back)
  <2>1. i \in Idx(w.proofs) \/ i \in wanted
    BY <1>13 DEF wanted
  <2> QED
    BY <1>3, <2>1, IdxUnion
<1> QED
  BY <1>9, <1>11, <1>12, <1>13 DEF Recovered, r
-----------------------------------------------------------------------------
(* Jobs and records.                                                       *)

LEMMA JobKinds ==
    ASSUME op \in Job
    PROVE  /\ op.kind \in {"idle", "receive", "send", "handover", "melt", "pay", "save"}
           /\ op.kind = "receive" => op \in Receiving
           /\ op.kind = "send" => op \in Swapping("send")
           /\ op.kind = "melt" => op \in Swapping("melt")
           /\ op.kind = "handover" => op \in Handing
           /\ op.kind = "pay" => op \in Paying
<1>1. CASE op \in Idling
  BY <1>1 DEF Idling, Idle
<1>2. CASE op \in Receiving
  BY <1>2 DEF Receiving
<1>3. CASE op \in Swapping("send")
  BY <1>3 DEF Swapping
<1>4. CASE op \in Swapping("melt")
  BY <1>4 DEF Swapping
<1>5. CASE op \in Handing
  BY <1>5 DEF Handing
<1>6. CASE op \in Paying
  BY <1>6 DEF Paying
<1> QED
  BY <1>1, <1>2, <1>3, <1>4, <1>5, <1>6 DEF Job

LEMMA IdleJob ==
    ASSUME op' = Idle PROVE JobOK' /\ InHand' = {}
<1>1. op'.kind = "idle"
  BY DEF Idle
<1>2. op' \in Job
  BY DEF Job, Idling
<1>3. InHand' = {}
  BY <1>1 DEF InHand
<1> QED
  BY <1>1, <1>2, <1>3 DEF JobOK

LEMMA SaveJob ==
    ASSUME op' = [kind |-> "save"], engine' = "connected" PROVE JobOK' /\ InHand' = {}
<1>1. op'.kind = "save"
  OBVIOUS
<1>2. op' \in Job
  BY DEF Job, Idling
<1>3. InHand' = {}
  BY <1>1 DEF InHand
<1> QED
  BY <1>1, <1>2, <1>3 DEF JobOK

LEMMA HandoverJob ==
    ASSUME NEW P, P \subseteq Proof, P # {}, IsFiniteSet(P), engine' = "connected",
           op' = [kind |-> "handover", proofs |-> P]
    PROVE  JobOK' /\ InHand' = {}
<1>1. op'.kind = "handover" /\ op'.proofs = P
  OBVIOUS
<1>2. op' \in Job
  BY DEF Job, Handing
<1>3. InHand' = {}
  BY <1>1 DEF InHand
<1> QED
  BY <1>1, <1>2, <1>3 DEF JobOK

\* Between jobs nothing is in hand.
LEMMA ReadyMeans ==
    ASSUME Inv, op.kind \notin {"send", "melt"} PROVE InHand = {} /\ Money({})
<1>1. InHand = {}
  BY DEF InHand
<1> QED
  BY <1>1 DEF Inv

LEMMA ReadyIdle ==
    ASSUME Inv, op = Idle PROVE InHand = {} /\ Money({})
BY ReadyMeans DEF Idle

LEMMA Running ==
    ASSUME Inv, op # Idle PROVE engine = "connected"
BY DEF Inv, JobOK

LEMMA BooksKept ==
    ASSUME Books, UNCHANGED <<engine, records>>, mint.spent \subseteq mint'.spent
    PROVE  Books'
BY DEF Books, records, DroppedSpent

LEMMA Closed ==
    ASSUME Money({})', InHand' = {}, JobOK', Books', Counts' PROVE Inv'
BY DEF Inv, Money

\* A group of an incoming token is worth an integer.
LEMMA GroupNet ==
    ASSUME NEW g \in Group PROVE group_net(g) \in Int
<1> DEFINE amounts == [k \in DOMAIN g.proofs |-> g.proofs[k].amount]
           P == {<<k, g.proofs[k].amount>> : k \in DOMAIN g.proofs}
<1>1. PICK c \in Nat : c = Len(g.proofs) /\ DOMAIN g.proofs = 1 .. c
  BY DEF Group
<1>2. \A k \in 1 .. c : g.proofs[k].amount \in Nat
  <2>1. PICK R : R = [id : STRING, amount : Nat]
    OBVIOUS
  <2>2. PICK s \in Seq(R) : s = g.proofs
    BY <2>1 DEF Group
  <2>3. \A k \in 1 .. Len(s) : s[k] \in R
    OBVIOUS
  <2>4. \A x \in R : x.amount \in Nat
    BY <2>1
  <2> QED
    BY <1>1, <2>2, <2>3, <2>4
<1>3. DOMAIN amounts = 1 .. c /\ \A k \in 1 .. c : amounts[k] \in Int
  BY <1>1, <1>2
<1>4. P = Numbered(1, amounts)
  <2>1. \A k \in 1 .. c : <<1 + k - 1, amounts[k]>> = <<k, g.proofs[k].amount>>
    BY <1>1
  <2>2. Numbered(1, amounts) = {<<1 + k - 1, amounts[k]>> : k \in 1 .. c}
    BY <1>3 DEF Numbered
  <2>3. P = {<<k, g.proofs[k].amount>> : k \in 1 .. c}
    BY <1>1
  <2> HIDE DEF amounts, P
  <2> QED
    BY <2>1, <2>2, <2>3
<1> HIDE DEF amounts, P
<1>5. IsFiniteSet(P) /\ \A p \in P : p[2] \in Int
  BY <1>3, <1>4, NumberedFresh
<1>6. Sum(P) \in Int
  BY <1>5, SumOfProofs
<1>7. Fee(c) \in Nat
  BY FeeNat
<1> QED
  BY <1>1, <1>6, <1>7 DEF group_net, P
-----------------------------------------------------------------------------
(* The actions, one by one.                                                *)

LEMMA KeepsMintPaidQuote ==
    ASSUME Inv, NEW q \in Quotes, NEW net, MintPaidQuote(q, net) PROVE Inv'
<1>1. Money({}) /\ op = Idle
  BY ReadyIdle DEF MintPaidQuote, Ready
<1>2. PICK ok \in BOOLEAN : ok <=> q \notin minted
  OBVIOUS
<1>3. PICK amounts \in Seq(Coin) : amounts = Decompose(QuoteAmount[q])
  BY DecomposeCoins, WalletAssumption
<1>4. mem.counter \in Nat /\ Len(amounts) \in Nat
  BY <1>1, WalletAssumption DEF Money, WalletType
<1>5. Fresh(Outputs(amounts), mem.counter, Len(amounts))
  BY <1>4, OutputsFresh
<1>6. PICK outs : outs = Outputs(amounts)
  OBVIOUS
<1>7. swap_deterministic(ok, {}, outs, net)
  BY <1>2, <1>3, <1>6 DEF MintPaidQuote, mint_deterministic
<1>8. Money({})' /\ mint.spent \subseteq mint'.spent
  <2>1. {} \subseteq Proof
    OBVIOUS
  <2> QED
    BY <1>1, <1>4, <1>5, <1>6, <1>7, <2>1, SwapMoney
<1>9. JobOK' /\ InHand' = {}
  BY <1>1, IdleJob DEF MintPaidQuote
<1>10. Books'
  BY <1>8, BooksKept DEF MintPaidQuote, Inv
<1>11. Counts'
  <2>1. minted' \subseteq Quotes
    BY DEF MintPaidQuote, mint_deterministic, Inv, Counts
  <2> QED
    BY <2>1 DEF MintPaidQuote, Inv, Counts
<1> QED
  BY <1>8, <1>9, <1>10, <1>11, Closed

LEMMA KeepsReceiveToken ==
    ASSUME Inv, NEW t \in Incoming, ReceiveToken(t) PROVE Inv'
<1>1. Money({}) /\ op = Idle /\ engine = "connected"
  BY ReadyIdle DEF ReceiveToken, Ready
<1>2. Money({})' /\ Books' /\ Counts'
  <2>1. Money({})'
    BY <1>1 DEF ReceiveToken, Money, bounds, SignedDerived
  <2>2. Books' /\ Counts'
    BY DEF ReceiveToken, Inv, Books, Counts, DroppedSpent, records, funding, bounds
  <2> QED
    BY <2>1, <2>2
<1>3. PICK o : o = [kind |-> "receive", token |-> t, at |-> 1] /\ op' = o
  BY DEF ReceiveToken
<1>4. o.kind = "receive" /\ o.token = t /\ o.at = 1 /\ o \in Job
  BY <1>3 DEF Job, Receiving
<1>5. 1 \in 1 .. Len(decode_token_any(Text[t]))
  <2>1. PICK groups \in Seq(Group) \ {<<>>} : groups = decode_token_any(Text[t])
    BY TextAssumption
  <2>2. Len(groups) \in Nat /\ Len(groups) # 0
    OBVIOUS
  <2> QED
    BY <2>1, <2>2
<1>6. InHand' = {}
  BY <1>3, <1>4 DEF InHand
<1>7. JobOK'
  BY <1>1, <1>3, <1>4, <1>5 DEF JobOK, ReceiveToken
<1> QED
  BY <1>2, <1>6, <1>7, Closed

LEMMA KeepsReceiveGroup ==
    ASSUME Inv, NEW net, ReceiveGroup(net) PROVE Inv'
<1>1. op.kind = "receive"
  BY DEF ReceiveGroup
<1>2. op \in Receiving /\ Money({}) /\ engine = "connected"
  BY <1>1, ReadyMeans, Running, JobKinds DEF Inv, JobOK, Idle
<1>3. op.token \in Incoming /\ op.at \in Nat
  BY <1>2 DEF Receiving
<1>4. PICK groups \in Seq(Group) : groups = decode_token_any(Text[op.token])
  BY <1>3, TextAssumption
<1>5. op.at \in 1 .. Len(groups)
  BY <1>1, <1>4 DEF Inv, JobOK
<1>6. groups[op.at] \in Group
  BY <1>5
<1>7. PICK value \in Int : value = group_net(groups[op.at])
  BY <1>6, GroupNet
<1>8. PICK ok \in BOOLEAN : ok <=> /\ value > 0
                     /\ resolve_v3_keyset_prefix(groups[op.at].id) = ActiveKeyset
                     /\ <<op.token, op.at>> \notin redeemed
  OBVIOUS
<1>9. PICK outs : outs = IF value < 0 THEN {} ELSE Outputs(Decompose(value))
  OBVIOUS
<1>10. mem.counter \in Nat
  BY <1>2, WalletAssumption DEF Money, WalletType
<1>11. \E n \in Nat : Fresh(outs, mem.counter, n)
  <2>1. CASE value < 0
    <3>1. Fresh({}, mem.counter, 0)
      BY FS_EmptySet DEF Fresh
    <3> QED
      BY <1>9, <2>1, <3>1
  <2>2. CASE ~(value < 0)
    <3>1. PICK amounts \in Seq(Coin) : amounts = Decompose(value)
      BY DecomposeCoins
    <3>2. Fresh(Outputs(amounts), mem.counter, Len(amounts)) /\ Len(amounts) \in Nat
      BY <1>10, OutputsFresh
    <3> QED
      BY <1>9, <2>2, <3>1, <3>2
  <2> QED
    BY <2>1, <2>2
<1>12. /\ swap_deterministic(ok, {}, outs, net)
       /\ redeemed' = IF Reaches(ok, net) THEN redeemed \cup {<<op.token, op.at>>}
                                          ELSE redeemed
       /\ op' = IF Answered(ok, net) /\ op.at < Len(groups)
                THEN [op EXCEPT !.at = @ + 1] ELSE Idle
  BY <1>4, <1>7, <1>8, <1>9 DEF ReceiveGroup
<1>13. Money({})' /\ mint.spent \subseteq mint'.spent
  <2>1. {} \subseteq Proof
    OBVIOUS
  <2> QED
    BY <1>2, <1>11, <1>12, <2>1, SwapMoney
<1>14. Books'
  BY <1>13, BooksKept DEF ReceiveGroup, Inv
<1>15. Counts'
  <2>1. redeemed' \subseteq Incoming \X Nat
    BY <1>3, <1>12 DEF Inv, Counts
  <2> QED
    BY <2>1 DEF ReceiveGroup, Inv, Counts
<1>16. JobOK' /\ InHand' = {}
  <2>1. CASE op' = Idle
    BY <2>1, IdleJob
  <2>2. CASE op' = [op EXCEPT !.at = @ + 1] /\ op.at < Len(groups)
    <3>1. op' \in Receiving /\ op'.kind = "receive" /\ op'.token = op.token
          /\ op'.at = op.at + 1
      BY <1>2, <1>3, <2>2 DEF Receiving
    <3>2. op'.at \in 1 .. Len(groups)
      BY <1>3, <1>5, <2>2, <3>1
    <3>3. op' \in Job
      BY <3>1 DEF Job
    <3>4. engine' = "connected"
      BY <1>2 DEF ReceiveGroup
    <3>5. JobOK'
      BY <1>4, <3>1, <3>2, <3>3, <3>4 DEF JobOK
    <3> QED
      BY <3>1, <3>5 DEF InHand
  <2> QED
    BY <1>12, <2>1, <2>2
<1> QED
  BY <1>13, <1>14, <1>15, <1>16, Closed
\* A job's selection leaves the store and is in its hands.
LEMMA SelectMoney ==
    ASSUME Money({}), NEW sel, sel \subseteq mem.proofs,
           mem' = remove_proofs(mem, sel), Persist, UNCHANGED <<mint, owed, derived>>
    PROVE  Money(sel)'
<1>1. mem \in WalletType /\ mem.counter \in Nat /\ OneEach(mem.proofs, mem.counter)
  BY WalletAssumption DEF Money, WalletType
<1>2. mem' \in WalletType /\ mem'.counter = mem.counter /\ mem'.proofs = mem.proofs \ sel
  BY <1>1 DEF remove_proofs, WalletType
<1>3. mem'.proofs \cup sel = mem.proofs
  BY <1>2
<1>4. OneEach(mem'.proofs, mem'.counter)
  <2>1. mem'.proofs \subseteq mem.proofs /\ mem.counter <= mem.counter
    BY <1>1, <1>2
  <2> QED
    BY <1>1, <1>2, <2>1, OneEachSubset
<1>5. disk' \in BlobType /\ disk'.proofs = mem'.proofs /\ disk'.counter = mem'.counter
  BY <1>2 DEF Persist, save, encode_envelope, BlobType, WalletType
<1>6. owed \ mint.spent \subseteq Idx(mem.proofs)
  BY DEF Money
<1> QED
  BY <1>1, <1>2, <1>3, <1>4, <1>5, <1>6 DEF Money, SignedDerived

LEMMA SwapJob ==
    ASSUME NEW kind \in {"send", "melt"}, NEW amount \in Coin, NEW sel, sel \subseteq Proof,
           NEW amounts \in Seq(Coin), engine' = "connected",
           op' = [kind |-> kind, amount |-> amount, sel |-> sel, amounts |-> amounts],
           mem'.counter \in Nat, Blanks \in Nat,
           kind = "send" => mem'.counter + Len(amounts) <= MaxIndex /\ Len(amounts) >= 1,
           kind = "melt" => mem'.counter + Len(amounts) + Blanks <= MaxIndex
    PROVE  JobOK' /\ InHand' = sel
<1>1. op' \in Swapping(kind) /\ op'.kind = kind /\ op'.sel = sel /\ op'.amounts = amounts
  BY DEF Swapping
<1>2. op' \in Job
  BY <1>1 DEF Job
<1>3. InHand' = sel
  BY <1>1 DEF InHand
<1>4. Blanks' = Blanks
  BY DEF Blanks
<1> QED
  BY <1>1, <1>2, <1>3, <1>4 DEF JobOK

LEMMA BlanksNat == Blanks \in Nat
<1>1. PICK s \in Seq(Coin) : s = Decompose(FeeReserve)
  BY DecomposeCoins, WalletAssumption
<1> QED
  BY <1>1 DEF Blanks

LEMMA KeepsSendSelect ==
    ASSUME Inv, NEW amount \in SendAmounts, SendSelect(amount) PROVE Inv'
<1>1. Money({}) /\ op = Idle /\ engine = "connected"
  BY ReadyIdle DEF SendSelect, Ready
<1>2. mem \in WalletType /\ mem.counter \in Nat /\ OneEach(mem.proofs, mem.counter)
      /\ mem.proofs \subseteq Proof
  BY <1>1, WalletAssumption DEF Money, WalletType
<1>3. PICK hint \in Selections(amount) :
       LET fee == Fee(Cardinality(hint)) IN
       \E sel \in Selections(amount + fee) :
          LET amounts == Decompose(amount) \o Decompose(Sum(sel) - amount - fee)
          IN  /\ mem.counter + Len(amounts) <= MaxIndex
              /\ mem' = remove_proofs(mem, sel)
              /\ op' = [kind |-> "send", amount |-> amount, sel |-> sel,
                        amounts |-> amounts]
  BY DEF SendSelect
<1>4. PICK fee : fee = Fee(Cardinality(hint))
  OBVIOUS
<1>5. PICK sel \in Selections(amount + fee) :
          LET amounts == Decompose(amount) \o Decompose(Sum(sel) - amount - fee)
          IN  /\ mem.counter + Len(amounts) <= MaxIndex
              /\ mem' = remove_proofs(mem, sel)
              /\ op' = [kind |-> "send", amount |-> amount, sel |-> sel,
                        amounts |-> amounts]
  BY <1>3, <1>4
<1>6. hint \subseteq mem.proofs /\ sel \subseteq mem.proofs
  BY DEF Selections, Coverings
<1>7. OneEach(hint, mem.counter) /\ OneEach(sel, mem.counter)
  <2>1. mem.counter <= mem.counter
    BY <1>2
  <2> QED
    BY <1>2, <1>6, <2>1, OneEachSubset
<1>8. Cardinality(hint) \in Nat /\ Sum(sel) \in Int
  BY <1>2, <1>7, SumOfOneEach
<1>9. fee \in Nat /\ amount \in Nat /\ amount >= 1 /\ amount \in Coin
  BY <1>4, <1>8, FeeNat, WalletAssumption DEF Coin
<1>10. PICK due \in Seq(Coin) : due = Decompose(amount) /\ Len(due) >= 1
  BY <1>9, DecomposeCoins
<1>11. PICK rest \in Seq(Coin) : rest = Decompose(Sum(sel) - amount - fee)
  <2>1. Sum(sel) - amount - fee \in Int
    BY <1>8, <1>9
  <2> QED
    BY <2>1, DecomposeCoins
<1>12. PICK amounts \in Seq(Coin) : amounts = due \o rest /\ Len(amounts) >= 1
  <2>1. due \o rest \in Seq(Coin) /\ Len(due \o rest) = Len(due) + Len(rest)
        /\ Len(rest) \in Nat /\ Len(due) \in Nat
    OBVIOUS
  <2>2. Len(due \o rest) >= 1
    BY <1>10, <2>1
  <2> QED
    BY <2>1, <2>2, Zenon
<1>13. /\ mem.counter + Len(amounts) <= MaxIndex
       /\ mem' = remove_proofs(mem, sel)
       /\ op' = [kind |-> "send", amount |-> amount, sel |-> sel, amounts |-> amounts]
  BY <1>5, <1>10, <1>11, <1>12
<1>14. mem'.counter = mem.counter
  BY <1>2, <1>13 DEF remove_proofs, WalletType
<1>15. Money(sel)'
  BY <1>1, <1>6, <1>13, SelectMoney DEF SendSelect, bounds
<1>16. JobOK' /\ InHand' = sel
  <2>1. engine' = "connected" /\ sel \subseteq Proof /\ mem'.counter \in Nat
    BY <1>1, <1>2, <1>6, <1>14 DEF SendSelect
  <2>2. mem'.counter + Len(amounts) <= MaxIndex
    BY <1>13, <1>14
  <2> QED
    BY <1>9, <1>12, <1>13, <2>1, <2>2, BlanksNat, SwapJob
<1>17. Books' /\ Counts'
  BY DEF SendSelect, Inv, Books, Counts, DroppedSpent, records, funding, bounds
<1> QED
  BY <1>15, <1>16, <1>17 DEF Inv, Money

\* How a step that ends with nothing in hand keeps the money.
LEMMA Landed ==
    ASSUME NEW hand, Money(hand), NEW outs, outs \subseteq Proof, MintGrows(outs),
           mem' \in WalletType, OneEach(mem'.proofs, mem'.counter),
           disk' = disk \/ disk' = encode_envelope(mem'), Track,
           \A p \in outs : p[1] < mem'.counter,
           owed' \subseteq Index, owed' \ mint'.spent \subseteq Idx(mem'.proofs)
    PROVE  Money({})' /\ mint.spent \subseteq mint'.spent
<1>1. SignedDerived' /\ derived' \in 0 .. MaxIndex
  <2>1. mem'.counter \in 0 .. MaxIndex
    BY DEF WalletType
  <2>2. SignedDerived /\ derived \in 0 .. MaxIndex
    BY DEF Money
  <2> QED
    BY <2>1, <2>2, StaysDerived
<1>2. disk' \in BlobType /\ OneEach(disk'.proofs, disk'.counter)
  <2>1. CASE disk' = disk
    BY <2>1 DEF Money
  <2>2. CASE disk' = encode_envelope(mem')
    <3>1. disk'.proofs = mem'.proofs /\ disk'.counter = mem'.counter
      BY <2>2 DEF encode_envelope
    <3>2. disk' \in BlobType
      BY <2>2 DEF encode_envelope, BlobType, WalletType
    <3> QED
      BY <3>1, <3>2
  <2> QED
    BY <2>1, <2>2
<1>3. mem'.proofs \cup {} = mem'.proofs
  OBVIOUS
<1> QED
  BY <1>1, <1>2, <1>3 DEF Money, MintGrows

\* What a job that swaps its selection starts from.
LEMMA SwapStart ==
    ASSUME Inv, NEW kind \in {"send", "melt"}, op.kind = kind,
           NEW outs, outs = Outputs(op.amounts)
    PROVE  /\ op \in Swapping(kind) /\ engine = "connected"
           /\ op.sel \subseteq Proof /\ op.amount \in Coin /\ op.amounts \in Seq(Coin)
           /\ Len(op.amounts) \in Nat /\ mem.counter \in Nat
           /\ mem.counter + Len(op.amounts) <= MaxIndex
           /\ Money(op.sel) /\ mem \in WalletType /\ mint \in MintType
           /\ Fresh(outs, mem.counter, Len(op.amounts))
           /\ Cardinality(outs) = Len(op.amounts)
           /\ OneEach(mem.proofs \cup op.sel, mem.counter)
           /\ outs \subseteq Proof
           /\ OneEach((mem.proofs \cup op.sel) \cup outs, mem.counter + Len(op.amounts))
           /\ owed \subseteq Index /\ owed \ mint.spent \subseteq Idx(mem.proofs \cup op.sel)
<1>1. op \in Swapping(kind) /\ engine = "connected"
  BY JobKinds, Running DEF Inv, JobOK, Idle
<1>2. op.sel \subseteq Proof /\ op.amount \in Coin /\ op.amounts \in Seq(Coin)
  BY <1>1 DEF Swapping
<1>3. InHand = op.sel
  BY DEF InHand
<1>4. Money(op.sel)
  BY <1>3 DEF Inv
<1>5. mem \in WalletType /\ mem.counter \in Nat /\ mint \in MintType
  BY <1>4, WalletAssumption DEF Money, WalletType
<1>6. PICK n \in Nat : n = Len(op.amounts)
  BY <1>2
<1>7. mem.counter + n <= MaxIndex
  BY <1>5, <1>6, BlanksNat, WalletAssumption DEF Inv, JobOK
<1>8. Fresh(outs, mem.counter, n)
  BY <1>2, <1>5, <1>6, OutputsFresh
<1>9. OneEach(mem.proofs \cup op.sel, mem.counter)
      /\ owed \subseteq Index /\ owed \ mint.spent \subseteq Idx(mem.proofs \cup op.sel)
  BY <1>4 DEF Money
<1>10. OneEach((mem.proofs \cup op.sel) \cup outs, mem.counter + n) /\ outs \subseteq Proof
  <2>1. n <= n
    OBVIOUS
  <2> QED
    BY <1>5, <1>7, <1>8, <1>9, <2>1, OneEachFresh
<1>11. Cardinality(outs) = n
  BY <1>8 DEF Fresh
<1> QED
  BY <1>1, <1>2, <1>4, <1>5, <1>6, <1>7, <1>8, <1>9, <1>10, <1>11

\* The swap was answered: what was in hand is spent, the outputs are held.
LEMMA SwapCredited ==
    ASSUME Inv, NEW kind \in {"send", "melt"}, op.kind = kind,
           NEW outs, outs = Outputs(op.amounts),
           MintSigns(op.sel, outs), Credit(outs), Track
    PROVE  /\ Money({})' /\ mint.spent \subseteq mint'.spent
           /\ mem'.counter = mem.counter + Len(op.amounts)
<1> DEFINE sel == op.sel
<1>1. PICK n \in Nat : n = Len(op.amounts)
  BY SwapStart
<1>2. mem.counter \in Nat /\ mem.counter + n <= MaxIndex /\ mem \in WalletType
      /\ mint \in MintType /\ outs \subseteq Proof /\ Cardinality(outs) = n
      /\ op.sel \subseteq Proof
  BY <1>1, SwapStart
<1>3. OneEach((mem.proofs \cup op.sel) \cup outs, mem.counter + n)
  BY <1>1, SwapStart
<1>4. MintGrows(outs) /\ Idx(op.sel) \subseteq mint'.spent
  BY <1>2, MintMoves
<1>5. /\ mem' \in WalletType /\ mem'.counter = mem.counter + n
      /\ mem'.proofs = mem.proofs \cup outs
      /\ disk' = encode_envelope(mem') /\ owed' = owed \cup Idx(outs)
  BY <1>2 DEF Credit, Persist, save, WalletType
<1>6. OneEach(mem'.proofs, mem'.counter)
  <2>1. mem'.proofs \subseteq (mem.proofs \cup op.sel) \cup outs
        /\ mem.counter + n \in Nat /\ mem.counter + n <= mem.counter + n
    BY <1>2, <1>5
  <2> QED
    BY <1>3, <1>5, <2>1, OneEachSubset
<1>7. \A p \in outs : p[1] < mem'.counter
  BY <1>5, <1>6 DEF OneEach
<1>8. owed' \subseteq Index
  BY <1>2, <1>5, IdxOfProofs, SwapStart
<1>9. owed' \ mint'.spent \subseteq Idx(mem'.proofs)
  <2>1. owed \ mint.spent \subseteq Idx(mem.proofs) \cup Idx(op.sel)
    BY SwapStart, IdxUnion
  <2>2. Idx(mem'.proofs) = Idx(mem.proofs) \cup Idx(outs)
    BY <1>5, IdxUnion
  <2> QED
    BY <1>4, <1>5, <2>1, <2>2 DEF MintGrows
<1>10. Money(op.sel)
  BY SwapStart
<1> QED
  BY <1>1, <1>2, <1>4, <1>5, <1>6, <1>7, <1>8, <1>9, <1>10, Landed

\* The swap failed: undo_spend puts the selection back, past the indices
\* the swap has used up.
LEMMA SwapUndone ==
    ASSUME Inv, NEW kind \in {"send", "melt"}, op.kind = kind,
           NEW outs, outs = Outputs(op.amounts),
           MintSigns(op.sel, outs) \/ UNCHANGED mint,
           mem' = undo_spend(Advanced(Len(op.amounts)), op.sel),
           Persist, Track, UNCHANGED owed
    PROVE  Money({})' /\ mint.spent \subseteq mint'.spent
<1>1. PICK n \in Nat : n = Len(op.amounts)
  BY SwapStart
<1>2. mem.counter \in Nat /\ mem.counter + n <= MaxIndex /\ mem \in WalletType
      /\ mint \in MintType /\ outs \subseteq Proof /\ op.sel \subseteq Proof
  BY <1>1, SwapStart
<1>3. OneEach((mem.proofs \cup op.sel) \cup outs, mem.counter + n)
  BY <1>1, SwapStart
<1>4. MintGrows(outs)
  BY <1>2, MintMoves
<1>5. /\ mem' \in WalletType /\ mem'.counter = mem.counter + n
      /\ mem'.proofs = mem.proofs \cup op.sel /\ disk' = encode_envelope(mem')
  <2>1. PICK w : w = Advanced(n)
    OBVIOUS
  <2>2. w \in WalletType /\ w.counter = mem.counter + n /\ w.proofs = mem.proofs
    BY <1>2, <2>1 DEF Advanced, WalletType
  <2>3. mem' = [w EXCEPT !.proofs = @ \cup op.sel]
    BY <1>1, <2>1 DEF undo_spend
  <2>4. disk' = encode_envelope(mem')
    BY DEF Persist, save
  <2> QED
    BY <1>2, <2>2, <2>3, <2>4 DEF WalletType
<1>6. OneEach(mem'.proofs, mem'.counter)
  <2>1. mem'.proofs \subseteq (mem.proofs \cup op.sel) \cup outs
        /\ mem.counter + n \in Nat /\ mem.counter + n <= mem.counter + n
    BY <1>2, <1>5
  <2> QED
    BY <1>3, <1>5, <2>1, OneEachSubset
<1>7. \A p \in outs : p[1] < mem'.counter
  BY <1>3, <1>5 DEF OneEach
<1>8. owed' \subseteq Index /\ owed' \ mint'.spent \subseteq Idx(mem'.proofs)
  BY <1>4, <1>5, SwapStart DEF MintGrows
<1>9. Money(op.sel)
  BY SwapStart
<1> QED
  BY <1>2, <1>4, <1>5, <1>6, <1>7, <1>8, <1>9, Landed
LEMMA KeepsSendSwapped ==
    ASSUME Inv, SendSwapped PROVE Inv'
<1>1. PICK outs : outs = Outputs(op.amounts)
  OBVIOUS
<1>2. /\ op.kind = "send" /\ MintSigns(op.sel, outs) /\ Credit(outs) /\ Track
      /\ op' = [kind |-> "handover",
                proofs |-> {p \in outs : p[1] < mem.counter + Len(Decompose(op.amount))}]
      /\ UNCHANGED <<engine, records, funding, crashes>>
  BY <1>1 DEF SendSwapped, PostSwap, Reaches
<1>3. Money({})' /\ mint.spent \subseteq mint'.spent
  BY <1>1, <1>2, SwapCredited
<1>4. /\ engine = "connected" /\ outs \subseteq Proof /\ mem.counter \in Nat
      /\ op.amount \in Coin /\ op.amounts \in Seq(Coin)
      /\ Fresh(outs, mem.counter, Len(op.amounts))
  BY <1>1, <1>2, SwapStart
<1>5. PICK P : P = {p \in outs : p[1] < mem.counter + Len(Decompose(op.amount))}
  OBVIOUS
<1>6. P \subseteq Proof /\ IsFiniteSet(P)
  <2>1. P \in SUBSET outs /\ IsFiniteSet(outs)
    BY <1>4, <1>5 DEF Fresh
  <2> QED
    BY <1>4, <2>1, FS_Subset
<1>7. P # {}
  <2>1. PICK d \in Nat : d = Len(Decompose(op.amount)) /\ d >= 1
    <3>1. op.amount \in Int /\ op.amount >= 1
      BY <1>4 DEF Coin
    <3>2. PICK s \in Seq(Coin) : s = Decompose(op.amount) /\ Len(s) >= 1
      BY <3>1, DecomposeCoins
    <3> QED
      BY <3>2
  <2>2. 1 \in DOMAIN op.amounts
    <3>1. Len(op.amounts) >= 1
      BY <1>2 DEF Inv, JobOK
    <3> QED
      BY <1>4, <3>1
  <2>3. <<mem.counter + 1 - 1, op.amounts[1]>> \in outs
    BY <1>1, <2>2 DEF Outputs, Numbered
  <2>4. mem.counter + 1 - 1 < mem.counter + d
    BY <1>4, <2>1
  <2> QED
    BY <1>5, <2>1, <2>3, <2>4
<1>8. op' = [kind |-> "handover", proofs |-> P] /\ engine' = "connected"
  BY <1>2, <1>4, <1>5
<1>9. JobOK' /\ InHand' = {}
  BY <1>6, <1>7, <1>8, HandoverJob
<1>10. Books' /\ Counts'
  <2>1. Books'
    BY <1>2, <1>3, BooksKept DEF Inv
  <2>2. Counts'
    BY <1>2 DEF Inv, Counts, funding
  <2> QED
    BY <2>1, <2>2
<1> QED
  BY <1>3, <1>9, <1>10, Closed

LEMMA KeepsSendRejected ==
    ASSUME Inv, NEW net, SendRejected(net) PROVE Inv'
<1>1. PICK outs : outs = Outputs(op.amounts)
  OBVIOUS
<1>2. /\ op.kind = "send" /\ (MintSigns(op.sel, outs) \/ UNCHANGED mint)
      /\ mem' = undo_spend(Advanced(Len(op.amounts)), op.sel)
      /\ Persist /\ Track /\ op' = Idle
      /\ UNCHANGED <<engine, records, funding, owed, crashes>>
  BY <1>1 DEF SendRejected, PostSwap
<1>3. Money({})' /\ mint.spent \subseteq mint'.spent
  BY <1>1, <1>2, SwapUndone
<1>4. JobOK' /\ InHand' = {}
  BY <1>2, IdleJob
<1>5. Books'
  BY <1>2, <1>3, BooksKept DEF Inv
<1>6. Counts'
  BY <1>2 DEF Inv, Counts, funding
<1> QED
  BY <1>3, <1>4, <1>5, <1>6, Closed

\* reconcile_spent drops what the mint reports spent and nothing else.
LEMMA Pruned ==
    ASSUME NEW w \in WalletType, OneEach(w.proofs, w.counter), NEW m,
           NEW r, r = Reconciled(w, m) \/ r = w
    PROVE  /\ r \in WalletType /\ r.counter = w.counter
           /\ OneEach(r.proofs, r.counter) /\ r.proofs \subseteq w.proofs
           /\ \A p \in w.proofs : p[1] \notin m.spent => p \in r.proofs
<1>1. w.counter \in Nat /\ w.counter <= w.counter
  BY WalletAssumption DEF WalletType
<1>2. CASE r = w
  BY <1>2
<1>3. CASE r = Reconciled(w, m)
  <2>1. r = [w EXCEPT !.proofs = @ \ {p \in w.proofs : p[1] \in m.spent}]
    BY <1>3 DEF Reconciled, remove_proofs, post_check_state
  <2>2. r \in WalletType /\ r.counter = w.counter
        /\ r.proofs = w.proofs \ {p \in w.proofs : p[1] \in m.spent}
    BY <2>1 DEF WalletType
  <2>3. OneEach(r.proofs, r.counter)
    BY <1>1, <2>2, OneEachSubset
  <2> QED
    BY <2>2, <2>3
<1> QED
  BY <1>2, <1>3

LEMMA KeepsSendAmbiguous ==
    ASSUME Inv, NEW net, NEW reconciled \in BOOLEAN, NEW restored \in BOOLEAN,
           SendAmbiguous(net, reconciled, restored)
    PROVE  Inv'
<1>1. PICK outs : outs = Outputs(op.amounts)
  OBVIOUS
<1>2. PICK w : w = undo_spend(Advanced(Len(op.amounts)), op.sel)
  OBVIOUS
<1>3. PICK r : r = IF reconciled THEN Reconciled(w, mint') ELSE w
  OBVIOUS
<1>4. /\ op.kind = "send" /\ (MintSigns(op.sel, outs) \/ UNCHANGED mint)
      /\ mem' = IF restored THEN Restored(r, mint') ELSE r
      /\ Persist /\ Track /\ owed' = owed \cup Idx(mem'.proofs)
      /\ UNCHANGED <<engine, records, funding, crashes>>
  BY <1>1, <1>2, <1>3 DEF SendAmbiguous, PostSwap
<1>5. op' = Idle \/ \E exact \in Exacts(mem'.proofs, op.amount) :
                       op' = [kind |-> "handover", proofs |-> exact]
  BY DEF SendAmbiguous
<1>6. PICK n \in Nat : n = Len(op.amounts)
  BY <1>1, <1>4, SwapStart
<1>7. mem.counter \in Nat /\ mem.counter + n <= MaxIndex /\ mem \in WalletType
      /\ mint \in MintType /\ outs \subseteq Proof /\ op.sel \subseteq Proof
      /\ engine = "connected" /\ op.amount \in Coin
  BY <1>1, <1>4, <1>6, SwapStart
<1>8. OneEach((mem.proofs \cup op.sel) \cup outs, mem.counter + n)
  BY <1>1, <1>4, <1>6, SwapStart
<1>9. MintGrows(outs) /\ mint' \in MintType
  BY <1>4, <1>7, MintMoves DEF MintGrows
<1>10. /\ w \in WalletType /\ w.counter = mem.counter + n
       /\ w.proofs = mem.proofs \cup op.sel
  <2>1. PICK a : a = Advanced(n)
    OBVIOUS
  <2>2. a \in WalletType /\ a.counter = mem.counter + n /\ a.proofs = mem.proofs
    BY <1>7, <2>1 DEF Advanced, WalletType
  <2>3. w = [a EXCEPT !.proofs = @ \cup op.sel]
    BY <1>2, <1>6, <2>1 DEF undo_spend
  <2> QED
    BY <1>7, <2>2, <2>3 DEF WalletType
<1>11. OneEach(w.proofs, w.counter)
  <2>1. w.proofs \subseteq (mem.proofs \cup op.sel) \cup outs
        /\ mem.counter + n \in Nat /\ mem.counter + n <= mem.counter + n
    BY <1>7, <1>10
  <2> QED
    BY <1>8, <1>10, <2>1, OneEachSubset
<1>12. /\ r \in WalletType /\ r.counter = w.counter /\ OneEach(r.proofs, r.counter)
       /\ \A p \in w.proofs : p[1] \notin mint'.spent => p \in r.proofs
  BY <1>3, <1>10, <1>11, Pruned
<1>13. /\ mem' \in WalletType /\ OneEach(mem'.proofs, mem'.counter)
       /\ r.proofs \subseteq mem'.proofs /\ r.counter <= mem'.counter
  <2>1. CASE restored
    <3>1. Recovered(r, mint', Restored(r, mint'))
      BY <1>9, <1>12, RestoreSound
    <3> QED
      BY <1>4, <2>1, <3>1 DEF Recovered
  <2>2. CASE ~restored
    <3>1. r.counter <= r.counter
      BY <1>12, WalletAssumption DEF WalletType
    <3> QED
      BY <1>4, <1>12, <2>2, <3>1
  <2> QED
    BY <2>1, <2>2
<1>14. \A p \in outs : p[1] < mem'.counter
  <2>1. \A p \in outs : p[1] < mem.counter + n /\ p[1] \in Nat
    BY <1>7, <1>8, ProofParts DEF OneEach
  <2>2. mem'.counter \in Nat /\ mem.counter + n <= mem'.counter
    BY <1>10, <1>12, <1>13, WalletAssumption DEF WalletType
  <2> QED
    BY <1>7, <2>1, <2>2
<1>15. owed' \subseteq Index
  <2>1. mem'.proofs \subseteq Proof /\ owed \subseteq Index
    BY <1>1, <1>4, <1>13, SwapStart DEF WalletType
  <2> QED
    BY <1>4, <2>1, IdxOfProofs
<1>16. owed' \ mint'.spent \subseteq Idx(mem'.proofs)
  <2> SUFFICES ASSUME NEW i \in owed, i \notin mint'.spent PROVE i \in Idx(mem'.proofs)
    BY <1>4
  <2>1. i \in Idx(w.proofs)
    BY <1>1, <1>4, <1>9, <1>10, SwapStart DEF MintGrows
  <2>2. PICK p \in w.proofs : p[1] = i
    BY <2>1 DEF Idx, Ids
  <2>3. p \in mem'.proofs
    BY <1>12, <1>13, <2>2
  <2> QED
    BY <2>2, <2>3 DEF Idx, Ids
<1>17. Money({})' /\ mint.spent \subseteq mint'.spent
  <2>1. Money(op.sel)
    BY <1>1, <1>4, SwapStart
  <2>2. disk' = encode_envelope(mem')
    BY <1>4 DEF Persist, save
  <2> QED
    BY <1>4, <1>7, <1>9, <1>13, <1>14, <1>15, <1>16, <2>1, <2>2, Landed
<1>18. JobOK' /\ InHand' = {}
  <2>1. CASE op' = Idle
    BY <2>1, IdleJob
  <2>2. ASSUME NEW exact \in Exacts(mem'.proofs, op.amount),
               op' = [kind |-> "handover", proofs |-> exact]
        PROVE  JobOK' /\ InHand' = {}
    <3>1. exact \subseteq mem'.proofs /\ Sum(exact) = op.amount
      BY DEF Exacts
    <3>2. exact # {}
      <4>1. op.amount # 0
        BY <1>7 DEF Coin
      <4> QED
        BY <3>1, <4>1, SumOfNone
    <3>3. exact \subseteq Proof /\ IsFiniteSet(exact)
      <4>1. mem'.counter \in Nat /\ mem'.proofs \subseteq Proof
        BY <1>13, WalletAssumption DEF WalletType
      <4>2. IsFiniteSet(mem'.proofs)
        BY <1>13, <4>1, OneEachCounted
      <4> QED
        BY <3>1, <4>1, <4>2, FS_Subset
    <3>4. engine' = "connected"
      BY <1>4, <1>7
    <3> QED
      BY <2>2, <3>2, <3>3, <3>4, HandoverJob
  <2> QED
    BY <1>5, <2>1, <2>2
<1>19. Books'
  BY <1>4, <1>17, BooksKept DEF Inv
<1>20. Counts'
  BY <1>4 DEF Inv, Counts, funding
<1> QED
  BY <1>17, <1>18, <1>19, <1>20, Closed

LEMMA KeepsHandOver ==
    ASSUME Inv, HandOver PROVE Inv'
<1>1. op.kind = "handover"
  BY DEF HandOver
<1>2. op \in Handing /\ Money({}) /\ engine = "connected"
  BY <1>1, ReadyMeans, Running, JobKinds DEF Inv, JobOK, Idle
<1>3. PICK P : P = op.proofs
  OBVIOUS
<1>4. P \subseteq Proof /\ P # {} /\ IsFiniteSet(P)
  BY <1>1, <1>2, <1>3 DEF Handing, Inv, JobOK
<1>5. mem \in WalletType /\ mem.counter \in Nat /\ mem.counter <= mem.counter
      /\ OneEach(mem.proofs, mem.counter)
  BY <1>2, WalletAssumption DEF Money, WalletType
<1>6. mem' \in WalletType /\ mem'.counter = mem.counter /\ mem'.proofs = mem.proofs \ P
  BY <1>3, <1>5 DEF HandOver, remove_proofs, WalletType
<1>7. OneEach(mem'.proofs, mem'.counter)
  BY <1>5, <1>6, OneEachSubset
<1>8. disk' \in BlobType /\ disk'.proofs = mem'.proofs /\ disk'.counter = mem'.counter
  BY <1>6 DEF HandOver, Persist, save, encode_envelope, BlobType, WalletType
<1>9. owed' = owed \ Idx(P) /\ mint' = mint /\ derived' = derived
  BY <1>3 DEF HandOver, bounds
<1>10. owed' \ mint'.spent \subseteq Idx(mem'.proofs)
  <2> SUFFICES ASSUME NEW i \in owed, i \notin Idx(P), i \notin mint.spent
               PROVE  i \in Idx(mem'.proofs)
    BY <1>9
  <2>1. i \in Idx(mem.proofs)
    BY <1>2 DEF Money
  <2>2. PICK p \in mem.proofs : p[1] = i
    BY <2>1 DEF Idx, Ids
  <2>3. p \notin P
    BY <2>2 DEF Idx, Ids
  <2> QED
    BY <1>6, <2>2, <2>3 DEF Idx, Ids
<1>11. Money({})'
  <2>1. mem'.proofs \cup {} = mem'.proofs
    OBVIOUS
  <2>2. owed' \subseteq Index /\ mint' \in MintType /\ derived' \in 0 .. MaxIndex
        /\ SignedDerived'
    BY <1>2, <1>9 DEF Money, SignedDerived
  <2> QED
    BY <1>6, <1>7, <1>8, <1>10, <2>1, <2>2 DEF Money
<1>12. JobOK' /\ InHand' = {}
  BY <1>2, SaveJob DEF HandOver
<1>13. Books'
  <2>1. P \in Tokens
    BY <1>4 DEF Tokens
  <2> QED
    BY <1>3, <2>1 DEF HandOver, Inv, Books, DroppedSpent
<1>14. Counts'
  BY DEF HandOver, Inv, Counts, funding, bounds
<1> QED
  BY <1>11, <1>12, <1>13, <1>14, Closed

LEMMA KeepsSaveState ==
    ASSUME Inv, SaveState
    PROVE  Inv' /\ \A t \in saved \ saved' : Idx(t) \subseteq mint'.spent
<1>1. op.kind = "save"
  BY DEF SaveState
<1>2. Money({}) /\ engine = "connected"
  BY <1>1, ReadyMeans, Running DEF Idle
<1>3. Money({})'
  BY <1>2 DEF SaveState, Money, bounds, SignedDerived
<1>4. JobOK' /\ InHand' = {}
  BY IdleJob DEF SaveState
<1>5. Books'
  BY DEF SaveState, save_state, Inv, Books, DroppedSpent
<1>6. Counts'
  BY DEF SaveState, Inv, Counts, funding, bounds
<1>7. \A t \in saved \ saved' : Idx(t) \subseteq mint'.spent
  BY <1>2 DEF SaveState, save_state, Inv, Books, DroppedSpent
<1> QED
  BY <1>3, <1>4, <1>5, <1>6, <1>7, Closed

\* A token all of whose proofs the mint reports spent.
LEMMA ClaimedSpent ==
    ASSUME NEW t, NEW m, Claimed(t, m) PROVE Idx(t) \subseteq m.spent
BY DEF Claimed, post_check_state, Idx, Ids

LEMMA KeepsCheckPendingSend ==
    ASSUME Inv, NEW t \in pending, CheckPendingSend(t) PROVE Inv'
<1>1. Money({}) /\ op = Idle /\ engine = "connected"
  BY ReadyIdle DEF CheckPendingSend, Ready
<1>2. Money({})'
  BY <1>1 DEF CheckPendingSend, Money, bounds, SignedDerived
<1>3. JobOK' /\ InHand' = {}
  BY <1>1, SaveJob DEF CheckPendingSend
<1>4. Books'
  <2>1. Idx(t) \subseteq mint.spent
    BY ClaimedSpent DEF CheckPendingSend
  <2> QED
    BY <1>1, <2>1 DEF CheckPendingSend, Inv, Books, DroppedSpent
<1>5. Counts'
  BY DEF CheckPendingSend, Inv, Counts, funding, bounds
<1> QED
  BY <1>2, <1>3, <1>4, <1>5, Closed

LEMMA KeepsReclaimPending ==
    ASSUME Inv, NEW t \in pending, NEW net, NEW probed \in BOOLEAN,
           ReclaimPending(t, net, probed)
    PROVE  Inv'
<1>1. Money({}) /\ op = Idle /\ engine = "connected"
  BY ReadyIdle DEF ReclaimPending, Ready
<1>2. t \subseteq Proof /\ IsFiniteSet(t)
  BY DEF Inv, Books, Tokens
<1>3. PICK value \in Int : value = Sum(t) - Fee(Cardinality(t))
  <2>1. \A p \in t : p[2] \in Int
    BY <1>2, ProofParts DEF Coin
  <2>2. Sum(t) \in Int /\ Cardinality(t) \in Nat
    BY <1>2, <2>1, SumOfProofs, FS_CardinalityType
  <2>3. Fee(Cardinality(t)) \in Nat
    BY <2>2, FeeNat
  <2> QED
    BY <2>2, <2>3
<1>4. PICK amounts \in Seq(Coin) : amounts = Decompose(value)
  BY DecomposeCoins
<1>5. mem.counter \in Nat /\ Len(amounts) \in Nat
  BY <1>1, WalletAssumption DEF Money, WalletType
<1>6. PICK outs : outs = Outputs(amounts)
  OBVIOUS
<1>7. Fresh(outs, mem.counter, Len(amounts))
  BY <1>5, <1>6, OutputsFresh
<1>8. PICK ok \in BOOLEAN : ok <=> value > 0 /\ SwapAccepted(t, outs)
  OBVIOUS
<1>9. /\ swap_deterministic(ok, t, outs, net)
      /\ pending' = IF Answered(ok, net) \/ (probed /\ Claimed(t, mint'))
                    THEN pending \ {t} ELSE pending
      /\ op' = [kind |-> "save"]
      /\ UNCHANGED <<engine, saved, handed, funding, crashes>>
  BY <1>3, <1>4, <1>6, <1>8 DEF ReclaimPending
<1>10. /\ Money({})' /\ mint.spent \subseteq mint'.spent
       /\ Reaches(ok, net) => Idx(t) \subseteq mint'.spent
  BY <1>1, <1>2, <1>5, <1>7, <1>9, SwapMoney
<1>11. JobOK' /\ InHand' = {}
  BY <1>1, <1>9, SaveJob
<1>12. Books'
  <2>1. pending' = pending \/ (pending' = pending \ {t} /\ Idx(t) \subseteq mint'.spent)
    <3>1. Answered(ok, net) => Reaches(ok, net)
      BY DEF Answered, Reaches, Ambiguous
    <3> QED
      BY <1>9, <1>10, <3>1, ClaimedSpent
  <2> QED
    BY <1>9, <1>10, <2>1 DEF Inv, Books, DroppedSpent
<1>13. Counts'
  BY <1>9 DEF Inv, Counts, funding
<1> QED
  BY <1>10, <1>11, <1>12, <1>13, Closed
LEMMA MeltTargetCoin ==
    ASSUME NEW amount \in MeltAmounts PROVE MeltTarget(amount) \in Coin
<1>1. amount \in Nat /\ amount # 0 /\ FeeReserve \in Nat
  BY WalletAssumption
<1>2. PICK s \in Seq(Coin) : s = Decompose(amount + FeeReserve)
  BY <1>1, DecomposeCoins
<1>3. PICK fee \in Nat : fee = MeltFee(amount)
  <2>1. Len(s) \in Nat
    OBVIOUS
  <2> QED
    BY <1>2, <2>1, FeeNat DEF MeltFee
<1> QED
  BY <1>1, <1>3 DEF MeltTarget, Coin

LEMMA KeepsMeltSelect ==
    ASSUME Inv, NEW amount \in MeltAmounts, MeltSelect(amount) PROVE Inv'
<1>1. Money({}) /\ op = Idle /\ engine = "connected"
  BY ReadyIdle DEF MeltSelect, Ready
<1>2. mem \in WalletType /\ mem.counter \in Nat /\ OneEach(mem.proofs, mem.counter)
      /\ mem.proofs \subseteq Proof
  BY <1>1, WalletAssumption DEF Money, WalletType
<1>3. PICK target \in Coin : target = MeltTarget(amount)
  BY MeltTargetCoin
<1>4. PICK sel : sel = mem.proofs
  OBVIOUS
<1>5. PICK rest \in Nat : rest = MeltRest(amount)
  <2>1. Sum(mem.proofs) \in Int /\ Cardinality(mem.proofs) \in Nat
    BY <1>2, SumOfOneEach
  <2>2. Fee(Cardinality(mem.proofs)) \in Nat
    BY <2>1, FeeNat
  <2>3. target \in Int
    BY DEF Coin
  <2>4. MeltRest(amount) \in Int /\ MeltRest(amount) >= 0
    BY <1>3, <2>1, <2>2, <2>3 DEF MeltRest, MeltSelect
  <2> QED
    BY <2>4
<1>6. PICK due \in Seq(Coin) : due = Decompose(target)
  <2>1. target \in Int
    BY DEF Coin
  <2> QED
    BY <2>1, DecomposeCoins
<1>7. PICK change \in Seq(Coin) : change = DecomposeCapped(rest, LowestBit(target))
  BY LowBit, CappedCoins DEF Coin
<1>8. PICK amounts \in Seq(Coin) : amounts = due \o change
  <2>1. due \o change \in Seq(Coin)
    OBVIOUS
  <2> QED
    BY <2>1, Zenon
<1>9. /\ mem.counter + Len(amounts) + Blanks <= MaxIndex
      /\ mem' = remove_proofs(mem, sel) /\ Persist
      /\ op' = [kind |-> "melt", amount |-> amount, sel |-> sel, amounts |-> amounts]
      /\ UNCHANGED <<engine, records, mint, funding, owed, bounds>>
  BY <1>3, <1>4, <1>5, <1>6, <1>7, <1>8 DEF MeltSelect, Blanks
<1>10. mem'.counter = mem.counter
  BY <1>2, <1>9 DEF remove_proofs, WalletType
<1>11. Money(sel)'
  BY <1>1, <1>4, <1>9, SelectMoney DEF bounds
<1>12. JobOK' /\ InHand' = sel
  <2>1. engine' = "connected" /\ sel \subseteq Proof /\ mem'.counter \in Nat
        /\ amount \in Coin
    BY <1>1, <1>2, <1>4, <1>9, <1>10, WalletAssumption DEF Coin
  <2>2. mem'.counter + Len(amounts) + Blanks <= MaxIndex
    BY <1>9, <1>10
  <2> QED
    BY <1>9, <2>1, <2>2, BlanksNat, SwapJob
<1>13. Books' /\ Counts'
  BY <1>9 DEF Inv, Books, Counts, DroppedSpent, records, funding, bounds
<1> QED
  BY <1>11, <1>12, <1>13 DEF Inv, Money

\* An engine that is down has nothing in memory and no job.
LEMMA Emptied ==
    ASSUME Money({}), disk' = disk \/ (disk' \in BlobType /\ OneEach(disk'.proofs, disk'.counter)),
           mem' = NoWallet, owed' = {}, UNCHANGED <<mint, derived>>
    PROVE  Money({})'
<1>1. mem' \in WalletType /\ mem'.proofs = {} /\ mem'.counter = 0
  BY WalletAssumption DEF NoWallet, WalletType
<1>2. OneEach(mem'.proofs, mem'.counter) /\ mem'.proofs \cup {} = mem'.proofs
  BY <1>1, OneEachNone
<1>3. disk' \in BlobType /\ OneEach(disk'.proofs, disk'.counter)
  BY DEF Money
<1> QED
  BY <1>1, <1>2, <1>3 DEF Money, SignedDerived

LEMMA KeepsMeltUnderflow ==
    ASSUME Inv, NEW amount \in MeltAmounts, MeltUnderflow(amount) PROVE Inv'
<1>1. Money({}) /\ op = Idle
  BY ReadyIdle DEF MeltUnderflow, Ready
<1>2. mem \in WalletType /\ mem.counter \in Nat
  BY <1>1, WalletAssumption DEF Money, WalletType
<1>3. PICK w : w = remove_proofs(mem, mem.proofs)
  OBVIOUS
<1>4. w \in WalletType /\ w.proofs = {} /\ w.counter = mem.counter
  BY <1>2, <1>3 DEF remove_proofs, WalletType
<1>5. disk' \in BlobType /\ disk'.proofs = {} /\ disk'.counter = mem.counter
  BY <1>3, <1>4 DEF MeltUnderflow, save, encode_envelope, BlobType, WalletType
<1>6. Money({})'
  BY <1>1, <1>2, <1>5, OneEachNone, Emptied DEF MeltUnderflow
<1>7. JobOK' /\ InHand' = {}
  BY <1>1, IdleJob DEF MeltUnderflow
<1>8. Books'
  BY DEF MeltUnderflow, Inv, Books, DroppedSpent
<1>9. Counts'
  BY WalletAssumption DEF MeltUnderflow, Inv, Counts, funding
<1> QED
  BY <1>6, <1>7, <1>8, <1>9, Closed

LEMMA KeepsMeltSwap ==
    ASSUME Inv, NEW net, MeltSwap(net) PROVE Inv'
<1>1. PICK outs : outs = Outputs(op.amounts)
  OBVIOUS
<1>2. PICK answered \in BOOLEAN : answered <=> Answered(SwapAccepted(op.sel, outs), net)
  OBVIOUS
<1>3. /\ op.kind = "melt" /\ Track /\ UNCHANGED <<engine, records, funding, crashes>>
      /\ IF Reaches(SwapAccepted(op.sel, outs), net)
         THEN MintSigns(op.sel, outs) ELSE UNCHANGED mint
  BY <1>1 DEF MeltSwap, PostSwap
<1>4. IF answered
      THEN Credit(outs) /\ op' = [kind |-> "pay", amount |-> op.amount]
      ELSE /\ mem' = undo_spend(Advanced(Len(op.amounts)), op.sel)
           /\ Persist /\ op' = Idle /\ UNCHANGED owed
  BY <1>1, <1>2 DEF MeltSwap
<1>5. answered => Reaches(SwapAccepted(op.sel, outs), net)
  BY <1>2 DEF Answered, Reaches, Ambiguous
<1>6. CASE answered
  <2>1. /\ Money({})' /\ mint.spent \subseteq mint'.spent
        /\ mem'.counter = mem.counter + Len(op.amounts)
    BY <1>1, <1>3, <1>4, <1>5, <1>6, SwapCredited
  <2>2. PICK o : o = [kind |-> "pay", amount |-> op.amount] /\ op' = o
    BY <1>4, <1>6
  <2>3. o.kind = "pay" /\ o \in Job
    <3>1. op.amount \in Coin
      BY <1>1, <1>3, SwapStart
    <3> QED
      BY <2>2, <3>1 DEF Job, Paying
  <2>4. engine' = "connected" /\ Blanks' = Blanks
    <3>1. engine = "connected"
      BY <1>1, <1>3, SwapStart
    <3> QED
      BY <1>3, <3>1 DEF Blanks
  <2>5. mem'.counter + Blanks <= MaxIndex
    BY <1>3, <2>1 DEF Inv, JobOK
  <2>6. JobOK' /\ InHand' = {}
    BY <2>2, <2>3, <2>4, <2>5 DEF JobOK, InHand
  <2>7. Books'
    BY <1>3, <2>1, BooksKept DEF Inv
  <2>8. Counts'
    BY <1>3 DEF Inv, Counts, funding
  <2> QED
    BY <2>1, <2>6, <2>7, <2>8, Closed
<1>7. CASE ~answered
  <2>1. Money({})' /\ mint.spent \subseteq mint'.spent
    BY <1>1, <1>3, <1>4, <1>7, SwapUndone
  <2>2. JobOK' /\ InHand' = {}
    BY <1>4, <1>7, IdleJob
  <2>3. Books'
    BY <1>3, <2>1, BooksKept DEF Inv
  <2>4. Counts'
    BY <1>3 DEF Inv, Counts, funding
  <2> QED
    BY <2>1, <2>2, <2>3, <2>4, Closed
<1> QED
  BY <1>6, <1>7

\* Change comes back on indices the melt has set aside for it.
LEMMA KeepsMeltPay ==
    ASSUME Inv, NEW net, NEW verdict, NEW change \in 0 .. FeeReserve,
           MeltPay(net, verdict, change)
    PROVE  Inv'
<1>1. op.kind = "pay"
  BY DEF MeltPay
<1>2. Money({}) /\ engine = "connected"
  BY <1>1, ReadyMeans, Running DEF Idle
<1>3. mem \in WalletType /\ mem.counter \in Nat /\ OneEach(mem.proofs, mem.counter)
      /\ mem.proofs \subseteq Proof /\ mint \in MintType
  BY <1>2, WalletAssumption DEF Money, WalletType
<1>4. PICK b \in Nat : b = Blanks /\ mem.counter + b <= MaxIndex
  BY <1>1, BlanksNat DEF Inv, JobOK
<1>5. PICK blanks : blanks = Outputs(Decompose(FeeReserve)) /\ Cardinality(blanks) = b
  <2>1. PICK s \in Seq(Coin) : s = Decompose(FeeReserve) /\ Len(s) = b
    BY <1>4, DecomposeCoins, WalletAssumption DEF Blanks
  <2>2. Cardinality(Outputs(s)) = b
    BY <1>3, <2>1, OutputsFresh DEF Fresh
  <2> QED
    BY <2>1, <2>2
<1>6. PICK coins \in Seq(Coin) : coins = Decompose(change)
  BY DecomposeCoins, WalletAssumption
<1>7. PICK given : given = Outputs(coins)
  OBVIOUS
<1>8. PICK n \in Nat : n = Len(coins)
  OBVIOUS
<1>9. Fresh(given, mem.counter, n)
  BY <1>3, <1>7, <1>8, OutputsFresh
<1>10. n <= b
  <2>1. Cardinality(given) <= Cardinality(blanks)
    BY <1>5, <1>6, <1>7 DEF MeltPay
  <2> QED
    BY <1>5, <1>9, <2>1 DEF Fresh
<1>11. OneEach(mem.proofs \cup given, mem.counter + b) /\ given \subseteq Proof
  BY <1>3, <1>4, <1>9, <1>10, OneEachFresh
<1>12. PICK sel \in Selections(MeltTarget(op.amount)) :
           LET valid == Idx(sel) \cap mint.spent = {}
               took  == valid /\ verdict # "failed"
               paid  == valid /\ Answered(verdict = "paid", net)
           IN  /\ IF Reaches(took, net) THEN MintSigns(sel, given) ELSE UNCHANGED mint
               /\ mem' = [Advanced(Cardinality(blanks)) EXCEPT
                             !.proofs = IF paid THEN (@ \ sel) \cup given ELSE @]
               /\ disk' = IF valid /\ net = "ok" THEN encode_envelope(mem') ELSE disk
               /\ owed' = IF paid THEN (owed \ Idx(sel)) \cup Idx(given) ELSE owed
  BY <1>5, <1>6, <1>7 DEF MeltPay
<1>13. PICK paid \in BOOLEAN :
           paid <=> Idx(sel) \cap mint.spent = {} /\ Answered(verdict = "paid", net)
  OBVIOUS
<1>14. /\ MintSigns(sel, given) \/ UNCHANGED mint
       /\ mem' = [Advanced(b) EXCEPT
                     !.proofs = IF paid THEN (@ \ sel) \cup given ELSE @]
       /\ disk' = disk \/ disk' = encode_envelope(mem')
       /\ owed' = IF paid THEN (owed \ Idx(sel)) \cup Idx(given) ELSE owed
  BY <1>5, <1>12, <1>13
<1>15. sel \subseteq mem.proofs /\ sel \subseteq Proof
  BY <1>3 DEF Selections, Coverings
<1>16. MintGrows(given)
  BY <1>3, <1>11, <1>14, <1>15, MintMoves
<1>17. /\ mem' \in WalletType /\ mem'.counter = mem.counter + b
       /\ mem'.proofs = IF paid THEN (mem.proofs \ sel) \cup given ELSE mem.proofs
  <2>1. PICK w : w = Advanced(b)
    OBVIOUS
  <2>2. w \in WalletType /\ w.counter = mem.counter + b /\ w.proofs = mem.proofs
    BY <1>3, <1>4, <2>1 DEF Advanced, WalletType
  <2>3. mem' = [w EXCEPT !.proofs = IF paid THEN (@ \ sel) \cup given ELSE @]
    BY <1>14, <2>1
  <2> QED
    BY <1>3, <1>11, <2>2, <2>3 DEF WalletType
<1>18. OneEach(mem'.proofs, mem'.counter)
  <2>1. mem'.proofs \subseteq mem.proofs \cup given
        /\ mem.counter + b \in Nat /\ mem.counter + b <= mem.counter + b
    BY <1>3, <1>17
  <2> QED
    BY <1>11, <1>17, <2>1, OneEachSubset
<1>19. \A p \in given : p[1] < mem'.counter
  BY <1>11, <1>17 DEF OneEach
<1>20. owed' \subseteq Index
  <2>1. Idx(given) \subseteq Index /\ owed \subseteq Index
    BY <1>2, <1>11, IdxOfProofs DEF Money
  <2> QED
    BY <1>14, <2>1
<1>21. owed' \ mint'.spent \subseteq Idx(mem'.proofs)
  <2>1. owed \ mint.spent \subseteq Idx(mem.proofs) /\ mint.spent \subseteq mint'.spent
    BY <1>2, <1>16 DEF Money, MintGrows
  <2>2. CASE ~paid
    BY <1>14, <1>17, <2>1, <2>2
  <2>3. CASE paid
    <3>1. Idx(mem'.proofs) = Idx(mem.proofs \ sel) \cup Idx(given)
      BY <1>17, <2>3, IdxUnion
    <3>2. Idx(mem.proofs) \ Idx(sel) \subseteq Idx(mem.proofs \ sel)
      BY DEF Idx, Ids
    <3> QED
      BY <1>14, <2>1, <2>3, <3>1, <3>2
  <2> QED
    BY <2>2, <2>3
<1>22. Money({})' /\ mint.spent \subseteq mint'.spent
  BY <1>2, <1>11, <1>14, <1>16, <1>17, <1>18, <1>19, <1>20, <1>21, Landed DEF MeltPay
<1>23. JobOK' /\ InHand' = {}
  BY IdleJob DEF MeltPay
<1>24. Books'
  BY <1>22, BooksKept DEF MeltPay, Inv
<1>25. Counts'
  BY DEF MeltPay, Inv, Counts, funding
<1> QED
  BY <1>22, <1>23, <1>24, <1>25, Closed
LEMMA KeepsReconcileSpent ==
    ASSUME Inv, ReconcileSpent PROVE Inv'
<1>1. Money({}) /\ op = Idle
  BY ReadyIdle DEF ReconcileSpent, Ready
<1>2. mem \in WalletType /\ OneEach(mem.proofs, mem.counter)
  BY <1>1 DEF Money
<1>3. /\ mem' \in WalletType /\ mem'.counter = mem.counter
      /\ OneEach(mem'.proofs, mem'.counter)
      /\ \A p \in mem.proofs : p[1] \notin mint.spent => p \in mem'.proofs
  BY <1>2, Pruned DEF ReconcileSpent
<1>4. disk' \in BlobType /\ disk'.proofs = mem'.proofs /\ disk'.counter = mem'.counter
  BY <1>3 DEF ReconcileSpent, Persist, save, encode_envelope, BlobType, WalletType
<1>5. owed' = owed /\ mint' = mint /\ derived' = derived
  BY DEF ReconcileSpent, bounds
<1>6. owed' \ mint'.spent \subseteq Idx(mem'.proofs)
  <2> SUFFICES ASSUME NEW i \in owed, i \notin mint.spent PROVE i \in Idx(mem'.proofs)
    BY <1>5
  <2>1. i \in Idx(mem.proofs)
    BY <1>1 DEF Money
  <2>2. PICK p \in mem.proofs : p[1] = i
    BY <2>1 DEF Idx, Ids
  <2> QED
    BY <1>3, <2>2 DEF Idx, Ids
<1>7. Money({})'
  <2>1. mem'.proofs \cup {} = mem'.proofs
    OBVIOUS
  <2>2. owed' \subseteq Index /\ mint' \in MintType /\ derived' \in 0 .. MaxIndex
        /\ SignedDerived'
    BY <1>1, <1>5 DEF Money, SignedDerived
  <2> QED
    BY <1>3, <1>4, <1>6, <2>1, <2>2 DEF Money
<1>8. JobOK' /\ InHand' = {}
  BY <1>1, IdleJob DEF ReconcileSpent
<1>9. Books' /\ Counts'
  BY DEF ReconcileSpent, Inv, Books, Counts, DroppedSpent, records, funding, bounds
<1> QED
  BY <1>7, <1>8, <1>9, Closed

LEMMA KeepsRestore ==
    ASSUME Inv, Restore
    PROVE  /\ Inv'
           /\ \A i \in Index : mint.latest[i] # 0 /\ i < mem.counter + Headroom
                                  => i \in Idx(mem'.proofs)
<1>1. Money({}) /\ op = Idle
  BY ReadyIdle DEF Restore, Ready
<1>2. mem \in WalletType /\ OneEach(mem.proofs, mem.counter) /\ mint \in MintType
  BY <1>1 DEF Money
<1>3. Recovered(mem, mint, mem')
  BY <1>2, RestoreSound DEF Restore
<1>4. /\ mem' \in WalletType /\ OneEach(mem'.proofs, mem'.counter)
      /\ mem.proofs \subseteq mem'.proofs
      /\ \A i \in Index : mint.latest[i] # 0 /\ i < mem.counter + Headroom
                             => i \in Idx(mem'.proofs)
  BY <1>3 DEF Recovered
<1>5. MintGrows({})
  BY <1>2 DEF MintGrows, Restore
<1>6. owed' \subseteq Index
  <2>1. mem'.proofs \subseteq Proof /\ owed \subseteq Index
    BY <1>1, <1>4 DEF Money, WalletType
  <2> QED
    BY <2>1, IdxOfProofs DEF Restore
<1>7. owed' \ mint'.spent \subseteq Idx(mem'.proofs)
  <2>1. Idx(mem.proofs) \subseteq Idx(mem'.proofs)
    BY <1>4 DEF Idx, Ids
  <2>2. owed \ mint.spent \subseteq Idx(mem.proofs)
    BY <1>1 DEF Money
  <2> QED
    BY <2>1, <2>2 DEF Restore
<1>8. Money({})'
  <2>1. {} \subseteq Proof /\ (\A p \in {} : p[1] < mem'.counter)
        /\ disk' = encode_envelope(mem') /\ Track
    BY DEF Restore, Persist, save
  <2> QED
    BY <1>1, <1>4, <1>5, <1>6, <1>7, <2>1, Landed
<1>9. JobOK' /\ InHand' = {}
  BY <1>1, IdleJob DEF Restore
<1>10. Books' /\ Counts'
  BY DEF Restore, Inv, Books, Counts, DroppedSpent, records, funding
<1> QED
  BY <1>4, <1>8, <1>9, <1>10, Closed

LEMMA KeepsCrash ==
    ASSUME Inv, Crash PROVE Inv'
<1>1. Money({})'
  <2>1. disk \in BlobType /\ OneEach(disk.proofs, disk.counter)
        /\ mint \in MintType /\ derived \in 0 .. MaxIndex /\ SignedDerived
    BY DEF Inv, Money
  <2>2. mem' \in WalletType /\ mem'.proofs = {} /\ mem'.counter = 0
    BY WalletAssumption DEF Crash, NoWallet, WalletType
  <2>3. OneEach(mem'.proofs, mem'.counter) /\ mem'.proofs \cup {} = mem'.proofs
    BY <2>2, OneEachNone
  <2> QED
    BY <2>1, <2>2, <2>3 DEF Crash, Money, SignedDerived
<1>2. JobOK' /\ InHand' = {}
  BY IdleJob DEF Crash
<1>3. Books'
  BY DEF Crash, Inv, Books, DroppedSpent
<1>4. Counts'
  BY WalletAssumption DEF Crash, Inv, Counts, funding
<1> QED
  BY <1>1, <1>2, <1>3, <1>4, Closed

LEMMA KeepsRestart ==
    ASSUME Inv, Restart PROVE Inv'
<1>1. op = Idle
  BY DEF Restart, Inv, JobOK
<1>2. disk \in BlobType /\ OneEach(disk.proofs, disk.counter)
      /\ mint \in MintType /\ derived \in 0 .. MaxIndex /\ SignedDerived
  BY DEF Inv, Money
<1>3. mem' \in WalletType /\ OneEach(mem'.proofs, mem'.counter)
  <2>1. CASE disk.intact
    <3>1. mem' = [counter |-> disk.counter, proofs |-> disk.proofs]
      BY <2>1 DEF Restart, decode_envelope
    <3> QED
      BY <1>2, <3>1 DEF BlobType, WalletType
  <2>2. CASE ~disk.intact
    <3>1. mem' \in WalletType /\ mem'.proofs = {} /\ mem'.counter = 0
      BY <2>2, WalletAssumption DEF Restart, decode_envelope, NoWallet, WalletType
    <3> QED
      BY <3>1, OneEachNone
  <2> QED
    BY <2>1, <2>2
<1>4. Money({})'
  <2>1. mem'.proofs \cup {} = mem'.proofs
    OBVIOUS
  <2>2. owed' = Idx(mem'.proofs) /\ owed' \subseteq Index
    BY <1>3, IdxOfProofs DEF Restart, WalletType
  <2> QED
    BY <1>2, <1>3, <2>1, <2>2 DEF Restart, Money, SignedDerived, bounds
<1>5. JobOK' /\ InHand' = {}
  BY <1>1, IdleJob DEF Restart
<1>6. Books'
  BY DEF Restart, Inv, Books, DroppedSpent
<1>7. Counts'
  BY DEF Restart, Inv, Counts, funding, bounds
<1> QED
  BY <1>4, <1>5, <1>6, <1>7, Closed

LEMMA KeepsConnect ==
    ASSUME Inv, Connect PROVE Inv'
<1>1. op = Idle
  BY DEF Connect, Inv, JobOK
<1>2. Money({})
  BY <1>1, ReadyIdle
<1>3. Money({})'
  BY <1>2 DEF Connect, Money, bounds, SignedDerived
<1>4. JobOK' /\ InHand' = {}
  BY <1>1, IdleJob DEF Connect
<1>5. Books' /\ Counts'
  BY DEF Connect, Inv, Books, Counts, DroppedSpent, records, funding, bounds
<1> QED
  BY <1>3, <1>4, <1>5, Closed

LEMMA KeepsRot ==
    ASSUME Inv, Rot PROVE Inv'
<1>1. op = Idle
  BY DEF Rot, Inv, JobOK
<1>2. Money({})
  BY <1>1, ReadyIdle
<1>3. disk' \in BlobType /\ disk'.proofs = disk.proofs /\ disk'.counter = disk.counter
  BY <1>2 DEF Rot, Money, BlobType
<1>4. Money({})'
  BY <1>2, <1>3 DEF Rot, Money, bounds, SignedDerived
<1>5. JobOK' /\ InHand' = {}
  BY <1>1, IdleJob DEF Rot
<1>6. Books' /\ Counts'
  BY DEF Rot, Inv, Books, Counts, DroppedSpent, records, funding, bounds
<1> QED
  BY <1>4, <1>5, <1>6, Closed

LEMMA KeepsClaim ==
    ASSUME Inv, NEW t \in handed, Claim(t) PROVE Inv'
<1>1. Idx(t) \subseteq Index
  BY IdxOfProofs DEF Inv, Books, Tokens
<1>2. mint \in MintType
  BY DEF Inv, Money
<1>3. mint' \in MintType /\ mint'.latest = mint.latest /\ mint.spent \subseteq mint'.spent
  BY <1>1, <1>2 DEF Claim, MintType
<1>4. InHand' = InHand
  BY DEF Claim, InHand
<1>5. Money(InHand)'
  BY <1>3, <1>4 DEF Claim, Inv, Money, bounds, SignedDerived
<1>6. JobOK'
  BY DEF Claim, Inv, JobOK, Blanks
<1>7. Books'
  BY <1>3, BooksKept DEF Claim, Inv
<1>8. Counts'
  BY DEF Claim, Inv, Counts, funding, bounds
<1> QED
  BY <1>5, <1>6, <1>7, <1>8 DEF Inv
-----------------------------------------------------------------------------
(* The theorems.                                                           *)

LEMMA InvInit == ASSUME Init PROVE Inv
<1>1. op = Idle /\ InHand = {}
  BY DEF Init, InHand, Idle
<1>2. mem \in WalletType /\ mem.proofs = {} /\ mem.counter = 0
  BY WalletAssumption DEF Init, NoWallet, WalletType
<1>3. disk \in BlobType /\ disk.proofs = {} /\ disk.counter = 0
  BY WalletAssumption DEF Init, NoBlob, BlobType
<1>4. mint \in MintType /\ \A i \in Index : mint.latest[i] = 0
  BY DEF Init, MintType
<1>5. mem.proofs \cup InHand = {} /\ OneEach({}, 0)
  BY <1>1, <1>2, OneEachNone
<1>6. Money(InHand)
  <2>1. OneEach(mem.proofs \cup InHand, mem.counter) /\ OneEach(disk.proofs, disk.counter)
    BY <1>2, <1>3, <1>5
  <2>2. SignedDerived
    BY <1>4 DEF SignedDerived
  <2>3. owed = {} /\ derived \in 0 .. MaxIndex
    BY WalletAssumption DEF Init
  <2> QED
    BY <1>2, <1>3, <1>4, <2>1, <2>2, <2>3 DEF Money
<1>7. JobOK
  BY <1>1 DEF JobOK, Job, Idling, Idle
<1>8. Books /\ Counts
  BY WalletAssumption DEF Init, Books, Counts, DroppedSpent
<1> QED
  BY <1>6, <1>7, <1>8 DEF Inv

LEMMA InvNext == ASSUME Inv, [Next]_vars PROVE Inv'
<1>1. CASE UNCHANGED vars
  <2>1. InHand' = InHand
    BY <1>1 DEF vars, InHand
  <2>2. Money(InHand)'
    BY <1>1, <2>1 DEF vars, Inv, Money, SignedDerived
  <2>3. JobOK'
    BY <1>1 DEF vars, Inv, JobOK, Blanks
  <2>4. Books' /\ Counts'
    BY <1>1 DEF vars, Inv, Books, Counts, DroppedSpent
  <2> QED
    BY <2>2, <2>3, <2>4 DEF Inv
<1>2. CASE Fund
  BY <1>2, KeepsMintPaidQuote, KeepsReceiveToken, KeepsReceiveGroup DEF Fund
<1>3. CASE Send
  BY <1>3, KeepsSendSelect, KeepsSendSwapped, KeepsSendRejected, KeepsSendAmbiguous,
     KeepsHandOver, KeepsSaveState, KeepsCheckPendingSend, KeepsReclaimPending DEF Send
<1>4. CASE Melt
  BY <1>4, KeepsMeltSelect, KeepsMeltUnderflow, KeepsMeltSwap, KeepsMeltPay DEF Melt
<1>5. CASE Recover
  BY <1>5, KeepsReconcileSpent, KeepsRestore DEF Recover
<1>6. CASE World
  BY <1>6, KeepsCrash, KeepsRestart, KeepsConnect, KeepsRot, KeepsClaim DEF World
<1> QED
  BY <1>1, <1>2, <1>3, <1>4, <1>5, <1>6 DEF Next

LEMMA InvAlways == Spec => []Inv
BY InvInit, InvNext, PTL DEF Spec

\* The wallet's state is well formed in every reachable state: indices stay
\* below the bound, records are nonempty sets of proofs.
THEOREM TypeCorrect == Spec => []TypeOK
<1>1. Inv => TypeOK
  <2> SUFFICES ASSUME Inv PROVE TypeOK
    OBVIOUS
  <2>1. op.kind \in {"idle", "receive", "send", "handover", "melt", "pay", "save"}
    BY JobKinds DEF Inv, JobOK
  <2>2. \A t \in pending \cup saved \cup handed : t # {} /\ t \subseteq Proof
    BY DEF Inv, Books, Tokens
  <2> QED
    BY <2>1, <2>2 DEF TypeOK, Inv, Money, Books, Counts, WalletType, BlobType, MintType
<1> QED
  BY <1>1, InvAlways, PTL

\* In memory and in the store every proof has an index below the counter, and
\* no two have the same: no operation derives the secret of a held proof
\* (deterministic_outputs), and no balance counts a secret twice.
THEOREM SecretsAreFresh == Spec => []HeldBelowCounter
<1>1. Inv => HeldBelowCounter
  <2> SUFFICES ASSUME Inv, NEW w \in {mem, decode_envelope(disk)}
               PROVE  /\ \A p \in w.proofs : p[1] < w.counter
                      /\ Cardinality(Idx(w.proofs)) = Cardinality(w.proofs)
    BY DEF HeldBelowCounter
  <2>1. PICK c \in Nat : c = w.counter /\ OneEach(w.proofs, c)
    <3>1. CASE w = mem
      <4>1. mem.counter \in Nat /\ mem.counter <= mem.counter
            /\ OneEach(mem.proofs \cup InHand, mem.counter)
        BY WalletAssumption DEF Inv, Money, WalletType
      <4>2. OneEach(mem.proofs, mem.counter)
        BY <4>1, OneEachSubset
      <4> QED
        BY <3>1, <4>1, <4>2
    <3>2. CASE w = decode_envelope(disk)
      <4>1. disk.counter \in Nat /\ OneEach(disk.proofs, disk.counter)
        BY WalletAssumption DEF Inv, Money, BlobType
      <4>2. (w.counter = disk.counter /\ w.proofs = disk.proofs)
            \/ (w.counter = 0 /\ w.proofs = {})
        BY <3>2 DEF decode_envelope, NoWallet
      <4> QED
        BY <4>1, <4>2, OneEachNone
    <3> QED
      BY <3>1, <3>2
  <2>2. Cardinality(Idx(w.proofs)) = Cardinality(w.proofs)
    BY <2>1, OneEachCounted
  <2> QED
    BY <2>1, <2>2 DEF OneEach
<1> QED
  BY <1>1, InvAlways, PTL

\* A proof credited to the running wallet, not handed out and not spent at the
\* mint, is in the store or in the hands of the job in progress, whatever
\* requests and replies were lost (spend, undo_spend, the melt's failed paths).
THEOREM NothingIsLost == Spec => []CreditedStaysHeld
<1>1. Inv => CreditedStaysHeld
  <2> SUFFICES ASSUME Inv PROVE CreditedStaysHeld
    OBVIOUS
  <2>1. owed \ mint.spent \subseteq Idx(mem.proofs) \cup Idx(InHand)
    BY IdxUnion DEF Inv, Money
  <2>2. Idx(InHand) = IF op.kind \in {"send", "melt"} THEN Idx(op.sel) ELSE {}
    BY DEF InHand, Idx, Ids
  <2> QED
    BY <2>1, <2>2 DEF CreditedStaysHeld
<1> QED
  BY <1>1, InvAlways, PTL

\* Only finish_job's save changes the saved records.
LEMMA SavedBySave ==
    ASSUME [Next]_vars, saved' # saved PROVE SaveState
<1>1. CASE UNCHANGED vars
  BY <1>1 DEF vars
<1>2. CASE Fund
  BY <1>2 DEF Fund, MintPaidQuote, ReceiveToken, ReceiveGroup, records
<1>3. CASE Send
  BY <1>3 DEF Send, SendSelect, SendSwapped, SendRejected, SendAmbiguous, HandOver,
     CheckPendingSend, ReclaimPending, records
<1>4. CASE Melt
  BY <1>4 DEF Melt, MeltSelect, MeltUnderflow, MeltSwap, MeltPay, records
<1>5. CASE Recover
  BY <1>5 DEF Recover, ReconcileSpent, Restore, records
<1>6. CASE World
  BY <1>6 DEF World, Crash, Restart, Connect, Rot, Claim, records
<1> QED
  BY <1>1, <1>2, <1>3, <1>4, <1>5, <1>6 DEF Next

\* A record of a send leaves the saved state only when the mint has every proof
\* of its token spent (reclaim_pending, check_pending_send, finish_job).
THEOREM RecordsOutliveTokens == Spec => PendingKeptWhileLive
<1>1. Inv /\ [Next]_vars =>
         [\A token \in saved \ saved' : Idx(token) \subseteq mint'.spent]_vars
  <2> SUFFICES ASSUME Inv, [Next]_vars
               PROVE  \A token \in saved \ saved' : Idx(token) \subseteq mint'.spent
    OBVIOUS
  <2>1. CASE saved' = saved
    BY <2>1
  <2>2. CASE saved' # saved
    BY <2>2, SavedBySave, KeepsSaveState
  <2> QED
    BY <2>1, <2>2
<1> QED
  BY <1>1, InvAlways, PTL DEF Spec, PendingKeptWhileLive

-----------------------------------------------------------------------------
(* What a restore brings back, and what was signed twice.                  *)

\* A held proof is the signature on record, in memory, in hand and in a store
\* that can be read; the counter of such a store is not ahead of the running
\* wallet's; and until the first restart no index was signed twice, because
\* the counter is past every derivation.
Sound ==
    /\ \A p \in mem.proofs \cup InHand : mint.latest[p[1]] = p[2]
    /\ disk.intact => \A p \in disk.proofs : mint.latest[p[1]] = p[2]
    /\ disk.intact /\ engine # "down" => disk.counter <= mem.counter
    /\ crashes = 0 => engine # "down" /\ mint.again = {} /\ derived <= mem.counter

\* What the mint signs, and what it leaves alone.
LEMMA SignedLatest ==
    ASSUME mint \in MintType, NEW outs, outs \subseteq Proof, NEW c, NEW n,
           Fresh(outs, c, n), NEW ins, MintSigns(ins, outs) \/ UNCHANGED mint
    PROVE  /\ \A i \in Index \ Idx(outs) : mint'.latest[i] = mint.latest[i]
           /\ MintSigns(ins, outs) => \A p \in outs : mint'.latest[p[1]] = p[2]
           /\ mint'.again \subseteq mint.again \cup {i \in Idx(outs) : mint.latest[i] # 0}
<1>1. ASSUME MintSigns(ins, outs), NEW p \in outs PROVE mint'.latest[p[1]] = p[2]
  <2>1. p[1] \in Index /\ p[1] \in Idx(outs)
    BY ProofParts DEF Idx, Ids
  <2>2. PICK q \in outs : q = CHOOSE x \in outs : x[1] = p[1]
    OBVIOUS
  <2>3. q[1] = p[1]
    BY <2>2
  <2>4. q = p
    BY <2>3 DEF Fresh
  <2> QED
    BY <1>1, <2>1, <2>2, <2>4 DEF MintSigns, Sign
<1>2. ASSUME NEW i \in Index \ Idx(outs) PROVE mint'.latest[i] = mint.latest[i]
  BY <1>2 DEF MintSigns, Sign
<1>3. mint'.again \subseteq mint.again \cup {i \in Idx(outs) : mint.latest[i] # 0}
  BY DEF MintSigns
<1> QED
  BY <1>1, <1>2, <1>3

\* A step of the running wallet: outputs from the counter on may be signed,
\* the counter passes them, and what is held was held or is on record.
LEMMA SoundStep ==
    ASSUME Inv, Inv', Sound, engine # "down", engine' # "down", UNCHANGED crashes,
           NEW n \in Nat, NEW outs, Fresh(outs, mem.counter, n), outs \subseteq Proof,
           NEW ins, MintSigns(ins, outs) \/ UNCHANGED mint,
           mem.counter + n <= mem'.counter,
           \A p \in mem'.proofs \cup InHand' :
              p \in mem.proofs \cup InHand \/ mint'.latest[p[1]] = p[2],
           disk' = disk \/ disk' = encode_envelope(mem'),
           derived' = derived \/ derived' = mem'.counter
    PROVE  Sound'
<1>1. /\ mem.counter \in Nat /\ mem'.counter \in Nat /\ disk.counter \in Nat
      /\ derived \in Nat /\ derived' \in Nat /\ mint \in MintType
      /\ mem.counter <= mem'.counter
  <2>1. /\ mem.counter \in Nat /\ mem'.counter \in Nat /\ disk.counter \in Nat
        /\ derived \in Nat /\ derived' \in Nat /\ mint \in MintType
    BY WalletAssumption DEF Inv, Money, WalletType, BlobType
  <2> QED
    BY <2>1
<1>2. /\ \A i \in Index \ Idx(outs) : mint'.latest[i] = mint.latest[i]
      /\ mint'.again \subseteq mint.again \cup {i \in Idx(outs) : mint.latest[i] # 0}
  BY <1>1, SignedLatest
<1>3. \A i \in Idx(outs) : i \in Index /\ i >= mem.counter
  <2> SUFFICES ASSUME NEW p \in outs PROVE p[1] \in Index /\ p[1] >= mem.counter
    BY DEF Idx, Ids
  <2> QED
    BY <1>1, ProofParts DEF Fresh
<1>4. ASSUME NEW p \in mem.proofs \cup InHand PROVE mint'.latest[p[1]] = p[2]
  <2>1. p[1] \in Index /\ p[1] < mem.counter
    BY ProofParts DEF Inv, Money, OneEach
  <2>2. p[1] \notin Idx(outs)
    BY <1>1, <1>3, <2>1, IndexFinite
  <2> QED
    BY <1>2, <2>1, <2>2 DEF Sound
<1>5. \A p \in mem'.proofs \cup InHand' : mint'.latest[p[1]] = p[2]
  BY <1>4
<1>6. disk'.intact => \A p \in disk'.proofs : mint'.latest[p[1]] = p[2]
  <2>1. CASE disk' = encode_envelope(mem')
    BY <1>5, <2>1 DEF encode_envelope
  <2>2. CASE disk' = disk
    <3> SUFFICES ASSUME disk.intact, NEW p \in disk.proofs
                 PROVE  mint'.latest[p[1]] = p[2]
      BY <2>2
    <3>1. p[1] \in Index /\ p[1] \in Nat /\ p[1] < disk.counter
      BY ProofParts, IndexFinite DEF Inv, Money, OneEach
    <3>2. disk.counter <= mem.counter
      BY DEF Sound
    <3>3. p[1] \notin Idx(outs)
      BY <1>1, <1>3, <3>1, <3>2
    <3> QED
      BY <1>2, <3>1, <3>3 DEF Sound
  <2> QED
    BY <2>1, <2>2
<1>7. disk'.intact => disk'.counter <= mem'.counter
  <2>1. CASE disk' = encode_envelope(mem')
    BY <1>1, <2>1 DEF encode_envelope
  <2>2. CASE disk' = disk
    BY <1>1, <2>2 DEF Sound
  <2> QED
    BY <2>1, <2>2
<1>8. crashes' = 0 => mint'.again = {} /\ derived' <= mem'.counter
  <2> SUFFICES ASSUME crashes = 0
               PROVE  mint'.again = {} /\ derived' <= mem'.counter
    OBVIOUS
  <2>1. mint.again = {} /\ derived <= mem.counter
    BY DEF Sound
  <2>2. ASSUME NEW i \in Idx(outs) PROVE mint.latest[i] = 0
    <3>1. i \in Index /\ i \in Nat /\ i >= mem.counter
      BY <1>3, IndexFinite
    <3>2. ~(i < derived)
      BY <1>1, <2>1, <3>1
    <3> QED
      BY <3>1, <3>2 DEF Inv, Money, SignedDerived
  <2> QED
    BY <1>1, <1>2, <2>1, <2>2
<1> QED
  BY <1>5, <1>6, <1>7, <1>8 DEF Sound

LEMMA TrackedOne ==
    ASSUME Inv, Inv', Track PROVE derived' = derived \/ derived' = mem'.counter
<1> DEFINE S == {derived, mem'.counter}
<1>1. IsFiniteSet(S) /\ S # {} /\ \A x \in S : x \in Int
  <2>1. derived \in 0 .. MaxIndex /\ mem'.counter \in 0 .. MaxIndex
    BY DEF Inv, Money, WalletType
  <2>2. IsFiniteSet(0 .. MaxIndex) /\ S \in SUBSET (0 .. MaxIndex)
    BY <2>1, FS_Interval, WalletAssumption
  <2>3. IsFiniteSet(S)
    BY <2>2, FS_Subset
  <2> QED
    BY <2>1, <2>3, WalletAssumption
<1> HIDE DEF S
<1>2. Max(S) \in S
  BY <1>1, MaxOf
<1> QED
  BY <1>2 DEF Track, S

\* A step that leaves the mint's signatures alone.
LEMMA SoundQuiet ==
    ASSUME Inv, Inv', Sound, engine # "down", engine' # "down", UNCHANGED crashes,
           UNCHANGED mint, mem.counter <= mem'.counter,
           \A p \in mem'.proofs \cup InHand' :
              p \in mem.proofs \cup InHand \/ mint.latest[p[1]] = p[2],
           disk' = disk \/ disk' = encode_envelope(mem'),
           derived' = derived \/ derived' = mem'.counter
    PROVE  Sound'
<1>1. mem.counter \in Nat
  BY WalletAssumption DEF Inv, Money, WalletType
<1>2. Fresh({}, mem.counter, 0) /\ {} \subseteq Proof
  BY FS_EmptySet DEF Fresh
<1>3. mem.counter + 0 <= mem'.counter
  BY <1>1
<1> QED
  BY <1>2, <1>3, SoundStep

\* The jobs that are one derivation.
LEMMA SoundSwap ==
    ASSUME Inv, Inv', Sound, InHand = {}, InHand' = {}, engine = "connected",
           UNCHANGED <<engine, crashes>>, NEW n \in Nat, NEW outs,
           Fresh(outs, mem.counter, n), NEW ins, NEW accepted \in BOOLEAN, NEW net,
           swap_deterministic(accepted, ins, outs, net)
    PROVE  Sound'
<1>1. mem \in WalletType /\ mem.counter \in Nat /\ mint \in MintType
      /\ Cardinality(outs) = n
  BY WalletAssumption DEF Inv, Money, WalletType, Fresh
<1>2. outs \subseteq Proof
  <2>1. mem.counter + n <= MaxIndex
    BY <1>1 DEF swap_deterministic
  <2>2. OneEach({}, mem.counter) /\ n <= n
    BY <1>1, OneEachNone
  <2> QED
    BY <1>1, <2>1, <2>2, OneEachFresh
<1>3. MintSigns(ins, outs) \/ UNCHANGED mint
  BY DEF swap_deterministic
<1>4. derived' = derived \/ derived' = mem'.counter
  BY TrackedOne DEF swap_deterministic
<1>5. CASE Answered(accepted, net)
  <2>1. mem'.counter = mem.counter + n /\ mem'.proofs = mem.proofs \cup outs
        /\ disk' = encode_envelope(mem')
    BY <1>1, <1>5 DEF swap_deterministic, Credit, Persist, save
  <2>2. MintSigns(ins, outs)
    BY <1>5 DEF swap_deterministic, Answered, Reaches, Ambiguous
  <2>3. \A p \in outs : mint'.latest[p[1]] = p[2]
    BY <1>1, <1>2, <2>2, SignedLatest
  <2>4. mem.counter + n <= mem'.counter
    BY <1>1, <2>1
  <2>5. \A p \in mem'.proofs \cup InHand' :
           p \in mem.proofs \cup InHand \/ mint'.latest[p[1]] = p[2]
    BY <2>1, <2>3
  <2>6. engine # "down" /\ engine' # "down"
    OBVIOUS
  <2> QED
    BY <1>2, <1>3, <1>4, <2>1, <2>4, <2>5, <2>6, SoundStep
<1>6. CASE ~Answered(accepted, net)
  <2>1. mem'.counter = mem.counter + n /\ mem'.proofs = mem.proofs /\ disk' = disk
    BY <1>1, <1>6 DEF swap_deterministic, Failed, Advanced, WalletType
  <2>2. mem.counter + n <= mem'.counter
    BY <1>1, <2>1
  <2>3. \A p \in mem'.proofs \cup InHand' :
           p \in mem.proofs \cup InHand \/ mint'.latest[p[1]] = p[2]
    BY <2>1
  <2>4. engine # "down" /\ engine' # "down"
    OBVIOUS
  <2> QED
    BY <1>2, <1>3, <1>4, <2>1, <2>2, <2>3, <2>4, SoundStep
<1> QED
  BY <1>5, <1>6

LEMMA SoundFund ==
    ASSUME Inv, Inv', Sound, Fund PROVE Sound'
<1>0. mem.counter \in Nat
  BY WalletAssumption DEF Inv, Money, WalletType
<1>1. ASSUME NEW q \in Quotes, NEW net \in Net, MintPaidQuote(q, net) PROVE Sound'
  <2>1. op = Idle /\ op' = Idle /\ engine = "connected" /\ UNCHANGED <<engine, crashes>>
    BY <1>1 DEF MintPaidQuote, Ready
  <2>2. InHand = {} /\ InHand' = {}
    BY <2>1, ReadyIdle, IdleJob
  <2>3. PICK amounts \in Seq(Coin) : amounts = Decompose(QuoteAmount[q])
    BY DecomposeCoins, WalletAssumption
  <2>4. Fresh(Outputs(amounts), mem.counter, Len(amounts)) /\ Len(amounts) \in Nat
    BY <1>0, OutputsFresh
  <2>5. PICK ok \in BOOLEAN : ok <=> q \notin minted
    OBVIOUS
  <2>6. swap_deterministic(ok, {}, Outputs(amounts), net)
    BY <1>1, <2>3, <2>5 DEF MintPaidQuote, mint_deterministic
  <2> QED
    BY <2>1, <2>2, <2>4, <2>6, SoundSwap
<1>2. ASSUME NEW t \in Incoming, ReceiveToken(t) PROVE Sound'
  <2>1. /\ op = Idle /\ engine = "connected"
        /\ UNCHANGED <<mem, disk, engine, mint, crashes, derived>>
        /\ op' = [kind |-> "receive", token |-> t, at |-> 1]
    BY <1>2 DEF ReceiveToken, Ready, bounds
  <2>2. InHand = {} /\ InHand' = {}
    BY <2>1, ReadyIdle DEF InHand
  <2> QED
    BY <2>1, <2>2 DEF Sound
<1>3. ASSUME NEW net \in Net, ReceiveGroup(net) PROVE Sound'
  <2>1. op.kind = "receive"
    BY <1>3 DEF ReceiveGroup
  <2>2. op \in Receiving /\ InHand = {} /\ engine = "connected"
    BY <2>1, ReadyMeans, Running, JobKinds DEF Inv, JobOK, Idle
  <2>3. op.token \in Incoming /\ op.at \in Nat
    BY <2>2 DEF Receiving
  <2>4. PICK groups \in Seq(Group) : groups = decode_token_any(Text[op.token])
    BY <2>3, TextAssumption
  <2>5. op.at \in 1 .. Len(groups)
    BY <2>1, <2>4 DEF Inv, JobOK
  <2>6. PICK value \in Int : value = group_net(groups[op.at])
    BY <2>5, GroupNet
  <2>7. PICK ok \in BOOLEAN : ok <=> /\ value > 0
                     /\ resolve_v3_keyset_prefix(groups[op.at].id) = ActiveKeyset
                     /\ <<op.token, op.at>> \notin redeemed
    OBVIOUS
  <2>8. PICK outs : outs = IF value < 0 THEN {} ELSE Outputs(Decompose(value))
    OBVIOUS
  <2>9. \E n \in Nat : Fresh(outs, mem.counter, n)
    <3>1. Fresh({}, mem.counter, 0)
      BY FS_EmptySet DEF Fresh
    <3>2. PICK amounts \in Seq(Coin) : amounts = Decompose(value)
      BY DecomposeCoins
    <3>3. Fresh(Outputs(amounts), mem.counter, Len(amounts)) /\ Len(amounts) \in Nat
      BY <1>0, OutputsFresh
    <3> QED
      BY <2>8, <3>1, <3>2, <3>3
  <2>10. /\ swap_deterministic(ok, {}, outs, net)
         /\ op' = Idle \/ op' = [op EXCEPT !.at = @ + 1]
         /\ UNCHANGED <<engine, crashes>>
    BY <1>3, <2>4, <2>6, <2>7, <2>8 DEF ReceiveGroup
  <2>11. InHand' = {}
    <3>1. op' = Idle \/ op'.kind = "receive"
      BY <2>2, <2>10 DEF Receiving
    <3> QED
      BY <3>1, IdleJob DEF InHand
  <2> QED
    BY <2>2, <2>9, <2>10, <2>11, SoundSwap
<1> QED
  BY <1>1, <1>2, <1>3 DEF Fund

\* A swap of a job's selection: answered and credited, or undone.
LEMMA SoundSwapped ==
    ASSUME Inv, Inv', Sound, op.kind \in {"send", "melt"}, InHand' = {},
           UNCHANGED <<engine, crashes>>, NEW outs, outs = Outputs(op.amounts),
           MintSigns(op.sel, outs) \/ UNCHANGED mint, Track,
           \/ MintSigns(op.sel, outs) /\ Credit(outs)
           \/ mem' = undo_spend(Advanced(Len(op.amounts)), op.sel) /\ Persist
    PROVE  Sound'
<1>1. PICK kind \in {"send", "melt"} : op.kind = kind
  OBVIOUS
<1>2. PICK n \in Nat : n = Len(op.amounts)
  BY <1>1, SwapStart
<1>3. /\ engine = "connected" /\ mem.counter \in Nat /\ mem \in WalletType
      /\ mint \in MintType /\ outs \subseteq Proof /\ Cardinality(outs) = n
      /\ Fresh(outs, mem.counter, n) /\ InHand = op.sel /\ op.sel \subseteq Proof
  BY <1>1, <1>2, SwapStart DEF InHand
<1>4. engine # "down" /\ engine' # "down"
      /\ (derived' = derived \/ derived' = mem'.counter)
  BY <1>3, TrackedOne
<1>5. CASE MintSigns(op.sel, outs) /\ Credit(outs)
  <2>1. mem'.counter = mem.counter + n /\ mem'.proofs = mem.proofs \cup outs
        /\ disk' = encode_envelope(mem')
    BY <1>3, <1>5 DEF Credit, Persist, save
  <2>2. \A p \in outs : mint'.latest[p[1]] = p[2]
    BY <1>3, <1>5, SignedLatest
  <2>3. mem.counter + n <= mem'.counter
    BY <1>3, <2>1
  <2>4. \A p \in mem'.proofs \cup InHand' :
           p \in mem.proofs \cup InHand \/ mint'.latest[p[1]] = p[2]
    BY <2>1, <2>2
  <2> QED
    BY <1>3, <1>4, <2>1, <2>3, <2>4, SoundStep
<1>6. CASE mem' = undo_spend(Advanced(Len(op.amounts)), op.sel) /\ Persist
  <2>1. mem'.counter = mem.counter + n /\ mem'.proofs = mem.proofs \cup op.sel
        /\ disk' = encode_envelope(mem')
    BY <1>2, <1>3, <1>6 DEF undo_spend, Advanced, WalletType, Persist, save
  <2>2. mem.counter + n <= mem'.counter
    BY <1>3, <2>1
  <2>3. \A p \in mem'.proofs \cup InHand' :
           p \in mem.proofs \cup InHand \/ mint'.latest[p[1]] = p[2]
    BY <1>3, <2>1
  <2> QED
    BY <1>3, <1>4, <2>1, <2>2, <2>3, SoundStep
<1> QED
  BY <1>5, <1>6

LEMMA SoundSelect ==
    ASSUME Inv, Inv', Sound, op = Idle, engine = "connected", NEW sel,
           sel \subseteq mem.proofs, mem' = remove_proofs(mem, sel), Persist,
           InHand' = sel \/ InHand' = {}, UNCHANGED <<engine, mint, crashes, derived>>
    PROVE  Sound'
<1>1. mem \in WalletType /\ mem.counter \in Nat /\ InHand = {}
  <2>1. mem \in WalletType
    BY DEF Inv, Money
  <2>2. mem.counter \in Nat
    BY <2>1, WalletAssumption DEF WalletType
  <2>3. InHand = {}
    BY ReadyIdle
  <2> QED
    BY <2>1, <2>2, <2>3
<1>2. mem'.counter = mem.counter /\ mem'.proofs = mem.proofs \ sel
      /\ disk' = encode_envelope(mem') /\ mem.counter <= mem'.counter
  BY <1>1 DEF remove_proofs, WalletType, Persist, save
<1>3. \A p \in mem'.proofs \cup InHand' : p \in mem.proofs \cup InHand
  BY <1>1, <1>2
<1>4. engine # "down" /\ engine' # "down"
  OBVIOUS
<1> QED
  BY <1>2, <1>3, <1>4, SoundQuiet

LEMMA RestoredLatest ==
    ASSUME NEW w, NEW m
    PROVE  \A p \in Restored(w, m).proofs : p \in w.proofs \/ m.latest[p[1]] = p[2]
BY DEF Restored

LEMMA SoundAmbiguous ==
    ASSUME Inv, Inv', Sound, NEW net, NEW reconciled \in BOOLEAN, NEW restored \in BOOLEAN,
           SendAmbiguous(net, reconciled, restored)
    PROVE  Sound'
<1>1. PICK outs : outs = Outputs(op.amounts)
  OBVIOUS
<1>2. PICK w : w = undo_spend(Advanced(Len(op.amounts)), op.sel)
  OBVIOUS
<1>3. PICK r : r = IF reconciled THEN Reconciled(w, mint') ELSE w
  OBVIOUS
<1>4. /\ op.kind = "send" /\ (MintSigns(op.sel, outs) \/ UNCHANGED mint)
      /\ mem' = IF restored THEN Restored(r, mint') ELSE r
      /\ Persist /\ Track /\ UNCHANGED <<engine, crashes>>
  BY <1>1, <1>2, <1>3 DEF SendAmbiguous, PostSwap
<1>5. InHand' = {}
  <2>1. op' = Idle \/ \E exact : op' = [kind |-> "handover", proofs |-> exact]
    BY DEF SendAmbiguous
  <2> QED
    BY <2>1, IdleJob DEF InHand
<1>6. PICK n \in Nat : n = Len(op.amounts)
  BY <1>1, <1>4, SwapStart
<1>7. /\ engine = "connected" /\ mem.counter \in Nat /\ mem \in WalletType
      /\ mem.counter + n <= MaxIndex /\ mint' \in MintType
      /\ outs \subseteq Proof /\ Fresh(outs, mem.counter, n)
      /\ InHand = op.sel /\ op.sel \subseteq Proof
  <2>1. mint' \in MintType
    BY DEF Inv, Money
  <2> QED
    BY <1>1, <1>4, <1>6, <2>1, SwapStart DEF InHand
<1>8. /\ w \in WalletType /\ w.counter = mem.counter + n
      /\ w.proofs = mem.proofs \cup op.sel
  <2>1. PICK a : a = Advanced(n)
    OBVIOUS
  <2>2. a \in WalletType /\ a.counter = mem.counter + n /\ a.proofs = mem.proofs
    BY <1>7, <2>1 DEF Advanced, WalletType
  <2>3. w = [a EXCEPT !.proofs = @ \cup op.sel]
    BY <1>2, <1>6, <2>1 DEF undo_spend
  <2> QED
    BY <1>7, <2>2, <2>3 DEF WalletType
<1>9. OneEach(w.proofs, w.counter)
  <2>1. OneEach((mem.proofs \cup op.sel) \cup outs, mem.counter + n)
    BY <1>1, <1>4, <1>6, SwapStart
  <2>2. w.proofs \subseteq (mem.proofs \cup op.sel) \cup outs
        /\ mem.counter + n \in Nat /\ mem.counter + n <= mem.counter + n
    BY <1>7, <1>8
  <2> QED
    BY <1>8, <2>1, <2>2, OneEachSubset
<1>10. /\ r \in WalletType /\ r.counter = w.counter /\ OneEach(r.proofs, r.counter)
       /\ r.proofs \subseteq w.proofs
  BY <1>3, <1>8, <1>9, Pruned
<1>11. mem.counter + n <= mem'.counter
  <2>1. CASE restored
    BY <1>4, <1>7, <1>8, <1>10, <2>1, RestoreSound DEF Recovered
  <2>2. CASE ~restored
    BY <1>4, <1>7, <1>8, <1>10, <2>2
  <2> QED
    BY <2>1, <2>2
<1>12. \A p \in mem'.proofs : p \in r.proofs \/ mint'.latest[p[1]] = p[2]
  BY <1>4, RestoredLatest
<1>13. \A p \in mem'.proofs \cup InHand' :
          p \in mem.proofs \cup InHand \/ mint'.latest[p[1]] = p[2]
  BY <1>5, <1>7, <1>8, <1>10, <1>12
<1>14. /\ disk' = encode_envelope(mem') /\ engine # "down" /\ engine' # "down"
       /\ (derived' = derived \/ derived' = mem'.counter)
  BY <1>4, <1>7, TrackedOne DEF Persist, save
<1> QED
  BY <1>4, <1>7, <1>11, <1>13, <1>14, SoundStep

LEMMA SoundSend ==
    ASSUME Inv, Inv', Sound, Send PROVE Sound'
<1>1. ASSUME NEW amount \in SendAmounts, SendSelect(amount) PROVE Sound'
  <2>1. PICK hint \in Selections(amount) :
           \E sel \in Selections(amount + Fee(Cardinality(hint))) :
              LET fee == Fee(Cardinality(hint))
                  amounts == Decompose(amount) \o Decompose(Sum(sel) - amount - fee)
              IN  /\ mem' = remove_proofs(mem, sel)
                  /\ op' = [kind |-> "send", amount |-> amount, sel |-> sel,
                            amounts |-> amounts]
    BY <1>1 DEF SendSelect
  <2>2. PICK sel \in Selections(amount + Fee(Cardinality(hint))) :
           /\ mem' = remove_proofs(mem, sel)
           /\ \E amounts : op' = [kind |-> "send", amount |-> amount, sel |-> sel,
                                  amounts |-> amounts]
    BY <2>1
  <2>3. sel \subseteq mem.proofs /\ InHand' = sel
    BY <2>2 DEF Selections, Coverings, InHand
  <2> QED
    BY <1>1, <2>2, <2>3, SoundSelect DEF SendSelect, Ready, bounds
<1>2. ASSUME SendSwapped PROVE Sound'
  <2>1. InHand' = {}
    BY <1>2 DEF SendSwapped, InHand
  <2> QED
    BY <1>2, <2>1, SoundSwapped DEF SendSwapped, PostSwap, Reaches
<1>3. ASSUME NEW net \in Net, SendRejected(net) PROVE Sound'
  <2>1. InHand' = {}
    BY <1>3, IdleJob DEF SendRejected
  <2> QED
    BY <1>3, <2>1, SoundSwapped DEF SendRejected, PostSwap
<1>4. ASSUME HandOver PROVE Sound'
  <2>1. /\ op.kind = "handover" /\ mem' = remove_proofs(mem, op.proofs) /\ Persist
        /\ op' = [kind |-> "save"] /\ UNCHANGED <<engine, mint, crashes, derived>>
    BY <1>4 DEF HandOver, bounds
  <2>2. InHand = {} /\ InHand' = {} /\ engine = "connected"
    BY <2>1, ReadyMeans, Running DEF InHand, Idle
  <2>3. mem \in WalletType /\ mem.counter \in Nat
    BY WalletAssumption DEF Inv, Money, WalletType
  <2>4. mem'.counter = mem.counter /\ mem'.proofs \subseteq mem.proofs
        /\ disk' = encode_envelope(mem') /\ mem.counter <= mem'.counter
    BY <2>1, <2>3 DEF remove_proofs, WalletType, Persist, save
  <2>5. \A p \in mem'.proofs \cup InHand' : p \in mem.proofs \cup InHand
    BY <2>2, <2>4
  <2> QED
    BY <2>1, <2>2, <2>4, <2>5, SoundQuiet
<1>5. ASSUME SaveState \/ \E token \in pending : CheckPendingSend(token) PROVE Sound'
  <2>1. /\ UNCHANGED <<mem, disk, engine, mint, crashes, derived>>
        /\ op.kind \notin {"send", "melt"} /\ op'.kind \notin {"send", "melt"}
    BY <1>5 DEF SaveState, CheckPendingSend, Ready, Idle, bounds
  <2>2. InHand = {} /\ InHand' = {}
    BY <2>1 DEF InHand
  <2> QED
    BY <2>1, <2>2 DEF Sound
<1>6. ASSUME NEW t \in pending, NEW net \in Net, NEW probed \in BOOLEAN,
             ReclaimPending(t, net, probed)
      PROVE  Sound'
  <2>1. /\ op = Idle /\ engine = "connected" /\ UNCHANGED <<engine, crashes>>
        /\ op' = [kind |-> "save"]
    BY <1>6 DEF ReclaimPending, Ready
  <2>2. InHand = {} /\ InHand' = {}
    BY <2>1, ReadyIdle DEF InHand
  <2>3. t \subseteq Proof /\ IsFiniteSet(t)
    BY DEF Inv, Books, Tokens
  <2>4. PICK value \in Int : value = Sum(t) - Fee(Cardinality(t))
    <3>1. \A p \in t : p[2] \in Int
      BY <2>3, ProofParts DEF Coin
    <3>2. Sum(t) \in Int /\ Cardinality(t) \in Nat
      BY <2>3, <3>1, SumOfProofs, FS_CardinalityType
    <3>3. Fee(Cardinality(t)) \in Nat
      BY <3>2, FeeNat
    <3> QED
      BY <3>2, <3>3
  <2>5. PICK amounts \in Seq(Coin) : amounts = Decompose(value)
    BY DecomposeCoins
  <2>6. PICK outs : outs = Outputs(amounts)
    OBVIOUS
  <2>7. mem.counter \in Nat
    BY WalletAssumption DEF Inv, Money, WalletType
  <2>8. Fresh(outs, mem.counter, Len(amounts)) /\ Len(amounts) \in Nat
    BY <2>6, <2>7, OutputsFresh
  <2>9. PICK ok \in BOOLEAN : ok <=> value > 0 /\ SwapAccepted(t, outs)
    OBVIOUS
  <2>10. swap_deterministic(ok, t, outs, net)
    BY <1>6, <2>4, <2>5, <2>6, <2>9 DEF ReclaimPending
  <2> QED
    BY <2>1, <2>2, <2>8, <2>10, SoundSwap
<1> QED
  BY <1>1, <1>2, <1>3, <1>4, <1>5, <1>6, SoundAmbiguous DEF Send

LEMMA SoundMeltPay ==
    ASSUME Inv, Inv', Sound, NEW net, NEW verdict, NEW change \in 0 .. FeeReserve,
           MeltPay(net, verdict, change)
    PROVE  Sound'
<1>1. op.kind = "pay" /\ op' = Idle /\ Track /\ UNCHANGED <<engine, crashes>>
  BY DEF MeltPay
<1>2. InHand = {} /\ InHand' = {} /\ engine = "connected"
  BY <1>1, ReadyMeans, Running, IdleJob DEF Idle
<1>3. mem \in WalletType /\ mem.counter \in Nat /\ mint \in MintType
  BY WalletAssumption DEF Inv, Money, WalletType
<1>4. PICK b \in Nat : b = Blanks /\ mem.counter + b <= MaxIndex
  BY <1>1, BlanksNat DEF Inv, JobOK
<1>5. PICK blanks : blanks = Outputs(Decompose(FeeReserve)) /\ Cardinality(blanks) = b
  <2>1. PICK s \in Seq(Coin) : s = Decompose(FeeReserve) /\ Len(s) = b
    BY <1>4, DecomposeCoins, WalletAssumption DEF Blanks
  <2>2. Cardinality(Outputs(s)) = b
    BY <1>3, <2>1, OutputsFresh DEF Fresh
  <2> QED
    BY <2>1, <2>2
<1>6. PICK coins \in Seq(Coin) : coins = Decompose(change)
  BY DecomposeCoins, WalletAssumption
<1>7. PICK given : given = Outputs(coins)
  OBVIOUS
<1>8. PICK n \in Nat : n = Len(coins)
  OBVIOUS
<1>9. Fresh(given, mem.counter, n)
  BY <1>3, <1>7, <1>8, OutputsFresh
<1>10. n <= b
  <2>1. Cardinality(given) <= Cardinality(blanks)
    BY <1>5, <1>6, <1>7 DEF MeltPay
  <2> QED
    BY <1>5, <1>9, <2>1 DEF Fresh
<1>11. given \subseteq Proof
  <2>1. OneEach({}, mem.counter)
    BY <1>3, OneEachNone
  <2> QED
    BY <1>3, <1>4, <1>9, <1>10, <2>1, OneEachFresh
<1>12. PICK sel \in Selections(MeltTarget(op.amount)) :
           LET valid == Idx(sel) \cap mint.spent = {}
               took  == valid /\ verdict # "failed"
               paid  == valid /\ Answered(verdict = "paid", net)
           IN  /\ IF Reaches(took, net) THEN MintSigns(sel, given) ELSE UNCHANGED mint
               /\ mem' = [Advanced(Cardinality(blanks)) EXCEPT
                             !.proofs = IF paid THEN (@ \ sel) \cup given ELSE @]
               /\ disk' = IF valid /\ net = "ok" THEN encode_envelope(mem') ELSE disk
  BY <1>5, <1>6, <1>7 DEF MeltPay
<1>13. PICK paid \in BOOLEAN :
           paid <=> Idx(sel) \cap mint.spent = {} /\ Answered(verdict = "paid", net)
  OBVIOUS
<1>14. /\ MintSigns(sel, given) \/ UNCHANGED mint
       /\ mem' = [Advanced(b) EXCEPT
                     !.proofs = IF paid THEN (@ \ sel) \cup given ELSE @]
       /\ disk' = disk \/ disk' = encode_envelope(mem')
       /\ paid => MintSigns(sel, given)
  BY <1>5, <1>12, <1>13 DEF Answered, Reaches, Ambiguous
<1>15. /\ mem'.counter = mem.counter + b
       /\ mem'.proofs \subseteq mem.proofs \cup (IF paid THEN given ELSE {})
  <2>1. PICK w : w = Advanced(b)
    OBVIOUS
  <2>2. w \in WalletType /\ w.counter = mem.counter + b /\ w.proofs = mem.proofs
    BY <1>3, <1>4, <2>1 DEF Advanced, WalletType
  <2>3. mem' = [w EXCEPT !.proofs = IF paid THEN (@ \ sel) \cup given ELSE @]
    BY <1>14, <2>1
  <2> QED
    BY <2>2, <2>3 DEF WalletType
<1>16. paid => \A p \in given : mint'.latest[p[1]] = p[2]
  BY <1>3, <1>9, <1>11, <1>14, SignedLatest
<1>17. \A p \in mem'.proofs \cup InHand' :
          p \in mem.proofs \cup InHand \/ mint'.latest[p[1]] = p[2]
  BY <1>2, <1>15, <1>16
<1>18. /\ mem.counter + n <= mem'.counter /\ engine # "down" /\ engine' # "down"
       /\ (derived' = derived \/ derived' = mem'.counter)
  BY <1>1, <1>2, <1>3, <1>10, <1>15, TrackedOne
<1> QED
  BY <1>1, <1>9, <1>11, <1>14, <1>17, <1>18, SoundStep

LEMMA SoundMelt ==
    ASSUME Inv, Inv', Sound, Melt PROVE Sound'
<1>1. ASSUME NEW amount \in MeltAmounts, MeltSelect(amount) PROVE Sound'
  <2>1. InHand' = mem.proofs
    BY <1>1 DEF MeltSelect, InHand
  <2> QED
    BY <1>1, <2>1, SoundSelect DEF MeltSelect, Ready, bounds
<1>2. ASSUME NEW amount \in MeltAmounts, MeltUnderflow(amount) PROVE Sound'
  <2>1. /\ op' = Idle /\ mem' = NoWallet /\ engine' = "down" /\ crashes' = crashes + 1
        /\ disk' = encode_envelope(remove_proofs(mem, mem.proofs)) /\ UNCHANGED mint
    BY <1>2 DEF MeltUnderflow, Ready, save
  <2>2. crashes' # 0
    BY <2>1 DEF Inv, Counts
  <2>3. InHand' = {} /\ mem'.proofs = {} /\ disk'.proofs = {}
    BY <2>1, IdleJob DEF NoWallet, encode_envelope, remove_proofs, Inv, Money, WalletType
  <2> QED
    BY <2>1, <2>2, <2>3 DEF Sound
<1>3. ASSUME NEW net \in Net, MeltSwap(net) PROVE Sound'
  <2>1. InHand' = {}
    BY <1>3 DEF MeltSwap, InHand, Idle
  <2>2. PICK outs : outs = Outputs(op.amounts)
    OBVIOUS
  <2>3. /\ op.kind = "melt" /\ (MintSigns(op.sel, outs) \/ UNCHANGED mint)
        /\ Track /\ UNCHANGED <<engine, crashes>>
        /\ \/ MintSigns(op.sel, outs) /\ Credit(outs)
           \/ mem' = undo_spend(Advanced(Len(op.amounts)), op.sel) /\ Persist
    BY <1>3, <2>2 DEF MeltSwap, PostSwap, Answered, Reaches, Ambiguous
  <2> QED
    BY <2>1, <2>2, <2>3, SoundSwapped
<1> QED
  BY <1>1, <1>2, <1>3, SoundMeltPay DEF Melt

LEMMA SoundRecover ==
    ASSUME Inv, Inv', Sound, Recover PROVE Sound'
<1>0. mem \in WalletType /\ mem.counter \in Nat /\ mint \in MintType
      /\ (op = Idle => InHand = {} /\ OneEach(mem.proofs, mem.counter))
  <2>1. op = Idle => InHand = {} /\ OneEach(mem.proofs, mem.counter)
    BY ReadyIdle DEF Money
  <2> QED
    BY <2>1, WalletAssumption DEF Inv, Money, WalletType
<1>1. ASSUME ReconcileSpent PROVE Sound'
  <2>1. /\ op = Idle /\ engine = "connected" /\ disk' = encode_envelope(mem')
        /\ mem' = Reconciled(mem, mint) /\ UNCHANGED <<op, engine, mint, crashes, derived>>
    BY <1>1 DEF ReconcileSpent, Ready, Persist, save, bounds
  <2>2. mem'.counter = mem.counter /\ mem'.proofs \subseteq mem.proofs
    BY <1>0, <2>1, Pruned
  <2>3. InHand = {} /\ InHand' = {}
    BY <1>0, <2>1, IdleJob
  <2>4. \A p \in mem'.proofs \cup InHand' : p \in mem.proofs \cup InHand
    BY <2>2, <2>3
  <2>5. mem.counter <= mem'.counter /\ engine # "down" /\ engine' # "down"
    BY <1>0, <2>1, <2>2
  <2> QED
    BY <2>1, <2>4, <2>5, SoundQuiet
<1>2. ASSUME Restore PROVE Sound'
  <2>1. /\ op = Idle /\ engine = "connected" /\ disk' = encode_envelope(mem')
        /\ mem' = Restored(mem, mint) /\ UNCHANGED <<op, engine, mint, crashes>> /\ Track
    BY <1>2 DEF Restore, Ready, Persist, save
  <2>2. mem.counter <= mem'.counter
    BY <1>0, <2>1, RestoreSound DEF Recovered
  <2>3. InHand = {} /\ InHand' = {}
    BY <1>0, <2>1, IdleJob
  <2>4. \A p \in mem'.proofs \cup InHand' :
           p \in mem.proofs \cup InHand \/ mint.latest[p[1]] = p[2]
    BY <2>1, <2>3, RestoredLatest
  <2>5. /\ derived' = derived \/ derived' = mem'.counter
        /\ engine # "down" /\ engine' # "down"
    BY <2>1, TrackedOne
  <2> QED
    BY <2>1, <2>2, <2>4, <2>5, SoundQuiet
<1> QED
  BY <1>1, <1>2 DEF Recover

LEMMA SoundWorld ==
    ASSUME Inv, Inv', Sound, World PROVE Sound'
<1>1. ASSUME Crash PROVE Sound'
  <2>1. /\ op' = Idle /\ mem' = NoWallet /\ engine' = "down" /\ crashes' = crashes + 1
        /\ UNCHANGED <<disk, mint>>
    BY <1>1 DEF Crash
  <2>2. crashes' # 0
    BY <2>1 DEF Inv, Counts
  <2>3. InHand' = {} /\ mem'.proofs = {}
    BY <2>1, IdleJob DEF NoWallet
  <2> QED
    BY <2>1, <2>2, <2>3 DEF Sound
<1>2. ASSUME Restart PROVE Sound'
  <2>1. /\ engine = "down" /\ engine' = "built" /\ mem' = decode_envelope(disk)
        /\ UNCHANGED <<disk, op, mint, crashes, derived>>
    BY <1>2 DEF Restart, bounds
  <2>2. op = Idle /\ InHand' = {} /\ crashes' # 0
    BY <2>1, IdleJob DEF Inv, JobOK, Sound
  <2>3. disk.counter \in Nat
    BY WalletAssumption DEF Inv, Money, BlobType
  <2>4. disk.intact => mem'.proofs = disk.proofs /\ disk.counter <= mem'.counter
    BY <2>1, <2>3 DEF decode_envelope
  <2>5. ~disk.intact => mem'.proofs = {}
    BY <2>1 DEF decode_envelope, NoWallet
  <2> QED
    BY <2>1, <2>2, <2>4, <2>5 DEF Sound
<1>3. ASSUME Connect PROVE Sound'
  <2>1. /\ engine = "built" /\ engine' = "connected"
        /\ UNCHANGED <<mem, disk, op, mint, crashes, derived>>
    BY <1>3 DEF Connect, bounds
  <2>2. InHand' = InHand
    BY <2>1 DEF InHand
  <2> QED
    BY <2>1, <2>2 DEF Sound
<1>4. ASSUME Rot PROVE Sound'
  <2>1. /\ ~disk'.intact /\ UNCHANGED <<mem, engine, op, mint, crashes, derived>>
    BY <1>4 DEF Rot, bounds, Inv, Money, BlobType
  <2>2. InHand' = InHand
    BY <2>1 DEF InHand
  <2> QED
    BY <2>1, <2>2 DEF Sound
<1>5. ASSUME NEW token \in handed, Claim(token) PROVE Sound'
  <2>1. /\ mint'.latest = mint.latest /\ mint'.again = mint.again
        /\ UNCHANGED <<mem, disk, engine, op, crashes, derived>>
    BY <1>5 DEF Claim, bounds, Inv, Money, MintType
  <2>2. InHand' = InHand
    BY <2>1 DEF InHand
  <2> QED
    BY <2>1, <2>2 DEF Sound
<1> QED
  BY <1>1, <1>2, <1>3, <1>4, <1>5 DEF World

LEMMA SoundNext == ASSUME Inv, Inv', Sound, [Next]_vars PROVE Sound'
<1>1. CASE UNCHANGED vars
  <2>1. InHand' = InHand
    BY <1>1 DEF vars, InHand
  <2> QED
    BY <1>1, <2>1 DEF vars, Sound
<1> QED
  BY <1>1, SoundFund, SoundSend, SoundMelt, SoundRecover, SoundWorld DEF Next

LEMMA SoundAlways == Spec => []Sound
<1>1. Init => Sound
  <2> SUFFICES ASSUME Init PROVE Sound
    OBVIOUS
  <2>1. InHand = {} /\ mem.proofs = {} /\ ~disk.intact /\ engine # "down"
    BY DEF Init, InHand, Idle, NoWallet, NoBlob
  <2>2. mint.again = {} /\ derived = 0 /\ mem.counter = 0
    BY DEF Init, NoWallet
  <2> QED
    BY <2>1, <2>2 DEF Sound
<1> QED
  BY <1>1, InvAlways, SoundNext, PTL DEF Spec

\* A restore brings back, with its value, the signature on record of every
\* index that is not spent, unless some process derived more than
\* RESTORE_HEADROOM indices beyond the counter it starts from (restore, after
\* any lost reply, crash or lost blob); and only after a restart is that not
\* every signature the index ever got.
THEOREM RestoreFindsAll == Spec => RestoreRecovers
<1>1. Inv /\ Inv' /\ Sound /\ Sound' /\ [Next]_vars =>
         [Restore /\ derived <= mem.counter + Headroom =>
             \A i \in Index \ mint.spent : mint.latest[i] # 0 =>
                 /\ <<i, mint.latest[i]>> \in mem'.proofs
                 /\ i \in mint.again => crashes > 0]_vars
  <2> SUFFICES ASSUME Inv, Inv', Sound, Sound', Restore,
                      derived <= mem.counter + Headroom,
                      NEW i \in Index \ mint.spent, mint.latest[i] # 0
               PROVE  /\ <<i, mint.latest[i]>> \in mem'.proofs
                      /\ i \in mint.again => crashes > 0
    OBVIOUS
  <2>1. i \in Nat /\ i < derived
    BY IndexFinite DEF Inv, Money, SignedDerived
  <2>2. derived \in Nat /\ mem.counter + Headroom \in Nat
    BY WalletAssumption DEF Inv, Money, WalletType
  <2>3. i < mem.counter + Headroom
    BY <2>1, <2>2
  <2>4. i \in Idx(mem'.proofs)
    BY <2>3, KeepsRestore
  <2>5. PICK p \in mem'.proofs : p[1] = i
    BY <2>4 DEF Idx, Ids
  <2>6. p \in Proof /\ mint'.latest[p[1]] = p[2] /\ mint' = mint
    BY <2>5 DEF Sound, Inv, Money, WalletType, Restore
  <2>7. p = <<i, mint.latest[i]>>
    BY <2>5, <2>6 DEF Proof
  <2>8. i \in mint.again => crashes # 0
    BY DEF Sound
  <2>9. crashes \in Nat
    BY WalletAssumption DEF Inv, Counts
  <2> QED
    BY <2>5, <2>7, <2>8, <2>9
<1> QED
  BY <1>1, InvAlways, SoundAlways, PTL DEF Spec, RestoreRecovers
=============================================================================
