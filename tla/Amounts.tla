------------------------------- MODULE Amounts -------------------------------
(***************************************************************************)
(* Amounts of ecash: denominations are powers of two, proofs are pairs of  *)
(* an identity and an amount, and input fees are per thousand proofs       *)
(* (cashu-core-lite nut00.rs, micronuts-wallet-core engine.rs,             *)
(* micronuts-mint reserve.rs).                                             *)
(***************************************************************************)
EXTENDS Integers, Sequences, FiniteSets, FiniteSetsExt

Ids(P) == {p[1] : p \in P}
Sum(P) == SumFunction([p \in P |-> p[2]])

\* Input fee of n proofs, rounded up.
FeeOf(ppk, n) == (ppk * n + 999) \div 1000

\* decompose_amount: the powers of two of the binary notation, largest first.
Decompose(n) ==
    LET bits  == {k \in 0 .. n : (n \div 2 ^ k) % 2 = 1}
        Nth(j) == CHOOSE k \in bits : Cardinality({i \in bits : i > k}) = j - 1
    IN  [j \in 1 .. Cardinality(bits) |-> 2 ^ Nth(j)]

LowestBit(n) ==
    CHOOSE p \in {2 ^ k : k \in 0 .. n} : n % p = 0 /\ (n \div p) % 2 = 1

\* decompose_capped: coins of the cap, then the rest of the amount.
DecomposeCapped(n, cap) ==
    [j \in 1 .. n \div cap |-> cap] \o Decompose(n % cap)

\* The proofs of fresh outputs for these amounts, numbered from a counter.
Numbered(from, amounts) == {<<from + k - 1, amounts[k]>> : k \in DOMAIN amounts}

\* A wallet's selection: largest first until the amount is covered.  Proofs
\* of equal amount are in whatever order the store has them.
Coverings(P, amount) ==
    {S \in SUBSET P :
        /\ Sum(S) >= amount
        /\ \A p \in S, r \in P \ S : p[2] >= r[2]
        /\ \A p \in S : (\A r \in S : p[2] <= r[2]) => Sum(S) - p[2] < amount}

\* The reserve's selection: smallest first until the amount is covered, and
\* everything when it is not.
SmallestFirst(P, amount) ==
    {S \in SUBSET P :
        /\ Sum(S) >= amount \/ S = P
        /\ \A p \in S, r \in P \ S : p[2] <= r[2]
        /\ \A p \in S : (\A r \in S : p[2] >= r[2]) => Sum(S) - p[2] < amount}
=============================================================================
