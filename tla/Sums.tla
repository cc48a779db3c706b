-------------------------------- MODULE Sums --------------------------------
(***************************************************************************)
(* What SumFunctionOnSet computes on finite sets of indices, and what the  *)
(* operators of Amounts return: the facts that the proofs about ecash rest *)
(* on.  A sum is a recursive function over the subsets of the index set;   *)
(* each fact is proved from a smallest set that would violate it.          *)
(***************************************************************************)
EXTENDS Amounts, FiniteSetTheorems, TLAPS

\* A family of subsets of a finite set has a member with no other below it.
LEMMA SmallestSubset ==
    ASSUME NEW S, IsFiniteSet(S), NEW F, F \subseteq SUBSET S, F # {}
    PROVE  \E T \in F : \A U \in F : U \subseteq T => U = T
<1>1. IsWellFoundedOn(StrictSubsetOrdering(S), SUBSET S)
  BY FS_StrictSubsetOrderingWellFounded, FS_FiniteSubsetsOfFinite
<1>2. \E T \in F : \A U \in F : ~(<<U, T>> \in StrictSubsetOrdering(S))
  BY <1>1, WFMin
<1> QED
  BY <1>2 DEF StrictSubsetOrdering

\* The index a sum takes first, and the function a sum is computed by.
Pick(s) == CHOOSE x \in s : TRUE

Totals(g, f, S) ==
    g = [s \in SUBSET S |-> IF s = {} THEN 0 ELSE f[Pick(s)] + g[s \ {Pick(s)}]]

LEMMA PickIn == ASSUME NEW s, s # {} PROVE Pick(s) \in s
BY DEF Pick

LEMMA SumByTotals ==
    ASSUME NEW f, NEW S
    PROVE  SumFunctionOnSet(f, S) = (CHOOSE g : Totals(g, f, S))[S]
BY DEF SumFunctionOnSet, FoldFunctionOnSet, MapThenFoldSet, Totals, Pick

LEMMA TotalsStep ==
    ASSUME NEW f, NEW g, NEW S, Totals(g, f, S), NEW s \in SUBSET S
    PROVE  /\ s = {} => g[s] = 0
           /\ s # {} => g[s] = f[Pick(s)] + g[s \ {Pick(s)}]
BY DEF Totals

\* Two such functions agree where both are defined.
LEMMA TotalsAgree ==
    ASSUME NEW f, NEW S, IsFiniteSet(S), NEW A \in SUBSET S, NEW B \in SUBSET S,
           NEW g, Totals(g, f, A), NEW h, Totals(h, f, B),
           NEW s, s \subseteq A, s \subseteq B
    PROVE  g[s] = h[s]
<1> DEFINE Differ == {t \in SUBSET S : t \subseteq A /\ t \subseteq B /\ g[t] # h[t]}
<1> SUFFICES ASSUME Differ # {} PROVE FALSE
  OBVIOUS
<1>1. PICK t \in Differ : \A u \in Differ : u \subseteq t => u = t
  <2>1. Differ \subseteq SUBSET S
    OBVIOUS
  <2> HIDE DEF Differ
  <2> QED BY <2>1, SmallestSubset
<1>2. t \subseteq A /\ t \subseteq B /\ g[t] # h[t]
  OBVIOUS
<1>3. t # {}
  BY <1>2, TotalsStep
<1> DEFINE u == t \ {Pick(t)}
<1>4. u \subseteq t /\ u # t /\ u \in SUBSET S
  BY <1>3, PickIn
<1>5. g[u] = h[u]
  BY <1>1, <1>2, <1>4
<1> QED
  BY <1>2, <1>3, <1>5, TotalsStep

\* On finite sets there is one.
LEMMA TotalsExist ==
    ASSUME NEW f, NEW S, IsFiniteSet(S)
    PROVE  \A T \in SUBSET S : \E g : Totals(g, f, T)
<1> DEFINE Lacking == {T \in SUBSET S : ~ \E g : Totals(g, f, T)}
<1> SUFFICES ASSUME Lacking # {} PROVE FALSE
  OBVIOUS
<1>1. PICK T \in Lacking : \A U \in Lacking : U \subseteq T => U = T
  <2>1. Lacking \subseteq SUBSET S
    OBVIOUS
  <2> HIDE DEF Lacking
  <2> QED BY <2>1, SmallestSubset
<1>2. \A U \in SUBSET T : U # T => \E g : Totals(g, f, U)
  BY <1>1
<1> DEFINE of(U) == CHOOSE g : Totals(g, f, U)
           g == [s \in SUBSET T |->
                   IF s = {} THEN 0
                   ELSE f[Pick(s)] + (IF s \ {Pick(s)} = {} THEN 0
                                      ELSE of(s \ {Pick(s)})[s \ {Pick(s)}])]
<1>3. \A U \in SUBSET T : U # T => Totals(of(U), f, U)
  BY <1>2
<1> HIDE DEF of
<1>4. ASSUME NEW s \in SUBSET T, s # {}
      PROVE  g[s] = f[Pick(s)] + g[s \ {Pick(s)}]
  <2> DEFINE u == s \ {Pick(s)}
  <2>1. u \in SUBSET T /\ u # T
    BY <1>4, PickIn
  <2>2. g[s] = f[Pick(s)] + (IF u = {} THEN 0 ELSE of(u)[u])
    BY <1>4
  <2>3. ASSUME u # {} PROVE of(u)[u] = g[u]
    <3> DEFINE v == u \ {Pick(u)}
    <3>1. v \in SUBSET u /\ v # T /\ v \in SUBSET T
      BY <2>1
    <3>2. of(u)[u] = f[Pick(u)] + of(u)[v]
      <4>1. Totals(of(u), f, u) /\ u \in SUBSET u
        BY <1>3, <2>1
      <4> HIDE DEF u
      <4> QED BY <2>3, <4>1, TotalsStep
    <3>3. g[u] = f[Pick(u)] + (IF v = {} THEN 0 ELSE of(v)[v])
      BY <2>1, <2>3
    <3>4. v = {} => of(u)[v] = 0
      BY <1>3, <2>1, <3>1, TotalsStep
    <3>5. v # {} => of(u)[v] = of(v)[v]
      <4>1. Totals(of(u), f, u) /\ Totals(of(v), f, v)
        BY <1>3, <2>1, <3>1
      <4>2. u \in SUBSET S /\ v \in SUBSET S /\ v \subseteq u /\ v \subseteq v
        BY <2>1, <3>1
      <4> HIDE DEF u, v
      <4>3. of(u)[v] = of(v)[v]
        BY <4>1, <4>2, TotalsAgree
      <4> QED BY <4>3
    <3> QED
      BY <3>2, <3>3, <3>4, <3>5
  <2>4. u = {} => g[u] = 0
    BY <2>1
  <2> QED
    BY <2>2, <2>3, <2>4
<1>5. g[{}] = 0
  OBVIOUS
<1>6. DOMAIN g = SUBSET T /\ g = [s \in SUBSET T |-> g[s]]
  OBVIOUS
<1> HIDE DEF g
<1>7. Totals(g, f, T)
  BY <1>4, <1>5, <1>6 DEF Totals
<1> QED
  BY <1>1, <1>7

\* The recursion of a sum.
LEMMA SumStep ==
    ASSUME NEW f, NEW S, IsFiniteSet(S)
    PROVE  /\ SumFunctionOnSet(f, {}) = 0
           /\ S # {} => SumFunctionOnSet(f, S) =
                           f[Pick(S)] + SumFunctionOnSet(f, S \ {Pick(S)})
<1> DEFINE of(U) == CHOOSE g : Totals(g, f, U)
<1>1. \A U \in SUBSET S : Totals(of(U), f, U) /\ SumFunctionOnSet(f, U) = of(U)[U]
  BY TotalsExist, SumByTotals
<1> HIDE DEF of
<1>2. SumFunctionOnSet(f, {}) = 0
  <2>1. Totals(of({}), f, {}) /\ {} \in SUBSET {}
    BY <1>1
  <2>2. of({})[{}] = 0
    BY <2>1, TotalsStep
  <2> QED BY <1>1, <2>2
<1>3. ASSUME S # {}
      PROVE  SumFunctionOnSet(f, S) = f[Pick(S)] + SumFunctionOnSet(f, S \ {Pick(S)})
  <2> DEFINE u == S \ {Pick(S)}
  <2>1. u \in SUBSET S
    OBVIOUS
  <2>2. of(S)[S] = f[Pick(S)] + of(S)[u]
    BY <1>1, <1>3, TotalsStep
  <2>3. Totals(of(S), f, S) /\ Totals(of(u), f, u)
    BY <1>1, <2>1
  <2>4. of(S)[u] = of(u)[u]
    <3> HIDE DEF u
    <3> QED BY <2>1, <2>3, TotalsAgree
  <2> QED
    BY <1>1, <2>1, <2>2, <2>4
<1> QED
  BY <1>2, <1>3

\* A sum of integers is an integer, of natural numbers a natural number.
LEMMA SumType ==
    ASSUME NEW f, NEW S, IsFiniteSet(S), NEW R, R \in {Int, Nat},
           \A x \in S : f[x] \in R
    PROVE  SumFunctionOnSet(f, S) \in R
<1> DEFINE Odd == {T \in SUBSET S : SumFunctionOnSet(f, T) \notin R}
<1> SUFFICES ASSUME Odd # {} PROVE FALSE
  OBVIOUS
<1>1. PICK T \in Odd : \A U \in Odd : U \subseteq T => U = T
  <2>1. Odd \subseteq SUBSET S
    OBVIOUS
  <2> HIDE DEF Odd
  <2> QED BY <2>1, SmallestSubset
<1>2. T \in SUBSET S /\ IsFiniteSet(T) /\ SumFunctionOnSet(f, T) \notin R
  BY <1>1, FS_Subset
<1>3. T # {}
  <2>1. SumFunctionOnSet(f, {}) = 0
    BY SumStep
  <2>2. 0 \in R
    OBVIOUS
  <2> QED BY <1>2, <2>1, <2>2
<1> DEFINE u == T \ {Pick(T)}
<1>4. u \subseteq T /\ u # T /\ Pick(T) \in S /\ u \in SUBSET S
  BY <1>2, <1>3, PickIn
<1>5. SumFunctionOnSet(f, u) \in R
  BY <1>1, <1>4
<1>6. SumFunctionOnSet(f, T) = f[Pick(T)] + SumFunctionOnSet(f, u)
  BY <1>2, <1>3, SumStep
<1> HIDE DEF u
<1>7. f[Pick(T)] \in R
  BY <1>4
<1>8. CASE R = Int
  BY <1>2, <1>5, <1>6, <1>7, <1>8
<1>9. CASE R = Nat
  BY <1>2, <1>5, <1>6, <1>7, <1>9
<1> QED
  BY <1>8, <1>9

\* The index added last counts once, whichever is taken first.
LEMMA SumAdd ==
    ASSUME NEW f, NEW S, IsFiniteSet(S), NEW x, x \notin S,
           \A y \in S \cup {x} : f[y] \in Int
    PROVE  SumFunctionOnSet(f, S \cup {x}) = SumFunctionOnSet(f, S) + f[x]
<1> DEFINE All == S \cup {x}
           Total(T) == SumFunctionOnSet(f, T)
           Off == {T \in SUBSET All :
                     \E y \in All : y \notin T /\ Total(T \cup {y}) # Total(T) + f[y]}
<1>1. IsFiniteSet(All)
  BY FS_AddElement
<1> SUFFICES ASSUME Off # {} PROVE FALSE
  OBVIOUS
<1>2. PICK T \in Off : \A U \in Off : U \subseteq T => U = T
  <2>1. Off \subseteq SUBSET All
    OBVIOUS
  <2> HIDE DEF Off, All
  <2> QED BY <1>1, <2>1, SmallestSubset
<1>3. PICK y \in All : y \notin T /\ Total(T \cup {y}) # Total(T) + f[y]
  BY <1>2
<1>4. T \in SUBSET All
  BY <1>2
<1> DEFINE Q == T \cup {y}
           z == Pick(Q)
<1>5. Q \in SUBSET All /\ z \in Q /\ IsFiniteSet(Q) /\ Q # {} /\ IsFiniteSet(T)
  BY <1>1, <1>3, <1>4, FS_Subset, PickIn
<1>6. Total(Q) = f[z] + Total(Q \ {z})
  BY <1>5, SumStep
<1>7. \A U \in SUBSET All : Total(U) \in Int
  <2>1. \A u \in All : f[u] \in Int
    OBVIOUS
  <2> HIDE DEF All
  <2> QED BY <1>1, <2>1, FS_Subset, SumType
<1>8. f[y] \in Int /\ f[z] \in Int /\ Total(T) \in Int
  BY <1>3, <1>4, <1>5, <1>7
<1>9. z # y
  <2> SUFFICES ASSUME z = y PROVE FALSE
    OBVIOUS
  <2>1. Q \ {z} = T
    BY <1>3
  <2>2. Total(Q) = f[y] + Total(T) /\ Total(Q) # Total(T) + f[y]
    BY <1>3, <1>6, <2>1
  <2> HIDE DEF Total, Q, z
  <2> QED
    BY <1>8, <2>2
<1> DEFINE V == T \ {z}
<1>10. V \in SUBSET All /\ V \subseteq T /\ V # T /\ z \notin V /\ y \notin V
       /\ z \in T /\ z \in All
  BY <1>3, <1>4, <1>5, <1>9
<1>11. V \notin Off
  BY <1>2, <1>10
<1>12. Total(V \cup {z}) = Total(V) + f[z] /\ Total(V \cup {y}) = Total(V) + f[y]
  BY <1>3, <1>10, <1>11
<1>13. V \cup {z} = T /\ V \cup {y} = Q \ {z}
  BY <1>3, <1>9, <1>10
<1>14. Total(V) \in Int
  BY <1>7, <1>10
<1>15. /\ Total(T) = Total(V) + f[z]
       /\ Total(Q) = f[z] + (Total(V) + f[y])
       /\ Total(Q) # Total(T) + f[y]
  BY <1>3, <1>6, <1>12, <1>13
<1> HIDE DEF Total, V, Q, z
<1> QED
  BY <1>8, <1>14, <1>15

LEMMA SumRemove ==
    ASSUME NEW f, NEW S, IsFiniteSet(S), NEW x \in S, \A y \in S : f[y] \in Int
    PROVE  SumFunctionOnSet(f, S) = SumFunctionOnSet(f, S \ {x}) + f[x]
<1> DEFINE T == S \ {x}
<1>1. IsFiniteSet(T) /\ x \notin T /\ (\A y \in T \cup {x} : f[y] \in Int)
      /\ T \cup {x} = S
  BY FS_RemoveElement
<1> HIDE DEF T
<1>2. SumFunctionOnSet(f, T \cup {x}) = SumFunctionOnSet(f, T) + f[x]
  BY <1>1, SumAdd
<1> QED
  BY <1>1, <1>2 DEF T

\* A sum depends on the summands alone.
LEMMA SumSame ==
    ASSUME NEW f, NEW g, NEW S, IsFiniteSet(S), \A x \in S : f[x] = g[x]
    PROVE  SumFunctionOnSet(f, S) = SumFunctionOnSet(g, S)
<1> DEFINE Differ == {T \in SUBSET S : SumFunctionOnSet(f, T) # SumFunctionOnSet(g, T)}
<1> SUFFICES ASSUME Differ # {} PROVE FALSE
  OBVIOUS
<1>1. PICK T \in Differ : \A U \in Differ : U \subseteq T => U = T
  <2>1. Differ \subseteq SUBSET S
    OBVIOUS
  <2> HIDE DEF Differ
  <2> QED BY <2>1, SmallestSubset
<1>2. T \in SUBSET S /\ IsFiniteSet(T)
      /\ SumFunctionOnSet(f, T) # SumFunctionOnSet(g, T)
  BY <1>1, FS_Subset
<1>3. T # {}
  <2>1. SumFunctionOnSet(f, {}) = 0 /\ SumFunctionOnSet(g, {}) = 0
    BY SumStep
  <2> QED BY <1>2, <2>1
<1> DEFINE u == T \ {Pick(T)}
<1>4. u \subseteq T /\ u # T /\ Pick(T) \in S /\ u \in SUBSET S
  BY <1>2, <1>3, PickIn
<1>5. SumFunctionOnSet(f, u) = SumFunctionOnSet(g, u)
  BY <1>1, <1>4
<1>6. /\ SumFunctionOnSet(f, T) = f[Pick(T)] + SumFunctionOnSet(f, u)
      /\ SumFunctionOnSet(g, T) = g[Pick(T)] + SumFunctionOnSet(g, u)
  BY <1>2, <1>3, SumStep
<1> QED
  BY <1>2, <1>4, <1>5, <1>6

\* A sum is that of a part and that of the rest.
LEMMA SumSplit ==
    ASSUME NEW f, NEW S, IsFiniteSet(S), \A x \in S : f[x] \in Int,
           NEW P \in SUBSET S
    PROVE  SumFunctionOnSet(f, S) =
             SumFunctionOnSet(f, P) + SumFunctionOnSet(f, S \ P)
<1> DEFINE Total(T) == SumFunctionOnSet(f, T)
           Off == {T \in SUBSET S : Total(S) # Total(T) + Total(S \ T)}
<1> SUFFICES ASSUME Off # {} PROVE FALSE
  OBVIOUS
<1>1. PICK T \in Off : \A U \in Off : U \subseteq T => U = T
  <2>1. Off \subseteq SUBSET S
    OBVIOUS
  <2> HIDE DEF Off
  <2> QED BY <2>1, SmallestSubset
<1>2. \A U \in SUBSET S : IsFiniteSet(U) /\ Total(U) \in Int
  BY FS_Subset, SumType
<1>3. T \in SUBSET S /\ Total(S) # Total(T) + Total(S \ T)
  BY <1>1
<1>4. T # {}
  <2>1. Total({}) = 0
    BY SumStep
  <2>2. Total(S) \in Int /\ S \ {} = S
    BY <1>2
  <2> HIDE DEF Total
  <2>3. Total(S) = Total({}) + Total(S \ {})
    BY <2>1, <2>2
  <2> QED BY <1>3, <2>3
<1>5. PICK x \in T : TRUE
  BY <1>4
<1> DEFINE u == T \ {x}
           r == S \ T
<1>6. u \in SUBSET S /\ u \subseteq T /\ u # T /\ x \in S /\ r \in SUBSET S
      /\ S \ u = r \cup {x} /\ x \notin r /\ f[x] \in Int
  BY <1>3, <1>5
<1>7. Total(S) = Total(u) + Total(S \ u)
  BY <1>1, <1>6
<1>8. Total(T) = Total(u) + f[x]
  BY <1>2, <1>3, <1>5, SumRemove
<1>9. Total(S \ u) = Total(r) + f[x]
  <2>1. IsFiniteSet(r) /\ (\A y \in r \cup {x} : f[y] \in Int)
    BY <1>2, <1>6
  <2> HIDE DEF r
  <2> QED BY <1>6, <2>1, SumAdd
<1>10. Total(u) \in Int /\ Total(r) \in Int /\ Total(S) # Total(T) + Total(r)
  BY <1>2, <1>3, <1>6
<1> HIDE DEF Total, u, r
<1> QED
  BY <1>6, <1>7, <1>8, <1>9, <1>10

\* A sum of zeros is zero.
LEMMA SumZero ==
    ASSUME NEW f, NEW S, IsFiniteSet(S), \A x \in S : f[x] = 0
    PROVE  SumFunctionOnSet(f, S) = 0
<1> DEFINE Off == {T \in SUBSET S : SumFunctionOnSet(f, T) # 0}
<1> SUFFICES ASSUME Off # {} PROVE FALSE
  OBVIOUS
<1>1. PICK T \in Off : \A U \in Off : U \subseteq T => U = T
  <2>1. Off \subseteq SUBSET S
    OBVIOUS
  <2> HIDE DEF Off
  <2> QED BY <2>1, SmallestSubset
<1>2. T \in SUBSET S /\ IsFiniteSet(T) /\ SumFunctionOnSet(f, T) # 0
  BY <1>1, FS_Subset
<1>3. T # {}
  BY <1>2, SumStep
<1> DEFINE u == T \ {Pick(T)}
<1>4. u \subseteq T /\ u # T /\ Pick(T) \in S /\ u \in SUBSET S
  BY <1>2, <1>3, PickIn
<1>5. SumFunctionOnSet(f, u) = 0
  BY <1>1, <1>4
<1>6. SumFunctionOnSet(f, T) = f[Pick(T)] + SumFunctionOnSet(f, u)
  BY <1>2, <1>3, SumStep
<1>7. f[Pick(T)] = 0
  BY <1>4
<1> HIDE DEF u
<1> QED
  BY <1>2, <1>5, <1>6, <1>7

\* An inequality between summands holds between the sums.
LEMMA SumBalance ==
    ASSUME NEW f, NEW a, NEW g, NEW b, NEW S, IsFiniteSet(S),
           \A x \in S : /\ f[x] \in Int /\ a[x] \in Int /\ g[x] \in Int /\ b[x] \in Int
                        /\ f[x] + a[x] <= g[x] + b[x]
    PROVE  SumFunctionOnSet(f, S) + SumFunctionOnSet(a, S)
             <= SumFunctionOnSet(g, S) + SumFunctionOnSet(b, S)
<1> DEFINE Total(h, T) == SumFunctionOnSet(h, T)
           Off == {T \in SUBSET S :
                     ~(Total(f, T) + Total(a, T) <= Total(g, T) + Total(b, T))}
<1> SUFFICES ASSUME Off # {} PROVE FALSE
  OBVIOUS
<1>1. PICK T \in Off : \A U \in Off : U \subseteq T => U = T
  <2>1. Off \subseteq SUBSET S
    OBVIOUS
  <2> HIDE DEF Off
  <2> QED BY <2>1, SmallestSubset
<1>2. T \in SUBSET S /\ IsFiniteSet(T)
      /\ ~(Total(f, T) + Total(a, T) <= Total(g, T) + Total(b, T))
  BY <1>1, FS_Subset
<1>3. T # {}
  <2>1. Total(f, {}) = 0 /\ Total(a, {}) = 0 /\ Total(g, {}) = 0 /\ Total(b, {}) = 0
    BY SumStep
  <2> HIDE DEF Total, Off
  <2>2. Total(f, {}) + Total(a, {}) <= Total(g, {}) + Total(b, {})
    BY <2>1
  <2> QED BY <1>2, <2>2
<1> DEFINE x == Pick(T)
           u == T \ {x}
<1>4. u \subseteq T /\ u # T /\ x \in S /\ u \in SUBSET S
  BY <1>2, <1>3, PickIn
<1>5. Total(f, u) + Total(a, u) <= Total(g, u) + Total(b, u)
  BY <1>1, <1>4
<1>6. /\ Total(f, T) = f[x] + Total(f, u) /\ Total(a, T) = a[x] + Total(a, u)
      /\ Total(g, T) = g[x] + Total(g, u) /\ Total(b, T) = b[x] + Total(b, u)
  BY <1>2, <1>3, SumStep
<1>7. /\ Total(f, u) \in Int /\ Total(a, u) \in Int
      /\ Total(g, u) \in Int /\ Total(b, u) \in Int
  <2>1. IsFiniteSet(u)
    BY <1>4, FS_Subset
  <2>2. \A y \in u : f[y] \in Int /\ a[y] \in Int /\ g[y] \in Int /\ b[y] \in Int
    BY <1>4
  <2> HIDE DEF u
  <2>3. SumFunctionOnSet(f, u) \in Int
    BY <2>1, <2>2, SumType
  <2>4. SumFunctionOnSet(a, u) \in Int
    BY <2>1, <2>2, SumType
  <2>5. SumFunctionOnSet(g, u) \in Int
    BY <2>1, <2>2, SumType
  <2>6. SumFunctionOnSet(b, u) \in Int
    BY <2>1, <2>2, SumType
  <2> QED BY <2>3, <2>4, <2>5, <2>6
<1>8. /\ f[x] \in Int /\ a[x] \in Int /\ g[x] \in Int /\ b[x] \in Int
      /\ f[x] + a[x] <= g[x] + b[x]
  BY <1>4
<1> HIDE DEF Total, u, x
<1> QED
  BY <1>2, <1>5, <1>6, <1>7, <1>8

\* A function as one on a larger set, zero where it was not defined.
Spread(f, S) == [x \in S |-> IF x \in DOMAIN f THEN f[x] ELSE 0]

LEMMA SumSpread ==
    ASSUME NEW f, NEW S, IsFiniteSet(S), DOMAIN f \subseteq S,
           \A x \in DOMAIN f : f[x] \in Int
    PROVE  SumFunction(f) = SumFunctionOnSet(Spread(f, S), S)
<1> DEFINE g == Spread(f, S)
           D == DOMAIN f
<1>1. /\ \A x \in D : g[x] = f[x]
      /\ \A x \in S \ D : g[x] = 0
      /\ \A x \in S : g[x] \in Int
  BY DEF Spread
<1>2. D \in SUBSET S /\ IsFiniteSet(D) /\ IsFiniteSet(S \ D)
  BY FS_Subset, FS_Difference
<1>3. SumFunction(f) = SumFunctionOnSet(f, D)
  BY DEF SumFunction, SumFunctionOnSet, FoldFunction
<1> HIDE DEF g, D
<1>4. SumFunctionOnSet(g, S) = SumFunctionOnSet(g, D) + SumFunctionOnSet(g, S \ D)
  BY <1>1, <1>2, SumSplit
<1>5. SumFunctionOnSet(g, S \ D) = 0
  BY <1>1, <1>2, SumZero
<1>6. SumFunctionOnSet(g, D) = SumFunctionOnSet(f, D)
  BY <1>1, <1>2, SumSame
<1>7. SumFunctionOnSet(g, D) \in Int
  BY <1>1, <1>2, SumType
<1> QED
  BY <1>3, <1>4, <1>5, <1>6, <1>7 DEF g

\* A finite set of integers has a least element, and a greatest.
LEMMA Least ==
    ASSUME NEW S, IsFiniteSet(S), \A x \in S : x \in Int, S # {}
    PROVE  \E m \in S : \A x \in S : m <= x
<1> DEFINE Low(T) == \E m \in T : \A x \in T : m <= x
           Off == {T \in SUBSET S : T # {} /\ ~Low(T)}
<1> SUFFICES ASSUME Off # {} PROVE FALSE
  OBVIOUS
<1>1. PICK T \in Off : \A U \in Off : U \subseteq T => U = T
  <2>1. Off \subseteq SUBSET S
    OBVIOUS
  <2> HIDE DEF Off
  <2> QED BY <2>1, SmallestSubset
<1>2. PICK x \in T : TRUE
  BY <1>1
<1>3. (\A y \in T : y \in Int) /\ ~Low(T)
  BY <1>1
<1>4. CASE T \ {x} = {}
  BY <1>2, <1>3, <1>4
<1>5. CASE T \ {x} # {}
  <2>1. Low(T \ {x})
    <3>1. T \ {x} \in SUBSET S /\ T \ {x} \subseteq T /\ T \ {x} # T
      BY <1>1, <1>2
    <3> QED BY <1>1, <1>5, <3>1
  <2>2. PICK m \in T \ {x} : \A y \in T \ {x} : m <= y
    BY <2>1
  <2>3. x \in Int /\ m \in Int /\ m \in T
    BY <1>2, <1>3, <2>2
  <2>4. CASE m <= x
    BY <1>3, <2>2, <2>3, <2>4
  <2>5. CASE x <= m
    <3>1. \A y \in T : x <= y
      BY <1>3, <2>2, <2>3, <2>5
    <3> QED BY <1>2, <1>3, <3>1
  <2> QED BY <2>3, <2>4, <2>5
<1> QED
  BY <1>4, <1>5

LEMMA Greatest ==
    ASSUME NEW S, IsFiniteSet(S), \A x \in S : x \in Int, S # {}
    PROVE  \E m \in S : \A x \in S : x <= m
<1> DEFINE High(T) == \E m \in T : \A x \in T : x <= m
           Off == {T \in SUBSET S : T # {} /\ ~High(T)}
<1> SUFFICES ASSUME Off # {} PROVE FALSE
  OBVIOUS
<1>1. PICK T \in Off : \A U \in Off : U \subseteq T => U = T
  <2>1. Off \subseteq SUBSET S
    OBVIOUS
  <2> HIDE DEF Off
  <2> QED BY <2>1, SmallestSubset
<1>2. PICK x \in T : TRUE
  BY <1>1
<1>3. (\A y \in T : y \in Int) /\ ~High(T)
  BY <1>1
<1>4. CASE T \ {x} = {}
  BY <1>2, <1>3, <1>4
<1>5. CASE T \ {x} # {}
  <2>1. High(T \ {x})
    <3>1. T \ {x} \in SUBSET S /\ T \ {x} \subseteq T /\ T \ {x} # T
      BY <1>1, <1>2
    <3> QED BY <1>1, <1>5, <3>1
  <2>2. PICK m \in T \ {x} : \A y \in T \ {x} : y <= m
    BY <2>1
  <2>3. x \in Int /\ m \in Int /\ m \in T
    BY <1>2, <1>3, <2>2
  <2>4. CASE x <= m
    BY <1>3, <2>2, <2>3, <2>4
  <2>5. CASE m <= x
    <3>1. \A y \in T : y <= x
      BY <1>3, <2>2, <2>3, <2>5
    <3> QED BY <1>2, <1>3, <3>1
  <2> QED BY <2>3, <2>4, <2>5
<1> QED
  BY <1>4, <1>5

\* Every rank of a finite set of integers, counted from the top, is taken.
Above(S, k) == {i \in S : i > k}

LEMMA Ranked ==
    ASSUME NEW S, IsFiniteSet(S), \A x \in S : x \in Int, NEW j \in 1 .. Cardinality(S)
    PROVE  \E k \in S : Cardinality(Above(S, k)) = j - 1
<1> DEFINE Off == {T \in SUBSET S : \E n \in 1 .. Cardinality(T) :
                      \A k \in T : Cardinality(Above(T, k)) # n - 1}
<1> SUFFICES ASSUME Off # {} PROVE FALSE
  OBVIOUS
<1>1. PICK T \in Off : \A U \in Off : U \subseteq T => U = T
  <2>1. Off \subseteq SUBSET S
    OBVIOUS
  <2> HIDE DEF Off
  <2> QED BY <2>1, SmallestSubset
<1>2. PICK n \in 1 .. Cardinality(T) : \A k \in T : Cardinality(Above(T, k)) # n - 1
  BY <1>1
<1>3. (\A y \in T : y \in Int) /\ IsFiniteSet(T) /\ Cardinality(T) \in Nat
  BY <1>1, FS_Subset, FS_CardinalityType
<1>4. T # {}
  BY <1>2, <1>3, FS_EmptySet
<1>5. PICK m \in T : \A x \in T : m <= x
  BY <1>3, <1>4, Least
<1> DEFINE u == T \ {m}
<1>6. /\ u \in SUBSET S /\ u \subseteq T /\ u # T
      /\ Cardinality(u) = Cardinality(T) - 1
  BY <1>1, <1>3, <1>5, FS_RemoveElement
<1>7. CASE n = Cardinality(T)
  <2>1. \A i \in T : i > m <=> i # m
    BY <1>3, <1>5
  <2>2. Above(T, m) = u
    BY <2>1 DEF Above
  <2> QED BY <1>2, <1>5, <1>6, <1>7, <2>2
<1>8. CASE n # Cardinality(T)
  <2>1. n \in 1 .. Cardinality(u)
    BY <1>2, <1>3, <1>6, <1>8
  <2>2. u \notin Off
    BY <1>1, <1>6
  <2>3. PICK k \in u : Cardinality(Above(u, k)) = n - 1
    BY <1>6, <2>1, <2>2
  <2>4. k \in T /\ k \in Int /\ m \in Int /\ m <= k
    BY <1>3, <1>5, <2>3
  <2>5. Above(u, k) = Above(T, k)
    BY <2>4 DEF Above
  <2> QED BY <1>2, <2>3, <2>4, <2>5
<1> QED
  BY <1>7, <1>8

\* Fresh outputs have the next numbers, one each.
LEMMA NumberedFresh ==
    ASSUME NEW from \in Int, NEW amounts, NEW c \in Nat, DOMAIN amounts = 1 .. c,
           \A j \in 1 .. c : amounts[j] \in Int
    PROVE  /\ IsFiniteSet(Numbered(from, amounts))
           /\ Cardinality(Numbered(from, amounts)) = c
           /\ \A p \in Numbered(from, amounts) :
                 p[1] \in from .. from + c - 1 /\ p[2] \in Int
<1> DEFINE N == Numbered(from, amounts)
           f == [k \in 1 .. c |-> <<from + k - 1, amounts[k]>>]
<1>1. N = {f[k] : k \in 1 .. c}
  BY DEF Numbered
<1>2. \A k \in 1 .. c : f[k][1] = from + k - 1 /\ f[k][2] \in Int
  OBVIOUS
<1>3. f \in [1 .. c -> N]
  BY <1>1
<1> HIDE DEF f, N
<1>4. f \in Bijection(1 .. c, N)
  <2>1. \A a, b \in 1 .. c : f[a] = f[b] => a = b
    BY <1>2
  <2>2. \A y \in N : \E k \in 1 .. c : f[k] = y
    BY <1>1
  <2> QED
    BY <1>3, <2>1, <2>2 DEF Bijection, Injection, Surjection, IsInjective
<1>5. IsFiniteSet(1 .. c) /\ Cardinality(1 .. c) = c
  BY FS_Interval
<1>6. IsFiniteSet(N) /\ Cardinality(N) = c
  BY <1>4, <1>5, FS_Bijection DEF ExistsBijection
<1>7. \A p \in N : p[1] \in from .. from + c - 1 /\ p[2] \in Int
  BY <1>1, <1>2
<1> QED
  BY <1>6, <1>7 DEF N
-----------------------------------------------------------------------------
(* Powers of two, counted as the subsets of an interval.                   *)

LEMMA TwoTo ==
    ASSUME NEW k \in Nat
    PROVE  /\ 2 ^ k \in Nat \ {0}
           /\ IsFiniteSet(SUBSET (1 .. k)) /\ Cardinality(SUBSET (1 .. k)) = 2 ^ k
<1>1. IsFiniteSet(1 .. k) /\ Cardinality(1 .. k) = k
  BY FS_Interval
<1>2. IsFiniteSet(SUBSET (1 .. k)) /\ Cardinality(SUBSET (1 .. k)) = 2 ^ k
  BY <1>1, FS_SUBSET
<1>3. SUBSET (1 .. k) # {}
  OBVIOUS
<1>4. Cardinality(SUBSET (1 .. k)) \in Nat \ {0}
  BY <1>2, <1>3, FS_EmptySet, FS_CardinalityType
<1> QED
  BY <1>2, <1>4

LEMMA TwoToNext ==
    ASSUME NEW k \in Nat
    PROVE  2 ^ (k + 1) = 2 * 2 ^ k
<1> DEFINE A == SUBSET (1 .. k)
           B == {T \in SUBSET (1 .. k + 1) : k + 1 \in T}
           f == [T \in A |-> T \cup {k + 1}]
<1>1. 1 .. k + 1 = (1 .. k) \cup {k + 1} /\ k + 1 \notin 1 .. k
  OBVIOUS
<1>2. IsFiniteSet(A) /\ Cardinality(A) = 2 ^ k
  BY TwoTo
<1>3. f \in Bijection(A, B)
  <2>1. f \in [A -> B]
    BY <1>1
  <2>2. ASSUME NEW S \in A, NEW T \in A, f[S] = f[T] PROVE S = T
    <3>1. f[S] = S \cup {k + 1} /\ f[T] = T \cup {k + 1}
      OBVIOUS
    <3>2. k + 1 \notin S /\ k + 1 \notin T
      BY <1>1
    <3> HIDE DEF f, A
    <3>3. S \cup {k + 1} = T \cup {k + 1}
      BY <2>2, <3>1, Zenon
    <3>4. \A x : x \in S <=> x \in T
      BY <3>2, <3>3, Zenon
    <3> QED
      BY <3>4, Zenon
  <2>3. ASSUME NEW T \in B PROVE \E S \in A : f[S] = T
    <3>1. T \ {k + 1} \in A /\ (T \ {k + 1}) \cup {k + 1} = T
      BY <1>1
    <3>2. f[T \ {k + 1}] = (T \ {k + 1}) \cup {k + 1}
      BY <3>1
    <3> QED
      BY <3>1, <3>2
  <2> HIDE DEF f, A, B
  <2> QED
    BY <2>1, <2>2, <2>3 DEF Bijection, Injection, Surjection, IsInjective
<1>4. IsFiniteSet(B) /\ Cardinality(B) = 2 ^ k
  BY <1>2, <1>3, FS_Bijection DEF ExistsBijection
<1>5. A \cup B = SUBSET (1 .. k + 1) /\ A \cap B = {}
  BY <1>1
<1> HIDE DEF A, B, f
<1>6. Cardinality(A \cup B) = 2 ^ k + 2 ^ k - 0
  BY <1>2, <1>4, <1>5, FS_Union, FS_EmptySet
<1>7. Cardinality(SUBSET (1 .. k + 1)) = 2 ^ (k + 1)
  BY TwoTo
<1>8. PICK a \in Nat : a = 2 ^ k
  BY TwoTo
<1>9. Cardinality(A \cup B) = 2 * a
  BY <1>6, <1>8
<1> QED
  BY <1>5, <1>7, <1>8, <1>9, Zenon

LEMMA TwoToAbove ==
    ASSUME NEW n \in Nat
    PROVE  n < 2 ^ n
<1> DEFINE Off == {j \in 0 .. n : ~(j < 2 ^ j)}
<1> SUFFICES ASSUME Off # {} PROVE FALSE
  BY TwoTo
<1>1. IsFiniteSet(Off) /\ \A j \in Off : j \in Int
  <2>1. IsFiniteSet(0 .. n) /\ Off \in SUBSET (0 .. n)
    BY FS_Interval
  <2> QED
    BY <2>1, FS_Subset
<1> HIDE DEF Off
<1>2. PICK m \in Off : \A j \in Off : m <= j
  BY <1>1, Least
<1>3. m \in 0 .. n /\ ~(m < 2 ^ m)
  BY DEF Off
<1>4. m # 0
  <2> SUFFICES ASSUME m = 0 PROVE FALSE
    OBVIOUS
  <2>1. 2 ^ 0 = 1
    OBVIOUS
  <2>2. ~(0 < 2 ^ 0)
    BY <1>3, Zenon
  <2>3. ~(0 < 1)
    BY <2>1, <2>2, Zenon
  <2> QED
    BY <2>3
<1>5. m - 1 \in 0 .. n /\ m - 1 \in Nat
  BY <1>3, <1>4
<1>6. m - 1 < 2 ^ (m - 1)
  <2>1. m - 1 \notin Off
    <3>1. ~(m <= m - 1)
      BY <1>3
    <3> QED
      BY <1>2, <3>1, Zenon
  <2> QED
    BY <1>5, <2>1 DEF Off
<1>7. PICK p \in Nat : p = 2 ^ (m - 1)
  BY <1>5, TwoTo
<1>8. 2 ^ m = 2 * p
  <2>1. (m - 1) + 1 = m
    BY <1>3
  <2>2. 2 ^ ((m - 1) + 1) = 2 * 2 ^ (m - 1)
    BY <1>5, TwoToNext
  <2> QED
    BY <1>7, <2>1, <2>2
<1> QED
  BY <1>3, <1>5, <1>6, <1>7, <1>8

\* A set of exponents up to n has a greatest member; when every member is
\* below n, the next exponent is not in the set.
LEMMA TopExponent ==
    ASSUME NEW n \in Nat, NEW E, E \subseteq 0 .. n, 0 \in E, n \notin E
    PROVE  \E k \in E : k \in Nat /\ k + 1 \in 0 .. n /\ k + 1 \notin E
<1>1. IsFiniteSet(E) /\ \A k \in E : k \in 0 .. n /\ k \in Int
  <2>1. IsFiniteSet(0 .. n) /\ E \in SUBSET (0 .. n)
    BY FS_Interval
  <2>2. IsFiniteSet(E)
    BY <2>1, FS_Subset
  <2> QED
    BY <2>2
<1>2. PICK k \in E : \A j \in E : j <= k
  BY <1>1, Greatest
<1>3. k \in 0 .. n /\ k # n
  BY <1>1
<1>4. k + 1 \notin E
  BY <1>2, <1>3
<1> QED
  BY <1>3, <1>4

\* A positive number has a highest bit.
LEMMA HighBit ==
    ASSUME NEW n \in Nat \ {0}
    PROVE  \E k \in 0 .. n : (n \div 2 ^ k) % 2 = 1
<1> DEFINE E == {k \in 0 .. n : 2 ^ k <= n}
<1>1. E \subseteq 0 .. n /\ 0 \in E
  <2>1. 2 ^ 0 = 1
    OBVIOUS
  <2> QED
    BY <2>1
<1>2. n \notin E
  BY TwoToAbove, TwoTo
<1> HIDE DEF E
<1>3. PICK k \in E : k \in Nat /\ k + 1 \in 0 .. n /\ k + 1 \notin E
  BY <1>1, <1>2, TopExponent
<1>4. PICK p \in Nat \ {0} : p = 2 ^ k
  BY <1>3, TwoTo
<1>5. p <= n /\ ~(2 * p <= n) /\ k \in 0 .. n
  BY <1>3, <1>4, TwoToNext DEF E
<1>6. n \div p = 1
  BY <1>5
<1> QED
  BY <1>4, <1>5, <1>6

\* ... and a lowest one.
LEMMA LowBit ==
    ASSUME NEW n \in Nat \ {0}
    PROVE  LowestBit(n) \in Nat \ {0}
<1> DEFINE E == {k \in 0 .. n : n % 2 ^ k = 0}
<1>1. E \subseteq 0 .. n /\ 0 \in E
  <2>1. 2 ^ 0 = 1 /\ n % 1 = 0
    OBVIOUS
  <2> QED
    BY <2>1
<1>2. n \notin E
  <2>1. PICK p \in Nat \ {0} : p = 2 ^ n
    BY TwoTo
  <2>2. n < p
    BY <2>1, TwoToAbove
  <2>3. n % p = n
    BY <2>2
  <2> QED
    BY <2>1, <2>3
<1> HIDE DEF E
<1>3. PICK k \in E : k \in Nat /\ k + 1 \in 0 .. n /\ k + 1 \notin E
  BY <1>1, <1>2, TopExponent
<1>4. PICK p \in Nat \ {0} : p = 2 ^ k
  BY <1>3, TwoTo
<1>5. n % p = 0 /\ n % (2 * p) # 0 /\ k \in 0 .. n
  BY <1>3, <1>4, TwoToNext DEF E
<1>6. (n \div p) % 2 = 1
  <2>1. PICK q \in Nat : q = n \div p
    OBVIOUS
  <2>2. n = q * p
    BY <1>5, <2>1
  <2>3. ASSUME NEW s \in Nat, q = 2 * s PROVE FALSE
    <3>1. n = s * (2 * p)
      BY <2>2, <2>3
    <3>2. n % (2 * p) = 0
      <4>1. PICK t \in Nat \ {0} : t = 2 * p
        OBVIOUS
      <4>2. (s * t) % t = 0
        OBVIOUS
      <4> QED
        BY <3>1, <4>1, <4>2
    <3> QED
      BY <1>5, <3>2
  <2>4. q % 2 = 1 \/ \E s \in Nat : q = 2 * s
    OBVIOUS
  <2> QED
    BY <2>1, <2>3, <2>4
<1>7. \E b \in {2 ^ j : j \in 0 .. n} : n % b = 0 /\ (n \div b) % 2 = 1
  BY <1>4, <1>5, <1>6
<1>8. LowestBit(n) \in {2 ^ j : j \in 0 .. n}
  BY <1>7 DEF LowestBit
<1>9. PICK j \in 0 .. n : LowestBit(n) = 2 ^ j
  BY <1>8
<1>10. j \in Nat
  OBVIOUS
<1> QED
  BY <1>9, <1>10, TwoTo
-----------------------------------------------------------------------------
(* What the decompositions consist of.                                     *)

Coin == Nat \ {0}

\* A sequence by its length and its members.
LEMMA IsSequence ==
    ASSUME NEW S, NEW c \in Nat, NEW s, s = [j \in 1 .. c |-> s[j]],
           \A j \in 1 .. c : s[j] \in S
    PROVE  s \in Seq(S) /\ Len(s) = c
<1>1. s \in [1 .. c -> S]
  OBVIOUS
<1> QED
  BY <1>1

\* decompose_amount's coins are positive, and a positive amount has one.
LEMMA DecomposeCoins ==
    ASSUME NEW n \in Int
    PROVE  Decompose(n) \in Seq(Coin) /\ (n >= 1 => Len(Decompose(n)) >= 1)
<1> DEFINE bits == {k \in 0 .. n : (n \div 2 ^ k) % 2 = 1}
           Nth(j) == CHOOSE k \in bits : Cardinality({i \in bits : i > k}) = j - 1
<1>1. IsFiniteSet(bits) /\ Cardinality(bits) \in Nat
  <2>1. IsFiniteSet(0 .. n)
    BY FS_Interval
  <2>2. bits \in SUBSET (0 .. n)
    OBVIOUS
  <2> HIDE DEF bits
  <2> QED
    BY <2>1, <2>2, FS_Subset, FS_CardinalityType
<1>2. \A k \in bits : k \in Nat /\ k \in Int
  OBVIOUS
<1>3. Decompose(n) = [j \in 1 .. Cardinality(bits) |-> 2 ^ Nth(j)]
  BY DEF Decompose
<1>4. n >= 1 => bits # {}
  <2>1. n >= 1 => n \in Nat \ {0}
    OBVIOUS
  <2>2. n >= 1 => \E k \in 0 .. n : (n \div 2 ^ k) % 2 = 1
    BY <2>1, HighBit
  <2> QED
    BY <2>2, Zenon
<1> HIDE DEF bits
<1>5. ASSUME NEW j \in 1 .. Cardinality(bits)
      PROVE  2 ^ Nth(j) \in Coin
  <2>1. \E k \in bits : Cardinality(Above(bits, k)) = j - 1
    BY <1>1, <1>2, Ranked
  <2>2. Nth(j) \in bits
    BY <2>1 DEF Above
  <2> HIDE DEF Nth
  <2>3. Nth(j) \in Nat
    BY <1>2, <2>2
  <2> QED
    BY <2>3, TwoTo DEF Coin
<1> HIDE DEF Nth
<1>6. PICK s : s = Decompose(n)
  OBVIOUS
<1>7. PICK c \in Nat : c = Cardinality(bits)
  BY <1>1
<1>8. s = [j \in 1 .. c |-> s[j]] /\ \A j \in 1 .. c : s[j] \in Coin
  BY <1>3, <1>5, <1>6, <1>7
<1>9. s \in Seq(Coin) /\ Len(s) = c
  BY <1>8, IsSequence
<1>10. n >= 1 => c # 0
  BY <1>1, <1>4, <1>7, FS_EmptySet
<1> QED
  BY <1>6, <1>9, <1>10

\* decompose_amount returns finitely many amounts.
LEMMA Decomposed ==
    ASSUME NEW n \in Int
    PROVE  \E c \in Nat : /\ DOMAIN Decompose(n) = 1 .. c
                          /\ \A j \in 1 .. c : Decompose(n)[j] \in Int
<1>1. PICK s \in Seq(Coin) : s = Decompose(n)
  BY DecomposeCoins
<1>2. Len(s) \in Nat /\ DOMAIN s = 1 .. Len(s) /\ \A j \in 1 .. Len(s) : s[j] \in Int
  BY DEF Coin
<1> QED
  BY <1>1, <1>2

LEMMA CappedCoins ==
    ASSUME NEW n \in Nat, NEW cap \in Coin
    PROVE  DecomposeCapped(n, cap) \in Seq(Coin)
<1>1. n % cap \in Int /\ n \div cap \in Nat
  BY DEF Coin
<1>2. Decompose(n % cap) \in Seq(Coin)
  BY <1>1, DecomposeCoins
<1>3. [j \in 1 .. n \div cap |-> cap] \in Seq(Coin)
  <2>1. PICK c \in Nat : c = n \div cap
    BY <1>1
  <2>2. [j \in 1 .. c |-> cap] \in Seq(Coin)
    OBVIOUS
  <2> QED
    BY <2>1, <2>2
<1> QED
  BY <1>2, <1>3 DEF DecomposeCapped

\* Fresh outputs for coins: consecutive numbers from the counter, one each.
Fresh(P, from, c) ==
    /\ IsFiniteSet(P) /\ Cardinality(P) = c
    /\ \A p \in P : p[1] \in from .. from + c - 1 /\ p[2] \in Coin
                    /\ p = <<p[1], p[2]>>
    /\ \A p, q \in P : p[1] = q[1] => p = q

LEMMA CoinsNumbered ==
    ASSUME NEW from \in Nat, NEW amounts \in Seq(Coin)
    PROVE  Fresh(Numbered(from, amounts), from, Len(amounts))
<1> DEFINE P == Numbered(from, amounts)
<1>1. Len(amounts) \in Nat /\ DOMAIN amounts = 1 .. Len(amounts)
      /\ \A j \in 1 .. Len(amounts) : amounts[j] \in Coin
  OBVIOUS
<1>2. \A j \in 1 .. Len(amounts) : amounts[j] \in Int
  BY <1>1 DEF Coin
<1>3. IsFiniteSet(P) /\ Cardinality(P) = Len(amounts)
  BY <1>1, <1>2, NumberedFresh
<1>4. ASSUME NEW p \in P
      PROVE  \E j \in 1 .. Len(amounts) : p = <<from + j - 1, amounts[j]>>
  BY <1>1 DEF Numbered
<1>5. ASSUME NEW p \in P
      PROVE  p[1] \in from .. from + Len(amounts) - 1 /\ p[2] \in Coin
             /\ p = <<p[1], p[2]>>
  <2>1. PICK j \in 1 .. Len(amounts) : p = <<from + j - 1, amounts[j]>>
    BY <1>4
  <2> QED
    BY <1>1, <2>1
<1>6. ASSUME NEW p \in P, NEW q \in P, p[1] = q[1] PROVE p = q
  <2>1. PICK j \in 1 .. Len(amounts) : p = <<from + j - 1, amounts[j]>>
    BY <1>4
  <2>2. PICK k \in 1 .. Len(amounts) : q = <<from + k - 1, amounts[k]>>
    BY <1>4
  <2>3. j = k
    BY <1>1, <1>6, <2>1, <2>2
  <2> QED
    BY <2>1, <2>2, <2>3
<1> HIDE DEF P
<1>7. Fresh(P, from, Len(amounts))
  BY <1>3, <1>5, <1>6 DEF Fresh
<1> QED
  BY <1>7 DEF P
\* What proofs are worth.
LEMMA SumOfProofs ==
    ASSUME NEW P, IsFiniteSet(P), \A p \in P : p[2] \in Int
    PROVE  Sum(P) \in Int
<1> DEFINE f == [p \in P |-> p[2]]
<1>1. DOMAIN f = P /\ \A p \in P : f[p] \in Int
  OBVIOUS
<1>2. Sum(P) = SumFunctionOnSet(f, P)
  BY <1>1 DEF Sum, SumFunction, FoldFunction, SumFunctionOnSet
<1> HIDE DEF f
<1> QED
  BY <1>1, <1>2, SumType

LEMMA SumOfNone == Sum({}) = 0
<1> DEFINE f == [p \in {} |-> p[2]]
<1>1. DOMAIN f = {}
  OBVIOUS
<1>2. Sum({}) = SumFunctionOnSet(f, {})
  BY <1>1 DEF Sum, SumFunction, FoldFunction, SumFunctionOnSet
<1> HIDE DEF f
<1> QED
  BY <1>2, SumStep, FS_EmptySet

\* The greatest of a finite set of integers is what Max chooses.
LEMMA MaxOf ==
    ASSUME NEW S, IsFiniteSet(S), \A x \in S : x \in Int, S # {}
    PROVE  Max(S) \in S /\ \A x \in S : x <= Max(S)
<1>1. PICK m \in S : \A x \in S : x <= m
  BY Greatest
<1>2. \A x \in S : m >= x
  BY <1>1
<1>3. Max(S) \in S /\ \A x \in S : Max(S) >= x
  BY <1>2, Zenon DEF Max
<1> QED
  BY <1>3
=============================================================================
