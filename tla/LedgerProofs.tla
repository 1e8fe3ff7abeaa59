---------------------------- MODULE LedgerProofs ----------------------------
(***************************************************************************)
(* What the other proofs need of sums over finite sets and of postings.    *)
(*                                                                         *)
(* Balance, NetOf and the sums of a game are folds of the community        *)
(* modules, which choose one element after the other. The lemmas show that *)
(* the choice does not matter (AddsAny), and so what a sum becomes when an *)
(* element is added, removed or copied. Each is proved by induction over   *)
(* the subsets of a finite set, which SubsetInduction states in            *)
(* first-order form. PostingIsHonest puts them together: what posting a    *)
(* batch of orders makes of a ledger that overdraws nobody (Ledger.tla,    *)
(* wallet_service.py).                                                     *)
(***************************************************************************)
EXTENDS Ledger, FiniteSetTheorems, TLAPS

-----------------------------------------------------------------------------
(* Sums *)

\* An element is taken out of every non-empty set in the same way.
First(s) == CHOOSE x \in s : TRUE
Rest(s) == s \ {First(s)}

\* g adds up val over the subsets of S, as MapThenSumSet does.
Adds(g, val, S) ==
    \A s \in SUBSET S : g[s] = IF s = {} THEN 0 ELSE val[First(s)] + g[Rest(s)]

\* The function MapThenSumSet defines.
IsSum(g, val, S) ==
    g = [s \in SUBSET S |-> IF s = {} THEN 0 ELSE val[First(s)] + g[Rest(s)]]

LEMMA FirstIsIn == ASSUME NEW s, s # {} PROVE First(s) \in s /\ Rest(s) \subseteq s /\ Rest(s) # s
  BY DEF First, Rest

\* Induction over the subsets of a finite set: a set of subsets that contains s
\* whenever it contains every smaller one contains them all.
LEMMA SubsetInduction ==
    ASSUME NEW S, IsFiniteSet(S), NEW P,
           \A s \in SUBSET S : (\A t \in SUBSET s : t # s => t \in P) => s \in P
    PROVE  SUBSET S \subseteq P
  <1> DEFINE R == StrictSubsetOrdering(S)
             T == (SUBSET S) \ P
  <1>1. IsWellFoundedOn(R, SUBSET S)
    BY FS_StrictSubsetOrderingWellFounded, FS_FiniteSubsetsOfFinite
  <1>2. ASSUME T # {} PROVE FALSE
    <2>1. PICK s \in T : \A t \in T : ~ (<<t, s>> \in R)
      <3>1. T \subseteq SUBSET S
        OBVIOUS
      <3> HIDE DEF R, T
      <3>2. QED
        BY <1>1, <1>2, <3>1, WFMin
    <2>2. ASSUME NEW t \in SUBSET s, t # s PROVE t \in P
      <3>1. t \in SUBSET S /\ s \in SUBSET S
        BY <2>1
      <3>2. <<t, s>> \in R
        BY <2>2, <3>1 DEF StrictSubsetOrdering
      <3>3. QED
        BY <2>1, <3>1, <3>2
    <2>3. s \in P
      BY <2>1, <2>2
    <2>4. QED
      BY <2>1, <2>3
  <1>3. QED
    BY <1>2

\* What adds up equal values over the same set is equal.
LEMMA AddsAlike ==
    ASSUME NEW S, IsFiniteSet(S), NEW f, NEW g, NEW val, NEW amt,
           Adds(f, val, S), Adds(g, amt, S), \A x \in S : val[x] = amt[x]
    PROVE  \A s \in SUBSET S : f[s] = g[s]
  <1> DEFINE P == {s \in SUBSET S : f[s] = g[s]}
  <1>1. ASSUME NEW s \in SUBSET S, \A t \in SUBSET s : t # s => t \in P PROVE s \in P
    <2>1. CASE s = {}
      BY <2>1 DEF Adds
    <2>2. CASE s # {}
      <3>1. First(s) \in S /\ f[Rest(s)] = g[Rest(s)]
        BY <1>1, <2>2, FirstIsIn
      <3>2. f[s] = val[First(s)] + f[Rest(s)] /\ g[s] = amt[First(s)] + g[Rest(s)]
        BY <2>2 DEF Adds
      <3>3. QED
        BY <3>1, <3>2
    <2>3. QED
      BY <2>1, <2>2
  <1>2. SUBSET S \subseteq P
    <2> HIDE DEF P
    <2>1. QED
      BY <1>1, SubsetInduction
  <1>3. QED
    BY <1>2

\* The sum exists.
LEMMA AddsExists ==
    ASSUME NEW S, IsFiniteSet(S), NEW val
    PROVE  \E g : IsSum(g, val, S)
  <1> DEFINE G(s) == CHOOSE g : Adds(g, val, s)
             P == {s \in SUBSET S : \E g : Adds(g, val, s)}
             h == [t \in SUBSET S |-> IF t = {} THEN 0 ELSE val[First(t)] + G(Rest(t))[Rest(t)]]
  <1>1. ASSUME NEW s \in SUBSET S, \A t \in SUBSET s : t # s => t \in P
        PROVE  /\ Adds(h, val, s)
               /\ s \in P
    <2>1. ASSUME NEW t \in SUBSET s, t # {}
          PROVE  h[Rest(t)] = G(Rest(t))[Rest(t)]
      <3> DEFINE u == Rest(t)
      <3>0. u \in SUBSET S /\ u \in SUBSET s /\ u # s
        BY <2>1, FirstIsIn DEF Rest
      <3>1. u \in P /\ u \in SUBSET S /\ u \in SUBSET s
        BY <1>1, <3>0
      <3>2. Adds(G(u), val, u)
        BY <3>1
      <3>3. CASE u = {}
        BY <3>1, <3>2, <3>3 DEF Adds
      <3>4. CASE u # {}
        <4> DEFINE v == Rest(u)
        <4>1. v \in P /\ v \in SUBSET u /\ v # s
          BY <1>1, <3>1, <3>4, <2>1, FirstIsIn
        <4>2. Adds(G(v), val, v)
          BY <4>1
        <4>3. Adds(G(u), val, v)
          BY <3>2, <4>1 DEF Adds
        <4>4. IsFiniteSet(v)
          BY <3>1, <4>1, FS_Subset
        <4>5. G(u)[v] = G(v)[v]
          <5> HIDE DEF v, G
          <5>1. QED
            BY <4>2, <4>3, <4>4, AddsAlike
        <4>6. G(u)[u] = val[First(u)] + G(u)[v]
          BY <3>2, <3>4 DEF Adds
        <4>7. h[u] = val[First(u)] + G(v)[v]
          BY <3>1, <3>4
        <4>8. QED
          BY <4>5, <4>6, <4>7
      <3>5. QED
        BY <3>3, <3>4
    <2>2. Adds(h, val, s)
      <3>1. \A t \in SUBSET s : h[t] = IF t = {} THEN 0 ELSE val[First(t)] + G(Rest(t))[Rest(t)]
        OBVIOUS
      <3> HIDE DEF h, G
      <3>2. QED
        BY <2>1, <3>1 DEF Adds
    <2>3. QED
      BY <2>2
  <1>2. SUBSET S \subseteq P
    <2> HIDE DEF P, h
    <2>1. QED
      BY <1>1, SubsetInduction
  <1>3. Adds(h, val, S)
    <2>1. \A t \in SUBSET S : t # S => t \in P
      BY <1>2
    <2> HIDE DEF P, h
    <2>2. QED
      BY <1>1, <2>1
  <1>4. IsSum(h, val, S)
    <2>1. h = [s \in SUBSET S |-> h[s]]
      OBVIOUS
    <2> HIDE DEF h
    <2>2. QED
      BY <1>3, <2>1 DEF Adds, IsSum
  <1>5. QED
    BY <1>4

\* Every order of adding up gives the same.
LEMMA AddsAny ==
    ASSUME NEW S, IsFiniteSet(S), NEW g, NEW val, Adds(g, val, S),
           \A x \in S : val[x] \in Int
    PROVE  \A s \in SUBSET S : g[s] \in Int /\ \A x \in s : g[s] = val[x] + g[s \ {x}]
  <1> DEFINE Good(s) == g[s] \in Int /\ \A x \in s : g[s] = val[x] + g[s \ {x}]
             P == {s \in SUBSET S : Good(s)}
  <1>1. ASSUME NEW s \in SUBSET S, \A t \in SUBSET s : t # s => t \in P PROVE s \in P
    <2>1. CASE s = {}
      BY <2>1 DEF Adds
    <2>2. CASE s # {}
      <3> DEFINE c == First(s)
                 b == Rest(s)
      <3>1. c \in s /\ b \in SUBSET s /\ b # s /\ b = s \ {c}
        BY <2>2, FirstIsIn DEF Rest
      <3>2. g[s] = val[c] + g[b]
        BY <2>2 DEF Adds
      <3>3. Good(b) /\ val[c] \in Int
        BY <1>1, <3>1
      <3>4. ASSUME NEW x \in s, x # c PROVE g[s] = val[x] + g[s \ {x}]
        <4>1. x \in b /\ (s \ {x}) \in SUBSET s /\ (s \ {x}) # s /\ c \in s \ {x}
          BY <3>1, <3>4
        <4>2. Good(s \ {x})
          BY <1>1, <4>1
        <4>3. g[b] = val[x] + g[b \ {x}]
          BY <3>3, <4>1
        <4>4. g[s \ {x}] = val[c] + g[(s \ {x}) \ {c}]
          BY <4>1, <4>2
        <4>5. (s \ {x}) \ {c} = b \ {x}
          BY <3>1
        <4>6. (b \ {x}) \in SUBSET s /\ (b \ {x}) # s
          BY <3>1
        <4>7. g[b \ {x}] \in Int /\ val[x] \in Int
          BY <1>1, <4>6
        <4>8. g[s \ {x}] = val[c] + g[b \ {x}]
          BY <4>4, <4>5
        <4> HIDE DEF c, b
        <4>9. QED
          BY <3>2, <3>3, <4>3, <4>7, <4>8
      <3>5. Good(s)
        <4>1. g[s] \in Int
          BY <3>2, <3>3
        <4>2. g[s] = val[c] + g[s \ {c}]
          BY <3>1, <3>2
        <4> HIDE DEF c, b
        <4>3. QED
          BY <3>4, <4>1, <4>2
      <3>6. QED
        BY <3>5
    <2>3. QED
      BY <2>1, <2>2
  <1>2. SUBSET S \subseteq P
    <2> HIDE DEF P
    <2>1. QED
      BY <1>1, SubsetInduction
  <1>3. QED
    BY <1>2

-----------------------------------------------------------------------------
(* Totals *)

\* The sum of the values of a function over a finite set.
Total(val, S) == MapThenSumSet(LAMBDA x : val[x], S)

\* The fold of the community modules is such a function.
LEMMA TotalAdds ==
    ASSUME NEW S, IsFiniteSet(S), NEW val
    PROVE  \E g : Adds(g, val, S) /\ Total(val, S) = g[S]
  <1> DEFINE it == CHOOSE g : g = [s \in SUBSET S |-> IF s = {} THEN 0 ELSE val[First(s)] + g[Rest(s)]]
  <1>1. PICK g : IsSum(g, val, S)
    BY AddsExists
  <1>2. it = [s \in SUBSET S |-> IF s = {} THEN 0 ELSE val[First(s)] + it[Rest(s)]]
    BY <1>1 DEF IsSum
  <1>3. Total(val, S) = it[S]
    BY DEF Total, MapThenSumSet, MapThenFoldSet, First, Rest
  <1>4. Adds(it, val, S)
    <2> HIDE DEF it
    <2>1. QED
      BY <1>2 DEF Adds
  <1>5. QED
    BY <1>3, <1>4

\* Functions that agree on a set have the same total over it.
LEMMA TotalAlike ==
    ASSUME NEW S, IsFiniteSet(S), NEW val, NEW amt, \A x \in S : val[x] = amt[x]
    PROVE  Total(val, S) = Total(amt, S)
  BY TotalAdds, AddsAlike

\* Totals of nothing, of numbers, and with one element less or more.
LEMMA TotalEmpty == ASSUME NEW val PROVE Total(val, {}) = 0
  BY TotalAdds, FS_EmptySet DEF Adds

LEMMA TotalInt ==
    ASSUME NEW S, IsFiniteSet(S), NEW val, \A x \in S : val[x] \in Int
    PROVE  Total(val, S) \in Int
  BY TotalAdds, AddsAny

LEMMA TotalRemove ==
    ASSUME NEW S, IsFiniteSet(S), NEW val, \A x \in S : val[x] \in Int, NEW x \in S
    PROVE  Total(val, S) = val[x] + Total(val, S \ {x})
  <1>1. IsFiniteSet(S \ {x}) /\ (S \ {x}) \in SUBSET S
    BY FS_RemoveElement
  <1>2. PICK g : Adds(g, val, S) /\ Total(val, S) = g[S]
    BY TotalAdds
  <1>3. PICK h : Adds(h, val, S \ {x}) /\ Total(val, S \ {x}) = h[S \ {x}]
    BY <1>1, TotalAdds
  <1>4. Adds(g, val, S \ {x})
    BY <1>1, <1>2 DEF Adds
  <1>5. g[S \ {x}] = h[S \ {x}]
    BY <1>1, <1>3, <1>4, AddsAlike
  <1>6. g[S] = val[x] + g[S \ {x}]
    BY <1>2, AddsAny
  <1>7. QED
    BY <1>2, <1>3, <1>5, <1>6

LEMMA TotalAdd ==
    ASSUME NEW S, IsFiniteSet(S), NEW x, x \notin S,
           NEW val, \A y \in S \cup {x} : val[y] \in Int
    PROVE  Total(val, S \cup {x}) = Total(val, S) + val[x]
  <1>1. IsFiniteSet(S \cup {x}) /\ (S \cup {x}) \ {x} = S
    BY FS_AddElement
  <1>2. Total(val, S \cup {x}) = val[x] + Total(val, S)
    BY <1>1, TotalRemove
  <1>3. QED
    BY <1>2, TotalInt

\* More elements whose values are no debts never lower the total.
LEMMA TotalGrows ==
    ASSUME NEW T, IsFiniteSet(T), NEW S \in SUBSET T, NEW val,
           \A x \in T : val[x] \in Int, \A x \in T \ S : val[x] >= 0
    PROVE  Total(val, S) <= Total(val, T)
  <1> DEFINE D == T \ S
             P == {s \in SUBSET D : Total(val, S) <= Total(val, S \cup s)}
  <1>1. ASSUME NEW s \in SUBSET D, \A t \in SUBSET s : t # s => t \in P PROVE s \in P
    <2>1. CASE s = {}
      <3>1. S \cup s = S /\ Total(val, S) \in Int
        BY <2>1, TotalInt, FS_Subset
      <3>2. QED
        BY <3>1
    <2>2. CASE s # {}
      <3>1. PICK x : x \in s
        BY <2>2
      <3> DEFINE b == s \ {x}
      <3>2. b \in P /\ x \notin S \cup b /\ (S \cup b) \cup {x} = S \cup s
        BY <1>1, <3>1
      <3>3. IsFiniteSet(S \cup b) /\ S \cup b \in SUBSET T /\ S \cup s \in SUBSET T
        BY <3>1, FS_Subset
      <3>4. Total(val, S \cup s) = Total(val, S \cup b) + val[x]
        BY <3>1, <3>2, <3>3, TotalAdd
      <3>5. val[x] >= 0 /\ val[x] \in Int
        BY <3>1
      <3>6. Total(val, S) \in Int /\ Total(val, S \cup b) \in Int
        BY <3>3, TotalInt, FS_Subset
      <3>7. QED
        BY <3>2, <3>4, <3>5, <3>6
    <2>3. QED
      BY <2>1, <2>2
  <1>2. SUBSET D \subseteq P
    <2>1. IsFiniteSet(D)
      BY FS_Subset
    <2> HIDE DEF D, P
    <2>2. QED
      BY <1>1, <2>1, SubsetInduction
  <1>3. D \in P /\ S \cup D = T
    BY <1>2
  <1>4. QED
    BY <1>3

-----------------------------------------------------------------------------
(* Amounts *)

\* The sum of the amounts of a set of transactions, of which Balance is one.
Sum(S) == MapThenSumSet(LAMBDA t : t.amount, S)
Of(L, u) == {t \in L : t.user = u}

\* The balance of a wallet (wallet_service.py, reports) is such a sum.
LEMMA BalanceIsSum == ASSUME NEW L, NEW u PROVE Balance(L, u) = Sum(Of(L, u))
  BY DEF Balance, Sum, Of

\* The same for sets of transactions, whose values are their amounts.
LEMMA SumIsTotal ==
    ASSUME NEW S, IsFiniteSet(S)
    PROVE  Sum(S) = Total([t \in S |-> t.amount], S)
  <1> DEFINE val == [t \in S |-> t.amount]
             it == CHOOSE g : g = [s \in SUBSET S |-> IF s = {} THEN 0 ELSE (First(s)).amount + g[Rest(s)]]
  <1>1. PICK g : IsSum(g, val, S)
    BY AddsExists
  <1>2. \A s \in SUBSET S : s # {} => val[First(s)] = (First(s)).amount
    BY FirstIsIn
  <1>3. g = [s \in SUBSET S |-> IF s = {} THEN 0 ELSE (First(s)).amount + g[Rest(s)]]
    <2> HIDE DEF val
    <2>1. QED
      BY <1>1, <1>2 DEF IsSum
  <1>4. it = [s \in SUBSET S |-> IF s = {} THEN 0 ELSE (First(s)).amount + it[Rest(s)]]
    BY <1>3
  <1>5. Sum(S) = it[S]
    BY DEF Sum, MapThenSumSet, MapThenFoldSet, First, Rest
  <1>6. Adds(it, val, S)
    <2> HIDE DEF it, val
    <2>1. QED
      BY <1>2, <1>4 DEF Adds
  <1>7. PICK h : Adds(h, val, S) /\ Total(val, S) = h[S]
    <2> HIDE DEF val
    <2>1. QED
      BY TotalAdds
  <1>8. it[S] = h[S]
    <2> HIDE DEF it, val
    <2>1. QED
      BY <1>6, <1>7, AddsAlike
  <1>9. QED
    BY <1>5, <1>7, <1>8

\* Sums of no transactions, of finitely many, and with one more.
LEMMA SumInt ==
    ASSUME NEW S, IsFiniteSet(S), \A t \in S : t.amount \in Int
    PROVE  Sum(S) \in Int
  <1> DEFINE val == [t \in S |-> t.amount]
  <1>1. \A t \in S : val[t] \in Int
    OBVIOUS
  <1> HIDE DEF val
  <1>2. Total(val, S) \in Int
    BY <1>1, TotalInt
  <1>3. QED
    BY <1>2, SumIsTotal DEF val

LEMMA SumEmpty == Sum({}) = 0
  BY SumIsTotal, TotalEmpty, FS_EmptySet

LEMMA SumAdd ==
    ASSUME NEW S, IsFiniteSet(S), NEW x, x \notin S, \A t \in S \cup {x} : t.amount \in Int
    PROVE  Sum(S \cup {x}) = Sum(S) + x.amount
  <1> DEFINE T == S \cup {x}
             val == [t \in T |-> t.amount]
             amt == [t \in S |-> t.amount]
  <1>1. IsFiniteSet(T) /\ \A t \in T : val[t] = t.amount
    BY FS_AddElement
  <1>2. \A t \in S : val[t] = amt[t]
    OBVIOUS
  <1>3. Sum(S) = Total(amt, S) /\ Sum(T) = Total(val, T)
    BY <1>1, SumIsTotal
  <1>4. Total(val, S) = Total(amt, S)
    <2> HIDE DEF val, amt
    <2>1. QED
      BY <1>2, TotalAlike
  <1>5. Total(val, T) = Total(val, S) + val[x]
    <2> HIDE DEF val
    <2>1. QED
      BY <1>1, TotalAdd
  <1>6. QED
    BY <1>1, <1>3, <1>4, <1>5

\* Credits never lower a sum.
LEMMA SumGrows ==
    ASSUME NEW T, IsFiniteSet(T), NEW S \in SUBSET T,
           \A t \in T : t.amount \in Int, \A t \in T \ S : t.amount >= 0
    PROVE  Sum(S) <= Sum(T)
  <1> DEFINE val == [t \in T |-> t.amount]
             amt == [t \in S |-> t.amount]
  <1>1. IsFiniteSet(S) /\ \A t \in S : val[t] = amt[t]
    BY FS_Subset
  <1>2. Sum(S) = Total(amt, S) /\ Sum(T) = Total(val, T)
    BY <1>1, SumIsTotal
  <1>3. Total(val, S) = Total(amt, S)
    <2> HIDE DEF val, amt
    <2>1. QED
      BY <1>1, TotalAlike
  <1>4. (\A t \in T : val[t] \in Int) /\ \A t \in T \ S : val[t] >= 0
    OBVIOUS
  <1>5. Total(val, S) <= Total(val, T)
    <2> HIDE DEF val
    <2>1. QED
      BY <1>4, TotalGrows
  <1>6. QED
    BY <1>2, <1>3, <1>5

-----------------------------------------------------------------------------
(* Orders *)

\* The values of a function on a finite set.
ValuesOf(f, S) == {f[x] : x \in S}

\* Finitely many elements have finitely many values.
LEMMA ValuesFinite ==
    ASSUME NEW S, IsFiniteSet(S), NEW f
    PROVE  IsFiniteSet(ValuesOf(f, S))
  <1> DEFINE g == [x \in S |-> f[x]]
  <1>1. g \in Surjection(S, ValuesOf(f, S))
    BY DEF Surjection, ValuesOf
  <1>2. QED
    BY <1>1, FS_Surjection

\* The values of an injective function add up as the function does.
LEMMA SumOfValues ==
    ASSUME NEW S, IsFiniteSet(S), NEW f, \A x \in S : f[x].amount \in Int,
           \A x, y \in S : f[x] = f[y] => x = y
    PROVE  Sum(ValuesOf(f, S)) = Total([x \in S |-> f[x].amount], S)
  <1> DEFINE val == [x \in S |-> f[x].amount]
             P == {s \in SUBSET S : Sum(ValuesOf(f, s)) = Total(val, s)}
  <1>1. ASSUME NEW s \in SUBSET S, \A t \in SUBSET s : t # s => t \in P PROVE s \in P
    <2>1. CASE s = {}
      <3>1. ValuesOf(f, s) = {}
        BY <2>1 DEF ValuesOf
      <3> HIDE DEF val
      <3>2. QED
        BY <2>1, <3>1, SumEmpty, TotalEmpty
    <2>2. CASE s # {}
      <3>1. PICK x : x \in s
        BY <2>2
      <3> DEFINE b == s \ {x}
                 V == ValuesOf(f, b)
      <3>2. b \in P /\ x \notin b /\ b \cup {x} = s /\ IsFiniteSet(b) /\ b \in SUBSET S
        BY <1>1, <3>1, FS_Subset
      <3>3. ValuesOf(f, s) = V \cup {f[x]} /\ f[x] \notin V
        BY <3>1, <3>2 DEF ValuesOf
      <3>4. IsFiniteSet(V) /\ \A t \in V \cup {f[x]} : t.amount \in Int
        <4>1. IsFiniteSet(V)
          BY <3>2, ValuesFinite
        <4>2. QED
          BY <3>1, <4>1 DEF ValuesOf
      <3>5. \A y \in b \cup {x} : val[y] \in Int
        BY <3>1
      <3>6. val[x] = f[x].amount /\ Sum(V) = Total(val, b)
        BY <3>1, <3>2
      <3> HIDE DEF val, b, V, P
      <3>7. Sum(V \cup {f[x]}) = Sum(V) + f[x].amount
        BY <3>3, <3>4, SumAdd
      <3>8. Total(val, b \cup {x}) = Total(val, b) + val[x]
        BY <3>2, <3>5, TotalAdd
      <3>9. QED
        BY <3>2, <3>3, <3>6, <3>7, <3>8 DEF P
    <2>3. QED
      BY <2>1, <2>2
  <1>2. SUBSET S \subseteq P
    <2> HIDE DEF val, P
    <2>1. QED
      BY <1>1, SubsetInduction
  <1>3. QED
    BY <1>2

\* Two sets without a common element.
LEMMA SumUnion ==
    ASSUME NEW S, IsFiniteSet(S), NEW T, IsFiniteSet(T), S \cap T = {},
           \A t \in S \cup T : t.amount \in Int
    PROVE  Sum(S \cup T) = Sum(S) + Sum(T)
  <1> DEFINE P == {s \in SUBSET T : Sum(S \cup s) = Sum(S) + Sum(s)}
  <1>0. Sum(S) \in Int
    BY SumInt
  <1>1. ASSUME NEW s \in SUBSET T, \A t \in SUBSET s : t # s => t \in P PROVE s \in P
    <2>1. CASE s = {}
      <3>1. S \cup s = S
        BY <2>1
      <3>2. QED
        BY <1>0, <2>1, <3>1, SumEmpty
    <2>2. CASE s # {}
      <3>1. PICK x : x \in s
        BY <2>2
      <3> DEFINE b == s \ {x}
      <3>2. b \in P /\ x \notin b /\ b \cup {x} = s /\ b \in SUBSET T
        BY <1>1, <3>1
      <3>3. IsFiniteSet(b) /\ IsFiniteSet(S \cup b) /\ x \notin S \cup b
            /\ (S \cup b) \cup {x} = S \cup s
        BY <3>1, <3>2, FS_Subset, FS_Union
      <3>4. Sum(S \cup b) = Sum(S) + Sum(b)
        BY <3>2
      <3>5. \A t \in (S \cup b) \cup {x} : t.amount \in Int
        BY <3>1
      <3> HIDE DEF P, b
      <3>6. Sum((S \cup b) \cup {x}) = Sum(S \cup b) + x.amount
        BY <3>3, <3>5, SumAdd
      <3>7. Sum(b \cup {x}) = Sum(b) + x.amount
        BY <3>2, <3>3, <3>5, SumAdd
      <3>8. Sum(b) \in Int /\ x.amount \in Int
        BY <3>3, <3>5, SumInt
      <3>9. Sum(S \cup s) = Sum(S \cup b) + x.amount
        BY <3>3, <3>6
      <3>10. Sum(s) = Sum(b) + x.amount
        BY <3>2, <3>7
      <3>11. Sum(S \cup s) = Sum(S) + Sum(s)
        BY <1>0, <3>4, <3>8, <3>9, <3>10
      <3>12. QED
        BY <3>11 DEF P
    <2>3. QED
      BY <2>1, <2>2
  <1>2. SUBSET T \subseteq P
    <2> HIDE DEF P
    <2>1. QED
      BY <1>1, SubsetInduction
  <1>3. QED
    BY <1>2

\* What is taken back is what was given.
LEMMA TotalNegated ==
    ASSUME NEW S, IsFiniteSet(S), NEW val, NEW neg,
           \A x \in S : val[x] \in Int /\ neg[x] = - val[x]
    PROVE  Total(neg, S) = - Total(val, S)
  <1> DEFINE P == {s \in SUBSET S : Total(neg, s) = - Total(val, s)}
  <1>1. ASSUME NEW s \in SUBSET S, \A t \in SUBSET s : t # s => t \in P PROVE s \in P
    <2>1. CASE s = {}
      BY <2>1, TotalEmpty
    <2>2. CASE s # {}
      <3>1. PICK x : x \in s
        BY <2>2
      <3> DEFINE b == s \ {x}
      <3>2. b \in P /\ x \notin b /\ b \cup {x} = s /\ IsFiniteSet(b)
        BY <1>1, <3>1, FS_Subset
      <3>3. /\ \A y \in b \cup {x} : val[y] \in Int
            /\ \A y \in b \cup {x} : neg[y] \in Int
        BY <3>1
      <3> HIDE DEF b
      <3>4. Total(val, b \cup {x}) = Total(val, b) + val[x]
        BY <3>2, <3>3, TotalAdd
      <3>5. Total(neg, b \cup {x}) = Total(neg, b) + neg[x]
        BY <3>2, <3>3, TotalAdd
      <3>6. Total(val, b) \in Int
        BY <3>2, <3>3, TotalInt
      <3>7. Total(neg, b) = - Total(val, b) /\ val[x] \in Int /\ neg[x] = - val[x]
        BY <3>1, <3>2
      <3>8. Total(val, s) = Total(val, b) + val[x]
        BY <3>2, <3>4
      <3>9. Total(neg, s) = Total(neg, b) + neg[x]
        BY <3>2, <3>5
      <3>10. Total(neg, s) = - Total(val, s)
        BY <3>6, <3>7, <3>8, <3>9
      <3>11. QED
        BY <3>10
    <2>3. QED
      BY <2>1, <2>2
  <1>2. SUBSET S \subseteq P
    <2> HIDE DEF P
    <2>1. QED
      BY <1>1, SubsetInduction
  <1>3. QED
    BY <1>2

\* Records that carry the amounts of other records, or their opposites.
LEMMA SumOfCopies ==
    ASSUME NEW S, IsFiniteSet(S), NEW f, \A x \in S : x.amount \in Int,
           \A x, y \in S : f[x] = f[y] => x = y
    PROVE  /\ (\A x \in S : f[x].amount = x.amount) => Sum(ValuesOf(f, S)) = Sum(S)
           /\ (\A x \in S : f[x].amount = - x.amount) => Sum(ValuesOf(f, S)) = - Sum(S)
  <1> DEFINE val == [x \in S |-> f[x].amount]
             amt == [x \in S |-> x.amount]
  <1>1. Sum(S) = Total(amt, S)
    BY SumIsTotal
  <1>2. ASSUME \A x \in S : f[x].amount = x.amount PROVE Sum(ValuesOf(f, S)) = Sum(S)
    <2>1. \A x \in S : val[x] = amt[x]
      BY <1>2
    <2>2. Sum(ValuesOf(f, S)) = Total(val, S)
      BY <1>2, SumOfValues
    <2> HIDE DEF val, amt
    <2>3. QED
      BY <1>1, <2>1, <2>2, TotalAlike
  <1>3. ASSUME \A x \in S : f[x].amount = - x.amount PROVE Sum(ValuesOf(f, S)) = - Sum(S)
    <2>1. \A x \in S : amt[x] \in Int /\ val[x] = - amt[x]
      BY <1>3
    <2>2. Sum(ValuesOf(f, S)) = Total(val, S)
      BY <1>3, SumOfValues
    <2> HIDE DEF val, amt
    <2>3. QED
      BY <1>1, <2>1, <2>2, TotalNegated
  <1>4. QED
    BY <1>2, <1>3

-----------------------------------------------------------------------------
(* Postings *)

\* What a batch of orders leaves of a ledger that overdraws nobody: new
\* transactions under keys of their own, and no wallet below zero, when the
\* debits were affordable or there were none.
LEMMA PostingIsHonest ==
    ASSUME NEW L, IsFiniteSet(L), NEW orders, IsFiniteSet(orders),
           \A t \in L \cup orders : t.amount \in Int,
           \A t, x \in orders : t.user = x.user /\ t.key = x.key => t = x,
           NEW U, \A u \in U : Balance(L, u) >= 0,
           Affordable(L, orders) \/ \A t \in orders : t.amount >= 0
    PROVE  LET M     == Posted(L, orders)
               batch == M \ L
           IN  /\ L \subseteq M
               /\ batch \subseteq orders
               /\ \A t \in batch :
                     /\ ~ HasTx(L, t.user, t.key)
                     /\ \A x \in batch : x.user = t.user /\ x.key = t.key => x = t
               /\ \A u \in U : Balance(M, u) >= 0
  <1> DEFINE M == Posted(L, orders)
  <1>1. /\ L \subseteq M /\ M \subseteq L \cup orders
        /\ \A t \in M \ L : t \in orders /\ ~ HasTx(L, t.user, t.key)
    BY DEF Posted, NewTxs
  <1>2. ASSUME NEW u \in U PROVE Balance(M, u) >= 0
    <2>1. /\ IsFiniteSet(M)
          /\ IsFiniteSet(Of(M, u)) /\ Of(L, u) \subseteq Of(M, u)
          /\ \A t \in Of(M, u) : t.amount \in Int
      <3>1. IsFiniteSet(L \cup orders)
        BY FS_Union
      <3>2. QED
        BY <1>1, <3>1, FS_Subset DEF Of
    <2>2. Sum(Of(L, u)) \in Int /\ Sum(Of(L, u)) >= 0 /\ Sum(Of(M, u)) \in Int
      <3>1. Sum(Of(L, u)) \in Int
        BY <2>1, SumInt, FS_Subset
      <3>2. QED
        BY <2>1, <3>1, SumInt, BalanceIsSum
    <2>3. CASE \A t \in orders : t.amount >= 0
      <3>1. \A t \in Of(M, u) \ Of(L, u) : t.amount >= 0
        BY <1>1, <2>3 DEF Of
      <3> HIDE DEF M
      <3>2. Sum(Of(L, u)) <= Sum(Of(M, u))
        BY <2>1, <3>1, SumGrows
      <3>3. QED
        BY <2>2, <3>2, BalanceIsSum
    <2>4. CASE Affordable(L, orders) /\ \E o \in NewTxs(L, orders) : o.user = u
      BY <2>4 DEF Affordable
    <2>5. CASE ~ \E o \in NewTxs(L, orders) : o.user = u
      <3>1. Of(M, u) = Of(L, u)
        BY <2>5 DEF Of, Posted
      <3> HIDE DEF M
      <3>2. QED
        BY <2>2, <3>1, BalanceIsSum
    <2>6. QED
      BY <2>3, <2>4, <2>5
  <1>3. QED
    BY <1>1, <1>2
=============================================================================
