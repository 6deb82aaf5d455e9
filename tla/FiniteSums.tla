------------------------------ MODULE FiniteSums -------------------------------
(***************************************************************************)
(* What the sums over finite sets are that capacity, demand and supply are *)
(* read from: the recursion behind SumFunctionOnSet has a solution, and    *)
(* the sum of natural numbers is a natural number, whatever the order of   *)
(* summation.  Induction is by a minimal counterexample.                   *)
(***************************************************************************)
EXTENDS Integers, Functions, FiniteSetTheorems, WellFoundedInduction, TLAPS

Chosen(s) == CHOOSE x \in s : TRUE

\* g sums f up over all subsets of T.
Sums(f, T, g) ==
    g = [s \in SUBSET T |-> IF s = {} THEN 0 ELSE f[Chosen(s)] + g[s \ {Chosen(s)}]]

Totals(f, T) == CHOOSE g : Sums(f, T, g)
Total(f, T) == Totals(f, T)[T]

\* A non-empty set of subsets of a finite set has a minimal one.
LEMMA MinimalSubset ==
    ASSUME NEW S, IsFiniteSet(S), NEW B, B \subseteq SUBSET S, B # {}
    PROVE  \E X \in B : \A Y \in B : Y \subseteq X => Y = X
<1>1. IsWellFoundedOn(StrictSubsetOrdering(S), SUBSET S)
  BY FS_FiniteSubsetsOfFinite, FS_StrictSubsetOrderingWellFounded
<1>2. PICK X \in B : \A Y \in B : ~(<<Y, X>> \in StrictSubsetOrdering(S))
  BY <1>1, WFMin
<1> QED
  BY <1>2 DEF StrictSubsetOrdering

LEMMA ChosenIn == \A s : s # {} => Chosen(s) \in s
  BY DEF Chosen

\* Two sums of f agree wherever both are defined.
LEMMA SumsAgree ==
    ASSUME NEW S, IsFiniteSet(S), NEW f, NEW A \in SUBSET S, NEW B \in SUBSET S,
           NEW g, NEW h, Sums(f, A, g), Sums(f, B, h)
    PROVE  \A s \in SUBSET (A \cap B) : g[s] = h[s]
<1> DEFINE Bad == {s \in SUBSET (A \cap B) : g[s] # h[s]}
<1> SUFFICES ASSUME Bad # {} PROVE FALSE
  OBVIOUS
<1>1. Bad \subseteq SUBSET S
  OBVIOUS
<1>2. PICK X \in Bad : \A Y \in Bad : Y \subseteq X => Y = X
  <2> HIDE DEF Bad
  <2> QED BY <1>1, MinimalSubset
<1>3. X \in SUBSET A /\ X \in SUBSET B
  OBVIOUS
<1>4. /\ g[X] = IF X = {} THEN 0 ELSE f[Chosen(X)] + g[X \ {Chosen(X)}]
      /\ h[X] = IF X = {} THEN 0 ELSE f[Chosen(X)] + h[X \ {Chosen(X)}]
  BY <1>3 DEF Sums
<1>5. CASE X = {}
  BY <1>4, <1>5
<1>6. CASE X # {}
  <2>1. X \ {Chosen(X)} \notin Bad
    BY <1>2, <1>6, ChosenIn
  <2> QED
    BY <2>1, <1>4, <1>6
<1> QED
  BY <1>5, <1>6

\* The recursion has a solution on every finite set.
LEMMA SumsExist ==
    ASSUME NEW S, IsFiniteSet(S), NEW f
    PROVE  \A T \in SUBSET S : Sums(f, T, Totals(f, T))
<1> DEFINE Bad == {T \in SUBSET S : ~Sums(f, T, Totals(f, T))}
<1> SUFFICES ASSUME Bad # {} PROVE FALSE
  OBVIOUS
<1>1. PICK X \in Bad : \A Y \in Bad : Y \subseteq X => Y = X
  <2>1. Bad \subseteq SUBSET S
    OBVIOUS
  <2> HIDE DEF Bad
  <2> QED BY <2>1, MinimalSubset
<1>2. \A s \in SUBSET X : s # X => Sums(f, s, Totals(f, s))
  BY <1>1
<1> DEFINE g == [s \in SUBSET X |->
                   IF s # X THEN Total(f, s)
                   ELSE IF X = {} THEN 0 ELSE f[Chosen(X)] + Total(f, X \ {Chosen(X)})]
<1>3. ASSUME NEW s \in SUBSET X
      PROVE  g[s] = IF s = {} THEN 0 ELSE f[Chosen(s)] + g[s \ {Chosen(s)}]
  <2>1. CASE s = X
    BY <2>1, ChosenIn
  <2>2. CASE s # X
    <3>1. Total(f, s) = IF s = {} THEN 0
                        ELSE f[Chosen(s)] + Totals(f, s)[s \ {Chosen(s)}]
      BY <1>2, <2>2 DEF Sums, Total
    <3>2. CASE s = {}
      BY <2>2, <3>1, <3>2
    <3>3. CASE s # {}
      <4> DEFINE r == s \ {Chosen(s)}
      <4>1. r \in SUBSET X /\ r # X /\ r \in SUBSET s
        BY <2>2
      <4>2. Sums(f, s, Totals(f, s)) /\ Sums(f, r, Totals(f, r))
        BY <1>2, <2>2, <4>1
      <4>3. s \in SUBSET S /\ r \in SUBSET S /\ r \in SUBSET (s \cap r)
        BY <4>1
      <4> HIDE DEF r
      <4>4. Totals(f, s)[r] = Totals(f, r)[r]
        BY <4>2, <4>3, SumsAgree
      <4>5. g[r] = Totals(f, r)[r]
        BY <4>1 DEF Total
      <4> QED
        BY <2>2, <3>1, <3>3, <4>4, <4>5 DEF r
    <3> QED BY <3>2, <3>3
  <2> QED BY <2>1, <2>2
<1>4. Sums(f, X, g)
  <2> HIDE DEF g
  <2>1. g = [s \in SUBSET X |-> g[s]]
    BY DEF g
  <2> QED BY <1>3, <2>1 DEF Sums
<1>5. Sums(f, X, Totals(f, X))
  <2> HIDE DEF g
  <2> QED BY <1>4 DEF Totals
<1> QED
  BY <1>5

\* A total, one element at a time.
LEMMA TotalStep ==
    ASSUME NEW S, IsFiniteSet(S), NEW f
    PROVE  Total(f, S) = IF S = {} THEN 0
                         ELSE f[Chosen(S)] + Total(f, S \ {Chosen(S)})
<1> DEFINE r == S \ {Chosen(S)}
<1>1. Sums(f, S, Totals(f, S)) /\ Sums(f, r, Totals(f, r))
  BY SumsExist
<1>2. Total(f, S) = IF S = {} THEN 0 ELSE f[Chosen(S)] + Totals(f, S)[r]
  BY <1>1 DEF Sums, Total
<1>3. Totals(f, S)[r] = Totals(f, r)[r]
  <2>1. r \in SUBSET S /\ r \in SUBSET (S \cap r)
    OBVIOUS
  <2> HIDE DEF r
  <2> QED BY <1>1, <2>1, SumsAgree
<1> QED
  BY <1>2, <1>3 DEF Total

\* The total of natural numbers is a natural number.
LEMMA TotalType ==
    ASSUME NEW S, IsFiniteSet(S), NEW f, \A x \in S : f[x] \in Nat
    PROVE  \A T \in SUBSET S : Total(f, T) \in Nat
<1> DEFINE Bad == {T \in SUBSET S : Total(f, T) \notin Nat}
<1> SUFFICES ASSUME Bad # {} PROVE FALSE
  OBVIOUS
<1>1. PICK X \in Bad : \A Y \in Bad : Y \subseteq X => Y = X
  <2>1. Bad \subseteq SUBSET S
    OBVIOUS
  <2> HIDE DEF Bad
  <2> QED BY <2>1, MinimalSubset
<1>2. Total(f, X) = IF X = {} THEN 0 ELSE f[Chosen(X)] + Total(f, X \ {Chosen(X)})
  BY FS_Subset, TotalStep
<1>3. X # {}
  BY <1>2
<1>4. Chosen(X) \in X
  BY <1>3, ChosenIn
<1>5. X \ {Chosen(X)} \notin Bad
  BY <1>1, <1>4
<1>6. Total(f, X \ {Chosen(X)}) \in Nat /\ f[Chosen(X)] \in Nat
  BY <1>4, <1>5
<1> QED
  BY <1>2, <1>3, <1>6

\* The order of summation does not matter: any element may be taken out.
LEMMA TotalRemove ==
    ASSUME NEW S, IsFiniteSet(S), NEW f, \A x \in S : f[x] \in Nat
    PROVE  \A T \in SUBSET S : \A x \in T : Total(f, T) = f[x] + Total(f, T \ {x})
<1> DEFINE Bad == {T \in SUBSET S : ~\A x \in T : Total(f, T) = f[x] + Total(f, T \ {x})}
<1> SUFFICES ASSUME Bad # {} PROVE FALSE
  OBVIOUS
<1>1. PICK X \in Bad : \A Y \in Bad : Y \subseteq X => Y = X
  <2>1. Bad \subseteq SUBSET S
    OBVIOUS
  <2> HIDE DEF Bad
  <2> QED BY <2>1, MinimalSubset
<1>2. PICK x \in X : Total(f, X) # f[x] + Total(f, X \ {x})
  OBVIOUS
<1> DEFINE y == Chosen(X)
<1>3. y \in X
  BY ChosenIn
<1>4. Total(f, X) = f[y] + Total(f, X \ {y})
  BY <1>3, FS_Subset, TotalStep
<1>5. x # y
  BY <1>2, <1>4
<1> HIDE DEF y
<1>6. X \ {x} \notin Bad /\ X \ {y} \notin Bad
  BY <1>1, <1>3
<1>7. Total(f, X \ {y}) = f[x] + Total(f, (X \ {y}) \ {x})
  BY <1>5, <1>6
<1>8. Total(f, X \ {x}) = f[y] + Total(f, (X \ {x}) \ {y})
  BY <1>3, <1>5, <1>6
<1>9. (X \ {x}) \ {y} = (X \ {y}) \ {x}
  OBVIOUS
<1>10. /\ f[x] \in Nat /\ f[y] \in Nat
       /\ Total(f, (X \ {y}) \ {x}) \in Nat
  BY <1>3, TotalType
<1> QED
  BY <1>2, <1>4, <1>7, <1>8, <1>9, <1>10

\* Functions that agree on a set have the same total there.
LEMMA TotalSame ==
    ASSUME NEW S, IsFiniteSet(S), NEW f, NEW g, \A x \in S : f[x] = g[x]
    PROVE  Total(f, S) = Total(g, S)
<1> DEFINE Bad == {T \in SUBSET S : Total(f, T) # Total(g, T)}
<1> SUFFICES ASSUME Bad # {} PROVE FALSE
  OBVIOUS
<1>1. PICK X \in Bad : \A Y \in Bad : Y \subseteq X => Y = X
  <2>1. Bad \subseteq SUBSET S
    OBVIOUS
  <2> HIDE DEF Bad
  <2> QED BY <2>1, MinimalSubset
<1>2. /\ Total(f, X) = IF X = {} THEN 0 ELSE f[Chosen(X)] + Total(f, X \ {Chosen(X)})
      /\ Total(g, X) = IF X = {} THEN 0 ELSE g[Chosen(X)] + Total(g, X \ {Chosen(X)})
  BY FS_Subset, TotalStep
<1>3. X # {} => Chosen(X) \in X
  BY ChosenIn
<1>4. X # {} => Total(f, X \ {Chosen(X)}) = Total(g, X \ {Chosen(X)})
  BY <1>1, <1>3
<1> QED
  BY <1>2, <1>3, <1>4

\* A multiple of every value is a multiple of the total.
LEMMA TotalScaled ==
    ASSUME NEW S, IsFiniteSet(S), NEW f, \A x \in S : f[x] \in Nat,
           NEW r \in Nat, NEW g, \A x \in S : g[x] = f[x] * r
    PROVE  Total(g, S) = Total(f, S) * r
<1> DEFINE Bad == {T \in SUBSET S : Total(g, T) # Total(f, T) * r}
<1> SUFFICES ASSUME Bad # {} PROVE FALSE
  OBVIOUS
<1>1. PICK X \in Bad : \A Y \in Bad : Y \subseteq X => Y = X
  <2>1. Bad \subseteq SUBSET S
    OBVIOUS
  <2> HIDE DEF Bad
  <2> QED BY <2>1, MinimalSubset
<1> DEFINE x == Chosen(X)
           rest == X \ {x}
<1>2. /\ Total(f, X) = IF X = {} THEN 0 ELSE f[x] + Total(f, rest)
      /\ Total(g, X) = IF X = {} THEN 0 ELSE g[x] + Total(g, rest)
  BY FS_Subset, TotalStep
<1>3. X # {}
  BY <1>2
<1>4. x \in X
  BY <1>3, ChosenIn
<1>5. rest \notin Bad /\ rest \in SUBSET S
  BY <1>1, <1>4
<1>6. Total(g, rest) = Total(f, rest) * r
  BY <1>5
<1>7. f[x] \in Nat /\ g[x] = f[x] * r /\ Total(f, rest) \in Nat
  BY <1>4, <1>5, TotalType
<1>8. Total(g, X) # Total(f, X) * r
  OBVIOUS
<1> HIDE DEF x, rest, Bad
<1>9. \A a, b \in Nat : (a + b) * r = a * r + b * r
  OBVIOUS
<1> QED
  BY <1>2, <1>3, <1>6, <1>7, <1>8, <1>9

\* A total is at most another if each of its values is covered by one of that
\* total's, and no two of them by the same.
LEMMA TotalCovered ==
    ASSUME NEW S, IsFiniteSet(S), NEW f, \A x \in S : f[x] \in Nat,
           NEW M, IsFiniteSet(M), NEW u, \A m \in M : u[m] \in Nat,
           NEW at, \A x \in S : at[x] \in M /\ f[x] <= u[at[x]],
           \A x, y \in S : at[x] = at[y] => x = y
    PROVE  Total(f, S) <= Total(u, {at[x] : x \in S})
<1> DEFINE Bad == {T \in SUBSET S : ~(Total(f, T) <= Total(u, {at[x] : x \in T}))}
<1> SUFFICES ASSUME Bad # {} PROVE FALSE
  OBVIOUS
<1>1. PICK X \in Bad : \A Y \in Bad : Y \subseteq X => Y = X
  <2>1. Bad \subseteq SUBSET S
    OBVIOUS
  <2> HIDE DEF Bad
  <2> QED BY <2>1, MinimalSubset
<1>2. X # {}
  <2>1. Total(f, {}) = 0 /\ Total(u, {}) = 0
    BY TotalStep, FS_EmptySet
  <2>2. {at[x] : x \in {}} = {}
    OBVIOUS
  <2> QED
    BY <2>1, <2>2
<1>3. PICK x \in X : TRUE
  BY <1>2
<1> DEFINE rest == X \ {x}
           covers == {at[y] : y \in X}
<1>4. covers \ {at[x]} = {at[y] : y \in rest}
  OBVIOUS
<1>5. rest \notin Bad /\ rest \in SUBSET S
  BY <1>1, <1>3
<1>6. Total(f, rest) <= Total(u, covers \ {at[x]})
  BY <1>4, <1>5
<1>7. ~(Total(f, X) <= Total(u, covers))
  OBVIOUS
<1>8. covers \in SUBSET M /\ covers \ {at[x]} \in SUBSET M /\ at[x] \in covers
  BY <1>3
<1> HIDE DEF Bad, covers, rest
<1>9. Total(f, X) = f[x] + Total(f, rest)
  BY <1>3, TotalRemove DEF rest, Bad
<1>10. Total(u, covers) = u[at[x]] + Total(u, covers \ {at[x]})
  BY <1>8, TotalRemove
<1>11. /\ f[x] \in Nat /\ Total(f, rest) \in Nat
       /\ u[at[x]] \in Nat /\ Total(u, covers \ {at[x]}) \in Nat
       /\ f[x] <= u[at[x]]
  BY <1>5, <1>8, TotalType DEF Bad
<1> QED
  BY <1>6, <1>7, <1>9, <1>10, <1>11

--------------------------------------------------------------------------------
(* The same of SumFunctionOnSet. *)

\* SumFunctionOnSet is such a total.
LEMMA SumIsTotal == \A f, S : SumFunctionOnSet(f, S) = Total(f, S)
  BY DEF SumFunctionOnSet, FoldFunctionOnSet, MapThenFoldSet, Total, Totals, Sums, Chosen

\* A sum of natural numbers is a natural number, and that of none is 0.
LEMMA SumType ==
    ASSUME NEW S, IsFiniteSet(S), NEW f, \A x \in S : f[x] \in Nat
    PROVE  /\ \A T \in SUBSET S : SumFunctionOnSet(f, T) \in Nat
           /\ SumFunctionOnSet(f, {}) = 0
  BY SumIsTotal, TotalType, TotalStep, FS_EmptySet

\* Adding one element to a set adds its value to the sum.
LEMMA SumAdd ==
    ASSUME NEW S, IsFiniteSet(S), NEW f, \A x \in S : f[x] \in Nat,
           NEW T \in SUBSET S, NEW x \in S \ T
    PROVE  SumFunctionOnSet(f, T \cup {x}) = f[x] + SumFunctionOnSet(f, T)
<1>1. (T \cup {x}) \ {x} = T /\ T \cup {x} \in SUBSET S /\ x \in T \cup {x}
  OBVIOUS
<1>2. Total(f, T \cup {x}) = f[x] + Total(f, (T \cup {x}) \ {x})
  BY <1>1, TotalRemove
<1> QED
  BY <1>1, <1>2, SumIsTotal

\* A smaller set has no larger sum.
LEMMA SumMonotone ==
    ASSUME NEW S, IsFiniteSet(S), NEW f, \A x \in S : f[x] \in Nat
    PROVE  \A T \in SUBSET S : SumFunctionOnSet(f, T) <= SumFunctionOnSet(f, S)
<1> DEFINE Bad == {R \in SUBSET S : \E T \in SUBSET R : ~(Total(f, T) <= Total(f, R))}
<1>1. Bad = {}
  <2> SUFFICES ASSUME Bad # {} PROVE FALSE
    OBVIOUS
  <2>1. PICK R \in Bad : \A Y \in Bad : Y \subseteq R => Y = R
    <3>1. Bad \subseteq SUBSET S
      OBVIOUS
    <3> HIDE DEF Bad
    <3> QED BY <3>1, MinimalSubset
  <2>2. PICK T \in SUBSET R : ~(Total(f, T) <= Total(f, R))
    OBVIOUS
  <2>3. Total(f, T) \in Nat /\ Total(f, R) \in Nat
    BY TotalType
  <2>4. PICK x \in R : x \notin T
    BY <2>2, <2>3
  <2>5. R \ {x} \notin Bad /\ T \in SUBSET (R \ {x}) /\ R \ {x} \in SUBSET S
    BY <2>1, <2>4
  <2>6. Total(f, T) <= Total(f, R \ {x})
    BY <2>5
  <2>7. Total(f, R) = f[x] + Total(f, R \ {x})
    BY <2>4, TotalRemove
  <2>8. f[x] \in Nat /\ Total(f, R \ {x}) \in Nat
    BY <2>4, <2>5, TotalType
  <2> QED
    BY <2>2, <2>3, <2>6, <2>7, <2>8
<1>2. S \in SUBSET S /\ S \notin Bad
  BY <1>1
<1>3. \A T \in SUBSET S : Total(f, T) <= Total(f, S)
  BY <1>2
<1> QED
  BY <1>3, SumIsTotal

\* Raising one value raises the sum by as much.
LEMMA SumRaised ==
    ASSUME NEW S, IsFiniteSet(S), NEW f, NEW g, NEW x \in S, NEW n \in Nat,
           \A y \in S : f[y] \in Nat,
           \A y \in S : g[y] = IF y = x THEN f[y] + n ELSE f[y]
    PROVE  SumFunctionOnSet(g, S) = SumFunctionOnSet(f, S) + n
<1> DEFINE rest == S \ {x}
<1>1. IsFiniteSet(rest) /\ rest \in SUBSET S
  BY FS_Subset
<1>2. Total(f, rest) = Total(g, rest)
  BY <1>1, TotalSame
<1>3. \A y \in S : g[y] \in Nat
  OBVIOUS
<1> HIDE DEF rest
<1>4. Total(f, S) = f[x] + Total(f, rest) /\ Total(g, S) = g[x] + Total(g, rest)
  BY <1>3, TotalRemove DEF rest
<1>5. Total(f, rest) \in Nat /\ g[x] = f[x] + n /\ f[x] \in Nat
  BY <1>1, TotalType
<1>6. Total(g, S) = Total(f, S) + n
  BY <1>2, <1>4, <1>5
<1> QED
  BY <1>6, SumIsTotal

\* A multiple of every value is a multiple of the sum.
LEMMA SumScaled ==
    ASSUME NEW S, IsFiniteSet(S), NEW f, \A x \in S : f[x] \in Nat,
           NEW r \in Nat, NEW g, \A x \in S : g[x] = f[x] * r
    PROVE  SumFunctionOnSet(g, S) = SumFunctionOnSet(f, S) * r
  BY TotalScaled, SumIsTotal

\* A sum is at most another if each of its values is covered by one of that
\* sum's, and no two of them by the same.
LEMMA SumCovered ==
    ASSUME NEW S, IsFiniteSet(S), NEW f, \A x \in S : f[x] \in Nat,
           NEW M, IsFiniteSet(M), NEW u, \A m \in M : u[m] \in Nat,
           NEW at, \A x \in S : at[x] \in M /\ f[x] <= u[at[x]],
           \A x, y \in S : at[x] = at[y] => x = y
    PROVE  SumFunctionOnSet(f, S) <= SumFunctionOnSet(u, M)
<1>1. {at[x] : x \in S} \in SUBSET M
  OBVIOUS
<1>2. Total(f, S) <= Total(u, {at[x] : x \in S})
  BY TotalCovered
<1>3. SumFunctionOnSet(u, {at[x] : x \in S}) <= SumFunctionOnSet(u, M)
  BY <1>1, SumMonotone
<1>4. /\ SumFunctionOnSet(f, S) \in Nat /\ SumFunctionOnSet(u, M) \in Nat
      /\ SumFunctionOnSet(u, {at[x] : x \in S}) \in Nat
  BY <1>1, SumType
<1> QED
  BY <1>2, <1>3, <1>4, SumIsTotal

================================================================================
