----------------------------- MODULE FiniteSums -----------------------------
(***************************************************************************)
(* Facts about SumFunctionOnSet, the sum of a function's values over a     *)
(* finite set, which the modules of this project use wherever the code     *)
(* adds up the rows a query returned; and, at the end, about choosing from *)
(* a finite set and listing one.                                           *)
(*                                                                         *)
(* The sum is a recursive function over the subsets of the set, so every   *)
(* fact here is an induction on finite sets.  It is carried out as a       *)
(* minimal-counterexample argument: of the subsets that violate the claim  *)
(* take one that contains no other (MinimalSubset), and derive a           *)
(* contradiction by removing one element from it.                          *)
(***************************************************************************)
EXTENDS Integers, SequencesExt, FiniteSetTheorems, TLAPS

(* Every non-empty collection of subsets of a finite set has a member that *)
(* contains no other member.                                               *)
LEMMA MinimalSubset ==
  ASSUME NEW S, IsFiniteSet(S), NEW T, T \subseteq SUBSET S, T # {}
  PROVE  \E x \in T : \A y \in T : y \subseteq x => y = x
<1>1. IsWellFoundedOn(StrictSubsetOrdering(S), FiniteSubsetsOf(S))
  BY FS_StrictSubsetOrderingWellFounded
<1>2. FiniteSubsetsOf(S) = SUBSET S
  BY FS_FiniteSubsetsOfFinite
<1>3. \E x \in T : \A y \in T : ~ (<<y, x>> \in StrictSubsetOrdering(S))
  <2> DEFINE R == StrictSubsetOrdering(S)
             U == FiniteSubsetsOf(S)
  <2>1. IsWellFoundedOn(R, U) /\ T \subseteq U /\ T # {}
    BY <1>1, <1>2
  <2> HIDE DEF R, U
  <2>2. \E x \in T : \A y \in T : ~ (<<y, x>> \in R)
    BY <2>1, WFMin
  <2>3. QED BY <2>2 DEF R
<1>4. QED BY <1>3 DEF StrictSubsetOrdering

(* The element the recursion splits off, and the table of partial sums of  *)
(* f over the subsets of S.                                                *)
Chosen(s) == CHOOSE x \in s : TRUE

IsSumTable(f, S, g) ==
  g = [s \in SUBSET S |-> IF s = {} THEN 0 ELSE f[Chosen(s)] + g[s \ {Chosen(s)}]]

(* The library's sum, with the table of partial sums it chooses named.     *)
LEMMA SumIsChoice ==
  ASSUME NEW f, NEW S
  PROVE  SumFunctionOnSet(f, S) = (CHOOSE g : IsSumTable(f, S, g))[S]
  BY Zenon DEF SumFunctionOnSet, FoldFunctionOnSet, MapThenFoldSet, IsSumTable, Chosen

(* The tables for a set and for a subset of it agree where both are        *)
(* defined.                                                                *)
LEMMA SumsAgree ==
  ASSUME NEW f, NEW W, IsFiniteSet(W), NEW V \in SUBSET W, NEW g, NEW h,
         IsSumTable(f, V, g), IsSumTable(f, W, h)
  PROVE  \A s \in SUBSET V : g[s] = h[s]
<1> DEFINE T == {s \in SUBSET V : g[s] # h[s]}
<1>1. SUFFICES ASSUME T # {} PROVE FALSE
  OBVIOUS
<1>2. IsFiniteSet(V)
  BY FS_Subset
<1>3. PICK s \in T : \A y \in T : y \subseteq s => y = s
  <2>1. T \subseteq SUBSET V
    OBVIOUS
  <2> HIDE DEF T
  <2>2. QED BY <1>1, <1>2, <2>1, MinimalSubset
<1>4. s # {}
  BY DEF IsSumTable
<1>5. Chosen(s) \in s
  BY <1>4 DEF Chosen
<1> DEFINE r == s \ {Chosen(s)}
<1>6. g[r] = h[r]
  BY <1>3, <1>5
<1>7. g[s] = f[Chosen(s)] + g[r] /\ h[s] = f[Chosen(s)] + h[r]
  BY <1>4 DEF IsSumTable
<1>8. QED BY <1>6, <1>7

(* A finite set has a table of partial sums: the recursion is well defined.*)
LEMMA SumsExist ==
  ASSUME NEW f, NEW S, IsFiniteSet(S)
  PROVE  \E g : IsSumTable(f, S, g)
<1> DEFINE T == {U \in SUBSET S : ~ \E g : IsSumTable(f, U, g)}
<1>1. SUFFICES ASSUME T # {} PROVE FALSE
  OBVIOUS
<1>2. PICK U \in T : \A y \in T : y \subseteq U => y = U
  <2>1. T \subseteq SUBSET S
    OBVIOUS
  <2> HIDE DEF T
  <2>2. QED BY <1>1, <2>1, MinimalSubset
<1> DEFINE G(W) == CHOOSE g : IsSumTable(f, W, g)
           h == [s \in SUBSET U |->
                   IF s = {} THEN 0 ELSE f[Chosen(s)] + G(s \ {Chosen(s)})[s \ {Chosen(s)}]]
<1>3. ASSUME NEW W \in SUBSET U, W # U PROVE IsSumTable(f, W, G(W))
  BY <1>2, <1>3
<1>4. ASSUME NEW s \in SUBSET U, s # {} PROVE h[s] = f[Chosen(s)] + h[s \ {Chosen(s)}]
  <2> DEFINE W == s \ {Chosen(s)}
  <2>1. Chosen(s) \in s
    BY <1>4 DEF Chosen
  <2>2. W \in SUBSET U /\ W # U
    BY <2>1
  <2>3. IsSumTable(f, W, G(W))
    BY <1>3, <2>2
  <2>4. h[W] = G(W)[W]
    <3>1. CASE W = {}
      <4>1. G(W)[W] = 0
        <5>1. DOMAIN G(W) = SUBSET W
          BY <2>3 DEF IsSumTable
        <5> HIDE DEF G
        <5>2. QED BY <2>3, <3>1 DEF IsSumTable
      <4>2. h[W] = 0
        BY <3>1, <2>2
      <4>3. QED BY <4>1, <4>2
    <3>2. CASE W # {}
      <4> DEFINE V == W \ {Chosen(W)}
      <4>1. V \in SUBSET W /\ Chosen(W) \in W
        BY <3>2 DEF Chosen
      <4>2. V \in SUBSET U /\ V # U
        BY <2>2, <4>1
      <4>3. IsSumTable(f, V, G(V))
        BY <1>3, <4>2
      <4>4. IsFiniteSet(W)
        BY <2>2, FS_Subset
      <4>5. G(V)[V] = G(W)[V]
        <5> HIDE DEF G, V, W
        <5>1. QED BY <4>1, <4>3, <4>4, <2>3, SumsAgree
      <4>6. h[W] = f[Chosen(W)] + G(V)[V]
        BY <2>2, <3>2
      <4>7. G(W)[W] = f[Chosen(W)] + G(W)[V]
        <5> HIDE DEF G
        <5>1. QED BY <2>3, <3>2 DEF IsSumTable
      <4>8. QED BY <4>5, <4>6, <4>7
    <3>3. QED BY <3>1, <3>2
  <2>5. h[s] = f[Chosen(s)] + G(W)[W]
    BY <1>4
  <2>6. QED BY <2>4, <2>5
<1>5. h = [s \in SUBSET U |-> IF s = {} THEN 0 ELSE f[Chosen(s)] + h[s \ {Chosen(s)}]]
  <2>1. DOMAIN h = SUBSET U /\ \A s \in SUBSET U : s = {} => h[s] = 0
    OBVIOUS
  <2>2. h = [s \in SUBSET U |-> h[s]]
    OBVIOUS
  <2> HIDE DEF h
  <2>3. QED BY <1>4, <2>1, <2>2
<1>6. IsSumTable(f, U, h)
  <2> HIDE DEF h
  <2>1. QED BY <1>5 DEF IsSumTable
<1>7. QED BY <1>6, <1>2

(* The recursion equation of the sum.                                      *)
LEMMA SumUnfold ==
  ASSUME NEW f, NEW S, IsFiniteSet(S)
  PROVE  /\ S = {} => SumFunctionOnSet(f, S) = 0
         /\ S # {} => SumFunctionOnSet(f, S)
                        = f[Chosen(S)] + SumFunctionOnSet(f, S \ {Chosen(S)})
<1> DEFINE G(W) == CHOOSE g : IsSumTable(f, W, g)
           V == S \ {Chosen(S)}
<1>1. IsSumTable(f, S, G(S)) /\ SumFunctionOnSet(f, S) = G(S)[S]
  BY SumsExist, SumIsChoice
<1>2. ASSUME S = {} PROVE SumFunctionOnSet(f, S) = 0
  <2> HIDE DEF G
  <2>1. QED BY <1>1, <1>2 DEF IsSumTable
<1>3. ASSUME S # {} PROVE SumFunctionOnSet(f, S) = f[Chosen(S)] + SumFunctionOnSet(f, V)
  <2>1. Chosen(S) \in S /\ V \in SUBSET S
    BY <1>3 DEF Chosen
  <2>2. IsFiniteSet(V)
    BY <2>1, FS_Subset
  <2>3. IsSumTable(f, V, G(V)) /\ SumFunctionOnSet(f, V) = G(V)[V]
    BY <2>2, SumsExist, SumIsChoice
  <2> HIDE DEF G
  <2>4. G(S)[S] = f[Chosen(S)] + G(S)[V]
    BY <1>1, <1>3 DEF IsSumTable
  <2>5. G(S)[V] = G(V)[V]
    <3> HIDE DEF V
    <3>1. QED BY <1>1, <2>1, <2>3, SumsAgree
  <2>6. QED BY <1>1, <2>3, <2>4, <2>5
<1>4. QED BY <1>2, <1>3

(* A sum of integers is an integer.                                        *)
LEMMA SumType ==
  ASSUME NEW f, NEW S, IsFiniteSet(S), \A x \in S : f[x] \in Int
  PROVE  SumFunctionOnSet(f, S) \in Int
<1> DEFINE T == {U \in SUBSET S : SumFunctionOnSet(f, U) \notin Int}
<1>1. SUFFICES ASSUME T # {} PROVE FALSE
  OBVIOUS
<1>2. PICK U \in T : \A y \in T : y \subseteq U => y = U
  <2>1. T \subseteq SUBSET S
    OBVIOUS
  <2> HIDE DEF T
  <2>2. QED BY <1>1, <2>1, MinimalSubset
<1>3. IsFiniteSet(U)
  BY FS_Subset
<1>4. U # {}
  <2>1. U = {} => SumFunctionOnSet(f, U) = 0
    BY <1>3, SumUnfold
  <2>2. QED BY <2>1
<1>5. Chosen(U) \in U
  BY <1>4 DEF Chosen
<1>6. SumFunctionOnSet(f, U \ {Chosen(U)}) \in Int
  BY <1>2, <1>5
<1>7. QED BY <1>3, <1>4, <1>5, <1>6, SumUnfold

(* Any element may be split off the sum, not only the one the recursion    *)
(* picks: the order of summation does not matter.                          *)
LEMMA SumRemove ==
  ASSUME NEW f, NEW S, IsFiniteSet(S), \A x \in S : f[x] \in Int, NEW y \in S
  PROVE  SumFunctionOnSet(f, S) = f[y] + SumFunctionOnSet(f, S \ {y})
<1> DEFINE Sum(U) == SumFunctionOnSet(f, U)
           T == {U \in SUBSET S : \E z \in U : Sum(U) # f[z] + Sum(U \ {z})}
<1>1. SUFFICES ASSUME T # {} PROVE FALSE
  OBVIOUS
<1>2. PICK U \in T : \A V \in T : V \subseteq U => V = U
  <2>1. T \subseteq SUBSET S
    OBVIOUS
  <2> HIDE DEF T
  <2>2. QED BY <1>1, <2>1, MinimalSubset
<1>3. PICK z \in U : Sum(U) # f[z] + Sum(U \ {z})
  OBVIOUS
<1> DEFINE c == Chosen(U)
<1>4. c \in U /\ Sum(U) = f[c] + Sum(U \ {c}) /\ IsFiniteSet(U)
  <2>1. IsFiniteSet(U)
    BY FS_Subset
  <2>2. QED BY <2>1, SumUnfold, Zenon DEF Chosen
<1>5. c # z
  BY <1>3, <1>4
<1>6. Sum(U \ {c}) = f[z] + Sum((U \ {c}) \ {z})
  <2>1. U \ {c} \notin T
    BY <1>2, <1>4
  <2>2. U \ {c} \in SUBSET S /\ z \in U \ {c}
    BY <1>5
  <2>3. QED BY <2>1, <2>2
<1>7. Sum(U \ {z}) = f[c] + Sum((U \ {z}) \ {c})
  <2>1. U \ {z} \notin T
    BY <1>2
  <2>2. U \ {z} \in SUBSET S /\ c \in U \ {z}
    BY <1>4, <1>5
  <2>3. QED BY <2>1, <2>2
<1>8. (U \ {c}) \ {z} = (U \ {z}) \ {c}
  OBVIOUS
<1>9. Sum((U \ {c}) \ {z}) \in Int
  <2>1. IsFiniteSet((U \ {c}) \ {z})
    BY FS_Subset
  <2> DEFINE Q == (U \ {c}) \ {z}
  <2>2. \A x \in Q : f[x] \in Int
    OBVIOUS
  <2> HIDE DEF Q
  <2>3. Sum(Q) \in Int
    BY <2>1, <2>2, SumType DEF Q
  <2>4. QED BY <2>3 DEF Q
<1>10. f[c] \in Int /\ f[z] \in Int
  BY <1>4
<1>11. PICK rest \in Int : /\ Sum((U \ {c}) \ {z}) = rest
                           /\ Sum((U \ {z}) \ {c}) = rest
  BY <1>8, <1>9
<1> HIDE DEF Sum, T, c
<1>12. Sum(U) = f[c] + (f[z] + rest)
  BY <1>4, <1>6, <1>11
<1>13. Sum(U \ {z}) = f[c] + rest
  BY <1>7, <1>11
<1>14. f[c] + (f[z] + rest) = f[z] + (f[c] + rest)
  BY <1>10, <1>11
<1>15. QED BY <1>3, <1>12, <1>13, <1>14

(* The sum depends only on the values of the function on the set.          *)
LEMMA SumCong ==
  ASSUME NEW f, NEW g, NEW S, IsFiniteSet(S), \A x \in S : f[x] = g[x]
  PROVE  SumFunctionOnSet(f, S) = SumFunctionOnSet(g, S)
<1> DEFINE T == {U \in SUBSET S : SumFunctionOnSet(f, U) # SumFunctionOnSet(g, U)}
<1>1. SUFFICES ASSUME T # {} PROVE FALSE
  OBVIOUS
<1>2. PICK U \in T : \A y \in T : y \subseteq U => y = U
  <2>1. T \subseteq SUBSET S
    OBVIOUS
  <2> HIDE DEF T
  <2>2. QED BY <1>1, <2>1, MinimalSubset
<1>3. IsFiniteSet(U)
  BY FS_Subset
<1>4. U # {}
  BY <1>3, SumUnfold
<1>5. Chosen(U) \in U
  BY <1>4 DEF Chosen
<1>6. SumFunctionOnSet(f, U \ {Chosen(U)}) = SumFunctionOnSet(g, U \ {Chosen(U)})
  BY <1>2, <1>5
<1>7. f[Chosen(U)] = g[Chosen(U)]
  BY <1>5
<1>8. /\ SumFunctionOnSet(f, U) = f[Chosen(U)] + SumFunctionOnSet(f, U \ {Chosen(U)})
      /\ SumFunctionOnSet(g, U) = g[Chosen(U)] + SumFunctionOnSet(g, U \ {Chosen(U)})
  BY <1>3, <1>4, SumUnfold
<1>9. QED BY <1>6, <1>7, <1>8

(* A sum of natural numbers is a natural number.                           *)
LEMMA SumNonNegative ==
  ASSUME NEW f, NEW S, IsFiniteSet(S), \A x \in S : f[x] \in Nat
  PROVE  SumFunctionOnSet(f, S) \in Nat
<1> DEFINE T == {U \in SUBSET S : SumFunctionOnSet(f, U) \notin Nat}
<1>1. SUFFICES ASSUME T # {} PROVE FALSE
  OBVIOUS
<1>2. PICK U \in T : \A y \in T : y \subseteq U => y = U
  <2>1. T \subseteq SUBSET S
    OBVIOUS
  <2> HIDE DEF T
  <2>2. QED BY <1>1, <2>1, MinimalSubset
<1>3. IsFiniteSet(U)
  BY FS_Subset
<1>4. U # {}
  <2>1. U = {} => SumFunctionOnSet(f, U) = 0
    BY <1>3, SumUnfold
  <2>2. QED BY <2>1
<1>5. Chosen(U) \in U
  BY <1>4 DEF Chosen
<1>6. SumFunctionOnSet(f, U \ {Chosen(U)}) \in Nat
  BY <1>2, <1>5
<1>7. QED BY <1>3, <1>4, <1>5, <1>6, SumUnfold

(* A sum of natural numbers over a larger set is no smaller.               *)
LEMMA SumMonotone ==
  ASSUME NEW f, NEW S, IsFiniteSet(S), \A x \in S : f[x] \in Nat, NEW R \in SUBSET S
  PROVE  SumFunctionOnSet(f, R) <= SumFunctionOnSet(f, S)
<1> DEFINE T == {U \in SUBSET S : R \subseteq U /\ ~ (SumFunctionOnSet(f, R) <= SumFunctionOnSet(f, U))}
<1>1. SUFFICES ASSUME T # {} PROVE FALSE
  OBVIOUS
<1>2. PICK U \in T : \A y \in T : y \subseteq U => y = U
  <2>1. T \subseteq SUBSET S
    OBVIOUS
  <2> HIDE DEF T
  <2>2. QED BY <1>1, <2>1, MinimalSubset
<1>3. IsFiniteSet(U) /\ IsFiniteSet(R)
  BY FS_Subset
<1>4. SumFunctionOnSet(f, R) \in Nat
  BY <1>3, SumNonNegative
<1>5. PICK z \in U : z \notin R
  BY <1>4
<1> DEFINE V == U \ {z}
<1>6. V \in SUBSET S /\ R \subseteq V /\ IsFiniteSet(V)
  BY <1>3, <1>5, FS_RemoveElement
<1>7. SumFunctionOnSet(f, R) <= SumFunctionOnSet(f, V)
  BY <1>2, <1>6
<1>8. SumFunctionOnSet(f, U) = f[z] + SumFunctionOnSet(f, V)
  BY <1>3, SumRemove
<1>9. SumFunctionOnSet(f, V) \in Nat /\ f[z] \in Nat
  <2>1. \A x \in V : f[x] \in Nat
    OBVIOUS
  <2> HIDE DEF V
  <2>2. SumFunctionOnSet(f, V) \in Nat
    BY <1>6, <2>1, SumNonNegative
  <2>3. QED BY <2>2
<1> HIDE DEF V
<1>10. QED BY <1>4, <1>7, <1>8, <1>9

(* No term of a sum of natural numbers exceeds the sum.                    *)
LEMMA SumMember ==
  ASSUME NEW f, NEW S, IsFiniteSet(S), \A x \in S : f[x] \in Nat, NEW y \in S
  PROVE  f[y] <= SumFunctionOnSet(f, S)
<1>1. SumFunctionOnSet(f, S) = f[y] + SumFunctionOnSet(f, S \ {y})
  BY SumRemove
<1>2. SumFunctionOnSet(f, S \ {y}) \in Nat
  <2> DEFINE R == S \ {y}
  <2>1. IsFiniteSet(R)
    BY FS_Subset
  <2>2. \A x \in R : f[x] \in Nat
    OBVIOUS
  <2> HIDE DEF R
  <2>3. SumFunctionOnSet(f, R) \in Nat
    BY <2>1, <2>2, SumNonNegative
  <2>4. QED BY <2>3 DEF R
<1>3. QED BY <1>1, <1>2

(* A sum of natural numbers that is not zero has a positive term.          *)
LEMMA SumPositive ==
  ASSUME NEW f, NEW S, IsFiniteSet(S), \A x \in S : f[x] \in Nat,
         SumFunctionOnSet(f, S) > 0
  PROVE  \E y \in S : f[y] > 0
<1>1. SUFFICES ASSUME \A y \in S : f[y] = 0 PROVE FALSE
  OBVIOUS
<1> DEFINE T == {U \in SUBSET S : SumFunctionOnSet(f, U) # 0}
<1>2. T \subseteq SUBSET S /\ T # {}
  OBVIOUS
<1>3. PICK U \in T : \A y \in T : y \subseteq U => y = U
  <2> HIDE DEF T
  <2>1. QED BY <1>2, MinimalSubset
<1>4. IsFiniteSet(U)
  BY FS_Subset
<1>5. U # {}
  BY <1>4, SumUnfold
<1>6. Chosen(U) \in U
  BY <1>5 DEF Chosen
<1>7. SumFunctionOnSet(f, U \ {Chosen(U)}) = 0
  BY <1>3, <1>6
<1>8. QED BY <1>1, <1>4, <1>5, <1>6, <1>7, SumUnfold

(* The sum over two disjoint sets.                                         *)
LEMMA SumUnion ==
  ASSUME NEW f, NEW A, NEW B, IsFiniteSet(A), IsFiniteSet(B), A \cap B = {},
         \A x \in A \cup B : f[x] \in Int
  PROVE  SumFunctionOnSet(f, A \cup B) = SumFunctionOnSet(f, A) + SumFunctionOnSet(f, B)
<1> DEFINE Sum(U) == SumFunctionOnSet(f, U)
           T == {U \in SUBSET B : Sum(A \cup U) # Sum(A) + Sum(U)}
<1>1. SUFFICES ASSUME T # {} PROVE FALSE
  OBVIOUS
<1>2. PICK U \in T : \A y \in T : y \subseteq U => y = U
  <2>1. T \subseteq SUBSET B
    OBVIOUS
  <2> HIDE DEF T
  <2>2. QED BY <1>1, <2>1, MinimalSubset
<1>3. IsFiniteSet(U) /\ IsFiniteSet(A \cup U)
  BY FS_Subset, FS_Union
<1>4. Sum(A) \in Int
  BY SumType
<1>5. U # {}
  <2>1. ASSUME U = {} PROVE FALSE
    <3>1. A \cup U = A /\ Sum(U) = 0
      BY <1>3, <2>1, SumUnfold
    <3>2. Sum(A \cup U) # Sum(A) + Sum(U)
      OBVIOUS
    <3>3. Sum(A \cup U) = Sum(A)
      BY <3>1
    <3> HIDE DEF Sum
    <3>4. Sum(A) + Sum(U) = Sum(A)
      BY <1>4, <3>1
    <3>5. QED BY <3>2, <3>3, <3>4
  <2>2. QED BY <2>1
<1>6. PICK y : y \in U
  BY <1>5
<1> DEFINE V == U \ {y}
<1>7. V \notin T /\ V \in SUBSET B
  BY <1>2, <1>6
<1>8. Sum(A \cup V) = Sum(A) + Sum(V)
  BY <1>7
<1>9. (A \cup U) \ {y} = A \cup V
  BY <1>6
<1>10. Sum(A \cup U) = f[y] + Sum((A \cup U) \ {y})
  <2> DEFINE W == A \cup U
  <2>1. y \in W /\ \A x \in W : f[x] \in Int
    BY <1>6
  <2> HIDE DEF W
  <2>2. SumFunctionOnSet(f, W) = f[y] + SumFunctionOnSet(f, W \ {y})
    BY <1>3, <2>1, SumRemove DEF W
  <2>3. QED BY <2>2 DEF W
<1>11. Sum(U) = f[y] + Sum(V)
  BY <1>3, <1>6, SumRemove
<1>12. f[y] \in Int /\ Sum(V) \in Int
  <2>1. IsFiniteSet(V) /\ \A x \in V : f[x] \in Int
    BY <1>3, FS_Subset
  <2> HIDE DEF V
  <2>2. QED BY <1>6, <2>1, SumType
<1>13. Sum(A \cup U) = f[y] + (Sum(A) + Sum(V))
  BY <1>8, <1>9, <1>10
<1>14. Sum(A \cup U) # Sum(A) + Sum(U)
  OBVIOUS
<1> HIDE DEF Sum, V, T
<1>15. QED BY <1>4, <1>11, <1>12, <1>13, <1>14

(* A sum is at most as many times the bound of its terms as it has terms.  *)
LEMMA SumAtMost ==
  ASSUME NEW f, NEW S, IsFiniteSet(S), NEW b \in Nat,
         \A x \in S : f[x] \in Nat /\ f[x] <= b
  PROVE  SumFunctionOnSet(f, S) <= Cardinality(S) * b
<1> DEFINE Sum(U) == SumFunctionOnSet(f, U)
           T == {U \in SUBSET S : ~ (Sum(U) <= Cardinality(U) * b)}
<1>1. SUFFICES ASSUME T # {} PROVE FALSE
  OBVIOUS
<1>2. PICK U \in T : \A y \in T : y \subseteq U => y = U
  <2>1. T \subseteq SUBSET S
    OBVIOUS
  <2> HIDE DEF T
  <2>2. QED BY <1>1, <2>1, MinimalSubset
<1>3. IsFiniteSet(U)
  BY FS_Subset
<1>4. U # {}
  <2>1. U = {} => Sum(U) = 0 /\ Cardinality(U) = 0
    BY <1>3, SumUnfold, FS_EmptySet
  <2>2. QED BY <2>1
<1>5. PICK x \in U : TRUE
  BY <1>4
<1> DEFINE V == U \ {x}
<1>6. V \in SUBSET S /\ V # U /\ V \subseteq U
  BY <1>5
<1>7. Sum(V) <= Cardinality(V) * b
  BY <1>2, <1>6
<1>8. IsFiniteSet(V) /\ Cardinality(V) = Cardinality(U) - 1
  BY <1>3, <1>5, FS_RemoveElement
<1>9. Sum(U) = f[x] + Sum(V)
  BY <1>3, <1>5, SumRemove
<1>10. Sum(V) \in Nat /\ Cardinality(V) \in Nat /\ f[x] \in Nat /\ f[x] <= b
  BY <1>6, <1>8, SumNonNegative, FS_CardinalityType
<1>11. ~ (Sum(U) <= Cardinality(U) * b)
  OBVIOUS
<1>12. Cardinality(U) = Cardinality(V) + 1
  BY <1>3, <1>8, FS_CardinalityType
<1> DEFINE c == Cardinality(V)
<1>13. (c + 1) * b = c * b + b /\ c * b \in Nat
  <2> HIDE DEF c
  <2>1. c \in Nat
    BY <1>10 DEF c
  <2>2. QED BY <2>1
<1> DEFINE cb == c * b
           s == Sum(V)
<1>14. s <= cb /\ s \in Nat /\ cb \in Nat /\ ~ (f[x] + s <= cb + b)
  BY <1>7, <1>9, <1>10, <1>11, <1>12, <1>13
<1> HIDE DEF s, cb
<1>15. QED BY <1>10, <1>14

(* The sum over an injective image is the sum of the composed function.    *)
LEMMA SumImage ==
  ASSUME NEW S, IsFiniteSet(S), NEW g, NEW f, \A x \in S : f[g[x]] \in Int,
         \A x, y \in S : g[x] = g[y] => x = y
  PROVE  SumFunctionOnSet(f, {g[x] : x \in S}) = SumFunctionOnSet([x \in S |-> f[g[x]]], S)
<1> DEFINE Img(U) == {g[x] : x \in U}
           w == [x \in S |-> f[g[x]]]
           T == {U \in SUBSET S : SumFunctionOnSet(f, Img(U)) # SumFunctionOnSet(w, U)}
<1>1. SUFFICES ASSUME T # {} PROVE FALSE
  OBVIOUS
<1>2. PICK U \in T : \A y \in T : y \subseteq U => y = U
  <2>1. T \subseteq SUBSET S
    OBVIOUS
  <2> HIDE DEF T
  <2>2. QED BY <1>1, <2>1, MinimalSubset
<1>3. IsFiniteSet(U) /\ U \in SUBSET S
  BY FS_Subset
<1>4. IsFiniteSet(Img(U))
  <2>1. [x \in U |-> g[x]] \in Surjection(U, Img(U))
    BY DEF Surjection
  <2> HIDE DEF Img
  <2>2. QED BY <1>3, <2>1, FS_Surjection
<1>5. U # {}
  <2>1. U = {} => Img(U) = {}
    OBVIOUS
  <2> HIDE DEF Img, w
  <2>2. U = {} => SumFunctionOnSet(f, Img(U)) = 0 /\ SumFunctionOnSet(w, U) = 0
    BY <1>3, <1>4, <2>1, SumUnfold
  <2>3. QED BY <2>2
<1>6. PICK x \in U : TRUE
  BY <1>5
<1> DEFINE V == U \ {x}
<1>7. V \in SUBSET S /\ V # U /\ V \subseteq U
  BY <1>3, <1>6
<1>8. SumFunctionOnSet(f, Img(V)) = SumFunctionOnSet(w, V)
  BY <1>2, <1>7
<1>9. Img(U) \ {g[x]} = Img(V) /\ g[x] \in Img(U)
  BY <1>3, <1>6
<1>10. SumFunctionOnSet(f, Img(U)) = f[g[x]] + SumFunctionOnSet(f, Img(V))
  <2>1. \A y \in Img(U) : f[y] \in Int
    BY <1>3
  <2> HIDE DEF Img
  <2>2. QED BY <1>4, <1>9, <2>1, SumRemove
<1>11. SumFunctionOnSet(w, U) = w[x] + SumFunctionOnSet(w, V)
  <2>1. \A y \in U : w[y] \in Int
    BY <1>3
  <2> HIDE DEF w
  <2>2. QED BY <1>3, <1>6, <2>1, SumRemove
<1>12. w[x] = f[g[x]]
  BY <1>3, <1>6
<1>13. QED BY <1>8, <1>10, <1>11, <1>12

(* Rounding every term moves a sum by half a unit a term at most: w[x] is  *)
(* k * f[x] / d rounded.                                                   *)
Rounds(a, b, k, d) == 2 * (d * a) <= 2 * (k * b) + d

LEMMA SumOfRounds ==
  ASSUME NEW S, IsFiniteSet(S), NEW w, NEW f, NEW k \in Nat, NEW d \in Nat,
         \A x \in S : w[x] \in Nat /\ f[x] \in Nat,
         \A x \in S : Rounds(w[x], f[x], k, d)
  PROVE  2 * (d * SumFunctionOnSet(w, S))
           <= 2 * (k * SumFunctionOnSet(f, S)) + Cardinality(S) * d
<1> DEFINE W(U) == SumFunctionOnSet(w, U)
           F(U) == SumFunctionOnSet(f, U)
           T == {U \in SUBSET S : ~ (2 * (d * W(U)) <= 2 * (k * F(U)) + Cardinality(U) * d)}
<1>1. SUFFICES ASSUME T # {} PROVE FALSE
  OBVIOUS
<1>2. PICK U \in T : \A y \in T : y \subseteq U => y = U
  <2>1. T \subseteq SUBSET S
    OBVIOUS
  <2> HIDE DEF T
  <2>2. QED BY <1>1, <2>1, MinimalSubset
<1>3. IsFiniteSet(U) /\ U \in SUBSET S
  BY FS_Subset
<1>12. ~ (2 * (d * W(U)) <= 2 * (k * F(U)) + Cardinality(U) * d)
  OBVIOUS
<1>19. \A y \in SUBSET S : y \subseteq U /\ y # U =>
          2 * (d * W(y)) <= 2 * (k * F(y)) + Cardinality(y) * d
  BY <1>2
<1> HIDE DEF T
<1>4. U # {}
  <2>1. U = {} => W(U) = 0 /\ F(U) = 0 /\ Cardinality(U) = 0
    BY <1>3, SumUnfold, FS_EmptySet
  <2> HIDE DEF W, F
  <2>2. QED BY <1>12, <2>1
<1>5. PICK x \in U : TRUE
  BY <1>4
<1> DEFINE V == U \ {x}
<1>6. V \in SUBSET S /\ V # U /\ V \subseteq U
  BY <1>3, <1>5
<1>7. 2 * (d * W(V)) <= 2 * (k * F(V)) + Cardinality(V) * d
  BY <1>6, <1>19
<1>8. IsFiniteSet(V) /\ Cardinality(V) \in Nat /\ Cardinality(U) = Cardinality(V) + 1
  <2>1. IsFiniteSet(V) /\ Cardinality(V) = IF x \in U THEN Cardinality(U) - 1 ELSE Cardinality(U)
    BY <1>3, FS_RemoveElement, Zenon
  <2>2. Cardinality(V) \in Nat /\ Cardinality(U) \in Nat
    BY <1>3, <2>1, FS_CardinalityType, Zenon
  <2> DEFINE cu == Cardinality(U)   cv == Cardinality(V)
  <2>3. cv = cu - 1 /\ cu \in Nat
    BY <1>5, <2>1, <2>2
  <2> HIDE DEF cu, cv
  <2>4. cu = cv + 1
    BY <2>3
  <2>5. QED BY <2>1, <2>2, <2>4 DEF cu, cv
<1>9. W(U) = w[x] + W(V) /\ F(U) = f[x] + F(V)
  <2>1. \A y \in U : w[y] \in Int
    BY <1>3
  <2>2. \A y \in U : f[y] \in Int
    BY <1>3
  <2> HIDE DEF W, F, V
  <2>3. SumFunctionOnSet(w, U) = w[x] + SumFunctionOnSet(w, U \ {x})
    BY <1>3, <1>5, <2>1, SumRemove
  <2>4. SumFunctionOnSet(f, U) = f[x] + SumFunctionOnSet(f, U \ {x})
    BY <1>3, <1>5, <2>2, SumRemove
  <2>5. QED BY <2>3, <2>4 DEF W, F, V
<1>10. W(V) \in Nat /\ F(V) \in Nat
  BY <1>6, <1>8, SumNonNegative
<1>11. w[x] \in Nat /\ f[x] \in Nat /\ 2 * (d * w[x]) <= 2 * (k * f[x]) + d
  <2>1. w[x] \in Nat /\ f[x] \in Nat /\ Rounds(w[x], f[x], k, d)
    BY <1>3, <1>5
  <2>2. QED BY <2>1 DEF Rounds
<1> DEFINE a == w[x]   b == f[x]   s == W(V)   t == F(V)   c == Cardinality(V)
<1> HIDE DEF a, b, s, t, c
<1>13. a \in Nat /\ b \in Nat /\ s \in Nat /\ t \in Nat /\ c \in Nat
  BY <1>8, <1>10, <1>11 DEF a, b, s, t, c
<1>14. /\ d * (a + s) = d * a + d * s /\ d * a \in Nat /\ d * s \in Nat
       /\ k * (b + t) = k * b + k * t /\ k * b \in Nat /\ k * t \in Nat
       /\ (c + 1) * d = c * d + d /\ c * d \in Nat
  BY <1>13
<1>15. ~ (2 * (d * (a + s)) <= 2 * (k * (b + t)) + (c + 1) * d)
  BY <1>8, <1>9, <1>12 DEF a, b, s, t, c
<1>16. 2 * (d * a) <= 2 * (k * b) + d /\ 2 * (d * s) <= 2 * (k * t) + c * d
  BY <1>7, <1>11 DEF a, b, s, t, c
<1> DEFINE da == d * a   ds == d * s   kb == k * b   kt == k * t   cd == c * d
<1>17. /\ da \in Nat /\ ds \in Nat /\ kb \in Nat /\ kt \in Nat /\ cd \in Nat
       /\ 2 * da <= 2 * kb + d /\ 2 * ds <= 2 * kt + cd
       /\ ~ (2 * (da + ds) <= 2 * (kb + kt) + (cd + d))
  BY <1>14, <1>15, <1>16
<1> HIDE DEF da, ds, kb, kt, cd
<1>18. QED BY <1>17

LEMMA SumRounded ==
  ASSUME NEW S, IsFiniteSet(S), NEW w, NEW f, NEW k \in Nat, NEW d \in Nat,
         \A x \in S : w[x] \in Nat /\ f[x] \in Nat /\ 2 * (d * w[x]) <= 2 * (k * f[x]) + d
  PROVE  2 * (d * SumFunctionOnSet(w, S))
           <= 2 * (k * SumFunctionOnSet(f, S)) + Cardinality(S) * d
<1>1. \A x \in S : w[x] \in Nat /\ f[x] \in Nat
  OBVIOUS
<1>2. \A x \in S : Rounds(w[x], f[x], k, d)
  BY DEF Rounds
<1>3. QED BY <1>1, <1>2, SumOfRounds

(* A non-empty set has a member whose natural-number weight is least.      *)
LEMMA LeastWeight ==
  ASSUME NEW S, S # {}, NEW w, \A x \in S : w[x] \in Nat
  PROVE  \E x \in S : \A y \in S : w[x] <= w[y]
<1> DEFINE W == {w[x] : x \in S}
           R == OpToRel(<, Nat)
<1>1. W \subseteq Nat /\ W # {}
  OBVIOUS
<1>2. \E m \in W : \A n \in W : ~ (<<n, m>> \in R)
  <2>1. IsWellFoundedOn(R, Nat)
    BY NatLessThanWellFounded
  <2> HIDE DEF W, R
  <2>2. QED BY <1>1, <2>1, WFMin
<1>3. \A m, n \in Nat : ~ (<<n, m>> \in R) => m <= n
  BY DEF OpToRel
<1>4. PICK m \in W : \A n \in W : m <= n
  <2> HIDE DEF W, R
  <2>1. QED BY <1>1, <1>2, <1>3
<1>5. QED BY <1>4

(* A finite set can be listed, and the list has only the set's members.    *)
LEMMA SetToSeqType ==
  ASSUME NEW T, NEW S \in SUBSET T, IsFiniteSet(S)
  PROVE  /\ SetToSeq(S) \in Seq(T)
         /\ \A k \in DOMAIN SetToSeq(S) : SetToSeq(S)[k] \in S
<1> DEFINE n == Cardinality(S)
<1>1. n \in Nat /\ ExistsBijection(1..n, S)
  BY FS_CardinalityType
<1>2. \E f \in [1..n -> S] : IsInjective(f)
  BY <1>1 DEF ExistsBijection, Bijection, Injection
<1>3. SetToSeq(S) \in [1..n -> S]
  BY <1>2 DEF SetToSeq
<1> HIDE DEF n
<1>4. QED BY <1>1, <1>3

=============================================================================
