----------------------------- MODULE SumsProofs -----------------------------
(***************************************************************************)
(* What SumOver computes on finite sets.  Every lemma is proved on the     *)
(* subsets of a finite set by looking at a smallest one that would refute  *)
(* it (SmallestSubset); Pick depends on the set alone, so two functions    *)
(* are always added up in the same order and no commutativity is needed.   *)
(***************************************************************************)
EXTENDS Sums, FiniteSetTheorems, TLAPS

\* g is the table SumOver builds on the subsets of T.
IsSum(f, T, g) ==
    g = [U \in SUBSET T |-> IF U = {} THEN 0 ELSE f[Pick(U)] + g[U \ {Pick(U)}]]

\* The table SumOver reads.
Table(f, T) == CHOOSE g : IsSum(f, T, g)

-----------------------------------------------------------------------------
(* Subsets *)

\* A non-empty set has the element it picks.
LEMMA PickIsElement == ASSUME NEW T, T # {} PROVE Pick(T) \in T
  BY Zenon DEF Pick

\* A non-empty collection of subsets of a finite set has a smallest one.
LEMMA SmallestSubset ==
  ASSUME NEW S, IsFiniteSet(S), NEW B, B \subseteq SUBSET S, B # {}
  PROVE  \E T \in B : \A U \in SUBSET T : U \in B => U = T
<1>1. B \subseteq FiniteSubsetsOf(S)
  BY FS_Subset DEF FiniteSubsetsOf
<1>2. PICK T \in B : \A U \in B : ~(<<U, T>> \in StrictSubsetOrdering(S))
  BY <1>1, FS_StrictSubsetOrderingWellFounded, WFMin
<1>3. \A U \in SUBSET T : U \in B => U = T
  BY <1>2 DEF StrictSubsetOrdering
<1> QED  BY <1>3

-----------------------------------------------------------------------------
(* The table exists *)

\* Two tables agree wherever both are defined.
LEMMA TablesAgree ==
  ASSUME NEW f, NEW S, IsFiniteSet(S), NEW T, NEW g, NEW h, S \subseteq T,
         IsSum(f, S, g), IsSum(f, T, h)
  PROVE  g[S] = h[S]
<1> DEFINE B == {U \in SUBSET S : g[U] # h[U]}
<1>1. SUFFICES ASSUME g[S] # h[S] PROVE FALSE
  OBVIOUS
<1>2. PICK U \in B : \A V \in SUBSET U : V \in B => V = U
  <2>1. B \subseteq SUBSET S /\ B # {}
    BY <1>1
  <2> HIDE DEF B
  <2> QED  BY <2>1, SmallestSubset
<1>3. g[U] = IF U = {} THEN 0 ELSE f[Pick(U)] + g[U \ {Pick(U)}]
  BY DEF IsSum
<1>4. h[U] = IF U = {} THEN 0 ELSE f[Pick(U)] + h[U \ {Pick(U)}]
  BY DEF IsSum
<1>5. U # {}
  BY <1>3, <1>4
<1>6. Pick(U) \in U
  BY <1>5, PickIsElement
<1>7. g[U \ {Pick(U)}] = h[U \ {Pick(U)}]
  BY <1>2, <1>6
<1> QED  BY <1>3, <1>4, <1>7

\* Every finite set has a table.
LEMMA TableExists ==
  ASSUME NEW f, NEW S, IsFiniteSet(S)
  PROVE  IsSum(f, S, Table(f, S))
<1> DEFINE B == {T \in SUBSET S : ~ \E g : IsSum(f, T, g)}
<1>1. SUFFICES ASSUME S \in B PROVE FALSE
  BY DEF Table
<1>2. PICK T \in B : \A V \in SUBSET T : V \in B => V = T
  <2>1. B \subseteq SUBSET S /\ B # {}
    BY <1>1
  <2> HIDE DEF B
  <2> QED  BY <2>1, SmallestSubset
<1>3. \A U \in SUBSET T : U # T => IsFiniteSet(U) /\ IsSum(f, U, Table(f, U))
  <2> SUFFICES ASSUME NEW U \in SUBSET T, U # T
               PROVE  IsFiniteSet(U) /\ IsSum(f, U, Table(f, U))
    OBVIOUS
  <2>1. U \in SUBSET S /\ U \notin B
    BY <1>2
  <2>2. \E g : IsSum(f, U, g)
    BY <2>1
  <2> QED  BY <2>1, <2>2, FS_Subset DEF Table
<1> DEFINE w(U) == Table(f, U)[U]
           G == [U \in SUBSET T |-> IF U = {} THEN 0 ELSE f[Pick(U)] + w(U \ {Pick(U)})]
<1>4. ASSUME NEW U \in SUBSET T, U # T
      PROVE  w(U) = IF U = {} THEN 0 ELSE f[Pick(U)] + w(U \ {Pick(U)})
  <2>1. IsSum(f, U, Table(f, U)) /\ IsFiniteSet(U)
    BY <1>3, <1>4
  <2>2. Table(f, U)[U] = IF U = {} THEN 0 ELSE f[Pick(U)] + Table(f, U)[U \ {Pick(U)}]
    BY <2>1 DEF IsSum
  <2>3. ASSUME U # {}
        PROVE  Table(f, U)[U \ {Pick(U)}] = w(U \ {Pick(U)})
    <3> DEFINE V == U \ {Pick(U)}
    <3>1. V \in SUBSET T /\ V # T /\ V \subseteq U
      BY <2>3, PickIsElement
    <3>2. IsFiniteSet(V) /\ IsSum(f, V, Table(f, V))
      BY <1>3, <3>1
    <3> HIDE DEF V
    <3>3. Table(f, V)[V] = Table(f, U)[V]
      BY <2>1, <3>1, <3>2, TablesAgree
    <3> QED  BY <3>3 DEF V
  <2> QED  BY <2>2, <2>3
<1>5. \A U \in SUBSET T : U # T => G[U] = w(U)
  BY <1>4
<1>6. ASSUME NEW U \in SUBSET T, U # {}
      PROVE  w(U \ {Pick(U)}) = G[U \ {Pick(U)}]
  <2>1. U \ {Pick(U)} \in SUBSET T /\ U \ {Pick(U)} # T
    BY <1>6, PickIsElement
  <2> HIDE DEF G, w
  <2> QED  BY <1>5, <2>1
<1>7. G = [U \in SUBSET T |-> IF U = {} THEN 0 ELSE f[Pick(U)] + G[U \ {Pick(U)}]]
  BY <1>6
<1>8. IsSum(f, T, G)
  <2> HIDE DEF G
  <2> QED  BY <1>7 DEF IsSum
<1> QED  BY <1>8

-----------------------------------------------------------------------------
(* The sum *)

\* SumOver reads the table of the whole set.
LEMMA SumIsTable ==
  ASSUME NEW f, NEW S
  PROVE  SumOver(f, S) = Table(f, S)[S]
  BY Zenon DEF SumOver, IsSum, Table

\* Nothing adds up to 0, and a non-empty set to what it picks and the sum of the rest.
LEMMA SumUnfold ==
  ASSUME NEW f, NEW S, IsFiniteSet(S)
  PROVE  SumOver(f, S) =
           IF S = {} THEN 0 ELSE f[Pick(S)] + SumOver(f, S \ {Pick(S)})
<1> DEFINE V == S \ {Pick(S)}
<1>1. IsSum(f, S, Table(f, S)) /\ IsFiniteSet(V)
  BY TableExists, FS_RemoveElement
<1>2. IsSum(f, V, Table(f, V))
  BY <1>1, TableExists
<1>3. Table(f, S)[S] = IF S = {} THEN 0 ELSE f[Pick(S)] + Table(f, S)[V]
  BY <1>1 DEF IsSum
<1>4. V \subseteq S
  OBVIOUS
<1> HIDE DEF V
<1>5. Table(f, V)[V] = Table(f, S)[V]
  BY <1>1, <1>2, <1>4, TablesAgree
<1>6. SumOver(f, S) = IF S = {} THEN 0 ELSE f[Pick(S)] + SumOver(f, V)
  BY <1>3, <1>5, SumIsTable
<1> QED  BY <1>6 DEF V

\* Numbers add up to a number.
LEMMA SumIsNat ==
  ASSUME NEW f, NEW S, IsFiniteSet(S), \A x \in S : f[x] \in Nat
  PROVE  SumOver(f, S) \in Nat
<1> DEFINE B == {T \in SUBSET S : SumOver(f, T) \notin Nat}
<1>1. SUFFICES ASSUME S \in B PROVE FALSE
  OBVIOUS
<1>2. PICK T \in B : \A V \in SUBSET T : V \in B => V = T
  <2>1. B \subseteq SUBSET S /\ B # {}
    BY <1>1
  <2> HIDE DEF B
  <2> QED  BY <2>1, SmallestSubset
<1>3. SumOver(f, T) = IF T = {} THEN 0 ELSE f[Pick(T)] + SumOver(f, T \ {Pick(T)})
  BY FS_Subset, SumUnfold
<1>4. CASE T # {}
  <2>1. Pick(T) \in T /\ f[Pick(T)] \in Nat
    BY <1>4, PickIsElement
  <2>2. SumOver(f, T \ {Pick(T)}) \in Nat
    BY <1>2, <2>1
  <2> QED  BY <1>3, <1>4, <2>1, <2>2
<1> QED  BY <1>3, <1>4

\* The sum depends on the values in the set alone.
LEMMA SumOfEqualValues ==
  ASSUME NEW f, NEW g, NEW S, IsFiniteSet(S), \A x \in S : f[x] = g[x]
  PROVE  SumOver(f, S) = SumOver(g, S)
<1> DEFINE B == {T \in SUBSET S : SumOver(f, T) # SumOver(g, T)}
<1>1. SUFFICES ASSUME S \in B PROVE FALSE
  OBVIOUS
<1>2. PICK T \in B : \A V \in SUBSET T : V \in B => V = T
  <2>1. B \subseteq SUBSET S /\ B # {}
    BY <1>1
  <2> HIDE DEF B
  <2> QED  BY <2>1, SmallestSubset
<1>3. SumOver(f, T) = IF T = {} THEN 0 ELSE f[Pick(T)] + SumOver(f, T \ {Pick(T)})
  BY FS_Subset, SumUnfold
<1>4. SumOver(g, T) = IF T = {} THEN 0 ELSE g[Pick(T)] + SumOver(g, T \ {Pick(T)})
  BY FS_Subset, SumUnfold
<1>5. T # {} /\ Pick(T) \in T
  BY <1>3, <1>4, PickIsElement
<1>6. SumOver(f, T \ {Pick(T)}) = SumOver(g, T \ {Pick(T)})
  BY <1>2, <1>5
<1> QED  BY <1>3, <1>4, <1>5, <1>6

\* Changing one value changes the sum by as much.
LEMMA SumOfOneChange ==
  ASSUME NEW f, NEW g, NEW S, IsFiniteSet(S), NEW x \in S,
         \A y \in S : f[y] \in Nat /\ g[y] \in Nat,
         \A y \in S : y # x => f[y] = g[y]
  PROVE  SumOver(g, S) = SumOver(f, S) + g[x] - f[x]
<1> DEFINE B == {T \in SUBSET S : x \in T /\ SumOver(g, T) # SumOver(f, T) + g[x] - f[x]}
<1>1. SUFFICES ASSUME S \in B PROVE FALSE
  OBVIOUS
<1>2. PICK T \in B : \A V \in SUBSET T : V \in B => V = T
  <2>1. B \subseteq SUBSET S /\ B # {}
    BY <1>1
  <2> HIDE DEF B
  <2> QED  BY <2>1, SmallestSubset
<1>3. T # {} /\ Pick(T) \in T /\ Pick(T) \in S
  BY PickIsElement
<1> DEFINE p == Pick(T)
           V == T \ {Pick(T)}
<1>4. IsFiniteSet(T) /\ IsFiniteSet(V)
  BY FS_Subset
<1>5. SumOver(f, T) = f[p] + SumOver(f, V) /\ SumOver(g, T) = g[p] + SumOver(g, V)
  BY <1>3, <1>4, SumUnfold
<1>6. SumOver(f, V) \in Nat /\ SumOver(g, V) \in Nat
  BY <1>4, SumIsNat
<1>7. CASE p = x
  <2>1. SumOver(f, V) = SumOver(g, V)
    BY <1>4, <1>7, SumOfEqualValues
  <2> QED  BY <1>5, <1>6, <1>7, <2>1
<1>8. CASE p # x
  <2>1. SumOver(g, V) = SumOver(f, V) + g[x] - f[x]
    BY <1>2, <1>3, <1>8
  <2>2. f[p] = g[p] /\ f[p] \in Nat /\ f[x] \in Nat /\ g[x] \in Nat
    BY <1>3, <1>8
  <2>3. SumOver(g, T) # SumOver(f, T) + g[x] - f[x]
    OBVIOUS
  <2> HIDE DEF B, p, V
  <2> QED  BY <1>5, <1>6, <2>1, <2>2, <2>3
<1> QED  BY <1>7, <1>8

\* No value exceeds the sum.
LEMMA SumBoundsItsParts ==
  ASSUME NEW f, NEW S, IsFiniteSet(S), NEW x \in S, \A y \in S : f[y] \in Nat
  PROVE  f[x] <= SumOver(f, S)
<1> DEFINE g == [y \in S |-> IF y = x THEN 0 ELSE f[y]]
<1>1. SumOver(g, S) = SumOver(f, S) + g[x] - f[x]
  <2>1. /\ \A y \in S : f[y] \in Nat /\ g[y] \in Nat
        /\ \A y \in S : y # x => f[y] = g[y]
    OBVIOUS
  <2> HIDE DEF g
  <2> QED  BY <2>1, SumOfOneChange
<1>2. SumOver(g, S) \in Nat
  <2>1. \A y \in S : g[y] \in Nat
    OBVIOUS
  <2> HIDE DEF g
  <2> QED  BY <2>1, SumIsNat
<1>3. SumOver(f, S) \in Nat
  BY SumIsNat
<1>4. g[x] = 0
  OBVIOUS
<1> QED  BY <1>1, <1>2, <1>3, <1>4

\* Zeros add up to 0.
LEMMA SumOfZeros ==
  ASSUME NEW f, NEW S, IsFiniteSet(S), \A x \in S : f[x] = 0
  PROVE  SumOver(f, S) = 0
<1> DEFINE B == {T \in SUBSET S : SumOver(f, T) # 0}
<1>1. SUFFICES ASSUME S \in B PROVE FALSE
  OBVIOUS
<1>2. PICK T \in B : \A V \in SUBSET T : V \in B => V = T
  <2>1. B \subseteq SUBSET S /\ B # {}
    BY <1>1
  <2> HIDE DEF B
  <2> QED  BY <2>1, SmallestSubset
<1>3. SumOver(f, T) = IF T = {} THEN 0 ELSE f[Pick(T)] + SumOver(f, T \ {Pick(T)})
  BY FS_Subset, SumUnfold
<1>4. T # {} /\ Pick(T) \in T
  BY <1>3, PickIsElement
<1>5. SumOver(f, T \ {Pick(T)}) = 0
  BY <1>2, <1>4
<1> QED  BY <1>3, <1>4, <1>5

\* What is bounded term by term, up to k times a second table, is bounded in sum.
LEMMA SumOfDominated ==
  ASSUME NEW f, NEW g, NEW c, NEW k \in Nat, NEW S, IsFiniteSet(S),
         \A y \in S : f[y] \in Nat /\ g[y] \in Nat /\ c[y] \in Nat,
         \A y \in S : g[y] <= f[y] + c[y] * k
  PROVE  SumOver(g, S) <= SumOver(f, S) + SumOver(c, S) * k
<1> DEFINE B == {T \in SUBSET S : ~(SumOver(g, T) <= SumOver(f, T) + SumOver(c, T) * k)}
<1>1. SUFFICES ASSUME S \in B PROVE FALSE
  OBVIOUS
<1>2. PICK T \in B : \A V \in SUBSET T : V \in B => V = T
  <2>1. B \subseteq SUBSET S /\ B # {}
    BY <1>1
  <2> HIDE DEF B
  <2> QED  BY <2>1, SmallestSubset
<1> DEFINE p == Pick(T)
           V == T \ {Pick(T)}
<1>3. IsFiniteSet(T) /\ IsFiniteSet(V)
  BY FS_Subset
<1>4. T # {}
  <2>1. SUFFICES ASSUME T = {} PROVE FALSE
    OBVIOUS
  <2>2. SumOver(f, T) = 0 /\ SumOver(g, T) = 0 /\ SumOver(c, T) = 0
    BY <1>3, <2>1, SumUnfold
  <2>3. ~(SumOver(g, T) <= SumOver(f, T) + SumOver(c, T) * k)
    OBVIOUS
  <2> HIDE DEF B
  <2> QED  BY <2>2, <2>3
<1>5. p \in T /\ p \in S
  BY <1>4, PickIsElement
<1>6. /\ SumOver(f, T) = f[p] + SumOver(f, V)
      /\ SumOver(g, T) = g[p] + SumOver(g, V)
      /\ SumOver(c, T) = c[p] + SumOver(c, V)
  BY <1>3, <1>4, SumUnfold
<1>7. SumOver(f, V) \in Nat /\ SumOver(g, V) \in Nat /\ SumOver(c, V) \in Nat
  BY <1>3, SumIsNat
<1>8. SumOver(g, V) <= SumOver(f, V) + SumOver(c, V) * k
  BY <1>2, <1>5
<1>9. /\ f[p] \in Nat /\ g[p] \in Nat /\ c[p] \in Nat /\ g[p] <= f[p] + c[p] * k
      /\ ~(SumOver(g, T) <= SumOver(f, T) + SumOver(c, T) * k)
  BY <1>5
<1> HIDE DEF B, p, V
<1>10. (c[p] + SumOver(c, V)) * k = c[p] * k + SumOver(c, V) * k
  BY <1>7, <1>9
<1>11. c[p] * k \in Nat /\ SumOver(c, V) * k \in Nat
  BY <1>7, <1>9
<1> QED  BY <1>6, <1>7, <1>8, <1>9, <1>10, <1>11

\* The sum is the same in whatever order it is added up: any value can go first.
LEMMA SumSplitsOff ==
  ASSUME NEW f, NEW S, IsFiniteSet(S), NEW x \in S, \A y \in S : f[y] \in Nat
  PROVE  SumOver(f, S) = f[x] + SumOver(f, S \ {x})
<1> DEFINE B == {T \in SUBSET S : \E z \in T : SumOver(f, T) # f[z] + SumOver(f, T \ {z})}
<1>1. SUFFICES ASSUME S \in B PROVE FALSE
  OBVIOUS
<1>2. PICK T \in B : \A V \in SUBSET T : V \in B => V = T
  <2>1. B \subseteq SUBSET S /\ B # {}
    BY <1>1
  <2> HIDE DEF B
  <2> QED  BY <2>1, SmallestSubset
<1>3. PICK z \in T : SumOver(f, T) # f[z] + SumOver(f, T \ {z})
  OBVIOUS
<1> DEFINE p == Pick(T)
           V == T \ {p}
           W == T \ {z}
<1>4. p \in T /\ T # {} /\ T \subseteq S
  BY PickIsElement
<1>5. IsFiniteSet(T) /\ IsFiniteSet(V \ {z})
  BY FS_Subset
<1>6. SumOver(f, T) = f[p] + SumOver(f, V)
  BY <1>4, <1>5, SumUnfold
<1>7. p # z
  BY <1>3, <1>6
<1>8. \A U \in SUBSET T : U # T => \A y \in U : SumOver(f, U) = f[y] + SumOver(f, U \ {y})
  <2> SUFFICES ASSUME NEW U \in SUBSET T, U # T, NEW y \in U
               PROVE  SumOver(f, U) = f[y] + SumOver(f, U \ {y})
    OBVIOUS
  <2>1. U \in SUBSET S /\ U \notin B
    BY <1>2, <1>4
  <2> QED  BY <2>1
<1>9. SumOver(f, V) = f[z] + SumOver(f, V \ {z})
  <2>1. V \in SUBSET T /\ V # T /\ z \in V
    BY <1>3, <1>4, <1>7
  <2> HIDE DEF B, V
  <2> QED  BY <1>8, <2>1
<1>10. SumOver(f, W) = f[p] + SumOver(f, W \ {p})
  <2>1. W \in SUBSET T /\ W # T /\ p \in W
    BY <1>3, <1>4, <1>7
  <2> HIDE DEF B, W, p
  <2> QED  BY <1>8, <2>1
<1>11. W \ {p} = V \ {z}
  OBVIOUS
<1>12. SumOver(f, V \ {z}) \in Nat
  BY <1>4, <1>5, SumIsNat
<1>13. f[p] \in Nat /\ f[z] \in Nat
  BY <1>4
<1> HIDE DEF B, p, V, W
<1>14. SumOver(f, T) = f[z] + SumOver(f, W)
  BY <1>6, <1>9, <1>10, <1>11, <1>12, <1>13
<1> QED  BY <1>3, <1>14 DEF W

\* Adding an element adds its value.
LEMMA SumTakesOneMore ==
  ASSUME NEW f, NEW S, IsFiniteSet(S), NEW x, x \notin S,
         \A y \in S \cup {x} : f[y] \in Nat
  PROVE  SumOver(f, S \cup {x}) = SumOver(f, S) + f[x]
<1> DEFINE T == S \cup {x}
<1>1. IsFiniteSet(T) /\ x \in T /\ T \ {x} = S /\ \A y \in T : f[y] \in Nat
  BY FS_AddElement
<1> HIDE DEF T
<1>2. SumOver(f, T) = f[x] + SumOver(f, S)
  BY <1>1, SumSplitsOff
<1>3. SumOver(f, S) \in Nat /\ f[x] \in Nat
  BY <1>1, SumIsNat
<1> QED  BY <1>2, <1>3 DEF T

\* Two sums that fit into a third one element by element fit into it as a whole.
LEMMA TwoSumsFit ==
  ASSUME NEW f, NEW g, NEW h, NEW S, IsFiniteSet(S),
         \A y \in S : f[y] \in Nat /\ g[y] \in Nat /\ h[y] \in Nat,
         \A y \in S : f[y] + g[y] <= h[y]
  PROVE  SumOver(f, S) + SumOver(g, S) <= SumOver(h, S)
<1> DEFINE B == {T \in SUBSET S : ~(SumOver(f, T) + SumOver(g, T) <= SumOver(h, T))}
<1>1. SUFFICES ASSUME S \in B PROVE FALSE
  OBVIOUS
<1>2. PICK T \in B : \A V \in SUBSET T : V \in B => V = T
  <2>1. B \subseteq SUBSET S /\ B # {}
    BY <1>1
  <2> HIDE DEF B
  <2> QED  BY <2>1, SmallestSubset
<1> DEFINE p == Pick(T)
           V == T \ {Pick(T)}
<1>3. IsFiniteSet(T) /\ IsFiniteSet(V)
  BY FS_Subset
<1>4. T # {}
  <2>1. SUFFICES ASSUME T = {} PROVE FALSE
    OBVIOUS
  <2>2. SumOver(f, T) = 0 /\ SumOver(g, T) = 0 /\ SumOver(h, T) = 0
    BY <1>3, <2>1, SumUnfold
  <2>3. ~(SumOver(f, T) + SumOver(g, T) <= SumOver(h, T))
    OBVIOUS
  <2> HIDE DEF B
  <2> QED  BY <2>2, <2>3
<1>5. p \in T /\ p \in S
  BY <1>4, PickIsElement
<1>6. /\ SumOver(f, T) = f[p] + SumOver(f, V)
      /\ SumOver(g, T) = g[p] + SumOver(g, V)
      /\ SumOver(h, T) = h[p] + SumOver(h, V)
  BY <1>3, <1>4, SumUnfold
<1>7. SumOver(f, V) \in Nat /\ SumOver(g, V) \in Nat /\ SumOver(h, V) \in Nat
  BY <1>3, SumIsNat
<1>8. SumOver(f, V) + SumOver(g, V) <= SumOver(h, V)
  BY <1>2, <1>5
<1>9. /\ f[p] \in Nat /\ g[p] \in Nat /\ h[p] \in Nat /\ f[p] + g[p] <= h[p]
      /\ ~(SumOver(f, T) + SumOver(g, T) <= SumOver(h, T))
  BY <1>5
<1> HIDE DEF B, p, V
<1> QED  BY <1>6, <1>7, <1>8, <1>9
=============================================================================
