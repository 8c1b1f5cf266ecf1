-------------------------- MODULE OrderStoreProofs --------------------------
(***************************************************************************)
(* What OrderStore's operators return.  Most of it is about sums of        *)
(* quantities over finite sets of orders: the provers know nothing of      *)
(* folds, so these facts are derived from the recursive function that      *)
(* MapThenSumSet stands for, each by way of a minimal counterexample.      *)
(***************************************************************************)
EXTENDS OrderStore, FiniteSetTheorems, TLAPS

(* A confirmation that the stock allows leaves a stock.                    *)
LEMMA DeductionFits ==
  ASSUME stock \in [Products -> Nat], NEW o \in Orders, NEW row,
         row = Confirmed =>
           ProductFound(o) /\ stock[Request[o].product] >= Request[o].quantity
  PROVE  Deducted(o, row) \in [Products -> Nat]
<1>1. Request[o].quantity \in Nat
  BY RequestAssumption DEF AcceptedOrder
<1>2. CASE row = Confirmed
  <2>1. Request[o].product \in Products /\ stock[Request[o].product] >= Request[o].quantity
    BY <1>2 DEF ProductFound
  <2> QED BY <1>1, <1>2, <2>1 DEF Deducted
<1>3. CASE row # Confirmed
  BY <1>3 DEF Deducted
<1> QED BY <1>2, <1>3

Pick(S) == CHOOSE x \in S : TRUE

Quantity(o) == Request[o].quantity

(* f sums the quantities of the subsets of S.                              *)
IsSum(f, S) ==
  f = [s \in SUBSET S |->
         IF s = {} THEN 0 ELSE Quantity(Pick(s)) + f[s \ {Pick(s)}]]

(* Units is defined by such a function.                                    *)
LEMMA UnitsUnfold == \A S : Units(S) = (CHOOSE f : IsSum(f, S))[S]
BY DEF Units, IsSum, Pick, Quantity, MapThenSumSet, MapThenFoldSet

(* A set of finite sets that is not empty has a smallest member.           *)
LEMMA MinimalSet ==
  ASSUME NEW S, IsFiniteSet(S), NEW B \in SUBSET SUBSET S, B # {}
  PROVE  \E t \in B : \A u \in B : u \subseteq t => u = t
<1>1. B \subseteq FiniteSubsetsOf(S)
  BY FS_Subset DEF FiniteSubsetsOf
<1>2. IsWellFoundedOn(StrictSubsetOrdering(S), FiniteSubsetsOf(S))
  BY FS_StrictSubsetOrderingWellFounded
<1>3. \E t \in B : \A u \in B : <<u, t>> \notin StrictSubsetOrdering(S)
  BY ONLY <1>1, <1>2, WFMin, B # {}
<1> QED BY <1>3 DEF StrictSubsetOrdering

LEMMA Picked == \A S : S # {} => Pick(S) \in S
BY DEF Pick

(* There is at most one such function.                                     *)
LEMMA SumUnique ==
  ASSUME NEW S, IsFiniteSet(S), NEW f, NEW g, IsSum(f, S), IsSum(g, S)
  PROVE  f = g
<1> DEFINE B == {s \in SUBSET S : f[s] # g[s]}
<1>1. /\ \A s \in SUBSET S : f[s] = IF s = {} THEN 0 ELSE Quantity(Pick(s)) + f[s \ {Pick(s)}]
      /\ \A s \in SUBSET S : g[s] = IF s = {} THEN 0 ELSE Quantity(Pick(s)) + g[s \ {Pick(s)}]
  BY Zenon DEF IsSum
<1>2. ASSUME B # {} PROVE FALSE
  <2>1. PICK t \in B : \A u \in B : u \subseteq t => u = t
    <3>1. B \in SUBSET SUBSET S
      OBVIOUS
    <3> HIDE DEF B
    <3> QED BY <1>2, <3>1, MinimalSet
  <2>2. t # {}
    BY <1>1
  <2>3. Pick(t) \in t
    BY <2>2, Picked
  <2>4. f[t \ {Pick(t)}] = g[t \ {Pick(t)}]
    BY <2>1, <2>3
  <2> QED BY <1>1, <2>1, <2>2, <2>4
<1>3. \A s \in SUBSET S : f[s] = g[s]
  BY <1>2
<1>4. f = [s \in SUBSET S |-> f[s]] /\ g = [s \in SUBSET S |-> g[s]]
  BY Zenon DEF IsSum
<1> QED BY <1>3, <1>4

(* The recursive equation of Units.                                        *)
LEMMA UnitsRecursion ==
  ASSUME NEW S \in SUBSET Orders, IsFiniteSet(S)
  PROVE  Units(S) = IF S = {} THEN 0 ELSE Quantity(Pick(S)) + Units(S \ {Pick(S)})
<1> DEFINE Value(s) == IF s = {} THEN 0 ELSE Quantity(Pick(s)) + Units(s \ {Pick(s)})
           B == {s \in SUBSET S : Units(s) # Value(s)}
<1>1. ASSUME B # {} PROVE FALSE
  <2>1. PICK t \in B : \A u \in B : u \subseteq t => u = t
    <3>1. B \in SUBSET SUBSET S
      OBVIOUS
    <3> HIDE DEF B
    <3> QED BY <1>1, <3>1, MinimalSet
  <2> DEFINE f == [s \in SUBSET t |-> Value(s)]
  <2>2. \A s \in SUBSET t : s # t => Units(s) = Value(s)
    BY <2>1
  <2>3. ASSUME NEW s \in SUBSET t, s # {}
        PROVE  f[s] = Quantity(Pick(s)) + f[s \ {Pick(s)}]
    <3>1. Pick(s) \in s
      BY <2>3, Picked
    <3>2. s \ {Pick(s)} \in SUBSET t /\ s \ {Pick(s)} # t
      BY <3>1
    <3>3. f[s \ {Pick(s)}] = Units(s \ {Pick(s)})
      BY <2>2, <3>2
    <3>4. f[s] = Quantity(Pick(s)) + Units(s \ {Pick(s)})
      BY <2>3
    <3> QED BY <3>3, <3>4
  <2>4. IsSum(f, t)
    <3>1. \A s \in SUBSET t : f[s] = IF s = {} THEN 0 ELSE Quantity(Pick(s)) + f[s \ {Pick(s)}]
      BY <2>3
    <3>2. f = [s \in SUBSET t |-> f[s]]
      OBVIOUS
    <3> HIDE DEF f
    <3> QED BY <3>1, <3>2, Zenon DEF IsSum
  <2>5. IsFiniteSet(t)
    BY FS_Subset
  <2>6. (CHOOSE h : IsSum(h, t)) = f
    <3> HIDE DEF f
    <3>1. IsSum(CHOOSE h : IsSum(h, t), t)
      BY <2>4
    <3> QED BY <2>4, <2>5, <3>1, SumUnique
  <2>7. Units(t) = f[t]
    BY <2>6, UnitsUnfold
  <2>8. Units(t) = Value(t)
    BY <2>7
  <2> QED BY <2>1, <2>8
<1>2. S \notin B
  BY <1>1
<1> QED BY <1>2
-----------------------------------------------------------------------------
LEMMA QuantityType == \A o \in Orders : Quantity(o) \in 1..100
BY RequestAssumption DEF AcceptedOrder, Quantity

(* A sum of quantities is a natural number.                                *)
LEMMA UnitsType ==
  ASSUME NEW S \in SUBSET Orders, IsFiniteSet(S)
  PROVE  Units(S) \in Nat
<1> DEFINE B == {s \in SUBSET S : Units(s) \notin Nat}
<1>1. ASSUME B # {} PROVE FALSE
  <2>1. PICK t \in B : \A u \in B : u \subseteq t => u = t
    <3>1. B \in SUBSET SUBSET S
      OBVIOUS
    <3> HIDE DEF B
    <3> QED BY <1>1, <3>1, MinimalSet
  <2>2. t \in SUBSET Orders /\ IsFiniteSet(t)
    BY FS_Subset
  <2>3. t # {} => Pick(t) \in t /\ Units(t \ {Pick(t)}) \in Nat
    BY <2>1, Picked
  <2>4. Units(t) = IF t = {} THEN 0 ELSE Quantity(Pick(t)) + Units(t \ {Pick(t)})
    BY <2>2, UnitsRecursion
  <2>5. t # {} => Quantity(Pick(t)) \in Nat
    BY <2>2, <2>3, QuantityType
  <2>6. Units(t) \in Nat
    BY <2>3, <2>4, <2>5
  <2> QED BY <2>1, <2>6
<1> QED BY <1>1

(* The order in which the members are added does not matter: any of them   *)
(* can be the last.                                                        *)
LEMMA UnitsRemove ==
  ASSUME NEW S \in SUBSET Orders, IsFiniteSet(S), NEW y \in S
  PROVE  Units(S) = Quantity(y) + Units(S \ {y})
<1> DEFINE B == {s \in SUBSET S : \E x \in s : Units(s) # Quantity(x) + Units(s \ {x})}
<1>1. ASSUME B # {} PROVE FALSE
  <2>1. PICK t \in B : \A u \in B : u \subseteq t => u = t
    <3>1. B \in SUBSET SUBSET S
      OBVIOUS
    <3> HIDE DEF B
    <3> QED BY <1>1, <3>1, MinimalSet
  <2>2. PICK x \in t : Units(t) # Quantity(x) + Units(t \ {x})
    BY <2>1
  <2> DEFINE z == Pick(t)
  <2>3. z \in t
    BY <2>2, Picked
  <2>4. \A s \in SUBSET t : s # t => \A o \in s : Units(s) = Quantity(o) + Units(s \ {o})
    BY <2>1
  <2>5. \A s \in SUBSET t : s \in SUBSET Orders /\ IsFiniteSet(s)
    BY FS_Subset
  <2>6. Units(t) = Quantity(z) + Units(t \ {z})
    BY <2>2, <2>5, UnitsRecursion
  <2>7. z # x
    BY <2>2, <2>6
  <2> HIDE DEF z
  <2>8. /\ Units(t \ {z}) = Quantity(x) + Units((t \ {z}) \ {x})
        /\ Units(t \ {x}) = Quantity(z) + Units((t \ {x}) \ {z})
    BY <2>2, <2>3, <2>4, <2>7
  <2>9. (t \ {z}) \ {x} = (t \ {x}) \ {z}
    OBVIOUS
  <2>10. Quantity(x) \in Nat /\ Quantity(z) \in Nat /\ Units((t \ {x}) \ {z}) \in Nat
    BY <2>3, <2>5, UnitsType, QuantityType
  <2> QED BY <2>2, <2>6, <2>8, <2>9, <2>10
<1> QED BY <1>1

LEMMA UnitsAdd ==
  ASSUME NEW S \in SUBSET Orders, IsFiniteSet(S), NEW y \in Orders \ S
  PROVE  Units(S \cup {y}) = Units(S) + Quantity(y)
<1>1. S \cup {y} \in SUBSET Orders /\ IsFiniteSet(S \cup {y}) /\ y \in S \cup {y}
  BY FS_AddElement
<1>2. Units(S \cup {y}) = Quantity(y) + Units((S \cup {y}) \ {y})
  BY <1>1, UnitsRemove
<1>3. (S \cup {y}) \ {y} = S
  OBVIOUS
<1> QED BY <1>2, <1>3, UnitsType, QuantityType

LEMMA UnitsEmpty == Units({}) = 0
BY UnitsRecursion, FS_EmptySet

(* A larger set has no smaller sum.                                        *)
LEMMA UnitsMonotone ==
  ASSUME NEW T \in SUBSET Orders, IsFiniteSet(T), NEW S \in SUBSET T
  PROVE  Units(S) <= Units(T)
<1> DEFINE B == {t \in SUBSET T : S \subseteq t /\ ~(Units(S) <= Units(t))}
<1>0. \A t \in SUBSET T : t \in SUBSET Orders /\ IsFiniteSet(t) /\ Units(t) \in Nat
  BY FS_Subset, UnitsType
<1>1. ASSUME B # {} PROVE FALSE
  <2>1. PICK t \in B : \A u \in B : u \subseteq t => u = t
    <3>1. B \in SUBSET SUBSET T
      OBVIOUS
    <3> HIDE DEF B
    <3> QED BY <1>1, <3>1, MinimalSet
  <2>2. t # S
    BY <1>0
  <2>3. PICK y \in t : y \notin S
    BY <2>2
  <2>4. Units(S) <= Units(t \ {y})
    BY <2>1, <2>3
  <2>5. Units(t) = Quantity(y) + Units(t \ {y}) /\ Quantity(y) \in Nat
    BY <1>0, UnitsRemove, QuantityType
  <2>6. Units(S) \in Nat /\ Units(t \ {y}) \in Nat
    BY <1>0
  <2>7. Units(S) <= Units(t)
    BY <2>4, <2>5, <2>6
  <2> QED BY <2>1, <2>7
<1> QED BY <1>1

(* A union counts what its parts share once.                               *)
LEMMA UnitsUnion ==
  ASSUME NEW S \in SUBSET Orders, IsFiniteSet(S), NEW T \in SUBSET Orders, IsFiniteSet(T)
  PROVE  Units(S \cup T) <= Units(S) + Units(T)
<1> DEFINE B == {t \in SUBSET T : ~(Units(S \cup t) <= Units(S) + Units(t))}
<1>0. \A t \in SUBSET T :
        /\ t \in SUBSET Orders /\ IsFiniteSet(t) /\ Units(t) \in Nat
        /\ S \cup t \in SUBSET Orders /\ IsFiniteSet(S \cup t) /\ Units(S \cup t) \in Nat
  BY FS_Subset, FS_Union, UnitsType
<1>1. ASSUME B # {} PROVE FALSE
  <2>1. PICK t \in B : \A u \in B : u \subseteq t => u = t
    <3>1. B \in SUBSET SUBSET T
      OBVIOUS
    <3> HIDE DEF B
    <3> QED BY <1>1, <3>1, MinimalSet
  <2>2. t # {}
    <3>1. S \cup {} = S /\ Units(S) \in Nat
      BY UnitsType
    <3> QED BY <3>1, UnitsEmpty
  <2>3. PICK y \in t : TRUE
    BY <2>2
  <2> DEFINE rest == t \ {y}
  <2>4. Units(S \cup rest) <= Units(S) + Units(rest)
    BY <2>1, <2>3
  <2>5. Units(t) = Quantity(y) + Units(rest) /\ Quantity(y) \in Nat
    BY <1>0, <2>3, UnitsRemove, QuantityType
  <2>6. Units(S) \in Nat /\ Units(rest) \in Nat /\ Units(S \cup rest) \in Nat
    BY <1>0, UnitsType
  <2>7. Units(S \cup t) <= Units(S \cup rest) + Quantity(y)
    <3>1. CASE y \in S
      <4>1. S \cup t = S \cup rest
        BY <3>1
      <4>2. Units(S \cup t) = Units(S \cup rest)
        BY <4>1
      <4> HIDE DEF rest
      <4> QED BY <2>5, <2>6, <4>2
    <3>2. CASE y \notin S
      <4>1. S \cup t = (S \cup rest) \cup {y} /\ y \in Orders \ (S \cup rest)
        BY <2>3, <3>2
      <4>2. S \cup rest \in SUBSET Orders /\ IsFiniteSet(S \cup rest)
        BY <1>0
      <4>3. Units(S \cup t) = Units(S \cup rest) + Quantity(y)
        BY <4>1, <4>2, UnitsAdd
      <4> QED BY <2>5, <2>6, <4>3
    <3> QED BY <3>1, <3>2
  <2>8. Units(S \cup t) \in Nat /\ Units(t) \in Nat
    BY <1>0
  <2> HIDE DEF rest
  <2>9. Units(S \cup t) <= Units(S) + Units(t)
    BY <2>4, <2>5, <2>6, <2>7, <2>8
  <2> QED BY <2>1, <2>9
<1> QED BY <1>1

(* n orders of at most m units each are at most n * m units.               *)
LEMMA UnitsAtMost ==
  ASSUME NEW S \in SUBSET Orders, IsFiniteSet(S), NEW m \in Nat,
         \A x \in S : Quantity(x) <= m
  PROVE  Units(S) <= Cardinality(S) * m
<1> DEFINE B == {s \in SUBSET S : ~(Units(s) <= Cardinality(s) * m)}
<1>0. \A s \in SUBSET S :
        s \in SUBSET Orders /\ IsFiniteSet(s) /\ Units(s) \in Nat /\ Cardinality(s) \in Nat
  BY FS_Subset, FS_CardinalityType, UnitsType
<1>1. ASSUME B # {} PROVE FALSE
  <2>1. PICK t \in B : \A u \in B : u \subseteq t => u = t
    <3>1. B \in SUBSET SUBSET S
      OBVIOUS
    <3> HIDE DEF B
    <3> QED BY <1>1, <3>1, MinimalSet
  <2>2. t # {}
    BY UnitsEmpty, FS_EmptySet
  <2>3. PICK y \in t : TRUE
    BY <2>2
  <2>4. Units(t \ {y}) <= Cardinality(t \ {y}) * m
    BY <2>1, <2>3
  <2>5. Units(t) = Quantity(y) + Units(t \ {y}) /\ Quantity(y) \in Nat /\ Quantity(y) <= m
    BY <1>0, <2>3, UnitsRemove, QuantityType
  <2>6. Cardinality(t \ {y}) = Cardinality(t) - 1
    BY <1>0, <2>3, FS_RemoveElement
  <2>7. Units(t \ {y}) \in Nat /\ Cardinality(t) \in Nat
    BY <1>0
  <2>8. (Cardinality(t) - 1) * m + m = Cardinality(t) * m
    BY <2>7
  <2>9. Units(t) <= Cardinality(t) * m
    BY <2>4, <2>5, <2>6, <2>7, <2>8
  <2> QED BY <2>1, <2>9
<1> QED BY <1>1

-----------------------------------------------------------------------------
(* The rows the code writes are rows.                                      *)
LEMMA Rows ==
  /\ Absent \in Row /\ Pending \in Row /\ Outcome \subseteq Row
  /\ \A row \in Outcome : Decided(row)
  /\ \A r \in RejectionReasonCode : Rejected(r) \in Outcome /\ Rejected(r) # Confirmed
  /\ \A row, seen, entity \in Row : Saved(row, seen, entity) \in Row
BY DEF Absent, Pending, Outcome, Confirmed, Rejected, Row, OrderStatus,
       RejectionReasonCode, Decided, Saved
=============================================================================
