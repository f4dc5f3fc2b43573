------------------------------ MODULE SetLemmas -----------------------------
(***************************************************************************)
(* Facts about finite sets of numbers that the proofs share.               *)
(***************************************************************************)
EXTENDS FiniteSets, Integers, FiniteSetTheorems, TLAPS

(* The least-number principle, from the well-foundedness of <.             *)
Less == {ss \in Nat \X Nat : ss[1] < ss[2]}

(* The relation Less is the order of the natural numbers.                  *)
LEMMA LessIsLess == \A i, j \in Nat : <<i, j>> \in Less <=> i < j
  BY DEF Less

(* A set of natural numbers that is not empty has a least element.         *)
LEMMA MinExists ==
  ASSUME NEW S \in SUBSET Nat, S # {}
  PROVE  \E n \in S : \A m \in S : n <= m
<1>1. IsWellFoundedOn(Less, Nat)
  BY NatLessThanWellFounded DEF OpToRel, Less
<1>2. S \subseteq Nat
  OBVIOUS
<1>3. PICK n \in S : \A m \in S : ~ (<<m, n>> \in Less)
  BY <1>1, <1>2, WFMin, Zenon
<1>4. \A m \in S : ~ (m < n)
  BY <1>2, <1>3, LessIsLess, Zenon
<1>5. \A m \in S : n <= m
  BY <1>2, <1>4
<1> QED BY <1>5

(* How many members of F are no larger than f.                             *)
Rank(F, f) == Cardinality({g \in F : g <= f})

(* The members of a finite set of numbers have the ranks 1, 2, ..., each   *)
(* of them one: there are as many ranks as members, and no two members     *)
(* have the same.                                                          *)
LEMMA RanksAreDistinct ==
  ASSUME NEW F \in SUBSET Nat, IsFiniteSet(F), NEW f \in F, NEW g \in F
  PROVE  /\ Rank(F, f) \in 1 .. Cardinality(F)
         /\ f < g => Rank(F, f) < Rank(F, g)
<1> DEFINE B(x) == {h \in F : h <= x}
<1>1. \A x \in F : IsFiniteSet(B(x)) /\ Cardinality(B(x)) \in Nat
                   /\ Cardinality(B(x)) <= Cardinality(F)
  <2> SUFFICES ASSUME NEW x \in F
               PROVE  IsFiniteSet(B(x)) /\ Cardinality(B(x)) \in Nat
                      /\ Cardinality(B(x)) <= Cardinality(F)
    OBVIOUS
  <2>1. B(x) \in SUBSET F
    OBVIOUS
  <2> HIDE DEF B
  <2> QED BY <2>1, FS_Subset, FS_CardinalityType
<1>2. Cardinality(B(f)) # 0
  <2>1. f \in B(f)
    OBVIOUS
  <2> HIDE DEF B
  <2> QED BY <1>1, <2>1, FS_EmptySet
<1>3. Cardinality(F) \in Nat
  BY FS_CardinalityType
<1>4. f < g => Cardinality(B(f)) < Cardinality(B(g))
  <2> SUFFICES ASSUME f < g PROVE Cardinality(B(f)) < Cardinality(B(g))
    OBVIOUS
  <2>1. B(f) \in SUBSET B(g) /\ g \in B(g) /\ g \notin B(f)
    <3>1. F \subseteq Nat /\ f \in Nat /\ g \in Nat
      OBVIOUS
    <3>2. \A h \in F : h <= f => h <= g
      BY <3>1
    <3>3. g <= g /\ ~ (g <= f)
      BY <3>1
    <3> QED BY <3>2, <3>3
  <2> HIDE DEF B
  <2>2. Cardinality(B(f)) <= Cardinality(B(g)) /\ Cardinality(B(f)) # Cardinality(B(g))
    BY <1>1, <2>1, FS_Subset
  <2> QED BY <1>1, <2>2
<1>5. Rank(F, f) = Cardinality(B(f)) /\ Rank(F, g) = Cardinality(B(g))
  BY DEF Rank
<1> HIDE DEF B
<1> QED BY <1>1, <1>2, <1>3, <1>4, <1>5

(* Every place up to the number of elements is the rank of one.            *)
LEMMA RankOnto ==
  ASSUME NEW F \in SUBSET Nat, IsFiniteSet(F), NEW i \in 1 .. Cardinality(F)
  PROVE  \E f \in F : Rank(F, f) = i
<1> DEFINE n == Cardinality(F)
           rank == [f \in F |-> Rank(F, f)]
<1>1. n \in Nat
  BY FS_CardinalityType
<1>2. rank \in [F -> 1 .. n]
  BY RanksAreDistinct
<1>3. \A f, g \in F : rank[f] = rank[g] => f = g
  <2> SUFFICES ASSUME NEW f \in F, NEW g \in F, rank[f] = rank[g] PROVE f = g
    OBVIOUS
  <2>1. Rank(F, f) \in Nat /\ Rank(F, g) \in Nat /\ Rank(F, f) = Rank(F, g)
    BY <1>1, RanksAreDistinct
  <2>2. ~ (f < g) /\ ~ (g < f)
    BY <2>1, RanksAreDistinct
  <2> QED BY <2>2
<1>4. rank \in Injection(F, 1 .. n)
  <2>1. DOMAIN rank = F
    OBVIOUS
  <2> HIDE DEF rank, n
  <2>2. IsInjective(rank)
    BY <1>3, <2>1 DEF IsInjective
  <2> QED BY <1>2, <2>2 DEF Injection
<1>5. IsFiniteSet(1 .. n) /\ Cardinality(1 .. n) = n
  <2>1. 1 \in Int /\ n \in Int
    BY <1>1
  <2>2. /\ IsFiniteSet(1 .. n)
        /\ Cardinality(1 .. n) = IF 1 > n THEN 0 ELSE n - 1 + 1
    <3> HIDE DEF n
    <3> QED BY <2>1, FS_Interval
  <2> QED BY <1>1, <2>2
<1>6. rank \in Surjection(F, 1 .. n)
  <2> HIDE DEF rank
  <2> QED BY <1>4, <1>5, FS_Injection
<1>7. PICK f \in F : rank[f] = i
  BY <1>6 DEF Surjection
<1> QED BY <1>7

=============================================================================
