--------------------------- MODULE BlockTreeProofs ---------------------------
(***************************************************************************)
(* The tree of blocks.  Descent to a least block, or a least number, stands *)
(* in for induction along a chain.                                         *)
(***************************************************************************)
EXTENDS BlockTree, FiniteSetTheorems, WellFoundedInduction, TLAPS

\* A set of subsets of a finite set has a minimal element.
LEMMA LeastSubset ==
  ASSUME NEW S, IsFiniteSet(S), NEW T \in SUBSET (SUBSET S), T # {}
  PROVE  \E x \in T : \A y \in T : y \subseteq x => y = x
<1> DEFINE R == StrictSubsetOrdering(S)
           F == FiniteSubsetsOf(S)
<1>1. IsWellFoundedOn(R, F) /\ F = SUBSET S
  BY FS_StrictSubsetOrderingWellFounded, FS_FiniteSubsetsOfFinite
<1>2. \A x, y \in SUBSET S : y \subseteq x /\ y # x => <<y, x>> \in R
  BY DEF StrictSubsetOrdering
<1> HIDE DEF R, F
<1>3. PICK x \in T : \A y \in T : ~ (<<y, x>> \in R)
  BY <1>1, WFMin
<1> QED
  BY <1>2, <1>3

\* A block has a parent with a smaller path.
LEMMA PathParent ==
  ASSUME NEW b \in Block \ {Genesis}
  PROVE  /\ parent[b] \in Block /\ b \notin path[parent[b]]
         /\ path[b] = path[parent[b]] \cup {b} /\ path[b] \subseteq Block
  BY TreeAssumption

\* Among the blocks of V a walk from b towards the genesis block meets a last one.
LEMMA LeastBlock ==
  ASSUME NEW V \in SUBSET Block, NEW b \in V
  PROVE  \E x \in V : path[x] \subseteq path[b] /\ (x # Genesis => parent[x] \notin V)
<1> DEFINE W == {y \in V : path[y] \subseteq path[b]}
           T == {path[y] : y \in W}
<1>1. IsFiniteSet(path[b]) /\ T \in SUBSET (SUBSET path[b]) /\ T # {}
  BY TreeAssumption
<1>2. \E s \in T : \A y \in T : y \subseteq s => y = s
  <2> HIDE DEF T
  <2> QED
    BY <1>1, LeastSubset
<1>3. PICK x \in W : \A y \in W : path[y] \subseteq path[x] => path[y] = path[x]
  BY <1>2
<1>4. ASSUME x # Genesis, parent[x] \in V PROVE FALSE
  <2>1. x \in Block \ {Genesis}
    BY <1>4
  <2>2. path[parent[x]] \subseteq path[x] /\ path[parent[x]] # path[x]
    BY <2>1, PathParent
  <2> QED
    BY <1>3, <1>4, <2>2
<1> QED
  BY <1>3, <1>4

\* Every chain contains its last block and starts with the genesis block.
LEMMA PathEnds ==
  ASSUME NEW b \in Block
  PROVE  b \in path[b] /\ Genesis \in path[b] /\ path[b] \subseteq Block
<1>1. \A x \in Block : x \in path[x] /\ path[x] \subseteq Block
  BY TreeAssumption
<1>2. Genesis \in path[b]
  <2> DEFINE V == {x \in Block : Genesis \notin path[x]}
  <2> SUFFICES ASSUME b \in V PROVE FALSE
    OBVIOUS
  <2>1. \E x \in V : path[x] \subseteq path[b] /\ (x # Genesis => parent[x] \notin V)
    <3> HIDE DEF V
    <3>1. V \in SUBSET Block
      BY DEF V
    <3> QED
      BY <3>1, LeastBlock
  <2>2. PICK x \in V : x # Genesis => parent[x] \notin V
    BY <2>1
  <2>3. x \in Block \ {Genesis}
    BY TreeAssumption, <2>2
  <2> QED
    BY <2>2, <2>3, PathParent
<1> QED
  BY <1>1, <1>2

\* The chain of an ancestor is part of the chain.
LEMMA PathTrans ==
  ASSUME NEW b \in Block, NEW a \in path[b]
  PROVE  a \in Block /\ path[a] \subseteq path[b]
<1>1. a \in Block
  BY TreeAssumption
<1>2. path[a] \subseteq path[b]
  <2> DEFINE V == {x \in Block : a \in path[x] /\ ~(path[a] \subseteq path[x])}
  <2> SUFFICES ASSUME b \in V PROVE FALSE
    OBVIOUS
  <2>1. \E x \in V : path[x] \subseteq path[b] /\ (x # Genesis => parent[x] \notin V)
    <3>1. V \in SUBSET Block
      OBVIOUS
    <3> HIDE DEF V
    <3> QED
      BY <3>1, LeastBlock
  <2>2. PICK x \in V : x # Genesis => parent[x] \notin V
    BY <2>1
  <2>3. x \in Block \ {Genesis}
    BY TreeAssumption, <2>2
  <2>4. a # x
    BY <2>2
  <2> QED
    BY <2>2, <2>3, <2>4, PathParent
<1> QED
  BY <1>1, <1>2

\* Two blocks of a chain are one the ancestor of the other.
LEMMA PathLinear ==
  ASSUME NEW b \in Block, NEW a \in path[b], NEW c \in path[b]
  PROVE  a \in path[c] \/ c \in path[a]
<1> DEFINE V == {x \in Block : a \in path[x] /\ c \in path[x]}
<1>1. \E x \in V : path[x] \subseteq path[b] /\ (x # Genesis => parent[x] \notin V)
  <2>1. V \in SUBSET Block /\ b \in V
    OBVIOUS
  <2> HIDE DEF V
  <2> QED
    BY <2>1, LeastBlock
<1>2. PICK x \in V : x # Genesis => parent[x] \notin V
  BY <1>1
<1>3. CASE x = Genesis
  BY <1>2, <1>3, TreeAssumption
<1>4. CASE x # Genesis
  <2>1. a = x \/ c = x
    BY <1>2, <1>4, PathParent
  <2> QED
    BY <1>2, <2>1
<1> QED
  BY <1>3, <1>4

\* From an ancestor a chain goes on towards its last block.
LEMMA PathChild ==
  ASSUME NEW b \in Block, NEW a \in path[b], a # b
  PROVE  \E c \in path[b] \ {Genesis} : parent[c] = a
<1> DEFINE V == {x \in Block : x \in path[b] /\ a \in path[x] /\ a # x}
<1>1. \E x \in V : path[x] \subseteq path[b] /\ (x # Genesis => parent[x] \notin V)
  <2>1. V \in SUBSET Block /\ b \in V
    BY PathEnds
  <2> HIDE DEF V
  <2> QED
    BY <2>1, LeastBlock
<1>2. PICK x \in V : path[x] \subseteq path[b] /\ (x # Genesis => parent[x] \notin V)
  BY <1>1
<1>3. x \in Block \ {Genesis}
  BY <1>2, TreeAssumption
<1>4. a \in path[parent[x]] /\ parent[x] \in Block
  BY <1>2, <1>3, PathParent
<1>5. parent[x] \in path[b]
  BY <1>2, <1>3, <1>4, PathParent, PathEnds
<1>6. a = parent[x]
  BY <1>2, <1>3, <1>4, <1>5
<1> QED
  BY <1>2, <1>3, <1>6

-----------------------------------------------------------------------------
(* Numbers and heights.                                                    *)

\* A set of natural numbers has a least element.
LEMMA LeastNumber ==
  ASSUME NEW S \in SUBSET Nat, S # {}
  PROVE  \E m \in S : \A n \in S : m <= n
<1>1. PICK k \in S : k \in Nat
  OBVIOUS
<1> DEFINE I == 0 .. k
           L == {n \in S : n <= k}
           T == {0 .. n : n \in L}
<1>2. IsFiniteSet(I) /\ T \in SUBSET (SUBSET I) /\ T # {}
  <2>1. IsFiniteSet(0 .. k) /\ k \in L
    BY <1>1, FS_Interval
  <2>2. ASSUME NEW n \in L PROVE (0 .. n) \subseteq (0 .. k)
    <3>1. n \in Nat /\ n <= k
      OBVIOUS
    <3> QED
      BY <1>1, <3>1
  <2> HIDE DEF L
  <2> QED
    BY <2>1, <2>2
<1>3. \E s \in T : \A y \in T : y \subseteq s => y = s
  <2> HIDE DEF I, T
  <2> QED
    BY <1>2, LeastSubset
<1>4. PICK m \in L : \A n \in L : (0 .. n) \subseteq (0 .. m) => 0 .. n = 0 .. m
  <2>1. PICK s \in T : \A y \in T : y \subseteq s => y = s
    BY <1>3
  <2> HIDE DEF L
  <2>2. PICK m \in L : s = 0 .. m
    BY <2>1
  <2>3. \A n \in L : 0 .. n \in T
    OBVIOUS
  <2> HIDE DEF T
  <2> QED
    BY <2>1, <2>2, <2>3
<1>5. ASSUME NEW n \in S, n < m PROVE FALSE
  <2>1. n \in L /\ m \in Nat /\ n \in Nat
    BY <1>1, <1>5
  <2>2. (0 .. n) \subseteq (0 .. m) /\ m \in 0 .. m /\ m \notin 0 .. n
    BY <1>5, <2>1
  <2> QED
    BY <1>4, <2>1, <2>2
<1> QED
  BY <1>1, <1>4, <1>5

\* A bounded set of natural numbers has a greatest element.
LEMMA GreatestNumber ==
  ASSUME NEW N \in Nat, NEW S \in SUBSET (0 .. N), S # {}
  PROVE  \E m \in S : \A n \in S : n <= m
<1> DEFINE T == {N - n : n \in S}
<1>1. T \in SUBSET Nat /\ T # {}
  <2>1. \A n \in S : N - n \in Nat
    OBVIOUS
  <2> QED
    BY <2>1
<1>2. PICK k \in T : \A n \in T : k <= n
  <2> HIDE DEF T
  <2> QED
    BY <1>1, LeastNumber
<1>3. PICK m \in S : k = N - m
  BY <1>2
<1>4. ASSUME NEW n \in S PROVE n <= m
  <2>1. k <= N - n
    BY <1>2
  <2> QED
    BY <1>3, <2>1
<1> QED
  BY <1>4

LEMMA HeightType ==
  ASSUME NEW b \in Block
  PROVE  Height(b) \in Nat
<1>1. IsFiniteSet(path[b]) /\ b \in path[b]
  BY PathEnds, TreeAssumption
<1>2. Cardinality(path[b]) \in Nat /\ Cardinality(path[b]) # 0
  BY <1>1, FS_CardinalityType, FS_EmptySet
<1> QED
  BY <1>2 DEF Height

\* A block is one higher than its parent.
LEMMA HeightParent ==
  /\ Height(Genesis) = 0
  /\ \A b \in Block \ {Genesis} : Height(b) = Height(parent[b]) + 1
<1>1. Height(Genesis) = 0
  BY TreeAssumption, FS_Singleton DEF Height
<1>2. ASSUME NEW b \in Block \ {Genesis} PROVE Height(b) = Height(parent[b]) + 1
  <2>1. /\ parent[b] \in Block /\ b \notin path[parent[b]] /\ path[b] = path[parent[b]] \cup {b}
        /\ IsFiniteSet(path[parent[b]])
    BY TreeAssumption
  <2>2. Cardinality(path[b]) = Cardinality(path[parent[b]]) + 1
    BY <2>1, FS_AddElement
  <2>3. Cardinality(path[parent[b]]) \in Nat
    BY <2>1, FS_CardinalityType
  <2> QED
    BY <2>2, <2>3 DEF Height
<1> QED
  BY <1>1, <1>2

\* A chain has a block at every height up to that of its last block.
LEMMA HeightsFilled ==
  ASSUME NEW b \in Block, NEW h \in 0 .. Height(b)
  PROVE  \E a \in path[b] : Height(a) = h
<1> DEFINE V == {x \in Block : h <= Height(x) /\ \A a \in path[x] : Height(a) # h}
<1> SUFFICES ASSUME b \in V PROVE FALSE
  OBVIOUS
<1>1. \E x \in V : path[x] \subseteq path[b] /\ (x # Genesis => parent[x] \notin V)
  <2>1. V \in SUBSET Block
    OBVIOUS
  <2> HIDE DEF V
  <2> QED
    BY <2>1, LeastBlock
<1>2. PICK x \in V : x # Genesis => parent[x] \notin V
  BY <1>1
<1>3. x \in path[x] /\ Height(x) \in Nat /\ h \in Nat
  BY PathEnds, HeightType
<1>4. x # Genesis
  BY <1>2, <1>3, HeightParent
<1>5. parent[x] \in Block /\ path[parent[x]] \subseteq path[x] /\ Height(x) = Height(parent[x]) + 1
  BY <1>4, PathParent, HeightParent
<1>6. Height(parent[x]) \in Nat
  BY <1>5, HeightType
<1> QED
  BY <1>2, <1>3, <1>4, <1>5, <1>6

\* Two chains have a last block in common.
LEMMA LastCommon ==
  ASSUME NEW b \in Block, NEW c \in Block
  PROVE  \E x \in path[b] \cap path[c] : \A a \in path[b] \cap path[c] : Height(a) <= Height(x)
<1> DEFINE C == path[b] \cap path[c]
           S == {Height(a) : a \in C}
<1>1. Genesis \in C /\ C \subseteq Block
  BY PathEnds
<1>2. ASSUME NEW a \in C PROVE Height(a) \in 0 .. Height(b)
  <2>1. a \in Block /\ path[a] \subseteq path[b] /\ IsFiniteSet(path[b])
    BY PathTrans, TreeAssumption
  <2>2. Cardinality(path[a]) <= Cardinality(path[b])
    BY <2>1, FS_Subset
  <2> QED
    BY <2>1, <2>2, HeightType, TreeAssumption, FS_CardinalityType DEF Height
<1>3. S \in SUBSET (0 .. Height(b)) /\ S # {} /\ Height(b) \in Nat
  BY <1>1, <1>2, HeightType
<1>4. PICK m \in S : \A n \in S : n <= m
  <2> HIDE DEF S
  <2> QED
    BY <1>3, GreatestNumber
<1> QED
  BY <1>4
=============================================================================
