---------------------------- MODULE TxPoolProofs ----------------------------
(***************************************************************************)
(* Proofs about TxPool, for any transactions, key images and limits.       *)
(*                                                                         *)
(* First the operations of tx_memory_pool: what each does to the table,    *)
(* that it keeps the shape of the pool, that the containers in memory stay *)
(* in step with the table, and where the walk of prune ends.  Then the     *)
(* machine that calls them.                                                *)
(***************************************************************************)
EXTENDS TxPool, FiniteSetTheorems, WellFoundedInduction, TLAPS

Shaped(p) == p \in PoolType(0..(WMod - 1))

\* m_txpool_weight is the weight of what is pending.
Weighed(p) == p.weight = TotalWeight(Pending(p)) % WMod

\* Both indexes and the weight are in step with the table.
Exact(p) == ImagesExact(p) /\ OrderExact(p) /\ Weighed(p)

-----------------------------------------------------------------------------
(* Arithmetic of size_t.                                                   *)

\* A remainder is its own remainder.
LEMMA DivUnique ==
  ASSUME NEW M \in Nat \ {0}, NEW q \in Int, NEW r \in 0 .. M - 1
  PROVE  (M * q + r) % M = r
  OBVIOUS

\* Every number is a multiple of M and its remainder.
LEMMA DivExists ==
  ASSUME NEW M \in Nat \ {0}, NEW a \in Int
  PROVE  \E q \in Int : a = M * q + (a % M) /\ a % M \in 0 .. M - 1
<1>1. a \div M \in Int /\ a % M \in 0 .. M - 1 
  OBVIOUS
<1>2. a = M * (a \div M) + (a % M)
  OBVIOUS
<1> QED BY <1>1, <1>2

\* An adjustment of a counter modulo M is an adjustment of the number it counts.
LEMMA ModShift ==
  ASSUME NEW M \in Nat \ {0}, NEW a \in Int, NEW b \in Int
  PROVE  ((a % M) + b) % M = (a + b) % M
<1>1. PICK q \in Int : a = M * q + (a % M) /\ a % M \in 0 .. M - 1
  BY DivExists
<1>2. PICK r \in 0 .. M - 1 : r = a % M
  BY <1>1
<1>3. r + b \in Int
  OBVIOUS
<1>4. PICK p \in Int : r + b = M * p + ((r + b) % M) /\ (r + b) % M \in 0 .. M - 1
  BY <1>3, DivExists
<1>5. PICK s \in 0 .. M - 1 : s = (r + b) % M
  BY <1>4
<1>6. a = M * q + r /\ r + b = M * p + s /\ r \in Int
  BY <1>1, <1>2, <1>4, <1>5
<1>7. (a + b) % M = s
  <2>1. a + b = M * (q + p) + s
    BY <1>6
  <2>2. q + p \in Int
    OBVIOUS
  <2>3. (M * (q + p) + s) % M = s
    BY <2>2, DivUnique
  <2> QED BY <2>1, <2>3
<1> QED BY <1>2, <1>5, <1>7

\* m_txpool_weight stays within size_t.
LEMMA WeightRange ==
  ASSUME NEW a \in Int
  PROVE  a % WMod \in 0..(WMod - 1)
  BY WeightAssumption

-----------------------------------------------------------------------------
(* The weight of a set of transactions.                                    *)

\* A transaction's blob is finite, and so are the blobs of any transactions.
LEMMA BytesFinite ==
  ASSUME NEW S \in SUBSET TxId
  PROVE  IsFiniteSet(Bytes(S))
<1> DEFINE Blob(t) == {t} \X (1 .. weight[t])
           f == [t \in S |-> Blob(t)]
           T == {Blob(t) : t \in S}
<1>1. IsFiniteSet(S)
  BY HashAssumption, FS_Subset
<1>2. f \in Surjection(S, T)
  BY DEF Surjection
<1>3. IsFiniteSet(T)
  <2> HIDE DEF f, T
  <2> QED BY <1>1, <1>2, FS_Surjection
<1>4. ASSUME NEW t \in S
      PROVE  IsFiniteSet(Blob(t))
  <2>1. IsFiniteSet({t})
    BY FS_Singleton
  <2>2. weight[t] \in Int
    BY WeightAssumption
  <2>3. IsFiniteSet(1 .. weight[t])
    BY <2>2, FS_Interval
  <2> QED BY <2>1, <2>3, FS_Product
<1>5. \A B \in T : IsFiniteSet(B)
  BY <1>4
<1>6. Bytes(S) = UNION T
  BY DEF Bytes
<1> HIDE DEF T
<1> QED BY <1>3, <1>5, <1>6, FS_UNION

\* A total weight is a natural number.
LEMMA TotalWeightType ==
  ASSUME NEW S \in SUBSET TxId
  PROVE  TotalWeight(S) \in Nat
  BY BytesFinite, FS_CardinalityType DEF TotalWeight

\* Which bytes belong to the blobs of S.
LEMMA InBytes ==
  ASSUME NEW S \in SUBSET TxId, NEW x
  PROVE  x \in Bytes(S) <=> \E t \in S : \E i \in 1 .. weight[t] : x = <<t, i>>
  BY DEF Bytes

\* The weights of disjoint sets of transactions add up.
LEMMA TotalWeightUnion ==
  ASSUME NEW S \in SUBSET TxId, NEW R \in SUBSET TxId, S \cap R = {}
  PROVE  TotalWeight(S \cup R) = TotalWeight(S) + TotalWeight(R)
<1>1. IsFiniteSet(Bytes(S)) /\ IsFiniteSet(Bytes(R))
  BY BytesFinite
<1>2. Bytes(S \cup R) = Bytes(S) \cup Bytes(R)
  BY DEF Bytes
<1>3. Bytes(S) \cap Bytes(R) = {}
  <2> SUFFICES ASSUME NEW x \in Bytes(S), x \in Bytes(R)
               PROVE  FALSE
    OBVIOUS
  <2>1. PICK t \in S : \E i \in 1 .. weight[t] : x = <<t, i>>
    BY InBytes
  <2>2. PICK u \in R : \E i \in 1 .. weight[u] : x = <<u, i>>
    BY InBytes
  <2> QED BY <2>1, <2>2
<1>4. Cardinality(Bytes(S)) \in Nat /\ Cardinality(Bytes(R)) \in Nat
  BY <1>1, FS_CardinalityType
<1>5. Cardinality(Bytes(S) \cup Bytes(R))
        = Cardinality(Bytes(S)) + Cardinality(Bytes(R)) - Cardinality(Bytes(S) \cap Bytes(R))
  BY <1>1, FS_Union
<1>6. Cardinality(Bytes(S) \cap Bytes(R)) = 0
  BY <1>3, FS_EmptySet
<1> QED BY <1>2, <1>4, <1>5, <1>6 DEF TotalWeight

\* What is left when R is removed from S.
LEMMA TotalWeightMinus ==
  ASSUME NEW S \in SUBSET TxId, NEW R \in SUBSET S
  PROVE  TotalWeight(S \ R) = TotalWeight(S) - TotalWeight(R)
<1>1. (S \ R) \cup R = S /\ (S \ R) \cap R = {}
  OBVIOUS
<1>2. S \ R \in SUBSET TxId /\ R \in SUBSET TxId
  OBVIOUS
<1>3. TotalWeight((S \ R) \cup R) = TotalWeight(S \ R) + TotalWeight(R)
  BY <1>1, <1>2, TotalWeightUnion
<1>4. TotalWeight(S \ R) \in Nat /\ TotalWeight(R) \in Nat /\ TotalWeight(S) \in Nat
  BY <1>2, TotalWeightType
<1>5. TotalWeight(S) = TotalWeight(S \ R) + TotalWeight(R)
  BY <1>1, <1>3
<1> QED BY <1>4, <1>5

\* The weight of one transaction.
LEMMA TotalWeightOne ==
  ASSUME NEW t \in TxId
  PROVE  TotalWeight({t}) = weight[t]
<1>1. Bytes({t}) = {t} \X (1 .. weight[t])
  BY DEF Bytes
<1>2. weight[t] \in Nat
  BY WeightAssumption
<1>3. IsFiniteSet(1 .. weight[t]) /\ Cardinality(1 .. weight[t]) = weight[t]
  BY <1>2, FS_Interval
<1>4. IsFiniteSet({t}) /\ Cardinality({t}) = 1
  BY FS_Singleton
<1>5. Cardinality({t} \X (1 .. weight[t])) = Cardinality({t}) * Cardinality(1 .. weight[t])
  BY <1>3, <1>4, FS_Product
<1>6. Cardinality({t}) * Cardinality(1 .. weight[t]) = weight[t]
  BY <1>2, <1>3, <1>4
<1> QED BY <1>1, <1>5, <1>6 DEF TotalWeight

\* Of some subsets of a finite set, one includes no other.
LEMMA LeastSubset ==
  ASSUME NEW S, IsFiniteSet(S), NEW T \in SUBSET (SUBSET S), T # {}
  PROVE  \E x \in T : \A y \in T : y \subseteq x => y = x
<1> DEFINE R == StrictSubsetOrdering(S)
           F == FiniteSubsetsOf(S)
<1>1. IsWellFoundedOn(R, F)
  BY FS_StrictSubsetOrderingWellFounded
<1>2. F = SUBSET S
  BY FS_FiniteSubsetsOfFinite
<1>3. \A x, y \in SUBSET S : y \subseteq x /\ y # x => <<y, x>> \in R
  BY DEF StrictSubsetOrdering
<1> HIDE DEF R, F
<1>4. PICK x \in T : \A y \in T : ~ (<<y, x>> \in R)
  BY <1>1, <1>2, WFMin
<1> QED BY <1>3, <1>4

-----------------------------------------------------------------------------
(* How far prune goes.                                                     *)

Cheaper(P, t) == {u \in P : rate[u] < rate[t]}

Dearer(P, t) == {u \in P : rate[u] > rate[t]}

\* What is left of P when the walk reaches t and N may be evicted.
Left(P, N, t) == P \ (Cheaper(P, t) \cap N)

Reached(P, N, t) ==
  /\ Dearer(P, t) # {}
  /\ \A u \in Cheaper(P, t) \cup {t} : TotalWeight(Left(P, N, u)) > MaxWeight

\* More transactions weigh no less.
LEMMA TotalWeightMonotone ==
  ASSUME NEW R \in SUBSET TxId, NEW S \in SUBSET R
  PROVE  TotalWeight(S) <= TotalWeight(R)
<1>1. TotalWeight(R \ S) = TotalWeight(R) - TotalWeight(S)
  BY TotalWeightMinus
<1>2. TotalWeight(R) \in Nat /\ TotalWeight(S) \in Nat /\ TotalWeight(R \ S) \in Nat
  BY TotalWeightType
<1> QED BY <1>1, <1>2

\* Among some transactions there is one that none of them pays more than.
LEMMA BestPaying ==
  ASSUME NEW P \in SUBSET TxId, P # {}
  PROVE  \E t \in P : \A u \in P \ {t} : rate[u] < rate[t]
<1> DEFINE T == {Dearer(P, t) : t \in P}
<1>1. IsFiniteSet(P)
  BY HashAssumption, FS_Subset
<1>2. T \in SUBSET (SUBSET P) /\ T # {}
  <2>1. \A t \in P : Dearer(P, t) \in SUBSET P
    BY DEF Dearer
  <2>2. PICK t \in P : TRUE
    OBVIOUS
  <2>3. Dearer(P, t) \in T
    BY <2>2
  <2> QED BY <2>1, <2>3
<1>3. PICK x \in T : \A y \in T : y \subseteq x => y = x
  <2> HIDE DEF T
  <2> QED BY <1>1, <1>2, LeastSubset
<1>4. PICK t \in P : x = Dearer(P, t)
  BY <1>3
<1>5. \A u \in P : rate[u] \in Nat
  BY WeightAssumption
<1>6. ASSUME NEW u \in Dearer(P, t)
      PROVE  FALSE
  <2>1. u \in P /\ rate[u] > rate[t]
    BY <1>6 DEF Dearer
  <2>2. Dearer(P, u) \in T
    BY <2>1
  <2>3. Dearer(P, u) \subseteq Dearer(P, t)
    BY <1>5, <1>4, <2>1 DEF Dearer
  <2>4. u \notin Dearer(P, u)
    BY <1>5, <2>1 DEF Dearer
  <2> QED BY <1>3, <1>4, <1>6, <2>2, <2>3, <2>4
<1>7. ASSUME NEW u \in P \ {t}
      PROVE  rate[u] < rate[t]
  <2>1. ~(rate[u] > rate[t])
    BY <1>6, <1>7 DEF Dearer
  <2>2. rate[u] # rate[t]
    BY <1>7, RateAssumption
  <2> QED BY <1>5, <2>1, <2>2
<1> QED BY <1>7

\* Of some transactions, F, there is one below which, by fee, there is none of F.
LEMMA WorstPaying ==
  ASSUME NEW P \in SUBSET TxId, NEW F \in SUBSET P, F # {}
  PROVE  \E t \in F : Cheaper(P, t) \cap F = {}
<1> DEFINE T == {Cheaper(P, t) : t \in F}
<1>1. IsFiniteSet(P)
  BY HashAssumption, FS_Subset
<1>2. T \in SUBSET (SUBSET P) /\ T # {}
  <2>1. \A t \in F : Cheaper(P, t) \in SUBSET P
    BY DEF Cheaper
  <2>2. PICK t \in F : TRUE
    OBVIOUS
  <2>3. Cheaper(P, t) \in T
    BY <2>2
  <2> QED BY <2>1, <2>3
<1>3. PICK x \in T : \A y \in T : y \subseteq x => y = x
  <2> HIDE DEF T
  <2> QED BY <1>1, <1>2, LeastSubset
<1>4. PICK t \in F : x = Cheaper(P, t)
  BY <1>3
<1>5. \A u \in P : rate[u] \in Nat
  BY WeightAssumption
<1>6. ASSUME NEW u \in Cheaper(P, t) \cap F
      PROVE  FALSE
  <2>1. u \in P /\ rate[u] < rate[t]
    BY <1>6 DEF Cheaper
  <2>2. Cheaper(P, u) \in T
    BY <1>6
  <2>3. Cheaper(P, u) \subseteq Cheaper(P, t)
    BY <1>5, <1>4, <2>1 DEF Cheaper
  <2>4. u \notin Cheaper(P, u)
    BY <1>5, <2>1 DEF Cheaper
  <2> QED BY <1>3, <1>4, <1>6, <2>2, <2>3, <2>4
<1> QED BY <1>6

\* The walk of prune, on the transactions P of which N may be evicted, ends within
\* the limit or with the best paying transaction and some that may not be evicted.
LEMMA WalkBounds ==
  ASSUME NEW P \in SUBSET TxId, NEW N \in SUBSET P
  PROVE  LET R == P \ {t \in N : Reached(P, N, t)}
         IN  \/ TotalWeight(R) <= MaxWeight
             \/ \E t \in R : \A u \in R \ {t} : u \notin N /\ rate[u] < rate[t]
<1> DEFINE Gone == {t \in N : Reached(P, N, t)}
           R == P \ Gone
<1> SUFFICES ASSUME ~(TotalWeight(R) <= MaxWeight)
             PROVE  \E t \in R : \A u \in R \ {t} : u \notin N /\ rate[u] < rate[t]
  OBVIOUS
<1>1. /\ \A u \in P : rate[u] \in Nat /\ Left(P, N, u) \in SUBSET TxId
      /\ R \in SUBSET TxId /\ MaxWeight \in Nat
  BY WeightAssumption DEF Left
<1>2. \A S \in SUBSET TxId : TotalWeight(S) \in Nat
  BY TotalWeightType
<1>3. ASSUME NEW f \in P, TotalWeight(Left(P, N, f)) <= MaxWeight
      PROVE  FALSE
  <2> DEFINE F == {v \in P : TotalWeight(Left(P, N, v)) <= MaxWeight}
  <2>1. PICK h \in F : Cheaper(P, h) \cap F = {}
    <3>1. F \in SUBSET P /\ F # {}
      BY <1>3
    <3> HIDE DEF F
    <3> QED BY <3>1, WorstPaying
  <2>2. ASSUME NEW v \in Cheaper(P, h) \cap N
        PROVE  v \in Gone
    <3>1. v \in P /\ h \in P /\ rate[v] < rate[h]
      BY <2>2 DEF Cheaper
    <3>2. Cheaper(P, v) \cup {v} \subseteq Cheaper(P, h)
      BY <1>1, <2>2, <3>1 DEF Cheaper
    <3>3. \A u \in Cheaper(P, h) : TotalWeight(Left(P, N, u)) > MaxWeight
      <4>1. \A u \in Cheaper(P, h) : u \in P /\ ~(TotalWeight(Left(P, N, u)) <= MaxWeight)
        BY <2>1 DEF Cheaper
      <4> QED BY <1>1, <1>2, <4>1
    <3>4. h \in Dearer(P, v)
      BY <1>1, <3>1 DEF Dearer
    <3> QED BY <2>2, <3>2, <3>3, <3>4 DEF Reached
  <2>3. R \subseteq Left(P, N, h)
    BY <2>2 DEF Left
  <2>4. TotalWeight(R) <= TotalWeight(Left(P, N, h))
    BY <1>1, <2>3, TotalWeightMonotone
  <2>5. TotalWeight(Left(P, N, h)) <= MaxWeight /\ h \in P
    BY <2>1
  <2> HIDE DEF R
  <2> QED BY <1>1, <1>2, <2>4, <2>5
<1>4. P # {}
  <2>1. ASSUME P = {}
        PROVE  FALSE
    <3>1. R = {} /\ TotalWeight({} \ {}) = TotalWeight({}) - TotalWeight({})
      BY <2>1, TotalWeightMinus
    <3>2. TotalWeight({}) = 0
      <4>1. TotalWeight({}) \in Nat /\ {} \ {} = {}
        BY <1>2
      <4> QED BY <3>1, <4>1
    <3> QED BY <1>1, <3>1, <3>2
  <2> QED BY <2>1
<1>5. PICK t \in P : \A u \in P \ {t} : rate[u] < rate[t]
  BY <1>4, BestPaying
<1>6. t \in R
  <2>1. Dearer(P, t) = {}
    BY <1>1, <1>5 DEF Dearer
  <2> QED BY <2>1 DEF Reached
<1>7. ASSUME NEW u \in R \ {t}
      PROVE  u \notin N /\ rate[u] < rate[t]
  <2>1. u \in P /\ rate[u] < rate[t]
    BY <1>5, <1>7
  <2>2. ASSUME u \in N
        PROVE  FALSE
    <3>1. ~Reached(P, N, u)
      BY <1>7, <2>2
    <3>2. t \in Dearer(P, u)
      BY <1>1, <2>1 DEF Dearer
    <3>3. PICK v \in Cheaper(P, u) \cup {u} : ~(TotalWeight(Left(P, N, v)) > MaxWeight)
      BY <3>1, <3>2 DEF Reached
    <3>4. v \in P
      BY <2>1, <3>3 DEF Cheaper
    <3>5. TotalWeight(Left(P, N, v)) <= MaxWeight
      BY <1>1, <1>2, <3>3, <3>4
    <3> QED BY <1>3, <3>4, <3>5
  <2> QED BY <2>1, <2>2
<1> QED BY <1>6, <1>7

-----------------------------------------------------------------------------
(* The tables.                                                             *)

\* A function from some transactions to metadata is a table.
LEMMA TableIntro ==
  ASSUME NEW S \in SUBSET TxId, NEW f \in [S -> Meta]
  PROVE  f \in Tables /\ DOMAIN f = S
<1>1. [S -> Meta] \in {[R -> Meta] : R \in SUBSET TxId}
  OBVIOUS
<1> QED BY <1>1 DEF Tables

\* And every table is one.
LEMMA TableElim ==
  ASSUME NEW f \in Tables
  PROVE  DOMAIN f \in SUBSET TxId /\ f \in [DOMAIN f -> Meta]
<1>1. PICK S \in SUBSET TxId : f \in [S -> Meta]
  BY DEF Tables
<1> QED BY <1>1

\* add_txpool_tx leaves a table with one more record and the others as they were.
LEMMA PutMetaTable ==
  ASSUME NEW tab \in Tables, NEW t \in TxId, NEW m \in Meta
  PROVE  /\ PutMeta(tab, t, m) \in Tables
         /\ DOMAIN PutMeta(tab, t, m) = DOMAIN tab \cup {t}
         /\ PutMeta(tab, t, m)[t] = m
         /\ \A u \in DOMAIN tab \ {t} : PutMeta(tab, t, m)[u] = tab[u]
<1> DEFINE S == DOMAIN tab \cup {t}
<1>1. S \in SUBSET TxId /\ tab \in [DOMAIN tab -> Meta]
  BY TableElim
<1>2. PutMeta(tab, t, m) \in [S -> Meta]
  BY <1>1 DEF PutMeta
<1> QED BY <1>1, <1>2, TableIntro DEF PutMeta

\* remove_txpool_tx removes exactly what it is told to.
LEMMA DropMetaTable ==
  ASSUME NEW tab \in Tables, NEW S
  PROVE  /\ DropMeta(tab, S) \in Tables
         /\ DOMAIN DropMeta(tab, S) = DOMAIN tab \ S
         /\ \A u \in DOMAIN tab \ S : DropMeta(tab, S)[u] = tab[u]
<1> DEFINE R == DOMAIN tab \ S
<1>1. R \in SUBSET TxId /\ tab \in [DOMAIN tab -> Meta]
  BY TableElim
<1>2. DropMeta(tab, S) \in [R -> Meta]
  BY <1>1 DEF DropMeta
<1> QED BY <1>1, <1>2, TableIntro DEF DropMeta

\* Removing what is not there changes nothing.
LEMMA DropNothing ==
  ASSUME NEW tab \in Tables, NEW S, S \cap DOMAIN tab = {}
  PROVE  DropMeta(tab, S) = tab
  BY TableElim DEF DropMeta

-----------------------------------------------------------------------------
(* The operations keep the shape of the pool, and what they do to the set  *)
(* of pending transactions.                                                *)

\* remove_transaction_keyimages leaves a map from key images to transactions.
LEMMA RemoveImagesType ==
  ASSUME NEW spent \in [KeyImage -> SUBSET TxId], NEW S
  PROVE  RemoveImages(spent, S) \in [KeyImage -> SUBSET TxId]
  BY DEF RemoveImages

\* prune keeps the shape of the pool and only removes transactions.
LEMMA PruneShape ==
  ASSUME NEW p, Shaped(p), NEW nested \in BOOLEAN
  PROVE  /\ Shaped(Prune(p, nested))
         /\ Pending(Prune(p, nested)) \subseteq Pending(p)
<1> DEFINE Gone == {e[1] : e \in Evicted(p)}
           tab == IF Stuck(p) /\ ~nested THEN p.txpool ELSE DropMeta(p.txpool, Gone)
           ord == p.byFee \ Evicted(p)
           img == RemoveImages(p.spent, Gone)
           wgt == (p.weight - TotalWeight(Gone)) % WMod
           mov == p.moved \/ Gone # {}
<1>1. Prune(p, nested) = [p EXCEPT !.txpool = tab, !.byFee = ord, !.spent = img,
                                   !.weight = wgt, !.moved = mov]
  BY DEF Prune
<1>2. tab \in Tables /\ DOMAIN tab \subseteq DOMAIN p.txpool
  <2>1. p.txpool \in Tables
    BY DEF Shaped, PoolType
  <2> HIDE DEF Gone
  <2>2. /\ DropMeta(p.txpool, Gone) \in Tables
        /\ DOMAIN DropMeta(p.txpool, Gone) = DOMAIN p.txpool \ Gone
    BY <2>1, DropMetaTable
  <2> QED BY <2>1, <2>2
<1>3. img \in [KeyImage -> SUBSET TxId]
  BY RemoveImagesType DEF Shaped, PoolType
<1>4. ord \in SUBSET (TxId \X Ages) /\ mov \in BOOLEAN
  BY DEF Shaped, PoolType
<1>5. wgt \in 0..(WMod - 1)
  <2>1. Gone \in SUBSET TxId
    BY DEF Evicted, Shaped, PoolType
  <2> HIDE DEF Gone
  <2>2. TotalWeight(Gone) \in Nat /\ p.weight \in Int
    BY <2>1, TotalWeightType DEF Shaped, PoolType
  <2>3. p.weight - TotalWeight(Gone) \in Int
    BY <2>2
  <2> QED BY <2>3, WeightRange
<1> HIDE DEF tab, ord, img, wgt, mov
<1> QED BY <1>1, <1>2, <1>3, <1>4, <1>5 DEF Shaped, PoolType, Pending

\* The metadata add_tx writes is metadata.
LEMMA NewMetaType ==
  ASSUME NEW p, NEW t, NEW method \in Methods, NEW valid \in BOOLEAN
  PROVE  NewMeta(p, t, method, valid) \in Meta
  BY AgeAssumption DEF NewMeta, Meta, Ages, HaveTxKeyimgesAsSpent, HaveKeyImgAsSpent

\* The insertion in add_tx adds one transaction to the table and to both indexes.
LEMMA InsertedShape ==
  ASSUME NEW p, Shaped(p), NEW t \in TxId, NEW m \in Meta
  PROVE  LET q == Inserted(p, t, m)
         IN  /\ Shaped(q)
             /\ q.txpool = PutMeta(p.txpool, t, m)
             /\ q.byFee = p.byFee \cup {<<t, 0>>}
             /\ q.spent = AddImages(p.spent, t)
             /\ q.weight = (p.weight + weight[t]) % WMod
<1>1. PutMeta(p.txpool, t, m) \in Tables
  BY PutMetaTable DEF Shaped, PoolType
<1>2. AddImages(p.spent, t) \in [KeyImage -> SUBSET TxId]
  BY DEF AddImages, Shaped, PoolType
<1>3. p.byFee \cup {<<t, 0>>} \in SUBSET (TxId \X Ages)
  BY AgeAssumption DEF Shaped, PoolType, Ages
<1>4. (p.weight + weight[t]) % WMod \in 0..(WMod - 1)
  <2>1. p.weight + weight[t] \in Int
    BY WeightAssumption DEF Shaped, PoolType
  <2> QED BY <2>1, WeightRange
<1> QED BY <1>1, <1>2, <1>3, <1>4 DEF Inserted, Shaped, PoolType

\* mark_double_spend changes no more than the double_spend_seen marks.
LEMMA MarkShape ==
  ASSUME NEW p, Shaped(p), NEW t \in TxId
  PROVE  LET q == MarkDoubleSpend(p, t)
         IN  /\ Shaped(q)
             /\ Pending(q) = Pending(p)
             /\ \A u \in Pending(p) : q.txpool[u].age = p.txpool[u].age
             /\ q.byFee = p.byFee /\ q.spent = p.spent /\ q.weight = p.weight
<1> DEFINE Hit == {u \in Pending(p) : \E k \in images[t] : u \in p.spent[k]}
           tab == [u \in Pending(p) |->
                     IF u \in Hit THEN [p.txpool[u] EXCEPT !.dspend = TRUE] ELSE p.txpool[u]]
           mov == p.moved \/ \E u \in Hit : ~p.txpool[u].dspend
<1>1. MarkDoubleSpend(p, t) = [p EXCEPT !.txpool = tab, !.moved = mov]
  BY DEF MarkDoubleSpend
<1>2. Pending(p) \in SUBSET TxId /\ p.txpool \in [Pending(p) -> Meta]
  BY TableElim DEF Shaped, PoolType, Pending
<1>3. /\ tab \in [Pending(p) -> Meta]
      /\ \A u \in Pending(p) : tab[u].age = p.txpool[u].age
  BY <1>2 DEF Meta
<1>4. tab \in Tables /\ DOMAIN tab = Pending(p)
  BY <1>2, <1>3, TableIntro
<1>5. mov \in BOOLEAN
  BY DEF Shaped, PoolType
<1> HIDE DEF tab, mov
<1> QED BY <1>1, <1>3, <1>4, <1>5 DEF Shaped, PoolType, Pending

\* The removal before the insertion touches nothing but that record.
LEMMA ClearedShape ==
  ASSUME NEW p, Shaped(p), NEW t \in TxId, NEW valid \in BOOLEAN
  PROVE  LET q == Cleared(p, t, valid)
         IN  /\ Shaped(q)
             /\ q.txpool \in Tables
             /\ Pending(q) \subseteq Pending(p)
             /\ q.byFee = p.byFee /\ q.spent = p.spent /\ q.weight = p.weight
             /\ t \notin Pending(p) => q.txpool = p.txpool
<1> DEFINE tab == DropMeta(p.txpool, {t})
<1>1. /\ tab \in Tables /\ DOMAIN tab \subseteq DOMAIN p.txpool
      /\ t \notin DOMAIN p.txpool => tab = p.txpool
  <2>1. p.txpool \in Tables
    BY DEF Shaped, PoolType
  <2>2. tab \in Tables /\ DOMAIN tab = DOMAIN p.txpool \ {t}
    BY <2>1, DropMetaTable
  <2>3. ASSUME t \notin DOMAIN p.txpool PROVE tab = p.txpool
    <3>1. {t} \cap DOMAIN p.txpool = {}
      BY <2>3
    <3> QED BY <2>1, <3>1, DropNothing
  <2> QED BY <2>2, <2>3
<1> HIDE DEF tab
<1>2. CASE valid
  <2>1. Cleared(p, t, valid) = [p EXCEPT !.txpool = tab]
    BY <1>2 DEF Cleared, tab
  <2> QED BY <1>1, <2>1 DEF Shaped, PoolType, Pending
<1>3. CASE ~valid
  BY <1>3 DEF Cleared, Shaped, PoolType, Pending
<1> QED BY <1>2, <1>3

\* add_tx keeps the shape and adds at most the transaction it was given, and never one
\* that is refused for every caller.
LEMMA AddTxShape ==
  ASSUME NEW p, Shaped(p), NEW t \in TxId, NEW method \in Methods,
         NEW valid \in BOOLEAN, NEW nested \in BOOLEAN
  PROVE  LET q == AddTx(p, t, method, valid, nested).p
         IN  /\ Shaped(q)
             /\ Pending(q) \subseteq Pending(p) \cup ({t} \ (Malformed \cup BadOutputs))
<1> DEFINE cleared == Cleared(p, t, valid)
           m == NewMeta(p, t, method, valid)
           ins == Inserted(cleared, t, m)
           q == AddTx(p, t, method, valid, nested).p
<1>1. Shaped(cleared) /\ Pending(cleared) \subseteq Pending(p) /\ cleared.txpool \in Tables
  BY ClearedShape
<1>2. Shaped(MarkDoubleSpend(p, t)) /\ Pending(MarkDoubleSpend(p, t)) = Pending(p)
  BY MarkShape
<1>3. Shaped(ins) /\ Pending(ins) \subseteq Pending(p) \cup {t}
  <2>1. m \in Meta
    BY NewMetaType
  <2> HIDE DEF cleared, m
  <2>2. Shaped(ins) /\ ins.txpool = PutMeta(cleared.txpool, t, m)
    BY <1>1, <2>1, InsertedShape
  <2>3. DOMAIN PutMeta(cleared.txpool, t, m) = DOMAIN cleared.txpool \cup {t}
    BY <1>1, <2>1, PutMetaTable
  <2> QED BY <1>1, <2>2, <2>3 DEF Pending
<1>4. Shaped(Prune(ins, nested)) /\ Pending(Prune(ins, nested)) \subseteq Pending(p) \cup {t}
  <2> HIDE DEF ins
  <2> QED BY <1>3, PruneShape
<1>5. /\ q \in {p, MarkDoubleSpend(p, t), cleared, Prune(ins, nested)}
      /\ t \in Malformed \cup BadOutputs => q \in {p, MarkDoubleSpend(p, t)}
  BY DEF AddTx, Unacceptable
<1> HIDE DEF cleared, ins, q
<1>6. /\ Shaped(q)
      /\ Pending(q) \subseteq Pending(p) \cup ({t} \ (Malformed \cup BadOutputs))
  BY <1>1, <1>2, <1>4, <1>5
<1> QED BY <1>6 DEF q

\* take_tx removes one transaction.
LEMMA TakeTxShape ==
  ASSUME NEW p, Shaped(p), NEW t \in TxId
  PROVE  LET q == TakeTx(p, t)
         IN  /\ Shaped(q)
             /\ q.txpool = DropMeta(p.txpool, {t}) /\ Pending(q) = Pending(p) \ {t}
             /\ q.byFee = EraseFirst(p.byFee, {t})
             /\ q.spent = RemoveImages(p.spent, {t})
             /\ q.weight = (p.weight - TotalWeight({t})) % WMod
<1> DEFINE tab == DropMeta(p.txpool, {t})
           ord == EraseFirst(p.byFee, {t})
           img == RemoveImages(p.spent, {t})
           wgt == (p.weight - weight[t]) % WMod
<1>1. TakeTx(p, t) = [p EXCEPT !.txpool = tab, !.byFee = ord, !.spent = img,
                               !.weight = wgt, !.moved = TRUE]
  BY DEF TakeTx
<1>2. tab \in Tables /\ DOMAIN tab = DOMAIN p.txpool \ {t}
  BY DropMetaTable DEF Shaped, PoolType
<1>3. img \in [KeyImage -> SUBSET TxId]
  BY RemoveImagesType DEF Shaped, PoolType
<1>4. ord \in SUBSET (TxId \X Ages)
  BY DEF EraseFirst, Shaped, PoolType
<1>5. wgt \in 0..(WMod - 1)
  <2>1. p.weight - weight[t] \in Int
    BY WeightAssumption DEF Shaped, PoolType
  <2> QED BY <2>1, WeightRange
<1> HIDE DEF tab, ord, img, wgt
<1>6. /\ Shaped(TakeTx(p, t)) /\ TakeTx(p, t).txpool = tab
      /\ TakeTx(p, t).byFee = ord /\ TakeTx(p, t).spent = img /\ TakeTx(p, t).weight = wgt
  BY <1>1, <1>2, <1>3, <1>4, <1>5 DEF Shaped, PoolType
<1> QED BY <1>2, <1>6, TotalWeightOne DEF tab, ord, img, wgt, Pending

\* remove_stuck_transactions removes what expired.
LEMMA RemoveStuckShape ==
  ASSUME NEW p, Shaped(p)
  PROVE  LET q == RemoveStuck(p)
             S == Expired(p)
         IN  /\ Shaped(q)
             /\ q.txpool = DropMeta(p.txpool, S) /\ Pending(q) = Pending(p) \ S
             /\ q.byFee = EraseFirst(p.byFee, S)
             /\ q.spent = RemoveImages(p.spent, S)
             /\ q.weight = (p.weight - TotalWeight(S)) % WMod
<1> DEFINE S == Expired(p)
           tab == DropMeta(p.txpool, S)
           ord == EraseFirst(p.byFee, S)
           img == RemoveImages(p.spent, S)
           wgt == (p.weight - TotalWeight(S)) % WMod
           out == p.timedOut \cup S
           mov == p.moved \/ S # {}
<1>1. RemoveStuck(p) = [p EXCEPT !.txpool = tab, !.byFee = ord, !.spent = img,
                                 !.weight = wgt, !.timedOut = out, !.moved = mov]
  BY DEF RemoveStuck
<1>2. tab \in Tables /\ DOMAIN tab = DOMAIN p.txpool \ S
  BY DropMetaTable DEF Shaped, PoolType
<1>3. img \in [KeyImage -> SUBSET TxId]
  BY RemoveImagesType DEF Shaped, PoolType
<1>4. ord \in SUBSET (TxId \X Ages)
  BY DEF EraseFirst, Shaped, PoolType
<1>5. p.txpool \in Tables
  BY DEF Shaped, PoolType
<1>6. out \in SUBSET TxId /\ mov \in BOOLEAN
  BY <1>5, TableElim DEF Expired, Pending, Shaped, PoolType
<1>7. wgt \in 0..(WMod - 1)
  <2>1. S \in SUBSET TxId
    BY <1>5, TableElim DEF Expired, Pending
  <2> HIDE DEF S
  <2>2. TotalWeight(S) \in Nat /\ p.weight \in Int
    BY <2>1, TotalWeightType DEF Shaped, PoolType
  <2>3. p.weight - TotalWeight(S) \in Int
    BY <2>2
  <2> QED BY <2>3, WeightRange
<1> HIDE DEF S, tab, ord, img, wgt, out, mov
<1>8. /\ Shaped(RemoveStuck(p)) /\ RemoveStuck(p).txpool = tab
      /\ RemoveStuck(p).byFee = ord /\ RemoveStuck(p).spent = img
      /\ RemoveStuck(p).weight = wgt
  BY <1>1, <1>2, <1>3, <1>4, <1>6, <1>7 DEF Shaped, PoolType
<1> QED BY <1>2, <1>8 DEF S, tab, ord, img, wgt, Pending

\* set_relayed changes no more than the relay method.
LEMMA SetRelayedShape ==
  ASSUME NEW p, Shaped(p), NEW S
  PROVE  LET q == SetRelayed(p, S)
         IN  /\ Shaped(q)
             /\ Pending(q) = Pending(p)
             /\ \A u \in Pending(p) : q.txpool[u].age = p.txpool[u].age
             /\ q.byFee = p.byFee /\ q.spent = p.spent /\ q.weight = p.weight
<1> DEFINE tab == [u \in Pending(p) |->
                     IF u \in S THEN [p.txpool[u] EXCEPT !.relay = "fluff"] ELSE p.txpool[u]]
<1>1. SetRelayed(p, S) = [p EXCEPT !.txpool = tab]
  BY DEF SetRelayed
<1>2. Pending(p) \in SUBSET TxId /\ p.txpool \in [Pending(p) -> Meta]
  BY TableElim DEF Shaped, PoolType, Pending
<1>3. /\ tab \in [Pending(p) -> Meta]
      /\ \A u \in Pending(p) : tab[u].age = p.txpool[u].age
  BY <1>2 DEF Meta, Methods
<1>4. tab \in Tables /\ DOMAIN tab = Pending(p)
  BY <1>2, <1>3, TableIntro
<1> HIDE DEF tab
<1> QED BY <1>1, <1>3, <1>4 DEF Shaped, PoolType, Pending

\* The clock changes no more than ages, in the table and in the fee order.
LEMMA AgeAllShape ==
  ASSUME NEW p, Shaped(p)
  PROVE  LET q == AgeAll(p)
         IN  /\ Shaped(q)
             /\ Pending(q) = Pending(p)
             /\ \A u \in Pending(p) : q.txpool[u].age = Older(p.txpool[u].age)
             /\ q.byFee = {<<e[1], Older(e[2])>> : e \in p.byFee}
             /\ q.spent = p.spent /\ q.weight = p.weight
<1> DEFINE tab == AgeTable(p.txpool)
           ord == {<<e[1], Older(e[2])>> : e \in p.byFee}
<1>1. AgeAll(p) = [p EXCEPT !.txpool = tab, !.byFee = ord]
  BY DEF AgeAll
<1>2. Pending(p) \in SUBSET TxId /\ p.txpool \in [Pending(p) -> Meta]
  BY TableElim DEF Shaped, PoolType, Pending
<1>3. \A i \in Ages : Older(i) \in Ages
  BY AgeAssumption DEF Older, Ages
<1>4. /\ tab \in [Pending(p) -> Meta]
      /\ \A u \in Pending(p) : tab[u].age = Older(p.txpool[u].age)
  BY <1>2, <1>3 DEF Meta, AgeTable, Pending
<1>5. tab \in Tables /\ DOMAIN tab = Pending(p)
  BY <1>2, <1>4, TableIntro
<1>6. ord \in SUBSET (TxId \X Ages)
  BY <1>3 DEF Shaped, PoolType
<1> HIDE DEF tab, ord
<1>7. /\ Shaped(AgeAll(p)) /\ AgeAll(p).txpool = tab
      /\ AgeAll(p).byFee = ord /\ AgeAll(p).spent = p.spent /\ AgeAll(p).weight = p.weight
  BY <1>1, <1>5, <1>6 DEF Shaped, PoolType
<1> QED BY <1>4, <1>5, <1>7 DEF ord, Pending

\* init builds both indexes from the table.
LEMMA LoadPoolShape ==
  ASSUME NEW tab \in Tables
  PROVE  LET q == LoadPool(tab)
         IN  /\ Shaped(q)
             /\ q.txpool = tab
             /\ Exact(q)
<1>1. DOMAIN tab \in SUBSET TxId /\ tab \in [DOMAIN tab -> Meta]
  BY TableElim
<1>2. {<<t, tab[t].age>> : t \in DOMAIN tab} \in SUBSET (TxId \X Ages)
  BY <1>1 DEF Meta
<1>3. [k \in KeyImage |-> {t \in DOMAIN tab : k \in images[t]}] \in [KeyImage -> SUBSET TxId]
  BY <1>1
<1>4. TotalWeight(DOMAIN tab) % WMod \in 0..(WMod - 1)
  BY <1>1, TotalWeightType, WeightRange
<1> QED BY <1>2, <1>3, <1>4
        DEF LoadPool, Shaped, PoolType, Exact, ImagesExact, OrderExact, Weighed, Pending

-----------------------------------------------------------------------------
(* The containers in memory and the table.                                 *)

\* Erasing the entries of S from an exact order leaves the others.
LEMMA EraseExact ==
  ASSUME NEW p, Shaped(p), OrderExact(p), NEW S
  PROVE  EraseFirst(p.byFee, S) = {<<t, p.txpool[t].age>> : t \in Pending(p) \ S}
<1>1. Pending(p) \in SUBSET TxId /\ \A t \in Pending(p) : p.txpool[t].age \in Nat
  BY TableElim, AgeAssumption DEF Shaped, PoolType, Pending, Meta, Ages
<1>2. ASSUME NEW t
      PROVE  FirstEntry(p.byFee, t) = {e \in p.byFee : e[1] = t}
  BY <1>1 DEF FirstEntry, OrderExact
<1>3. EraseFirst(p.byFee, S) = {e \in p.byFee : e[1] \notin S}
  BY <1>2 DEF EraseFirst
<1> QED BY <1>3 DEF OrderExact

\* The weight of the pool is right again when a set of pending transactions is taken off.
LEMMA RemoveWeighed ==
  ASSUME NEW P \in SUBSET TxId, NEW S \in SUBSET P
  PROVE  ((TotalWeight(P) % WMod) - TotalWeight(S)) % WMod = TotalWeight(P \ S) % WMod
<1> DEFINE a == TotalWeight(P)
           b == TotalWeight(S)
<1>1. a \in Nat /\ b \in Nat /\ TotalWeight(P \ S) = a - b
  BY TotalWeightType, TotalWeightMinus
<1> HIDE DEF a, b
<1>2. PICK c \in Int : c = -b
  BY <1>1
<1>3. a \in Int /\ WMod \in Nat \ {0} /\ a % WMod \in Int
  BY <1>1, WeightAssumption
<1>4. ((a % WMod) + c) % WMod = (a + c) % WMod
  BY <1>3, ModShift
<1>5. (a % WMod) + c = (a % WMod) - b /\ a + c = a - b
  BY <1>1, <1>2, <1>3
<1> QED BY <1>1, <1>4, <1>5 DEF a, b

\* Removing S from the table, the order, the key images and the weight keeps them in step.
LEMMA RemoveExact ==
  ASSUME NEW p, Shaped(p), Exact(p), NEW S \in SUBSET Pending(p), NEW q,
         q.txpool = DropMeta(p.txpool, S),
         q.byFee = {<<t, p.txpool[t].age>> : t \in Pending(p) \ S},
         q.spent = RemoveImages(p.spent, S),
         q.weight = (p.weight - TotalWeight(S)) % WMod
  PROVE  Exact(q)
<1>1. /\ Pending(q) = Pending(p) \ S
      /\ \A u \in Pending(q) : q.txpool[u] = p.txpool[u]
  <2>1. p.txpool \in Tables
    BY DEF Shaped, PoolType
  <2>2. /\ DOMAIN DropMeta(p.txpool, S) = DOMAIN p.txpool \ S
        /\ \A u \in DOMAIN p.txpool \ S : DropMeta(p.txpool, S)[u] = p.txpool[u]
    BY <2>1, DropMetaTable
  <2> QED BY <2>2 DEF Pending
<1>2. OrderExact(q)
  BY <1>1 DEF Exact, OrderExact
<1>3. ImagesExact(q)
  BY <1>1 DEF Exact, ImagesExact, RemoveImages
<1>4. Weighed(q)
  <2>1. Pending(p) \in SUBSET TxId
    BY TableElim DEF Shaped, PoolType, Pending
  <2> QED BY <1>1, <2>1, RemoveWeighed DEF Exact, Weighed
<1> QED BY <1>2, <1>3, <1>4 DEF Exact

\* Changing metadata but for the ages disturbs neither index.
LEMMA UpdateExact ==
  ASSUME NEW p, Exact(p), NEW q,
         Pending(q) = Pending(p),
         \A u \in Pending(p) : q.txpool[u].age = p.txpool[u].age,
         q.byFee = p.byFee, q.spent = p.spent, q.weight = p.weight
  PROVE  Exact(q)
  BY DEF Exact, ImagesExact, OrderExact, Weighed

\* In an exact order prune never meets an entry without metadata.
LEMMA PruneExact ==
  ASSUME NEW p, Shaped(p), Exact(p), NEW nested \in BOOLEAN
  PROVE  /\ Exact(Prune(p, nested))
         /\ Pending(Prune(p, nested)) = Pending(p) \ {e[1] : e \in Evicted(p)}
<1> DEFINE Gone == {e[1] : e \in Evicted(p)}
           q == Prune(p, nested)
<1>1. /\ Pending(p) \in SUBSET TxId
      /\ \A t \in Pending(p) : p.txpool[t].age \in Nat /\ rate[t] \in Nat
  BY TableElim, AgeAssumption, WeightAssumption DEF Shaped, PoolType, Pending, Meta, Ages
<1>2. \A e, f \in p.byFee : e[1] = f[1] => e = f /\ ~SortsBefore(e, f)
  BY <1>1 DEF Exact, OrderExact, SortsBefore
<1>3. \A e \in p.byFee : ~Missing(p, e)
  BY <1>2 DEF Missing, Behind, Exact, OrderExact
<1>4. ~Stuck(p)
  BY <1>3 DEF Stuck
<1>5. /\ q.txpool = DropMeta(p.txpool, Gone)
      /\ q.byFee = p.byFee \ Evicted(p)
      /\ q.spent = RemoveImages(p.spent, Gone)
      /\ q.weight = (p.weight - TotalWeight(Gone)) % WMod
  BY <1>4 DEF Prune, Shaped, PoolType
<1>6. \A e \in p.byFee : e \in Evicted(p) <=> e[1] \in Gone
  BY <1>2 DEF Evicted
<1>7. q.byFee = {<<t, p.txpool[t].age>> : t \in Pending(p) \ Gone}
  <2> HIDE DEF Gone, q
  <2> QED BY <1>5, <1>6 DEF Exact, OrderExact
<1>8. Gone \in SUBSET Pending(p)
  BY DEF Evicted, Prunable
<1> HIDE DEF Gone, q
<1>9. Exact(q)
  BY <1>5, <1>7, <1>8, RemoveExact
<1>10. Pending(q) = Pending(p) \ Gone
  BY <1>5, DropMetaTable DEF Pending, Shaped, PoolType
<1> QED BY <1>9, <1>10 DEF q, Gone

\* prune of an exact pool whose weight does not wrap leaves it within the limit, or
\* with the best paying transaction and kept-by-block ones.
LEMMA PruneBounded ==
  ASSUME NEW p, Shaped(p), Exact(p), NEW nested \in BOOLEAN, TotalWeight(TxId) < WMod
  PROVE  Bounded(Prune(p, nested))
<1> DEFINE q == Prune(p, nested)
           P == Pending(p)
           N == {t \in P : ~KeptByBlock(p, t)}
           Gone == {e[1] : e \in Evicted(p)}
           Entry(t) == <<t, p.txpool[t].age>>
<1>1. /\ P \in SUBSET TxId /\ N \in SUBSET P
      /\ \A t \in P : p.txpool[t].age \in Nat /\ rate[t] \in Nat
  BY TableElim, AgeAssumption, WeightAssumption DEF Shaped, PoolType, Pending, Meta, Ages
<1>2. p.byFee = {Entry(t) : t \in P}
  BY DEF Exact, OrderExact
<1>3. \A t, u \in P : SortsBefore(Entry(t), Entry(u)) <=> rate[t] > rate[u]
  BY <1>1 DEF SortsBefore
<1>4. \A t \in P : Entry(t) \in p.byFee /\ (Prunable(p, Entry(t)) <=> t \in N)
  BY <1>2 DEF Prunable
<1>5. ASSUME NEW t \in P
      PROVE  /\ Behind(p, Entry(t)) = {Entry(u) : u \in Cheaper(P, t)}
             /\ \A u \in P : Entry(u) \in Behind(p, Entry(t)) <=> u \in Cheaper(P, t)
  <2>1. \A u \in P : rate[t] > rate[u] <=> rate[u] < rate[t]
    BY <1>1
  <2> HIDE DEF P
  <2>2. \A u \in P : Entry(u) \in Behind(p, Entry(t)) <=> u \in Cheaper(P, t)
    BY <1>3, <1>4, <2>1 DEF Behind, Cheaper
  <2>3. \A e \in Behind(p, Entry(t)) : \E u \in P : e = Entry(u)
    BY <1>2 DEF Behind
  <2>4. Cheaper(P, t) \subseteq P
    BY DEF Cheaper
  <2> HIDE DEF Entry
  <2> QED BY <2>2, <2>3, <2>4
<1>6. ASSUME NEW t \in P
      PROVE  WeightAt(p, Entry(t)) = TotalWeight(Left(P, N, t))
  <2> DEFINE B == Cheaper(P, t) \cap N
  <2>1. {f[1] : f \in {g \in Behind(p, Entry(t)) : Prunable(p, g)}} = B
    <3>1. \A u \in P : Entry(u)[1] = u
      OBVIOUS
    <3>2. Cheaper(P, t) \subseteq P
      BY DEF Cheaper
    <3> HIDE DEF Entry, P, N
    <3> QED BY <1>4, <1>5, <3>1, <3>2
  <2>2. B \in SUBSET P /\ P \ B = Left(P, N, t) /\ Left(P, N, t) \in SUBSET TxId
    BY <1>1 DEF Left
  <2>3. ((TotalWeight(P) % WMod) - TotalWeight(B)) % WMod = TotalWeight(P \ B) % WMod
    BY <1>1, <2>2, RemoveWeighed
  <2>4. TotalWeight(Left(P, N, t)) \in 0 .. WMod - 1
    <3>1. TotalWeight(Left(P, N, t)) <= TotalWeight(TxId)
      BY <2>2, TotalWeightMonotone
    <3>2. TotalWeight(Left(P, N, t)) \in Nat /\ TotalWeight(TxId) \in Nat
      BY <2>2, TotalWeightType
    <3> QED BY <3>1, <3>2, WeightAssumption
  <2>5. TotalWeight(Left(P, N, t)) % WMod = TotalWeight(Left(P, N, t))
    BY <2>4, WeightAssumption
  <2>6. p.weight = TotalWeight(P) % WMod
    BY DEF Exact, Weighed
  <2> QED BY <2>1, <2>2, <2>3, <2>5, <2>6 DEF WeightAt
<1>7. \A e, f \in p.byFee : e[1] = f[1] => e = f /\ ~SortsBefore(e, f)
  BY <1>1 DEF Exact, OrderExact, SortsBefore
<1>8. \A e \in p.byFee : ~Missing(p, e)
  BY <1>7 DEF Missing, Behind, Exact, OrderExact
<1>9. ASSUME NEW t \in P
      PROVE  Visited(p, Entry(t)) <=> Reached(P, N, t)
  <2>1. (\E f \in p.byFee : SortsBefore(f, Entry(t))) <=> Dearer(P, t) # {}
    <3>1. (\E f \in p.byFee : SortsBefore(f, Entry(t))) <=> \E u \in P : SortsBefore(Entry(u), Entry(t))
      BY <1>2
    <3> HIDE DEF Entry
    <3> QED BY <1>3, <3>1 DEF Dearer
  <2>2. (\A f \in Behind(p, Entry(t)) \cup {Entry(t)} : WeightAt(p, f) > MaxWeight)
          <=> \A u \in Cheaper(P, t) \cup {t} : TotalWeight(Left(P, N, u)) > MaxWeight
    <3>1. Cheaper(P, t) \subseteq P
      BY DEF Cheaper
    <3> HIDE DEF Entry, P, N
    <3> QED BY <1>5, <1>6, <3>1
  <2>3. \A f \in Behind(p, Entry(t)) : ~Missing(p, f)
    BY <1>8 DEF Behind
  <2> HIDE DEF Entry, P, N
  <2> QED BY <2>1, <2>2, <2>3 DEF Visited, Reached
<1>10. Gone = {t \in N : Reached(P, N, t)}
  <2>1. \A t \in P : Entry(t) \in Evicted(p) <=> t \in N /\ Reached(P, N, t)
    BY <1>4, <1>8, <1>9 DEF Evicted
  <2>2. \A e \in Evicted(p) : \E t \in P : e = Entry(t)
    BY <1>2 DEF Evicted
  <2>3. \A t \in P : Entry(t)[1] = t
    OBVIOUS
  <2> HIDE DEF Entry, P
  <2> QED BY <1>1, <2>1, <2>2, <2>3
<1>11. Pending(q) = P \ Gone
  BY PruneExact
<1>12. \A u \in Pending(q) : KeptByBlock(q, u) <=> KeptByBlock(p, u)
  <2>1. q.txpool = DropMeta(p.txpool, Gone)
    BY <1>8 DEF Prune, Stuck, Shaped, PoolType
  <2>2. \A u \in DOMAIN p.txpool \ Gone : DropMeta(p.txpool, Gone)[u] = p.txpool[u]
    BY DropMetaTable DEF Shaped, PoolType
  <2> HIDE DEF q, Gone
  <2> QED BY <1>11, <2>1, <2>2 DEF KeptByBlock, Pending
<1>13. \/ TotalWeight(P \ Gone) <= MaxWeight
       \/ \E t \in P \ Gone : \A u \in (P \ Gone) \ {t} : u \notin N /\ rate[u] < rate[t]
  <2> HIDE DEF P, N, Gone
  <2> QED BY <1>1, <1>10, WalkBounds
<1> HIDE DEF q, Gone
<1>14. \A u \in P \ Gone : u \notin N => KeptByBlock(q, u)
  BY <1>11, <1>12
<1> HIDE DEF P, N
<1>15. Bounded(q)
  BY <1>11, <1>13, <1>14 DEF Bounded
<1> QED BY <1>15 DEF q

\* Inserting a transaction that is not pending keeps everything in step.
LEMMA InsertedExact ==
  ASSUME NEW p, Shaped(p), Exact(p), NEW t \in TxId, t \notin Pending(p),
         NEW m \in Meta, m.age = 0
  PROVE  LET q == Inserted(p, t, m)
         IN  /\ Shaped(q) /\ Exact(q)
             /\ Pending(q) = Pending(p) \cup {t}
             /\ q.txpool[t] = m
<1> DEFINE q == Inserted(p, t, m)
<1>1. p.txpool \in Tables /\ Pending(p) \in SUBSET TxId
  BY TableElim DEF Shaped, PoolType, Pending
<1>2. /\ Shaped(q) /\ q.txpool = PutMeta(p.txpool, t, m)
      /\ q.byFee = p.byFee \cup {<<t, 0>>} /\ q.spent = AddImages(p.spent, t)
      /\ q.weight = (p.weight + weight[t]) % WMod
  BY InsertedShape
<1> HIDE DEF q
<1>3. /\ Pending(q) = Pending(p) \cup {t}
      /\ q.txpool[t] = m
      /\ \A u \in Pending(p) : q.txpool[u] = p.txpool[u]
  <2>1. /\ DOMAIN PutMeta(p.txpool, t, m) = DOMAIN p.txpool \cup {t}
        /\ PutMeta(p.txpool, t, m)[t] = m
        /\ \A u \in DOMAIN p.txpool \ {t} : PutMeta(p.txpool, t, m)[u] = p.txpool[u]
    BY <1>1, PutMetaTable
  <2> QED BY <1>2, <2>1 DEF Pending
<1>4. OrderExact(q)
  BY <1>2, <1>3 DEF Exact, OrderExact
<1>5. ImagesExact(q)
  BY <1>2, <1>3 DEF Exact, ImagesExact, AddImages
<1>6. Weighed(q)
  <2>1. TotalWeight(Pending(p) \cup {t}) = TotalWeight(Pending(p)) + weight[t]
    BY <1>1, TotalWeightUnion, TotalWeightOne
  <2>2. TotalWeight(Pending(p)) \in Int /\ weight[t] \in Int
    BY <1>1, TotalWeightType, WeightAssumption
  <2>3. ((TotalWeight(Pending(p)) % WMod) + weight[t]) % WMod
          = (TotalWeight(Pending(p)) + weight[t]) % WMod
    BY <2>2, ModShift, WeightAssumption
  <2> QED BY <1>2, <1>3, <2>1, <2>3 DEF Exact, Weighed
<1> QED BY <1>2, <1>3, <1>4, <1>5, <1>6 DEF Exact, q

\* What add_tx inserts of a transaction that is not pending, before it prunes.
LEMMA AddTxInserts ==
  ASSUME NEW p, Shaped(p), Exact(p),
         NEW t \in TxId, t \notin Pending(p), NEW method \in Methods, NEW valid \in BOOLEAN
  PROVE  LET cleared == Cleared(p, t, valid)
             ins == Inserted(cleared, t, NewMeta(p, t, method, valid))
         IN  /\ Exact(cleared) /\ Pending(cleared) = Pending(p) /\ cleared.spent = p.spent
             /\ Shaped(ins) /\ Exact(ins)
             /\ Pending(ins) = Pending(p) \cup {t}
             /\ ins.txpool[t].relay = method
<1> DEFINE cleared == Cleared(p, t, valid)
           m == NewMeta(p, t, method, valid)
           ins == Inserted(cleared, t, m)
<1>1. /\ Shaped(cleared) /\ cleared.txpool = p.txpool
      /\ cleared.byFee = p.byFee /\ cleared.spent = p.spent /\ cleared.weight = p.weight
  BY ClearedShape
<1>2. m \in Meta /\ m.age = 0 /\ m.relay = method
  BY NewMetaType DEF NewMeta
<1> HIDE DEF cleared, m
<1>3. Exact(cleared) /\ Pending(cleared) = Pending(p)
  BY <1>1, UpdateExact DEF Pending
<1>4. Shaped(ins) /\ Exact(ins) /\ Pending(ins) = Pending(cleared) \cup {t} /\ ins.txpool[t] = m
  BY <1>1, <1>2, <1>3, InsertedExact
<1> HIDE DEF ins
<1>5. /\ Exact(cleared) /\ Pending(cleared) = Pending(p) /\ cleared.spent = p.spent
      /\ Shaped(ins) /\ Exact(ins) /\ Pending(ins) = Pending(p) \cup {t}
      /\ ins.txpool[t].relay = method
  BY <1>1, <1>2, <1>3, <1>4
<1> QED BY <1>5 DEF cleared, m, ins

\* add_tx of a transaction that is not pending keeps everything in step, and when it
\* adds one, prune has left the pool within its limit.
LEMMA AddTxExact ==
  ASSUME NEW p, Shaped(p), Exact(p),
         NEW t \in TxId, t \notin Pending(p), NEW method \in Methods,
         NEW valid \in BOOLEAN, NEW nested \in BOOLEAN
  PROVE  LET q == AddTx(p, t, method, valid, nested).p
         IN  /\ Exact(q)
             /\ TotalWeight(TxId) < WMod => Pending(q) \subseteq Pending(p) \/ Bounded(q)
<1> DEFINE cleared == Cleared(p, t, valid)
           ins == Inserted(cleared, t, NewMeta(p, t, method, valid))
           q == AddTx(p, t, method, valid, nested).p
           mark == MarkDoubleSpend(p, t)
<1>1. Exact(cleared) /\ Pending(cleared) = Pending(p) /\ Shaped(ins) /\ Exact(ins)
  BY AddTxInserts
<1>2. Exact(mark) /\ Pending(mark) = Pending(p)
  <2>1. /\ Pending(mark) = Pending(p)
        /\ \A u \in Pending(p) : mark.txpool[u].age = p.txpool[u].age
        /\ mark.byFee = p.byFee /\ mark.spent = p.spent /\ mark.weight = p.weight
    BY MarkShape
  <2> HIDE DEF mark
  <2> QED BY <2>1, UpdateExact
<1>3. /\ Exact(Prune(ins, nested))
      /\ TotalWeight(TxId) < WMod => Bounded(Prune(ins, nested))
  <2> HIDE DEF ins
  <2> QED BY <1>1, PruneExact, PruneBounded
<1>4. q \in {p, mark, cleared, Prune(ins, nested)}
  BY DEF AddTx
<1> HIDE DEF cleared, ins, mark, q
<1>5. Exact(q) /\ (TotalWeight(TxId) < WMod => Pending(q) \subseteq Pending(p) \/ Bounded(q))
  BY <1>1, <1>2, <1>3, <1>4
<1> QED BY <1>5 DEF q

\* What was in the pool or in a block before is taken back for a block: nothing refuses
\* it, whatever its inputs, and prune spares it.
LEMMA AddTxTakesBack ==
  ASSUME NEW p, Shaped(p), Exact(p), NEW t \in TxId, t \notin Pending(p),
         t \notin Malformed \cup BadOutputs, NEW valid \in BOOLEAN, NEW nested \in BOOLEAN
  PROVE  t \in Pending(AddTx(p, t, "block", valid, nested).p)
<1> DEFINE cleared == Cleared(p, t, valid)
           ins == Inserted(cleared, t, NewMeta(p, t, "block", valid))
           q == AddTx(p, t, "block", valid, nested).p
<1>1. /\ cleared.spent = p.spent
      /\ Shaped(ins) /\ Exact(ins) /\ t \in Pending(ins) /\ ins.txpool[t].relay = "block"
  BY AddTxInserts DEF Methods
<1>2. InsertAllowed(cleared, t, "block")
  <2>1. \A k \in images[t] : k \in KeyImage /\ t \notin p.spent[k]
    BY ImagesAssumption DEF Exact, ImagesExact
  <2> HIDE DEF cleared
  <2> QED BY <1>1, <2>1 DEF InsertAllowed
<1>3. q = Prune(ins, nested)
  <2> HIDE DEF cleared
  <2> QED BY <1>2 DEF AddTx, Unacceptable, cleared
<1>4. t \in Pending(Prune(ins, nested))
  <2> HIDE DEF ins
  <2>1. \A e \in Evicted(ins) : e[1] # t
    BY <1>1 DEF Evicted, Prunable, KeptByBlock
  <2>2. Pending(Prune(ins, nested)) = Pending(ins) \ {e[1] : e \in Evicted(ins)}
    BY <1>1, PruneExact
  <2> QED BY <1>1, <2>1, <2>2
<1> QED BY <1>3, <1>4

\* take_tx keeps everything in step.
LEMMA TakeTxExact ==
  ASSUME NEW p, Shaped(p), Exact(p), NEW t \in Pending(p)
  PROVE  Exact(TakeTx(p, t))
<1> DEFINE q == TakeTx(p, t)
<1>t. t \in TxId
  BY TableElim DEF Shaped, PoolType, Pending
<1>1. /\ q.txpool = DropMeta(p.txpool, {t})
      /\ q.byFee = EraseFirst(p.byFee, {t}) /\ q.spent = RemoveImages(p.spent, {t})
      /\ q.weight = (p.weight - TotalWeight({t})) % WMod
  BY <1>t, TakeTxShape
<1> HIDE DEF q
<1>2. q.byFee = {<<u, p.txpool[u].age>> : u \in Pending(p) \ {t}}
  BY <1>1, EraseExact DEF Exact
<1>3. Exact(q)
  BY <1>1, <1>2, RemoveExact
<1> QED BY <1>3 DEF q

\* remove_stuck_transactions keeps everything in step.
LEMMA RemoveStuckExact ==
  ASSUME NEW p, Shaped(p), Exact(p)
  PROVE  Exact(RemoveStuck(p))
<1> DEFINE q == RemoveStuck(p)
           S == Expired(p)
<1>1. /\ q.txpool = DropMeta(p.txpool, S)
      /\ q.byFee = EraseFirst(p.byFee, S) /\ q.spent = RemoveImages(p.spent, S)
      /\ q.weight = (p.weight - TotalWeight(S)) % WMod
  BY RemoveStuckShape
<1>s. S \in SUBSET Pending(p)
  BY DEF Expired
<1> HIDE DEF q, S
<1>2. q.byFee = {<<u, p.txpool[u].age>> : u \in Pending(p) \ S}
  BY <1>1, EraseExact DEF Exact
<1>3. Exact(q)
  BY <1>s, <1>1, <1>2, RemoveExact
<1> QED BY <1>3 DEF q

\* The clock keeps everything in step.
LEMMA AgeAllExact ==
  ASSUME NEW p, Shaped(p), Exact(p)
  PROVE  Exact(AgeAll(p))
<1> DEFINE q == AgeAll(p)
<1>1. /\ Pending(q) = Pending(p)
      /\ \A u \in Pending(p) : q.txpool[u].age = Older(p.txpool[u].age)
      /\ q.byFee = {<<e[1], Older(e[2])>> : e \in p.byFee}
      /\ q.spent = p.spent /\ q.weight = p.weight
  BY AgeAllShape
<1> HIDE DEF q
<1>2. OrderExact(q)
  <2> DEFINE aged == {<<t, q.txpool[t].age>> : t \in Pending(q)}
  <2>1. ASSUME NEW x \in q.byFee
        PROVE  x \in aged
    <3>1. PICK e \in p.byFee : x = <<e[1], Older(e[2])>>
      BY <1>1
    <3>2. PICK t \in Pending(p) : e = <<t, p.txpool[t].age>>
      BY DEF Exact, OrderExact
    <3>3. x = <<t, q.txpool[t].age>>
      BY <1>1, <3>1, <3>2
    <3> QED BY <1>1, <3>3
  <2>2. ASSUME NEW t \in Pending(q)
        PROVE  <<t, q.txpool[t].age>> \in q.byFee
    <3>1. <<t, p.txpool[t].age>> \in p.byFee
      BY <1>1 DEF Exact, OrderExact
    <3> QED BY <1>1, <3>1
  <2> QED BY <2>1, <2>2 DEF OrderExact
<1>3. ImagesExact(q) /\ Weighed(q)
  BY <1>1 DEF Exact, ImagesExact, Weighed
<1> QED BY <1>2, <1>3 DEF Exact, q

\* validate, after init, keeps the shape and both indexes.
LEMMA ValidateLoaded ==
  ASSUME NEW tab \in Tables, NEW S
  PROVE  LET q == Validate(LoadPool(tab), S)
         IN  /\ Shaped(q)
             /\ Pending(q) \subseteq DOMAIN tab
             /\ Exact(q)
<1> DEFINE p == LoadPool(tab)
           R == Pending(p) \cap S
           q == Validate(p, S)
           new == DropMeta(p.txpool, R)
           ord == EraseFirst(p.byFee, R)
           img == RemoveImages(p.spent, R)
           wgt == (TotalWeight(Pending(p)) - TotalWeight(R)) % WMod
<1>1. Shaped(p) /\ p.txpool = tab /\ Exact(p)
  BY LoadPoolShape
<1>2. q = [p EXCEPT !.txpool = new, !.byFee = ord, !.spent = img, !.weight = wgt]
  BY DEF Validate
<1> HIDE DEF p, R, q
<1>3. new \in Tables /\ DOMAIN new = DOMAIN tab \ R
  BY <1>1, DropMetaTable
<1>4. img \in [KeyImage -> SUBSET TxId]
  BY <1>1, RemoveImagesType DEF Shaped, PoolType
<1>5. ord \in SUBSET (TxId \X Ages)
  BY <1>1 DEF EraseFirst, Shaped, PoolType
<1>6. R \in SUBSET Pending(p) /\ Pending(p) \in SUBSET TxId
  BY <1>1, TableElim DEF R, Pending
<1>7. wgt \in 0..(WMod - 1) /\ wgt = (p.weight - TotalWeight(R)) % WMod
  <2>1. wgt = TotalWeight(Pending(p) \ R) % WMod
    BY <1>6, TotalWeightMinus
  <2>2. TotalWeight(Pending(p) \ R) \in Int
    BY <1>6, TotalWeightType
  <2>3. (p.weight - TotalWeight(R)) % WMod = TotalWeight(Pending(p) \ R) % WMod
    BY <1>1, <1>6, RemoveWeighed DEF Exact, Weighed
  <2> QED BY <2>1, <2>2, <2>3, WeightRange
<1> HIDE DEF new, ord, img, wgt
<1>8. Shaped(q) /\ q.txpool = new /\ q.byFee = ord /\ q.spent = img /\ q.weight = wgt
  BY <1>1, <1>2, <1>3, <1>4, <1>5, <1>7 DEF Shaped, PoolType
<1>9. ord = {<<t, p.txpool[t].age>> : t \in Pending(p) \ R}
  BY <1>1, EraseExact DEF Exact, ord
<1>10. Exact(q)
  BY <1>1, <1>6, <1>7, <1>8, <1>9, RemoveExact DEF new, img
<1> QED BY <1>3, <1>8, <1>10 DEF q, p, Pending

-----------------------------------------------------------------------------
(* The chain.  The invariant adds to OnePlace and ChainSound what they     *)
(* need: the thread that holds no batch holds no transactions, and what an *)
(* abort or a restart would go back to is as sound as the present.         *)

SavedSound ==
  batch # "idle" =>
    /\ DOMAIN saved.txpool \cap saved.mined = {}
    /\ Compatible(saved.mined)
    /\ \A t \in saved.mined : ring[t] \subseteq saved.mined

LoanInBatch ==
  /\ batch = "idle" => taken = {}
  /\ returning => taken # {}

\* Nothing that is refused for every caller gets anywhere.
OnlyGood ==
  LET Bad == Malformed \cup BadOutputs
  IN  /\ (Pending(pool) \cup taken \cup mined) \cap Bad = {}
      /\ batch # "idle" => (DOMAIN saved.txpool \cup saved.mined) \cap Bad = {}

SoundInv == TypeOK /\ LoanInBatch /\ SavedSound /\ OnePlace /\ ChainSound /\ OnlyGood

\* An empty pool has the right shape and nothing pending.
LEMMA EmptyPoolShape ==
  Shaped(EmptyPool) /\ Pending(EmptyPool) = {}
<1> DEFINE tab == [t \in {} |-> t]
<1>1. tab \in Tables /\ DOMAIN tab = {}
  <2>1. {} \in SUBSET TxId /\ tab \in [{} -> Meta]
    OBVIOUS
  <2> QED BY <2>1, TableIntro
<1> QED BY <1>1, LoadPoolShape DEF EmptyPool, Pending

\* The snapshot of no batch is a snapshot.
LEMMA NoSaveTyped == NoSave \in [txpool : Tables, mined : SUBSET TxId]
  BY EmptyPoolShape DEF NoSave, Shaped, PoolType

\* The daemon starts with an empty pool.
LEMMA InitSound == Init => SoundInv
  BY EmptyPoolShape, NoSaveTyped
  DEF Init, SoundInv, TypeOK, Shaped, LoanInBatch, SavedSound, OnePlace, ChainSound, Compatible, OnlyGood

\* The verdict of check_ringct_inputs and the state of the batch are truth values.
LEMMA Verdicts ==
  ASSUME NEW t
  PROVE  CheckInputs(t, mined) \in BOOLEAN /\ Idle \in BOOLEAN /\ (~Idle) \in BOOLEAN
  BY DEF CheckInputs, Idle

\* Every step preserves the invariant of the chain.
LEMMA NextSound == SoundInv /\ [Next]_vars => SoundInv'
<1> SUFFICES ASSUME SoundInv, [Next]_vars
             PROVE  SoundInv'
  OBVIOUS
<1> USE DEF SoundInv
<1>inv. TypeOK /\ LoanInBatch /\ SavedSound /\ OnePlace /\ ChainSound /\ OnlyGood
  OBVIOUS
<1>1. ASSUME NEW t \in TxId, NEW method \in Methods \ {"block"}, Submit(t, method)
      PROVE  SoundInv'
  <2>1. /\ Shaped(pool')
        /\ Pending(pool') \subseteq Pending(pool) \cup ({t} \ (Malformed \cup BadOutputs))
    <3>1. Shaped(pool) /\ method \in Methods
      BY <1>inv DEF TypeOK, Shaped, Methods
    <3> QED BY <1>1, <3>1, AddTxShape, Verdicts DEF Submit
  <2>2. t \notin mined /\ taken = {} /\ TypeOK'
    <3>1. orderly' \in BOOLEAN
      BY <1>1 DEF Submit, Received
    <3> QED BY <1>1, <1>inv, <2>1, <3>1 DEF Submit, New, Idle, LoanInBatch, TypeOK, Shaped
  <2>3. OnlyGood'
    BY <1>1, <1>inv, <2>1 DEF Submit, OnlyGood
  <2> QED BY <1>1, <1>inv, <2>1, <2>2, <2>3
          DEF Submit, LoanInBatch, SavedSound, OnePlace, ChainSound, Compatible
<1>2. ASSUME NEW t \in TxId, Relay(t)
      PROVE  SoundInv'
  <2>1. Shaped(pool') /\ Pending(pool') = Pending(pool)
    BY <1>2, <1>inv, SetRelayedShape DEF Relay, TypeOK, Shaped
  <2> QED BY <1>2, <1>inv, <2>1
          DEF Relay, TypeOK, Shaped, LoanInBatch, SavedSound, OnePlace, ChainSound, Compatible, OnlyGood
<1>3. ASSUME NEW t \in TxId, Flush(t)
      PROVE  SoundInv'
  <2>1. Shaped(pool') /\ Pending(pool') \subseteq Pending(pool)
    BY <1>3, <1>inv, TakeTxShape DEF Flush, TypeOK, Shaped
  <2> QED BY <1>3, <1>inv, <2>1
          DEF Flush, TypeOK, Shaped, LoanInBatch, SavedSound, OnePlace, ChainSound, Compatible, OnlyGood
<1>4. CASE IdleRelay
  <2>1. PICK S : pool' = SetRelayed(pool, S)
    BY <1>4 DEF IdleRelay
  <2>2. Shaped(pool') /\ Pending(pool') = Pending(pool)
    BY <1>inv, <2>1, SetRelayedShape DEF TypeOK, Shaped
  <2> QED BY <1>4, <1>inv, <2>2
          DEF IdleRelay, TypeOK, Shaped, LoanInBatch, SavedSound, OnePlace, ChainSound, Compatible, OnlyGood
<1>5. CASE ExpireStuck
  <2>1. Shaped(pool') /\ Pending(pool') \subseteq Pending(pool)
    BY <1>5, <1>inv, RemoveStuckShape DEF ExpireStuck, TypeOK, Shaped
  <2> QED BY <1>5, <1>inv, <2>1
          DEF ExpireStuck, TypeOK, Shaped, LoanInBatch, SavedSound, OnePlace, ChainSound, Compatible, OnlyGood
<1>6. CASE Tick
  <2>1. Shaped(pool') /\ Pending(pool') = Pending(pool)
    BY <1>6, <1>inv, AgeAllShape DEF Tick, TypeOK, Shaped
  <2> QED BY <1>6, <1>inv, <2>1
          DEF Tick, TypeOK, Shaped, LoanInBatch, SavedSound, OnePlace, ChainSound, Compatible, OnlyGood
<1>7. ASSUME NEW t \in TxId, AddBlockTx(t)
      PROVE  SoundInv'
  <2>1. /\ Shaped(pool')
        /\ Pending(pool') \subseteq Pending(pool) \cup ({t} \ (Malformed \cup BadOutputs))
    <3>1. Shaped(pool) /\ "block" \in Methods
      BY <1>inv DEF TypeOK, Shaped, Methods
    <3> QED BY <1>7, <3>1, AddTxShape, Verdicts DEF AddBlockTx
  <2>2. t \notin mined /\ taken = {} /\ TypeOK'
    <3>1. orderly' \in BOOLEAN
      BY <1>7 DEF AddBlockTx, Received
    <3> QED BY <1>7, <1>inv, <2>1, <3>1 DEF AddBlockTx, New, TypeOK, Shaped
  <2>3. OnlyGood'
    BY <1>7, <1>inv, <2>1 DEF AddBlockTx, OnlyGood
  <2> QED BY <1>7, <1>inv, <2>1, <2>2, <2>3
          DEF AddBlockTx, LoanInBatch, SavedSound, OnePlace, ChainSound, Compatible
<1>8. ASSUME NEW t \in TxId, TakeForBlock(t)
      PROVE  SoundInv'
  <2>1. Shaped(pool') /\ Pending(pool') = Pending(pool) \ {t}
    BY <1>8, <1>inv, TakeTxShape DEF TakeForBlock, TypeOK, Shaped
  <2> QED BY <1>8, <1>inv, <2>1
          DEF TakeForBlock, Idle, TypeOK, Shaped, LoanInBatch, SavedSound, OnePlace, ChainSound, Compatible, OnlyGood
<1>9. ASSUME NEW t \in TxId, ReturnTx(t)
      PROVE  SoundInv'
  <2>1. /\ Shaped(pool')
        /\ Pending(pool') \subseteq Pending(pool) \cup ({t} \ (Malformed \cup BadOutputs))
    <3>1. Shaped(pool) /\ "block" \in Methods
      BY <1>inv DEF TypeOK, Shaped, Methods
    <3> QED BY <1>9, <3>1, AddTxShape, Verdicts DEF ReturnTx
  <2>2. batch # "idle" /\ TypeOK'
    BY <1>9, <1>inv, <2>1 DEF ReturnTx, LoanInBatch, TypeOK, Shaped
  <2>3. OnlyGood'
    BY <1>9, <1>inv, <2>1 DEF ReturnTx, OnlyGood
  <2> QED BY <1>9, <1>inv, <2>1, <2>2, <2>3
          DEF ReturnTx, LoanInBatch, SavedSound, OnePlace, ChainSound, Compatible
<1>10. ASSUME NEW S \in SUBSET TxId, DisconnectBlock(S)
       PROVE  SoundInv'
  <2>1. batch # "idle" /\ TypeOK'
    BY <1>10, <1>inv DEF DisconnectBlock, Idle, TypeOK, Shaped
  <2>2. batch # "failed" => InBlocks = mined
    BY <1>inv DEF OnePlace, InBlocks, OnlyGood
  <2>3. ChainSound'
    BY <1>10, <1>inv, <2>2 DEF DisconnectBlock, ChainSound, Compatible
  <2>4. OnlyGood'
    BY <1>10, <1>inv DEF DisconnectBlock, InBlocks, OnlyGood
  <2> QED BY <1>10, <1>inv, <2>1, <2>2, <2>3, <2>4
          DEF DisconnectBlock, LoanInBatch, SavedSound, OnePlace, Compatible
<1>11. CASE StartBatch
  <2>1. TypeOK'
    BY <1>11, <1>inv DEF StartBatch, TypeOK, Shaped, Disk, PoolType
  <2> QED BY <1>11, <1>inv, <2>1
          DEF StartBatch, Idle, Disk, LoanInBatch, SavedSound, OnePlace, ChainSound, Compatible, Pending, OnlyGood
<1>12. CASE ConnectBlock
  <2>1. TypeOK' /\ batch # "idle"
    BY <1>12, <1>inv DEF ConnectBlock, Idle, TypeOK, Shaped
  <2>2. ChainSound'
    BY <1>12, <1>inv DEF ConnectBlock, InputsGood, CheckInputs, ChainSound, Compatible
  <2> QED BY <1>12, <1>inv, <2>1, <2>2
          DEF ConnectBlock, LoanInBatch, SavedSound, OnePlace, Compatible, OnlyGood
<1>13. CASE AddBlockThrows
  <2>1. PICK written \in SUBSET taken : mined' = mined \cup written
    BY <1>13 DEF AddBlockThrows
  <2> QED BY <1>13, <1>inv, <2>1
          DEF AddBlockThrows, Idle, TypeOK, Shaped, LoanInBatch, SavedSound, OnePlace, ChainSound, Compatible, OnlyGood
<1>14. CASE RejectBlock
  BY <1>14, <1>inv DEF RejectBlock, Idle, TypeOK, Shaped, LoanInBatch, SavedSound, OnePlace, ChainSound, Compatible, OnlyGood
<1>15. CASE StopBatch
  <2>1. NoSave \in [txpool : Tables, mined : SUBSET TxId]
    BY NoSaveTyped
  <2> QED BY <1>15, <1>inv, <2>1
          DEF StopBatch, TypeOK, Shaped, LoanInBatch, SavedSound, OnePlace, ChainSound, Compatible, OnlyGood
<1>16. CASE AbortBatch
  <2>1. NoSave \in [txpool : Tables, mined : SUBSET TxId]
    BY NoSaveTyped
  <2>2. Shaped(pool') /\ Pending(pool') = DOMAIN saved.txpool
    BY <1>16, <1>inv DEF AbortBatch, TypeOK, Shaped, PoolType, Pending
  <2> QED BY <1>16, <1>inv, <2>1, <2>2
          DEF AbortBatch, TypeOK, Shaped, LoanInBatch, SavedSound, OnePlace, ChainSound, Compatible, OnlyGood
<1>17. CASE Restart
  <2>1. NoSave \in [txpool : Tables, mined : SUBSET TxId]
    BY NoSaveTyped
  <2>2. Durable.txpool \in Tables /\ Durable.mined \in SUBSET TxId
    BY <1>inv DEF Durable, Disk, TypeOK, Shaped, PoolType
  <2>3. /\ DOMAIN Durable.txpool \cap Durable.mined = {}
        /\ Compatible(Durable.mined)
        /\ \A t \in Durable.mined : ring[t] \subseteq Durable.mined
    BY <1>inv DEF Durable, Idle, Disk, SavedSound, OnePlace, ChainSound, TypeOK, Shaped, Pending, OnlyGood
  <2>4. Shaped(pool') /\ Pending(pool') \subseteq DOMAIN Durable.txpool
    BY <1>17, <2>2, ValidateLoaded DEF Restart
  <2>5. (DOMAIN Durable.txpool \cup Durable.mined) \cap (Malformed \cup BadOutputs) = {}
    BY <1>inv DEF Durable, Idle, Disk, OnlyGood, TypeOK, Pending
  <2>6. OnlyGood'
    BY <1>17, <2>4, <2>5 DEF Restart, OnlyGood
  <2> QED BY <1>17, <2>1, <2>2, <2>3, <2>4, <2>6
          DEF Restart, TypeOK, Shaped, LoanInBatch, SavedSound, OnePlace, ChainSound, Compatible
<1>18. CASE UNCHANGED vars
  BY <1>18, <1>inv DEF vars, TypeOK, Shaped, LoanInBatch, SavedSound, OnePlace, ChainSound, Compatible, OnlyGood
<1> QED BY <1>1, <1>2, <1>3, <1>4, <1>5, <1>6, <1>7, <1>8, <1>9, <1>10, <1>11, <1>12, <1>13,
           <1>14, <1>15, <1>16, <1>17, <1>18 DEF Next

(***************************************************************************)
(* Whatever is submitted, relayed, taken, given back, pruned, expired,     *)
(* aborted or lost in a crash, a transaction is in one place at a time and *)
(* the chain neither spends a key image twice nor uses an output it does   *)
(* not hold.                                                               *)
(***************************************************************************)
THEOREM PoolAndChainSound == Spec => []PoolChainSound
<1>1. SoundInv => PoolChainSound
  BY DEF SoundInv, PoolChainSound
<1> QED BY InitSound, NextSound, <1>1, PTL DEF Spec

(***************************************************************************)
(* The pool, the loan, the batch and what is saved keep their shape; in    *)
(* particular m_txpool_weight stays a size_t.                              *)
(***************************************************************************)
THEOREM PoolTyped == Spec => []TypeOK
<1>1. SoundInv => TypeOK
  BY DEF SoundInv
<1> QED BY InitSound, NextSound, <1>1, PTL DEF Spec

-----------------------------------------------------------------------------
(* The indexes and the weight, for as long as nothing is received again    *)
(* while it is pending and no block spends a key image twice.              *)

ExactInv == orderly => batch # "failed" /\ Exact(pool)

\* The empty pool is exact.
LEMMA InitExact == Init => ExactInv
<1>1. Exact(EmptyPool)
  <2> DEFINE tab == [t \in {} |-> t]
  <2>1. tab \in Tables
    <3>1. {} \in SUBSET TxId /\ tab \in [{} -> Meta]
      OBVIOUS
    <3> QED BY <3>1, TableIntro
  <2> QED BY <2>1, LoadPoolShape DEF EmptyPool
<1> QED BY <1>1 DEF Init, ExactInv

\* What an orderly node can rely on.
LEMMA OrderlyFacts ==
  ASSUME SoundInv, ExactInv, orderly
  PROVE  /\ Shaped(pool) /\ Exact(pool) /\ batch # "failed"
         /\ taken \cap Pending(pool) = {}
  BY DEF SoundInv, TypeOK, Shaped, ExactInv, OnePlace

\* In an orderly node each addition keeps the pool exact and within its limit.
LEMMA AdditionExact ==
  ASSUME SoundInv, ExactInv, orderly, NEW t \in TxId, t \notin Pending(pool),
         NEW method \in Methods, NEW nested \in BOOLEAN,
         pool' = AddTx(pool, t, method, CheckInputs(t, mined), nested).p
  PROVE  /\ Exact(pool')
         /\ TotalWeight(TxId) < WMod => Pending(pool') \subseteq Pending(pool) \/ Bounded(pool')
  BY OrderlyFacts, AddTxExact, Verdicts

\* Every step of an orderly node keeps the pool exact.
LEMMA NextExact == SoundInv /\ ExactInv /\ [Next]_vars => ExactInv'
<1> SUFFICES ASSUME SoundInv, ExactInv, [Next]_vars, orderly'
             PROVE  batch' # "failed" /\ Exact(pool')
  BY DEF ExactInv, Exact, ImagesExact, OrderExact, Weighed, Pending
<1>1. CASE Restart
  <2>1. Durable.txpool \in Tables
    BY DEF SoundInv, TypeOK, PoolType, Durable, Disk
  <2> QED BY <1>1, <2>1, ValidateLoaded DEF Restart
<1>2. SUFFICES ASSUME ~Restart
               PROVE  batch' # "failed" /\ Exact(pool')
  BY <1>1
<1>3. orderly
  BY <1>2 DEF Next, vars, Submit, Relay, Flush, IdleRelay, ExpireStuck, Tick, AddBlockTx,
              TakeForBlock, ReturnTx, DisconnectBlock, StartBatch, ConnectBlock, AddBlockThrows,
              RejectBlock, StopBatch, AbortBatch, Received
<1>inv. /\ Shaped(pool) /\ Exact(pool) /\ batch # "failed"
        /\ taken \cap Pending(pool) = {}
  BY <1>3, OrderlyFacts
<1>4. ASSUME NEW t \in TxId, NEW method \in Methods \ {"block"}, Submit(t, method)
      PROVE  batch' # "failed" /\ Exact(pool')
  <2>1. t \notin Pending(pool)
    BY <1>4 DEF Submit, Received
  <2> QED BY <1>4, <1>3, <1>inv, <2>1, AdditionExact DEF Submit
<1>5. ASSUME NEW t \in TxId, AddBlockTx(t)
      PROVE  batch' # "failed" /\ Exact(pool')
  <2>1. t \notin Pending(pool)
    BY <1>5 DEF AddBlockTx, Received
  <2> QED BY <1>5, <1>3, <1>inv, <2>1, AdditionExact, Verdicts DEF AddBlockTx, Methods
<1>6. ASSUME NEW t \in TxId, ReturnTx(t)
      PROVE  batch' # "failed" /\ Exact(pool')
  <2>1. t \notin Pending(pool)
    BY <1>6, <1>inv DEF ReturnTx
  <2> QED BY <1>6, <1>3, <1>inv, <2>1, AdditionExact DEF ReturnTx, Methods
<1>7. ASSUME NEW S, pool' = SetRelayed(pool, S)
      PROVE  Exact(pool')
  BY <1>7, <1>inv, SetRelayedShape, UpdateExact
<1>8. ASSUME NEW t \in Pending(pool), pool' = TakeTx(pool, t)
      PROVE  Exact(pool')
  BY <1>8, <1>inv, TakeTxExact
<1>9. CASE ExpireStuck \/ Tick
  <2>1. Exact(pool')
    BY <1>9, <1>inv, RemoveStuckExact, AgeAllExact DEF ExpireStuck, Tick
  <2> QED BY <1>9, <1>inv, <2>1 DEF ExpireStuck, Tick
<1>10. CASE \E t \in TxId : Relay(t) \/ Flush(t) \/ TakeForBlock(t)
  BY <1>10, <1>7, <1>8, <1>inv DEF Relay, Flush, TakeForBlock
<1>11. CASE IdleRelay
  BY <1>11, <1>7, <1>inv DEF IdleRelay
<1>12. CASE StartBatch \/ ConnectBlock \/ RejectBlock \/ StopBatch \/ UNCHANGED vars
            \/ \E S \in SUBSET TxId : DisconnectBlock(S)
  BY <1>12, <1>inv DEF StartBatch, ConnectBlock, RejectBlock, StopBatch, DisconnectBlock, vars
<1>13. ~AddBlockThrows /\ ~AbortBatch
  BY <1>inv DEF AddBlockThrows, AbortBatch
<1> QED BY <1>2, <1>4, <1>5, <1>6, <1>9, <1>10, <1>11, <1>12, <1>13 DEF Next

(***************************************************************************)
(* In an orderly node m_spent_output_key_images lists, for every key       *)
(* image, exactly the pending transactions that spend it.                  *)
(***************************************************************************)
THEOREM KeyImagesStayExact == Spec => []KeyImagesExact
<1>1. ExactInv => KeyImagesExact
  BY DEF ExactInv, KeyImagesExact, Exact
<1> QED BY InitSound, NextSound, InitExact, NextExact, <1>1, PTL DEF Spec

(***************************************************************************)
(* In an orderly node m_txs_by_fee_and_receive_time has exactly one entry  *)
(* per pending transaction, with its receive time.                         *)
(***************************************************************************)
THEOREM OrderStaysExact == Spec => []SortedExact
<1>1. ExactInv => SortedExact
  BY DEF ExactInv, SortedExact, Exact
<1> QED BY InitSound, NextSound, InitExact, NextExact, <1>1, PTL DEF Spec

(***************************************************************************)
(* In an orderly node m_txpool_weight is the weight of the pending         *)
(* transactions, modulo 2^64: additions, evictions, loans, expiry and the  *)
(* reload at start-up adjust it by the right amounts.                      *)
(***************************************************************************)
THEOREM WeightStaysExact == Spec => []WeightExact
<1>1. ExactInv => WeightExact
  BY DEF ExactInv, WeightExact, Exact, Weighed
<1> QED BY InitSound, NextSound, InitExact, NextExact, <1>1, PTL DEF Spec

-----------------------------------------------------------------------------
(* What a step never does.                                                 *)

\* No step of an orderly node loses what the chain or the block thread holds.
LEMMA StepReturnsLoan ==
  SoundInv /\ ExactInv /\ [Next]_vars
    => [orderly' /\ NoRollback => mined \cup taken \subseteq mined' \cup taken' \cup Pending(pool)']_vars
<1> SUFFICES ASSUME SoundInv, ExactInv, [Next]_vars, orderly', NoRollback
             PROVE  mined \cup taken \subseteq mined' \cup taken' \cup Pending(pool)'
  OBVIOUS
<1>1. ASSUME NEW t \in TxId, ReturnTx(t)
      PROVE  mined \cup taken \subseteq mined' \cup taken' \cup Pending(pool)'
  <2>1. orderly /\ t \in taken
    BY <1>1 DEF ReturnTx
  <2>2. Shaped(pool) /\ Exact(pool) /\ t \notin Pending(pool)
    BY <2>1, OrderlyFacts
  <2>3. t \notin Malformed \cup BadOutputs
    BY <2>1 DEF SoundInv, OnlyGood
  <2>4. t \in Pending(pool')
    BY <1>1, <2>2, <2>3, AddTxTakesBack, Verdicts DEF ReturnTx
  <2>5. Pending(pool)' = Pending(pool')
    BY DEF Pending
  <2> QED BY <1>1, <2>4, <2>5 DEF ReturnTx
<1>2. CASE Restart
  <2>1. batch = "idle" /\ taken = {}
    BY <1>2 DEF Restart, NoRollback, Idle, SoundInv, LoanInBatch
  <2> QED BY <1>2, <2>1 DEF Restart, Durable, Disk, Idle
<1>3. ~AbortBatch
  BY OrderlyFacts DEF AbortBatch
<1>4. CASE \E S \in SUBSET TxId : DisconnectBlock(S)
  BY <1>4 DEF DisconnectBlock
<1>5. CASE AddBlockThrows
  BY <1>5 DEF AddBlockThrows
<1>6. CASE ConnectBlock \/ StartBatch \/ StopBatch \/ RejectBlock \/ UNCHANGED vars
  BY <1>6 DEF ConnectBlock, StartBatch, StopBatch, RejectBlock, vars
<1>7. CASE IdleRelay \/ ExpireStuck \/ Tick
  BY <1>7 DEF IdleRelay, ExpireStuck, Tick
<1>8. CASE \E t \in TxId : Relay(t) \/ Flush(t) \/ AddBlockTx(t) \/ TakeForBlock(t)
  BY <1>8 DEF Relay, Flush, AddBlockTx, TakeForBlock
<1>9. CASE \E t \in TxId : \E m \in Methods \ {"block"} : Submit(t, m)
  BY <1>9 DEF Submit
<1> QED BY <1>1, <1>2, <1>3, <1>4, <1>5, <1>6, <1>7, <1>8, <1>9 DEF Next

(***************************************************************************)
(* In an orderly node, a transaction that the chain or the block thread    *)
(* holds stays there or goes back to the pool: return_tx_to_pool is never  *)
(* refused, although its result is only logged.                            *)
(***************************************************************************)
THEOREM LoanAlwaysReturned == Spec => LoanReturned
  BY InitSound, NextSound, InitExact, NextExact, StepReturnsLoan, PTL DEF Spec, LoanReturned

\* Every step of an orderly node that adds a transaction leaves the pool pruned.
LEMMA StepPrunes ==
  ASSUME TotalWeight(TxId) < WMod
  PROVE  SoundInv /\ ExactInv /\ [Next]_vars
           => [(orderly' /\ NoRollback /\ ~(Pending(pool)' \subseteq Pending(pool)))
                  => Bounded(pool)']_vars
<1> SUFFICES ASSUME SoundInv, ExactInv, [Next]_vars, orderly', NoRollback,
                    ~(Pending(pool') \subseteq Pending(pool))
             PROVE  Bounded(pool')
  BY DEF Bounded, Pending, KeptByBlock
<1>typ. Shaped(pool)
  BY DEF SoundInv, TypeOK, Shaped
<1>1. ASSUME NEW t \in TxId, NEW method \in Methods \ {"block"}, Submit(t, method)
      PROVE  Bounded(pool')
  <2>1. orderly /\ t \notin Pending(pool)
    BY <1>1 DEF Submit, Received
  <2> QED BY <1>1, <2>1, AdditionExact DEF Submit
<1>2. ASSUME NEW t \in TxId, AddBlockTx(t)
      PROVE  Bounded(pool')
  <2>1. orderly /\ t \notin Pending(pool)
    BY <1>2 DEF AddBlockTx, Received
  <2> QED BY <1>2, <2>1, AdditionExact, Verdicts DEF AddBlockTx, Methods
<1>3. ASSUME NEW t \in TxId, ReturnTx(t)
      PROVE  Bounded(pool')
  <2>1. orderly /\ t \notin Pending(pool)
    BY <1>3, OrderlyFacts DEF ReturnTx
  <2> QED BY <1>3, <2>1, AdditionExact DEF ReturnTx, Methods
<1>4. ~Restart
  <2>1. ASSUME Restart
        PROVE  FALSE
    <3>1. Idle
      BY <2>1 DEF Restart, NoRollback
    <3>2. pool.txpool \in Tables
      BY <1>typ DEF Shaped, PoolType
    <3>3. pool' = Validate(LoadPool(pool.txpool), mined)
      BY <2>1, <3>1 DEF Restart, Durable, Disk
    <3>4. Pending(pool') \subseteq DOMAIN pool.txpool
      BY <3>2, <3>3, ValidateLoaded
    <3> QED BY <3>4 DEF Pending
  <2> QED BY <2>1
<1>5. ~AbortBatch
  BY OrderlyFacts DEF AbortBatch
<1>6. ASSUME NEW t \in TxId
      PROVE  ~Relay(t) /\ ~Flush(t) /\ ~TakeForBlock(t)
  <2>1. Pending(SetRelayed(pool, {t})) = Pending(pool)
    BY <1>typ, SetRelayedShape
  <2>2. Pending(TakeTx(pool, t)) \subseteq Pending(pool)
    BY <1>typ, TakeTxShape
  <2> QED BY <2>1, <2>2 DEF Relay, Flush, TakeForBlock
<1>7. ~IdleRelay
  BY <1>typ, SetRelayedShape DEF IdleRelay
<1>8. ~ExpireStuck /\ ~Tick
  BY <1>typ, RemoveStuckShape, AgeAllShape DEF ExpireStuck, Tick
<1>9. /\ ~StartBatch /\ ~ConnectBlock /\ ~AddBlockThrows /\ ~RejectBlock /\ ~StopBatch
      /\ ~UNCHANGED vars /\ \A S \in SUBSET TxId : ~DisconnectBlock(S)
  BY DEF StartBatch, ConnectBlock, AddBlockThrows, RejectBlock, StopBatch, DisconnectBlock, vars
<1> QED BY <1>1, <1>2, <1>3, <1>4, <1>5, <1>6, <1>7, <1>8, <1>9 DEF Next

(***************************************************************************)
(* In an orderly node prune keeps the limit: when a step adds a            *)
(* transaction, the pool is then within m_txpool_max_weight, or holds only *)
(* kept-by-block transactions and the best paying one.  The transactions   *)
(* there are have fewer than 2^64 bytes together, so m_txpool_weight, by   *)
(* which prune decides, does not wrap.                                     *)
(***************************************************************************)
THEOREM AlwaysPruned ==
  ASSUME TotalWeight(TxId) < WMod
  PROVE  Spec => PrunedAfterAdd
<1>1. SoundInv /\ ExactInv /\ [Next]_vars
        => [(orderly' /\ NoRollback /\ ~(Pending(pool)' \subseteq Pending(pool)))
               => Bounded(pool)']_vars
  BY StepPrunes
<1> QED BY InitSound, NextSound, InitExact, NextExact, <1>1, PTL DEF Spec, PrunedAfterAdd
=============================================================================
