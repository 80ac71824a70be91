--------------------------- MODULE BlockSyncProofs ---------------------------
(***************************************************************************)
(* Proofs about BlockSync, for any tree of blocks, any peers with any      *)
(* chains, faulty or not, and any bounds.                                  *)
(***************************************************************************)
EXTENDS BlockSync, BlockTreeProofs

(* Helpers.                                                                *)

LEMMA MaxOfTwo ==
  ASSUME NEW a \in Int, NEW b \in Int
  PROVE  Max({a, b}) \in {a, b} /\ Max({a, b}) >= a /\ Max({a, b}) >= b
<1>1. \E x \in {a, b} : \A y \in {a, b} : x >= y
  OBVIOUS
<1> QED
  BY <1>1 DEF Max

LEMMA MinOfTwo ==
  ASSUME NEW a \in Int, NEW b \in Int
  PROVE  Min({a, b}) \in {a, b} /\ Min({a, b}) <= a /\ Min({a, b}) <= b
<1>1. \E x \in {a, b} : \A y \in {a, b} : x <= y
  OBVIOUS
<1> QED
  BY <1>1 DEF Min

LEMMA MaxOfBounded ==
  ASSUME NEW N \in Nat, NEW S \in SUBSET (0 .. N), S # {}
  PROVE  Max(S) \in S /\ \A n \in S : Max(S) >= n
<1>1. \E m \in S : \A n \in S : n <= m
  BY GreatestNumber
<1>2. \E m \in S : \A n \in S : m >= n
  BY <1>1
<1> QED
  BY <1>2 DEF Max

LEMMA IndicesFinite ==
  ASSUME NEW N \in Nat, NEW K, \A k \in K : k \in 1 .. N
  PROVE  IsFiniteSet(K) /\ Cardinality(K) \in Nat
<1> DEFINE I == 1 .. N
<1>1. IsFiniteSet(I) /\ K \subseteq I
  BY FS_Interval
<1> HIDE DEF I
<1> QED
  BY <1>1, FS_Subset, FS_CardinalityType

UpTo(K, n) == {m \in K : m <= n}

\* A finite set of numbers has an i-th element.
LEMMA NthExists ==
  ASSUME NEW N \in Nat, NEW K, \A k \in K : k \in 1 .. N, NEW i \in 1 .. Cardinality(K)
  PROVE  \E n \in K : Cardinality(UpTo(K, n)) = i
<1> DEFINE f(n) == {m \in K : m <= n}
           c(n) == Cardinality(f(n))
           T == {n \in Nat : c(n) >= i}
<1>1. \A k \in K : k \in Nat /\ 1 <= k /\ k <= N
  OBVIOUS
<1>2. Cardinality(K) \in Nat /\ i \in Nat /\ i >= 1 /\ i <= Cardinality(K)
  <2>1. Cardinality(K) \in Nat
    BY IndicesFinite
  <2> QED
    BY <2>1
<1>3. f(N) = K /\ f(0) = {}
  <2>1. f(N) = K
    BY <1>1
  <2>2. \A k \in K : ~(k <= 0)
    BY <1>1
  <2> QED
    BY <2>1, <2>2
<1>4. ASSUME NEW n \in Nat
      PROVE  /\ IsFiniteSet(f(n)) /\ c(n) \in Nat
             /\ n # 0 => f(n - 1) = f(n) \ {n} /\ (n \in K <=> n \in f(n))
  <2>1. \A k \in f(n) : k \in 1 .. N
    OBVIOUS
  <2>2. IsFiniteSet(f(n)) /\ c(n) \in Nat
    <3> HIDE DEF f
    <3> QED
      BY <2>1, IndicesFinite
  <2>3. ASSUME n # 0 PROVE f(n - 1) = f(n) \ {n}
    <3>1. \A k \in K : k <= n - 1 <=> k <= n /\ k # n
      BY <1>1, <2>3
    <3> QED
      BY <3>1
  <2>4. n \in K <=> n \in f(n)
    OBVIOUS
  <2> QED
    BY <2>2, <2>3, <2>4
<1> HIDE DEF f
<1>5. T \in SUBSET Nat /\ N \in T
  BY <1>2, <1>3
<1>6. PICK n \in T : \A m \in T : n <= m
  <2> HIDE DEF T
  <2> QED
    BY <1>5, LeastNumber
<1>7. c(0) = 0
  BY <1>3, FS_EmptySet
<1>8. n \in Nat /\ n - 1 \in Nat /\ n # 0
  BY <1>2, <1>6, <1>7
<1>9. c(n) \in Nat /\ c(n - 1) \in Nat
  BY <1>4, <1>8
<1>10. n - 1 \notin T
  BY <1>6, <1>8
<1>11. c(n) >= i /\ c(n - 1) < i
  BY <1>2, <1>6, <1>8, <1>9, <1>10
<1>12. n \in K
  <2>1. SUFFICES ASSUME n \notin K PROVE FALSE
    OBVIOUS
  <2>2. f(n - 1) = f(n)
    BY <1>4, <1>8, <2>1
  <2>3. c(n - 1) = c(n)
    BY <2>2
  <2> QED
    BY <1>2, <1>9, <1>11, <2>3
<1>13. c(n - 1) = c(n) - 1
  <2>1. f(n - 1) = f(n) \ {n} /\ n \in f(n) /\ IsFiniteSet(f(n))
    BY <1>4, <1>8, <1>12
  <2> QED
    BY <2>1, FS_RemoveElement
<1>14. c(n) = i
  BY <1>2, <1>9, <1>11, <1>13
<1> QED
  BY <1>12, <1>14 DEF f, UpTo

\* Kept takes its elements from the indices it is given.
LEMMA KeptFrom ==
  ASSUME NEW S, NEW q \in Seq(S), NEW K, \A k \in K : k \in 1 .. Len(q)
  PROVE  Kept(q, K) \in Seq({q[n] : n \in K})
<1> DEFINE nth(i) == CHOOSE n \in K : Cardinality(UpTo(K, n)) = i
<1>1. Len(q) \in Nat /\ Cardinality(K) \in Nat
  <2>1. Len(q) \in Nat
    OBVIOUS
  <2> QED
    BY <2>1, IndicesFinite
<1>2. ASSUME NEW i \in 1 .. Cardinality(K) PROVE nth(i) \in K
  <2>1. \E n \in K : Cardinality(UpTo(K, n)) = i
    BY <1>1, NthExists
  <2> QED
    BY <2>1
<1>3. Kept(q, K) = [i \in 1 .. Cardinality(K) |-> q[nth(i)]]
  BY DEF Kept, UpTo
<1> HIDE DEF nth
<1> QED
  BY <1>1, <1>2, <1>3

-----------------------------------------------------------------------------
(* The inductive invariant.                                                *)

\* Blocks of successive heights, the first of height h.
Aligned(blocks, h) ==
  blocks \in Seq(Block) /\ \A i \in 1 .. Len(blocks) : Height(blocks[i]) = h + i - 1

Linked(blocks) == blocks \in Seq(Block) /\ (blocks # <<>> => Aligned(blocks, Height(blocks[1])))

CtxType ==
  [state : {"closed", "synchronizing", "standby", "normal"}, needed : Seq(Block),
   requested : SUBSET Block, remote : Nat, lrh : Int, waiting : BOOLEAN, callbacks : Nat,
   lastKnown : BOOLEAN, score : Int, expect : {"none", "chain", "objects"}, expectHeight : Int]

CtxOk(c) == c \in CtxType /\ Aligned(c.needed, FirstNeeded(c))

Msg ==
  {m \in [type : {"chain", "objects"}, blocks : Seq(Block), from : Block] : Linked(m.blocks)}

IsSpan(s) == s.peer \in Peer /\ Linked(s.blocks) /\ s.blocks # <<>> /\ s.start \in Int

IsQueue(q) == \E S : q \in Seq(S) /\ \A s \in S : IsSpan(s)

QueueOk == \E S : queue \in Seq(S) /\ \A s \in S : IsSpan(s)

\* Core has no block above its tip.
CoreOk == have \in SUBSET Block /\ tip \in Block /\ \A b \in have : Height(b) <= Height(tip)

PcPlaces == {"idle", "try", "adding", "leave", "ask", "force"}

ConnOk ==
  /\ ctx \in [Peer -> CtxType] /\ net \in [Peer -> Seq(Msg)]
  /\ \A p \in Peer : CtxOk(ctx[p]) /\ (ctx[p].state = "closed" => ctx[p].expect = "none")
  /\ pc \in [Peer -> PcPlaces]

\* What an open connection claims is the chain of its peer, which is within the target or
\* within our own chain.
ClaimsOk ==
  \A p \in Peer :
    /\ ctx[p].remote = IF Open(p) THEN Height(top[p]) + 1 ELSE 0
    /\ ctx[p].remote <= target \/ ctx[p].remote <= ChainHeight

SyncInv ==
  CoreOk /\ QueueOk /\ ConnOk /\ ClaimsOk /\ target \in Nat /\ synced \in BOOLEAN

-----------------------------------------------------------------------------
(* request_missing_objects.                                                *)

LEMMA ClosedOk == CtxOk(Closed)
  BY DEF CtxOk, CtxType, Closed, Aligned, FirstNeeded

\* A suffix of aligned blocks is aligned.
LEMMA SuffixAligned ==
  ASSUME NEW c \in CtxType, NEW n \in 0 .. Len(c.needed), Aligned(c.needed, FirstNeeded(c))
  PROVE  LET s == SubSeq(c.needed, n + 1, Len(c.needed))
         IN  s \in Seq(Block) /\ Aligned(s, c.lrh - Len(s) + 1)
<1> DEFINE b == c.needed
           s == SubSeq(b, n + 1, Len(b))
<1>1. b \in Seq(Block) /\ Len(b) \in Nat /\ c.lrh \in Int /\ n \in Nat /\ n <= Len(b)
  BY DEF CtxType
<1>2. s \in Seq(Block) /\ Len(s) = Len(b) - n /\ \A i \in 1 .. Len(s) : s[i] = b[n + i]
  BY <1>1
<1>3. ASSUME NEW i \in 1 .. Len(s) PROVE Height(s[i]) = c.lrh - Len(s) + 1 + i - 1
  <2>1. n + i \in 1 .. Len(b) /\ i \in Nat
    BY <1>1, <1>2
  <2>2. Height(b[n + i]) = (c.lrh - Len(b) + 1) + (n + i) - 1
    BY <2>1 DEF Aligned, FirstNeeded
  <2>3. s[i] = b[n + i] /\ Len(s) = Len(b) - n
    BY <1>2
  <2> HIDE DEF s, b
  <2> QED
    BY <1>1, <2>1, <2>2, <2>3
<1> QED
  BY <1>2, <1>3 DEF Aligned

\* A prefix of aligned blocks is linked.
LEMMA PrefixLinked ==
  ASSUME NEW c \in CtxType, NEW n \in 0 .. Len(c.needed), Aligned(c.needed, FirstNeeded(c))
  PROVE  Linked(SubSeq(c.needed, 1, n))
<1> DEFINE b == c.needed
           s == SubSeq(b, 1, n)
<1>1. b \in Seq(Block) /\ Len(b) \in Nat /\ c.lrh \in Int /\ n \in Nat /\ n <= Len(b)
  BY DEF CtxType
<1>2. s \in Seq(Block) /\ Len(s) = n /\ \A i \in 1 .. n : s[i] = b[i]
  BY <1>1
<1>3. ASSUME s # <<>>, NEW i \in 1 .. n PROVE Height(s[i]) = Height(s[1]) + i - 1
  <2>1. i \in 1 .. Len(b) /\ 1 \in 1 .. Len(b) /\ 1 \in 1 .. n /\ i \in Nat
    BY <1>1
  <2>2. Height(b[i]) = (c.lrh - Len(b) + 1) + i - 1 /\ Height(b[1]) = (c.lrh - Len(b) + 1) + 1 - 1
    BY <2>1 DEF Aligned, FirstNeeded
  <2> QED
    BY <1>1, <1>2, <2>1, <2>2
<1> QED
  BY <1>2, <1>3 DEF Aligned, Linked

LEMMA LeadingType ==
  ASSUME NEW c \in CtxType
  PROVE  Leading(c) \in 0 .. Len(c.needed)
<1> DEFINE N == Len(c.needed)
           S == {0} \cup {i \in 1 .. N : \A j \in 1 .. i : c.needed[j] \in have}
<1>1. N \in Nat
  BY DEF CtxType
<1>2. S \in SUBSET (0 .. N) /\ S # {}
  BY <1>1
<1>3. Max(S) \in S
  <2> HIDE DEF S, N
  <2> QED
    BY <1>1, <1>2, MaxOfBounded
<1>4. Leading(c) = Max(S)
  BY DEF Leading
<1> HIDE DEF S
<1> QED
  BY <1>2, <1>3, <1>4

LEMMA SkipOk ==
  ASSUME NEW c, CtxOk(c)
  PROVE  LET k == SkipUnneeded(c)
         IN  CtxOk(k) /\ k.remote = c.remote /\ k.state = c.state
<1> DEFINE n == Leading(c)
           s == SubSeq(c.needed, n + 1, Len(c.needed))
<1>1. c \in CtxType /\ n \in 0 .. Len(c.needed)
  BY LeadingType DEF CtxOk
<1>2. s \in Seq(Block) /\ Aligned(s, c.lrh - Len(s) + 1)
  <2> HIDE DEF n
  <2> QED
    BY <1>1, SuffixAligned DEF CtxOk
<1>3. SkipUnneeded(c) = [c EXCEPT !.needed = s]
  BY DEF SkipUnneeded
<1> HIDE DEF s
<1>4. /\ [c EXCEPT !.needed = s] \in CtxType /\ [c EXCEPT !.needed = s].needed = s
      /\ [c EXCEPT !.needed = s].lrh = c.lrh
      /\ [c EXCEPT !.needed = s].remote = c.remote /\ [c EXCEPT !.needed = s].state = c.state
  BY <1>1, <1>2 DEF CtxType
<1> QED
  BY <1>2, <1>3, <1>4 DEF CtxOk, FirstNeeded

\* An answer of request_missing_objects: the context stays sound, what is sent is linked, and
\* the connection has something to wait for or is in the normal state.
AnswerOk(c, r) ==
  r.ok =>
    /\ CtxOk(r.c) /\ r.send \in Seq(Msg)
    /\ r.c.remote = c.remote /\ (c.state # "closed" => r.c.state # "closed")
    /\ r.c.waiting \/ r.c.callbacks > 0 \/ r.c.state = "normal"

LEMMA FailureOk ==
  ASSUME NEW c
  PROVE  AnswerOk(c, Failure)
  BY DEF AnswerOk, Failure

LEMMA AskObjectsOk ==
  ASSUME NEW c, CtxOk(c), NEW blocks, Linked(blocks), NEW h \in Int
  PROVE  AnswerOk(c, AskObjects(c, blocks, h))
<1> DEFINE d == [c EXCEPT !.waiting = TRUE, !.expect = "objects", !.expectHeight = h]
           m == [type |-> "objects", blocks |-> blocks, from |-> Genesis]
<1>1. /\ d \in CtxType /\ d.waiting = TRUE /\ d.needed = c.needed /\ d.lrh = c.lrh
      /\ d.remote = c.remote /\ d.state = c.state
  BY DEF CtxOk, CtxType
<1>2. m \in Msg
  BY TreeAssumption DEF Msg, Linked
<1>3. AskObjects(c, blocks, h) = [ok |-> TRUE, c |-> d, send |-> <<m>>]
  BY DEF AskObjects, Success
<1> HIDE DEF d, m
<1>4. CtxOk(d)
  BY <1>1 DEF CtxOk, FirstNeeded
<1> QED
  BY <1>1, <1>2, <1>3, <1>4 DEF AnswerOk

LEMMA HeadIsSpan ==
  ASSUME QueueOk, queue # <<>>
  PROVE  IsSpan(Head(queue))
  BY DEF QueueOk

LEMMA AskNextOk ==
  ASSUME NEW c, CtxOk(c), QueueOk, queue # <<>>
  PROVE  AnswerOk(c, AskNext(c))
<1>1. Head(queue).start \in Int
  BY HeadIsSpan DEF IsSpan
<1>2. Linked(<<>>)
  BY DEF Linked
<1> QED
  BY <1>1, <1>2, AskObjectsOk DEF AskNext

LEMMA ReservedType ==
  ASSUME NEW c \in CtxType
  PROVE  Reserved(c) \in 0 .. Len(c.needed)
<1> DEFINE n == Len(c.needed)
           m == Min({n, SpanSize})
<1>1. n \in Nat /\ SpanSize \in Nat
  BY PeerAssumption DEF CtxType
<1>2. m \in {n, SpanSize} /\ m <= n
  <2> HIDE DEF n
  <2> QED
    BY <1>1, MinOfTwo
<1>3. Reserved(c) \in {0, m}
  BY DEF Reserved
<1> HIDE DEF m
<1> QED
  BY <1>1, <1>2, <1>3

LEMMA AskSpanOk ==
  ASSUME NEW c, CtxOk(c)
  PROVE  AnswerOk(c, AskSpan(c))
<1> DEFINE n == Reserved(c)
           blocks == SubSeq(c.needed, 1, n)
           rest == SubSeq(c.needed, n + 1, Len(c.needed))
           req == c.requested \cup Range(blocks)
           d == [c EXCEPT !.requested = req, !.needed = rest]
           h == FirstNeeded(c)
<1>1. c \in CtxType /\ n \in 0 .. Len(c.needed)
  BY ReservedType DEF CtxOk
<1>2. rest \in Seq(Block) /\ Aligned(rest, c.lrh - Len(rest) + 1) /\ Linked(blocks)
  <2> HIDE DEF n
  <2> QED
    BY <1>1, SuffixAligned, PrefixLinked DEF CtxOk
<1>3. h \in Int
  BY <1>1 DEF FirstNeeded, CtxType
<1>4. req \in SUBSET Block
  <2>1. blocks \in Seq(Block) /\ c.requested \in SUBSET Block
    BY <1>1, <1>2 DEF Linked, CtxType
  <2> HIDE DEF blocks
  <2>2. \A i \in DOMAIN blocks : blocks[i] \in Block
    BY <2>1
  <2> QED
    BY <2>1, <2>2 DEF Range
<1>5. AskSpan(c) = AskObjects(d, blocks, h)
  BY DEF AskSpan
<1> HIDE DEF n, blocks, rest, req, h
<1>6. /\ d \in CtxType /\ d.needed = rest /\ d.lrh = c.lrh
      /\ d.remote = c.remote /\ d.state = c.state
  BY <1>1, <1>2, <1>4 DEF CtxType
<1> HIDE DEF d
<1>7. CtxOk(d)
  BY <1>2, <1>6 DEF CtxOk, FirstNeeded
<1>8. AnswerOk(d, AskObjects(d, blocks, h))
  BY <1>2, <1>3, <1>7, AskObjectsOk
<1> QED
  BY <1>5, <1>6, <1>8 DEF AnswerOk

LEMMA CommonOk ==
  ASSUME CoreOk, NEW p \in Peer
  PROVE  Common(p) \in Block
<1>1. top[p] \in Block /\ tip \in Block
  BY PeerAssumption DEF CoreOk
<1>2. Common(p) \in path[tip] \cap path[top[p]]
  BY <1>1, LastCommon DEF Common
<1> QED
  BY <1>1, <1>2, PathEnds

LEMMA AskChainOk ==
  ASSUME CoreOk, NEW p \in Peer, NEW c, CtxOk(c), NEW h \in Int
  PROVE  AnswerOk(c, AskChain(p, c, h)) /\ AskChain(p, c, h).ok /\ AskChain(p, c, h).c.waiting
<1> DEFINE d == [c EXCEPT !.waiting = TRUE, !.expect = "chain", !.expectHeight = h]
           m == [type |-> "chain", blocks |-> <<>>, from |-> Common(p)]
<1>1. /\ d \in CtxType /\ d.waiting = TRUE /\ d.needed = c.needed /\ d.lrh = c.lrh
      /\ d.remote = c.remote /\ d.state = c.state
  BY DEF CtxOk, CtxType
<1>2. m \in Msg
  <2>1. Common(p) \in Block
    BY CommonOk
  <2>2. Linked(<<>>)
    BY DEF Linked
  <2> QED
    BY <2>1, <2>2 DEF Msg
<1>3. AskChain(p, c, h) = [ok |-> TRUE, c |-> d, send |-> <<m>>]
  BY DEF AskChain, Success
<1> HIDE DEF d, m
<1>4. CtxOk(d)
  BY <1>1 DEF CtxOk, FirstNeeded
<1> QED
  BY <1>1, <1>2, <1>3, <1>4 DEF AnswerOk

LEMMA AskMoreOk ==
  ASSUME CoreOk, NEW p \in Peer, NEW c, CtxOk(c), NEW free
  PROVE  AnswerOk(c, AskMore(p, c, free))
<1>1. c \in CtxType /\ AnyHeight \in Int /\ ChainHeight \in Int
  BY PeerAssumption, FS_CardinalityType, HeightType
     DEF CtxOk, CoreOk, AnyHeight, ChainHeight
<1>2. AnswerOk(c, Success([c EXCEPT !.state = "standby", !.callbacks = @ + 1], <<>>))
  <2> DEFINE d == [c EXCEPT !.state = "standby", !.callbacks = @ + 1]
  <2>1. /\ d \in CtxType /\ d.needed = c.needed /\ d.lrh = c.lrh /\ d.callbacks > 0
        /\ d.remote = c.remote /\ d.state = "standby"
    <3>1. c.callbacks + 1 \in Nat /\ c.callbacks + 1 > 0
      BY <1>1 DEF CtxType
    <3>2. d \in CtxType
      BY <1>1, <3>1 DEF CtxType
    <3>3. d.callbacks = c.callbacks + 1
      BY <1>1 DEF CtxType
    <3> QED
      BY <1>1, <3>1, <3>2, <3>3 DEF CtxType
  <2> HIDE DEF d
  <2>2. CtxOk(d)
    BY <2>1 DEF CtxOk, FirstNeeded
  <2>3. AnswerOk(c, Success(d, <<>>))
    BY <2>1, <2>2 DEF AnswerOk, Success
  <2> QED
    BY <2>3 DEF d
<1>3. AnswerOk(c, AskChain(p, c, IF c.lastKnown THEN AnyHeight ELSE ChainHeight))
  BY <1>1, AskChainOk
<1>4. AnswerOk(c, Success([c EXCEPT !.state = "normal"], <<>>))
  <2> DEFINE d == [c EXCEPT !.state = "normal"]
  <2>1. /\ d \in CtxType /\ d.needed = c.needed /\ d.lrh = c.lrh
        /\ d.remote = c.remote /\ d.state = "normal"
    BY <1>1 DEF CtxType
  <2> HIDE DEF d
  <2>2. CtxOk(d)
    BY <2>1 DEF CtxOk, FirstNeeded
  <2>3. AnswerOk(c, Success(d, <<>>))
    BY <2>1, <2>2 DEF AnswerOk, Success
  <2> QED
    BY <2>3 DEF d
<1> QED
  BY <1>2, <1>3, <1>4, FailureOk DEF AskMore

\* A context whose hashes are dropped.
LEMMA NoneOk ==
  ASSUME NEW c, CtxOk(c)
  PROVE  LET d == [c EXCEPT !.needed = <<>>]
         IN  CtxOk(d) /\ d.remote = c.remote /\ d.state = c.state /\ d.needed = <<>>
<1> DEFINE d == [c EXCEPT !.needed = <<>>]
<1>1. c \in CtxType
  BY DEF CtxOk
<1>2. d \in CtxType /\ d.needed = <<>> /\ d.remote = c.remote /\ d.state = c.state
  <2>1. ASSUME NEW s \in Seq(Block)
        PROVE  LET e == [c EXCEPT !.needed = s]
               IN  e \in CtxType /\ e.needed = s /\ e.remote = c.remote /\ e.state = c.state
    BY <1>1 DEF CtxType
  <2>2. <<>> \in Seq(Block)
    OBVIOUS
  <2> QED
    BY <2>1, <2>2
<1> HIDE DEF d
<1>3. CtxOk(d)
  <2>1. Aligned(<<>>, FirstNeeded(d))
    BY DEF Aligned
  <2> QED
    BY <1>2, <2>1 DEF CtxOk
<1> QED
  BY <1>2, <1>3 DEF d

LEMMA ZeroOk ==
  ASSUME NEW c, CtxOk(c), c.needed = <<>>
  PROVE  LET d == [c EXCEPT !.lrh = 0]
         IN  CtxOk(d) /\ d.remote = c.remote /\ d.state = c.state
<1> DEFINE d == [c EXCEPT !.lrh = 0]
<1>1. c \in CtxType
  BY DEF CtxOk
<1>2. d \in CtxType /\ d.needed = <<>> /\ d.remote = c.remote /\ d.state = c.state
  BY <1>1 DEF CtxType
<1> HIDE DEF d
<1>3. CtxOk(d)
  <2>1. Aligned(<<>>, FirstNeeded(d))
    BY DEF Aligned
  <2> QED
    BY <1>2, <2>1 DEF CtxOk
<1> QED
  BY <1>2, <1>3 DEF d

LEMMA RequestOk ==
  ASSUME CoreOk, QueueOk, NEW p \in Peer, NEW c, CtxOk(c), NEW force \in BOOLEAN, NEW free
  PROVE  AnswerOk(c, RequestMissing(p, c, force, free))
<1> DEFINE k == SkipUnneeded(c)
           none == [c EXCEPT !.needed = <<>>]
           zero == [none EXCEPT !.lrh = 0]
<1>1. CtxOk(k) /\ k.remote = c.remote /\ k.state = c.state
  BY SkipOk
<1>2. CtxOk(none) /\ none.remote = c.remote /\ none.state = c.state /\ none.needed = <<>>
  BY NoneOk
<1>3. CtxOk(zero) /\ zero.remote = c.remote /\ zero.state = c.state
  <2> HIDE DEF none
  <2> QED
    BY <1>2, ZeroOk
<1>4. queue # <<>> => AnswerOk(c, AskNext(c)) /\ AnswerOk(k, AskNext(k))
  BY <1>1, AskNextOk
<1>5. AnswerOk(none, AskMore(p, none, free)) /\ AnswerOk(zero, AskMore(p, zero, free))
  BY <1>2, <1>3, AskMoreOk
<1>6. AnswerOk(k, AskSpan(k))
  BY <1>1, AskSpanOk
<1>7. RequestMissing(p, c, force, free) \in
        {AskMore(p, none, free), AskMore(p, zero, free), Failure, AskSpan(k)}
        \cup (IF queue # <<>> THEN {AskNext(c), AskNext(k)} ELSE {})
  BY DEF RequestMissing
<1> HIDE DEF k, none, zero
<1>8. \A r : AnswerOk(none, r) \/ AnswerOk(zero, r) \/ AnswerOk(k, r) => AnswerOk(c, r)
  BY <1>1, <1>2, <1>3 DEF AnswerOk
<1>9. /\ AnswerOk(c, AskMore(p, none, free)) /\ AnswerOk(c, AskMore(p, zero, free))
      /\ AnswerOk(c, AskSpan(k)) /\ AnswerOk(c, Failure)
      /\ queue # <<>> => AnswerOk(c, AskNext(c)) /\ AnswerOk(c, AskNext(k))
  BY <1>4, <1>5, <1>6, <1>8, FailureOk
<1> QED
  BY <1>7, <1>9

-----------------------------------------------------------------------------
(* What the steps leave of the invariant.                                  *)

LEMMA ChainHeightType ==
  ASSUME CoreOk
  PROVE  ChainHeight \in Nat /\ Height(tip) \in Nat
  BY HeightType DEF CoreOk, ChainHeight

\* The context of one connection changes.
LEMMA UpdateOk ==
  ASSUME CoreOk, CoreOk', Height(tip) <= Height(tip'), ConnOk, ClaimsOk,
         target \in Nat, target' \in Nat, target <= target',
         NEW p \in Peer, NEW d, CtxOk(d), ctx' = [ctx EXCEPT ![p] = d],
         d.state = "closed" => d.expect = "none",
         d.remote = IF d.state # "closed" THEN Height(top[p]) + 1 ELSE 0,
         d.remote <= target' \/ d.remote <= ChainHeight',
         net' \in [Peer -> Seq(Msg)], pc' \in [Peer -> PcPlaces]
  PROVE  ConnOk' /\ ClaimsOk'
<1>1. /\ d \in CtxType /\ ctx \in [Peer -> CtxType]
      /\ \A q \in Peer : CtxOk(ctx[q]) /\ (ctx[q].state = "closed" => ctx[q].expect = "none")
  BY DEF CtxOk, ConnOk
<1>2. /\ ctx' \in [Peer -> CtxType] /\ ctx'[p] = d
      /\ \A q \in Peer \ {p} : ctx'[q] = ctx[q]
  BY <1>1
<1>3. \A q \in Peer : CtxOk(ctx'[q]) /\ (ctx'[q].state = "closed" => ctx'[q].expect = "none")
  BY <1>1, <1>2
<1>4. ConnOk'
  BY <1>2, <1>3 DEF ConnOk, CtxOk, FirstNeeded, Aligned
<1>5. ASSUME NEW q \in Peer \ {p}
      PROVE  /\ ctx'[q].remote = IF Open(q)' THEN Height(top[q]) + 1 ELSE 0
             /\ ctx'[q].remote <= target' \/ ctx'[q].remote <= ChainHeight'
  <2>1. /\ ctx[q].remote = IF ctx[q].state # "closed" THEN Height(top[q]) + 1 ELSE 0
        /\ ctx[q].remote <= target \/ ctx[q].remote <= ChainHeight
    BY DEF ClaimsOk, Open
  <2>2. ChainHeight \in Nat /\ ChainHeight' \in Nat /\ ChainHeight <= ChainHeight'
    BY HeightType DEF CoreOk, ChainHeight
  <2>3. ctx[q].remote \in Nat
    BY <1>1 DEF CtxType
  <2> QED
    BY <1>2, <2>1, <2>2, <2>3 DEF Open
<1>6. ClaimsOk'
  BY <1>2, <1>5 DEF ClaimsOk, Open
<1> QED
  BY <1>4, <1>6

\* Connections are closed, and the target goes down to what the others claim.
LEMMA CloseOk ==
  ASSUME CoreOk, CoreOk', Height(tip) <= Height(tip'), ConnOk, ClaimsOk, target \in Nat,
         NEW S \in SUBSET Peer, CloseAll(S), pc' \in [Peer -> PcPlaces]
  PROVE  ConnOk' /\ ClaimsOk' /\ target' \in Nat
<1> DEFINE R == {0} \cup {ctx[q].remote : q \in {r \in Peer \ S : Open(r)}}
           M == Max(R)
           N == target + ChainHeight
<1>1. /\ ChainHeight \in Nat /\ ChainHeight' \in Nat /\ ChainHeight <= ChainHeight'
  BY HeightType DEF CoreOk, ChainHeight
<1>2. \A q \in Peer : ctx[q] \in CtxType /\ CtxOk(ctx[q]) /\ ctx[q].remote \in Nat
  BY DEF ConnOk, CtxType
<1>3. \A q \in Peer : ctx[q].remote <= target \/ ctx[q].remote <= ChainHeight
  BY DEF ClaimsOk
<1>4. N \in Nat /\ R \in SUBSET (0 .. N) /\ R # {}
  <2>1. \A q \in Peer : ctx[q].remote \in 0 .. N
    BY <1>1, <1>2, <1>3
  <2>2. N \in Nat /\ 0 \in 0 .. N
    BY <1>1
  <2> HIDE DEF N
  <2> QED
    BY <2>1, <2>2
<1>5. M \in R /\ \A n \in R : M >= n
  <2> HIDE DEF R, N
  <2> QED
    BY <1>4, MaxOfBounded
<1>6. M \in Nat
  BY <1>2, <1>5
<1>7. target' = Min({target, M})
  BY DEF CloseAll, TargetWithout
<1>8. target' \in {target, M} /\ target' <= target /\ target' \in Nat
  <2> HIDE DEF M
  <2>1. Min({target, M}) \in {target, M} /\ Min({target, M}) <= target
    BY <1>6, MinOfTwo
  <2> QED
    BY <1>6, <1>7, <2>1
<1>9. /\ \A q \in S : ctx'[q] = Closed
      /\ \A q \in Peer \ S : ctx'[q] = ctx[q]
      /\ ctx' \in [Peer -> CtxType] /\ net' \in [Peer -> Seq(Msg)]
  <2>1. Closed \in CtxType /\ net \in [Peer -> Seq(Msg)]
    BY ClosedOk DEF CtxOk, ConnOk
  <2>2. net' \in [Peer -> Seq(Msg)]
    BY <2>1 DEF CloseAll
  <2>3. ctx' = [q \in Peer |-> IF q \in S THEN Closed ELSE ctx[q]]
    BY DEF CloseAll
  <2> HIDE DEF R, M, N
  <2>4. ctx' \in [Peer -> CtxType]
    BY <1>2, <2>1, <2>3
  <2>5. \A q \in Peer : ctx'[q] = IF q \in S THEN Closed ELSE ctx[q]
    BY <2>3
  <2> QED
    BY <2>2, <2>4, <2>5
<1>10. \A q \in Peer : CtxOk(ctx'[q]) /\ (ctx'[q].state = "closed" => ctx'[q].expect = "none")
  <2>1. CtxOk(Closed) /\ Closed.expect = "none"
    BY ClosedOk DEF Closed
  <2>2. \A q \in Peer : ctx[q].state = "closed" => ctx[q].expect = "none"
    BY DEF ConnOk
  <2> QED
    BY <1>2, <1>9, <2>1, <2>2
<1>11. ConnOk'
  BY <1>9, <1>10 DEF ConnOk, CtxOk, FirstNeeded, Aligned
<1>12. ASSUME NEW q \in Peer
       PROVE  /\ ctx'[q].remote = IF Open(q)' THEN Height(top[q]) + 1 ELSE 0
              /\ ctx'[q].remote <= target' \/ ctx'[q].remote <= ChainHeight'
  <2>1. CASE q \in S
    BY <1>8, <1>9, <2>1 DEF Closed, Open
  <2>2. CASE q \notin S /\ Open(q)
    <3>1. ctx'[q] = ctx[q] /\ ctx[q].remote \in R
      BY <1>9, <2>2
    <3>2. ctx[q].remote <= M
      BY <1>2, <1>5, <1>6, <3>1
    <3>3. ctx[q].remote = Height(top[q]) + 1
      BY <2>2 DEF ClaimsOk
    <3> HIDE DEF M
    <3> QED
      BY <1>1, <1>2, <1>3, <1>6, <1>8, <2>2, <3>1, <3>2, <3>3 DEF Open
  <2>3. CASE q \notin S /\ ~Open(q)
    <3>1. ctx'[q] = ctx[q] /\ ctx[q].remote = 0
      BY <1>9, <2>3 DEF ClaimsOk
    <3> QED
      BY <1>8, <2>3, <3>1 DEF Open
  <2> QED
    BY <2>1, <2>2, <2>3
<1>13. ClaimsOk'
  BY <1>12 DEF ClaimsOk
<1> QED
  BY <1>8, <1>11, <1>13

\* A context that waits, is called back or is in the normal state does not stall.
Awake(c) == c.waiting \/ c.callbacks > 0 \/ c.state = "normal"

\* A step of p: the invariant is kept, p does not stall, the others' contexts stay, and the
\* node only declares itself synchronized when nobody claims more.
StepOk(p) ==
  /\ SyncInv'
  /\ \A q \in Peer \ {p} : ctx'[q] = ctx[q]
  /\ ctx'[p].state # "closed" => Awake(ctx'[p])
  /\ synced' /\ ~synced => \A q \in Peer : ctx'[q].remote <= ChainHeight'

LEMMA GoOnOk ==
  ASSUME SyncInv, NEW p \in Peer, NEW c, CtxOk(c), NEW force \in BOOLEAN,
         NEW sent \in Seq(Msg), NEW seen \in Nat,
         Open(p) => c.remote = ctx[p].remote /\ c.state # "closed",
         GoOn(p, c, force, sent, seen), UNCHANGED <<have, tip, queue>>,
         pc' \in [Peer -> PcPlaces]
  PROVE  StepOk(p)
<1>1. PICK r \in {RequestMissing(p, c, force, lock = {})} :
        IF Open(p) /\ r.ok
          THEN /\ ctx' = [ctx EXCEPT ![p] = r.c]
               /\ net' = [net EXCEPT ![p] = sent \o r.send]
               /\ target' = Max({target, seen})
               /\ synced' = (synced \/ Synchronized(r.c))
          ELSE CloseAll({p}) /\ UNCHANGED synced
  BY DEF GoOn
<1>2. /\ CoreOk /\ QueueOk /\ ConnOk /\ ClaimsOk /\ target \in Nat /\ synced \in BOOLEAN
      /\ CoreOk' /\ QueueOk' /\ ChainHeight' = ChainHeight
  BY DEF SyncInv, CoreOk, QueueOk, ChainHeight
<1>3. AnswerOk(c, r)
  BY <1>1, <1>2, RequestOk
<1>4. ChainHeight \in Nat /\ Height(tip) \in Nat /\ Height(tip) <= Height(tip')
  BY <1>2, ChainHeightType
<1>5. \A q \in Peer : ctx[q] \in CtxType /\ ctx[q].remote \in Nat
  BY <1>2 DEF ConnOk, CtxType
<1>6. CASE Open(p) /\ r.ok
  <2> DEFINE d == r.c
             t == r.send
  <2>1. /\ ctx' = [ctx EXCEPT ![p] = d] /\ net' = [net EXCEPT ![p] = sent \o t]
        /\ target' = Max({target, seen}) /\ synced' = (synced \/ Synchronized(d))
    BY <1>1, <1>6
  <2>2. /\ CtxOk(d) /\ t \in Seq(Msg) /\ d.remote = ctx[p].remote /\ d.state # "closed"
        /\ d.waiting \/ d.callbacks > 0 \/ d.state = "normal"
    BY <1>3, <1>6 DEF AnswerOk
  <2> HIDE DEF d, t
  <2>3. target' \in Nat /\ target <= target'
    <3>1. target \in Int /\ seen \in Int
      BY <1>2
    <3>2. Max({target, seen}) \in {target, seen} /\ Max({target, seen}) >= target
      BY <3>1, MaxOfTwo
    <3> QED
      BY <1>2, <2>1, <3>2
  <2>4. net' \in [Peer -> Seq(Msg)]
    <3>1. net \in [Peer -> Seq(Msg)]
      BY <1>2 DEF ConnOk
    <3>2. sent \o t \in Seq(Msg)
      BY <2>2
    <3> QED
      BY <2>1, <3>1, <3>2
  <2>5. d.remote = Height(top[p]) + 1 /\ (d.remote <= target \/ d.remote <= ChainHeight)
    BY <1>2, <1>6, <2>2 DEF ClaimsOk
  <2>6. d.remote <= target' \/ d.remote <= ChainHeight'
    <3>1. d.remote \in Nat
      BY <1>5, <2>2
    <3> QED
      BY <1>2, <1>4, <2>3, <2>5, <3>1
  <2>7. ConnOk' /\ ClaimsOk'
    BY <1>2, <1>4, <2>1, <2>2, <2>3, <2>4, <2>5, <2>6, UpdateOk
  <2>8. synced' \in BOOLEAN
    BY <2>1 DEF Synchronized
  <2>9. ctx'[p] = d /\ \A q \in Peer \ {p} : ctx'[q] = ctx[q]
    BY <1>2, <2>1 DEF ConnOk
  <2>10. ASSUME synced', ~synced, NEW q \in Peer PROVE ctx'[q].remote <= ChainHeight'
    <3>1. ChainHeight >= target
      BY <2>1, <2>10 DEF Synchronized
    <3>2. ctx'[q].remote = ctx[q].remote
      BY <2>2, <2>9
    <3>3. ctx[q].remote <= target \/ ctx[q].remote <= ChainHeight
      BY <1>2 DEF ClaimsOk
    <3> QED
      BY <1>2, <1>4, <1>5, <3>1, <3>2, <3>3
  <2>11. SyncInv'
    BY <1>2, <2>3, <2>7, <2>8 DEF SyncInv
  <2> QED
    BY <2>2, <2>9, <2>10, <2>11 DEF StepOk, Awake
<1>7. CASE ~(Open(p) /\ r.ok)
  <2>1. CloseAll({p}) /\ synced' = synced
    BY <1>1, <1>7
  <2>2. ConnOk' /\ ClaimsOk' /\ target' \in Nat
    BY <1>2, <1>4, <2>1, CloseOk
  <2>3. ctx'[p] = Closed /\ \A q \in Peer \ {p} : ctx'[q] = ctx[q]
    BY <2>1 DEF CloseAll
  <2>4. ctx'[p].state = "closed"
    BY <2>3 DEF Closed
  <2>5. SyncInv'
    BY <1>2, <2>1, <2>2 DEF SyncInv
  <2> QED
    BY <2>1, <2>3, <2>4, <2>5 DEF StepOk
<1> QED
  BY <1>6, <1>7

-----------------------------------------------------------------------------
(* The actions.                                                            *)

\* What every step does: StallsOnBadSpan's and SynchronizedOk's demand of it.
StallGoal ==
  \A p \in Peer : (NotStalled(p) /\ ~NotStalled(p)') => Adding(p) /\ Span.fault # "none"

SyncGoal == (synced' /\ ~synced) => \A q \in Peer : ctx'[q].remote <= ChainHeight'

Good == SyncInv' /\ StallGoal /\ SyncGoal

LEMMA StallKept ==
  ASSUME NEW p \in Peer,
         \A q \in Peer \ {p} : (ctx'[q] = ctx[q] \/ ctx'[q].state = "closed") /\ pc'[q] = pc[q],
         pc'[p] # "idle" \/ ctx'[p].state # "synchronizing" \/ Awake(ctx'[p])
  PROVE  StallGoal
  BY DEF StallGoal, NotStalled, Awake

\* process_payload_sync_data
LEMMA SyncDataGood ==
  ASSUME SyncInv, NEW p \in Peer, NEW c, CtxOk(c), NEW initial \in BOOLEAN,
         SyncData(p, c, initial), UNCHANGED <<have, tip, queue, net, pc>>
  PROVE  Good
<1> DEFINE remote == Height(top[p]) + 1
           t == IF target = 0 THEN ChainHeight ELSE target
           s == IF Known(p) THEN "normal" ELSE "synchronizing"
           n == IF Known(p) THEN c.callbacks ELSE c.callbacks + 1
           d == [c EXCEPT !.remote = remote, !.state = s, !.callbacks = n]
<1>1. /\ CoreOk /\ QueueOk /\ ConnOk /\ ClaimsOk /\ target \in Nat /\ synced \in BOOLEAN
      /\ CoreOk' /\ QueueOk' /\ ChainHeight' = ChainHeight
  BY DEF SyncInv, CoreOk, QueueOk, ChainHeight
<1>2. ChainHeight \in Nat /\ Height(tip) \in Nat /\ Height(tip) <= Height(tip')
  BY <1>1, ChainHeightType
<1>3. remote \in Nat /\ t \in Nat /\ c.callbacks \in Nat
  BY <1>1, <1>2, HeightType, PeerAssumption DEF CtxOk, CtxType
<1>4. Known(p) => remote <= ChainHeight
  <2>1. Known(p) => Height(top[p]) <= Height(tip)
    BY <1>1 DEF Known, CoreOk
  <2>2. Height(top[p]) \in Nat
    BY HeightType, PeerAssumption
  <2> QED
    BY <1>2, <2>1, <2>2 DEF ChainHeight
<1>5. /\ ctx' = [ctx EXCEPT ![p] = d]
      /\ target' = IF ~Known(p) /\ remote > t THEN remote ELSE target
      /\ synced' = (synced \/ (Known(p) /\ initial /\ remote >= t /\ t = ChainHeight))
  BY DEF SyncData
<1>6. /\ d \in CtxType /\ d.remote = remote /\ d.needed = c.needed /\ d.lrh = c.lrh
      /\ d.state = s /\ d.callbacks = n
  <2>1. s \in {"closed", "synchronizing", "standby", "normal"} /\ n \in Nat
    BY <1>3
  <2>2. c \in CtxType /\ remote \in Nat
    BY <1>3 DEF CtxOk
  <2> HIDE DEF s, n, remote
  <2>3. d \in CtxType
    BY <2>1, <2>2 DEF CtxType
  <2> QED
    BY <2>2, <2>3 DEF CtxType
<1> HIDE DEF d
<1>7. CtxOk(d)
  BY <1>6 DEF CtxOk, FirstNeeded
<1>8. d.state = "normal" \/ (d.state = "synchronizing" /\ d.callbacks > 0)
  BY <1>3, <1>6
<1> HIDE DEF s, n
<1>9. target' \in Nat /\ target <= target' /\ (d.remote <= target' \/ d.remote <= ChainHeight')
  BY <1>1, <1>2, <1>3, <1>4, <1>5, <1>6
<1>10. ConnOk' /\ ClaimsOk'
  <2>1. d.state # "closed" /\ d.remote = IF d.state # "closed" THEN Height(top[p]) + 1 ELSE 0
    BY <1>6, <1>8
  <2>2. net' \in [Peer -> Seq(Msg)] /\ pc' \in [Peer -> PcPlaces]
    BY <1>1 DEF ConnOk
  <2> HIDE DEF remote, t
  <2> QED
    BY <1>1, <1>2, <1>5, <1>7, <1>9, <2>1, <2>2, UpdateOk
<1>11. synced' \in BOOLEAN
  BY <1>5
<1>12. ctx'[p] = d /\ \A q \in Peer \ {p} : ctx'[q] = ctx[q]
  BY <1>1, <1>5 DEF ConnOk
<1>13. StallGoal
  BY <1>8, <1>12, StallKept DEF Awake
<1>14. SyncGoal
  <2> SUFFICES ASSUME synced', ~synced, NEW q \in Peer PROVE ctx'[q].remote <= ChainHeight'
    BY DEF SyncGoal
  <2>1. Known(p) /\ t = ChainHeight
    BY <1>5
  <2>2. target <= ChainHeight
    BY <1>1, <1>2, <2>1
  <2>3. ctx[q].remote \in Nat /\ (ctx[q].remote <= target \/ ctx[q].remote <= ChainHeight)
    BY <1>1 DEF ConnOk, CtxType, ClaimsOk
  <2>4. ctx[q].remote <= ChainHeight
    BY <1>1, <1>2, <2>2, <2>3
  <2> HIDE DEF remote
  <2> QED
    BY <1>1, <1>4, <1>6, <1>12, <2>1, <2>4
<1>15. SyncInv'
  BY <1>1, <1>9, <1>10, <1>11 DEF SyncInv
<1> QED
  BY <1>13, <1>14, <1>15 DEF Good

LEMMA ConnectGood ==
  ASSUME SyncInv, NEW p \in Peer, Connect(p) \/ TimedSync(p)
  PROVE  Good
<1>1. CASE Connect(p)
  BY <1>1, ClosedOk, SyncDataGood DEF Connect
<1>2. CASE TimedSync(p)
  <2>1. CtxOk(ctx[p])
    BY DEF SyncInv, ConnOk
  <2> QED
    BY <1>2, <2>1, SyncDataGood DEF TimedSync
<1> QED
  BY <1>1, <1>2

\* Connections are closed, and nothing else.
LEMMA CloseGood ==
  ASSUME SyncInv, NEW S \in SUBSET Peer, CloseAll(S), UNCHANGED <<have, tip, queue, pc, synced>>
  PROVE  Good
<1>1. /\ CoreOk /\ QueueOk /\ ConnOk /\ ClaimsOk /\ target \in Nat /\ synced \in BOOLEAN
      /\ CoreOk' /\ QueueOk' /\ synced' = synced
  BY DEF SyncInv, CoreOk, QueueOk
<1>2. Height(tip) \in Nat /\ Height(tip) <= Height(tip')
  BY <1>1, ChainHeightType
<1>3. pc' \in [Peer -> PcPlaces]
  BY <1>1 DEF ConnOk
<1>4. ConnOk' /\ ClaimsOk' /\ target' \in Nat
  BY <1>1, <1>2, <1>3, CloseOk
<1>5. SyncInv' /\ SyncGoal
  BY <1>1, <1>4 DEF SyncInv, SyncGoal
<1>6. ASSUME NEW q \in Peer PROVE ctx'[q] = ctx[q] \/ ctx'[q].state = "closed"
  BY DEF CloseAll, Closed
<1>7. StallGoal
  BY <1>6 DEF StallGoal, NotStalled
<1> QED
  BY <1>5, <1>7 DEF Good

\* One context changes, and not in what it claims.
LEMMA SetGood ==
  ASSUME SyncInv, NEW p \in Peer, NEW d, CtxOk(d), ctx' = [ctx EXCEPT ![p] = d],
         d.remote = ctx[p].remote, d = ctx[p] \/ (d.state # "closed" /\ ctx[p].state # "closed"),
         net' \in [Peer -> Seq(Msg)], pc' \in [Peer -> PcPlaces],
         \A q \in Peer \ {p} : pc'[q] = pc[q],
         pc'[p] # "idle" \/ d.state # "synchronizing" \/ Awake(d),
         QueueOk', UNCHANGED <<have, tip, synced>>, target' \in Nat, target <= target'
  PROVE  Good
<1>1. /\ CoreOk /\ QueueOk /\ ConnOk /\ ClaimsOk /\ target \in Nat /\ synced \in BOOLEAN
      /\ CoreOk' /\ ChainHeight' = ChainHeight /\ synced' = synced
  BY DEF SyncInv, CoreOk, ChainHeight
<1>2. ChainHeight \in Nat /\ Height(tip) \in Nat /\ Height(tip) <= Height(tip')
  BY <1>1, ChainHeightType
<1>3. d.state = "closed" => d.expect = "none"
  BY <1>1 DEF ConnOk
<1>4. d.remote = IF d.state # "closed" THEN Height(top[p]) + 1 ELSE 0
  BY <1>1 DEF ClaimsOk, Open
<1>5. d.remote <= target' \/ d.remote <= ChainHeight'
  <2>1. ctx[p].remote \in Nat /\ (ctx[p].remote <= target \/ ctx[p].remote <= ChainHeight)
    BY <1>1 DEF ConnOk, CtxType, ClaimsOk
  <2> QED
    BY <1>1, <1>2, <2>1
<1>6. ConnOk' /\ ClaimsOk'
  BY <1>1, <1>2, <1>3, <1>4, <1>5, UpdateOk
<1>7. SyncInv' /\ SyncGoal
  BY <1>1, <1>6 DEF SyncInv, SyncGoal
<1>8. ctx'[p] = d /\ \A q \in Peer \ {p} : ctx'[q] = ctx[q]
  BY <1>1 DEF ConnOk
<1>9. StallGoal
  BY <1>8, StallKept
<1> QED
  BY <1>7, <1>9 DEF Good

\* A context keeps its hashes, or drops them.
LEMMA TouchedOk ==
  ASSUME NEW c, CtxOk(c), NEW d \in CtxType,
         (d.needed = c.needed /\ d.lrh = c.lrh) \/ d.needed = <<>>
  PROVE  CtxOk(d)
<1>1. CASE d.needed = <<>>
  <2>1. Aligned(<<>>, FirstNeeded(d))
    BY DEF Aligned
  <2> QED
    BY <1>1, <2>1 DEF CtxOk
<1>2. CASE d.needed # <<>>
  BY <1>2 DEF CtxOk, FirstNeeded
<1> QED
  BY <1>1, <1>2

\* What is left of a queue is a queue, and has only what was kept.
LEMMA KeptQueue ==
  ASSUME NEW q, IsQueue(q), NEW K \in SUBSET (DOMAIN q)
  PROVE  IsQueue(Kept(q, K)) /\ \A s \in Range(Kept(q, K)) : \E n \in K : s = q[n]
<1>1. PICK S : q \in Seq(S) /\ \A s \in S : IsSpan(s)
  BY DEF IsQueue
<1> DEFINE T == {q[n] : n \in K}
<1>2. \A k \in K : k \in 1 .. Len(q) /\ q[k] \in S
  BY <1>1
<1>3. Kept(q, K) \in Seq(T)
  BY <1>1, <1>2, KeptFrom
<1>4. \A s \in T : IsSpan(s) /\ \E n \in K : s = q[n]
  BY <1>1, <1>2
<1>5. \A s \in Range(Kept(q, K)) : s \in T
  <2> HIDE DEF T
  <2> QED
    BY <1>3 DEF Range
<1> HIDE DEF T
<1> QED
  BY <1>3, <1>4, <1>5 DEF IsQueue

LEMMA RemovedQueue ==
  ASSUME NEW q, IsQueue(q), NEW s, s.start \in Int, NEW p
  PROVE  /\ IsQueue(RemoveBatches(q, s)) /\ s \notin Range(RemoveBatches(q, s))
         /\ IsQueue(RemoveAll(q, p))
         /\ Open(p) /\ s.peer = p /\ s.id = conn[p] => s \notin Range(RemoveAll(q, p))
<1> DEFINE K == {n \in DOMAIN q :
                   ~(q[n].peer = s.peer /\ q[n].id = s.id /\ q[n].start <= s.start)}
           A == {n \in DOMAIN q : ~(Open(p) /\ q[n].peer = p /\ q[n].id = conn[p])}
<1>1. RemoveBatches(q, s) = Kept(q, K) /\ RemoveAll(q, p) = Kept(q, A)
  BY DEF RemoveBatches, RemoveAll
<1>2. /\ K \in SUBSET (DOMAIN q) /\ A \in SUBSET (DOMAIN q)
      /\ \A n \in K : q[n] # s
      /\ Open(p) /\ s.peer = p /\ s.id = conn[p] => \A n \in A : q[n] # s
  OBVIOUS
<1> HIDE DEF K, A
<1>3. /\ IsQueue(Kept(q, K)) /\ \A x \in Range(Kept(q, K)) : \E n \in K : x = q[n]
      /\ IsQueue(Kept(q, A)) /\ \A x \in Range(Kept(q, A)) : \E n \in A : x = q[n]
  BY <1>2, KeptQueue
<1> QED
  BY <1>1, <1>2, <1>3

LEMMA SparedOk ==
  ASSUME NEW c \in CtxType
  PROVE  LET d == Spared(c)
         IN  /\ d \in CtxType /\ d.needed = c.needed /\ d.lrh = c.lrh /\ d.remote = c.remote
             /\ d.state = "standby"
<1> DEFINE n == c.callbacks + 1
           m == c.score - 1
           e == [c EXCEPT !.waiting = FALSE, !.expect = "none", !.expectHeight = 0]
           d == [e EXCEPT !.score = m, !.state = "standby", !.callbacks = n]
<1>1. n \in Nat /\ m \in Int
  BY DEF CtxType
<1>2. /\ e \in CtxType /\ e.needed = c.needed /\ e.lrh = c.lrh /\ e.remote = c.remote
      /\ e.score = c.score /\ e.callbacks = c.callbacks
  <2>1. e \in CtxType
    <3>1. ASSUME NEW w \in BOOLEAN, NEW x \in {"none", "chain", "objects"}, NEW h \in Int
          PROVE  [c EXCEPT !.waiting = w, !.expect = x, !.expectHeight = h] \in CtxType
      BY DEF CtxType
    <3>2. PICK w \in BOOLEAN : w = FALSE
      OBVIOUS
    <3>3. PICK x \in {"none", "chain", "objects"} : x = "none"
      OBVIOUS
    <3>4. PICK h \in Int : h = 0
      OBVIOUS
    <3>5. e = [c EXCEPT !.waiting = w, !.expect = x, !.expectHeight = h]
      BY <3>2, <3>3, <3>4
    <3> QED
      BY <3>1, <3>5
  <2>2. e.needed = c.needed /\ e.lrh = c.lrh /\ e.remote = c.remote
    BY DEF CtxType
  <2>3. e.score = c.score /\ e.callbacks = c.callbacks
    BY DEF CtxType
  <2> QED
    BY <2>1, <2>2, <2>3
<1>3. Spared(c) = d
  BY <1>2 DEF Spared
<1> HIDE DEF n, m
<1> HIDE DEF e
<1>4. /\ d \in CtxType /\ d.needed = e.needed /\ d.lrh = e.lrh /\ d.remote = e.remote
      /\ d.state = "standby"
  BY <1>1, <1>2 DEF CtxType
<1> QED
  BY <1>2, <1>3, <1>4

LEMMA KickIdleGood ==
  ASSUME SyncInv, NEW p \in Peer, KickIdle(p)
  PROVE  Good
<1>1. CASE CloseAll({p})
  BY <1>1, CloseGood DEF KickIdle
<1>2. CASE ~CloseAll({p})
  <2> DEFINE c == ctx[p]
             d == Spared(c)
  <2>1. ctx' = [ctx EXCEPT ![p] = d] /\ UNCHANGED <<net, target, have, tip, queue, pc, synced>>
    BY <1>2 DEF KickIdle
  <2>2. c \in CtxType /\ c.state = "synchronizing"
    BY DEF SyncInv, ConnOk, KickIdle
  <2>3. /\ d \in CtxType /\ d.needed = c.needed /\ d.lrh = c.lrh /\ d.remote = c.remote
        /\ d.state = "standby"
    BY <2>2, SparedOk
  <2> HIDE DEF d
  <2>5. QueueOk' /\ net' \in [Peer -> Seq(Msg)] /\ pc' \in [Peer -> PcPlaces]
        /\ target' \in Nat /\ target <= target'
    BY <2>1 DEF SyncInv, ConnOk, QueueOk
  <2>4. CtxOk(d)
    BY <2>2, <2>3, TouchedOk DEF SyncInv, ConnOk
  <2> QED
    BY <2>1, <2>2, <2>3, <2>4, <2>5, SetGood
<1> QED
  BY <1>1, <1>2

LEMMA CheckStandbyGood ==
  ASSUME SyncInv, NEW p \in Peer, CheckStandby(p)
  PROVE  Good
<1> DEFINE c == ctx[p]
           d == [c EXCEPT !.callbacks = @ + 1]
<1>1. /\ ctx' = [ctx EXCEPT ![p] = d] /\ UNCHANGED <<net, target, have, tip, queue, pc, synced>>
  BY DEF CheckStandby
<1>2. c \in CtxType /\ c.state = "standby" /\ c.callbacks \in Nat
  BY DEF SyncInv, ConnOk, CtxType, CheckStandby
<1>3. /\ d \in CtxType /\ d.needed = c.needed /\ d.lrh = c.lrh /\ d.remote = c.remote
      /\ d.state = "standby"
  BY <1>2 DEF CtxType
<1> HIDE DEF d
<1>4. QueueOk' /\ net' \in [Peer -> Seq(Msg)] /\ pc' \in [Peer -> PcPlaces]
      /\ target' \in Nat /\ target <= target'
  BY <1>1 DEF SyncInv, ConnOk, QueueOk
<1>5. CtxOk(d)
  BY <1>2, <1>3, TouchedOk DEF SyncInv, ConnOk
<1> QED
  BY <1>1, <1>2, <1>3, <1>4, <1>5, SetGood

\* The thread of a connection moves on, and the queue may lose spans.
LEMMA ThreadGood ==
  ASSUME SyncInv, NEW p \in Peer, NEW place \in PcPlaces \ {"idle"},
         pc' = [pc EXCEPT ![p] = place], QueueOk',
         UNCHANGED <<have, tip, target, ctx, net, synced>>
  PROVE  Good
<1>1. CtxOk(ctx[p]) /\ ctx' = [ctx EXCEPT ![p] = ctx[p]]
  BY DEF SyncInv, ConnOk
<1>2. /\ net' \in [Peer -> Seq(Msg)] /\ pc' \in [Peer -> PcPlaces]
      /\ pc'[p] # "idle" /\ \A q \in Peer \ {p} : pc'[q] = pc[q]
      /\ target' \in Nat /\ target <= target'
  BY DEF SyncInv, ConnOk
<1> QED
  BY <1>1, <1>2, SetGood

LEMMA CrashGood ==
  ASSUME SyncInv, NEW p \in Peer, Crash(p)
  PROVE  Good
<1>1. /\ ctx' = [q \in Peer |-> Closed] /\ net' = [q \in Peer |-> <<>>]
      /\ pc' = [q \in Peer |-> "idle"] /\ queue' = <<>> /\ target' = 0 /\ synced' = FALSE
      /\ have' = have /\ tip' = tip
  BY DEF Crash
<1>2. CoreOk' /\ ChainHeight' \in Nat
  BY <1>1, ChainHeightType DEF SyncInv, CoreOk, ChainHeight
<1>3. QueueOk'
  <2>1. queue' \in Seq({}) /\ \A s \in {} : IsSpan(s)
    BY <1>1
  <2> QED
    BY <2>1 DEF QueueOk, IsSpan, Linked, Aligned
<1>4. /\ CtxOk(Closed) /\ Closed \in CtxType /\ Closed.remote = 0 /\ Closed.state = "closed"
      /\ Closed.expect = "none"
  BY ClosedOk DEF CtxOk, Closed
<1>5. ConnOk'
  <2>1. ctx' \in [Peer -> CtxType] /\ \A q \in Peer : ctx'[q] = Closed
    BY <1>1, <1>4
  <2>2. net' \in [Peer -> Seq(Msg)] /\ pc' \in [Peer -> PcPlaces]
    BY <1>1 DEF PcPlaces
  <2> QED
    BY <1>4, <2>1, <2>2 DEF ConnOk, CtxOk, FirstNeeded, Aligned
<1>6. ClaimsOk'
  BY <1>1, <1>2, <1>4 DEF ClaimsOk, Open
<1>7. SyncInv' /\ SyncGoal
  BY <1>1, <1>2, <1>3, <1>5, <1>6 DEF SyncInv, SyncGoal
<1>8. StallGoal
  BY <1>1, <1>4 DEF StallGoal, NotStalled
<1> QED
  BY <1>7, <1>8 DEF Good

\* What GoOnOk says of a step of p is what the goals ask.
LEMMA StepGood ==
  ASSUME NEW p \in Peer, StepOk(p), \A q \in Peer \ {p} : pc'[q] = pc[q]
  PROVE  Good
<1>1. SyncInv' /\ SyncGoal
  BY DEF StepOk, SyncGoal
<1>2. StallGoal
  BY StallKept DEF StepOk
<1> QED
  BY <1>1, <1>2 DEF Good

LEMMA OnCallbackGood ==
  ASSUME SyncInv, NEW p \in Peer, OnCallback(p)
  PROVE  Good
<1> DEFINE n == ctx[p].callbacks - 1
           c == [ctx[p] EXCEPT !.callbacks = n]
           none == [c EXCEPT !.needed = <<>>]
           r == AskChain(p, none, ChainHeight)
           on == [c EXCEPT !.state = "synchronizing"]
<1>1. /\ ctx[p] \in CtxType /\ CtxOk(ctx[p]) /\ n \in Nat
      /\ ctx[p].state = "closed" => FALSE
  <2>1. ctx[p] \in CtxType /\ CtxOk(ctx[p]) /\ ctx[p].callbacks \in Nat /\ ctx[p].callbacks > 0
    BY DEF SyncInv, ConnOk, CtxType, OnCallback
  <2>2. c.state \in {"synchronizing", "standby", "normal"}
    BY DEF OnCallback
  <2>3. c.state = ctx[p].state
    BY <2>1 DEF CtxType
  <2> HIDE DEF c
  <2> QED
    BY <2>1, <2>2, <2>3
<1>2. \/ /\ c.state = "synchronizing"
         /\ ctx' = [ctx EXCEPT ![p] = r.c] /\ net' = [net EXCEPT ![p] = @ \o r.send]
         /\ pc' = pc
      \/ /\ c.state = "standby" /\ ctx' = [ctx EXCEPT ![p] = on]
         /\ pc' = [pc EXCEPT ![p] = "try"] /\ net' = net
      \/ /\ c.state = "normal" \/ (c.state = "synchronizing" /\ c.waiting)
         /\ ctx' = [ctx EXCEPT ![p] = c] /\ net' = net /\ pc' = pc
  BY DEF OnCallback
<1>3. UNCHANGED <<have, tip, target, queue, synced>>
  BY DEF OnCallback
<1>4. /\ CoreOk /\ QueueOk' /\ target' \in Nat /\ target <= target' /\ ChainHeight \in Int
      /\ net \in [Peer -> Seq(Msg)] /\ pc \in [Peer -> PcPlaces]
  BY <1>3, ChainHeightType DEF SyncInv, QueueOk, ConnOk
<1> HIDE DEF n
<1>5. /\ c \in CtxType /\ c.needed = ctx[p].needed /\ c.lrh = ctx[p].lrh
      /\ c.remote = ctx[p].remote /\ c.state = ctx[p].state /\ c.waiting = ctx[p].waiting
  BY <1>1 DEF CtxType
<1> HIDE DEF c
<1>6. CtxOk(c)
  BY <1>1, <1>5, TouchedOk
<1>7. CASE /\ c.state = "synchronizing"
           /\ ctx' = [ctx EXCEPT ![p] = r.c] /\ net' = [net EXCEPT ![p] = @ \o r.send]
           /\ pc' = pc
  <2>1. CtxOk(none) /\ none.remote = c.remote /\ none.state = c.state
    BY <1>6, NoneOk
  <2> HIDE DEF none
  <2>2. AnswerOk(none, r) /\ r.ok /\ r.c.waiting
    BY <1>4, <2>1, AskChainOk
  <2> HIDE DEF r
  <2>3. /\ CtxOk(r.c) /\ r.send \in Seq(Msg) /\ r.c.remote = c.remote /\ r.c.state # "closed"
    BY <1>7, <2>1, <2>2 DEF AnswerOk
  <2>4. net' \in [Peer -> Seq(Msg)]
    <3>1. net[p] \o r.send \in Seq(Msg)
      <4>1. net[p] \in Seq(Msg)
        BY <1>4
      <4> QED
        BY <2>3, <4>1
    <3> QED
      BY <1>4, <1>7, <3>1
  <2> QED
    BY <1>1, <1>3, <1>4, <1>5, <1>7, <2>2, <2>3, <2>4, SetGood DEF Awake
<1>8. CASE /\ c.state = "standby" /\ ctx' = [ctx EXCEPT ![p] = on]
           /\ pc' = [pc EXCEPT ![p] = "try"] /\ net' = net
  <2>1. /\ on \in CtxType /\ on.needed = c.needed /\ on.lrh = c.lrh /\ on.remote = c.remote
        /\ on.state = "synchronizing"
    BY <1>5 DEF CtxType
  <2> HIDE DEF on
  <2>2. CtxOk(on)
    BY <1>6, <2>1, TouchedOk
  <2>3. /\ pc' \in [Peer -> PcPlaces] /\ pc'[p] # "idle" /\ \A q \in Peer \ {p} : pc'[q] = pc[q]
    BY <1>4, <1>8 DEF PcPlaces
  <2> QED
    BY <1>1, <1>3, <1>4, <1>5, <1>8, <2>1, <2>2, <2>3, SetGood
<1>9. CASE /\ c.state = "normal" \/ (c.state = "synchronizing" /\ c.waiting)
           /\ ctx' = [ctx EXCEPT ![p] = c] /\ net' = net /\ pc' = pc
  BY <1>1, <1>3, <1>4, <1>5, <1>6, <1>9, SetGood DEF Awake
<1> QED
  BY <1>2, <1>7, <1>8, <1>9

LEMMA IdsAligned ==
  ASSUME NEW p \in Peer, NEW from \in Block
  PROVE  Aligned(Ids(p, from), Height(from))
<1> DEFINE t == Height(top[p])
           f == Height(from)
           m == Min({IdsMax, t - f + 1})
           N == IF m < 1 THEN 0 ELSE m
           g(i) == BlockAt(top[p], f + i - 1)
<1>1. t \in Nat /\ f \in Nat /\ top[p] \in Block
  BY HeightType, PeerAssumption
<1>2. m \in Int /\ m <= t - f + 1
  <2>1. IdsMax \in Int /\ t - f + 1 \in Int
    BY <1>1, PeerAssumption
  <2>2. PICK k \in Int : k = t - f + 1
    BY <2>1
  <2>3. Min({IdsMax, k}) \in {IdsMax, k} /\ Min({IdsMax, k}) <= k
    BY <2>1, MinOfTwo
  <2> QED
    BY <2>1, <2>2, <2>3
<1>3. Ids(p, from) = [i \in 1 .. m |-> g(i)]
  BY DEF Ids
<1> HIDE DEF m, t, f
<1>4. N \in Nat /\ 1 .. m = 1 .. N
  BY <1>2
<1>5. ASSUME NEW i \in 1 .. N PROVE g(i) \in Block /\ Height(g(i)) = f + i - 1
  <2>1. f + i - 1 \in 0 .. t
    BY <1>1, <1>2
  <2>2. PICK h \in 0 .. t : h = f + i - 1
    BY <2>1
  <2>3. \E a \in path[top[p]] : Height(a) = h
    BY <1>1, HeightsFilled DEF t
  <2>4. BlockAt(top[p], h) \in path[top[p]] /\ Height(BlockAt(top[p], h)) = h
    BY <2>3 DEF BlockAt
  <2> QED
    BY <1>1, <2>2, <2>4, PathEnds
<1> HIDE DEF g, N
<1>6. /\ Ids(p, from) \in Seq(Block) /\ Len(Ids(p, from)) = N
      /\ \A i \in 1 .. N : Ids(p, from)[i] = g(i)
  <2>1. Ids(p, from) = [i \in 1 .. N |-> g(i)]
    BY <1>3, <1>4
  <2>2. [i \in 1 .. N |-> g(i)] \in [1 .. N -> Block]
    BY <1>5
  <2> QED
    BY <1>4, <2>1, <2>2
<1> QED
  BY <1>5, <1>6 DEF Aligned, f

\* The hashes of an answer are those from the split height on.
LEMMA HeardOk ==
  ASSUME NEW p \in Peer, ctx[p] \in CtxType, NEW from \in Block
  PROVE  LET d == Heard(p, from, Ids(p, from))
         IN  CtxOk(d) /\ d.remote = Height(top[p]) + 1 /\ d.state = ctx[p].state
<1> DEFINE c == ctx[p]
           ids == Ids(p, from)
           h == Height(top[p]) + 1
           l == Height(from) + Len(ids) - 1
           d == [c EXCEPT !.expect = "none", !.waiting = FALSE, !.remote = h,
                          !.lrh = l, !.needed = ids]
<1>1. Heard(p, from, Ids(p, from)) = d
  BY DEF Heard
<1>2. Aligned(ids, Height(from))
  BY IdsAligned
<1>3. ids \in Seq(Block) /\ h \in Nat /\ l \in Int /\ Height(from) \in Nat /\ Len(ids) \in Nat
  <2>1. ids \in Seq(Block)
    BY <1>2 DEF Aligned
  <2>2. Height(top[p]) \in Nat /\ Height(from) \in Nat
    BY HeightType, PeerAssumption
  <2> QED
    BY <2>1, <2>2
<1> HIDE DEF ids, h
<1>4. Len(ids) \in Int /\ l - Len(ids) + 1 = Height(from)
  BY <1>3
<1> HIDE DEF l
<1>5. /\ d \in CtxType /\ d.remote = h /\ d.lrh = l /\ d.needed = ids /\ d.state = c.state
  <2>1. ASSUME NEW w \in BOOLEAN, NEW x \in {"none", "chain", "objects"}
        PROVE  LET a == [c EXCEPT !.expect = x, !.waiting = w, !.remote = h, !.lrh = l,
                                  !.needed = ids]
               IN  /\ a \in CtxType /\ a.remote = h /\ a.lrh = l /\ a.needed = ids
                   /\ a.state = c.state
    BY <1>3 DEF CtxType
  <2>2. PICK w \in BOOLEAN : w = FALSE
    OBVIOUS
  <2>3. PICK x \in {"none", "chain", "objects"} : x = "none"
    OBVIOUS
  <2> QED
    BY <2>1, <2>2, <2>3
<1> HIDE DEF d
<1>6. CtxOk(d)
  BY <1>2, <1>4, <1>5 DEF CtxOk, FirstNeeded
<1> QED
  BY <1>1, <1>5, <1>6 DEF h

LEMMA ClaimIsTop ==
  ASSUME SyncInv, NEW p \in Peer
  PROVE  /\ Open(p) => ctx[p].remote = Height(top[p]) + 1
         /\ ~Open(p) => ctx[p].expect = "none"
         /\ Height(top[p]) \in Nat
  BY HeightType, PeerAssumption DEF SyncInv, ClaimsOk, ConnOk, Open

LEMMA AnswerIs ==
  ASSUME SyncInv, NEW p \in Peer, net[p] # <<>>
  PROVE  Head(net[p]) \in Msg /\ Tail(net[p]) \in Seq(Msg) /\ ctx[p] \in CtxType
<1>1. net[p] \in Seq(Msg) /\ ctx[p] \in CtxType
  BY DEF SyncInv, ConnOk
<1> QED
  BY <1>1

LEMMA ChainEntryGood ==
  ASSUME SyncInv, NEW p \in Peer, HandleResponseChainEntry(p)
  PROVE  Good
<1>1. /\ net[p] # <<>> /\ UNCHANGED <<have, tip, queue, pc>>
      /\ \E from \in {Head(net[p]).from} : \E ids \in {Ids(p, from)} :
           IF WrongChain(p, from, ids)
             THEN CloseAll({p}) /\ UNCHANGED synced
             ELSE \E c \in {Heard(p, from, ids)} : GoOn(p, c, FALSE, Tail(net[p]), c.remote)
  BY DEF HandleResponseChainEntry, Answered
<1>2. Head(net[p]) \in Msg /\ Tail(net[p]) \in Seq(Msg) /\ ctx[p] \in CtxType
  BY <1>1, AnswerIs
<1>3. PICK from \in Block : from = Head(net[p]).from
  BY <1>2 DEF Msg
<1> DEFINE ids == Ids(p, from)
           c == Heard(p, from, ids)
<1>4. CASE WrongChain(p, from, ids)
  <2>1. CloseAll({p}) /\ UNCHANGED synced /\ {p} \in SUBSET Peer
    BY <1>1, <1>3, <1>4
  <2> QED
    BY <1>1, <2>1, CloseGood
<1>5. CASE ~WrongChain(p, from, ids)
  <2>1. GoOn(p, c, FALSE, Tail(net[p]), c.remote)
    BY <1>1, <1>3, <1>5
  <2>2. ctx[p].expect = "chain"
    BY <1>5 DEF WrongChain
  <2>3. CtxOk(c) /\ c.remote = Height(top[p]) + 1 /\ c.state = ctx[p].state
    BY <1>2, HeardOk
  <2> HIDE DEF c
  <2>4. /\ Open(p) => c.remote = ctx[p].remote /\ c.state # "closed"
        /\ c.remote \in Nat
    BY <2>3, ClaimIsTop DEF Open
  <2>5. pc' \in [Peer -> PcPlaces] /\ \A q \in Peer \ {p} : pc'[q] = pc[q]
    BY <1>1 DEF SyncInv, ConnOk
  <2>6. PICK f \in BOOLEAN : f = FALSE
    OBVIOUS
  <2>7. GoOn(p, c, f, Tail(net[p]), c.remote)
    BY <2>1, <2>6
  <2>8. StepOk(p)
    BY <1>1, <1>2, <2>3, <2>4, <2>5, <2>7, GoOnOk
  <2> QED
    BY <2>5, <2>8, StepGood
<1> QED
  BY <1>4, <1>5

LEMMA AskGood ==
  ASSUME SyncInv, NEW p \in Peer, Ask(p)
  PROVE  Good
<1> DEFINE f == (pc[p] = "force")
<1>1. /\ GoOn(p, ctx[p], f, net[p], 0) /\ UNCHANGED <<have, tip, queue>>
      /\ pc' = [pc EXCEPT ![p] = "idle"] /\ f \in BOOLEAN
  BY DEF Ask
<1> HIDE DEF f
<1>2. CtxOk(ctx[p]) /\ net[p] \in Seq(Msg) /\ pc \in [Peer -> PcPlaces]
  BY DEF SyncInv, ConnOk
<1>3. pc' \in [Peer -> PcPlaces] /\ \A q \in Peer \ {p} : pc'[q] = pc[q]
  BY <1>1, <1>2 DEF PcPlaces
<1>4. Open(p) => ctx[p].remote = ctx[p].remote /\ ctx[p].state # "closed"
  BY DEF Open
<1>5. StepOk(p)
  BY <1>1, <1>2, <1>3, <1>4, GoOnOk
<1> QED
  BY <1>3, <1>5, StepGood

\* A span with the blocks that were asked for.
LEMMA AddedQueue ==
  ASSUME QueueOk, NEW p \in Peer, NEW blocks, Linked(blocks), blocks # <<>>, NEW f,
         queue' = AddBlocks(blocks, p, f)
  PROVE  QueueOk'
<1> DEFINE s == [start |-> Height(Head(blocks)), blocks |-> blocks, peer |-> p, id |-> conn[p],
                 fault |-> f]
<1>1. PICK S : queue \in Seq(S) /\ \A x \in S : IsSpan(x)
  BY DEF QueueOk
<1>2. IsSpan(s)
  <2>1. blocks \in Seq(Block) /\ Head(blocks) \in Block
    BY DEF Linked
  <2>2. Height(Head(blocks)) \in Int
    BY <2>1, HeightType
  <2> QED
    BY <2>2 DEF IsSpan
<1>3. queue' = Append(queue, s)
  BY DEF AddBlocks
<1> HIDE DEF s
<1>4. queue' \in Seq(S \cup {s})
  <2>1. queue \in Seq(S \cup {s}) /\ s \in S \cup {s}
    BY <1>1
  <2> QED
    BY <1>3, <2>1
<1>5. \A x \in S \cup {s} : IsSpan(x)
  BY <1>1, <1>2
<1>6. \A x \in S \cup {s} : IsSpan(x)'
  BY <1>5 DEF IsSpan, Linked, Aligned
<1> QED
  BY <1>4, <1>6 DEF QueueOk

LEMMA DeliveredOk ==
  ASSUME NEW p \in Peer, ctx[p] \in CtxType
  PROVE  LET d == Delivered(p)
         IN  /\ d \in CtxType /\ d.needed = ctx[p].needed /\ d.lrh = ctx[p].lrh
             /\ d.remote = Height(top[p]) + 1 /\ d.state = ctx[p].state
<1> DEFINE c == ctx[p]
           h == Height(top[p]) + 1
           d == [c EXCEPT !.expect = "none", !.waiting = FALSE, !.remote = h,
                          !.requested = {}, !.lastKnown = TRUE]
<1>1. Delivered(p) = d
  BY DEF Delivered
<1>2. h \in Nat
  BY HeightType, PeerAssumption
<1> HIDE DEF h
<1>3. /\ d \in CtxType /\ d.needed = c.needed /\ d.lrh = c.lrh /\ d.remote = h
      /\ d.state = c.state
  <2>1. ASSUME NEW w \in BOOLEAN, NEW x \in {"none", "chain", "objects"}, NEW k \in BOOLEAN,
               NEW e \in SUBSET Block
        PROVE  LET a == [c EXCEPT !.expect = x, !.waiting = w, !.remote = h, !.requested = e,
                                  !.lastKnown = k]
               IN  /\ a \in CtxType /\ a.needed = c.needed /\ a.lrh = c.lrh /\ a.remote = h
                   /\ a.state = c.state
    BY <1>2 DEF CtxType
  <2>2. PICK w \in BOOLEAN : w = FALSE
    OBVIOUS
  <2>3. PICK x \in {"none", "chain", "objects"} : x = "none"
    OBVIOUS
  <2>4. PICK k \in BOOLEAN : k = TRUE
    OBVIOUS
  <2>5. PICK e \in SUBSET Block : e = {}
    OBVIOUS
  <2> QED
    BY <2>1, <2>2, <2>3, <2>4, <2>5
<1> QED
  BY <1>1, <1>3 DEF h

LEMMA GetObjectsGood ==
  ASSUME SyncInv, NEW p \in Peer, HandleResponseGetObjects(p)
  PROVE  Good
<1> DEFINE blocks == Head(net[p]).blocks
           h == Height(top[p]) + 1
<1>1. net[p] # <<>> /\ UNCHANGED <<have, tip, synced>>
  BY DEF HandleResponseGetObjects, Answered
<1>2. Head(net[p]) \in Msg /\ Tail(net[p]) \in Seq(Msg) /\ ctx[p] \in CtxType
  BY <1>1, AnswerIs
<1>3. Linked(blocks)
  BY <1>2 DEF Msg
<1>4. CASE WrongObjects(p, blocks)
  <2>1. CloseAll({p}) /\ UNCHANGED <<queue, pc>> /\ {p} \in SUBSET Peer
    BY <1>4 DEF HandleResponseGetObjects
  <2> QED
    BY <1>1, <2>1, CloseGood
<1>5. CASE ~WrongObjects(p, blocks)
  <2> DEFINE d == Delivered(p)
  <2>1. /\ \E f \in IF p \in Faulty THEN Faults ELSE {"none"} : queue' = AddBlocks(blocks, p, f)
        /\ ctx' = [ctx EXCEPT ![p] = d] /\ net' = [net EXCEPT ![p] = Tail(@)]
        /\ target' = Max({target, h}) /\ pc' = [pc EXCEPT ![p] = "try"]
    BY <1>5 DEF HandleResponseGetObjects
  <2>2. ctx[p].expect = "objects" /\ blocks # <<>>
    BY <1>5 DEF WrongObjects
  <2>3. QueueOk'
    BY <1>3, <2>1, <2>2, AddedQueue DEF SyncInv
  <2>4. Open(p) /\ ctx[p].remote = h /\ h \in Nat
    BY <2>2, ClaimIsTop
  <2>5. /\ d \in CtxType /\ d.needed = ctx[p].needed /\ d.lrh = ctx[p].lrh
        /\ d.remote = h /\ d.state = ctx[p].state
    BY <1>2, DeliveredOk
  <2> HIDE DEF d, h
  <2>6. CtxOk(d)
    BY <2>5, TouchedOk DEF SyncInv, ConnOk
  <2>7. target' \in Nat /\ target <= target'
    <3>1. target \in Nat /\ target \in Int /\ h \in Int
      BY <2>4 DEF SyncInv
    <3>2. Max({target, h}) \in {target, h} /\ target <= Max({target, h})
      BY <3>1, MaxOfTwo
    <3> QED
      BY <2>1, <2>4, <3>1, <3>2
  <2>8. /\ net' \in [Peer -> Seq(Msg)] /\ pc' \in [Peer -> PcPlaces]
        /\ pc'[p] # "idle" /\ \A q \in Peer \ {p} : pc'[q] = pc[q]
    BY <1>2, <2>1 DEF SyncInv, ConnOk, PcPlaces
  <2> QED
    BY <1>1, <2>1, <2>3, <2>4, <2>5, <2>6, <2>7, <2>8, SetGood DEF Open
<1> QED
  BY <1>4, <1>5

LEMMA QueueKept ==
  ASSUME QueueOk, queue' = queue
  PROVE  QueueOk'
  BY DEF QueueOk

LEMMA MoveGood ==
  ASSUME SyncInv, NEW p \in Peer, TryLock(p) \/ NoSpan(p) \/ Leave(p)
  PROVE  Good
<1>1. QueueOk' /\ UNCHANGED <<have, tip, target, ctx, net, synced>>
  BY QueueKept DEF SyncInv, TryLock, NoSpan, Leave
<1>2. PICK place \in PcPlaces \ {"idle"} : pc' = [pc EXCEPT ![p] = place]
  BY DEF TryLock, NoSpan, Leave, Unlock, PcPlaces
<1> QED
  BY <1>1, <1>2, ThreadGood

\* The span at the front of the queue, and the queue without it.
LEMMA SpanIs ==
  ASSUME SyncInv, NEW p \in Peer, Adding(p)
  PROVE  /\ IsSpan(Span) /\ IsQueue(queue) /\ Span.start \in Int /\ Span.peer \in Peer
         /\ pc[p] = "adding" /\ queue # <<>>
<1>1. QueueOk /\ queue # <<>> /\ pc[p] = "adding"
  BY DEF SyncInv, Adding
<1>2. IsSpan(Head(queue))
  BY <1>1, HeadIsSpan
<1> QED
  BY <1>1, <1>2 DEF QueueOk, IsQueue, Span, IsSpan

LEMMA QueueIs ==
  ASSUME IsQueue(queue')
  PROVE  QueueOk'
<1>1. PICK S : queue' \in Seq(S) /\ \A s \in S : IsSpan(s)
  BY DEF IsQueue
<1>2. \A s \in S : IsSpan(s)'
  BY <1>1 DEF IsSpan, Linked, Aligned
<1> QED
  BY <1>1, <1>2 DEF QueueOk

LEMMA RemovedOk ==
  ASSUME SyncInv, NEW p \in Peer, Adding(p),
         \/ queue' = RemoveBatches(queue, Span)
         \/ queue' = RemoveAll(queue, Span.peer)
         \/ queue' = RemoveBatches(RemoveAll(queue, Span.peer), Span)
  PROVE  /\ QueueOk'
         /\ Span \notin Range(queue') \/ (queue' = RemoveAll(queue, Span.peer) /\ ~FromOpen(Span))
<1> DEFINE s == Span
           a == s.peer
           all == RemoveAll(queue, a)
<1>1. IsQueue(queue) /\ s.start \in Int
  BY SpanIs
<1> HIDE DEF s, a
<1>2. /\ IsQueue(RemoveBatches(queue, s)) /\ s \notin Range(RemoveBatches(queue, s))
      /\ IsQueue(all)
      /\ Open(a) /\ s.peer = a /\ s.id = conn[a] => s \notin Range(all)
  BY <1>1, RemovedQueue
<1> HIDE DEF all
<1>3. IsQueue(RemoveBatches(all, s)) /\ s \notin Range(RemoveBatches(all, s))
  BY <1>1, <1>2, RemovedQueue
<1>4. IsQueue(queue')
  BY <1>2, <1>3 DEF s, a, all
<1>5. FromOpen(s) => s \notin Range(all)
  BY <1>2 DEF FromOpen, a
<1> QED
  BY <1>2, <1>3, <1>4, <1>5, QueueIs DEF s, a, all

LEMMA AddedUpToOk ==
  ASSUME SyncInv, NEW p \in Peer, Adding(p), NEW n \in 0 .. Len(Span.blocks), AddedUpTo(n)
  PROVE  CoreOk' /\ Height(tip) <= Height(tip')
<1> DEFINE s == Span.blocks
           h == Height(s[1])
           new == {s[i] : i \in 1 .. n}
<1>1. s \in Seq(Block) /\ Len(s) \in Nat /\ 1 \in 1 .. Len(s)
      /\ \A i \in 1 .. Len(s) : s[i] \in Block /\ Height(s[i]) = h + i - 1
  <2>1. s \in Seq(Block) /\ s # <<>> /\ \A i \in 1 .. Len(s) : Height(s[i]) = h + i - 1
    BY SpanIs DEF IsSpan, Linked, Aligned
  <2> HIDE DEF s
  <2> QED
    BY <2>1
<1>2. /\ have' = have \cup new
      /\ tip' = IF \E b \in new : Height(b) > Height(tip) THEN s[n] ELSE tip
  BY DEF AddedUpTo
<1>3. /\ have \in SUBSET Block /\ tip \in Block /\ \A b \in have : Height(b) <= Height(tip)
      /\ Height(tip) \in Nat /\ \A b \in Block : Height(b) \in Nat
  BY HeightType DEF SyncInv, CoreOk
<1> HIDE DEF s
<1>4. n \in Nat /\ n <= Len(s) /\ h \in Nat
  BY <1>1, <1>3 DEF s
<1> HIDE DEF h
<1>5. \A b \in new : b \in Block /\ \E i \in 1 .. n : b = s[i]
  BY <1>1, <1>4
<1>6. ASSUME NEW b \in new PROVE Height(b) <= h + n - 1 /\ 1 <= n /\ n \in 1 .. Len(s)
  <2>1. PICK i \in 1 .. n : b = s[i]
    BY <1>5
  <2>2. i \in 1 .. Len(s) /\ i \in Nat /\ 1 <= i /\ i <= n
    BY <1>1, <1>4
  <2>3. Height(b) = h + i - 1
    BY <1>1, <2>1, <2>2
  <2> QED
    BY <1>1, <1>4, <2>2, <2>3
<1> HIDE DEF new
<1>7. CASE \E b \in new : Height(b) > Height(tip)
  <2>1. PICK b \in new : Height(b) > Height(tip)
    BY <1>7
  <2>2. tip' = s[n] /\ n \in 1 .. Len(s) /\ s[n] \in Block /\ Height(s[n]) = h + n - 1
    BY <1>1, <1>2, <1>6, <1>7
  <2>3. Height(b) \in Nat /\ Height(b) <= h + n - 1
    BY <1>3, <1>5, <1>6
  <2>4. Height(tip) <= Height(tip')
    BY <1>3, <1>4, <2>1, <2>2, <2>3
  <2>5. ASSUME NEW a \in have' PROVE a \in Block /\ Height(a) <= Height(tip')
    <3>1. CASE a \in have
      BY <1>3, <1>4, <2>2, <2>4, <3>1
    <3>2. CASE a \in new
      BY <1>5, <1>6, <2>2, <3>2
    <3> QED
      BY <1>2, <3>1, <3>2
  <2>6. tip' \in Block
    BY <2>2
  <2> QED
    BY <2>4, <2>5, <2>6 DEF CoreOk
<1>8. CASE ~ \E b \in new : Height(b) > Height(tip)
  <2>1. tip' = tip
    BY <1>2, <1>8
  <2>2. \A a \in have' : a \in Block /\ Height(a) <= Height(tip')
    BY <1>2, <1>3, <1>5, <1>8, <2>1
  <2> QED
    BY <1>3, <2>1, <2>2 DEF CoreOk
<1> QED
  BY <1>7, <1>8

LEMMA SkipOldGood ==
  ASSUME SyncInv, NEW p \in Peer, SkipOld(p)
  PROVE  Good
<1>1. /\ Adding(p) /\ queue' = RemoveBatches(queue, Span)
      /\ UNCHANGED <<have, tip, target, ctx, net, pc, synced>>
  BY DEF SkipOld
<1>2. QueueOk' /\ pc[p] = "adding"
  BY <1>1, RemovedOk, SpanIs
<1>3. pc' = [pc EXCEPT ![p] = "adding"] /\ "adding" \in PcPlaces \ {"idle"}
  BY <1>1, <1>2 DEF SyncInv, ConnOk, PcPlaces
<1> QED
  BY <1>1, <1>2, <1>3, ThreadGood

LEMMA SkipOrphanGood ==
  ASSUME SyncInv, NEW p \in Peer, SkipOrphan(p)
  PROVE  Good
<1> DEFINE c == ctx[p]
           e == [c EXCEPT !.needed = <<>>]
           d == [c EXCEPT !.needed = <<>>, !.lrh = 0]
<1>1. /\ Adding(p) /\ queue' = RemoveBatches(queue, Span)
      /\ ctx' = IF Open(p) THEN [ctx EXCEPT ![p] = d] ELSE ctx
      /\ pc' = [pc EXCEPT ![p] = "ask"]
      /\ UNCHANGED <<have, tip, target, net, synced>>
  BY DEF SkipOrphan, Unlock
<1>2. QueueOk'
  BY <1>1, RemovedOk
<1>3. "ask" \in PcPlaces \ {"idle"}
  BY DEF PcPlaces
<1>4. CASE ~Open(p)
  BY <1>1, <1>2, <1>3, <1>4, ThreadGood
<1>5. CASE Open(p)
  <2>1. CtxOk(c) /\ c \in CtxType
    BY DEF SyncInv, ConnOk
  <2>2. CtxOk(d) /\ d.remote = c.remote /\ d.state = c.state
    <3>1. CtxOk(e) /\ e.remote = c.remote /\ e.state = c.state /\ e.needed = <<>> /\ e \in CtxType
      BY <2>1, NoneOk DEF CtxOk
    <3>2. d = [e EXCEPT !.lrh = 0]
      BY <2>1 DEF CtxType
    <3> HIDE DEF e, d
    <3>3. /\ d \in CtxType /\ d.needed = <<>> /\ d.remote = e.remote /\ d.state = e.state
      BY <3>1, <3>2 DEF CtxType
    <3> QED
      BY <3>1, <3>3, TouchedOk
  <2> HIDE DEF d
  <2>3. /\ net' \in [Peer -> Seq(Msg)] /\ pc' \in [Peer -> PcPlaces]
        /\ pc'[p] # "idle" /\ \A q \in Peer \ {p} : pc'[q] = pc[q]
        /\ target' \in Nat /\ target <= target'
    BY <1>1, <1>3 DEF SyncInv, ConnOk
  <2>4. ctx' = [ctx EXCEPT ![p] = d] /\ d.state # "closed" /\ ctx[p].state # "closed"
    BY <1>1, <1>5, <2>2 DEF Open
  <2> QED
    BY <1>1, <1>2, <2>2, <2>3, <2>4, SetGood
<1> QED
  BY <1>4, <1>5

LEMMA AddSpanGood ==
  ASSUME SyncInv, NEW p \in Peer, AddSpan(p)
  PROVE  Good
<1> DEFINE n == Len(Span.blocks)
<1>1. /\ Adding(p) /\ AddedUpTo(n) /\ queue' = RemoveBatches(queue, Span)
      /\ UNCHANGED <<target, ctx, net, pc, synced>>
  BY DEF AddSpan
<1>2. QueueOk'
  BY <1>1, RemovedOk
<1>3. n \in 0 .. n
  <2>1. Span.blocks \in Seq(Block)
    BY <1>1, SpanIs DEF IsSpan, Linked
  <2> QED
    BY <2>1
<1>4. CoreOk' /\ Height(tip) <= Height(tip')
  <2> HIDE DEF n
  <2> QED
    BY <1>1, <1>3, AddedUpToOk DEF n
<1>5. ConnOk'
  BY <1>1 DEF SyncInv, ConnOk, CtxOk, Aligned, FirstNeeded
<1>6. ClaimsOk'
  <2>1. Height(tip) \in Nat /\ Height(tip') \in Nat
    BY <1>4, HeightType DEF SyncInv, CoreOk
  <2> SUFFICES ASSUME NEW q \in Peer
               PROVE  /\ ctx'[q].remote = IF ctx'[q].state # "closed" THEN Height(top[q]) + 1 ELSE 0
                      /\ ctx'[q].remote <= target' \/ ctx'[q].remote <= Height(tip') + 1
    BY DEF ClaimsOk, Open, ChainHeight
  <2>2. /\ ctx[q].remote = IF ctx[q].state # "closed" THEN Height(top[q]) + 1 ELSE 0
        /\ ctx[q].remote <= target \/ ctx[q].remote <= Height(tip) + 1
        /\ ctx[q].remote \in Nat
    BY DEF SyncInv, ClaimsOk, Open, ChainHeight, ConnOk, CtxType
  <2> QED
    BY <1>1, <1>4, <2>1, <2>2
<1>7. SyncInv' /\ SyncGoal
  BY <1>1, <1>2, <1>4, <1>5, <1>6 DEF SyncInv, SyncGoal
<1>8. StallGoal
  BY <1>1 DEF StallGoal, NotStalled
<1> QED
  BY <1>7, <1>8 DEF Good

\* The connection of a bad span is closed, and the thread leaves.
LEMMA DropGood ==
  ASSUME SyncInv, NEW p \in Peer, Adding(p), Span.fault # "none", CloseAll({Span.peer}),
         pc' = [pc EXCEPT ![p] = "idle"], CoreOk', Height(tip) <= Height(tip'), QueueOk',
         synced' = synced
  PROVE  Good
<1>1. /\ CoreOk /\ ConnOk /\ ClaimsOk /\ target \in Nat /\ synced \in BOOLEAN
  BY DEF SyncInv
<1>2. {Span.peer} \in SUBSET Peer
  BY SpanIs
<1>3. pc' \in [Peer -> PcPlaces] /\ \A q \in Peer \ {p} : pc'[q] = pc[q]
  BY <1>1 DEF ConnOk, PcPlaces
<1>4. ConnOk' /\ ClaimsOk' /\ target' \in Nat
  <2> DEFINE S == {Span.peer}
  <2> HIDE DEF S
  <2> QED
    BY <1>1, <1>2, <1>3, CloseOk DEF S
<1>5. SyncInv' /\ SyncGoal
  BY <1>1, <1>4 DEF SyncInv, SyncGoal
<1>6. \A q \in Peer : ctx'[q] = ctx[q] \/ ctx'[q].state = "closed"
  BY DEF CloseAll, Closed
<1>7. StallGoal
  BY <1>3, <1>6 DEF StallGoal, NotStalled
<1> QED
  BY <1>5, <1>7 DEF Good

LEMMA PrepareFailsGood ==
  ASSUME SyncInv, NEW p \in Peer, PrepareFails(p)
  PROVE  Good
<1>1. /\ Adding(p) /\ queue' = RemoveAll(queue, Span.peer) /\ CloseAll({Span.peer})
      /\ pc' = [pc EXCEPT ![p] = "idle"] /\ UNCHANGED <<have, tip, synced>>
      /\ Span.fault # "none"
  BY DEF PrepareFails, Unlock, Unprepared
<1>2. QueueOk'
  BY <1>1, RemovedOk
<1>3. CoreOk' /\ Height(tip) <= Height(tip')
  BY <1>1, ChainHeightType DEF SyncInv, CoreOk
<1> QED
  BY <1>1, <1>2, <1>3, DropGood

LEMMA AddFailsGood ==
  ASSUME SyncInv, NEW p \in Peer, AddFails(p)
  PROVE  Good
<1>1. /\ Adding(p) /\ queue' = RemoveBatches(RemoveAll(queue, Span.peer), Span)
      /\ CloseAll({Span.peer}) /\ pc' = [pc EXCEPT ![p] = "idle"] /\ synced' = synced
      /\ Span.fault # "none"
      /\ \E n \in 0 .. (Len(Span.blocks) - 1) : AddedUpTo(n)
  BY DEF AddFails, Unlock
<1>2. QueueOk'
  BY <1>1, RemovedOk
<1>3. CoreOk' /\ Height(tip) <= Height(tip')
  <2>1. Len(Span.blocks) \in Nat
    <3>1. Span.blocks \in Seq(Block)
      BY <1>1, SpanIs DEF IsSpan, Linked
    <3> QED
      BY <3>1
  <2>2. PICK n \in 0 .. (Len(Span.blocks) - 1) : AddedUpTo(n)
    BY <1>1
  <2>3. n \in 0 .. Len(Span.blocks)
    BY <2>1
  <2> QED
    BY <1>1, <2>2, <2>3, AddedUpToOk
<1> QED
  BY <1>1, <1>2, <1>3, DropGood

LEMMA InitSync == Init => SyncInv
<1> SUFFICES ASSUME Init PROVE SyncInv
  OBVIOUS
<1>1. /\ have = {Genesis} /\ tip = Genesis /\ target = 0 /\ queue = <<>> /\ synced = FALSE
      /\ ctx = [p \in Peer |-> Closed] /\ net = [p \in Peer |-> <<>>]
      /\ pc = [p \in Peer |-> "idle"]
  BY DEF Init
<1>2. CoreOk /\ Height(tip) \in Nat
  BY <1>1, TreeAssumption, HeightType DEF CoreOk
<1>3. QueueOk
  <2>1. queue \in Seq({}) /\ \A s \in {} : IsSpan(s)
    BY <1>1
  <2> QED
    BY <2>1 DEF QueueOk
<1>4. CtxOk(Closed) /\ Closed.remote = 0 /\ Closed.state = "closed" /\ Closed.expect = "none"
  BY ClosedOk DEF Closed
<1>5. ConnOk
  <2>1. ctx \in [Peer -> CtxType] /\ \A q \in Peer : ctx[q] = Closed
    BY <1>1, <1>4 DEF CtxOk
  <2>2. net \in [Peer -> Seq(Msg)] /\ pc \in [Peer -> PcPlaces]
    BY <1>1 DEF PcPlaces
  <2> QED
    BY <1>4, <2>1, <2>2 DEF ConnOk
<1>6. ClaimsOk
  BY <1>1, <1>4 DEF ClaimsOk, Open
<1> QED
  BY <1>1, <1>2, <1>3, <1>5, <1>6 DEF SyncInv

LEMMA StutterGood ==
  ASSUME SyncInv, UNCHANGED vars
  PROVE  Good
<1>1. UNCHANGED <<have, tip, target, queue, ctx, net, pc, synced>>
  BY DEF vars
<1>2. CoreOk' /\ QueueOk' /\ ConnOk' /\ ClaimsOk'
  BY <1>1 DEF SyncInv, CoreOk, QueueOk, ConnOk, CtxOk, FirstNeeded, Aligned, ClaimsOk, Open,
              ChainHeight
<1>3. SyncInv' /\ SyncGoal
  BY <1>1, <1>2 DEF SyncInv, SyncGoal
<1>4. StallGoal
  BY <1>1 DEF StallGoal, NotStalled
<1> QED
  BY <1>3, <1>4 DEF Good

\* Every step keeps the invariant and does what the two goals ask.
LEMMA NextGood ==
  ASSUME SyncInv, [Next]_vars
  PROVE  Good
<1>1. CASE UNCHANGED vars
  BY <1>1, StutterGood
<1>2. CASE Next
  <2>1. PICK p \in Peer :
          \/ Connect(p) \/ TimedSync(p) \/ Close(p) \/ KickIdle(p) \/ CheckStandby(p)
          \/ Crash(p) \/ Handles(p)
    BY <1>2 DEF Next
  <2>2. CASE Connect(p) \/ TimedSync(p)
    BY <2>2, ConnectGood
  <2>3. CASE Close(p)
    <3>1. {p} \in SUBSET Peer /\ CloseAll({p}) /\ UNCHANGED <<have, tip, queue, pc, synced>>
      BY <2>3 DEF Close
    <3> QED
      BY <3>1, CloseGood
  <2>4. CASE KickIdle(p)
    BY <2>4, KickIdleGood
  <2>5. CASE CheckStandby(p)
    BY <2>5, CheckStandbyGood
  <2>6. CASE Crash(p)
    BY <2>6, CrashGood
  <2>7. CASE OnCallback(p)
    BY <2>7, OnCallbackGood
  <2>8. CASE HandleResponseChainEntry(p)
    BY <2>8, ChainEntryGood
  <2>9. CASE HandleResponseGetObjects(p)
    BY <2>9, GetObjectsGood
  <2>10. CASE TryLock(p) \/ NoSpan(p) \/ Leave(p)
    BY <2>10, MoveGood
  <2>11. CASE SkipOld(p)
    BY <2>11, SkipOldGood
  <2>12. CASE SkipOrphan(p)
    BY <2>12, SkipOrphanGood
  <2>13. CASE AddSpan(p)
    BY <2>13, AddSpanGood
  <2>14. CASE PrepareFails(p)
    BY <2>14, PrepareFailsGood
  <2>15. CASE AddFails(p)
    BY <2>15, AddFailsGood
  <2>16. CASE Ask(p)
    BY <2>16, AskGood
  <2> QED
    BY <2>1, <2>2, <2>3, <2>4, <2>5, <2>6, <2>7, <2>8, <2>9, <2>10, <2>11, <2>12, <2>13,
       <2>14, <2>15, <2>16 DEF Handles, Adds
<1> QED
  BY <1>1, <1>2

\* SpanConsumed's demand of a step.
LEMMA NextConsumes ==
  ASSUME SyncInv, NEW p \in Peer, Adding(p), Adds(p)
  PROVE  Span \notin Range(queue') \/ (Unprepared /\ ~FromOpen(Span))
<1>1. pc[p] = "adding" /\ queue # <<>>
  BY SpanIs
<1>2. SkipOld(p) \/ SkipOrphan(p) \/ AddSpan(p) \/ PrepareFails(p) \/ AddFails(p)
  BY <1>1 DEF Adds, TryLock, NoSpan, Leave, Ask
<1>3. CASE PrepareFails(p)
  BY <1>3, RemovedOk DEF PrepareFails
<1>4. CASE AddFails(p)
  <2>1. queue' = RemoveBatches(RemoveAll(queue, Span.peer), Span)
    BY <1>4 DEF AddFails
  <2>2. IsQueue(RemoveAll(queue, Span.peer))
    BY SpanIs, RemovedQueue
  <2> QED
    BY <2>1, <2>2, SpanIs, RemovedQueue
<1>5. CASE SkipOld(p) \/ SkipOrphan(p) \/ AddSpan(p)
  <2>1. queue' = RemoveBatches(queue, Span)
    BY <1>5 DEF SkipOld, SkipOrphan, AddSpan
  <2> QED
    BY <2>1, SpanIs, RemovedQueue
<1> QED
  BY <1>2, <1>3, <1>4, <1>5

LEMMA SyncInvariant == Spec => []SyncInv
<1>1. SyncInv /\ [Next]_vars => SyncInv'
  BY NextGood DEF Good
<1> QED
  BY <1>1, InitSync, PTL DEF Spec

(***************************************************************************)
(* Whatever the answers, skips, requests and additions of others were, the *)
(* height that request_missing_objects computes for the next needed block, *)
(* from m_last_response_height and the number of hashes left, is that      *)
(* block's height: for any tree of blocks, peers and sizes of spans.       *)
(***************************************************************************)
THEOREM HeightsAreRight == Spec => []NeededAligned
<1>1. SyncInv => NeededAligned
  BY DEF SyncInv, ConnOk, CtxOk, CtxType, Aligned, NeededAligned
<1> QED
  BY <1>1, SyncInvariant, PTL

(***************************************************************************)
(* A connection is left stalled by no step but one that meets a bad span;  *)
(* the thread that is done with a span removes it from the queue, unless   *)
(* it could not be prepared and its connection is gone; and the node is    *)
(* declared synchronized only when no open connection claims more.         *)
(***************************************************************************)
THEOREM SyncStepsAreSound == Spec => StepsSound
<1>1. SyncInv /\ [Next]_vars =>
        [\A p \in Peer :
           (NotStalled(p) /\ ~NotStalled(p)') => Adding(p) /\ Span.fault # "none"]_vars
  BY NextGood DEF Good, StallGoal
<1>2. SyncInv /\ [Next]_vars =>
        [\A p \in Peer :
           (Adding(p) /\ Adds(p)) =>
             \/ Span \notin Range(queue')
             \/ Unprepared /\ ~FromOpen(Span)]_vars
  BY NextConsumes
<1>3. SyncInv /\ [Next]_vars =>
        [(synced' /\ ~synced) => \A q \in Peer : ctx'[q].remote <= ChainHeight']_vars
  BY NextGood DEF Good, SyncGoal
<1> QED
  BY <1>1, <1>2, <1>3, SyncInvariant, PTL
     DEF Spec, StepsSound, StallsOnBadSpan, SpanConsumed, SynchronizedOk
=============================================================================
