------------------------------ MODULE PoolOps ------------------------------
(***************************************************************************)
(* The operations of tx_memory_pool as operators on its state, a record p: *)
(*                                                                         *)
(*   p.txpool    the txpool_meta table of the database: transaction |->    *)
(*               metadata; the only part of the pool that is persisted and *)
(*               the only part a database transaction can roll back;       *)
(*   p.byFee     m_txs_by_fee_and_receive_time, a set of <<tx, age>>;      *)
(*   p.spent     m_spent_output_key_images: key image |-> transactions;    *)
(*   p.weight    m_txpool_weight, a size_t (modulo WMod);                  *)
(*   p.timedOut  m_timed_out_transactions;                                 *)
(*   p.moved     TRUE when m_cookie differs from the cookie stored with    *)
(*               the cached block template.                                *)
(*                                                                         *)
(* A receive_time is represented by the age of the entry, so the clock     *)
(* moves by adding one to every age (Tick).  m_parsed_tx_cache only saves  *)
(* a second parse of the same blob and is left out; what a block template  *)
(* remembers of failed transactions is in Blockchain.                      *)
(***************************************************************************)
EXTENDS Ledger, Integers, FiniteSets

CONSTANTS
  weight,       \* [TxId -> Nat]: size of the blob
  rate,         \* [TxId -> Nat]: fee per weight unit
  Malformed,    \* wrong version, input type or weight: refused for every caller
  BadOutputs,   \* refused by check_ringct_outputs, for every caller
  MinRate,      \* FEE_PER_BYTE
  MaxWeight,    \* m_txpool_max_weight
  WMod,         \* 2^64, the range of size_t
  Livetime,     \* CRYPTONOTE_MEMPOOL_TX_LIVETIME
  AltLivetime,  \* CRYPTONOTE_MEMPOOL_TX_FROM_ALT_BLOCK_LIVETIME
  MaxAge        \* bound: ages beyond this one are not told apart

Methods == {"none", "local", "block", "fluff"}

Ages == 0..MaxAge

ASSUME WeightAssumption == /\ weight \in [TxId -> Nat]
                           /\ rate \in [TxId -> Nat]
                           /\ WMod \in Nat \ {0}
                           /\ MaxWeight \in Nat

\* A transaction hash has 256 bits.
ASSUME HashAssumption == IsFiniteSet(TxId)

ASSUME AgeAssumption == /\ Livetime \in Nat /\ AltLivetime \in Nat /\ MaxAge \in Nat
                        /\ Livetime < AltLivetime

\* The order of m_txs_by_fee_and_receive_time is only defined between entries
\* that differ in fee per byte or in time.
ASSUME RateAssumption == \A t, u \in TxId : rate[t] = rate[u] => t = u

Meta == [relay : Methods, age : Ages, checked : BOOLEAN, dspend : BOOLEAN]

Bytes(S) == UNION {{t} \X (1..weight[t]) : t \in S}

\* The weight of the transactions S: the number of bytes of their blobs.
TotalWeight(S) == Cardinality(Bytes(S))

Pending(p) == DOMAIN p.txpool

\* relay_category::legacy is every method but local.
MatchesLegacy(p, t) == t \in Pending(p) /\ p.txpool[t].relay # "local"

KeptByBlock(p, t) == p.txpool[t].relay = "block"

HaveKeyImgAsSpent(p, k, t) ==
  p.spent[k] # {} /\ (p.spent[k] # {t} \/ MatchesLegacy(p, t))

HaveTxKeyimgesAsSpent(p, t) == \E k \in images[t] : HaveKeyImgAsSpent(p, k, t)

\* add_txpool_tx overwrites: the table has one record per transaction.
PutMeta(tab, t, m) ==
  [u \in DOMAIN tab \cup {t} |-> IF u = t THEN m ELSE tab[u]]

DropMeta(tab, S) == [u \in DOMAIN tab \ S |-> tab[u]]

InsertAllowed(p, t, method) ==
  \A k \in images[t] :
    /\ method = "block" \/ p.spent[k] \subseteq {t}
    /\ t \notin p.spent[k] \/ ~MatchesLegacy(p, t)

AddImages(spent, t) ==
  [k \in KeyImage |-> IF k \in images[t] THEN spent[k] \cup {t} ELSE spent[k]]

\* Mutant: drops the whole entry of the key image, other spenders included.
MutRemoveImages(spent, S) ==
  [k \in KeyImage |-> IF spent[k] \cap S # {} THEN {} ELSE spent[k]]

RemoveImages(spent, S) ==
  [k \in KeyImage |-> spent[k] \ {t \in S : k \in images[t]}]

MarkDoubleSpend(p, t) ==
  LET Hit == {u \in Pending(p) : \E k \in images[t] : u \in p.spent[k]}
  IN  [p EXCEPT !.txpool = [u \in Pending(p) |->
                              IF u \in Hit THEN [p.txpool[u] EXCEPT !.dspend = TRUE]
                                           ELSE p.txpool[u]],
                !.moved = p.moved \/ \E u \in Hit : ~p.txpool[u].dspend]

(***************************************************************************)
(* find_tx_in_sorted_container returns the first entry of the transaction: *)
(* of two entries with the same fee, the one received earlier.             *)
(***************************************************************************)
FirstEntry(byFee, t) ==
  {e \in byFee : e[1] = t /\ \A f \in byFee : f[1] = t => f[2] <= e[2]}

\* Mutant: the entry stays behind.
MutEraseFirst(byFee, S) == byFee

EraseFirst(byFee, S) == byFee \ UNION {FirstEntry(byFee, t) : t \in S}

SortsBefore(e, f) ==
  rate[e[1]] > rate[f[1]] \/ (e[1] = f[1] /\ e[2] > f[2])

(***************************************************************************)
(* prune walks the container from its last entry to the second one while   *)
(* the weight is above the limit.  An entry whose metadata is missing ends *)
(* the walk without commit: the table is restored unless the caller holds  *)
(* a batch, the containers in memory are not.                              *)
(***************************************************************************)
Behind(p, e) == {f \in p.byFee : SortsBefore(e, f)}

\* Mutant: spares what is not to be relayed, too.
MutPrunable(p, e) == e[1] \in Pending(p) /\ p.txpool[e[1]].relay \notin {"block", "none"}

Prunable(p, e) == e[1] \in Pending(p) /\ ~KeptByBlock(p, e[1])

\* The weight when the walk reaches e.
WeightAt(p, e) ==
  (p.weight - TotalWeight({f[1] : f \in {g \in Behind(p, e) : Prunable(p, g)}})) % WMod

\* The table has no record for e, or had one that the walk removed.
Missing(p, e) ==
  \/ e[1] \notin Pending(p)
  \/ Prunable(p, e) /\ \E f \in Behind(p, e) : f[1] = e[1]

Visited(p, e) ==
  /\ \E f \in p.byFee : SortsBefore(f, e)
  /\ \A f \in Behind(p, e) \cup {e} : WeightAt(p, f) > MaxWeight
  /\ \A f \in Behind(p, e) : ~Missing(p, f)

Evicted(p) == {e \in p.byFee : Visited(p, e) /\ Prunable(p, e) /\ ~Missing(p, e)}

Stuck(p) == \E e \in p.byFee : Visited(p, e) /\ Missing(p, e)

Prune(p, nested) ==
  LET Gone == {e[1] : e \in Evicted(p)}
  IN  [p EXCEPT !.txpool = IF Stuck(p) /\ ~nested THEN p.txpool ELSE DropMeta(p.txpool, Gone),
                !.byFee  = p.byFee \ Evicted(p),
                !.spent  = RemoveImages(p.spent, Gone),
                !.weight = (p.weight - TotalWeight(Gone)) % WMod,
                !.moved  = p.moved \/ Gone # {}]

NewMeta(p, t, method, valid) ==
  [relay |-> method, age |-> 0, checked |-> valid,
   dspend |-> ~valid /\ HaveTxKeyimgesAsSpent(p, t)]

\* The checks of add_tx up to the one on key images; a block skips all but the first.
Unacceptable(p, t, method) ==
  \/ t \in Malformed
  \/ method # "block" /\ (t \in p.timedOut \/ rate[t] < MinRate)

\* add_tx removes an earlier record of a transaction whose inputs check.
Cleared(p, t, valid) ==
  IF valid THEN [p EXCEPT !.txpool = DropMeta(p.txpool, {t})] ELSE p

\* Mutant: the weight is not accounted for.
MutInserted(p, t, meta) ==
  [p EXCEPT !.txpool = PutMeta(p.txpool, t, meta),
            !.byFee  = p.byFee \cup {<<t, 0>>},
            !.spent  = AddImages(p.spent, t),
            !.moved  = TRUE]

Inserted(p, t, meta) ==
  [p EXCEPT !.txpool = PutMeta(p.txpool, t, meta),
            !.byFee  = p.byFee \cup {<<t, 0>>},
            !.spent  = AddImages(p.spent, t),
            !.weight = (p.weight + weight[t]) % WMod,
            !.moved  = TRUE]

(***************************************************************************)
(* tx_memory_pool::add_tx.  valid is the verdict of check_ringct_inputs    *)
(* and nested says that the caller already holds a batch, in which case    *)
(* the LockedTXN of add_tx neither commits nor aborts.  A transaction that *)
(* arrives with a block is kept even when its inputs do not check.  The    *)
(* images of a transaction are entered together: when InsertAllowed fails, *)
(* the transaction is already listed under its first image.                *)
(***************************************************************************)
AddTx(p, t, method, valid, nested) ==
  LET block    == method = "block"
      cleared  == Cleared(p, t, valid)
      refuse(q) == [ok |-> FALSE, relay |-> FALSE, p |-> q]
  IN  IF Unacceptable(p, t, method) THEN refuse(p)
      ELSE IF ~block /\ HaveTxKeyimgesAsSpent(p, t) THEN refuse(MarkDoubleSpend(p, t))
      ELSE IF t \in BadOutputs \/ (~valid /\ ~block) THEN refuse(p)
      ELSE IF ~InsertAllowed(cleared, t, method) THEN refuse(IF nested THEN cleared ELSE p)
      ELSE [ok |-> TRUE, relay |-> valid /\ rate[t] > 0 /\ method # "none",
            p |-> Prune(Inserted(cleared, t, NewMeta(p, t, method, valid)), nested)]

\* tx_memory_pool::take_tx of a transaction that is in the table.
TakeTx(p, t) ==
  [p EXCEPT !.txpool = DropMeta(p.txpool, {t}),
            !.byFee  = EraseFirst(p.byFee, {t}),
            !.spent  = RemoveImages(p.spent, {t}),
            !.weight = (p.weight - weight[t]) % WMod,
            !.moved  = TRUE]

Expired(p) ==
  {t \in Pending(p) :
     p.txpool[t].age > IF KeptByBlock(p, t) THEN AltLivetime ELSE Livetime}

RemoveStuck(p) ==
  LET S == Expired(p)
  IN  [p EXCEPT !.txpool   = DropMeta(p.txpool, S),
                !.byFee    = EraseFirst(p.byFee, S),
                !.spent    = RemoveImages(p.spent, S),
                !.weight   = (p.weight - TotalWeight(S)) % WMod,
                !.timedOut = p.timedOut \cup S,
                !.moved    = p.moved \/ S # {}]

Relayable(p) ==
  {t \in Pending(p) :
     /\ p.txpool[t].relay \in {"block", "fluff"}
     /\ rate[t] > 0
     /\ p.txpool[t].age <= (IF KeptByBlock(p, t) THEN AltLivetime ELSE Livetime) \div 2}

\* node_server::send_txs always reports the fluff method.
SetRelayed(p, S) ==
  [p EXCEPT !.txpool = [t \in Pending(p) |->
                          IF t \in S THEN [p.txpool[t] EXCEPT !.relay = "fluff"]
                                     ELSE p.txpool[t]]]

Older(a) == IF a < MaxAge THEN a + 1 ELSE a

AgeTable(tab) == [t \in DOMAIN tab |-> [tab[t] EXCEPT !.age = Older(tab[t].age)]]

AgeAll(p) ==
  [p EXCEPT !.txpool = AgeTable(p.txpool),
            !.byFee  = {<<e[1], Older(e[2])>> : e \in p.byFee}]

(***************************************************************************)
(* tx_memory_pool::init on a table left by an earlier process: first the   *)
(* transactions not kept by a block, then the others.  Only the first pass *)
(* refuses a key image that is already taken.                              *)
(***************************************************************************)
InitAllowed(tab) ==
  \A t, u \in DOMAIN tab :
    (t # u /\ tab[t].relay # "block" /\ tab[u].relay # "block")
      => images[t] \cap images[u] = {}

LoadPool(tab) ==
  [txpool   |-> tab,
   byFee    |-> {<<t, tab[t].age>> : t \in DOMAIN tab},
   spent    |-> [k \in KeyImage |-> {t \in DOMAIN tab : k \in images[t]}],
   weight   |-> TotalWeight(DOMAIN tab) % WMod,
   timedOut |-> {},
   moved    |-> TRUE]

\* tx_memory_pool::validate removes what the chain already holds.
Validate(p, mined) ==
  LET S == Pending(p) \cap mined
  IN  [p EXCEPT !.txpool = DropMeta(p.txpool, S),
                !.byFee  = EraseFirst(p.byFee, S),
                !.spent  = RemoveImages(p.spent, S),
                !.weight = (TotalWeight(Pending(p)) - TotalWeight(S)) % WMod]

EmptyPool == LoadPool([t \in {} |-> t])

Tables == UNION {[S -> Meta] : S \in SUBSET TxId}

PoolType(W) ==
  [txpool : Tables, byFee : SUBSET (TxId \X Ages), spent : [KeyImage -> SUBSET TxId],
   weight : W, timedOut : SUBSET TxId, moved : BOOLEAN]

\* What the two indexes of the table promise.
ImagesExact(p) ==
  \A k \in KeyImage : p.spent[k] = {t \in Pending(p) : k \in images[t]}

OrderExact(p) == p.byFee = {<<t, p.txpool[t].age>> : t \in Pending(p)}

\* What prune promises: the limit, or the best paying transaction and kept-by-block ones.
Bounded(p) ==
  \/ TotalWeight(Pending(p)) <= MaxWeight
  \/ \E t \in Pending(p) : \A u \in Pending(p) \ {t} : KeptByBlock(p, u) /\ rate[u] < rate[t]
=============================================================================
