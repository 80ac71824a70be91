------------------------------- MODULE Tables -------------------------------
(***************************************************************************)
(* The tables of the block database (daemon/database): what                *)
(* BlockchainDB::add_block and pop_block write to them through             *)
(* BlockchainLMDB, one write after the other, and what is read from them.  *)
(*                                                                         *)
(* A value db is a record with one field per table, the position of the    *)
(* write transaction's cursor on "blocks", the error the last operation    *)
(* ended with, and the room: how many more writes the memory map takes.    *)
(* An operation is a chain of steps, db -> Then(step) -> Then(step); once  *)
(* one of them throws the rest is skipped, and the writes made before it   *)
(* stay, as they do in the transaction.                                    *)
(***************************************************************************)
EXTENDS Integers, FiniteSets, SequencesExt, TLC

CONSTANTS
  Tx,        \* transactions, miner transactions included
  Block,     \* blocks
  Image,     \* key images
  vin,       \* [Tx -> Seq(Image \cup {Gen, Other})]: the inputs
  vout,      \* [Tx -> Seq(Nat)]: the amounts of the outputs
  version,   \* [Tx -> {1, 2}]
  miner_tx,  \* [Block -> Tx]
  tx_hashes, \* [Block -> Seq(Tx)]
  prev_id,   \* [Block -> Block \cup {None}]
  major_version, \* [Block -> Nat]
  Gen,       \* an input of type txin_gen
  Other,     \* an input of a type add_transaction does not support
  None,
  Ample      \* a number of writes no operation needs

ASSUME AmpleAssumption == Ample \in Nat \ {0}

(* How an operation ended: "none", by an exception ("threw"), or by        *)
(* MDB_MAP_FULL ("full"), after which LMDB refuses the whole transaction.  *)
Errors == {"none", "threw", "full"}

EmptyTables ==
  [blocks |-> <<>>, block_info |-> <<>>, block_heights |-> <<>>,
   txs_pruned |-> <<>>, txs_prunable |-> <<>>, prunable_hash |-> {},
   tx_indices |-> <<>>, tx_outputs |-> <<>>,
   output_txs |-> <<>>, output_amounts |-> <<>>,
   spent_keys |-> {}, hf_versions |-> {}, alt_blocks |-> {},
   txpool_meta |-> {}, txpool_blob |-> {},
   cursor |-> None, err |-> "none", room |-> Ample]

With(f, k, v) == (k :> v) @@ f
Without(f, k) == [x \in DOMAIN f \ {k} |-> f[x]]
Entries(f) == Cardinality(DOMAIN f)

(* MDB_APPEND and MDB_APPENDDUP: the key is above every key there is.      *)
Above(k, f) == \A x \in DOMAIN f : k > x

(* The next step of an operation. (The set of one element makes TLC        *)
(* evaluate db once.)                                                      *)
Then(db, Step(_)) ==
  CHOOSE r \in {IF d.err = "none" THEN Step(d) ELSE d : d \in {db}} : TRUE

(* An early throw, and one write (a put or a delete): it fails when LMDB   *)
(* refuses the key, and when the map is full.                              *)
Check(db, ok) == IF ok THEN db ELSE [db EXCEPT !.err = "threw"]

Write(db, ok, new) ==
  IF ~ok THEN [db EXCEPT !.err = "threw"]
  ELSE IF db.room = 0 THEN [db EXCEPT !.err = "full"]
  ELSE [new EXCEPT !.room = @ - 1]

height(db) == Entries(db.blocks)

(***************************************************************************)
(* Adding                                                                  *)
(***************************************************************************)
MutAddSpentKey(db, k) ==
  Then(db, LAMBDA d : Write(d, TRUE, [d EXCEPT !.spent_keys = @ \cup {k}]))

add_spent_key(db, k) ==
  Then(db, LAMBDA d :
    Write(d, k \notin d.spent_keys, [d EXCEPT !.spent_keys = @ \cup {k}]))

MutRemoveSpentKey(db, k) == db

remove_spent_key(db, k) ==
  Then(db, LAMBDA d :
    IF k \in d.spent_keys THEN Write(d, TRUE, [d EXCEPT !.spent_keys = @ \ {k}]) ELSE d)

Images(t) == SelectSeq(vin[t], LAMBDA i : i \in Image)
IsMiner(t) == \E n \in DOMAIN vin[t] : vin[t][n] = Gen
Unsupported(t) == \E n \in DOMAIN vin[t] : vin[t][n] = Other

(* The inputs in turn; at an unsupported one every image of the            *)
(* transaction is taken out again and add_transaction returns.             *)
AddInputs(db, t) ==
  LET seen == IF Unsupported(t)
              THEN SubSeq(vin[t], 1, SelectInSeq(vin[t], LAMBDA i : i = Other))
              ELSE vin[t]
      added == FoldLeft(LAMBDA d, i : IF i \in Image THEN add_spent_key(d, i) ELSE d, db, seen)
  IN IF Unsupported(t) THEN FoldLeft(remove_spent_key, added, Images(t)) ELSE added

get_tx_count(db) == Entries(db.txs_pruned)

(* One row in each of the four tables of transactions, under the next id.  *)
add_transaction_data(db, t) ==
  LET id == get_tx_count(db)
      Index(d) == Write(d, t \notin DOMAIN d.tx_indices,
        [d EXCEPT !.tx_indices = With(@, t, [id |-> id, block |-> height(d)])])
      Pruned(d) == Write(d, Above(id, d.txs_pruned), [d EXCEPT !.txs_pruned = With(@, id, t)])
      Prunable(d) == Write(d, Above(id, d.txs_prunable), [d EXCEPT !.txs_prunable = With(@, id, t)])
      Hash(d) == IF version[t] > 1
                 THEN Write(d, \A x \in d.prunable_hash : id > x,
                            [d EXCEPT !.prunable_hash = @ \cup {id}])
                 ELSE d
  IN Then(Then(Then(Then(db, Index), Pruned), Prunable), Hash)

num_outputs(db) ==
  IF db.output_txs = <<>> THEN 0 ELSE 1 + Max(DOMAIN db.output_txs)

OfAmount(db, a) ==
  IF a \in DOMAIN db.output_amounts THEN db.output_amounts[a] ELSE <<>>

(* Version 2 miner outputs are stored as outputs of amount 0.              *)
StoredAmount(t, n) == IF IsMiner(t) /\ version[t] = 2 THEN 0 ELSE vout[t][n]

(* A row in output_txs under the next output id, and one in output_amounts *)
(* under the next index of its amount.                                     *)
add_output(db, t, n) ==
  LET a == StoredAmount(t, n)
      o == num_outputs(db)
      Commitment(d) == Check(d, ~(a = 0 /\ IsMiner(t) /\ version[t] = 1))
      OutputTx(d) == Write(d, Above(o, d.output_txs),
        [d EXCEPT !.output_txs = With(@, o, <<t, n - 1>>)])
      OutputAmount(d) ==
        LET k == Entries(OfAmount(d, a))
        IN Write(d, Above(k, OfAmount(d, a)),
             [d EXCEPT !.output_amounts =
                With(@, a, With(OfAmount(d, a), k, [output_id |-> o, height |-> height(d)]))])
  IN Then(Then(Then(db, Commitment), OutputTx), OutputAmount)

(* add_tx_amount_output_indices, one index at a time: those of the outputs *)
(* added are put together, and written when the last one is known.         *)
AddOutputs(db, t, id) ==
  LET Add(acc, n) ==
        CHOOSE r \in {[db |-> Then(a.db, LAMBDA d : add_output(d, t, n)),
                       at |-> Append(a.at, Entries(OfAmount(a.db, StoredAmount(t, n))))]
                      : a \in {acc}} : TRUE
      all == FoldLeftDomain(Add, [db |-> db, at |-> <<>>], vout[t])
  IN Then(all.db, LAMBDA d :
       Write(d, Above(id, d.tx_outputs), [d EXCEPT !.tx_outputs = With(@, id, all.at)]))

add_transaction(db, t) ==
  Then(AddInputs(db, t), LAMBDA d :
    IF Unsupported(t) THEN d
    ELSE Then(add_transaction_data(d, t), LAMBDA e : AddOutputs(e, t, get_tx_count(d))))

RctOutputs(t) == Cardinality({n \in DOMAIN vout[t] : StoredAmount(t, n) = 0})

NumRctOuts(b) ==
  FoldLeft(LAMBDA n, t : n + RctOutputs(t), 0, <<miner_tx[b]>> \o tx_hashes[b])

(* BlockchainLMDB::add_block: blocks, block_info and block_heights.        *)
add_block_data(db, b) ==
  LET h == height(db)
      New(d) == Check(d, b \notin DOMAIN d.block_heights)
      Parent(d) == Check(d, h > 0 => /\ prev_id[b] \in DOMAIN d.block_heights
                                     /\ d.block_heights[prev_id[b]] = h - 1)
      Blob(d) == Write(d, Above(h, d.blocks), [d EXCEPT !.blocks = With(@, h, b), !.cursor = h])
      CarriesOn == h > 0 /\ major_version[b] >= 4
      Previous(d) == Check(d, CarriesOn => h - 1 \in DOMAIN d.block_info)
      Info(d) ==
        LET r == NumRctOuts(b) + (IF CarriesOn THEN d.block_info[h - 1].cum_rct ELSE 0)
        IN Write(d, Above(h, d.block_info),
                 [d EXCEPT !.block_info = With(@, h, [hash |-> b, cum_rct |-> r])])
      Height(d) == Write(d, TRUE, [d EXCEPT !.block_heights = With(@, b, h)])
  IN Then(Then(Then(Then(Then(Then(db, New), Parent), Blob), Previous), Info), Height)

set_hard_fork_version(db, h) ==
  Then(db, LAMBDA d : Write(d, TRUE, [d EXCEPT !.hf_versions = @ \cup {h}]))

add_block(db, b) ==
  LET txs == FoldLeft(add_transaction, db, <<miner_tx[b]>> \o tx_hashes[b])
  IN set_hard_fork_version(Then(txs, LAMBDA d : add_block_data(d, b)), height(db))

(***************************************************************************)
(* Removing                                                                *)
(***************************************************************************)

(* Reading a block through the write transaction moves its cursor there.   *)
get_block_from_height(db, h) ==
  IF h \in DOMAIN db.blocks THEN [db EXCEPT !.cursor = h] ELSE [db EXCEPT !.err = "threw"]

(* The row of blocks that goes is the one the cursor stands on.            *)
remove_block(db) ==
  LET h == height(db) - 1
      b == db.block_info[h].hash
      Find(d) == Check(d, h \in DOMAIN d.block_info)
      Height(d) == Write(d, b \in DOMAIN d.block_heights,
                         [d EXCEPT !.block_heights = Without(@, b)])
      Blob(d) == Write(d, d.cursor \in DOMAIN d.blocks,
                       [d EXCEPT !.blocks = Without(@, d.cursor), !.cursor = None])
      Info(d) == Write(d, TRUE, [d EXCEPT !.block_info = Without(@, h)])
  IN Then(Then(Then(Then(db, Find), Height), Blob), Info)

remove_output(db, a, k) ==
  LET o == OfAmount(db, a)[k].output_id
      Find(d) == Check(d, k \in DOMAIN OfAmount(d, a))
      OutputTx(d) == Write(d, o \in DOMAIN d.output_txs, [d EXCEPT !.output_txs = Without(@, o)])
      OutputAmount(d) ==
        LET left == Without(OfAmount(d, a), k)
        IN Write(d, TRUE, [d EXCEPT !.output_amounts =
                             IF left = <<>> THEN Without(@, a) ELSE With(@, a, left)])
  IN Then(Then(Then(db, Find), OutputTx), OutputAmount)

(* From the last output to the first. What counts as a version 2 miner     *)
(* transaction is not tested as in add_transaction.                        *)
IsPseudoRct(t) == version[t] >= 2 /\ vin[t] = <<Gen>>

remove_tx_outputs(db, id, t) ==
  LET at == db.tx_outputs[id]
      Drop(n, d) ==
        Then(d, LAMBDA e : remove_output(e, IF IsPseudoRct(t) THEN 0 ELSE vout[t][n], at[n]))
  IN FoldRightDomain(Drop, vout[t], Check(db, at = <<>> => vout[t] = <<>>))

remove_transaction_data(db, t) ==
  LET id == db.tx_indices[t].id
      Find(d) == Check(d, t \in DOMAIN d.tx_indices)
      Pruned(d) == Write(d, id \in DOMAIN d.txs_pruned, [d EXCEPT !.txs_pruned = Without(@, id)])
      Prunable(d) == IF id \in DOMAIN d.txs_prunable
                     THEN Write(d, TRUE, [d EXCEPT !.txs_prunable = Without(@, id)]) ELSE d
      Hash(d) == IF version[t] > 1
                 THEN Write(d, id \in d.prunable_hash, [d EXCEPT !.prunable_hash = @ \ {id}])
                 ELSE d
      Outputs(d) == remove_tx_outputs(d, id, t)
      Indices(d) == Write(d, TRUE, [d EXCEPT !.tx_outputs = Without(@, id)])
      Index(d) == Write(d, TRUE, [d EXCEPT !.tx_indices = Without(@, t)])
  IN Then(Then(Then(Then(Then(Then(Then(db, Find), Pruned), Prunable), Hash), Outputs),
               Indices), Index)

(* get_tx finds the blob through tx_indices and both halves of the blob.   *)
HasTx(db, t) ==
  /\ t \in DOMAIN db.tx_indices
  /\ db.tx_indices[t].id \in DOMAIN db.txs_pruned \cap DOMAIN db.txs_prunable

remove_transaction(db, t) ==
  Then(Then(db, LAMBDA d : Check(d, HasTx(d, t))), LAMBDA d :
    Then(FoldLeft(remove_spent_key, d, Images(t)), LAMBDA e : remove_transaction_data(e, t)))

(* The transactions go in the reverse of the order they came in.           *)
pop_block(db) ==
  LET h == height(db) - 1
      b == db.blocks[h]
  IN Then(Then(get_block_from_height(db, h), remove_block), LAMBDA d :
       FoldRight(LAMBDA t, e : remove_transaction(e, t), <<miner_tx[b]>> \o tx_hashes[b], d))

(***************************************************************************)
(* The tables that do not follow the chain                                 *)
(***************************************************************************)
add_alt_block(db, b) ==
  Write(db, b \notin db.alt_blocks, [db EXCEPT !.alt_blocks = @ \cup {b}])

remove_alt_block(db, b) ==
  Write(db, b \in db.alt_blocks, [db EXCEPT !.alt_blocks = @ \ {b}])

add_txpool_tx(db, t) ==
  LET Meta(d) == Write(d, t \notin d.txpool_meta, [d EXCEPT !.txpool_meta = @ \cup {t}])
      Blob(d) == Write(d, t \notin d.txpool_blob, [d EXCEPT !.txpool_blob = @ \cup {t}])
  IN Then(Then(db, Meta), Blob)

remove_txpool_tx(db, t) ==
  LET Meta(d) == IF t \in d.txpool_meta
                 THEN Write(d, TRUE, [d EXCEPT !.txpool_meta = @ \ {t}]) ELSE d
      Blob(d) == IF t \in d.txpool_blob
                 THEN Write(d, TRUE, [d EXCEPT !.txpool_blob = @ \ {t}]) ELSE d
  IN Then(Then(db, Meta), Blob)

(***************************************************************************)
(* Reading                                                                 *)
(***************************************************************************)

(* get_blocks_from: the transactions of the blocks from height h on, read  *)
(* by walking txs_pruned once from the first block's miner transaction,    *)
(* stepping over the miner transaction of each block.                      *)
get_blocks_from(db, h) ==
  LET first == db.tx_indices[miner_tx[db.blocks[h]]].id
      Size(n) == Len(tx_hashes[db.blocks[n]])
      Start(n) == FoldSet(LAMBDA k, s : s + 1 + Size(k), first, h .. n - 1)
  IN [n \in h .. height(db) - 1 |->
        [i \in 1 .. Size(n) |-> db.txs_pruned[Start(n) + i]]]

(***************************************************************************)
(* What the database answers: the read functions, over the tables a read   *)
(* transaction sees. A function that throws when the row is missing is     *)
(* only applied where the row exists.                                      *)
(***************************************************************************)

(* Blocks                                                                  *)
block_exists(db, b) == b \in DOMAIN db.block_heights
get_block_height(db, b) == db.block_heights[b]
get_block_hash_from_height(db, h) == db.block_info[h].hash
top_block_hash(db) ==
  IF height(db) = 0 THEN None ELSE get_block_hash_from_height(db, height(db) - 1)

(* Transactions                                                            *)
tx_exists(db, t) == t \in DOMAIN db.tx_indices
tx_id(db, t) == db.tx_indices[t].id
get_tx_block_height(db, t) == db.tx_indices[t].block

(* Outputs                                                                 *)
get_output_key(db, a, k) == OfAmount(db, a)[k]
get_output_tx_and_index_from_global(db, o) == db.output_txs[o]

get_output_tx_and_index(db, a, offsets) ==
  [n \in DOMAIN offsets |->
     get_output_tx_and_index_from_global(db, get_output_key(db, a, offsets[n]).output_id)]

(* The row after a key; past the last one the cursor keeps what it read.   *)
NextRow(f, k) == IF \E x \in DOMAIN f : x > k THEN Min({x \in DOMAIN f : x > k}) ELSE k

(* The output indices of n transactions, from one on: one look-up, then    *)
(* the rows that follow it.                                                *)
get_tx_amount_output_indices(db, id, n) ==
  LET Row[i \in 1 .. n] == IF i = 1 THEN id ELSE NextRow(db.tx_outputs, Row[i - 1])
  IN [i \in 1 .. n |-> db.tx_outputs[Row[i]]]

(* Blockchain::get_tx_outputs_gindexs; FALSE is the empty answer.  *)
get_tx_outputs_gindexs(db, t, n) ==
  IF tx_exists(db, t) THEN get_tx_amount_output_indices(db, tx_id(db, t), n) ELSE <<>>

for_all_outputs(db) ==
  UNION {{<<a, get_output_tx_and_index_from_global(db, get_output_key(db, a, k).output_id),
            get_output_key(db, a, k).height>> : k \in DOMAIN OfAmount(db, a)}
         : a \in DOMAIN db.output_amounts}

(* Rows are read several at a time; the answer is the field of each one    *)
(* asked for.                                                              *)
get_block_cumulative_rct_outputs(db, heights) ==
  [n \in DOMAIN heights |-> db.block_info[heights[n]].cum_rct]

(* Of the outputs of an amount, in the order of their indices: how many    *)
(* there are up to each height. The walk ends after the first output above *)
(* `to`, and those below `from` are added to the first entry.              *)
Histogram(db, a, from, to) ==
  LET all == OfAmount(db, a)
      Seen == {k \in DOMAIN all :
                 to > 0 => \A j \in DOMAIN all : j < k => all[j].height <= to}
  IN [h \in from .. height(db) - 1 |-> Cardinality({k \in Seen : all[k].height <= h})]

MutGetOutputSizeHistogram(db, a, from, to) ==
  LET start == IF from > 0 THEN from - 1 ELSE from
      all == get_block_cumulative_rct_outputs(db, [n \in 1 .. to + 1 - start |-> start + n - 1])
  IN IF a # 0 THEN Histogram(db, a, from, to)
     ELSE [h \in from .. to |-> all[h + 1 - from]]

(* Blockchain::get_output_size_histogram, where it answers: outputs of     *)
(* amount 0 by the running count of block_info, the others by walking.     *)
CanHistogram(db, from, to) == (to > 0 => to >= from) /\ from < height(db) /\ to < height(db)

get_output_size_histogram(db, a, from, to) ==
  LET start == IF from > 0 THEN from - 1 ELSE from
      all == get_block_cumulative_rct_outputs(db, [n \in 1 .. to + 1 - start |-> start + n - 1])
  IN IF a # 0 THEN Histogram(db, a, from, to)
     ELSE IF from > 0 THEN [h \in from .. to |-> all[h + 2 - from]]
     ELSE [h \in from .. to |-> all[h + 1 - from]]

=============================================================================
