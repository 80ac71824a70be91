------------------------------ MODULE Database ------------------------------
(***************************************************************************)
(* The transactions of the block database, BlockchainLMDB's batch and      *)
(* read transactions, and the resizing of its memory map, under the code   *)
(* that uses them: block handling (prepare_handle_incoming_blocks,         *)
(* add_new_block, cleanup_handle_incoming_blocks), pop_blocks, the         *)
(* pool's LockedTXN, and the threads that only read.                       *)
(*                                                                         *)
(* The pool lock, which every writer takes first and keeps to the end of   *)
(* its batch, is the variable lock. LMDB itself is external: a write       *)
(* transaction works on a private copy of the tables, a read transaction   *)
(* keeps the tables it began with, and a commit replaces the tables in one *)
(* step, or fails when an earlier write met a full map.                    *)
(***************************************************************************)
EXTENDS Tables

CONSTANTS
  Writer,      \* threads that write
  Reader,      \* threads that only read
  Genesis,
  PoolTx,      \* transactions that enter and leave the pool by themselves
  AltBlock,    \* blocks that are kept as alternative blocks
  Peek,        \* heights a writer reads for itself
  MaxOps,      \* operations of one batch
  MaxResizes,  \* resizes of the map in a behaviour
  MaxCrashes,
  Room         \* how many writes a full map still takes: a subset of Nat

Thread == Writer \cup Reader

ASSUME ThreadAssumption ==
  /\ IsFiniteSet(Writer) /\ IsFiniteSet(Reader)
  /\ Writer \cap Reader = {} /\ None \notin Writer

VARIABLES
  disk,            \* the committed tables
  m_write_txn,     \* a write transaction is open
  txn,             \* the tables as it sees them
  m_batch_active,
  m_writer,        \* thread of the last batch_start
  m_batch_success, \* Blockchain::m_batch_success
  lock,            \* holder of the pool lock, or None
  gate,            \* creation_gate is set by a resize
  active,          \* num_active_txns
  resizes,         \* times the map was resized
  mapFailed,       \* a resize ended by an exception
  pc,              \* [Thread -> where the thread is]
  job,             \* [Writer -> what its batch is for]
  ops,             \* operations left in the batch
  crashes

writeVars == <<disk, m_write_txn, txn, m_batch_active, m_writer, m_batch_success, job, ops>>
gateVars == <<gate, active, resizes, mapFailed>>
vars == <<writeVars, gateVars, lock, pc, crashes>>

Jobs == {"blocks", "pop", "pool"}

(* What is left of a transaction's tables when it is committed.            *)
Committed(db) == [db EXCEPT !.cursor = None, !.err = "none", !.room = Ample]

Init ==
  /\ disk = EmptyTables /\ m_write_txn = FALSE /\ txn = EmptyTables
  /\ m_batch_active = FALSE /\ m_writer = None /\ m_batch_success = FALSE
  /\ lock = None /\ gate = FALSE /\ active = 0 /\ resizes = 0 /\ mapFailed = FALSE
  /\ pc = [t \in Thread |-> "idle"]
  /\ job = [t \in Writer |-> "none"] /\ ops = 0
  /\ crashes = 0

Running == height(disk) > 0

At(t, place) == pc[t] = place
Goto(t, place) == pc' = [pc EXCEPT ![t] = place]

(* Blockchain::init on an empty database: the genesis block in a write     *)
(* transaction of its own. When the map is full the commit throws in the   *)
(* guard's destructor, which ends the program: nothing is written.         *)
InitGenesis ==
  /\ ~Running
  /\ \E r \in Room \cup {Ample} :
       LET db == add_block([disk EXCEPT !.room = r], Genesis)
       IN disk' = IF db.err = "full" THEN disk ELSE Committed(db)
  /\ UNCHANGED <<m_write_txn, txn, m_batch_active, m_writer, m_batch_success, job, ops,
                 gateVars, lock, pc, crashes>>

(***************************************************************************)
(* batch_start                                                             *)
(***************************************************************************)

TakeLock(t) == lock = None /\ lock' = t

(* A writer takes the pool lock.                                           *)
Enter(t, j) ==
  /\ Running /\ At(t, "idle") /\ TakeLock(t)
  /\ job' = [job EXCEPT ![t] = j]
  /\ Goto(t, "start")
  /\ UNCHANGED <<disk, m_write_txn, txn, m_batch_active, m_writer, m_batch_success, ops,
                 gateVars, crashes>>

(* batch_start up to the resize. A batch in progress makes                 *)
(* prepare_handle_incoming_blocks let go of the locks and try again later. *)
BatchStart(t) ==
  /\ At(t, "start")
  /\ IF m_batch_active
     THEN /\ lock' = None /\ Goto(t, "idle")
          /\ UNCHANGED m_writer
     ELSE /\ m_writer' = t
          /\ \/ Goto(t, "begin")
             \/ resizes < MaxResizes /\ Goto(t, "resize")
          /\ UNCHANGED lock
  /\ UNCHANGED <<disk, m_write_txn, txn, m_batch_active, m_batch_success, job, ops,
                 gateVars, crashes>>

MutCloseGate == UNCHANGED gate
CloseGate == ~gate /\ gate' = TRUE

(* do_resize: close the gate; it stays closed when a write transaction is  *)
(* found open, for the exception is thrown before allow_new_txns.          *)
PreventNewTxns(t) ==
  /\ At(t, "resize") /\ CloseGate
  /\ IF ~m_write_txn
     THEN Goto(t, "drain") /\ UNCHANGED <<mapFailed, lock>>
     ELSE /\ Goto(t, "idle") /\ mapFailed' = TRUE
          /\ lock' = IF job[t] = "blocks" THEN lock ELSE None
  /\ UNCHANGED <<writeVars, active, resizes, crashes>>

MutWaited == TRUE

Waited == active = 0

(* wait_no_active_txns, mdb_env_set_mapsize, allow_new_txns.               *)
SetMapSize(t) ==
  /\ At(t, "drain") /\ Waited
  /\ resizes' = resizes + 1
  /\ gate' = FALSE
  /\ Goto(t, "begin")
  /\ UNCHANGED <<writeVars, active, mapFailed, lock, crashes>>

(* mdb_env_set_mapsize fails: the exception leaves the gate closed, and    *)
(* in prepare_handle_incoming_blocks the pool lock taken, which only       *)
(* cleanup_handle_incoming_blocks gives back.                              *)
SetMapSizeFails(t) ==
  /\ At(t, "drain") /\ Waited
  /\ mapFailed' = TRUE
  /\ lock' = IF job[t] = "blocks" THEN lock ELSE None
  /\ Goto(t, "idle")
  /\ UNCHANGED <<writeVars, gate, active, resizes, crashes>>

(* The constructor of mdb_txn_safe passes the gate, and the transaction    *)
(* begins.                                                                 *)
BeginBatch(t) ==
  /\ At(t, "begin") /\ ~gate
  /\ active' = active + 1
  /\ m_write_txn' = TRUE /\ txn' = disk
  /\ m_batch_active' = TRUE
  /\ m_batch_success' = (job[t] = "blocks" \/ m_batch_success)
  /\ ops' = MaxOps
  /\ Goto(t, "write")
  /\ UNCHANGED <<disk, m_writer, job, gate, resizes, mapFailed, lock, crashes>>

(***************************************************************************)
(* The work of a batch                                                     *)
(***************************************************************************)
Working(t) == At(t, "write") /\ ops > 0

Unmoved == UNCHANGED <<disk, m_write_txn, m_batch_active, m_writer, job, gateVars, lock, crashes>>

(* The space question is put anew to every operation.                      *)
Settled(db) == [db EXCEPT !.room = Ample]

InPool(b) == SelectSeq(tx_hashes[b], LAMBDA t : t \in txn.txpool_meta)

ReturnTxs(db, txs) ==
  FoldLeft(LAMBDA d, t : IF t \in d.txpool_meta THEN d ELSE add_txpool_tx(d, t), db, txs)

(* An exception is caught by the caller: the writes made stay in the       *)
(* transaction, which goes on to take other writes unless the map is full. *)
(* txn.err remembers that they are there.                                  *)
Resumed(db) == [db EXCEPT !.err = IF @ = "threw" THEN "none" ELSE @]

MarkFailed == m_batch_success' = FALSE

(* handle_block_to_main_chain: the block's transactions leave the pool,    *)
(* the block is added; on an exception the batch is marked to be aborted   *)
(* and the transactions go back to the pool.                               *)
AddBlock(t, b, r) ==
  /\ Working(t) /\ job[t] = "blocks"
  /\ ~block_exists(txn, b)
  /\ prev_id[b] = top_block_hash(txn)
  /\ LET taken == FoldLeft(remove_txpool_tx, txn, InPool(b))
     IN \E added \in {add_block([taken EXCEPT !.room = r], b)} :
        IF added.err = "none"
        THEN /\ txn' = Settled(added)
             /\ ops' = ops - 1
             /\ UNCHANGED <<m_batch_success, pc>>
        ELSE /\ MarkFailed
             /\ txn' = [Settled(ReturnTxs(Resumed(added), tx_hashes[b])) EXCEPT !.err = added.err]
             /\ Goto(t, "end") /\ UNCHANGED ops
  /\ Unmoved

(* pop_block_from_blockchain: the top block goes, its transactions may     *)
(* return to the pool. While blocks are handled an exception ends the      *)
(* request and leaves m_batch_success as it is; pop_blocks aborts.         *)
PopBlock(t, back, r) ==
  /\ Working(t) /\ job[t] \in {"blocks", "pop"}
  /\ height(txn) > 1
  /\ \E b \in {txn.blocks[height(txn) - 1]}, db \in {pop_block([txn EXCEPT !.room = r])} :
        IF db.err = "none"
        THEN /\ txn' = Settled(IF back THEN ReturnTxs(db, tx_hashes[b]) ELSE db)
             /\ ops' = ops - 1 /\ UNCHANGED pc
        ELSE /\ txn' = Settled(db)
             /\ Goto(t, IF job[t] = "pop" THEN "abort" ELSE "end") /\ UNCHANGED ops
  /\ UNCHANGED m_batch_success
  /\ Unmoved

(* handle_alternative_block and switch_to_alternative_blockchain keep the  *)
(* blocks that are off the main chain.                                     *)
AddAltBlock(t, b) ==
  /\ Working(t) /\ job[t] = "blocks"
  /\ ~block_exists(txn, b) /\ b \notin txn.alt_blocks
  /\ txn' = add_alt_block(txn, b)
  /\ ops' = ops - 1
  /\ UNCHANGED <<m_batch_success, pc>>
  /\ Unmoved

RemoveAltBlock(t, b) ==
  /\ Working(t) /\ job[t] = "blocks" /\ b \in txn.alt_blocks
  /\ txn' = remove_alt_block(txn, b)
  /\ ops' = ops - 1
  /\ UNCHANGED <<m_batch_success, pc>>
  /\ Unmoved

(* The pool's own batches; an exception leaves the LockedTXN to its        *)
(* destructor, which aborts.                                               *)
PoolWrite(t, x, r) ==
  /\ Working(t) /\ job[t] = "pool"
  /\ LET db == [txn EXCEPT !.room = r]
         new == IF x \in txn.txpool_meta THEN remove_txpool_tx(db, x) ELSE add_txpool_tx(db, x)
     IN /\ txn' = Settled(new)
        /\ IF new.err = "none" THEN ops' = ops - 1 /\ UNCHANGED pc
                               ELSE Goto(t, "abort") /\ UNCHANGED ops
  /\ UNCHANGED m_batch_success
  /\ Unmoved

(* Any read by the writer goes through its own transaction and cursors.    *)
ReadOwn(t, h) ==
  /\ At(t, "write") /\ h \in DOMAIN txn.blocks /\ txn.cursor # h
  /\ txn' = get_block_from_height(txn, h)
  /\ UNCHANGED <<m_batch_success, ops, pc>>
  /\ Unmoved

(***************************************************************************)
(* The end of a batch                                                      *)
(***************************************************************************)
Stop(t) == At(t, "write") /\ Goto(t, IF job[t] = "pool" THEN "commit" ELSE "end")
           /\ UNCHANGED <<writeVars, gateVars, lock, crashes>>

(* Every way a batch ends destroys its mdb_txn_safe and frees the lock.    *)
Close(t) ==
  /\ m_write_txn' = FALSE /\ txn' = EmptyTables /\ m_batch_active' = FALSE /\ ops' = 0
  /\ job' = [job EXCEPT ![t] = "none"]
  /\ active' = active - 1
  /\ lock' = None /\ Goto(t, "idle")
  /\ UNCHANGED <<m_writer, m_batch_success, gate, resizes, mapFailed, crashes>>

(* batch_stop: a transaction that met a full map is not committed.         *)
BatchStop(t) ==
  /\ \/ At(t, "commit")
     \/ At(t, "end") /\ (job[t] = "pop" \/ m_batch_success)
  /\ disk' = IF txn.err = "full" THEN disk ELSE Committed(txn)
  /\ Close(t)

BatchAbort(t) ==
  /\ \/ At(t, "abort")
     \/ At(t, "end") /\ job[t] = "blocks" /\ ~m_batch_success
  /\ Close(t)
  /\ UNCHANGED disk

(***************************************************************************)
(* Readers                                                                 *)
(***************************************************************************)

(* A single read: TXN_PREFIX_RDONLY counts its transaction.                *)
ReadBegin(t) ==
  /\ Running /\ At(t, "idle") /\ ~gate
  /\ active' = active + 1
  /\ Goto(t, "read")
  /\ UNCHANGED <<writeVars, gate, resizes, mapFailed, lock, crashes>>

ReadEnd(t) ==
  /\ At(t, "read")
  /\ active' = active - 1
  /\ Goto(t, "idle")
  /\ UNCHANGED <<writeVars, gate, resizes, mapFailed, lock, crashes>>

(* db_rtxn_guard: the transaction it opens is not counted, and each read   *)
(* made under it passes the gate and takes its count back at once.         *)
GuardBegin(t) ==
  /\ Running /\ At(t, "idle")
  /\ Goto(t, "guard")
  /\ UNCHANGED <<writeVars, gateVars, lock, crashes>>

GuardEnd(t) ==
  /\ At(t, "guard") /\ ~gate
  /\ Goto(t, "idle")
  /\ UNCHANGED <<writeVars, gateVars, lock, crashes>>

(* The process ends at any point and is started again: an open transaction *)
(* is gone. A process that a failed resize left stuck is always restarted. *)
Crash ==
  /\ \/ crashes < MaxCrashes /\ crashes' = crashes + 1
     \/ mapFailed /\ UNCHANGED crashes
  /\ m_write_txn' = FALSE /\ txn' = EmptyTables
  /\ m_batch_active' = FALSE /\ m_batch_success' = FALSE /\ m_writer' = None /\ ops' = 0
  /\ lock' = None /\ gate' = FALSE /\ active' = 0 /\ mapFailed' = FALSE
  /\ pc' = [t \in Thread |-> "idle"] /\ job' = [t \in Writer |-> "none"]
  /\ UNCHANGED <<disk, resizes>>

Step(t) ==
  \/ BatchStart(t) \/ PreventNewTxns(t) \/ SetMapSize(t) \/ BeginBatch(t)
  \/ Stop(t) \/ BatchStop(t) \/ BatchAbort(t)

Work(t) ==
  \/ \E b \in Block, r \in Room \cup {Ample} : AddBlock(t, b, r)
  \/ \E back \in BOOLEAN, r \in Room \cup {Ample} : PopBlock(t, back, r)
  \/ \E b \in AltBlock : AddAltBlock(t, b) \/ RemoveAltBlock(t, b)
  \/ \E x \in PoolTx, r \in Room \cup {Ample} : PoolWrite(t, x, r)
  \/ \E h \in Peek : ReadOwn(t, h)

Next ==
  \/ InitGenesis
  \/ \E t \in Writer :
       \/ \E j \in Jobs : Enter(t, j)
       \/ Step(t) \/ Work(t) \/ SetMapSizeFails(t)
  \/ \E t \in Reader : ReadBegin(t) \/ ReadEnd(t) \/ GuardBegin(t) \/ GuardEnd(t)
  \/ Crash

Spec == Init /\ [][Next]_vars

(* A thread that runs keeps running: a batch ends once its work is done, a *)
(* read is finished, and the gate, a spin lock, is passed by a thread that *)
(* finds it open again and again.                                          *)
Fairness ==
  /\ \A t \in Writer : WF_vars(Step(t))
  /\ \A t \in Reader : WF_vars(ReadEnd(t)) /\ SF_vars(GuardEnd(t))

FairSpec == Spec /\ Fairness

(***************************************************************************)
(* Properties                                                              *)
(***************************************************************************)

(* The chain a set of tables stands for, its transactions and its outputs, *)
(* in the order they were added.                                           *)
Chain(db) == [n \in 1 .. height(db) |-> db.blocks[n - 1]]
AllTxs(b) == <<miner_tx[b]>> \o tx_hashes[b]
TxsOf(chain) == FlattenSeq([n \in DOMAIN chain |-> AllTxs(chain[n])])
OutsOf(txs) ==
  FlattenSeq([n \in DOMAIN txs |-> [i \in DOMAIN vout[txs[n]] |-> <<txs[n], i>>]])
ImagesOf(txs) == UNION {Range(Images(t)) : t \in Range(txs)}

Position(s, e) == CHOOSE n \in DOMAIN s : s[n] = e
FromZero(s) == [n \in 0 .. Len(s) - 1 |-> s[n + 1]]

(* The tables a chain of blocks should have, written down without the      *)
(* functions that add and remove.                                          *)
TablesFor(db, chain, txs, outs) ==
  LET Amount(n) == StoredAmount(outs[n][1], outs[n][2])
      Same(a) == {n \in DOMAIN outs : Amount(n) = a}
      Rank(n) == Cardinality({m \in Same(Amount(n)) : m < n})
      Block0(t) == CHOOSE h \in 0 .. Len(chain) - 1 : t \in Range(AllTxs(chain[h + 1]))
      From(h) == Max({n \in 0 .. h : n = 0 \/ major_version[chain[n + 1]] < 4})
  IN /\ db.blocks = FromZero(chain)
     /\ db.block_info = [h \in 0 .. Len(chain) - 1 |->
          [hash |-> chain[h + 1],
           cum_rct |-> Cardinality({n \in Same(0) : Block0(outs[n][1]) \in From(h) .. h})]]
     /\ db.block_heights = [b \in Range(chain) |-> Position(chain, b) - 1]
     /\ db.txs_pruned = FromZero(txs) /\ db.txs_prunable = FromZero(txs)
     /\ db.prunable_hash = {n \in 0 .. Len(txs) - 1 : version[txs[n + 1]] = 2}
     /\ db.tx_indices = [t \in Range(txs) |-> [id |-> Position(txs, t) - 1, block |-> Block0(t)]]
     /\ db.tx_outputs = [n \in 0 .. Len(txs) - 1 |->
          [i \in DOMAIN vout[txs[n + 1]] |-> Rank(Position(outs, <<txs[n + 1], i>>))]]
     /\ db.output_txs = [n \in 0 .. Len(outs) - 1 |-> <<outs[n + 1][1], outs[n + 1][2] - 1>>]
     /\ db.output_amounts = [a \in {Amount(n) : n \in DOMAIN outs} |->
          [k \in 0 .. Cardinality(Same(a)) - 1 |->
             LET n == CHOOSE m \in Same(a) : Rank(m) = k
             IN [output_id |-> n - 1, height |-> Block0(outs[n][1])]]]
     /\ db.spent_keys = ImagesOf(txs)
     /\ 0 .. Len(chain) - 1 \subseteq db.hf_versions

HoldsChain(db) ==
  /\ DOMAIN db.blocks = 0 .. height(db) - 1
  /\ \E chain \in {Chain(db)} : \E txs \in {TxsOf(chain)} : \E outs \in {OutsOf(txs)} :
       /\ IsInjective(chain) /\ IsInjective(txs)
       /\ TablesFor(db, chain, txs, outs)
  /\ db.txpool_meta = db.txpool_blob

TypeOK ==
  /\ disk.err = "none" /\ disk.cursor = None
  /\ txn.err \in Errors /\ txn.room <= Ample
  /\ lock \in Writer \cup {None} /\ m_writer \in Writer \cup {None}
  /\ gate \in BOOLEAN /\ active \in 0 .. Cardinality(Thread)
  /\ resizes \in 0 .. MaxResizes /\ ops \in 0 .. MaxOps
  /\ pc \in [Thread -> {"idle", "start", "resize", "drain", "begin", "write", "commit",
                        "abort", "end", "read", "guard"}]

(* What is committed is, table by table, what its chain of blocks          *)
(* determines: pop_block undoes add_block in every table, ids are dense,   *)
(* and no write of a block that failed half way (a key image already       *)
(* spent, a full map, a crash) is ever committed.                          *)
DiskHoldsChain == HoldsChain(disk)

(* So are the tables of the open transaction, between its operations and   *)
(* wherever its cursor stands, until one of them fails.                    *)
WorkHoldsChain == m_write_txn /\ txn.err = "none" => HoldsChain(txn)

(* Whatever is added, popped, aborted or lost, tables that anybody may     *)
(* read are the tables of a chain.                                         *)
TablesExact == TypeOK /\ DiskHoldsChain /\ WorkHoldsChain

(* get_blocks_from walks txs_pruned instead of looking each transaction up *)
(* by its hash: from every height of what is committed, which is what a    *)
(* reader sees, it finds the transactions of each block.                   *)
WalkFindsTxs ==
  \A h \in DOMAIN disk.blocks : \A n \in h .. height(disk) - 1 :
    get_blocks_from(disk, h)[n] = tx_hashes[disk.blocks[n]]

(* The indices of a block's outputs, which get_tx_amount_output_indices    *)
(* reads for all its transactions in one walk, lead back to the output:    *)
(* by amount and index to its transaction and place in it, and to the      *)
(* height of its block.                                                    *)
IndicesResolve ==
  \A h \in DOMAIN disk.blocks :
    \E txs \in {AllTxs(disk.blocks[h])} :
    \E rows \in {get_tx_outputs_gindexs(disk, txs[1], Len(txs))} :
      \A n \in DOMAIN txs : \A i \in DOMAIN vout[txs[n]] :
        LET a == StoredAmount(txs[n], i)
            k == rows[n][i]
        IN /\ get_output_tx_and_index(disk, a, <<k>>) = << <<txs[n], i - 1>> >>
           /\ get_output_key(disk, a, k).height = get_tx_block_height(disk, txs[n])
           /\ get_output_key(disk, a, k).height = get_block_height(disk, disk.blocks[h])

(* get_output_size_histogram, which counts by block_info's running total   *)
(* for amount 0 and by walking the outputs for any other, gives for every  *)
(* height asked for the number of outputs of the amount up to that height, *)
(* as long as every block has the major version that block templates have: *)
(* one below 4 starts the running total again, and no check refuses it.    *)
HistogramExact ==
  (\A h \in DOMAIN disk.blocks : major_version[disk.blocks[h]] >= 4) =>
  \E outs \in {for_all_outputs(disk)} :
    \A a \in DOMAIN disk.output_amounts, from, to \in DOMAIN disk.blocks :
      CanHistogram(disk, from, to) =>
        \A h \in from .. to :
          get_output_size_histogram(disk, a, from, to)[h] =
            Cardinality({o \in outs : o[1] = a /\ o[3] <= h})

(* Queries that take a short cut through the tables answer as a search of  *)
(* the chain would.                                                        *)
QueriesExact == WalkFindsTxs /\ IndicesResolve /\ HistogramExact

(* LockedTXN's comment: a batch that exists can't be from another thread.  *)
(* Whoever holds the pool lock finds no batch of another thread, and       *)
(* m_writer is the thread whose batch is open.                             *)
BatchIsOwn ==
  /\ m_batch_active <=> m_write_txn
  /\ m_batch_active => lock = m_writer /\ pc[m_writer] \in {"write", "commit", "abort", "end"}

(* The map is only replaced while no counted transaction is open, the      *)
(* write transaction among them (do_resize closes the gate and waits).     *)
ResizeIsQuiet ==
  [][resizes' # resizes =>
       /\ ~m_write_txn
       /\ \A t \in Thread : pc[t] \notin {"write", "commit", "abort", "end", "read"}]_vars

(* One thread writes at a time, and nobody replaces the map under anybody. *)
BatchesIsolated == []BatchIsOwn /\ ResizeIsQuiet

(* Every thread that was given the pool lock for a batch finishes it, and  *)
(* no reader is held at the gate for ever, unless a resize failed and left *)
(* the gate closed.                                                        *)
BatchesEnd ==
  []~mapFailed =>
    /\ \A t \in Writer : (pc[t] = "start") ~> (pc[t] = "idle")
    /\ \A t \in Reader : (pc[t] = "guard") ~> (pc[t] = "idle")

(* The database implements the store of a chain: the chain on disk changes *)
(* only when a batch whose tables hold a chain is committed, by whole      *)
(* blocks that are linked and spend no image twice.                        *)
MayFollow(chain, b) ==
  /\ prev_id[b] = IF chain = <<>> THEN None ELSE Last(chain)
  /\ Range(AllTxs(b)) \cap Range(TxsOf(chain)) = {}
  /\ ImagesOf(AllTxs(b)) \cap ImagesOf(TxsOf(chain)) = {}

Phase == IF ~m_write_txn THEN "none" ELSE IF txn.err # "none" THEN "broken" ELSE "open"

Store == INSTANCE ChainStore WITH
  Linked <- MayFollow,
  saved  <- Chain(disk),
  phase  <- Phase,
  work   <- IF Phase = "open" THEN Chain(txn) ELSE <<>>

StoresChain == Store!Spec
=============================================================================
