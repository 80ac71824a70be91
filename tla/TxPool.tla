------------------------------- MODULE TxPool -------------------------------
(***************************************************************************)
(* The transaction pool between its users: RPC and peers that submit       *)
(* transactions, the idle loop that relays and expires them, and the block *)
(* thread that takes transactions into blocks and gives them back, inside  *)
(* a database batch that is committed, aborted or cut short by a crash.    *)
(*                                                                         *)
(* Pool and chain are protected by recursive mutexes and the block thread  *)
(* holds the pool's from prepare_handle_incoming_blocks to                 *)
(* cleanup_handle_incoming_blocks, so while a batch is open no other user  *)
(* takes a step.  Blocks are reduced to the transactions they hold.        *)
(***************************************************************************)
EXTENDS PoolOps

VARIABLES
  pool,       \* the state of tx_memory_pool
  mined,      \* transactions of the main chain
  taken,      \* transactions out on loan to the block being handled
  returning,  \* the loan is being given back, one transaction at a time
  batch,      \* "idle", "open", or "failed" once m_batch_success is cleared
  saved,      \* the tables as they were when the batch was opened
  relaying,   \* accepted transactions whose relay step is still to come
  orderly     \* history: since the process started no transaction was received again
              \* while it was pending, and no block spent a key image twice

vars == <<pool, mined, taken, returning, batch, saved, relaying, orderly>>

Disk == [txpool |-> pool.txpool, mined |-> mined]

NoSave == [txpool |-> EmptyPool.txpool, mined |-> {}]

TypeOK ==
  /\ pool \in PoolType(0..(WMod - 1))
  /\ mined \in SUBSET TxId
  /\ taken \in SUBSET TxId
  /\ returning \in BOOLEAN
  /\ batch \in {"idle", "open", "failed"}
  /\ saved \in [txpool : Tables, mined : SUBSET TxId]
  /\ relaying \in SUBSET TxId
  /\ orderly \in BOOLEAN

Init ==
  /\ pool = EmptyPool
  /\ mined = {}
  /\ taken = {}
  /\ returning = FALSE
  /\ batch = "idle"
  /\ saved = NoSave
  /\ relaying = {}
  /\ orderly = TRUE

Idle == batch = "idle"

\* core::add_new_tx goes on only with a transaction it does not have yet.
New(t) ==
  /\ t \notin mined
  /\ ~MatchesLegacy(pool, t)

Received(t) == orderly' = (orderly /\ t \notin Pending(pool))

\* A transaction from RPC ("none" or "local") or from a peer ("fluff").
Submit(t, method) ==
  /\ Idle
  /\ New(t)
  /\ LET r == AddTx(pool, t, method, CheckInputs(t, mined), FALSE)
     IN  /\ pool' = r.p
         /\ relaying' = IF r.relay THEN relaying \cup {t} ELSE relaying
  /\ Received(t)
  /\ UNCHANGED <<mined, taken, returning, batch, saved>>

\* The handler's later step: relay_transactions, then on_transactions_relayed.
Relay(t) ==
  /\ Idle
  /\ t \in relaying
  /\ pool' = SetRelayed(pool, {t})
  /\ relaying' = relaying \ {t}
  /\ UNCHANGED <<mined, taken, returning, batch, saved, orderly>>

\* core::relay_txpool_transactions, called by the idle loop.
IdleRelay ==
  /\ Idle
  /\ \E S \in (SUBSET Relayable(pool)) \ {{}} : pool' = SetRelayed(pool, S)
  /\ UNCHANGED <<mined, taken, returning, batch, saved, relaying, orderly>>

ExpireStuck ==
  /\ Idle
  /\ Expired(pool) # {}
  /\ pool' = RemoveStuck(pool)
  /\ UNCHANGED <<mined, taken, returning, batch, saved, relaying, orderly>>

\* flush_txes_from_pool, called by RPC.
Flush(t) ==
  /\ Idle
  /\ t \in Pending(pool)
  /\ pool' = TakeTx(pool, t)
  /\ UNCHANGED <<mined, taken, returning, batch, saved, relaying, orderly>>

Tick ==
  /\ Idle
  /\ \E t \in Pending(pool) : pool.txpool[t].age < MaxAge
  /\ pool' = AgeAll(pool)
  /\ UNCHANGED <<mined, taken, returning, batch, saved, relaying, orderly>>

-----------------------------------------------------------------------------

StartBatch ==
  /\ Idle
  /\ batch' = "open"
  /\ saved' = Disk
  /\ UNCHANGED <<pool, mined, taken, returning, relaying, orderly>>

\* A transaction that came along with a block, in a batch or before it.
AddBlockTx(t) ==
  /\ taken = {}
  /\ New(t)
  /\ pool' = AddTx(pool, t, "block", CheckInputs(t, mined), ~Idle).p
  /\ Received(t)
  /\ UNCHANGED <<mined, taken, returning, batch, saved, relaying>>

\* One round of the transaction loop of handle_block_to_main_chain.
TakeForBlock(t) ==
  /\ ~Idle /\ ~returning
  /\ t \in Pending(pool) \ mined
  /\ pool' = TakeTx(pool, t)
  /\ taken' = taken \cup {t}
  /\ UNCHANGED <<mined, returning, batch, saved, relaying, orderly>>

InputsGood == \A t \in taken : CheckInputs(t, mined)

\* Every transaction checked against the chain below, and add_block succeeded.
ConnectBlock ==
  /\ ~Idle /\ ~returning
  /\ taken # {} /\ InputsGood /\ Compatible(taken)
  /\ mined' = mined \cup taken
  /\ taken' = {}
  /\ UNCHANGED <<pool, returning, batch, saved, relaying, orderly>>

(***************************************************************************)
(* add_block throws KEY_IMAGE_EXISTS at the first transaction that spends  *)
(* an image of an earlier one.  What it wrote before stays in the tables   *)
(* until the batch, now lost, is aborted; the loan goes back.              *)
(***************************************************************************)
AddBlockThrows ==
  /\ ~Idle /\ ~returning
  /\ InputsGood
  /\ \E written \in SUBSET taken :
       /\ Compatible(written)
       /\ \E u \in taken \ written : ~Compatible(written \cup {u})
       /\ mined' = mined \cup written
  /\ batch' = "failed"
  /\ returning' = TRUE
  /\ orderly' = FALSE
  /\ UNCHANGED <<pool, taken, saved, relaying>>

\* Any other way a block fails verification.
RejectBlock ==
  /\ ~Idle /\ ~returning
  /\ taken # {}
  /\ returning' = TRUE
  /\ UNCHANGED <<pool, mined, taken, batch, saved, relaying, orderly>>

\* What belongs to a block of the chain, and is not left over from AddBlockThrows.
InBlocks == mined \ Pending(pool)

\* pop_block_from_blockchain: the chain gives up a block nothing builds on.
DisconnectBlock(S) ==
  /\ ~Idle /\ ~returning
  /\ taken = {}
  /\ S \subseteq InBlocks /\ S # {}
  /\ \A t \in InBlocks \ S : ring[t] \cap S = {}
  /\ mined' = mined \ S
  /\ taken' = S
  /\ returning' = TRUE
  /\ UNCHANGED <<pool, batch, saved, relaying, orderly>>

\* Mutant: gives back one transaction and forgets the rest of the loan.
MutReturnTx(t) ==
  /\ returning
  /\ t \in taken
  /\ pool' = AddTx(pool, t, "block", CheckInputs(t, mined), TRUE).p
  /\ taken' = {}
  /\ returning' = FALSE
  /\ UNCHANGED <<mined, batch, saved, relaying, orderly>>

\* return_tx_to_pool; a refusal is only logged.
ReturnTx(t) ==
  /\ returning
  /\ t \in taken
  /\ pool' = AddTx(pool, t, "block", CheckInputs(t, mined), TRUE).p
  /\ taken' = taken \ {t}
  /\ returning' = (taken' # {})
  /\ UNCHANGED <<mined, batch, saved, relaying, orderly>>

StopBatch ==
  /\ batch = "open"
  /\ taken = {}
  /\ batch' = "idle"
  /\ saved' = NoSave
  /\ UNCHANGED <<pool, mined, taken, returning, relaying, orderly>>

\* batch_abort restores the tables and nothing else.
AbortBatch ==
  /\ batch = "failed"
  /\ taken = {}
  /\ pool' = [pool EXCEPT !.txpool = saved.txpool]
  /\ mined' = saved.mined
  /\ batch' = "idle"
  /\ saved' = NoSave
  /\ UNCHANGED <<taken, returning, relaying, orderly>>

\* What a process that starts now finds on disk.
Durable == IF Idle THEN Disk ELSE saved

\* The daemon stops or crashes and starts again.
Restart ==
  /\ InitAllowed(Durable.txpool)
  /\ pool' = Validate(LoadPool(Durable.txpool), Durable.mined)
  /\ mined' = Durable.mined
  /\ taken' = {}
  /\ returning' = FALSE
  /\ batch' = "idle"
  /\ saved' = NoSave
  /\ relaying' = {}
  /\ orderly' = TRUE

Next ==
  \/ \E t \in TxId : \E m \in Methods \ {"block"} : Submit(t, m)
  \/ \E t \in TxId : Relay(t) \/ Flush(t)
  \/ IdleRelay \/ ExpireStuck \/ Tick
  \/ \E t \in TxId : AddBlockTx(t) \/ TakeForBlock(t) \/ ReturnTx(t)
  \/ \E S \in SUBSET TxId : DisconnectBlock(S)
  \/ StartBatch \/ ConnectBlock \/ AddBlockThrows \/ RejectBlock
  \/ StopBatch \/ AbortBatch
  \/ Restart

Spec == Init /\ [][Next]_vars

-----------------------------------------------------------------------------

(***************************************************************************)
(* m_spent_output_key_images lists, for every key image, exactly the       *)
(* pending transactions that spend it: add_tx relies on it to refuse a     *)
(* double spend and prune, take_tx and remove_stuck_transactions maintain  *)
(* it beside the table.                                                    *)
(***************************************************************************)
KeyImagesExact == orderly => ImagesExact(pool)

(***************************************************************************)
(* m_txs_by_fee_and_receive_time holds one entry per pending transaction,  *)
(* with the receive time recorded in the table: fill_block_template and    *)
(* prune walk it instead of the table.                                     *)
(***************************************************************************)
SortedExact == orderly => OrderExact(pool)

(***************************************************************************)
(* m_txpool_weight is the weight of the pending transactions: every add    *)
(* and every removal adjusts it by hand, and prune decides by it.          *)
(***************************************************************************)
WeightExact == orderly => pool.weight = TotalWeight(Pending(pool)) % WMod

(***************************************************************************)
(* A transaction is in one place at a time: pending, on loan to the block  *)
(* being handled, or in the chain; except in a batch that add_block failed *)
(* in, whose tables nobody reads after it.                                 *)
(***************************************************************************)
OnePlace == batch # "failed" =>
  /\ Pending(pool) \cap (mined \cup taken) = {}
  /\ taken \cap mined = {}

(***************************************************************************)
(* The chain never spends a key image twice and never uses an output it    *)
(* does not hold, whatever blocks are connected, popped, rolled back or    *)
(* cut short by a crash.                                                   *)
(***************************************************************************)
ChainSound == batch # "failed" =>
  /\ Compatible(mined)
  /\ \A t \in mined : ring[t] \subseteq mined

(***************************************************************************)
(* Pool, loan and chain fit together after every step of every user, in    *)
(* particular after each step of a block that is connected, popped or      *)
(* given up (handle_block_to_main_chain, pop_block_from_blockchain).       *)
(***************************************************************************)
PoolChainSound == OnePlace /\ ChainSound

\* Steps that neither abort a batch nor cut one short.
NoRollback == Idle \/ batch' # "idle"

(***************************************************************************)
(* While a batch is not rolled back, a transaction that the chain or the   *)
(* block thread holds is not lost: it stays, or return_tx_to_pool and      *)
(* pop_block_from_blockchain put it back into the pool.                    *)
(***************************************************************************)
LoanReturned ==
  [][orderly' /\ NoRollback => mined \cup taken \subseteq mined' \cup taken' \cup Pending(pool)']_vars

(***************************************************************************)
(* add_tx ends with prune: when a transaction was added, the pool is       *)
(* within m_txpool_max_weight or only kept-by-block transactions and the   *)
(* best paying one are left.                                               *)
(***************************************************************************)
PrunedAfterAdd ==
  [][(orderly' /\ NoRollback /\ ~(Pending(pool)' \subseteq Pending(pool))) => Bounded(pool)']_vars

(***************************************************************************)
(* tx_memory_pool::init can load what is on disk: it enters the not kept   *)
(* by block transactions first and the others after them, "to avoid        *)
(* rejection due to key image collision".                                  *)
(***************************************************************************)
RestartSucceeds == InitAllowed(Durable.txpool)
=============================================================================
