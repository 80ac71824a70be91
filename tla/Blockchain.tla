----------------------------- MODULE Blockchain -----------------------------
(***************************************************************************)
(* The main chain, the alternative blocks and the blocks remembered as     *)
(* invalid, while blocks arrive in database batches, the chain switches to *)
(* a heavier branch, a switch fails and is rolled back, blocks are popped, *)
(* and the daemon crashes.  The whole of add_new_block runs under the      *)
(* locks of pool and chain: its steps are actions here so that a crash can *)
(* fall between two of them, and nothing else can.                         *)
(*                                                                         *)
(* A block determines its ancestors, so the main chain is given by its     *)
(* last block.  The pool is reduced to its table of metadata; TxPool has   *)
(* the rest of it.                                                         *)
(***************************************************************************)
EXTENDS BlockTree, Ledger, Sequences, FiniteSetsExt

CONSTANTS
  NoBlock,      \* crypto::null_hash
  work,         \* [Block -> Nat]: cumulative difficulty
  blockTxs,     \* [Block -> Seq(TxId)]: tx_hashes, without the coinbase
  BadHeader,    \* wrong timestamp, proof of work or shape of the coinbase
  BadReward,    \* refused by validate_miner_transaction
  Age,          \* CRYPTONOTE_DEFAULT_TX_SPENDABLE_AGE
  weight,       \* [TxId -> Nat]: size of the blob
  rate,         \* [TxId -> Nat]: fee per weight unit, different for each transaction
  Room,         \* get_block_size_bound less the reserve for the coinbase
  Env           \* what may happen besides the arrival of blocks

ASSUME NoBlockAssumption == NoBlock \notin Block

ASSUME WorkAssumption ==
  /\ work \in [Block -> Nat]
  /\ \A b \in Block \ {Genesis} : work[b] > work[parent[b]]

ASSUME BlockTxsAssumption ==
  /\ blockTxs \in [Block -> Seq(TxId)]
  /\ blockTxs[Genesis] = <<>>

ASSUME RateAssumption ==
  /\ IsFiniteSet(TxId)
  /\ rate \in [TxId -> Nat]
  /\ \A t, u \in TxId : rate[t] = rate[u] => t = u

ASSUME EnvAssumption == Env \subseteq {"submit", "drop", "pop", "flush", "crash", "mine"}

VARIABLES
  tip,      \* the last block of the main chain
  alt,      \* the alternative blocks, a table of the database
  pool,     \* the table of pending transactions
  invalid,  \* m_invalid_blocks
  tmpl,     \* the cached block template, while its cookie is the pool's
  job,      \* how far add_new_block got
  batch,    \* "idle", "open", or "failed" once m_batch_success is cleared
  saved,    \* the tables when the batch was opened
  dirty,    \* transactions written by an add_block that threw
  found     \* a block mined here that is about to be handled

vars == <<tip, alt, pool, invalid, tmpl, job, batch, saved, dirty, found>>

Methods == {"none", "local", "block", "fluff"}

Entry == [relay : Methods, checked : BOOLEAN, used : 0..Cardinality(Block),
          failed : Block \cup {NoBlock}]

IsTable(tab) == DOMAIN tab \subseteq TxId /\ tab \in [DOMAIN tab -> Entry]

NoTemplate == [prev |-> NoBlock, txs |-> {}]

NoJob == [phase |-> "none", new |-> NoBlock, fork |-> NoBlock, old |-> NoBlock, bad |-> NoBlock,
          alone |-> FALSE]

Disk == [tip |-> tip, alt |-> alt, pool |-> pool]

EmptyTable == [t \in {} |-> NoBlock]

NoSave == [tip |-> Genesis, alt |-> {}, pool |-> EmptyTable]

MaybeBlock == Block \cup {NoBlock}

TypeOK ==
  /\ tip \in Block
  /\ alt \in SUBSET Block
  /\ IsTable(pool)
  /\ invalid \in SUBSET Block
  /\ tmpl \in [prev : MaybeBlock, txs : SUBSET TxId]
  /\ job \in [phase : {"none", "block", "pop", "connect", "undo", "redo", "mark", "park", "end"},
              new : MaybeBlock, fork : MaybeBlock, old : MaybeBlock, bad : MaybeBlock,
              alone : BOOLEAN]
  /\ batch \in {"idle", "open", "failed"}
  /\ saved.tip \in Block /\ saved.alt \subseteq Block /\ IsTable(saved.pool)
  /\ dirty \in SUBSET TxId
  /\ found \in MaybeBlock

Init ==
  /\ tip = Genesis
  /\ alt = {}
  /\ pool = EmptyTable
  /\ invalid = {}
  /\ tmpl = NoTemplate
  /\ job = NoJob
  /\ batch = "idle"
  /\ saved = NoSave
  /\ dirty = {}
  /\ found = NoBlock

-----------------------------------------------------------------------------
\* The chain that ends in a block, and its transactions.

Txs(b) == {blockTxs[b][i] : i \in DOMAIN blockTxs[b]}

MinedBy(b) == UNION {Txs(a) : a \in path[b]}

HeightsOf(S, b) == {Height(a) : a \in {x \in path[b] : Txs(x) \cap S # {}}}

\* The height of the youngest output the rings of t use; the genesis block has outputs.
MaxUsed(t, b) == Max({0} \cup HeightsOf(ring[t], b))

Mined == MinedBy(tip) \cup dirty

\* check_ringct_inputs on a chain that ends in b and holds the transactions S.
InputsOk(t, b, S) == CheckInputs(t, S) /\ MaxUsed(t, b) + Age <= Height(b) + 1

NewEntry(t, method, b, S) ==
  [relay |-> method, checked |-> InputsOk(t, b, S),
   used |-> IF InputsOk(t, b, S) THEN MaxUsed(t, b) ELSE 0, failed |-> NoBlock]

\* tx_memory_pool::add_tx for the transactions T, with the chain ending in b.
Put(tab, T, method, b, S) ==
  [t \in DOMAIN tab \cup T |-> IF t \in T THEN NewEntry(t, method, b, S) ELSE tab[t]]

Without(tab, T) == [t \in DOMAIN tab \ T |-> tab[t]]

-----------------------------------------------------------------------------
\* handle_block_to_main_chain for a block b on top of the main chain.

TxBad(t) == t \in Mined \/ t \notin DOMAIN pool \/ ~InputsOk(t, tip, Mined)

\* The transaction loop gets to the i-th transaction.
Reaches(b, i) == \A j \in 1..(i - 1) : ~TxBad(blockTxs[b][j])

\* What take_tx took out of the pool before the block was refused.
Taken(b) ==
  {blockTxs[b][i] : i \in {j \in DOMAIN blockTxs[b] :
     b \notin BadHeader /\ Reaches(b, j) /\ blockTxs[b][j] \in DOMAIN pool \ Mined}}

WrongInputs(b) == \E t \in Taken(b) : ~InputsOk(t, tip, Mined)

\* Mutant: the reward of the coinbase is not checked.
MutAcceptable(b) == b \notin BadHeader /\ \A t \in Txs(b) : ~TxBad(t)

Acceptable(b) == b \notin BadHeader \cup BadReward /\ \A t \in Txs(b) : ~TxBad(t)

Connects(b) == Acceptable(b) /\ Compatible(Txs(b))

\* add_block throws KEY_IMAGE_EXISTS after it wrote the transactions before.
Throws(b) == Acceptable(b) /\ ~Compatible(Txs(b))

Written(b) ==
  {blockTxs[b][i] : i \in {j \in DOMAIN blockTxs[b] : Compatible({blockTxs[b][h] : h \in 1..j})}}

Connect(b) ==
  /\ Connects(b)
  /\ tip' = b
  /\ pool' = Without(pool, Txs(b))
  /\ tmpl' = NoTemplate
  /\ UNCHANGED <<invalid, batch, dirty>>

Refuse(b) ==
  /\ ~Connects(b)
  /\ pool' = Put(pool, Taken(b), "block", tip, Mined)
  /\ tmpl' = IF Taken(b) = {} THEN tmpl ELSE NoTemplate
  /\ invalid' = IF WrongInputs(b) THEN invalid \cup {b} ELSE invalid
  /\ dirty' = IF Throws(b) THEN dirty \cup Written(b) ELSE dirty
  /\ batch' = IF Throws(b) THEN "failed" ELSE batch
  /\ UNCHANGED tip

\* Mutant: the transactions do not go back to the pool.
MutPop ==
  /\ tip # Genesis
  /\ tip' = parent[tip]
  /\ tmpl' = NoTemplate
  /\ UNCHANGED pool

\* pop_block_from_blockchain
Pop ==
  /\ tip # Genesis
  /\ tip' = parent[tip]
  /\ pool' = Put(pool, Txs(tip), "block", parent[tip], MinedBy(parent[tip]) \cup dirty)
  /\ tmpl' = NoTemplate

-----------------------------------------------------------------------------
\* add_new_block

HaveBlock(b) == b \in path[tip] \cup alt \cup invalid

\* build_alt_chain follows the alternative blocks down from the parent of b.
Fork(b) ==
  CHOOSE f \in path[parent[b]] : f \notin alt /\ path[parent[b]] \ path[f] \subseteq alt

Attached(b) == Fork(b) \in path[tip] /\ (Fork(b) # parent[b] => Fork(b) # tip)

\* Transactions of b that core::add_new_tx does not have yet.
NewTxs(b) ==
  {t \in Txs(b) \ Mined : t \in DOMAIN pool => pool[t].relay = "local"}

At(phase) == job.phase = phase

Ready == batch = "idle" \/ (batch = "open" /\ At("none"))

OpenBatch ==
  /\ batch' = "open"
  /\ saved' = IF batch = "idle" THEN Disk ELSE saved

\* A block arrives with its transactions, in a batch of its own or after others.
Receive(b) ==
  /\ Ready /\ OpenBatch
  /\ pool' = Put(pool, NewTxs(b), "block", tip, Mined)
  /\ tmpl' = IF NewTxs(b) = {} THEN tmpl ELSE NoTemplate
  /\ job' = [NoJob EXCEPT !.phase = "block", !.new = b]
  /\ UNCHANGED <<tip, alt, invalid, dirty, found>>

\* handle_block_found first collects the transactions, without the locks...
Found(b) ==
  /\ "mine" \in Env
  /\ batch = "idle" /\ found = NoBlock
  /\ b # Genesis /\ Txs(b) \subseteq DOMAIN pool
  /\ found' = b
  /\ UNCHANGED <<tip, alt, pool, invalid, tmpl, job, batch, saved, dirty>>

\* ... and then waits for them.
HandleFound ==
  /\ found # NoBlock
  /\ batch = "idle" /\ OpenBatch
  /\ job' = [NoJob EXCEPT !.phase = "block", !.new = found, !.alone = TRUE]
  /\ found' = NoBlock
  /\ UNCHANGED <<tip, alt, pool, invalid, tmpl, dirty>>

\* The next block of the span may follow; a block found here has no span.
Done == IF job.alone THEN [job EXCEPT !.phase = "end"] ELSE NoJob

\* A block that is known, or on a branch that does not meet the main chain.
Ignore ==
  /\ At("block")
  /\ \/ HaveBlock(job.new)
     \/ /\ parent[job.new] # tip
        /\ parent[job.new] \in path[tip] \cup alt
        /\ ~Attached(job.new)
  /\ job' = Done
  /\ UNCHANGED <<tip, alt, pool, invalid, tmpl, batch, saved, dirty, found>>

Extend ==
  /\ At("block") /\ ~HaveBlock(job.new)
  /\ parent[job.new] = tip
  /\ \/ Connect(job.new) /\ job' = Done
     \/ Refuse(job.new) /\ job' = [job EXCEPT !.phase = "end"]
  /\ UNCHANGED <<alt, saved, found>>

\* handle_alternative_block, for an orphan or a block with a bad header.
RejectAlternative ==
  /\ At("block") /\ ~HaveBlock(job.new)
  /\ parent[job.new] # tip
  /\ \/ parent[job.new] \notin path[tip] \cup alt
     \/ Attached(job.new) /\ job.new \in BadHeader
  /\ job' = [job EXCEPT !.phase = "end"]
  /\ UNCHANGED <<tip, alt, pool, invalid, tmpl, batch, saved, dirty, found>>

Heavier(b) == work[b] > work[tip]

StoreAlternative ==
  /\ At("block") /\ ~HaveBlock(job.new)
  /\ parent[job.new] # tip
  /\ parent[job.new] \in path[tip] \cup alt
  /\ Attached(job.new) /\ job.new \notin BadHeader
  /\ alt' = alt \cup {job.new}
  /\ job' = IF Heavier(job.new)
              THEN [job EXCEPT !.phase = "pop", !.fork = Fork(job.new), !.old = tip]
              ELSE Done
  /\ UNCHANGED <<tip, pool, invalid, tmpl, batch, saved, dirty, found>>

-----------------------------------------------------------------------------
\* switch_to_alternative_blockchain and rollback_blockchain_switching

\* The next block from the tip towards b.
Toward(b) == CHOOSE a \in path[b] \ {Genesis} : parent[a] = tip

Branch(b) == path[b] \ path[job.fork]

SwitchPop ==
  /\ At("pop")
  /\ Pop
  /\ job' = [job EXCEPT !.phase = IF tip' = job.fork THEN "connect" ELSE "pop"]
  /\ UNCHANGED <<alt, invalid, batch, saved, dirty, found>>

SwitchConnect ==
  /\ At("connect")
  /\ LET child == Toward(job.new)
     IN  \/ /\ Connect(child)
            /\ job' = [job EXCEPT !.phase = IF child = job.new THEN "park" ELSE "connect"]
         \/ /\ Refuse(child)
            /\ job' = [job EXCEPT !.phase = IF tip = job.fork THEN "redo" ELSE "undo",
                                  !.bad = child]
  /\ UNCHANGED <<alt, saved, found>>

\* Mutant: the new blocks stay among the alternatives.
MutPark ==
  /\ At("park")
  /\ alt' = alt \cup Branch(job.old)
  /\ job' = Done
  /\ UNCHANGED <<tip, pool, invalid, tmpl, batch, saved, dirty, found>>

\* The old blocks become alternatives; none of them is heavier than the new chain.
Park ==
  /\ At("park")
  /\ \A a \in Branch(job.old) : work[a] <= work[tip]
  /\ alt' = (alt \cup Branch(job.old)) \ Branch(job.new)
  /\ job' = Done
  /\ UNCHANGED <<tip, pool, invalid, tmpl, batch, saved, dirty, found>>

UndoPop ==
  /\ At("undo")
  /\ Pop
  /\ job' = [job EXCEPT !.phase = IF tip' = job.fork THEN "redo" ELSE "undo"]
  /\ UNCHANGED <<alt, invalid, batch, saved, dirty, found>>

\* A block of the old chain that is refused ends the rollback.
Redo ==
  /\ At("redo")
  /\ LET child == Toward(job.old)
     IN  \/ /\ Connect(child)
            /\ job' = [job EXCEPT !.phase = IF child = job.old THEN "mark" ELSE "redo"]
         \/ /\ Refuse(child)
            /\ job' = [job EXCEPT !.phase = "mark"]
  /\ UNCHANGED <<alt, saved, found>>

\* Mutant: every block of the branch is condemned, not only from the bad one on.
MutCondemnedAll == Branch(job.new)

\* Mutant: the blocks after the bad one, without it.
MutCondemnedAfter == path[job.new] \ path[job.bad]

\* The block that was refused and those after it.
Condemned == path[job.new] \ path[parent[job.bad]]

Mark ==
  /\ At("mark")
  /\ invalid' = invalid \cup Condemned
  /\ alt' = alt \ Condemned
  /\ job' = [job EXCEPT !.phase = "end"]
  /\ UNCHANGED <<tip, pool, tmpl, batch, saved, dirty, found>>

-----------------------------------------------------------------------------

\* cleanup_handle_incoming_blocks; batch_abort restores the tables and nothing else.
EndBatch ==
  /\ batch # "idle"
  /\ job.phase \in {"none", "end"}
  /\ IF batch = "failed"
       THEN tip' = saved.tip /\ alt' = saved.alt /\ pool' = saved.pool
       ELSE UNCHANGED <<tip, alt, pool>>
  /\ dirty' = {}
  /\ job' = NoJob
  /\ batch' = "idle"
  /\ saved' = NoSave
  /\ UNCHANGED <<invalid, tmpl, found>>

\* The daemon stops or crashes and starts again; core::init drops the alternatives.
Restart ==
  /\ "crash" \in Env
  /\ LET disk == IF batch = "idle" THEN Disk ELSE saved
     IN  /\ tip' = disk.tip
         /\ pool' = Without(disk.pool, MinedBy(disk.tip))
  /\ alt' = {}
  /\ invalid' = {}
  /\ tmpl' = NoTemplate
  /\ job' = NoJob
  /\ batch' = "idle"
  /\ saved' = NoSave
  /\ dirty' = {}
  /\ found' = NoBlock

Submit(t, method) ==
  /\ "submit" \in Env
  /\ batch = "idle"
  /\ t \notin Mined
  /\ t \in DOMAIN pool => pool[t].relay = "local"
  /\ \A u \in DOMAIN pool \ {t} : images[t] \cap images[u] = {}
  /\ InputsOk(t, tip, Mined)
  /\ pool' = Put(pool, {t}, method, tip, Mined)
  /\ tmpl' = NoTemplate
  /\ UNCHANGED <<tip, alt, invalid, job, batch, saved, dirty, found>>

\* Flushed or expired; or pruned, also while a block is handled, if no block brought it.
Drop(t) ==
  /\ "drop" \in Env
  /\ t \in DOMAIN pool
  /\ batch = "idle" \/ pool[t].relay # "block"
  /\ pool' = Without(pool, {t})
  /\ tmpl' = NoTemplate
  /\ UNCHANGED <<tip, alt, invalid, job, batch, saved, dirty, found>>

\* pop_blocks, one block at a time.
PopBlocks ==
  /\ "pop" \in Env
  /\ batch = "idle"
  /\ Pop
  /\ UNCHANGED <<alt, invalid, job, batch, saved, dirty, found>>

FlushInvalid ==
  /\ "flush" \in Env
  /\ batch = "idle"
  /\ invalid # {}
  /\ invalid' = {}
  /\ UNCHANGED <<tip, alt, pool, tmpl, job, batch, saved, dirty, found>>

-----------------------------------------------------------------------------
\* create_block_template and fill_block_template

\* A failure is remembered for as long as its block is on the main chain.
Remembered(t) == pool[t].failed \in path[tip]

Short(t) == pool[t].checked /\ pool[t].used > Height(tip)

Tried(t) == ~Remembered(t) /\ ~Short(t)

\* Mutant: a transaction is taken as valid because the pool holds it.
MutReadyToGo(t) == Tried(t)

\* is_transaction_ready_to_go
ReadyToGo(t) == Tried(t) /\ InputsOk(t, tip, Mined)

WeightOf(S) == MapThenSumSet(LAMBDA t : weight[t], S)

Better(S, t) == {u \in S : rate[u] > rate[t]}

Fits(S, t) == WeightOf(Better(S, t)) + weight[t] <= Room

Clashes(S, t) == \E u \in Better(S, t) : images[u] \cap images[t] # {}

\* The set that one pass from the best paying transaction down collects.
Filled ==
  CHOOSE S \in SUBSET DOMAIN pool :
    \A t \in DOMAIN pool : t \in S <=> Fits(S, t) /\ ReadyToGo(t) /\ ~Clashes(S, t)

\* How far check_ringct_inputs gets before it fails.
UsedSoFar(t) == IF \E u \in Mined : images[t] \cap images[u] # {} THEN 0 ELSE MaxUsed(t, tip)

\* The metadata after the pass.
Looked(t) ==
  IF ~Fits(Filled, t) \/ ~Tried(t) THEN pool[t]
  ELSE IF InputsOk(t, tip, Mined)
    THEN [pool[t] EXCEPT !.checked = TRUE, !.used = MaxUsed(t, tip)]
    ELSE [pool[t] EXCEPT !.failed = tip, !.used = UsedSoFar(t)]

\* The cached template is served again while the pool and the tip are the same.
CreateBlockTemplate ==
  /\ "mine" \in Env
  /\ batch = "idle"
  /\ tmpl.prev # tip
  /\ pool' = [t \in DOMAIN pool |-> Looked(t)]
  /\ tmpl' = [prev |-> tip, txs |-> Filled]
  /\ UNCHANGED <<tip, alt, invalid, job, batch, saved, dirty, found>>

Next ==
  \/ \E b \in Block : Receive(b) \/ Found(b)
  \/ HandleFound
  \/ Ignore \/ Extend \/ RejectAlternative \/ StoreAlternative
  \/ SwitchPop \/ SwitchConnect \/ Park \/ UndoPop \/ Redo \/ Mark
  \/ EndBatch \/ Restart
  \/ \E t \in TxId : \E m \in Methods \ {"block"} : Submit(t, m)
  \/ \E t \in TxId : Drop(t)
  \/ PopBlocks \/ FlushInvalid \/ CreateBlockTemplate

Spec == Init /\ [][Next]_vars

Steps ==
  \/ Ignore \/ Extend \/ RejectAlternative \/ StoreAlternative
  \/ SwitchPop \/ SwitchConnect \/ Park \/ UndoPop \/ Redo \/ Mark \/ EndBatch

-----------------------------------------------------------------------------
\* What the rules say of a block, whatever the node has seen.

GoodAt(b) ==
  LET below == MinedBy(parent[b])
  IN  /\ b \notin BadHeader \cup BadReward
      /\ \A t \in Txs(b) : t \notin below /\ InputsOk(t, parent[b], below)
      /\ Compatible(Txs(b))

Valid(b) == \A a \in path[b] \ {Genesis} : GoodAt(a)

Best == CHOOSE b \in Block : Valid(b) /\ \A a \in Block : Valid(a) => work[a] <= work[b]

\* A handler that has started goes on, a span of blocks has an end, and peers offer the
\* blocks of their chain, the best one, until they are known.  Other blocks may come or not.
FairSpec ==
  /\ Spec
  /\ WF_vars(Steps)
  /\ SF_vars(EndBatch)
  /\ \A b \in path[Best] : SF_vars(~HaveBlock(b) /\ Receive(b))

Settled == batch = "open" /\ job.phase \in {"none", "end"}

(***************************************************************************)
(* The main chain holds only blocks that obey the rules on it, also in the *)
(* middle of a switch, after a rollback and after a crash: what            *)
(* handle_block_to_main_chain checks against tables and pool is enough.    *)
(***************************************************************************)
ChainValid == batch # "failed" => Valid(tip)

(***************************************************************************)
(* When a switch fails, rollback_blockchain_switching brings back the old  *)
(* chain: its blocks are accepted again and their transactions are there.  *)
(* switch_to_alternative_blockchain ignores the result of the rollback.    *)
(***************************************************************************)
FailedSwitchUndone == (At("mark") /\ batch = "open") => tip = job.old

(***************************************************************************)
(* Whatever blocks a batch holds, the chain it leaves is the one it found  *)
(* or has more work: a switch is made for strictly more work only, and a   *)
(* switch that fails costs nothing.                                        *)
(***************************************************************************)
NeverLighter == Settled => tip = saved.tip \/ work[tip] > work[saved.tip]

(***************************************************************************)
(* A switch ends on the heavier branch or back where it began.             *)
(***************************************************************************)
SwitchSound == FailedSwitchUndone /\ NeverLighter

(***************************************************************************)
(* A transaction that was in the main chain before a batch is in the main  *)
(* chain or in the pool after it.                                          *)
(***************************************************************************)
NothingLost == Settled => MinedBy(saved.tip) \subseteq MinedBy(tip) \cup DOMAIN pool

(***************************************************************************)
(* The same when add_block throws in the middle of a switch because a      *)
(* block spends a key image twice and the batch is aborted, and while the  *)
(* operator pops blocks and miners submit theirs.                          *)
(***************************************************************************)
FaultsTolerated == ChainValid /\ NeverLighter /\ NothingLost

(***************************************************************************)
(* Between two blocks, a block is in one of the main chain, the            *)
(* alternatives and m_invalid_blocks, and a pending transaction is not in  *)
(* the main chain.                                                         *)
(***************************************************************************)
Apart ==
  job.phase \in {"none", "end"} /\ batch # "failed" =>
    /\ path[tip] \cap alt = {}
    /\ (path[tip] \cup alt) \cap invalid = {}
    /\ DOMAIN pool \cap MinedBy(tip) = {}

(***************************************************************************)
(* handle_alternative_block compares a branch with the main chain only     *)
(* when a block is added to it, and that is enough: no stored alternative  *)
(* has more work than the main chain.                                      *)
(***************************************************************************)
HeaviestKnown == job.phase \in {"none", "end"} => \A b \in alt : work[b] <= work[tip]

(***************************************************************************)
(* m_invalid_blocks, "some invalid blocks", holds blocks that break the    *)
(* rules or build on one that does.                                        *)
(***************************************************************************)
InvalidBlocksAreInvalid == \A b \in invalid : ~Valid(b)

(***************************************************************************)
(* Each block the node knows is filed in the one place its fate calls for. *)
(***************************************************************************)
BlocksFiled == Apart /\ InvalidBlocksAreInvalid

(***************************************************************************)
(* A node whose peers are on the best chain, and whose operator pops and   *)
(* restarts only so often, is in the end on a chain with as much work      *)
(* whenever a batch is over: a branch that is "long enough to become the   *)
(* main chain" is switched to.                                             *)
(***************************************************************************)
EventuallyHeaviest ==
  <>[][~PopBlocks /\ ~Restart]_vars =>
    <>[](batch = "idle" => \A b \in Block : Valid(b) => work[b] <= work[tip])

(***************************************************************************)
(* A cached template that create_block_template would serve again can be   *)
(* mined: its transactions are pending, valid on the tip and spend no key  *)
(* image twice.                                                            *)
(***************************************************************************)
TemplateFresh ==
  (batch = "idle" /\ tmpl.prev = tip) =>
    /\ tmpl.txs \subseteq DOMAIN pool
    /\ \A t \in tmpl.txs : InputsOk(t, tip, Mined)
    /\ Compatible(tmpl.txs)
=============================================================================
