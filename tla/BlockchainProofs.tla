-------------------------- MODULE BlockchainProofs --------------------------
(***************************************************************************)
(* Proofs about Blockchain, for any tree of blocks, any transactions and   *)
(* any arrival of blocks, faults of add_block, restarts and calls of the   *)
(* operator.                                                               *)
(***************************************************************************)
EXTENDS Blockchain, BlockTreeProofs

\* build_alt_chain ends: the alternative blocks below a block lead to one that is not.
LEMMA ForkFound ==
  ASSUME NEW b \in Block \ {Genesis}, Genesis \notin alt
  PROVE  /\ Fork(b) \in path[parent[b]] /\ Fork(b) \notin alt
         /\ path[parent[b]] \ path[Fork(b)] \subseteq alt
<1> DEFINE p == parent[b]
           V == {x \in Block : x \in path[p] /\ path[p] \ path[x] \subseteq alt}
<1>1. p \in Block
  BY PathParent
<1>2. \E x \in V : path[x] \subseteq path[p] /\ (x # Genesis => parent[x] \notin V)
  <2>1. V \in SUBSET Block /\ p \in V
    BY <1>1, PathEnds
  <2> HIDE DEF V, p
  <2> QED
    BY <2>1, LeastBlock
<1>3. PICK x \in V : path[x] \subseteq path[p] /\ (x # Genesis => parent[x] \notin V)
  BY <1>2
<1>4. ASSUME x \in alt PROVE FALSE
  <2>1. x \in Block \ {Genesis}
    BY <1>3, <1>4
  <2>2. parent[x] \in Block /\ path[x] = path[parent[x]] \cup {x} /\ parent[x] \in path[parent[x]]
    BY <2>1, PathParent, PathEnds
  <2> QED
    BY <1>3, <1>4, <2>1, <2>2
<1>5. \E f \in path[p] : f \notin alt /\ path[p] \ path[f] \subseteq alt
  BY <1>3, <1>4
<1> QED
  BY <1>5 DEF Fork

-----------------------------------------------------------------------------
(* Chains and their transactions.                                          *)

\* A block adds its transactions to those of its parent's chain.
LEMMA MinedStep ==
  ASSUME NEW b \in Block \ {Genesis}
  PROVE  MinedBy(b) = MinedBy(parent[b]) \cup Txs(b)
  BY PathParent DEF MinedBy

\* A longer chain holds the transactions of its beginnings.
LEMMA MinedMonotone ==
  ASSUME NEW b \in Block, NEW a \in path[b]
  PROVE  MinedBy(a) \subseteq MinedBy(b)
<1>1. path[a] \subseteq path[b]
  BY PathTrans
<1> QED
  BY <1>1 DEF MinedBy

\* Chains hold transactions.
LEMMA MinedType ==
  ASSUME NEW b \in Block
  PROVE  MinedBy(b) \subseteq TxId /\ Txs(b) \subseteq TxId
<1>1. \A a \in Block : Txs(a) \subseteq TxId
  BY BlockTxsAssumption DEF Txs
<1>2. path[b] \subseteq Block
  BY TreeAssumption
<1> QED
  BY <1>1, <1>2 DEF MinedBy

\* The genesis block is valid, and so is a good block on a valid chain.
LEMMA ValidStep ==
  ASSUME NEW b \in Block \ {Genesis}
  PROVE  Valid(b) <=> Valid(parent[b]) /\ GoodAt(b)
<1>1. path[b] \ {Genesis} = (path[parent[b]] \ {Genesis}) \cup {b}
  BY PathParent
<1> QED
  BY <1>1 DEF Valid

LEMMA ValidGenesis == Valid(Genesis)
  BY TreeAssumption DEF Valid

\* The beginnings of a valid chain are valid.
LEMMA ValidMonotone ==
  ASSUME NEW b \in Block, NEW a \in path[b], Valid(b)
  PROVE  Valid(a)
<1>1. path[a] \subseteq path[b]
  BY PathTrans
<1> QED
  BY <1>1 DEF Valid

-----------------------------------------------------------------------------
(* The table of pending transactions.                                      *)

\* What erasing transactions leaves.
LEMMA WithoutTable ==
  ASSUME NEW tab, NEW T
  PROVE  /\ DOMAIN Without(tab, T) = DOMAIN tab \ T
         /\ \A t \in DOMAIN tab \ T : Without(tab, T)[t] = tab[t]
  BY DEF Without

\* A transaction that an open batch cannot lose: it is mined, or it is pending and was
\* brought by a block, which prune respects.
Safe(t) == t \in MinedBy(tip) \/ (t \in DOMAIN pool /\ pool[t].relay = "block")

\* What connecting a block does.
LEMMA ConnectEffect ==
  ASSUME tip \in Block, NEW b \in Block \ {Genesis}, parent[b] = tip, Connect(b)
  PROVE  /\ tip' = b /\ DOMAIN pool' = DOMAIN pool \ Txs(b)
         /\ \A t : Safe(t) => Safe(t)'
         /\ dirty = {} /\ Valid(tip) => Valid(b)
         /\ UNCHANGED <<invalid, batch, dirty>> /\ tmpl' = NoTemplate
<1>1. tip' = b /\ pool' = Without(pool, Txs(b)) /\ tmpl' = NoTemplate /\ Connects(b)
      /\ UNCHANGED <<invalid, batch, dirty>>
  BY DEF Connect
<1>2. MinedBy(b) = MinedBy(tip) \cup Txs(b)
  BY MinedStep
<1>3. DOMAIN pool' = DOMAIN pool \ Txs(b) /\ \A t \in DOMAIN pool \ Txs(b) : pool'[t] = pool[t]
  BY <1>1, WithoutTable
<1>4. ASSUME NEW t, Safe(t) PROVE Safe(t)'
  BY <1>1, <1>2, <1>3, <1>4 DEF Safe
<1>5. ASSUME dirty = {}, Valid(tip) PROVE Valid(b)
  <2>1. Mined = MinedBy(tip)
    BY <1>5 DEF Mined
  <2>2. GoodAt(b)
    BY <1>1, <2>1 DEF Connects, Acceptable, TxBad, GoodAt
  <2> QED
    BY <1>5, <2>2, ValidStep
<1> QED
  BY <1>1, <1>3, <1>4, <1>5

\* What refusing a block does.
LEMMA RefuseEffect ==
  ASSUME NEW b, Refuse(b)
  PROVE  /\ tip' = tip /\ DOMAIN pool' = DOMAIN pool
         /\ \A t : Safe(t) => Safe(t)'
         /\ batch' \in {batch, "failed"}
         /\ batch' # "failed" => dirty' = dirty
         /\ tmpl' \in {tmpl, NoTemplate}
<1>1. Taken(b) \subseteq DOMAIN pool
  BY DEF Taken
<1>2. tip' = tip /\ pool' = Put(pool, Taken(b), "block", tip, Mined)
  BY DEF Refuse
<1>3. /\ DOMAIN pool' = DOMAIN pool
      /\ \A t \in Taken(b) : pool'[t].relay = "block"
      /\ \A t \in DOMAIN pool \ Taken(b) : pool'[t] = pool[t]
  <2>1. \A t : NewEntry(t, "block", tip, Mined).relay = "block"
    BY DEF NewEntry
  <2> QED
    BY <1>1, <1>2, <2>1 DEF Put
<1>4. ASSUME NEW t, Safe(t) PROVE Safe(t)'
  BY <1>2, <1>3, <1>4 DEF Safe
<1>5. batch' \in {batch, "failed"} /\ (batch' # "failed" => dirty' = dirty)
  BY DEF Refuse
<1>6. tmpl' \in {tmpl, NoTemplate}
  BY DEF Refuse
<1> QED
  BY <1>2, <1>3, <1>4, <1>5, <1>6

\* What pop_block_from_blockchain does.
LEMMA PopEffect ==
  ASSUME tip \in Block, Pop
  PROVE  /\ tip # Genesis /\ tip' = parent[tip] /\ tip' \in Block
         /\ path[tip] = path[tip'] \cup {tip} /\ tip \notin path[tip']
         /\ DOMAIN pool' = DOMAIN pool \cup Txs(tip)
         /\ \A t : Safe(t) => Safe(t)'
         /\ Valid(tip) => Valid(tip')
         /\ tmpl' = NoTemplate
<1>1. tip \in Block \ {Genesis} /\ tip' = parent[tip] /\ tmpl' = NoTemplate
      /\ pool' = Put(pool, Txs(tip), "block", parent[tip], MinedBy(parent[tip]) \cup dirty)
  BY DEF Pop
<1>2. tip' \in Block /\ path[tip] = path[tip'] \cup {tip} /\ tip \notin path[tip']
  BY <1>1, PathParent
<1>3. MinedBy(tip) = MinedBy(tip') \cup Txs(tip)
  BY <1>1, MinedStep
<1>4. /\ DOMAIN pool' = DOMAIN pool \cup Txs(tip)
      /\ \A t \in Txs(tip) : pool'[t].relay = "block"
      /\ \A t \in DOMAIN pool \ Txs(tip) : pool'[t] = pool[t]
  <2>1. \A t : NewEntry(t, "block", parent[tip], MinedBy(parent[tip]) \cup dirty).relay = "block"
    BY DEF NewEntry
  <2> QED
    BY <1>1, <2>1 DEF Put
<1>5. ASSUME NEW t, Safe(t) PROVE Safe(t)'
  <2>1. MinedBy(tip)' = MinedBy(tip')
    BY DEF MinedBy, Txs
  <2> QED
    BY <1>3, <1>4, <1>5, <2>1 DEF Safe
<1>6. Valid(tip) => Valid(tip')
  BY <1>1, ValidStep
<1> QED
  BY <1>1, <1>2, <1>4, <1>5, <1>6

\* What the transactions of an arriving block change.
LEMMA ReceiveEffect ==
  ASSUME NEW b, Receive(b)
  PROVE  /\ tip' = tip /\ DOMAIN pool' = DOMAIN pool \cup NewTxs(b)
         /\ \A t : Safe(t) => Safe(t)'
         /\ tmpl' \in {tmpl, NoTemplate}
         /\ DOMAIN pool' # DOMAIN pool => tmpl' = NoTemplate
<1>1. tip' = tip /\ pool' = Put(pool, NewTxs(b), "block", tip, Mined)
  BY DEF Receive
<1>2. \A t : NewEntry(t, "block", tip, Mined).relay = "block"
  BY DEF NewEntry
<1>3. /\ DOMAIN pool' = DOMAIN pool \cup NewTxs(b)
      /\ \A t \in NewTxs(b) : pool'[t].relay = "block"
      /\ \A t \in DOMAIN pool \ NewTxs(b) : pool'[t] = pool[t]
  BY <1>1, <1>2 DEF Put
<1>4. ASSUME NEW t, Safe(t) PROVE Safe(t)'
  BY <1>1, <1>3, <1>4 DEF Safe
<1>5. tmpl' = IF NewTxs(b) = {} THEN tmpl ELSE NoTemplate
  BY DEF Receive
<1> QED
  BY <1>1, <1>3, <1>4, <1>5

-----------------------------------------------------------------------------
(* The inductive invariant: what a batch, and in it a switch, can rely on. *)

Phase == {"none", "block", "pop", "connect", "undo", "redo", "mark", "park", "end"}

JobType == [phase : Phase, new : MaybeBlock, fork : MaybeBlock, old : MaybeBlock,
            bad : MaybeBlock, alone : BOOLEAN]

Typed ==
  /\ tip \in Block /\ alt \in SUBSET Block /\ Genesis \notin alt
  /\ batch \in {"idle", "open", "failed"} /\ job \in JobType /\ found \in MaybeBlock

Switching == job.phase \in {"pop", "connect", "undo", "redo", "park", "mark"}

\* A handler works inside a batch; after add_block threw there is only the way back.
Phased ==
  /\ job.phase # "none" => batch # "idle"
  /\ batch = "failed" => job.phase \in {"undo", "redo", "mark", "end"}

\* What batch_abort restores is a valid chain.
SavedSound ==
  batch # "idle" =>
    saved.tip \in Block /\ Valid(saved.tip) /\ saved.alt \in SUBSET Block /\ Genesis \notin saved.alt

Clean == batch # "failed" => dirty = {}

\* No transaction of the chain the batch began with is lost, none of the chain a switch leaves.
Kept ==
  batch = "open" =>
    /\ \A t \in MinedBy(saved.tip) : Safe(t)
    /\ Switching => \A t \in MinedBy(job.old) : Safe(t)

NotLighter(b) == b = saved.tip \/ work[b] > work[saved.tip]

\* The two chains of a switch part at its fork, and the new one has more work.
Rival ==
  Switching =>
    /\ job.new \in Block /\ job.old \in Block /\ job.fork \in Block
    /\ job.fork \in path[job.old] /\ job.fork \in path[job.new]
    /\ job.fork # job.old /\ job.fork # job.new
    /\ Valid(job.old) /\ NotLighter(job.old) /\ work[job.new] > work[job.old]

Heavy == batch = "open" /\ job.phase \in {"none", "block", "end"} => NotLighter(tip)

\* Where the tip is in each phase of a switch.
Placed ==
  /\ At("block") => job.new \in Block
  /\ At("pop") => tip \in path[job.old] /\ job.fork \in path[tip] /\ tip # job.fork
  /\ At("connect") => tip \in path[job.new] /\ job.fork \in path[tip] /\ tip # job.new
  /\ At("undo") => tip \in path[job.new] /\ job.fork \in path[tip] /\ tip # job.fork
  /\ At("redo") => tip \in path[job.old] /\ tip # job.old
  /\ At("park") => tip = job.new
  /\ At("mark") /\ batch = "open" => tip = job.old

ChainInv ==
  /\ Typed /\ Phased /\ SavedSound /\ Clean
  /\ ChainValid /\ Kept /\ Rival /\ Heavy /\ Placed

\* The daemon starts on the genesis block.
LEMMA InitChain == Init => ChainInv
<1> SUFFICES ASSUME Init PROVE ChainInv
  OBVIOUS
<1>1. Typed
  BY TreeAssumption DEF Init, Typed, NoJob, JobType, Phase, MaybeBlock
<1>2. job.phase = "none" /\ batch = "idle" /\ tip = Genesis /\ dirty = {}
  BY DEF Init, NoJob
<1> QED
  BY <1>1, <1>2, ValidGenesis
  DEF ChainInv, Phased, SavedSound, Clean, ChainValid, Kept, Rival, Heavy, Placed, Switching, At

\* Steps that leave the chain, the batch and the handler alone.
LEMMA AsideChain ==
  ASSUME ChainInv, UNCHANGED <<tip, batch, job, saved, dirty>>, alt' = alt, found' \in MaybeBlock,
         batch = "open" => \A t : Safe(t) => Safe(t)'
  PROVE  ChainInv'
<1>1. Kept'
  BY DEF ChainInv, Kept, Switching
<1>2. Typed' /\ Phased' /\ SavedSound' /\ Clean' /\ ChainValid' /\ Rival' /\ Heavy' /\ Placed'
  BY DEF ChainInv, Typed, Phased, SavedSound, Clean, ChainValid, Rival, Heavy, Placed, Switching, At,
         NotLighter
<1> QED
  BY <1>1, <1>2 DEF ChainInv

\* Receive preserves the invariant.
LEMMA ReceiveChain ==
  ASSUME ChainInv, NEW b \in Block, Receive(b)
  PROVE  ChainInv'
<1> USE DEF ChainInv
<1>1. /\ tip' = tip /\ alt' = alt /\ found' = found /\ dirty' = dirty
      /\ batch' = "open" /\ (batch = "idle" \/ (batch = "open" /\ job.phase = "none"))
      /\ saved' = IF batch = "idle" THEN Disk ELSE saved
      /\ job' = [NoJob EXCEPT !.phase = "block", !.new = b]
  BY DEF Receive, Ready, OpenBatch, At
<1>2. job' \in JobType /\ job'.phase = "block" /\ job'.new = b
  BY <1>1 DEF NoJob, JobType, Phase, MaybeBlock
<1>3. Typed' /\ Phased' /\ Clean' /\ ChainValid' /\ Rival' /\ Placed'
  BY <1>1, <1>2 DEF Typed, Phased, Clean, ChainValid, Rival, Placed, Switching, At
<1>4. saved'.tip \in Block /\ Valid(saved'.tip) /\ saved'.alt \in SUBSET Block /\ Genesis \notin saved'.alt
  BY <1>1 DEF SavedSound, ChainValid, Typed, Disk
<1>5. Kept'
  <2>1. \A t : Safe(t) => Safe(t)'
    BY ReceiveEffect
  <2>2. ASSUME NEW t \in MinedBy(saved'.tip) PROVE Safe(t)
    BY <1>1, <2>2 DEF Kept, Safe, Disk
  <2> QED
    BY <1>1, <1>2, <2>1, <2>2 DEF Kept, Switching
<1>6. Heavy'
  BY <1>1, <1>2 DEF Heavy, NotLighter, Disk, Phased
<1> QED
  BY <1>1, <1>3, <1>4, <1>5, <1>6 DEF SavedSound

\* HandleFound preserves the invariant.
LEMMA HandleFoundChain ==
  ASSUME ChainInv, HandleFound
  PROVE  ChainInv'
<1> USE DEF ChainInv
<1>1. /\ tip' = tip /\ alt' = alt /\ pool' = pool /\ dirty' = dirty /\ found' = NoBlock
      /\ batch' = "open" /\ batch = "idle" /\ saved' = Disk /\ found # NoBlock
      /\ job' = [NoJob EXCEPT !.phase = "block", !.new = found, !.alone = TRUE]
  BY DEF HandleFound, OpenBatch
<1>2. found \in Block
  BY <1>1 DEF Typed, MaybeBlock
<1>3. job' \in JobType /\ job'.phase = "block" /\ job'.new = found
  BY <1>1, <1>2 DEF NoJob, JobType, Phase, MaybeBlock
<1>4. saved'.tip = tip /\ saved'.alt = alt
  BY <1>1 DEF Disk
<1>5. Typed' /\ Phased' /\ Clean' /\ ChainValid' /\ Rival' /\ Placed'
  BY <1>1, <1>2, <1>3 DEF Typed, Phased, Clean, ChainValid, Rival, Placed, Switching, At, MaybeBlock
<1>6. SavedSound'
  BY <1>1, <1>4 DEF SavedSound, ChainValid, Typed
<1>7. Kept' /\ Heavy'
  BY <1>1, <1>3, <1>4 DEF Kept, Safe, Switching, Heavy, NotLighter
<1> QED
  BY <1>5, <1>6, <1>7

\* A handler that is done is at the end of its block.
LEMMA DoneJob ==
  ASSUME job \in JobType
  PROVE  Done \in JobType /\ Done.phase \in {"none", "end"} /\ [job EXCEPT !.phase = "end"].phase = "end"
         /\ [job EXCEPT !.phase = "end"] \in JobType
  BY DEF Done, NoJob, JobType, Phase, MaybeBlock

\* A handler that ends its block with the batch open leaves a chain that is not lighter.
LEMMA FinishChain ==
  ASSUME ChainInv, batch = "open", UNCHANGED <<batch, saved, dirty, found>>,
         tip' \in Block, Valid(tip'), NotLighter(tip'), \A t : Safe(t) => Safe(t)',
         alt' \in SUBSET Block, Genesis \notin alt', job' \in JobType, job'.phase \in {"none", "end"}
  PROVE  ChainInv'
<1> USE DEF ChainInv
<1>1. Typed' /\ Phased' /\ SavedSound' /\ Clean' /\ ChainValid' /\ Rival' /\ Placed'
  BY DEF Typed, Phased, SavedSound, Clean, ChainValid, Rival, Placed, Switching, At
<1>2. Kept'
  BY DEF Kept, Switching
<1>3. Heavy'
  BY DEF Heavy, NotLighter
<1> QED
  BY <1>1, <1>2, <1>3

\* Ignore and RejectAlternative preserve the invariant.
LEMMA PassOverChain ==
  ASSUME ChainInv, Ignore \/ RejectAlternative
  PROVE  ChainInv'
<1>1. /\ UNCHANGED <<tip, alt, pool, batch, saved, dirty, found>>
      /\ job' \in {Done, [job EXCEPT !.phase = "end"]} /\ job.phase = "block"
  BY DEF Ignore, RejectAlternative, At
<1>2. job' \in JobType /\ job'.phase \in {"none", "end"}
  BY <1>1, DoneJob DEF ChainInv, Typed
<1>3. batch = "open"
  BY <1>1 DEF ChainInv, Phased, Typed
<1>4. tip' \in Block /\ Valid(tip') /\ NotLighter(tip') /\ alt' \in SUBSET Block /\ Genesis \notin alt'
  BY <1>1, <1>3 DEF ChainInv, Typed, ChainValid, Heavy
<1>5. \A t : Safe(t) => Safe(t)'
  BY <1>1 DEF Safe
<1> QED
  BY <1>1, <1>2, <1>3, <1>4, <1>5, FinishChain

\* A block that is not known is not the genesis block.
LEMMA NewIsNotGenesis ==
  ASSUME tip \in Block, NEW b \in Block, ~HaveBlock(b)
  PROVE  b \in Block \ {Genesis} /\ b \notin path[tip] /\ b \notin alt /\ b \notin invalid
  BY PathEnds DEF HaveBlock

\* Extend preserves the invariant.
LEMMA ExtendChain ==
  ASSUME ChainInv, Extend
  PROVE  ChainInv'
<1> DEFINE b == job.new
<1>1. /\ job.phase = "block" /\ ~HaveBlock(b) /\ parent[b] = tip
      /\ UNCHANGED <<alt, saved, found>>
  BY DEF Extend, At
<1>2. batch = "open" /\ tip \in Block /\ b \in Block /\ job \in JobType
  BY <1>1 DEF ChainInv, Phased, Typed, Placed, At
<1>3. b \in Block \ {Genesis}
  BY <1>1, <1>2, NewIsNotGenesis
<1> HIDE DEF b
<1>4. dirty = {} /\ Valid(tip) /\ NotLighter(tip) /\ alt \in SUBSET Block /\ Genesis \notin alt
  BY <1>1, <1>2 DEF ChainInv, Clean, ChainValid, Heavy, Typed
<1>5. CASE Connect(b) /\ job' = Done
  <2>1. /\ tip' = b /\ Valid(b) /\ UNCHANGED <<batch, dirty>>
        /\ \A t : Safe(t) => Safe(t)'
    BY <1>1, <1>2, <1>3, <1>4, <1>5, ConnectEffect
  <2>2. NotLighter(b)
    <3>1. work[b] > work[tip] /\ work[b] \in Nat /\ work[tip] \in Nat
      BY <1>1, <1>2, <1>3, WorkAssumption
    <3>2. work[saved.tip] \in Nat
      BY <1>2, WorkAssumption DEF ChainInv, SavedSound
    <3> QED
      BY <1>4, <3>1, <3>2 DEF NotLighter
  <2>3. job' \in JobType /\ job'.phase \in {"none", "end"}
    BY <1>2, <1>5, DoneJob
  <2> QED
    BY <1>1, <1>2, <1>3, <1>4, <2>1, <2>2, <2>3, FinishChain
<1>6. CASE Refuse(b) /\ job' = [job EXCEPT !.phase = "end"]
  <2>1. /\ tip' = tip /\ batch' \in {batch, "failed"} /\ (batch' # "failed" => dirty' = dirty)
        /\ \A t : Safe(t) => Safe(t)'
    BY <1>6, RefuseEffect
  <2>2. job' \in JobType /\ job'.phase = "end"
    BY <1>2, <1>6, DoneJob
  <2>3. CASE batch' = batch
    BY <1>1, <1>2, <1>4, <2>1, <2>2, <2>3, FinishChain
  <2>4. CASE batch' = "failed"
    <3>1. Typed' /\ Phased' /\ SavedSound' /\ Clean' /\ ChainValid'
      BY <1>1, <1>2, <2>1, <2>2, <2>4 DEF ChainInv, Typed, Phased, SavedSound, Clean, ChainValid
    <3>2. Kept' /\ Rival' /\ Heavy' /\ Placed'
      BY <2>2, <2>4 DEF Kept, Rival, Heavy, Placed, Switching, At
    <3> QED
      BY <3>1, <3>2 DEF ChainInv
  <2> QED
    BY <2>1, <2>3, <2>4
<1> QED
  BY <1>5, <1>6 DEF Extend, b

\* StoreAlternative preserves the invariant: a switch begins with a fork below both chains.
LEMMA StoreChain ==
  ASSUME ChainInv, StoreAlternative
  PROVE  ChainInv'
<1> DEFINE b == job.new
           f == Fork(b)
<1>1. /\ job.phase = "block" /\ ~HaveBlock(b) /\ parent[b] # tip /\ Attached(b)
      /\ alt' = alt \cup {b}
      /\ job' = IF Heavier(b) THEN [job EXCEPT !.phase = "pop", !.fork = f, !.old = tip] ELSE Done
      /\ UNCHANGED <<tip, pool, batch, saved, dirty, found>>
  BY DEF StoreAlternative, At
<1>2. batch = "open" /\ tip \in Block /\ b \in Block /\ job \in JobType /\ Genesis \notin alt
      /\ alt \in SUBSET Block
  BY <1>1 DEF ChainInv, Phased, Typed, Placed, At
<1>3. b \in Block \ {Genesis} /\ b \notin path[tip]
  BY <1>1, <1>2, NewIsNotGenesis
<1>4. f \in path[parent[b]] /\ f \in path[tip] /\ f # tip
  <2>1. f \in path[parent[b]]
    BY <1>2, <1>3, ForkFound
  <2> QED
    BY <1>1, <2>1 DEF Attached
<1>5. f \in Block /\ f \in path[b] /\ f # b
  BY <1>2, <1>3, <1>4, PathParent, PathTrans
<1> HIDE DEF b, f
<1>6. Valid(tip) /\ NotLighter(tip) /\ dirty = {}
  BY <1>1, <1>2 DEF ChainInv, ChainValid, Heavy, Clean
<1>7. \A t : Safe(t) => Safe(t)'
  BY <1>1 DEF Safe
<1>8. CASE ~Heavier(b)
  <2>1. job' \in JobType /\ job'.phase \in {"none", "end"}
    BY <1>1, <1>2, <1>8, DoneJob
  <2> QED
    BY <1>1, <1>2, <1>3, <1>6, <1>7, <2>1, FinishChain
<1>9. CASE Heavier(b)
  <2>1. /\ job' \in JobType /\ job'.phase = "pop" /\ job'.new = b /\ job'.fork = f /\ job'.old = tip
    BY <1>1, <1>2, <1>5, <1>9 DEF JobType, Phase, MaybeBlock, b
  <2>2. Typed' /\ Phased' /\ SavedSound' /\ Clean' /\ ChainValid'
    BY <1>1, <1>2, <1>3, <2>1 DEF ChainInv, Typed, Phased, SavedSound, Clean, ChainValid
  <2>3. Kept'
    BY <1>1, <1>2, <1>7, <2>1 DEF ChainInv, Kept, Safe
  <2>4. Rival'
    BY <1>1, <1>2, <1>3, <1>4, <1>5, <1>6, <1>9, <2>1 DEF Rival, Heavier, NotLighter
  <2>5. Heavy' /\ Placed'
    BY <1>1, <1>2, <1>4, <2>1, PathEnds DEF Heavy, Placed, At
  <2> QED
    BY <2>2, <2>3, <2>4, <2>5 DEF ChainInv
<1> QED
  BY <1>8, <1>9

\* A step of a switch that stays in the switch.
LEMMA SwitchChain ==
  ASSUME ChainInv, Switching, UNCHANGED <<alt, saved, found>>, tip' \in Block,
         batch' \in {batch, "failed"},
         batch' # "failed" => dirty' = dirty /\ Valid(tip'),
         \A t : Safe(t) => Safe(t)',
         job' \in JobType, job'.new = job.new, job'.old = job.old, job'.fork = job.fork,
         job'.phase \in {"pop", "connect", "undo", "redo", "park", "mark"},
         batch' = "failed" => job'.phase \in {"undo", "redo", "mark"},
         Placed'
  PROVE  ChainInv'
<1>1. batch # "idle"
  BY DEF ChainInv, Phased, Switching
<1>2. Typed' /\ Phased' /\ SavedSound'
  BY <1>1 DEF ChainInv, Typed, Phased, SavedSound
<1>3. Clean' /\ ChainValid' /\ Heavy'
  BY DEF ChainInv, Clean, ChainValid, Heavy, Typed
<1>4. Kept'
  BY DEF ChainInv, Kept
<1>5. Rival'
  BY DEF ChainInv, Rival, NotLighter
<1> QED
  BY <1>2, <1>3, <1>4, <1>5 DEF ChainInv

\* SwitchPop and UndoPop preserve the invariant.
LEMMA SwitchPopChain ==
  ASSUME ChainInv, SwitchPop \/ UndoPop
  PROVE  ChainInv'
<1> DEFINE next == IF job.phase = "pop" THEN "connect" ELSE "redo"
<1>1. /\ job.phase \in {"pop", "undo"} /\ Pop /\ UNCHANGED <<alt, batch, saved, dirty, found>>
      /\ job' = [job EXCEPT !.phase = IF tip' = job.fork THEN next ELSE job.phase]
  BY DEF SwitchPop, UndoPop, At
<1>2. tip \in Block /\ job \in JobType /\ batch \in {"idle", "open", "failed"} /\ Switching
  BY <1>1 DEF ChainInv, Typed, Switching
<1>3. /\ tip # Genesis /\ tip' \in Block /\ path[tip] = path[tip'] \cup {tip}
      /\ \A t : Safe(t) => Safe(t)'
      /\ Valid(tip) => Valid(tip')
  BY <1>1, <1>2, PopEffect
<1>4. /\ job' \in JobType /\ job'.new = job.new /\ job'.old = job.old /\ job'.fork = job.fork
      /\ job'.phase = IF tip' = job.fork THEN next ELSE job.phase
  BY <1>1, <1>2 DEF JobType, Phase, MaybeBlock
<1>5. batch # "failed" => Valid(tip')
  BY <1>3 DEF ChainInv, ChainValid
<1>6. batch = "failed" => job.phase = "undo"
  BY <1>1 DEF ChainInv, Phased
<1>7. job.new \in Block /\ job.old \in Block /\ job.fork \in path[job.new] /\ job.fork \in path[job.old]
      /\ job.fork # job.new /\ job.fork # job.old
  BY <1>2 DEF ChainInv, Rival
<1>8. job.fork \in path[tip'] /\ tip' \in path[tip]
  BY <1>1, <1>3, PathEnds DEF ChainInv, Placed, At
<1>9. /\ job.phase = "pop" => tip' \in path[job.old]
      /\ job.phase = "undo" => tip' \in path[job.new]
  BY <1>7, <1>8, PathTrans DEF ChainInv, Placed, At
<1>10. Placed'
  <2>1. CASE job.phase = "pop" /\ tip' = job.fork
    BY <1>4, <1>7, <1>8, <2>1 DEF Placed, At
  <2>2. CASE job.phase = "undo" /\ tip' = job.fork
    BY <1>4, <1>7, <1>8, <2>2 DEF Placed, At
  <2>3. CASE tip' # job.fork
    BY <1>1, <1>4, <1>8, <1>9, <2>3 DEF Placed, At
  <2> QED
    BY <1>1, <2>1, <2>2, <2>3
<1> QED
  BY <1>1, <1>2, <1>3, <1>4, <1>5, <1>6, <1>10, SwitchChain

\* The next block towards the end of a chain that goes on from the tip.
LEMMA TowardChild ==
  ASSUME NEW b \in Block, tip \in path[b], tip # b
  PROVE  Toward(b) \in path[b] /\ Toward(b) \in Block \ {Genesis} /\ parent[Toward(b)] = tip
<1>1. \E c \in path[b] \ {Genesis} : parent[c] = tip
  BY PathChild
<1>2. Toward(b) \in path[b] \ {Genesis} /\ parent[Toward(b)] = tip
  BY <1>1 DEF Toward
<1> QED
  BY <1>2, PathEnds

\* SwitchConnect preserves the invariant.
LEMMA SwitchConnectChain ==
  ASSUME ChainInv, SwitchConnect
  PROVE  ChainInv'
<1> DEFINE child == Toward(job.new)
<1>1. /\ job.phase = "connect" /\ UNCHANGED <<alt, saved, found>>
      /\ \/ /\ Connect(child)
            /\ job' = [job EXCEPT !.phase = IF child = job.new THEN "park" ELSE "connect"]
         \/ /\ Refuse(child)
            /\ job' = [job EXCEPT !.phase = IF tip = job.fork THEN "redo" ELSE "undo", !.bad = child]
  BY DEF SwitchConnect, At
<1>2. /\ tip \in Block /\ job \in JobType /\ Switching /\ batch = "open" /\ dirty = {} /\ Valid(tip)
      /\ tip \in path[job.new] /\ job.fork \in path[tip] /\ tip # job.new
  BY <1>1 DEF ChainInv, Typed, Switching, Phased, Clean, ChainValid, Placed, At
<1>3. /\ job.new \in Block /\ job.old \in Block
      /\ job.fork \in path[job.old] /\ job.fork # job.old
  BY <1>2 DEF ChainInv, Rival
<1>4. child \in path[job.new] /\ child \in Block \ {Genesis} /\ parent[child] = tip
  BY <1>2, <1>3, TowardChild
<1> HIDE DEF child
<1>5. CASE /\ Connect(child)
           /\ job' = [job EXCEPT !.phase = IF child = job.new THEN "park" ELSE "connect"]
  <2>1. tip' = child /\ Valid(child) /\ UNCHANGED <<batch, dirty>> /\ \A t : Safe(t) => Safe(t)'
    BY <1>2, <1>4, <1>5, ConnectEffect
  <2>2. /\ job' \in JobType /\ job'.new = job.new /\ job'.old = job.old /\ job'.fork = job.fork
        /\ job'.phase = IF child = job.new THEN "park" ELSE "connect"
    BY <1>2, <1>5 DEF JobType, Phase, MaybeBlock
  <2>3. job.fork \in path[child]
    BY <1>2, <1>4, PathParent
  <2>4. Placed'
    BY <1>4, <2>1, <2>2, <2>3 DEF Placed, At
  <2> QED
    BY <1>1, <1>2, <1>4, <2>1, <2>2, <2>4, SwitchChain
<1>6. CASE /\ Refuse(child)
           /\ job' = [job EXCEPT !.phase = IF tip = job.fork THEN "redo" ELSE "undo", !.bad = child]
  <2>1. /\ tip' = tip /\ batch' \in {batch, "failed"} /\ (batch' # "failed" => dirty' = dirty)
        /\ \A t : Safe(t) => Safe(t)'
    BY <1>6, RefuseEffect
  <2>2. /\ job' \in JobType /\ job'.new = job.new /\ job'.old = job.old /\ job'.fork = job.fork
        /\ job'.phase = IF tip = job.fork THEN "redo" ELSE "undo"
    BY <1>2, <1>4, <1>6 DEF JobType, Phase, MaybeBlock
  <2>3. Placed'
    BY <1>2, <1>3, <2>1, <2>2 DEF Placed, At
  <2> QED
    BY <1>1, <1>2, <2>1, <2>2, <2>3, SwitchChain
<1> QED
  BY <1>1, <1>5, <1>6

\* A good block whose transactions cannot be lost is connected again.
LEMMA GoodConnects ==
  ASSUME NEW b \in Block \ {Genesis}, parent[b] = tip, GoodAt(b), dirty = {},
         \A t \in Txs(b) : Safe(t)
  PROVE  Connects(b)
<1>1. Mined = MinedBy(tip)
  BY DEF Mined
<1>2. \A t \in Txs(b) : t \notin MinedBy(tip) /\ InputsOk(t, tip, MinedBy(tip))
  BY DEF GoodAt
<1>3. \A t \in Txs(b) : ~TxBad(t)
  BY <1>1, <1>2 DEF TxBad, Safe
<1> QED
  BY <1>3 DEF Connects, Acceptable, GoodAt

\* With the batch open the rollback never meets a refusal.
LEMMA RedoConnects ==
  ASSUME ChainInv, job.phase = "redo", batch = "open"
  PROVE  Connects(Toward(job.old))
<1> DEFINE child == Toward(job.old)
<1>1. tip \in path[job.old] /\ tip # job.old /\ dirty = {} /\ Switching
  BY DEF ChainInv, Clean, Placed, At, Switching
<1>2. job.old \in Block /\ Valid(job.old)
  BY <1>1 DEF ChainInv, Rival
<1>3. child \in path[job.old] /\ child \in Block \ {Genesis} /\ parent[child] = tip
  BY <1>1, <1>2, TowardChild
<1> HIDE DEF child
<1>4. \A t \in Txs(child) : Safe(t)
  <2>1. Txs(child) \subseteq MinedBy(job.old)
    BY <1>3 DEF MinedBy
  <2> QED
    BY <1>1, <2>1 DEF ChainInv, Kept
<1>5. GoodAt(child)
  BY <1>2, <1>3 DEF Valid
<1>6. Connects(child)
  BY <1>1, <1>3, <1>4, <1>5, GoodConnects
<1> QED
  BY <1>6 DEF child

\* Redo preserves the invariant: with the batch open the rollback never meets a refusal.
LEMMA RedoChain ==
  ASSUME ChainInv, Redo
  PROVE  ChainInv'
<1> DEFINE child == Toward(job.old)
<1>1. /\ job.phase = "redo" /\ UNCHANGED <<alt, saved, found>>
      /\ \/ /\ Connect(child)
            /\ job' = [job EXCEPT !.phase = IF child = job.old THEN "mark" ELSE "redo"]
         \/ Refuse(child) /\ job' = [job EXCEPT !.phase = "mark"]
  BY DEF Redo, At
<1>2. /\ tip \in Block /\ job \in JobType /\ Switching /\ batch \in {"open", "failed"}
      /\ tip \in path[job.old] /\ tip # job.old
      /\ batch # "failed" => dirty = {} /\ Valid(tip)
  BY <1>1 DEF ChainInv, Typed, Switching, Phased, Clean, ChainValid, Placed, At
<1>3. job.old \in Block /\ Valid(job.old)
  BY <1>2 DEF ChainInv, Rival
<1>4. child \in path[job.old] /\ child \in Block \ {Genesis} /\ parent[child] = tip
  BY <1>2, <1>3, TowardChild
<1> HIDE DEF child
<1>5. CASE /\ Connect(child)
           /\ job' = [job EXCEPT !.phase = IF child = job.old THEN "mark" ELSE "redo"]
  <2>1. /\ tip' = child /\ UNCHANGED <<batch, dirty>> /\ \A t : Safe(t) => Safe(t)'
        /\ dirty = {} /\ Valid(tip) => Valid(child)
    BY <1>2, <1>4, <1>5, ConnectEffect
  <2>2. /\ job' \in JobType /\ job'.new = job.new /\ job'.old = job.old /\ job'.fork = job.fork
        /\ job'.phase = IF child = job.old THEN "mark" ELSE "redo"
    BY <1>2, <1>5 DEF JobType, Phase, MaybeBlock
  <2>3. Placed'
    BY <1>4, <2>1, <2>2 DEF Placed, At
  <2> QED
    BY <1>1, <1>2, <1>4, <2>1, <2>2, <2>3, SwitchChain
<1>6. CASE Refuse(child) /\ job' = [job EXCEPT !.phase = "mark"]
  <2>1. /\ tip' = tip /\ batch' \in {batch, "failed"} /\ (batch' # "failed" => dirty' = dirty)
        /\ \A t : Safe(t) => Safe(t)'
    BY <1>6, RefuseEffect
  <2>2. /\ job' \in JobType /\ job'.new = job.new /\ job'.old = job.old /\ job'.fork = job.fork
        /\ job'.phase = "mark"
    BY <1>2, <1>6 DEF JobType, Phase, MaybeBlock
  <2>3. batch = "failed"
    BY <1>1, <1>2, <1>6, RedoConnects DEF Refuse, child
  <2>4. Placed'
    BY <2>1, <2>2, <2>3 DEF Placed, At
  <2> QED
    BY <1>1, <1>2, <2>1, <2>2, <2>3, <2>4, SwitchChain
<1> QED
  BY <1>1, <1>5, <1>6

\* Park preserves the invariant.
LEMMA ParkChain ==
  ASSUME ChainInv, Park
  PROVE  ChainInv'
<1>1. /\ job.phase = "park" /\ alt' = (alt \cup Branch(job.old)) \ Branch(job.new) /\ job' = Done
      /\ UNCHANGED <<tip, pool, batch, saved, dirty, found>>
  BY DEF Park, At
<1>2. /\ tip \in Block /\ job \in JobType /\ Switching /\ batch = "open" /\ Valid(tip) /\ tip = job.new
      /\ alt \in SUBSET Block /\ Genesis \notin alt
  BY <1>1 DEF ChainInv, Typed, Switching, Phased, ChainValid, Placed, At
<1>3. /\ job.old \in Block /\ job.fork \in Block
      /\ work[job.new] > work[job.old] /\ NotLighter(job.old)
  BY <1>2 DEF ChainInv, Rival
<1>4. job' \in JobType /\ job'.phase \in {"none", "end"}
  BY <1>1, <1>2, DoneJob
<1>5. alt' \in SUBSET Block /\ Genesis \notin alt'
  BY <1>1, <1>2, <1>3, PathEnds DEF Branch
<1>6. NotLighter(tip)
  <2>1. work[job.new] \in Nat /\ work[job.old] \in Nat /\ work[saved.tip] \in Nat
    BY <1>2, <1>3, WorkAssumption DEF ChainInv, SavedSound
  <2> QED
    BY <1>2, <1>3, <2>1 DEF NotLighter
<1>7. \A t : Safe(t) => Safe(t)'
  BY <1>1 DEF Safe
<1> QED
  BY <1>1, <1>2, <1>4, <1>5, <1>6, <1>7, FinishChain

\* Mark preserves the invariant.
LEMMA MarkChain ==
  ASSUME ChainInv, Mark
  PROVE  ChainInv'
<1>1. /\ job.phase = "mark" /\ alt' = alt \ Condemned /\ job' = [job EXCEPT !.phase = "end"]
      /\ UNCHANGED <<tip, pool, batch, saved, dirty, found>>
  BY DEF Mark, At
<1>2. /\ tip \in Block /\ job \in JobType /\ Switching /\ batch \in {"open", "failed"}
      /\ alt' \in SUBSET Block /\ Genesis \notin alt'
  BY <1>1 DEF ChainInv, Typed, Switching, Phased
<1>3. job' \in JobType /\ job'.phase = "end"
  BY <1>1, <1>2, DoneJob
<1>4. CASE batch = "open"
  <2>1. Valid(tip) /\ NotLighter(tip)
    BY <1>1, <1>2, <1>4 DEF ChainInv, ChainValid, Rival, Placed, At
  <2>2. \A t : Safe(t) => Safe(t)'
    BY <1>1 DEF Safe
  <2> QED
    BY <1>1, <1>2, <1>3, <1>4, <2>1, <2>2, FinishChain
<1>5. CASE batch = "failed"
  <2>1. Typed' /\ Phased' /\ SavedSound' /\ Clean' /\ ChainValid'
    BY <1>1, <1>2, <1>3, <1>5 DEF ChainInv, Typed, Phased, SavedSound, Clean, ChainValid
  <2>2. Kept' /\ Rival' /\ Heavy' /\ Placed'
    BY <1>1, <1>3, <1>5 DEF Kept, Rival, Heavy, Placed, Switching, At
  <2> QED
    BY <2>1, <2>2 DEF ChainInv
<1> QED
  BY <1>2, <1>4, <1>5

\* With no batch and no handler the invariant is that the chain is valid.
LEMMA IdleChain ==
  ASSUME batch' = "idle", job' = NoJob, dirty' = {}, found' \in MaybeBlock,
         tip' \in Block, Valid(tip'), alt' \in SUBSET Block, Genesis \notin alt'
  PROVE  ChainInv'
<1>1. job' \in JobType /\ job'.phase = "none"
  BY DEF NoJob, JobType, Phase, MaybeBlock
<1> QED
  BY <1>1
  DEF ChainInv, Typed, Phased, SavedSound, Clean, ChainValid, Kept, Rival, Heavy, Placed, Switching, At

\* The end of a batch preserves the invariant, committed or aborted.
LEMMA EndBatchChain ==
  ASSUME ChainInv, EndBatch
  PROVE  ChainInv'
<1>1. /\ batch # "idle" /\ batch' = "idle" /\ job' = NoJob /\ dirty' = {} /\ found' = found
      /\ IF batch = "failed" THEN tip' = saved.tip /\ alt' = saved.alt ELSE tip' = tip /\ alt' = alt
  BY DEF EndBatch
<1>2. tip' \in Block /\ Valid(tip') /\ alt' \in SUBSET Block /\ Genesis \notin alt'
      /\ found' \in MaybeBlock
  BY <1>1 DEF ChainInv, Typed, SavedSound, ChainValid
<1> QED
  BY <1>1, <1>2, IdleChain

\* A restart preserves the invariant, whatever it interrupts.
LEMMA RestartChain ==
  ASSUME ChainInv, Restart
  PROVE  ChainInv'
<1>1. /\ batch' = "idle" /\ job' = NoJob /\ dirty' = {} /\ found' = NoBlock /\ alt' = {}
      /\ tip' = IF batch = "idle" THEN tip ELSE saved.tip
  BY DEF Restart, Disk
<1>2. tip' \in Block /\ Valid(tip')
  BY <1>1 DEF ChainInv, Typed, SavedSound, ChainValid
<1> QED
  BY <1>1, <1>2, IdleChain DEF MaybeBlock

\* pop_blocks preserves the invariant.
LEMMA PopBlocksChain ==
  ASSUME ChainInv, PopBlocks
  PROVE  ChainInv'
<1>1. batch = "idle" /\ Pop /\ UNCHANGED <<alt, job, batch, saved, dirty, found>>
  BY DEF PopBlocks
<1>2. tip \in Block /\ Valid(tip) /\ dirty = {} /\ job.phase = "none"
  BY <1>1 DEF ChainInv, Typed, ChainValid, Clean, Phased
<1>3. tip' \in Block /\ Valid(tip')
  BY <1>1, <1>2, PopEffect
<1> QED
  BY <1>1, <1>2, <1>3
  DEF ChainInv, Typed, Phased, SavedSound, Clean, ChainValid, Kept, Rival, Heavy, Placed, Switching, At

\* What happens to the pool and the caches beside the chain preserves the invariant.
LEMMA BesideChain ==
  ASSUME ChainInv,
         \/ \E b \in Block : Found(b)
         \/ \E t \in TxId : \E m \in Methods \ {"block"} : Submit(t, m)
         \/ \E t \in TxId : Drop(t)
         \/ FlushInvalid \/ CreateBlockTemplate \/ UNCHANGED vars
  PROVE  ChainInv'
<1>1. UNCHANGED <<tip, batch, job, saved, dirty, alt>>
  BY DEF Found, Submit, Drop, FlushInvalid, CreateBlockTemplate, vars
<1>2. found' \in MaybeBlock
  BY DEF ChainInv, Typed, MaybeBlock, Found, Submit, Drop, FlushInvalid, CreateBlockTemplate, vars
<1>3. ASSUME batch = "open", NEW t, Safe(t) PROVE Safe(t)'
  <2>1. CASE pool' = pool
    BY <1>1, <1>3, <2>1 DEF Safe
  <2>2. CASE \E u \in TxId : Drop(u)
    <3>1. PICK u \in TxId : pool' = Without(pool, {u}) /\ pool[u].relay # "block"
      BY <1>3, <2>2 DEF Drop
    <3>2. DOMAIN pool' = DOMAIN pool \ {u} /\ \A v \in DOMAIN pool \ {u} : pool'[v] = pool[v]
      BY <3>1, WithoutTable
    <3> QED
      BY <1>1, <1>3, <3>1, <3>2 DEF Safe
  <2> QED
    BY <1>3, <2>1, <2>2 DEF Found, Submit, FlushInvalid, CreateBlockTemplate, vars
<1> QED
  BY <1>1, <1>2, <1>3, AsideChain

\* Every step preserves the invariant.
LEMMA NextChain == ChainInv /\ [Next]_vars => ChainInv'
<1> SUFFICES ASSUME ChainInv, [Next]_vars PROVE ChainInv'
  OBVIOUS
<1>1. ASSUME NEW b \in Block, Receive(b) PROVE ChainInv'
  BY <1>1, ReceiveChain
<1>2. CASE HandleFound
  BY <1>2, HandleFoundChain
<1>3. CASE Ignore \/ RejectAlternative
  BY <1>3, PassOverChain
<1>4. CASE Extend
  BY <1>4, ExtendChain
<1>5. CASE StoreAlternative
  BY <1>5, StoreChain
<1>6. CASE SwitchPop \/ UndoPop
  BY <1>6, SwitchPopChain
<1>7. CASE SwitchConnect
  BY <1>7, SwitchConnectChain
<1>8. CASE Park
  BY <1>8, ParkChain
<1>9. CASE Redo
  BY <1>9, RedoChain
<1>10. CASE Mark
  BY <1>10, MarkChain
<1>11. CASE EndBatch
  BY <1>11, EndBatchChain
<1>12. CASE Restart
  BY <1>12, RestartChain
<1>13. CASE PopBlocks
  BY <1>13, PopBlocksChain
<1>14. CASE \/ \E b \in Block : Found(b)
            \/ \E t \in TxId : \E m \in Methods \ {"block"} : Submit(t, m)
            \/ \E t \in TxId : Drop(t)
            \/ FlushInvalid \/ CreateBlockTemplate \/ UNCHANGED vars
  BY <1>14, BesideChain
<1> QED
  BY <1>1, <1>2, <1>3, <1>4, <1>5, <1>6, <1>7, <1>8, <1>9, <1>10, <1>11, <1>12, <1>13, <1>14 DEF Next

\* The invariant is kept for ever.
LEMMA ChainInvariant == Spec => []ChainInv
  BY InitChain, NextChain, PTL DEF Spec

\* Whatever blocks arrive, in whatever order, and whatever is popped, dropped, mined or
\* interrupted, the main chain obeys the rules unless its batch is going to be aborted.
THEOREM ChainStaysValid == Spec => []ChainValid
<1>1. ChainInv => ChainValid
  BY DEF ChainInv
<1> QED
  BY <1>1, ChainInvariant, PTL

\* A switch ends on the branch with more work or back on the chain it left, and no batch
\* leaves the node on a chain with less work.
THEOREM SwitchesAreSound == Spec => []SwitchSound
<1>1. ChainInv => SwitchSound
  BY DEF ChainInv, SwitchSound, FailedSwitchUndone, NeverLighter, Settled, Placed, Heavy, NotLighter, At
<1> QED
  BY <1>1, ChainInvariant, PTL

\* No batch loses a transaction: what was mined before it is mined or pending after it.
THEOREM NothingIsLost == Spec => []NothingLost
<1>1. ChainInv => NothingLost
  BY DEF ChainInv, NothingLost, Settled, Kept, Safe
<1> QED
  BY <1>1, ChainInvariant, PTL

\* The three together, also when add_block throws in a switch and the batch is aborted.
THEOREM FaultsAreTolerated == Spec => []FaultsTolerated
<1>1. ChainInv => FaultsTolerated
  BY DEF ChainInv, FaultsTolerated, NeverLighter, NothingLost, Settled, Kept, Safe, Heavy, NotLighter
<1> QED
  BY <1>1, ChainInvariant, PTL

-----------------------------------------------------------------------------
(* The block template.                                                     *)

\* Among some transactions one pays best.
LEMMA BestPaying ==
  ASSUME NEW D \in SUBSET TxId, D # {}
  PROVE  \E t \in D : \A u \in D \ {t} : rate[t] > rate[u]
<1> DEFINE T == {Better(D, t) : t \in D}
<1>1. IsFiniteSet(D)
  BY RateAssumption, FS_Subset
<1>2. T \in SUBSET (SUBSET D) /\ T # {}
  BY DEF Better
<1>3. \E x \in T : \A y \in T : y \subseteq x => y = x
  <2> HIDE DEF T
  <2> QED
    BY <1>1, <1>2, LeastSubset
<1>4. PICK t \in D : \A u \in D : Better(D, u) \subseteq Better(D, t) => Better(D, u) = Better(D, t)
  BY <1>3
<1>5. \A u \in D : rate[u] \in Nat
  BY RateAssumption
<1>6. ASSUME NEW u \in D, rate[u] > rate[t] PROVE FALSE
  <2>1. Better(D, u) \subseteq Better(D, t)
    BY <1>5, <1>6 DEF Better
  <2>2. u \in Better(D, t) /\ u \notin Better(D, u)
    BY <1>5, <1>6 DEF Better
  <2> QED
    BY <1>4, <2>1, <2>2
<1>7. ASSUME NEW u \in D \ {t} PROVE rate[t] > rate[u]
  BY <1>5, <1>6, RateAssumption
<1> QED
  BY <1>7

\* What decides whether a transaction is taken once the better paying ones are.
Wanted(S, t) == Fits(S, t) /\ ReadyToGo(t) /\ ~Clashes(S, t)

\* Only the better paying ones matter.
LEMMA WantedByBetter ==
  ASSUME NEW S, NEW R, NEW t, Better(S, t) = Better(R, t)
  PROVE  Wanted(S, t) <=> Wanted(R, t)
  BY DEF Wanted, Fits, Clashes

\* One pass from the best paying transaction down has a result.
LEMMA FilledExists ==
  ASSUME DOMAIN pool \subseteq TxId
  PROVE  \E S \in SUBSET DOMAIN pool : \A t \in DOMAIN pool : t \in S <=> Wanted(S, t)
<1> DEFINE P == DOMAIN pool
           Top(U) == \A t \in U : \A u \in P : rate[u] > rate[t] => u \in U
           Passed(U, S) == S \subseteq U /\ \A t \in U : t \in S <=> Wanted(S, t)
           Q == {X \in SUBSET P : Top(X) /\ \E S \in SUBSET P : Passed(X, S)}
           T == {P \ X : X \in Q}
<1>1. IsFiniteSet(P)
  BY RateAssumption, FS_Subset
<1>2. T \in SUBSET (SUBSET P) /\ T # {}
  <2>1. {} \in SUBSET P /\ Top({}) /\ Passed({}, {})
    OBVIOUS
  <2>2. {} \in Q
    BY <2>1
  <2> HIDE DEF Q
  <2> QED
    BY <2>2
<1>3. \E x \in T : \A y \in T : y \subseteq x => y = x
  <2> HIDE DEF T, P
  <2> QED
    BY <1>1, <1>2, LeastSubset
<1>4. PICK U \in Q : \A y \in T : y \subseteq P \ U => y = P \ U
  <2> HIDE DEF Q
  <2> QED
    BY <1>3
<1>5. U \in SUBSET P /\ Top(U) /\ \E S \in SUBSET P : Passed(U, S)
  BY <1>4
<1>6. PICK S \in SUBSET P : Passed(U, S)
  BY <1>5
<1>7. ASSUME U # P PROVE FALSE
  <2>1. PICK t \in P \ U : \A u \in (P \ U) \ {t} : rate[t] > rate[u]
    <3>1. P \ U \in SUBSET TxId /\ P \ U # {}
      BY <1>5, <1>7
    <3> QED
      BY <3>1, BestPaying
  <2>2. \A u \in P : rate[u] \in Nat
    BY RateAssumption
  <2>3. ASSUME NEW u \in U PROVE rate[u] > rate[t]
    <3>1. ~(rate[t] > rate[u])
      BY <1>5, <2>1
    <3>2. rate[t] # rate[u]
      BY <2>1, RateAssumption
    <3> QED
      BY <2>1, <2>2, <3>1, <3>2
  <2> DEFINE X == U \cup {t}
             R == IF Wanted(S, t) THEN S \cup {t} ELSE S
  <2>4. ASSUME NEW u \in X PROVE Better(R, u) = Better(S, u)
    BY <1>6, <2>1, <2>2, <2>3 DEF Better
  <2>5. Top(X)
    <3> SUFFICES ASSUME NEW u \in X, NEW v \in P, rate[v] > rate[u] PROVE v \in X
      OBVIOUS
    <3>1. CASE u \in U
      BY <1>5, <3>1
    <3>2. CASE u = t
      BY <2>1, <2>2, <3>2
    <3> QED
      BY <3>1, <3>2
  <2>6. Passed(X, R)
    <3>1. \A u \in X : Wanted(R, u) <=> Wanted(S, u)
      BY <2>4, WantedByBetter
    <3> HIDE DEF Wanted
    <3>2. R \subseteq X
      BY <1>6
    <3>3. ASSUME NEW u \in X PROVE u \in R <=> Wanted(R, u)
      BY <1>6, <2>1, <3>1
    <3> QED
      BY <3>2, <3>3
  <2>7. P \ X \in T
    <3>1. R \in SUBSET P /\ X \in SUBSET P
      BY <1>5, <1>6, <2>1
    <3>2. X \in Q
      BY <2>5, <2>6, <3>1
    <3> HIDE DEF Q
    <3> QED
      BY <3>2
  <2> QED
    BY <1>4, <1>5, <2>1, <2>7
<1> QED
  BY <1>6, <1>7

\* What create_block_template collects is pending, valid on the tip and without a clash.
LEMMA FilledSound ==
  ASSUME DOMAIN pool \subseteq TxId
  PROVE  /\ Filled \subseteq DOMAIN pool
         /\ \A t \in Filled : InputsOk(t, tip, Mined)
         /\ Compatible(Filled)
<1> DEFINE P == DOMAIN pool
           F == Filled
<1>1. F \in SUBSET P /\ \A t \in P : t \in F <=> Wanted(F, t)
  <2>1. \E S \in SUBSET P : \A t \in P : t \in S <=> Wanted(S, t)
    BY FilledExists
  <2>2. F = CHOOSE S \in SUBSET P : \A t \in P : t \in S <=> Wanted(S, t)
    BY DEF Filled, Wanted
  <2> HIDE DEF P, F
  <2> QED
    BY <2>1, <2>2
<1> HIDE DEF F
<1>2. \A t \in F : ReadyToGo(t) /\ ~Clashes(F, t)
  BY <1>1 DEF Wanted
<1>3. \A t \in F : InputsOk(t, tip, Mined)
  BY <1>2 DEF ReadyToGo
<1>4. ASSUME NEW t \in F, NEW u \in F, t # u PROVE images[t] \cap images[u] = {}
  <2>1. rate[t] > rate[u] \/ rate[u] > rate[t]
    BY <1>1, <1>4, RateAssumption
  <2>2. u \in Better(F, t) \/ t \in Better(F, u)
    BY <2>1 DEF Better
  <2> QED
    BY <1>2, <2>2 DEF Clashes
<1> QED
  BY <1>1, <1>3, <1>4 DEF Compatible, F

\* The cached template, if it builds on b, can be mined on b with the pending transactions P.
Fresh(b, P) ==
  tmpl.prev = b =>
    /\ tmpl.txs \subseteq P
    /\ \A t \in tmpl.txs : InputsOk(t, b, MinedBy(b))
    /\ Compatible(tmpl.txs)

\* Fresh for the tables, and for those an abort would restore.
TemplateInv ==
  /\ DOMAIN pool \subseteq TxId
  /\ batch # "failed" => Fresh(tip, DOMAIN pool)
  /\ batch # "idle" => DOMAIN saved.pool \subseteq TxId /\ Fresh(saved.tip, DOMAIN saved.pool)

\* A step that drops the template, or keeps it with the tip and what is pending.
LEMMA TemplateKept ==
  ASSUME ChainInv', TemplateInv, DOMAIN pool' \subseteq TxId,
         \/ tmpl' = NoTemplate
         \/ tmpl' = tmpl /\ tip' = tip /\ DOMAIN pool \subseteq DOMAIN pool',
         batch' = "idle" \/ (batch # "idle" /\ saved' = saved) \/ (batch = "idle" /\ saved' = Disk),
         batch' # "failed" => batch # "failed"
  PROVE  TemplateInv'
<1>1. tip' \in Block /\ (batch' # "idle" => saved'.tip \in Block)
  BY DEF ChainInv, Typed, SavedSound
<1>2. batch' # "idle" => DOMAIN saved'.pool \subseteq TxId
  BY DEF TemplateInv, Disk
<1>3. CASE tmpl' = NoTemplate
  <2>1. tmpl'.prev = NoBlock
    BY <1>3 DEF NoTemplate
  <2> QED
    BY <1>1, <1>2, <2>1, NoBlockAssumption DEF TemplateInv, Fresh
<1>4. CASE tmpl' = tmpl /\ tip' = tip /\ DOMAIN pool \subseteq DOMAIN pool'
  <2>1. batch' # "failed" => Fresh(tip, DOMAIN pool)'
    BY <1>4 DEF TemplateInv, Fresh
  <2>2. batch' # "idle" => Fresh(saved.tip, DOMAIN saved.pool)'
    <3>1. CASE batch # "idle" /\ saved' = saved
      BY <1>4, <3>1 DEF TemplateInv, Fresh
    <3>2. CASE batch = "idle" /\ saved' = Disk
      <4>1. saved'.tip = tip /\ saved'.pool = pool
        BY <3>2 DEF Disk
      <4> QED
        BY <1>4, <3>2, <4>1 DEF TemplateInv, Fresh
    <3> QED
      BY <3>1, <3>2
  <2> QED
    BY <1>2, <2>1, <2>2 DEF TemplateInv
<1> QED
  BY <1>3, <1>4

\* No template is cached when the daemon starts.
LEMMA InitTemplate == Init => TemplateInv
<1> SUFFICES ASSUME Init PROVE TemplateInv
  OBVIOUS
<1>1. tmpl.prev = NoBlock /\ tip = Genesis /\ batch = "idle" /\ DOMAIN pool = {}
  BY DEF Init, NoTemplate, EmptyTable
<1> QED
  BY <1>1, TreeAssumption, NoBlockAssumption DEF TemplateInv, Fresh

\* The steps of the handlers keep the template only with the tip and the pool.
LEMMA HandlerTemplate ==
  ASSUME ChainInv, ChainInv', TemplateInv,
         \/ Ignore \/ Extend \/ RejectAlternative \/ StoreAlternative
         \/ SwitchPop \/ SwitchConnect \/ Park \/ UndoPop \/ Redo \/ Mark
  PROVE  TemplateInv'
<1>1. tip \in Block /\ batch \in {"idle", "open", "failed"}
  BY DEF ChainInv, Typed
<1>2. saved' = saved
  BY DEF Ignore, Extend, RejectAlternative, StoreAlternative, SwitchPop, SwitchConnect, Park, UndoPop,
         Redo, Mark
<1>3. batch # "idle"
  BY DEF ChainInv, Phased, At, Ignore, Extend, RejectAlternative, StoreAlternative, SwitchPop,
         SwitchConnect, Park, UndoPop, Redo, Mark
<1>4. CASE Ignore \/ RejectAlternative \/ StoreAlternative \/ Park \/ Mark
  <2>1. UNCHANGED <<tip, pool, tmpl, batch>>
    BY <1>4 DEF Ignore, RejectAlternative, StoreAlternative, Park, Mark
  <2> QED
    BY <1>2, <1>3, <2>1, TemplateKept DEF TemplateInv
<1>5. CASE SwitchPop \/ UndoPop
  <2>1. Pop /\ batch' = batch
    BY <1>5 DEF SwitchPop, UndoPop
  <2>2. tmpl' = NoTemplate /\ DOMAIN pool' = DOMAIN pool \cup Txs(tip)
    BY <1>1, <2>1, PopEffect
  <2>3. Txs(tip) \subseteq TxId
    BY <1>1, MinedType
  <2>4. DOMAIN pool' \subseteq TxId
    BY <2>2, <2>3 DEF TemplateInv
  <2> QED
    BY <1>2, <1>3, <2>1, <2>2, <2>4, TemplateKept
<1>6. ASSUME NEW b, Connect(b) PROVE TemplateInv'
  <2>1. tmpl' = NoTemplate /\ batch' = batch /\ pool' = Without(pool, Txs(b))
    BY <1>6 DEF Connect
  <2>2. DOMAIN pool' \subseteq TxId
    BY <2>1 DEF Without, TemplateInv
  <2> QED
    BY <1>2, <1>3, <2>1, <2>2, TemplateKept
<1>7. ASSUME NEW b, Refuse(b) PROVE TemplateInv'
  <2>1. tmpl' \in {tmpl, NoTemplate} /\ tip' = tip /\ DOMAIN pool' = DOMAIN pool
        /\ batch' \in {batch, "failed"}
    BY <1>7, RefuseEffect
  <2> QED
    BY <1>2, <1>3, <2>1, TemplateKept DEF TemplateInv
<1> QED
  BY <1>4, <1>5, <1>6, <1>7 DEF Extend, SwitchConnect, Redo

\* The other steps; an abort leaves a template only when it restores what it was made from.
LEMMA OtherTemplate ==
  ASSUME ChainInv, ChainInv', TemplateInv,
         \/ \E b \in Block : Receive(b) \/ Found(b)
         \/ HandleFound \/ EndBatch \/ Restart
         \/ \E t \in TxId : \E m \in Methods \ {"block"} : Submit(t, m)
         \/ \E t \in TxId : Drop(t)
         \/ PopBlocks \/ FlushInvalid \/ CreateBlockTemplate \/ UNCHANGED vars
  PROVE  TemplateInv'
<1>1. tip \in Block /\ batch \in {"idle", "open", "failed"} /\ (batch # "failed" => dirty = {})
  BY DEF ChainInv, Typed, Clean
<1>2. ASSUME NEW b \in Block, Receive(b) PROVE TemplateInv'
  <2>1. /\ tip' = tip /\ DOMAIN pool' = DOMAIN pool \cup NewTxs(b) /\ tmpl' \in {tmpl, NoTemplate}
    BY <1>2, ReceiveEffect
  <2>2. NewTxs(b) \subseteq TxId
    BY MinedType DEF NewTxs
  <2>3. batch # "failed" /\ batch' = "open" /\ saved' = IF batch = "idle" THEN Disk ELSE saved
    BY <1>2 DEF Receive, Ready, OpenBatch
  <2>4. DOMAIN pool' \subseteq TxId
    BY <2>1, <2>2 DEF TemplateInv
  <2> QED
    BY <2>1, <2>3, <2>4, TemplateKept
<1>3. CASE HandleFound
  <2>1. UNCHANGED <<tip, pool, tmpl>> /\ batch = "idle" /\ saved' = Disk
    BY <1>3 DEF HandleFound, OpenBatch
  <2> QED
    BY <2>1, TemplateKept DEF TemplateInv
<1>4. CASE EndBatch
  <2>1. /\ batch # "idle" /\ batch' = "idle" /\ tmpl' = tmpl
        /\ IF batch = "failed" THEN tip' = saved.tip /\ pool' = saved.pool
                              ELSE tip' = tip /\ pool' = pool
    BY <1>4 DEF EndBatch
  <2> QED
    BY <2>1 DEF TemplateInv, Fresh
<1>5. CASE Restart
  <2>1. /\ batch' = "idle" /\ tmpl' = NoTemplate
        /\ \E b : pool' = Without(IF batch = "idle" THEN pool ELSE saved.pool, b)
    BY <1>5 DEF Restart, Disk
  <2>2. DOMAIN pool' \subseteq TxId
    BY <2>1 DEF Without, TemplateInv
  <2>3. tip' \in Block /\ tmpl'.prev = NoBlock
    BY <2>1 DEF ChainInv, Typed, NoTemplate
  <2> QED
    BY <2>1, <2>2, <2>3, NoBlockAssumption DEF TemplateInv, Fresh
<1>6. ASSUME NEW t \in TxId, NEW m, Submit(t, m) PROVE TemplateInv'
  <2>1. tmpl' = NoTemplate /\ batch' = batch /\ saved' = saved /\ batch = "idle"
        /\ pool' = Put(pool, {t}, m, tip, Mined)
    BY <1>6 DEF Submit
  <2>2. DOMAIN pool' \subseteq TxId
    BY <2>1 DEF Put, TemplateInv
  <2> QED
    BY <2>1, <2>2, TemplateKept
<1>7. ASSUME NEW t \in TxId, Drop(t) PROVE TemplateInv'
  <2>1. tmpl' = NoTemplate /\ batch' = batch /\ saved' = saved /\ pool' = Without(pool, {t})
    BY <1>7 DEF Drop
  <2>2. DOMAIN pool' \subseteq TxId
    BY <2>1 DEF Without, TemplateInv
  <2> QED
    BY <2>1, <2>2, TemplateKept
<1>8. CASE PopBlocks
  <2>1. Pop /\ batch' = batch /\ saved' = saved /\ batch = "idle"
    BY <1>8 DEF PopBlocks
  <2>2. tmpl' = NoTemplate /\ DOMAIN pool' = DOMAIN pool \cup Txs(tip)
    BY <1>1, <2>1, PopEffect
  <2>3. Txs(tip) \subseteq TxId
    BY <1>1, MinedType
  <2>4. DOMAIN pool' \subseteq TxId
    BY <2>2, <2>3 DEF TemplateInv
  <2> QED
    BY <2>1, <2>2, <2>4, TemplateKept
<1>9. CASE FlushInvalid \/ (\E b \in Block : Found(b)) \/ UNCHANGED vars
  <2>1. UNCHANGED <<tip, pool, tmpl, batch, saved>>
    BY <1>9 DEF FlushInvalid, Found, vars
  <2> QED
    BY <2>1 DEF TemplateInv, Fresh
<1>10. CASE CreateBlockTemplate
  <2>1. /\ batch = "idle" /\ batch' = batch /\ tip' = tip /\ DOMAIN pool' = DOMAIN pool
        /\ tmpl'.prev = tip /\ tmpl'.txs = Filled
    BY <1>10 DEF CreateBlockTemplate
  <2>2. Mined = MinedBy(tip)
    BY <1>1, <2>1 DEF Mined
  <2>3. /\ Filled \subseteq DOMAIN pool /\ Compatible(Filled)
        /\ \A t \in Filled : InputsOk(t, tip, MinedBy(tip))
    BY <2>2, FilledSound DEF TemplateInv
  <2> QED
    BY <2>1, <2>3 DEF TemplateInv, Fresh
<1> QED
  BY <1>2, <1>3, <1>4, <1>5, <1>6, <1>7, <1>8, <1>9, <1>10

\* A cached template that would be served can be mined: its transactions are pending, valid
\* on the tip and spend no key image twice, also after aborted batches and failed switches.
THEOREM TemplatesStayFresh == Spec => []TemplateFresh
<1>1. ChainInv /\ TemplateInv => TemplateFresh
  <2> SUFFICES ASSUME ChainInv, TemplateInv, batch = "idle" PROVE TemplateFresh
    BY DEF TemplateFresh
  <2>1. Mined = MinedBy(tip)
    BY DEF ChainInv, Clean, Mined
  <2> QED
    BY <2>1 DEF TemplateInv, Fresh, TemplateFresh
<1>2. ChainInv /\ ChainInv' /\ TemplateInv /\ [Next]_vars => TemplateInv'
  BY HandlerTemplate, OtherTemplate DEF Next
<1> QED
  BY <1>1, <1>2, InitTemplate, ChainInvariant, PTL DEF Spec

-----------------------------------------------------------------------------
(* Where the blocks are filed, and the work of those kept aside.  Both     *)
(* results suppose that no block spends a key image twice; the first also  *)
(* that nothing is dropped from the pool, the second that no block is      *)
(* popped by hand (MCBlockchainPop shows what that is needed for).         *)

(* When no block spends a key image twice add_block never throws.  Then a  *)
(* block is filed where its fate calls for, as long as nothing is taken    *)
(* out of the pool behind the chain's back.                                *)

NoClash == \A b \in Block : Compatible(Txs(b))

\* The transaction can be connected with its block.
Avail(t) == t \in MinedBy(tip) \cup DOMAIN pool

PoolApart == DOMAIN pool \cap MinedBy(tip) = {}

\* The transactions of the blocks that may still be connected are at hand.
Supplied ==
  /\ \A a \in alt : \A t \in Txs(a) : Avail(t)
  /\ found \in Block => \A t \in Txs(found) : Avail(t)
  /\ At("block") => \A t \in Txs(job.new) : Avail(t)

\* The alternatives are off the main chain, or off the chain a switch leaves.
AltApart ==
  /\ ~Switching => path[tip] \cap alt = {}
  /\ Switching => path[job.old] \cap alt = {} /\ Branch(job.new) \subseteq alt

Failing == job.phase \in {"undo", "redo", "mark"}

\* A switch that fails has met a block that breaks the rules.
BadFound == Failing => job.bad \in path[job.new] \ {Genesis} /\ ~GoodAt(job.bad)

InvalidApart == \A b \in invalid \cap alt : Failing /\ b = job.bad

Filed ==
  /\ batch # "failed" /\ InvalidBlocksAreInvalid /\ PoolApart /\ Supplied
  /\ AltApart /\ BadFound /\ InvalidApart

\* What connecting a block does to the pool.
LEMMA ConnectFiled ==
  ASSUME ChainInv, Filed, NEW b \in Block \ {Genesis}, parent[b] = tip, Connect(b)
  PROVE  PoolApart' /\ InvalidBlocksAreInvalid' /\ \A t : Avail(t) => Avail(t)'
<1>1. tip' = b /\ DOMAIN pool' = DOMAIN pool \ Txs(b) /\ invalid' = invalid
  BY ConnectEffect DEF ChainInv, Typed
<1>2. MinedBy(b) = MinedBy(tip) \cup Txs(b)
  BY MinedStep
<1>3. MinedBy(tip)' = MinedBy(b)
  BY <1>1 DEF MinedBy
<1>4. PoolApart' /\ InvalidBlocksAreInvalid'
  BY <1>1, <1>2, <1>3 DEF Filed, PoolApart, InvalidBlocksAreInvalid
<1>5. ASSUME NEW t, Avail(t) PROVE Avail(t)'
  BY <1>1, <1>2, <1>3, <1>5 DEF Avail
<1> QED
  BY <1>4, <1>5

\* What refusing a block does: m_invalid_blocks gets it only when it breaks the rules.
LEMMA RefuseFiled ==
  ASSUME NoClash, ChainInv, Filed, NEW b \in Block \ {Genesis}, parent[b] = tip, Refuse(b)
  PROVE  /\ PoolApart' /\ InvalidBlocksAreInvalid' /\ batch' = batch /\ tip' = tip
         /\ invalid' \subseteq invalid \cup {b}
         /\ \A t : Avail(t) => Avail(t)'
         /\ (\A t \in Txs(b) : Avail(t)) => ~GoodAt(b)
<1>1. tip' = tip /\ DOMAIN pool' = DOMAIN pool
  BY RefuseEffect
<1>2. ~Throws(b) /\ batch' = batch /\ Compatible(Txs(b))
  BY DEF Refuse, Throws, NoClash
<1>3. Mined = MinedBy(tip)
  BY DEF ChainInv, Clean, Filed, Mined
<1>4. invalid' = IF WrongInputs(b) THEN invalid \cup {b} ELSE invalid
  BY DEF Refuse
<1>5. WrongInputs(b) => ~Valid(b)
  <2>1. Taken(b) \subseteq Txs(b)
    BY DEF Taken, Txs
  <2>2. WrongInputs(b) => ~GoodAt(b)
    BY <1>3, <2>1 DEF WrongInputs, GoodAt
  <2> QED
    BY <2>2, ValidStep
<1>6. InvalidBlocksAreInvalid'
  BY <1>4, <1>5 DEF Filed, InvalidBlocksAreInvalid
<1>7. PoolApart' /\ \A t : Avail(t) => Avail(t)'
  BY <1>1 DEF Filed, PoolApart, Avail
<1>8. ASSUME \A t \in Txs(b) : Avail(t), GoodAt(b) PROVE FALSE
  <2>1. \A t \in Txs(b) : ~TxBad(t)
    BY <1>3, <1>8 DEF TxBad, GoodAt, Avail
  <2> QED
    BY <1>2, <1>8, <2>1 DEF Refuse, Connects, Acceptable, GoodAt
<1> QED
  BY <1>1, <1>2, <1>4, <1>6, <1>7, <1>8

\* What popping a block does to the pool.
LEMMA PopFiled ==
  ASSUME ChainInv, Filed, Pop, invalid' = invalid
  PROVE  PoolApart' /\ InvalidBlocksAreInvalid' /\ \A t : Avail(t) => Avail(t)'
<1>1. tip \in Block /\ Valid(tip)
  BY DEF ChainInv, Typed, ChainValid, Filed
<1>2. tip # Genesis /\ tip' = parent[tip] /\ DOMAIN pool' = DOMAIN pool \cup Txs(tip)
  BY <1>1, PopEffect
<1>3. MinedBy(tip) = MinedBy(parent[tip]) \cup Txs(tip)
  BY <1>1, <1>2, MinedStep
<1>4. MinedBy(tip)' = MinedBy(parent[tip])
  BY <1>2 DEF MinedBy
<1>5. Txs(tip) \cap MinedBy(parent[tip]) = {}
  BY <1>1, <1>2, ValidStep DEF GoodAt
<1>6. PoolApart' /\ InvalidBlocksAreInvalid'
  BY <1>2, <1>3, <1>4, <1>5 DEF Filed, PoolApart, InvalidBlocksAreInvalid
<1>7. ASSUME NEW t, Avail(t) PROVE Avail(t)'
  BY <1>2, <1>3, <1>4, <1>7 DEF Avail
<1> QED
  BY <1>6, <1>7

\* A state between switches.
LEMMA RestFiled ==
  ASSUME ChainInv', batch' # "failed", InvalidBlocksAreInvalid', PoolApart', Supplied',
         ~Switching', path[tip'] \cap alt' = {}, invalid' \cap alt' = {}
  PROVE  Filed'
<1>1. AltApart' /\ InvalidApart'
  BY DEF AltApart, InvalidApart
<1>2. BadFound'
  BY DEF BadFound, Failing, Switching
<1> QED
  BY <1>1, <1>2 DEF Filed

\* A step of a switch that stays in the switch.
LEMMA SwitchFiled ==
  ASSUME Filed, Switching, Switching', UNCHANGED <<alt, found, batch>>,
         job'.new = job.new, job'.old = job.old, job'.fork = job.fork,
         InvalidBlocksAreInvalid', PoolApart', \A t : Avail(t) => Avail(t)',
         BadFound', InvalidApart'
  PROVE  Filed'
<1>1. Supplied'
  BY DEF Filed, Supplied, At, Switching
<1>2. AltApart'
  BY DEF Filed, AltApart, Branch
<1> QED
  BY <1>1, <1>2 DEF Filed

\* Receive brings the transactions of its block.
LEMMA ReceiveFiled ==
  ASSUME ChainInv, ChainInv', Filed, NEW b \in Block, Receive(b)
  PROVE  Filed'
<1>1. /\ tip' = tip /\ DOMAIN pool' = DOMAIN pool \cup NewTxs(b) /\ UNCHANGED <<alt, invalid, found>>
      /\ batch' = "open" /\ job'.phase = "block" /\ job'.new = b
  BY ReceiveEffect DEF Receive, OpenBatch, NoJob
<1>2. job.phase = "none"
  BY DEF Receive, Ready, At, ChainInv, Phased
<1>3. Mined = MinedBy(tip)
  BY DEF ChainInv, Clean, Filed, Mined
<1>4. MinedBy(tip)' = MinedBy(tip)
  BY <1>1 DEF MinedBy
<1>5. PoolApart' /\ InvalidBlocksAreInvalid' /\ \A t : Avail(t) => Avail(t)'
  BY <1>1, <1>3, <1>4 DEF Filed, PoolApart, InvalidBlocksAreInvalid, Avail, NewTxs
<1>6. \A t \in Txs(b) : Avail(t)'
  BY <1>1, <1>3, <1>4 DEF Avail, NewTxs
<1>7. Supplied'
  BY <1>1, <1>5, <1>6 DEF Filed, Supplied
<1>8. ~Switching /\ ~Switching' /\ ~Failing
  BY <1>1, <1>2 DEF Switching, Failing
<1> QED
  BY <1>1, <1>5, <1>7, <1>8, RestFiled DEF Filed, AltApart, InvalidApart

\* What leaves the chain, the alternatives and m_invalid_blocks alone, outside a switch.
LEMMA AsideFiled ==
  ASSUME ChainInv', Filed, UNCHANGED <<tip, alt>>, invalid' \subseteq invalid,
         batch' # "failed", PoolApart', Supplied', ~Switching, ~Switching'
  PROVE  Filed'
<1>1. ~Failing
  BY DEF Failing, Switching
<1>2. InvalidBlocksAreInvalid'
  BY DEF Filed, InvalidBlocksAreInvalid
<1> QED
  BY <1>1, <1>2, RestFiled DEF Filed, AltApart, InvalidApart

\* The same for the steps that also leave the pool.
LEMMA PassFiled ==
  ASSUME ChainInv, ChainInv', Filed,
         \/ HandleFound \/ Ignore \/ RejectAlternative \/ EndBatch \/ FlushInvalid
         \/ \E b \in Block : Found(b)
  PROVE  Filed'
<1>1. /\ UNCHANGED <<tip, alt, pool>> /\ invalid' \subseteq invalid /\ batch' # "failed"
  BY DEF Filed, HandleFound, OpenBatch, Ignore, RejectAlternative, EndBatch, FlushInvalid, Found
<1>2. job \in JobType
  BY DEF ChainInv, Typed
<1>3. job.phase \in {"none", "block", "end"}
  BY <1>2 DEF HandleFound, Ignore, RejectAlternative, EndBatch, FlushInvalid, Found, At, ChainInv, Phased
<1>4. /\ job'.phase \in {"none", "block", "end"}
      /\ job'.phase = "block" =>
           \/ job' = job
           \/ found \in MaybeBlock \ {NoBlock} /\ job'.new = found
  <2>1. CASE HandleFound
    BY <2>1 DEF HandleFound, NoJob, ChainInv, Typed
  <2>2. CASE Ignore \/ RejectAlternative
    BY <1>2, <2>2, DoneJob DEF Ignore, RejectAlternative
  <2>3. CASE EndBatch
    BY <2>3 DEF EndBatch, NoJob
  <2>4. CASE FlushInvalid \/ \E b \in Block : Found(b)
    BY <1>3, <2>4 DEF FlushInvalid, Found
  <2> QED
    BY <2>1, <2>2, <2>3, <2>4
<1>5. found' \in {found, NoBlock} \/ \A t \in Txs(found') : Avail(t)
  BY DEF HandleFound, Ignore, RejectAlternative, EndBatch, FlushInvalid, Found, Avail
<1>6. \A t : Avail(t) => Avail(t)'
  BY <1>1 DEF Avail
<1>7. PoolApart'
  BY <1>1 DEF Filed, PoolApart
<1>8. Supplied'
  BY <1>1, <1>4, <1>5, <1>6, NoBlockAssumption DEF Filed, Supplied, At, MaybeBlock
<1>9. ~Switching /\ ~Switching'
  BY <1>3, <1>4 DEF Switching
<1> QED
  BY <1>1, <1>7, <1>8, <1>9, AsideFiled

\* Extend: a block that is refused is not an alternative.
LEMMA ExtendFiled ==
  ASSUME NoClash, ChainInv, ChainInv', Filed, Extend
  PROVE  Filed'
<1> DEFINE b == job.new
<1>1. /\ job.phase = "block" /\ ~HaveBlock(b) /\ parent[b] = tip /\ UNCHANGED <<alt, found>>
      /\ \/ Connect(b) /\ job' = Done
         \/ Refuse(b) /\ job' = [job EXCEPT !.phase = "end"]
  BY DEF Extend, At
<1>2. tip \in Block /\ b \in Block /\ job \in JobType
  BY <1>1 DEF ChainInv, Typed, Placed, At
<1>3. b \in Block \ {Genesis} /\ b \notin alt
  BY <1>1, <1>2, NewIsNotGenesis
<1>4. ~Switching /\ ~Failing /\ path[tip] \cap alt = {} /\ invalid \cap alt = {}
  BY <1>1 DEF Switching, Failing, Filed, AltApart, InvalidApart
<1>5. job'.phase \in {"none", "end"} /\ ~Switching'
  BY <1>1, <1>2, DoneJob DEF Switching
<1> HIDE DEF b
<1>6. /\ PoolApart' /\ InvalidBlocksAreInvalid' /\ \A t : Avail(t) => Avail(t)'
      /\ batch' = batch /\ invalid' \subseteq invalid \cup {b} /\ tip' \in {tip, b}
  <2>1. CASE Connect(b)
    <3>1. PoolApart' /\ InvalidBlocksAreInvalid' /\ \A t : Avail(t) => Avail(t)'
      BY <1>1, <1>3, <2>1, ConnectFiled
    <3> QED
      BY <2>1, <3>1 DEF Connect
  <2>2. CASE Refuse(b)
    BY <1>1, <1>3, <2>2, RefuseFiled
  <2> QED
    BY <1>1, <2>1, <2>2
<1>7. Supplied'
  BY <1>1, <1>5, <1>6 DEF Filed, Supplied, At
<1>8. path[tip'] \cap alt' = {}
  BY <1>1, <1>3, <1>4, <1>6, PathParent
<1>9. invalid' \cap alt' = {} /\ batch' # "failed"
  BY <1>1, <1>3, <1>4, <1>6 DEF Filed
<1> QED
  BY <1>5, <1>6, <1>7, <1>8, <1>9, RestFiled

\* StoreAlternative: the branch of a switch consists of alternatives.
LEMMA StoreFiled ==
  ASSUME ChainInv, ChainInv', Filed, StoreAlternative
  PROVE  Filed'
<1> DEFINE b == job.new
           f == Fork(b)
<1>1. /\ job.phase = "block" /\ ~HaveBlock(b)
      /\ alt' = alt \cup {b}
      /\ job' = IF Heavier(b) THEN [job EXCEPT !.phase = "pop", !.fork = f, !.old = tip] ELSE Done
      /\ UNCHANGED <<tip, pool, batch, invalid, found>>
  BY DEF StoreAlternative, At
<1>2. tip \in Block /\ b \in Block /\ job \in JobType /\ Genesis \notin alt
  BY <1>1 DEF ChainInv, Typed, Placed, At
<1>3. b \in Block \ {Genesis} /\ b \notin path[tip] /\ b \notin invalid
  BY <1>1, <1>2, NewIsNotGenesis
<1>4. path[parent[b]] \ path[f] \subseteq alt
  BY <1>2, <1>3, ForkFound
<1>5. path[b] \ path[f] \subseteq alt'
  BY <1>1, <1>3, <1>4, PathParent
<1>6. job'.phase # "block"
  BY <1>1, <1>2, DoneJob DEF JobType
<1>7. \A t \in Txs(b) : Avail(t)
  BY <1>1 DEF Filed, Supplied, At
<1> HIDE DEF b, f
<1>8. ~Switching /\ ~Failing /\ path[tip] \cap alt = {} /\ invalid \cap alt = {}
  BY <1>1 DEF Switching, Failing, Filed, AltApart, InvalidApart
<1>9. path[tip'] \cap alt' = {} /\ invalid' \cap alt' = {} /\ batch' # "failed"
  BY <1>1, <1>3, <1>8 DEF Filed
<1>10. PoolApart' /\ InvalidBlocksAreInvalid' /\ \A t : Avail(t) => Avail(t)'
  BY <1>1 DEF Filed, PoolApart, InvalidBlocksAreInvalid, Avail
<1>11. Supplied'
  BY <1>1, <1>6, <1>7, <1>10 DEF Filed, Supplied, At
<1>12. CASE ~Heavier(b)
  <2>1. ~Switching'
    BY <1>1, <1>2, <1>12, DoneJob DEF Switching
  <2> QED
    BY <1>9, <1>10, <1>11, <2>1, RestFiled
<1>13. CASE Heavier(b)
  <2>1. job'.phase = "pop" /\ job'.new = b /\ job'.fork = f /\ job'.old = tip
    BY <1>1, <1>2, <1>13 DEF JobType, b
  <2>2. AltApart'
    BY <1>1, <1>5, <1>9, <2>1 DEF AltApart, Switching, Branch
  <2>3. BadFound' /\ InvalidApart'
    BY <1>9, <2>1 DEF BadFound, InvalidApart, Failing
  <2> QED
    BY <1>9, <1>10, <1>11, <2>2, <2>3 DEF Filed
<1> QED
  BY <1>12, <1>13

\* SwitchPop and UndoPop.
LEMMA SwitchPopFiled ==
  ASSUME ChainInv, Filed, SwitchPop \/ UndoPop
  PROVE  Filed'
<1>1. /\ job.phase \in {"pop", "undo"} /\ Pop /\ UNCHANGED <<alt, invalid, batch, found>>
      /\ \E p \in {"pop", "connect", "undo", "redo"} :
           job' = [job EXCEPT !.phase = p] /\ (p \in {"undo", "redo"} <=> job.phase = "undo")
  BY DEF SwitchPop, UndoPop, At
<1>2. job \in JobType
  BY DEF ChainInv, Typed
<1>3. /\ job'.new = job.new /\ job'.old = job.old /\ job'.fork = job.fork /\ job'.bad = job.bad
      /\ job'.phase \in {"pop", "connect", "undo", "redo"}
      /\ job'.phase \in {"undo", "redo"} <=> job.phase = "undo"
  BY <1>1, <1>2 DEF JobType
<1>4. Switching /\ Switching' /\ (Failing' <=> Failing)
  BY <1>1, <1>3 DEF Switching, Failing
<1>5. PoolApart' /\ InvalidBlocksAreInvalid' /\ \A t : Avail(t) => Avail(t)'
  BY <1>1, PopFiled
<1>6. BadFound' /\ InvalidApart'
  BY <1>1, <1>3, <1>4 DEF Filed, BadFound, InvalidApart, GoodAt
<1> QED
  BY <1>1, <1>3, <1>4, <1>5, <1>6, SwitchFiled

\* SwitchConnect: the block that is refused, its transactions at hand, breaks the rules.
LEMMA SwitchConnectFiled ==
  ASSUME NoClash, ChainInv, Filed, SwitchConnect
  PROVE  Filed'
<1> DEFINE child == Toward(job.new)
<1>1. /\ job.phase = "connect" /\ UNCHANGED <<alt, found>>
      /\ \/ /\ Connect(child)
            /\ job' = [job EXCEPT !.phase = IF child = job.new THEN "park" ELSE "connect"]
         \/ /\ Refuse(child)
            /\ job' = [job EXCEPT !.phase = IF tip = job.fork THEN "redo" ELSE "undo", !.bad = child]
  BY DEF SwitchConnect, At
<1>2. /\ tip \in Block /\ job \in JobType /\ Switching /\ ~Failing
      /\ tip \in path[job.new] /\ job.fork \in path[tip] /\ tip # job.new /\ job.new \in Block
  BY <1>1 DEF ChainInv, Typed, Switching, Failing, Placed, At, Rival
<1>3. child \in path[job.new] /\ child \in Block \ {Genesis} /\ parent[child] = tip
  BY <1>2, TowardChild
<1>4. child \in alt
  <2>1. child \notin path[job.fork]
    BY <1>2, <1>3, PathTrans, PathParent
  <2> QED
    BY <1>2, <1>3, <2>1 DEF Filed, AltApart, Branch
<1> HIDE DEF child
<1>5. CASE /\ Connect(child)
           /\ job' = [job EXCEPT !.phase = IF child = job.new THEN "park" ELSE "connect"]
  <2>1. PoolApart' /\ InvalidBlocksAreInvalid' /\ \A t : Avail(t) => Avail(t)'
    BY <1>3, <1>5, ConnectFiled
  <2>2. UNCHANGED <<batch, invalid>>
    BY <1>5 DEF Connect
  <2>3. /\ job'.new = job.new /\ job'.old = job.old /\ job'.fork = job.fork
        /\ job'.phase \in {"park", "connect"}
    BY <1>2, <1>5 DEF JobType
  <2>4. Switching' /\ BadFound' /\ InvalidApart'
    BY <1>1, <1>2, <2>2, <2>3 DEF Filed, Switching, BadFound, InvalidApart, Failing
  <2> QED
    BY <1>1, <1>2, <2>1, <2>2, <2>3, <2>4, SwitchFiled
<1>6. CASE /\ Refuse(child)
           /\ job' = [job EXCEPT !.phase = IF tip = job.fork THEN "redo" ELSE "undo", !.bad = child]
  <2>1. /\ PoolApart' /\ InvalidBlocksAreInvalid' /\ \A t : Avail(t) => Avail(t)'
        /\ batch' = batch /\ invalid' \subseteq invalid \cup {child}
        /\ (\A t \in Txs(child) : Avail(t)) => ~GoodAt(child)
    BY <1>3, <1>6, RefuseFiled
  <2>2. /\ job'.new = job.new /\ job'.old = job.old /\ job'.fork = job.fork /\ job'.bad = child
        /\ job'.phase \in {"redo", "undo"}
    BY <1>2, <1>6 DEF JobType
  <2>3. ~GoodAt(child)
    BY <1>4, <2>1 DEF Filed, Supplied
  <2>4. Switching' /\ BadFound'
    BY <1>3, <2>2, <2>3 DEF Switching, BadFound, Failing, GoodAt
  <2>5. InvalidApart'
    BY <1>1, <1>2, <2>1, <2>2 DEF Filed, InvalidApart, Failing
  <2> QED
    BY <1>1, <1>2, <2>1, <2>2, <2>4, <2>5, SwitchFiled
<1> QED
  BY <1>1, <1>5, <1>6

\* Redo.
LEMMA RedoFiled ==
  ASSUME ChainInv, Filed, Redo
  PROVE  Filed'
<1> DEFINE child == Toward(job.old)
<1>1. /\ job.phase = "redo" /\ UNCHANGED <<alt, found>>
      /\ \/ /\ Connect(child)
            /\ job' = [job EXCEPT !.phase = IF child = job.old THEN "mark" ELSE "redo"]
         \/ Refuse(child)
  BY DEF Redo, At
<1>2. /\ tip \in Block /\ job \in JobType /\ Switching /\ Failing /\ batch = "open"
      /\ tip \in path[job.old] /\ tip # job.old /\ job.old \in Block
  BY <1>1 DEF ChainInv, Typed, Phased, Switching, Failing, Placed, At, Rival, Filed
<1>3. child \in Block \ {Genesis} /\ parent[child] = tip
  BY <1>2, TowardChild
<1>4. /\ Connect(child)
      /\ job' = [job EXCEPT !.phase = IF child = job.old THEN "mark" ELSE "redo"]
  BY <1>1, <1>2, RedoConnects DEF Refuse
<1> HIDE DEF child
<1>5. PoolApart' /\ InvalidBlocksAreInvalid' /\ \A t : Avail(t) => Avail(t)'
  BY <1>3, <1>4, ConnectFiled
<1>6. UNCHANGED <<batch, invalid>>
  BY <1>4 DEF Connect
<1>7. /\ job'.new = job.new /\ job'.old = job.old /\ job'.fork = job.fork /\ job'.bad = job.bad
      /\ job'.phase \in {"mark", "redo"}
  BY <1>2, <1>4 DEF JobType
<1>8. Switching' /\ BadFound' /\ InvalidApart'
  BY <1>1, <1>2, <1>6, <1>7 DEF Filed, Switching, BadFound, InvalidApart, Failing, GoodAt
<1> QED
  BY <1>1, <1>2, <1>5, <1>6, <1>7, <1>8, SwitchFiled

\* Park: the two branches change places.
LEMMA ParkFiled ==
  ASSUME ChainInv, ChainInv', Filed, Park
  PROVE  Filed'
<1>1. /\ job.phase = "park" /\ alt' = (alt \cup Branch(job.old)) \ Branch(job.new) /\ job' = Done
      /\ UNCHANGED <<tip, pool, batch, invalid, found>>
  BY DEF Park, At
<1>2. /\ job \in JobType /\ Switching /\ ~Failing /\ batch = "open" /\ tip = job.new
  BY <1>1 DEF ChainInv, Typed, Switching, Failing, Phased, Placed, At
<1>3. /\ job.old \in Block /\ job.new \in Block /\ Valid(job.old)
      /\ job.fork \in path[job.old] /\ job.fork \in path[job.new]
  BY <1>2 DEF ChainInv, Rival
<1>4. path[job.old] \cap alt = {}
  BY <1>2 DEF Filed, AltApart
<1>5. path[tip'] \cap alt' = {}
  <2>1. path[job.fork] \subseteq path[job.old]
    BY <1>3, PathTrans
  <2> QED
    BY <1>1, <1>2, <1>4, <2>1 DEF Branch
<1>6. invalid' \cap alt' = {}
  <2>1. invalid \cap alt = {}
    BY <1>2 DEF Filed, InvalidApart
  <2>2. invalid \cap path[job.old] = {}
    BY <1>3, ValidMonotone DEF Filed, InvalidBlocksAreInvalid
  <2> QED
    BY <1>1, <2>1, <2>2 DEF Branch
<1>7. \A t : Avail(t) => Avail(t)'
  BY <1>1 DEF Avail
<1>8. job'.phase \in {"none", "end"}
  BY <1>1, <1>2, DoneJob
<1>9. Supplied'
  <2>1. \A a \in path[job.old] : \A t \in Txs(a) : Avail(t)
    <3>1. \A t \in MinedBy(job.old) : Avail(t)
      BY <1>2 DEF ChainInv, Kept, Safe, Avail
    <3> QED
      BY <3>1 DEF MinedBy
  <2>2. \A a \in alt' : \A t \in Txs(a) : Avail(t)
    BY <1>1, <2>1 DEF Branch, Filed, Supplied
  <2> QED
    BY <1>1, <1>7, <1>8, <2>2 DEF Filed, Supplied, At
<1>10. PoolApart' /\ InvalidBlocksAreInvalid' /\ batch' # "failed"
  BY <1>1 DEF Filed, PoolApart, InvalidBlocksAreInvalid
<1>11. ~Switching'
  BY <1>8 DEF Switching
<1> QED
  BY <1>5, <1>6, <1>9, <1>10, <1>11, RestFiled

\* The blocks a failed switch condemns are the bad one and those that build on it.
LEMMA CondemnedOnBad ==
  ASSUME job.new \in Block, job.bad \in path[job.new] \ {Genesis}
  PROVE  /\ job.bad \in Block \ {Genesis} /\ job.new \in Condemned /\ job.bad \in Condemned
         /\ \A b \in Condemned : b \in Block /\ job.bad \in path[b]
<1>1. job.bad \in Block \ {Genesis} /\ path[job.bad] \subseteq path[job.new]
  BY PathTrans
<1>2. /\ job.bad \notin path[parent[job.bad]] /\ path[job.bad] = path[parent[job.bad]] \cup {job.bad}
      /\ parent[job.bad] \in Block
  BY <1>1, PathParent
<1>3. job.new \notin path[parent[job.bad]]
  BY <1>1, <1>2, PathTrans
<1>4. job.new \in path[job.new] /\ path[job.new] \subseteq Block
  BY PathEnds
<1>5. ASSUME NEW b \in Condemned PROVE b \in Block /\ job.bad \in path[b]
  <2>1. b \in path[job.new] /\ b \notin path[parent[job.bad]] /\ b \in Block
    BY <1>4 DEF Condemned
  <2>2. job.bad \in path[b] \/ b \in path[job.bad]
    BY <2>1, PathLinear
  <2> QED
    BY <1>1, <1>2, <2>1, <2>2, PathEnds
<1> QED
  BY <1>1, <1>2, <1>3, <1>4, <1>5 DEF Condemned

\* Mark: what is condemned breaks the rules, and stops being an alternative.
LEMMA MarkFiled ==
  ASSUME ChainInv, ChainInv', Filed, Mark
  PROVE  Filed'
<1>1. /\ job.phase = "mark" /\ alt' = alt \ Condemned /\ invalid' = invalid \cup Condemned
      /\ job' = [job EXCEPT !.phase = "end"] /\ UNCHANGED <<tip, pool, batch, found>>
  BY DEF Mark, At
<1>2. /\ job \in JobType /\ Switching /\ Failing /\ batch = "open" /\ tip = job.old
  BY <1>1 DEF ChainInv, Typed, Switching, Failing, Phased, Placed, At, Filed
<1>3. job.new \in Block /\ job.bad \in path[job.new] \ {Genesis} /\ ~GoodAt(job.bad)
  BY <1>2 DEF ChainInv, Rival, Filed, BadFound
<1>4. /\ job.bad \in Block \ {Genesis} /\ job.bad \in Condemned
      /\ \A b \in Condemned : b \in Block /\ job.bad \in path[b]
  BY <1>3, CondemnedOnBad
<1>5. \A b \in Condemned : ~Valid(b)
  BY <1>3, <1>4 DEF Valid
<1>6. InvalidBlocksAreInvalid'
  BY <1>1, <1>5 DEF Filed, InvalidBlocksAreInvalid
<1>7. invalid' \cap alt' = {}
  BY <1>1, <1>4 DEF Filed, InvalidApart
<1>8. path[tip'] \cap alt' = {}
  BY <1>1, <1>2 DEF Filed, AltApart
<1>9. job'.phase = "end"
  BY <1>1, <1>2, DoneJob
<1>10. \A t : Avail(t) => Avail(t)'
  BY <1>1 DEF Avail
<1>11. Supplied' /\ ~Switching' /\ PoolApart' /\ batch' # "failed"
  BY <1>1, <1>9, <1>10 DEF Filed, Supplied, PoolApart, Switching, At
<1> QED
  BY <1>6, <1>7, <1>8, <1>11, RestFiled

\* A restart forgets alternatives and invalid blocks, and drops mined transactions.
LEMMA RestartFiled ==
  ASSUME ChainInv', Restart
  PROVE  Filed'
<1>1. /\ alt' = {} /\ invalid' = {} /\ job' = NoJob /\ batch' = "idle" /\ found' = NoBlock
      /\ DOMAIN pool' \cap MinedBy(tip') = {}
  <2>1. PICK p : pool' = Without(p, MinedBy(tip'))
    BY DEF Restart
  <2>2. DOMAIN pool' = DOMAIN p \ MinedBy(tip')
    BY <2>1, WithoutTable
  <2> QED
    BY <2>2 DEF Restart
<1>2. MinedBy(tip)' = MinedBy(tip')
  BY DEF MinedBy
<1>3. job'.phase = "none"
  BY <1>1 DEF NoJob
<1>4. InvalidBlocksAreInvalid' /\ PoolApart' /\ Supplied' /\ ~Switching'
  BY <1>1, <1>2, <1>3, NoBlockAssumption
  DEF InvalidBlocksAreInvalid, PoolApart, Supplied, Switching, At
<1> QED
  BY <1>1, <1>4, RestFiled

\* pop_blocks.
LEMMA PopBlocksFiled ==
  ASSUME ChainInv, ChainInv', Filed, PopBlocks
  PROVE  Filed'
<1>1. batch = "idle" /\ Pop /\ UNCHANGED <<alt, invalid, job, batch, found>>
  BY DEF PopBlocks
<1>2. tip \in Block /\ job.phase = "none"
  BY <1>1 DEF ChainInv, Typed, Phased
<1>3. path[tip] = path[tip'] \cup {tip}
  BY <1>1, <1>2, PopEffect
<1>4. PoolApart' /\ InvalidBlocksAreInvalid' /\ \A t : Avail(t) => Avail(t)'
  BY <1>1, PopFiled
<1>5. ~Switching /\ ~Switching' /\ ~Failing
  BY <1>1, <1>2 DEF Switching, Failing
<1>6. Supplied'
  BY <1>1, <1>4 DEF Filed, Supplied, At
<1> QED
  BY <1>1, <1>3, <1>4, <1>5, <1>6, RestFiled DEF Filed, AltApart, InvalidApart

\* What adds to the pool, or looks through it, between two batches.
LEMMA BesideFiled ==
  ASSUME ChainInv, ChainInv', Filed,
         \/ \E t \in TxId : \E m \in Methods \ {"block"} : Submit(t, m)
         \/ CreateBlockTemplate
  PROVE  Filed'
<1>1. UNCHANGED <<tip, alt, invalid, job, batch, found>> /\ batch = "idle"
  BY DEF Submit, CreateBlockTemplate
<1>2. Mined = MinedBy(tip)
  BY DEF ChainInv, Clean, Filed, Mined
<1>3. DOMAIN pool \subseteq DOMAIN pool' /\ (DOMAIN pool' \ DOMAIN pool) \cap MinedBy(tip) = {}
  <2>1. CASE CreateBlockTemplate
    BY <2>1 DEF CreateBlockTemplate
  <2>2. ASSUME NEW t \in TxId, NEW m \in Methods, Submit(t, m)
        PROVE  DOMAIN pool' = DOMAIN pool \cup {t} /\ t \notin MinedBy(tip)
    BY <1>2, <2>2 DEF Submit, Put
  <2> QED
    BY <2>1, <2>2
<1>4. MinedBy(tip)' = MinedBy(tip)
  BY <1>1 DEF MinedBy
<1>5. PoolApart' /\ \A t : Avail(t) => Avail(t)'
  BY <1>3, <1>4 DEF Filed, PoolApart, Avail
<1>6. ~Switching /\ ~Switching'
  BY <1>1 DEF Switching, ChainInv, Phased
<1>7. Supplied' /\ batch' # "failed"
  BY <1>1, <1>5 DEF Filed, Supplied, At
<1> QED
  BY <1>1, <1>5, <1>6, <1>7, AsideFiled

\* Every step files the blocks.
LEMMA NextFiled ==
  ASSUME NoClash, "drop" \notin Env, ChainInv, ChainInv', Filed, [Next]_vars
  PROVE  Filed'
<1>1. ASSUME NEW t \in TxId, Drop(t) PROVE FALSE
  BY <1>1 DEF Drop
<1>2. CASE UNCHANGED vars
  BY <1>2 DEF vars, Filed, InvalidBlocksAreInvalid, PoolApart, Supplied, AltApart, BadFound, InvalidApart,
              Failing, Switching, Avail, At, Branch, GoodAt
<1> QED
  BY <1>1, <1>2, ReceiveFiled, PassFiled, ExtendFiled, StoreFiled, SwitchPopFiled, SwitchConnectFiled,
     RedoFiled, ParkFiled, MarkFiled, RestartFiled, PopBlocksFiled, BesideFiled DEF Next

\* When no block spends a key image twice and nothing is dropped from the pool, each block
\* the node knows is in one of the main chain, the alternatives and m_invalid_blocks, the
\* latter holds only blocks that break the rules, and what is pending is not mined.
THEOREM BlocksAreFiled ==
  ASSUME NoClash, "drop" \notin Env
  PROVE  Spec => []BlocksFiled
<1>1. Init => Filed
  <2> SUFFICES ASSUME Init PROVE Filed
    OBVIOUS
  <2>1. /\ alt = {} /\ invalid = {} /\ job.phase = "none" /\ batch = "idle" /\ found = NoBlock
        /\ DOMAIN pool = {}
    BY DEF Init, NoJob, EmptyTable
  <2> QED
    BY <2>1, NoBlockAssumption
    DEF Filed, InvalidBlocksAreInvalid, PoolApart, Supplied, AltApart, BadFound, InvalidApart,
        Failing, Switching, At
<1>2. ChainInv /\ Filed => BlocksFiled
  <2> SUFFICES ASSUME ChainInv, Filed, job.phase \in {"none", "end"} PROVE Apart
    BY DEF BlocksFiled, Filed, Apart
  <2>1. ~Switching /\ ~Failing
    BY DEF Switching, Failing
  <2>2. path[tip] \cap alt = {} /\ alt \cap invalid = {} /\ DOMAIN pool \cap MinedBy(tip) = {}
    BY <2>1 DEF Filed, AltApart, InvalidApart, PoolApart
  <2>3. path[tip] \cap invalid = {}
    BY ValidMonotone DEF ChainInv, Typed, ChainValid, Filed, InvalidBlocksAreInvalid
  <2> QED
    BY <2>2, <2>3 DEF Apart
<1>3. ChainInv /\ ChainInv' /\ Filed /\ [Next]_vars => Filed'
  BY NextFiled
<1> QED
  BY <1>1, <1>2, <1>3, ChainInvariant, PTL DEF Spec

-----------------------------------------------------------------------------
(* When, besides, no block is popped by hand, a branch is compared with    *)
(* the main chain often enough.                                            *)

\* No alternative has more work than the main chain, or than the chain a switch leaves,
\* except the block for which the switch is made.
Heaviest ==
  /\ batch # "failed"
  /\ ~Switching => \A a \in alt : work[a] <= work[tip]
  /\ Switching => \A a \in alt \ {job.new} : work[a] <= work[job.old]
  /\ Failing => job.bad \in path[job.new] \ {Genesis}

\* Steps outside a switch that add no alternative and leave the tip or go on from it.
LEMMA RestHeaviest ==
  ASSUME ChainInv, ChainInv', Heaviest, ~Switching, ~Switching', batch' # "failed", alt' \subseteq alt,
         tip' = tip \/ work[tip'] > work[tip]
  PROVE  Heaviest'
<1>1. tip \in Block /\ tip' \in Block /\ alt \in SUBSET Block
  BY DEF ChainInv, Typed
<1>2. \A b \in Block : work[b] \in Nat
  BY WorkAssumption
<1>3. \A a \in alt' : work[a] <= work[tip']
  BY <1>1, <1>2 DEF Heaviest
<1>4. ~Failing'
  BY DEF Failing, Switching
<1> QED
  BY <1>3, <1>4 DEF Heaviest

\* Steps that stay in a switch.
LEMMA SwitchHeaviest ==
  ASSUME Heaviest, Switching, Switching', UNCHANGED <<alt, batch>>,
         job'.new = job.new, job'.old = job.old,
         Failing' => job'.bad \in path[job.new] \ {Genesis}
  PROVE  Heaviest'
  BY DEF Heaviest

\* Extend.
LEMMA ExtendHeaviest ==
  ASSUME NoClash, ChainInv, ChainInv', Heaviest, Extend
  PROVE  Heaviest'
<1> DEFINE b == job.new
<1>1. /\ job.phase = "block" /\ ~HaveBlock(b) /\ parent[b] = tip /\ alt' = alt
      /\ \/ Connect(b) /\ job' = Done
         \/ Refuse(b) /\ job' = [job EXCEPT !.phase = "end"]
  BY DEF Extend, At
<1>2. tip \in Block /\ b \in Block /\ job \in JobType
  BY <1>1 DEF ChainInv, Typed, Placed, At
<1>3. b \in Block \ {Genesis}
  BY <1>1, <1>2, NewIsNotGenesis
<1>4. ~Switching /\ ~Switching'
  BY <1>1, <1>2, DoneJob DEF Switching
<1>5. batch' = batch /\ (tip' = tip \/ work[tip'] > work[tip])
  <2>1. work[b] > work[tip] /\ ~Throws(b)
    BY <1>1, <1>3, WorkAssumption DEF Throws, NoClash
  <2> HIDE DEF b
  <2> QED
    BY <1>1, <2>1 DEF Connect, Refuse
<1> QED
  BY <1>1, <1>4, <1>5, RestHeaviest DEF Heaviest

\* StoreAlternative: a new alternative with more work starts a switch.
LEMMA StoreHeaviest ==
  ASSUME ChainInv, ChainInv', Heaviest, StoreAlternative
  PROVE  Heaviest'
<1> DEFINE b == job.new
<1>1. /\ job.phase = "block" /\ alt' = alt \cup {b} /\ UNCHANGED <<tip, batch>>
      /\ job' = IF Heavier(b) THEN [job EXCEPT !.phase = "pop", !.fork = Fork(b), !.old = tip] ELSE Done
  BY DEF StoreAlternative, At
<1>2. tip \in Block /\ b \in Block /\ job \in JobType
  BY <1>1 DEF ChainInv, Typed, Placed, At
<1>3. work[tip] \in Nat /\ work[b] \in Nat
  BY <1>2, WorkAssumption
<1>4. ~Switching
  BY <1>1 DEF Switching
<1> HIDE DEF b
<1>5. CASE ~Heavier(b)
  <2>1. ~Switching' /\ ~Failing'
    BY <1>1, <1>2, <1>5, DoneJob DEF Switching, Failing
  <2> QED
    BY <1>1, <1>3, <1>4, <1>5, <2>1 DEF Heaviest, Heavier
<1>6. CASE Heavier(b)
  <2>1. job'.phase = "pop" /\ job'.new = b /\ job'.old = tip
    BY <1>1, <1>2, <1>6 DEF JobType, b
  <2> QED
    BY <1>1, <1>4, <2>1 DEF Heaviest, Switching, Failing
<1> QED
  BY <1>5, <1>6

\* SwitchPop, SwitchConnect, UndoPop and Redo.
LEMMA WithinHeaviest ==
  ASSUME NoClash, ChainInv, Heaviest, SwitchPop \/ SwitchConnect \/ UndoPop \/ Redo
  PROVE  Heaviest'
<1>1. job \in JobType /\ tip \in Block
  BY DEF ChainInv, Typed
<1>2. ASSUME NEW b \in Block, Connect(b) \/ Refuse(b) PROVE batch' = batch
  BY <1>2 DEF Connect, Refuse, Throws, NoClash
<1>3. CASE SwitchPop \/ UndoPop
  <2>1. /\ job.phase \in {"pop", "undo"} /\ UNCHANGED <<alt, batch>>
        /\ \E p \in {"pop", "connect", "undo", "redo"} :
             job' = [job EXCEPT !.phase = p] /\ (p \in {"undo", "redo"} <=> job.phase = "undo")
    BY <1>3 DEF SwitchPop, UndoPop, At
  <2>2. /\ job'.new = job.new /\ job'.old = job.old /\ job'.bad = job.bad
        /\ job'.phase \in {"pop", "connect", "undo", "redo"}
        /\ job'.phase \in {"undo", "redo"} <=> job.phase = "undo"
    BY <1>1, <2>1 DEF JobType
  <2>3. Switching /\ Switching' /\ (Failing' => Failing)
    BY <2>1, <2>2 DEF Switching, Failing
  <2> QED
    BY <2>1, <2>2, <2>3, SwitchHeaviest DEF Heaviest
<1>4. CASE SwitchConnect
  <2> DEFINE child == Toward(job.new)
  <2>1. /\ job.phase = "connect" /\ alt' = alt
        /\ Connect(child) \/ Refuse(child)
        /\ \/ \E p \in {"park", "connect"} : job' = [job EXCEPT !.phase = p]
           \/ \E p \in {"redo", "undo"} : job' = [job EXCEPT !.phase = p, !.bad = child]
    BY <1>4 DEF SwitchConnect, At
  <2>2. tip \in path[job.new] /\ tip # job.new /\ job.new \in Block /\ Switching
    BY <2>1 DEF ChainInv, Switching, Placed, At, Rival
  <2>3. child \in path[job.new] /\ child \in Block \ {Genesis}
    BY <2>2, TowardChild
  <2> HIDE DEF child
  <2>4. /\ job'.new = job.new /\ job'.old = job.old
        /\ job'.phase \in {"park", "connect"} \/ (job'.phase \in {"redo", "undo"} /\ job'.bad = child)
    BY <1>1, <2>1 DEF JobType
  <2>5. Switching' /\ (Failing' => job'.bad = child)
    BY <2>4 DEF Switching, Failing
  <2>6. batch' = batch
    BY <1>2, <2>1, <2>3
  <2> QED
    BY <2>1, <2>2, <2>3, <2>4, <2>5, <2>6, SwitchHeaviest
<1>5. CASE Redo
  <2> DEFINE child == Toward(job.old)
  <2>1. /\ job.phase = "redo" /\ alt' = alt
        /\ Connect(child) \/ Refuse(child)
        /\ \E p \in {"mark", "redo"} : job' = [job EXCEPT !.phase = p]
    BY <1>5 DEF Redo, At
  <2>2. tip \in path[job.old] /\ tip # job.old /\ job.old \in Block /\ Switching /\ Failing
    BY <2>1 DEF ChainInv, Switching, Failing, Placed, At, Rival
  <2>3. child \in Block
    BY <2>2, TowardChild
  <2> HIDE DEF child
  <2>4. /\ job'.new = job.new /\ job'.old = job.old /\ job'.bad = job.bad
        /\ job'.phase \in {"mark", "redo"}
    BY <1>1, <2>1 DEF JobType
  <2>5. Switching'
    BY <2>4 DEF Switching
  <2>6. batch' = batch
    BY <1>2, <2>1, <2>3
  <2> QED
    BY <2>1, <2>2, <2>4, <2>5, <2>6, SwitchHeaviest DEF Heaviest
<1> QED
  BY <1>3, <1>4, <1>5

\* Park and Mark: the block for which the switch was made is the tip, or condemned.
LEMMA SettleHeaviest ==
  ASSUME ChainInv, ChainInv', Heaviest, Park \/ Mark
  PROVE  Heaviest'
<1>1. job.phase \in {"park", "mark"} /\ UNCHANGED <<tip, batch>>
  BY DEF Park, Mark, At
<1>2. Switching /\ job \in JobType /\ tip \in Block /\ batch = "open" /\ alt \in SUBSET Block
  BY <1>1 DEF Switching, ChainInv, Typed, Phased, Heaviest
<1>3. /\ job.new \in Block /\ job.old \in Block /\ work[job.new] > work[job.old]
      /\ \A a \in alt \ {job.new} : work[a] <= work[job.old]
  BY <1>2 DEF ChainInv, Rival, Heaviest
<1>4. \A b \in Block : work[b] \in Nat
  BY WorkAssumption
<1>5. ~Switching' /\ ~Failing'
  BY <1>2, DoneJob DEF Park, Mark, Switching, Failing
<1>6. \A a \in alt' : work[a] <= work[tip]
  <2>1. CASE Park
    <3>1. tip = job.new
      BY <2>1 DEF Park, At, ChainInv, Placed
    <3>2. alt' \subseteq alt \cup Branch(job.old) /\ \A a \in Branch(job.old) : work[a] <= work[tip]
      BY <2>1 DEF Park
    <3>3. \A a \in alt : work[a] <= work[tip]
      BY <1>2, <1>3, <1>4, <3>1
    <3> QED
      BY <3>2, <3>3
  <2>2. CASE Mark
    <3>1. tip = job.old /\ Failing
      BY <1>2, <2>2 DEF Mark, At, ChainInv, Placed, Failing
    <3>2. job.new \in Condemned
      BY <1>3, <3>1, CondemnedOnBad DEF Heaviest
    <3>3. alt' \subseteq alt \ {job.new}
      BY <2>2, <3>2 DEF Mark
    <3> QED
      BY <1>3, <3>1, <3>3
  <2> QED
    BY <2>1, <2>2
<1> QED
  BY <1>1, <1>2, <1>5, <1>6 DEF Heaviest

\* The steps that leave tip and alternatives alone, and the restart, which forgets the latter.
LEMMA AsideHeaviest ==
  ASSUME ChainInv, ChainInv', Heaviest,
         \/ \E b \in Block : Receive(b) \/ Found(b)
         \/ HandleFound \/ Ignore \/ RejectAlternative \/ EndBatch \/ Restart
         \/ \E t \in TxId : \E m \in Methods \ {"block"} : Submit(t, m)
         \/ \E t \in TxId : Drop(t)
         \/ FlushInvalid \/ CreateBlockTemplate \/ UNCHANGED vars
  PROVE  Heaviest'
<1>1. job \in JobType
  BY DEF ChainInv, Typed
<1>2. CASE Restart
  <2>1. alt' = {} /\ batch' = "idle" /\ job'.phase = "none"
    BY <1>2 DEF Restart, NoJob
  <2> QED
    BY <2>1 DEF Heaviest, Switching, Failing
<1>3. CASE (\E t \in TxId : Drop(t)) \/ UNCHANGED vars
  <2>1. UNCHANGED <<tip, alt, batch, job>>
    BY <1>3 DEF Drop, vars
  <2> QED
    BY <2>1 DEF Heaviest, Switching, Failing
<1>4. CASE \/ \E b \in Block : Receive(b) \/ Found(b)
           \/ HandleFound \/ Ignore \/ RejectAlternative \/ EndBatch
           \/ \E t \in TxId : \E m \in Methods \ {"block"} : Submit(t, m)
           \/ FlushInvalid \/ CreateBlockTemplate
  <2>1. UNCHANGED <<tip, alt>> /\ batch' # "failed"
    BY <1>4 DEF Heaviest, Receive, Found, HandleFound, OpenBatch, Ignore, RejectAlternative, EndBatch,
                Submit, FlushInvalid, CreateBlockTemplate
  <2>2. job.phase \in {"none", "block", "end"}
    BY <1>4 DEF ChainInv, Phased, At, Ready, Receive, Found, HandleFound, Ignore, RejectAlternative,
                EndBatch, Submit, FlushInvalid, CreateBlockTemplate
  <2>3. job'.phase \in {"none", "block", "end"}
    <3>1. ASSUME (\E b \in Block : Receive(b)) \/ HandleFound \/ EndBatch
          PROVE  job'.phase \in {"none", "block"}
      <4>1. ASSUME NEW b, Receive(b) PROVE job'.phase = "block"
        BY <4>1 DEF Receive, NoJob
      <4>2. HandleFound => job'.phase = "block"
        BY DEF HandleFound, NoJob
      <4>3. EndBatch => job'.phase = "none"
        BY DEF EndBatch, NoJob
      <4> QED
        BY <3>1, <4>1, <4>2, <4>3
    <3>2. CASE Ignore \/ RejectAlternative
      BY <1>1, <3>2, DoneJob DEF Ignore, RejectAlternative
    <3>3. CASE job' = job
      BY <2>2, <3>3
    <3> QED
      BY <1>4, <3>1, <3>2, <3>3 DEF Found, Submit, FlushInvalid, CreateBlockTemplate
  <2>4. ~Switching /\ ~Switching'
    BY <2>2, <2>3 DEF Switching
  <2> QED
    BY <2>1, <2>4, RestHeaviest
<1> QED
  BY <1>2, <1>3, <1>4

\* When no block spends a key image twice and no block is popped by hand, no stored
\* alternative has more work than the main chain once a block is dealt with, although
\* handle_alternative_block compares a branch only when a block is added to it.
THEOREM HeaviestIsKnown ==
  ASSUME NoClash, "pop" \notin Env
  PROVE  Spec => []HeaviestKnown
<1>1. Init => Heaviest
  <2>1. Init => alt = {} /\ batch = "idle" /\ job.phase = "none"
    BY DEF Init, NoJob
  <2> QED
    BY <2>1 DEF Heaviest, Switching, Failing
<1>2. Heaviest => HeaviestKnown
  BY DEF Heaviest, HeaviestKnown, Switching
<1>3. ChainInv /\ ChainInv' /\ Heaviest /\ [Next]_vars => Heaviest'
  <2> SUFFICES ASSUME ChainInv, ChainInv', Heaviest, [Next]_vars PROVE Heaviest'
    OBVIOUS
  <2>1. ~PopBlocks
    BY DEF PopBlocks
  <2> QED
    BY <2>1, ExtendHeaviest, StoreHeaviest, WithinHeaviest, SettleHeaviest, AsideHeaviest DEF Next
<1> QED
  BY <1>1, <1>2, <1>3, ChainInvariant, PTL DEF Spec

=============================================================================
