------------------------------ MODULE Queries ------------------------------
(***************************************************************************)
(* What a node answers about itself: the reading functions of Blockchain,  *)
(* core and tx_memory_pool that the RPC server and the block requests of   *)
(* peers call.  A node n is a record with its main chain, its alternative  *)
(* blocks and its pool; each operator below is one locked call, so it      *)
(* reads one state of the node.                                            *)
(*                                                                         *)
(* A block is a name; Prev, Body, Coinbase and Work give its contents.     *)
(***************************************************************************)
EXTENDS Integers, Sequences, SequencesExt, FiniteSetsExt, Functions, TLC

CONSTANTS
    Genesis,       \* the first block of every chain
    Prev,          \* block -> the block before it
    Body,          \* block -> its transactions other than the coinbase
    Coinbase,      \* block -> its coinbase transaction
    Work,          \* block -> its difficulty
    Reward,        \* block -> the sum of its coinbase's outputs
    Fee,           \* transaction -> fee
    Images,        \* transaction -> the key images it spends
    Outs,          \* transaction -> the number of its outputs
    MaxBlocks,     \* COMMAND_RPC_GET_BLOCKS_FAST_MAX_COUNT
    MaxIds,        \* BLOCKS_IDS_SYNCHRONIZING_DEFAULT_COUNT
    Unlock,        \* transaction -> the height that its outputs are locked to
    SpendableAge,  \* CRYPTONOTE_DEFAULT_TX_SPENDABLE_AGE
    Matching,      \* host -> the subnets it belongs to
    Blockable      \* the hosts that may be banned

\* crypto::null_hash, and the id that a text which is no hash parses to.
NullHash == "null"

\* An answer that is absent: the call returned false.
Refused == [refused |-> TRUE]
IsRefused(r) == "refused" \in DOMAIN r

\* A stored chain is read by height, the genesis block having height 0.
Height(n) == Len(n.chain)
Top(n) == Last(n.chain)
At(n, h) == n.chain[h + 1]
InChain(n, b) == \E h \in 0..(Height(n) - 1) : At(n, h) = b
HeightOf(n, b) == CHOOSE h \in 0..(Height(n) - 1) : At(n, h) = b
BlockTxs(b) == <<Coinbase[b]>> \o Body[b]

\* The transactions of the chain in the order of their ids.
ChainTxs(n) == FlattenSeq([i \in 1..Height(n) |-> BlockTxs(n.chain[i])])
HaveTx(n, t) == t \in ToSet(ChainTxs(n))
TxBlockHeight(n, t) ==
    CHOOSE h \in 0..(Height(n) - 1) : t \in ToSet(BlockTxs(At(n, h)))

-----------------------------------------------------------------------------
\* Blocks

GetBlockIdByHeight(n, h) == IF h < Height(n) THEN At(n, h) ELSE NullHash

\* The main chain first, then the alternative blocks.
GetBlockByHash(n, b) ==
    CASE InChain(n, b)  -> [block |-> b, orphan |-> FALSE]
      [] b \in n.alt    -> [block |-> b, orphan |-> TRUE]
      [] OTHER          -> Refused

SumWork(bs) == FoldSeq(LAMBDA b, s : s + Work[b], 0, bs)
CumulativeDifficulty(n, h) == SumWork(SubSeq(n.chain, 1, h + 1))

\* block_difficulty catches BLOCK_DNE and answers 0.
BlockDifficulty(n, h) == IF h < Height(n) THEN Work[At(n, h)] ELSE 0

\* The offsets from the end that are listed: eleven single steps, then steps
\* that double.
RECURSIVE BackOffsets(_, _, _, _)
BackOffsets(sz, offset, i, step) ==
    IF offset >= sz THEN <<>>
    ELSE <<offset>> \o
         IF i < 10 THEN BackOffsets(sz, offset + 1, i + 1, step)
                   ELSE BackOffsets(sz, offset + 2 * step, i + 1, 2 * step)

GetShortChainHistory(n) ==
    LET back == BackOffsets(Height(n), 1, 0, 1)
    IN [i \in 1..Len(back) |-> At(n, Height(n) - back[i])] \o <<At(n, 0)>>

\* The height of the first listed block that the node has.
FindSplit(n, ids) ==
    IF ids = <<>> \/ Last(ids) # At(n, 0) THEN Refused
    ELSE LET known == {i \in DOMAIN ids : InChain(n, ids[i])}
         IN [height |-> HeightOf(n, ids[Min(known)])]

BlocksFrom(n, h, count) == SubSeq(n.chain, h + 1, Min({Height(n), h + count}))

\* The three forms of find_blockchain_supplement.
SupplementIds(n, ids) ==
    LET s == FindSplit(n, ids)
    IN IF IsRefused(s) THEN Refused
       ELSE [start |-> s.height, total |-> Height(n),
             ids |-> BlocksFrom(n, s.height, MaxIds)]

ChainEntry(n, ids) ==
    LET s == SupplementIds(n, ids)
    IN IF IsRefused(s) THEN Refused
       ELSE s @@ [work |-> CumulativeDifficulty(n, s.total - 1)]

SupplementBlocks(n, from, ids, count) ==
    LET s == IF from > 0
             THEN IF from >= Height(n) THEN Refused ELSE [height |-> from]
             ELSE FindSplit(n, ids)
    IN IF IsRefused(s) THEN Refused
       ELSE [start |-> s.height, total |-> Height(n),
             blocks |-> BlocksFrom(n, s.height, count)]

-----------------------------------------------------------------------------
\* Transactions and outputs

\* get_split_transactions_blobs and get_transactions_blobs: found and missed,
\* each in the order of the request.
GetTransactions(n, ids) ==
    [found  |-> SelectSeq(ids, LAMBDA t : HaveTx(n, t)),
     missed |-> SelectSeq(ids, LAMBDA t : ~HaveTx(n, t))]

\* Transactions are numbered in chain order, and so are their outputs.
TxIndex(n, t) == CHOOSE i \in DOMAIN ChainTxs(n) : ChainTxs(n)[i] = t
OutsBefore(n, i) == FoldSeq(LAMBDA t, s : s + Outs[t], 0, SubSeq(ChainTxs(n), 1, i - 1))
IndicesAt(n, i) ==
    [j \in 1..Outs[ChainTxs(n)[i]] |-> OutsBefore(n, i) + j - 1]

\* get_tx_outputs_gindexs: the output indices of count transactions from t on.
OutputIndices(n, t, count) ==
    IF ~HaveTx(n, t) THEN Refused
    ELSE LET i == TxIndex(n, t)
         IN IF i + count - 1 > Len(ChainTxs(n)) THEN Refused
            ELSE [indices |-> [k \in 1..count |-> IndicesAt(n, i + k - 1)]]

NumOutputs(n) == OutsBefore(n, Len(ChainTxs(n)) + 1)
OutputOwner(n, x) ==
    CHOOSE t \in ToSet(ChainTxs(n)) : x \in ToSet(IndicesAt(n, TxIndex(n, t)))
OutputData(n, x) ==
    LET t == OutputOwner(n, x)
    IN [tx |-> t, index |-> x, height |-> TxBlockHeight(n, t),
        unlocked |-> Unlock[t] <= Height(n)]

GetTxOutputs(n, xs) ==
    IF \E i \in DOMAIN xs : xs[i] >= NumOutputs(n) THEN Refused
    ELSE [outs |-> [i \in DOMAIN xs |-> OutputData(n, xs[i])]]

Mature(n, x) == OutputData(n, x).height + SpendableAge <= Height(n)

RctOutputsUpTo(n, h) ==
    FoldSeq(LAMBDA b, s : s + FoldSeq(LAMBDA t, u : u + Outs[t], 0, BlockTxs(b)), 0,
            SubSeq(n.chain, 1, h + 1))

GetOutputSizeHistogram(n, from, to) ==
    IF \/ to > 0 /\ to < from
       \/ from >= Height(n) \/ to >= Height(n)
       \/ to = 0 /\ from > 1    \* the length of the list of heights wraps
    THEN Refused
    ELSE [start |-> from,
          base  |-> IF from > 0 THEN RctOutputsUpTo(n, from - 1) ELSE 0,
          distribution |-> [i \in 1..(to - from + 1) |-> RctOutputsUpTo(n, from + i - 1)]]

HaveKeyImageAsSpent(n, k) == \E t \in ToSet(ChainTxs(n)) : k \in Images[t]

\* get_coinbase_tx_sum over the blocks from start to end, or to the last block.
SumFees(ts) == FoldSeq(LAMBDA t, s : s + Fee[t], 0, ts)
CoinbaseTxSum(n, start, end) ==
    LET bs == SubSeq(n.chain, start + 1, Min({end + 1, Height(n)}))
    IN [emission |-> FoldSeq(LAMBDA b, s : s + Reward[b] - SumFees(Body[b]), 0, bs),
        fees     |-> FoldSeq(LAMBDA b, s : s + SumFees(Body[b]), 0, bs)]

-----------------------------------------------------------------------------
\* The pool: transaction -> how it is to be relayed

Matches(method, category) ==
    CASE category = "all"         -> TRUE
      [] category = "relayable"   -> method # "none"
      [] category = "broadcasted" -> method \in {"block", "fluff"}
      [] category = "legacy"      -> method \in {"block", "fluff", "none"}

PoolTxs(n, category) == {t \in DOMAIN n.pool : Matches(n.pool[t], category)}
Category(sensitive) == IF sensitive THEN "all" ELSE "broadcasted"

\* get_transactions_and_spent_keys_info, one locked call.
PublicPool(n, sensitive) ==
    LET ts == PoolTxs(n, Category(FALSE))
    IN [txs |-> ts, images |-> UNION {Images[t] : t \in ts}]
PoolAndImages(n, sensitive) ==
    LET ts == PoolTxs(n, Category(sensitive))
    IN [txs |-> ts, images |-> UNION {Images[t] : t \in ts}]

GetPoolTransaction(n, t, category) == t \in PoolTxs(n, category)

\* get_complement: what is broadcast and not in the list.
TxPoolComplement(n, known) == PoolTxs(n, "broadcasted") \ known

-----------------------------------------------------------------------------
\* Bans: host or subnet -> the time until which it is banned

Drop(f, S) == Restrict(f, DOMAIN f \ S)

BlockHost(n, host, seconds) ==
    IF host \notin Blockable THEN n
    ELSE [n EXCEPT !.hosts = (host :> (n.now + seconds)) @@ @,
                   !.out = @ \ {host}, !.inc = @ \ {host},
                   !.white = @ \ {host}, !.gray = @ \ {host}]

UnblockHost(n, host) == [n EXCEPT !.hosts = Drop(@, {host})]

InSubnet(subnet) == {host \in DOMAIN Matching : subnet \in Matching[host]}
BlockSubnet(n, subnet, seconds) ==
    [n EXCEPT !.subnets = (subnet :> (n.now + seconds)) @@ @,
              !.out = @ \ InSubnet(subnet), !.inc = @ \ InSubnet(subnet)]
UnblockSubnet(n, subnet) == [n EXCEPT !.subnets = Drop(@, {subnet})]

\* is_remote_host_allowed: the host's own ban first, then the subnets'; expired
\* bans that it meets are forgotten.
Expired(f, now) == {x \in DOMAIN f : now >= f[x]}
BanOf(n, host) ==
    LET matching == (DOMAIN n.subnets \cap Matching[host]) \ Expired(n.subnets, n.now)
    IN IF host \in DOMAIN n.hosts /\ n.now < n.hosts[host] THEN {n.hosts[host]}
       ELSE {n.subnets[s] : s \in matching}
LookUpBan(n, host) ==
    LET own == host \in DOMAIN n.hosts /\ n.now < n.hosts[host]
    IN IF own THEN n
       ELSE [n EXCEPT !.hosts = Drop(@, {host}),
                      !.subnets = Drop(@, Expired(@, n.now))]

-----------------------------------------------------------------------------
\* handle_get_objects: the blocks asked for that are in the main chain.
HandleGetObjects(n, ids) ==
    LET have == SelectSeq(ids, LAMBDA b : InChain(n, b))
    IN [blocks |-> [i \in DOMAIN have |-> [block |-> have[i], txs |-> Body[have[i]]]],
        missed |-> SelectSeq(ids, LAMBDA b : ~InChain(n, b)),
        height |-> Height(n)]

=============================================================================
