----------------------------- MODULE RpcServer -----------------------------
(***************************************************************************)
(* core_rpc_server: the handlers behind the node's HTTP interface.  One    *)
(* thread serves the requests, so there is one call at a time; but a       *)
(* handler holds no lock over its several calls into the core, and the     *)
(* node goes on between them.  Each step of a handler below is one such    *)
(* call; NodeStep is what the other threads do meanwhile.                  *)
(*                                                                         *)
(* call.at is the next thing the handler does, call.l its local variables, *)
(* call.seen the states of the node during the call, in order.             *)
(***************************************************************************)
EXTENDS Queries

CONSTANTS
    InitNodes,    \* the nodes that a behaviour may start with
    Requests,     \* the requests that are sent, as records [m, plain, ...]
    Word,         \* 2^64
    MaxThreads,   \* std::thread::hardware_concurrency() * 4
    MaxEvents,    \* bound on what the node does by itself
    MaxCalls      \* bound on the requests that are sent

VARIABLES node, call, up, events, calls

rpcVars == <<node, call, up, events, calls>>

Wrap(x) == x % Word

Idle == [at |-> "idle"]
Running == call.at \notin {"idle", "done"}

\* A handler's return value with its response: ok is what it returned.
OK(r) == [ok |-> TRUE, status |-> "OK"] @@ r
Says(status) == [ok |-> TRUE, status |-> status]
Fails == [ok |-> FALSE, status |-> ""]

Saw(seen, n) == IF Last(seen) = n THEN seen ELSE Append(seen, n)

Go(at, l) == /\ call' = [call EXCEPT !.at = at, !.l = l]
             /\ UNCHANGED <<node, up, events, calls>>
AnswerWith(n, r) ==
    /\ call' = [call EXCEPT !.at = "done", !.l = <<>>, !.res = r, !.seen = Saw(@, n)]
    /\ node' = n
    /\ UNCHANGED <<up, events, calls>>
Answer(r) == AnswerWith(node, r)

\* process_json_rpc catches what a handler throws; process_json does not, and
\* the exception ends the server's thread and with it the process.
Throw ==
    IF call.plain
    THEN /\ up' = FALSE
         /\ call' = [call EXCEPT !.at = "done", !.l = <<>>, !.res = Fails]
         /\ UNCHANGED <<node, events, calls>>
    ELSE Answer(Fails)

At0(m, at) == call.at = at /\ call.m = m

-----------------------------------------------------------------------------
\* What the other threads of the node do

Replace(n) == /\ node' = n
              /\ call' = IF Running THEN [call EXCEPT !.seen = Saw(@, n)] ELSE call
              /\ events' = events + 1
              /\ UNCHANGED <<up, calls>>

\* A block is added on top, and its transactions leave the pool.
AddBlock(b) ==
    /\ Prev[b] = Top(node) /\ ~InChain(node, b)
    /\ Replace([node EXCEPT !.chain = Append(@, b), !.alt = @ \ {b},
                            !.pool = Drop(@, ToSet(Body[b]))])

\* The top block is removed, and its transactions return to the pool.
RemoveTop ==
    /\ Height(node) > 1
    /\ Replace([node EXCEPT !.chain = Front(@), !.alt = @ \cup {Top(node)},
                            !.pool = @ @@ [t \in ToSet(Body[Top(node)]) |-> "block"]])

TxArrives(t) ==
    /\ ~HaveTx(node, t) /\ t \notin DOMAIN node.pool
    /\ t \notin {Coinbase[b] : b \in DOMAIN Coinbase}
    /\ \A k \in Images[t] : ~HaveKeyImageAsSpent(node, k)
    /\ Replace([node EXCEPT !.pool = (t :> "fluff") @@ @])

TxExpires(t) == t \in DOMAIN node.pool /\ Replace([node EXCEPT !.pool = Drop(@, {t})])
PeerConnects(host) ==
    /\ host \notin node.out \cup node.inc
    /\ \/ Replace([node EXCEPT !.out = @ \cup {host}])
       \/ Replace([node EXCEPT !.inc = @ \cup {host}])
PeerLeaves(host) ==
    /\ host \in node.out \cup node.inc
    /\ Replace([node EXCEPT !.out = @ \ {host}, !.inc = @ \ {host}])
Tick == Replace([node EXCEPT !.now = @ + 1])

NodeStep ==
    /\ up /\ events < MaxEvents
    /\ \/ \E b \in DOMAIN Prev : AddBlock(b)
       \/ RemoveTop
       \/ \E t \in DOMAIN Fee : TxArrives(t) \/ TxExpires(t)
       \/ \E host \in DOMAIN Matching : PeerConnects(host) \/ PeerLeaves(host)
       \/ Tick

-----------------------------------------------------------------------------
\* Handlers that read the state of the node

InfoReads == <<"height", "target", "tx_count", "tx_pool_size", "alt_blocks_count",
               "total_conn", "outgoing", "peers", "cumulative">>
InfoRead(f, l) ==
    CASE f = "height"           -> [height |-> Height(node), top |-> Top(node)]
      [] f = "target"           -> [target |-> IF node.synced THEN 0 ELSE node.target]
      [] f = "tx_count"         -> [tx_count |-> Wrap(Len(ChainTxs(node)) - l.height)]
      [] f = "tx_pool_size"     -> [tx_pool_size |-> Cardinality(PoolTxs(node, "all"))]
      [] f = "alt_blocks_count" -> [alt |-> Cardinality(node.alt)]
      [] f = "total_conn"       -> [total |-> Cardinality(node.out \cup node.inc)]
      [] f = "outgoing"         -> [out |-> Cardinality(node.out),
                                    inc |-> Wrap(l.total - Cardinality(node.out))]
      [] f = "peers"            -> [white |-> Cardinality(node.white),
                                    gray |-> Cardinality(node.gray)]
      [] f = "cumulative"       -> [work |-> CumulativeDifficulty(node, l.height - 1)]

OnGetInfo ==
    \E i \in DOMAIN InfoReads :
        /\ At0("get_info", InfoReads[i])
        /\ IF InfoReads[i] = "cumulative" /\ call.l.height > Height(node) THEN Throw
           ELSE LET l == InfoRead(InfoReads[i], call.l) @@ call.l
                IN IF i = Len(InfoReads) THEN Answer(OK(l)) ELSE Go(InfoReads[i + 1], l)

\* A text that is no hash is read as the null hash.
ParsedIds(ids) == [i \in DOMAIN ids |-> IF ids[i] = "bad" THEN NullHash ELSE ids[i]]

Lookups(b) == IF call.req.no_miner_tx THEN Body[b] ELSE BlockTxs(b)

OnGetBlocks ==
    LET ids == ParsedIds(call.req.ids)
    IN \/ /\ At0("get_blocks", "noop")
          /\ IF ids # <<>> /\ Top(node) = Head(ids) THEN Go("height", <<>>)
                                                     ELSE Go("supplement", <<>>)
       \/ /\ At0("get_blocks", "height")
          /\ Answer(OK([start |-> 0, total |-> Height(node),
                        blocks |-> <<>>, indices |-> <<>>]))
       \/ /\ At0("get_blocks", "supplement")
          /\ LET s == SupplementBlocks(node, call.req.start, ids, MaxBlocks)
             IN IF IsRefused(s) THEN Answer(Fails)
                ELSE Go("indices", [indices |-> <<>>] @@ s)
       \/ /\ At0("get_blocks", "indices")
          /\ LET l == call.l
                 done == Len(l.indices)
                 b == l.blocks[done + 1]
                 ts == Lookups(b)
                 r == IF ts = <<>> THEN [indices |-> <<>>]
                      ELSE OutputIndices(node, Head(ts), Len(ts))
             IN IF done = Len(l.blocks) THEN Answer(OK(l))
                ELSE IF IsRefused(r) THEN Answer(Fails)
                ELSE LET first == IF call.req.no_miner_tx THEN << <<>> >> ELSE <<>>
                     IN Go("indices", [l EXCEPT !.indices = Append(@, first \o r.indices)])

\* The ids that were found are copied only when the call failed.
OnGetHashes ==
    /\ At0("get_hashes", "start")
    /\ LET s == SupplementIds(node, ParsedIds(call.req.ids))
       IN Answer(IF IsRefused(s) THEN Fails
                 ELSE OK([start |-> s.start, total |-> s.total, ids |-> <<>>]))

OnGetTxOutputs ==
    /\ At0("get_tx_outputs", "start")
    /\ LET r == GetTxOutputs(node, call.req.indices)
       IN Answer(IF IsRefused(r) THEN Says("Failed") ELSE OK(r))

\* The transactions found in the pool take their places among those of the chain,
\* in the order of the request.
Merged(ids, found, pooled) == SelectSeq(ids, LAMBDA t : t \in ToSet(found) \cup pooled)

\* The transactions of the chain, then those of the pool for what was missed; then
\* the heights and indices of those in the chain.  The i-th transaction found is
\* given the i-th hash of the request.
NextEntry(l, e) ==
    LET es == Append(l.entries, e)
    IN Go("entry", [l EXCEPT !.entries = es])

OnGetTransactions ==
    LET ids == call.req.ids
        l == call.l
        i == Len(l.entries) + 1
        label == ids[i]
        entry == [label |-> label, data |-> l.txs[i]]
    IN \/ /\ At0("get_transactions", "split")
          /\ IF "bad" \in ToSet(ids) THEN Answer(Says("Failed to parse"))
             ELSE LET r == GetTransactions(node, ids)
                      l0 == [txs |-> r.found, missed |-> r.missed, pooled |-> {},
                             entries |-> <<>>]
                  IN Go(IF r.missed = <<>> THEN "entry" ELSE "pool", l0)
       \/ /\ At0("get_transactions", "pool")
          /\ LET pool == PoolTxs(node, "all") \cap ToSet(l.missed)
             IN Go("entry",
                   [l EXCEPT !.txs = Merged(ids, l.txs, pool),
                             !.missed = SelectSeq(@, LAMBDA t : t \notin pool),
                             !.pooled = pool])
       \/ /\ At0("get_transactions", "entry")
          /\ IF i > Len(l.txs) THEN Answer(OK([entries |-> l.entries, missed |-> l.missed]))
             ELSE IF label \in l.pooled THEN NextEntry(l, [in_pool |-> TRUE] @@ entry)
             ELSE IF ~HaveTx(node, label) THEN Throw
             ELSE Go("stamp", [height |-> TxBlockHeight(node, label)] @@ l)
       \/ /\ At0("get_transactions", "stamp")
          /\ IF l.height >= Height(node) THEN Throw ELSE Go("indices", l)
       \/ /\ At0("get_transactions", "indices")
          /\ LET r == OutputIndices(node, label, 1)
             IN IF IsRefused(r) THEN Answer(Fails)
                ELSE NextEntry(Drop(l, {"height"}),
                               [in_pool |-> FALSE, height |-> l.height,
                                indices |-> r.indices[1]] @@ entry)

\* The chain is asked image by image; then each image spent in the pool marks the
\* first of its places in the request that is still unspent.
OnIsKeyImageSpent ==
    LET ks == call.req.images
        l == call.l
    IN \/ /\ At0("is_output_key_image_spent", "chain")
          /\ IF "bad" \in ToSet(ks) THEN Answer(Says("Failed to parse"))
             ELSE IF Len(l) = Len(ks) THEN Go("pool", l)
             ELSE Go("chain", Append(l, IF HaveKeyImageAsSpent(node, ks[Len(l) + 1])
                                        THEN "in blockchain" ELSE "unspent"))
       \/ /\ At0("is_output_key_image_spent", "pool")
          /\ LET pooled == PoolAndImages(node, TRUE).images
                 first(i) == \A j \in 1..(i - 1) : ks[j] = ks[i] => l[j] # "unspent"
             IN Answer(OK([spent |-> [i \in DOMAIN ks |->
                    IF l[i] = "unspent" /\ ks[i] \in pooled /\ first(i)
                    THEN "in pool" ELSE l[i]]]))

OnGetTransactionPool ==
    \/ /\ At0("get_transaction_pool", "count")
       /\ IF PoolTxs(node, "all") = {}
          THEN Answer(OK([txs |-> {}, images |-> {}]))
          ELSE Go("read", <<>>)
    \/ /\ At0("get_transaction_pool", "read")
       /\ Answer(OK(PoolAndImages(node, TRUE)))

OnGetTransactionPoolHashes ==
    \/ /\ At0("get_transaction_pool_hashes", "count")
       /\ IF PoolTxs(node, "all") = {} THEN Answer(OK([txs |-> {}]))
          ELSE Go("read", <<>>)
    \/ /\ At0("get_transaction_pool_hashes", "read")
       /\ Answer(OK([txs |-> PoolTxs(node, "all")]))

-----------------------------------------------------------------------------
\* Block headers

\* The height that the block's coinbase input records.
RECURSIVE CoinbaseHeight(_)
CoinbaseHeight(b) == IF b = Genesis THEN 0 ELSE CoinbaseHeight(Prev[b]) + 1

FillFrom(b, orphan, height, l) ==
    Go("depth", [block |-> b, orphan |-> orphan, height |-> height] @@ l)

\* fill_block_header_response; the difficulties are those that the main chain has
\* at the height.  Weights are read like the cumulative difficulty.
FillHeader ==
    LET l == call.l
    IN \/ /\ call.at = "depth"
          /\ Go("difficulty", [depth |-> Wrap(Height(node) - l.height - 1)] @@ l)
       \/ /\ call.at = "difficulty"
          /\ Go("cumulative", [difficulty |-> BlockDifficulty(node, l.height)] @@ l)
       \/ /\ call.at = "cumulative" /\ call.m # "get_info"
          /\ IF l.height >= Height(node) THEN Throw
             ELSE Go("weight", [work |-> CumulativeDifficulty(node, l.height)] @@ l)
       \/ /\ call.at = "weight"
          /\ IF l.height >= Height(node) THEN Throw
             ELSE LET h == [num_txes |-> Len(Body[l.block]),
                            reward |-> Reward[l.block]] @@ Drop(l, {"headers"})
                  IN IF call.m = "get_block_header_by_hash"
                     THEN Go("hash", [headers |-> Append(l.headers, h)])
                     ELSE Answer(OK([header |-> h]))

\* The hash of the request is parsed, but the block looked up is that of a local
\* variable that is never assigned.
OnGetBlockHeaderByHash ==
    LET l == call.l
        i == Len(l.headers) + 1
    IN /\ At0("get_block_header_by_hash", "hash")
       /\ IF i > Len(call.req.ids) THEN Answer(OK(l))
          ELSE IF call.req.ids[i] = "bad" THEN Answer(Fails)
          ELSE \E unset \in DOMAIN Body \cup {NullHash} :
                 LET r == GetBlockByHash(node, unset)
                 IN IF IsRefused(r) THEN Answer(Fails)
                    ELSE FillFrom(r.block, r.orphan, CoinbaseHeight(r.block), l)

OnGetBlockHeaderByHeight ==
    \/ /\ At0("get_block_header_by_height", "check")
       /\ IF Height(node) <= call.req.height THEN Answer(Fails) ELSE Go("id", <<>>)
    \/ /\ At0("get_block_header_by_height", "id")
       /\ Go("block", [id |-> GetBlockIdByHeight(node, call.req.height)])
    \/ /\ At0("get_block_header_by_height", "block")
       /\ LET r == GetBlockByHash(node, call.l.id)
          IN IF IsRefused(r) THEN Answer(Fails)
             ELSE FillFrom(r.block, FALSE, call.req.height, <<>>)

OnGetBlock ==
    \/ /\ At0("get_block", "check")
       /\ IF call.req.id # ""
          THEN IF call.req.id = "bad" THEN Answer(Fails)
               ELSE Go("block", [id |-> call.req.id])
          ELSE IF Height(node) <= call.req.height THEN Answer(Fails) ELSE Go("id", <<>>)
    \/ /\ At0("get_block", "id")
       /\ Go("block", [id |-> GetBlockIdByHeight(node, call.req.height)])
    \/ /\ At0("get_block", "block")
       /\ LET r == GetBlockByHash(node, call.l.id)
          IN IF IsRefused(r) THEN Answer(Fails)
             ELSE FillFrom(r.block, r.orphan, CoinbaseHeight(r.block), <<>>)

OnGetCoinbaseTxSum ==
    LET r == call.req
    IN \/ /\ At0("get_coinbase_tx_sum", "check")
          /\ IF r.height >= Height(node) \/ r.count > Height(node)
             THEN Answer(Says("height or count is too large"))
             ELSE Go("end", <<>>)
       \/ /\ At0("get_coinbase_tx_sum", "end")
          /\ Go("sum", IF r.count = 0 THEN Height(node) ELSE r.height + r.count - 1)
       \/ /\ At0("get_coinbase_tx_sum", "sum")
          /\ Answer(OK(CoinbaseTxSum(node, r.height, call.l)))

\* Unless cumulative, each entry less the one before it.
Differences(d, base) ==
    [i \in DOMAIN d |-> Wrap(d[i] - (IF i = 1 THEN base ELSE d[i - 1]))]

OnGetOutputSizeHistogram ==
    LET r == call.req
    IN \/ /\ At0("get_output_size_histogram", "end")
          /\ Go("read", IF r.to > 0 THEN r.to ELSE Height(node) - 1)
       \/ /\ At0("get_output_size_histogram", "read")
          /\ LET h == GetOutputSizeHistogram(node, r.from, call.l)
             IN Answer(IF IsRefused(h) THEN Fails
                       ELSE OK([h EXCEPT !.distribution =
                                   IF r.cumulative THEN @ ELSE Differences(@, h.base)]))

-----------------------------------------------------------------------------
\* Handlers that change the node

\* Whether the transaction is well formed and verifies is part of the request;
\* whether the node has it, or its images are spent, is the node's state.
Relay(n, t) == [n EXCEPT !.relayed = @ \cup {t}]
Spent(n, t) ==
    \E k \in Images[t] : \/ HaveKeyImageAsSpent(n, k)
                        \/ \E u \in DOMAIN n.pool \ {t} : k \in Images[u]

OnSendRawTx ==
    LET r == call.req
        t == r.tx
        method == IF r.do_not_relay THEN "none" ELSE "local"
    IN \/ /\ At0("send_raw_transaction", "sanity")
          /\ IF t = "bad" THEN Answer(Says("Failed"))
             ELSE IF r.sane THEN Go("handle", <<>>)
             ELSE Answer(Says("Sanity check failed"))
       \/ /\ At0("send_raw_transaction", "handle")
          /\ IF ~r.valid THEN Answer(Says("Failed"))
             ELSE IF GetPoolTransaction(node, t, "legacy") \/ HaveTx(node, t)
             THEN Answer(OK([relayed |-> FALSE]))
             ELSE IF Spent(node, t) THEN Answer(Says("Failed"))
             ELSE /\ node' = [node EXCEPT !.pool = (t :> method) @@ @]
                  /\ call' = [call EXCEPT !.at = "relay", !.seen = Saw(@, node')]
                  /\ UNCHANGED <<up, events, calls>>
       \/ /\ At0("send_raw_transaction", "relay")
          /\ IF r.do_not_relay THEN Answer(OK([relayed |-> FALSE]))
             ELSE AnswerWith(Relay(node, t), OK([relayed |-> TRUE]))

OnStartMining ==
    LET r == call.req
    IN \/ /\ At0("start_mining", "check")
          /\ IF ~node.synced THEN Answer(Says("BUSY"))
             ELSE IF r.address = "bad" THEN Answer(Says("Failed, wrong address"))
             ELSE IF r.address = "sub" THEN Answer(Says("Mining to subaddress isn't supported yet"))
             ELSE IF r.threads > MaxThreads THEN Answer(Says("Failed, too many threads"))
             ELSE IF node.mining > 0 THEN Answer(Says("Already mining"))
             ELSE Go("start", <<>>)
       \/ /\ At0("start_mining", "start")
          /\ IF node.mining > 0 THEN Answer(Says("Failed, mining not started"))
             ELSE AnswerWith([node EXCEPT !.mining = r.threads], OK(<<>>))

OnStopMining ==
    \/ /\ At0("stop_mining", "check")
       /\ IF node.mining = 0 THEN Answer(Says("Mining never started")) ELSE Go("stop", <<>>)
    \/ /\ At0("stop_mining", "stop")
       /\ AnswerWith([node EXCEPT !.mining = 0], OK(<<>>))

OnMiningStatus ==
    \/ /\ At0("mining_status", "active")
       /\ Go("speed", [active |-> node.mining > 0])
    \/ /\ At0("mining_status", "speed")
       /\ Answer(OK([threads |-> node.mining] @@ call.l))

\* A subnet, a host, or an address given as a number, in this order; one that is
\* none of them ends the call after the entries before it were applied.
OnSetBans ==
    LET es == call.req.bans
        i == call.l
        e == es[i]
        target == IF e.host = "" THEN e.ip ELSE e.host
        n == IF target \in UNION Range(Matching)
             THEN IF e.ban THEN BlockSubnet(node, target, e.seconds)
                           ELSE UnblockSubnet(node, target)
             ELSE IF e.ban THEN BlockHost(node, target, e.seconds)
                           ELSE UnblockHost(node, target)
    IN /\ At0("set_bans", "entry")
       /\ IF i > Len(es) THEN Answer(OK(<<>>))
          ELSE IF target = "bad" THEN Answer(Fails)
          ELSE /\ node' = n
               /\ call' = [call EXCEPT !.l = i + 1, !.seen = Saw(@, n)]
               /\ UNCHANGED <<up, events, calls>>

Left(f, now) == [x \in DOMAIN f \ Expired(f, now) |-> f[x] - now]

OnGetBans ==
    \/ At0("get_bans", "now") /\ Go("hosts", [now |-> node.now])
    \/ /\ At0("get_bans", "hosts")
       /\ Go("subnets", [hosts |-> Left(node.hosts, call.l.now)] @@ call.l)
    \/ /\ At0("get_bans", "subnets")
       /\ Answer(OK([bans |-> call.l.hosts @@ Left(node.subnets, call.l.now)]))

OnBanned ==
    /\ At0("banned", "start")
    /\ IF call.req.address \notin DOMAIN Matching THEN Answer(Fails)
       ELSE LET until == BanOf(node, call.req.address)
                n == LookUpBan(node, call.req.address)
            IN IF until = {} THEN AnswerWith(n, OK([banned |-> FALSE, seconds |-> 0]))
               ELSE \E u \in until :
                      AnswerWith(n, OK([banned |-> TRUE, seconds |-> u - node.now]))

\* With no ids the whole pool is read first and flushed in a second step; an id
\* that is no hash is left out.
IdsToFlush(ids) == IF ids = {} THEN PoolTxs(node, "all") ELSE ids \ {"bad"}

OnFlushTxpool ==
    LET ids == ToSet(call.req.ids)
    IN \/ /\ At0("flush_txpool", "ids")
          /\ Go("flush", IdsToFlush(ids))
       \/ /\ At0("flush_txpool", "flush")
          /\ AnswerWith([node EXCEPT !.pool = Drop(@, call.l)],
                        IF "bad" \in ids THEN Fails ELSE OK(<<>>))

\* Every id is tried; one that failed makes the call fail.
OnRelayTx ==
    LET ids == call.req.ids
        i == call.l.i
        found == ids[i] # "bad" /\ GetPoolTransaction(node, ids[i], "legacy")
    IN /\ At0("relay_tx", "id")
       /\ IF i > Len(ids) THEN Answer(IF call.l.failed THEN Fails ELSE OK(<<>>))
          ELSE /\ node' = IF found THEN Relay(node, ids[i]) ELSE node
               /\ call' = [call EXCEPT !.l = [i |-> i + 1, failed |-> @.failed \/ ~found],
                                       !.seen = Saw(@, node')]
               /\ UNCHANGED <<up, events, calls>>

RECURSIVE PopBlocks(_, _)
PopBlocks(n, count) ==
    IF count = 0 \/ Height(n) = 1 THEN n
    ELSE PopBlocks([n EXCEPT !.chain = Front(@),
                             !.pool = @ @@ [t \in ToSet(Body[Top(n)]) |-> "block"]],
                   count - 1)

OnPopBlocks ==
    \/ /\ At0("pop_blocks", "pop")
       /\ LET n == PopBlocks(node, call.req.nblocks)
          IN /\ node' = n
             /\ call' = [call EXCEPT !.at = "height", !.seen = Saw(@, n)]
             /\ UNCHANGED <<up, events, calls>>
    \/ At0("pop_blocks", "height") /\ Answer(OK([height |-> Height(node)]))

OnFlushCache ==
    /\ At0("flush_cache", "start")
    /\ AnswerWith([node EXCEPT !.badTxs = @ /\ ~call.req.bad_txs,
                               !.badBlocks = @ /\ ~call.req.bad_blocks], OK(<<>>))

-----------------------------------------------------------------------------
\* Handlers of one read

OnGetPeerList ==
    /\ At0("get_peer_list", "start")
    /\ Answer(OK([white |-> node.white, gray |-> node.gray]))
OnGetConnections ==
    /\ At0("get_connections", "start")
    /\ Answer(OK([connections |-> node.out \cup node.inc]))
OnGetVersion == At0("get_version", "start") /\ Answer(OK(<<>>))
OnSyncInfo ==
    \/ /\ At0("sync_info", "height")
       /\ Go("peers", [height |-> Height(node),
                       target |-> IF node.synced THEN 0 ELSE node.target])
    \/ /\ At0("sync_info", "peers")
       /\ Answer(OK([peers |-> node.out \cup node.inc] @@ call.l))

-----------------------------------------------------------------------------
\* Where each handler starts, with which locals

First ==
    [get_info |-> "height", get_blocks |-> "noop", get_hashes |-> "start",
     get_tx_outputs |-> "start", get_transactions |-> "split",
     is_output_key_image_spent |-> "chain", get_transaction_pool |-> "count",
     get_transaction_pool_hashes |-> "count", get_block_header_by_hash |-> "hash",
     get_block_header_by_height |-> "check", get_block |-> "check",
     get_coinbase_tx_sum |-> "check", get_output_size_histogram |-> "end",
     send_raw_transaction |-> "sanity", start_mining |-> "check", stop_mining |-> "check",
     mining_status |-> "active", set_bans |-> "entry", get_bans |-> "now",
     banned |-> "start", flush_txpool |-> "ids", relay_tx |-> "id", pop_blocks |-> "pop",
     flush_cache |-> "start", get_peer_list |-> "start", get_connections |-> "start",
     get_version |-> "start", sync_info |-> "height"]

Locals(m) ==
    CASE m = "get_block_header_by_hash" -> [headers |-> <<>>]
      [] m = "set_bans"                 -> 1
      [] m = "relay_tx"                 -> [i |-> 1, failed |-> FALSE]
      [] OTHER                          -> <<>>

\* The endpoints of json_response are plain; those of json_rpc_response are not.
\* An unknown plain endpoint is answered with 404, an unknown method with an
\* empty body.
Serve(m, plain, req) ==
    /\ up /\ calls < MaxCalls
    /\ calls' = calls + 1
    /\ call' = [m |-> m, plain |-> plain, req |-> req, seen |-> <<node>>, res |-> <<>>] @@
               IF m \in DOMAIN First THEN [at |-> First[m], l |-> Locals(m)]
               ELSE [at |-> "done", l |-> <<>>]
    /\ UNCHANGED <<node, up, events>>

Handle ==
    /\ up
    /\ \/ OnGetInfo \/ OnGetBlocks \/ OnGetHashes \/ OnGetTxOutputs
       \/ OnGetTransactions \/ OnIsKeyImageSpent \/ OnGetTransactionPool
       \/ OnGetTransactionPoolHashes \/ FillHeader \/ OnGetBlockHeaderByHash
       \/ OnGetBlockHeaderByHeight \/ OnGetBlock \/ OnGetCoinbaseTxSum
       \/ OnGetOutputSizeHistogram \/ OnSendRawTx \/ OnStartMining \/ OnStopMining
       \/ OnMiningStatus \/ OnSetBans \/ OnGetBans \/ OnBanned \/ OnFlushTxpool
       \/ OnRelayTx \/ OnPopBlocks \/ OnFlushCache \/ OnGetPeerList
       \/ OnGetConnections \/ OnGetVersion \/ OnSyncInfo

RpcInit == node \in InitNodes /\ call = Idle /\ up = TRUE /\ events = 0 /\ calls = 0

\* The client may send the next request once the last one is answered.
Request == ~Running /\ \E r \in Requests : Serve(r.m, r.plain, r.req)
RpcNext == Request \/ Handle \/ NodeStep
RpcSpec == RpcInit /\ [][RpcNext]_rpcVars

-----------------------------------------------------------------------------
\* Properties of the answers

Done(ms) == call.at = "done" /\ call.m \in ms
Good(ms) == Done(ms) /\ call.res # <<>> /\ call.res.ok /\ call.res.status = "OK"

\* The states of the node during the call; the blocks that were in its chain then
\* were not removed, or the chain did not change at all.
During == ToSet(call.seen)
OnlyGrew == \A i \in 2..Len(call.seen) :
                IsPrefix(call.seen[i - 1].chain, call.seen[i].chain)
Still == \A n, m \in During : n.chain = m.chain

NodeOK(n) ==
    /\ n.chain # <<>> /\ n.chain[1] = Genesis
    /\ \A i \in 2..Len(n.chain) : Prev[n.chain[i]] = n.chain[i - 1]
    /\ DOMAIN n.pool \cap ToSet(ChainTxs(n)) = {}

RpcTypeOK ==
    /\ NodeOK(node)
    /\ up \in BOOLEAN /\ events \in 0..MaxEvents /\ calls \in 0..MaxCalls
    /\ Running => node = Last(call.seen)

(* on_get_info puts its answer together from nine reads: the number of           *)
(* transactions never wraps and is at least the true one while no block is       *)
(* removed, and with a chain that stands still height, count and work are those  *)
(* of one chain.  (core_rpc_server.cpp:81)                                       *)
InfoTrue ==
    Good({"get_info"}) =>
      LET r == call.res
      IN /\ \E n \in During : r.height = Height(n) /\ r.top = Top(n)
         /\ OnlyGrew => \E n \in During :
                          /\ Height(n) >= r.height
                          /\ r.tx_count >= Len(ChainTxs(n)) - Height(n)
                          /\ r.tx_count <= Len(ChainTxs(n)) - 1
         /\ Still => \A n \in During :
                        /\ r.tx_count = Len(FlattenSeq([i \in 1..Height(n) |-> Body[n.chain[i]]]))
                        /\ r.work = CumulativeDifficulty(n, Height(n) - 1)

(* on_get_blocks reads the blocks first and the output indices of each one       *)
(* later: every list of indices is the one its transaction had, in its block, in *)
(* some state of the node during the call, even through a reorganisation.  When  *)
(* the coinbase is left out, only if no block was removed.                       *)
(* (core_rpc_server.cpp:120)                                                     *)
IndicesBelong ==
    Good({"get_blocks"}) /\ (call.req.no_miner_tx => OnlyGrew) =>
      LET r == call.res
          skip == IF call.req.no_miner_tx THEN 1 ELSE 0
      IN /\ Len(r.indices) = Len(r.blocks)
         /\ \A i \in DOMAIN r.blocks :
              LET b == r.blocks[i]
              IN /\ Len(r.indices[i]) = Len(BlockTxs(b))
                 /\ \A j \in (1 + skip)..Len(BlockTxs(b)) :
                      \E n \in During :
                        /\ InChain(n, b)
                        /\ r.indices[i][j] = IndicesAt(n, TxIndex(n, BlockTxs(b)[j]))

(* The blocks of one answer of on_get_blocks follow one another, starting with a *)
(* block that the client listed or asked for by height, so that the wallet can   *)
(* append them.  (core_rpc_server.cpp:152, blockchain.cpp:2382)                  *)
BlocksConnect ==
    Good({"get_blocks"}) /\ call.res.blocks # <<>> =>
      LET bs == call.res.blocks
      IN /\ \A i \in 2..Len(bs) : Prev[bs[i]] = bs[i - 1]
         /\ call.req.start = 0 => bs[1] \in ToSet(call.req.ids)
         /\ CoinbaseHeight(bs[1]) = call.res.start

(* on_get_transactions looks in the chain, then in the pool, then again in the   *)
(* chain for heights and indices: when it misses none, each entry carries its    *)
(* own hash, and was in the pool, or in the chain with this height and with      *)
(* these indices, in some state during the call.  (core_rpc_server.cpp:297)      *)
EntriesTrue ==
    Good({"get_transactions"}) /\ call.res.missed = <<>> =>
      /\ Len(call.res.entries) = Len(call.req.ids)
      /\ \A i \in DOMAIN call.res.entries :
           LET e == call.res.entries[i]
           IN /\ e.label = e.data /\ e.label = call.req.ids[i]
              /\ IF e.in_pool THEN \E n \in During : e.label \in DOMAIN n.pool
                 ELSE /\ \E n \in During :
                            HaveTx(n, e.label) /\ e.height = TxBlockHeight(n, e.label)
                      /\ \E n \in During :
                            /\ HaveTx(n, e.label)
                            /\ e.indices = IndicesAt(n, TxIndex(n, e.label))

(* A transaction that on_get_transactions reports as missed, or an image that    *)
(* on_is_output_key_image_spent reports as unspent, was absent at some moment of *)
(* the call, or went from the pool into the chain while the call was between its *)
(* two reads, or its image was asked for twice.  (core_rpc_server.cpp:320, 517)  *)
Moved(in(_, _), pooled(_, _), x) ==
    \/ \E n \in During : ~in(n, x) /\ ~pooled(n, x)
    \/ \E n, m \in During : in(n, x) /\ pooled(m, x) /\ ~in(m, x)
ImagePooled(n, k) == \E t \in DOMAIN n.pool : k \in Images[t]
InPool(n, t) == t \in DOMAIN n.pool

NothingOverlooked ==
    /\ Good({"get_transactions"}) =>
         \A t \in ToSet(call.res.missed) : Moved(HaveTx, InPool, t)
    /\ Good({"is_output_key_image_spent"}) =>
         \A i \in DOMAIN call.req.images :
            \/ call.res.spent[i] # "unspent"
            \/ Moved(HaveKeyImageAsSpent, ImagePooled, call.req.images[i])
            \/ \E j \in 1..(i - 1) : call.req.images[j] = call.req.images[i]

(* A header that is not marked as an orphan's, when no block was removed during  *)
(* the call: the block is in the chain at this height, the difficulties are its  *)
(* own, and the depth is one that it had.  (core_rpc_server.cpp:845)             *)
HeaderTrue ==
    Good({"get_block", "get_block_header_by_height"}) /\ OnlyGrew /\ ~call.res.header.orphan =>
      LET h == call.res.header
      IN /\ \E n \in During : /\ h.height < Height(n) /\ At(n, h.height) = h.block
                                 /\ h.work = CumulativeDifficulty(n, h.height)
         /\ h.difficulty = Work[h.block]
         /\ \E n \in During : h.depth = Height(n) - h.height - 1

(* An exception leaves a handler of a plain endpoint, and ends the server, only  *)
(* when a block was removed while the call ran, or a transaction that is nowhere *)
(* was asked for before one that was found.  (core_rpc_server.cpp:104, 457)      *)
ServerSurvives ==
    ~up => \/ ~OnlyGrew
           \/ /\ call.m = "get_transactions"
              /\ \E i, j \in DOMAIN call.req.ids :
                   /\ i < j
                   /\ Moved(HaveTx, InPool, call.req.ids[i])
                   /\ \E n \in During : HaveTx(n, call.req.ids[j]) \/ InPool(n, call.req.ids[j])

(* flush_txpool leaves in the pool none of the transactions it was asked for, or  *)
(* with no ids only those that came while the call ran; ids that are no hashes    *)
(* never empty the pool.  (core_rpc_server.cpp:1104)                              *)
FlushExact ==
    Done({"flush_txpool"}) =>
      LET ids == ToSet(call.req.ids)
          left == DOMAIN Last(call.seen).pool
      IN /\ left \cap ids = {}
         /\ ids = {} => \A t \in left : \E n \in During : ~InPool(n, t)
         /\ ids # {} /\ events = 0 => DOMAIN Head(call.seen).pool \ left \subseteq ids

(* set_bans that reports success left every host and subnet with the state of    *)
(* the last entry about it.  (core_rpc_server.cpp:1057)                          *)
BansApplied ==
    Good({"set_bans"}) =>
      LET es == call.req.bans
          target(e) == IF e.host = "" THEN e.ip ELSE e.host
          last(i) == \A j \in (i + 1)..Len(es) : target(es[j]) # target(es[i])
          until(n, x) == {f[x] : f \in {g \in {n.hosts, n.subnets} : x \in DOMAIN g}}
      IN \A i \in DOMAIN es : last(i) =>
           IF es[i].ban
           THEN target(es[i]) \in Blockable \cup UNION Range(Matching) =>
                  \E n \in During : until(node, target(es[i])) = {n.now + es[i].seconds}
           ELSE until(node, target(es[i])) = {}

(* The two parts of get_transaction_pool are of one moment: there are images     *)
(* when, and only when, there are transactions, which the console relies on when *)
(* it warns of an inconsistent pool.  (tx_pool.cpp:867, core_rpc_server.cpp:793) *)
PoolCoherent ==
    Good({"get_transaction_pool"}) => (call.res.txs = {} <=> call.res.images = {})

=============================================================================
