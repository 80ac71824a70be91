------------------------------- MODULE Relay -------------------------------
(***************************************************************************)
(* Several nodes that follow the protocol announce blocks and transactions *)
(* to each other.  A new block goes out without its transactions; a node   *)
(* that lacks some asks for them by index and is sent the block again.  A  *)
(* node that gets a block whose parent it lacks asks for the chain.        *)
(* Transactions are passed on by every node that accepts them.             *)
(*                                                                         *)
(* Messages of one connection arrive in order and are handled one at a     *)
(* time; the handlers of different connections of a node interleave        *)
(* between the calls that they make into core.  BlockSync has the details  *)
(* of catching up; here it is one exchange of ids and one of blocks.       *)
(***************************************************************************)
EXTENDS Queries

CONSTANTS
    Peers,       \* the nodes
    Links,       \* the connections, sets of two nodes
    Sound,       \* the transactions that pass check_ringct_semantic and the proofs
    Size,        \* transaction -> size
    MaxTxSize,   \* get_max_tx_size
    Reserved,    \* CRYPTONOTE_COINBASE_BLOB_RESERVED_SIZE
    CacheSize,   \* BAD_SEMANTICS_TXES_MAX_SIZE
    Fluffy,      \* the nodes whose support flags say that they take fluffy blocks
    Scenarios    \* [pools, todo]: the pools at first and what happens, in any order

VARIABLES
    nodes,  \* node -> [chain, alt, invalid, pool, bad, gone, left]
    wire,   \* <<a, b>> -> the messages from a to b that are not yet handled
    conn,   \* <<a, b>> -> m_state of a's connection to b
    work,   \* <<a, b>> -> what a's handler for a message of b is about to do
    own,    \* node -> what it submitted or mined itself and has yet to announce
    todo    \* the events to come

relayVars == <<nodes, wire, conn, work, own, todo>>

Sides == {l \in Peers \X Peers : {l[1], l[2]} \in Links}
NoWork == [at |-> "idle"]

-----------------------------------------------------------------------------
\* core: incoming transactions.  The answer holds the node's new state, whether
\* the verification failed, and whether the transaction should be passed on.

Outcome(n, failed, relay) == [n |-> n, failed |-> failed, relay |-> relay]

\* Two generations of transactions that failed; a full one replaces the other.
SetSemanticsFailed(n, t) ==
    LET s == n.bad[1] \cup {t}
    IN [n EXCEPT !.bad = IF Cardinality(s) >= CacheSize THEN << {}, s >> ELSE << s, @[2] >>]

SemanticsOk(t, method) ==
    t \in Sound /\ (method # "block" => Size[t] < MaxTxSize - Reserved)

\* tx_memory_pool::add_tx, as far as honest nodes meet it.
Conflicts(n, t) == \E u \in DOMAIN n.pool \ {t} : Images[u] \cap Images[t] # {}

PoolLimits(t, method) == Size[t] <= (MaxTxSize \div 2) - Reserved

InputsSpent(n, t) == \E k \in Images[t] : HaveKeyImageAsSpent(n, k)
AddTx(n, t, method) ==
    IF \/ ~PoolLimits(t, method)
       \/ method # "block" /\ (t \in n.gone \/ Conflicts(n, t) \/ InputsSpent(n, t))
    THEN Outcome(n, TRUE, FALSE)
    ELSE Outcome([n EXCEPT !.pool = (t :> method) @@ @], FALSE, method # "none")

HandleIncomingTx(n, t, method) ==
    IF Size[t] > MaxTxSize \/ t \in n.bad[1] \cup n.bad[2] THEN Outcome(n, TRUE, FALSE)
    ELSE IF GetPoolTransaction(n, t, "legacy") \/ HaveTx(n, t) THEN Outcome(n, FALSE, FALSE)
    ELSE IF ~SemanticsOk(t, method) THEN Outcome(SetSemanticsFailed(n, t), TRUE, FALSE)
    ELSE AddTx(n, t, method)

-----------------------------------------------------------------------------
\* Blockchain::add_new_block under its locks; Blockchain has its steps.

RECURSIVE PathTo(_)
PathTo(b) == IF b = Genesis THEN <<b>> ELSE Append(PathTo(Prev[b]), b)

Missing(pool, b) == {t \in ToSet(Body[b]) : t \notin DOMAIN pool}
TxsOf(bs) == UNION {ToSet(Body[bs[i]]) : i \in DOMAIN bs}
Back(pool, ts) == pool @@ [t \in ts |-> "block"]

\* What a block refused for a missing transaction had taken out comes back.
Taken(pool, b) ==
    {Body[b][i] : i \in {j \in DOMAIN Body[b] : \A h \in 1..j : Body[b][h] \in DOMAIN pool}}

SwitchTo(n, b) ==
    LET new == PathTo(b)
        fork == Max({i \in DOMAIN new : i <= Height(n) /\ new[i] = n.chain[i]})
        old == SubSeq(n.chain, fork + 1, Height(n))
        branch == SubSeq(new, fork + 1, Len(new))
        pool == Back(n.pool, TxsOf(old))
        bad == {i \in DOMAIN branch : Missing(pool, branch[i]) # {}}
    IN IF bad = {}
       THEN [n |-> [n EXCEPT !.chain = new, !.alt = (@ \cup ToSet(old)) \ ToSet(branch),
                             !.pool = Drop(pool, TxsOf(branch)), !.left = @ \cup ToSet(old)],
             out |-> "added"]
       ELSE LET lost == {branch[i] : i \in Min(bad)..Len(branch)}
            IN [n |-> [n EXCEPT !.alt = @ \ lost, !.invalid = @ \cup lost], out |-> "failed"]

AddNewBlock(n, b) ==
    IF InChain(n, b) \/ b \in n.alt \cup n.invalid THEN [n |-> n, out |-> "exists"]
    ELSE IF Prev[b] = Top(n)
    THEN IF Missing(n.pool, b) = {}
         THEN [n |-> [n EXCEPT !.chain = Append(@, b), !.pool = Drop(@, ToSet(Body[b]))],
               out |-> "added"]
         ELSE [n |-> [n EXCEPT !.pool = [t \in Taken(@, b) |-> "block"] @@ @],
               out |-> "failed"]
    ELSE IF ~InChain(n, Prev[b]) /\ Prev[b] \notin n.alt THEN [n |-> n, out |-> "orphaned"]
    ELSE LET n1 == [n EXCEPT !.alt = @ \cup {b}]
         IN IF SumWork(PathTo(b)) > SumWork(n.chain) THEN SwitchTo(n1, b)
            ELSE [n |-> n1, out |-> "alternative"]

-----------------------------------------------------------------------------
\* The p2p layer, as the handlers use it

Open(l) == conn[l] # "closed"
Others(a, b) == {l \in Sides : l[1] = a /\ l[2] # b /\ Open(l)}
Back2(l) == <<l[2], l[1]>>

\* Adds to each connection of ls a message; nothing is sent on a closed one.
Post(w, ls, msg) == [l \in Sides |-> IF l \in ls /\ Open(l) THEN Append(w[l], msg) ELSE w[l]]

\* drop_connection: both sides learn of it, and what was under way is lost.
DropConnection(l) ==
    /\ conn' = [s \in Sides |-> IF s \in {l, Back2(l)} THEN "closed" ELSE conn[s]]
    /\ wire' = [s \in Sides |-> IF s \in {l, Back2(l)} THEN <<>> ELSE wire[s]]
    /\ work' = [work EXCEPT ![l] = NoWork]

\* relay_block: fluffy peers get the block alone, the others the whole block.
FluffyMsg(b, txs) == [kind |-> "fluffy", block |-> b, txs |-> txs]
BlockMsg(b) == [kind |-> "block", block |-> b, txs |-> Body[b]]
RelayBlock(w, a, from, b) ==
    LET to == Others(a, from)
    IN Post(Post(w, {l \in to : l[2] \in Fluffy}, FluffyMsg(b, <<>>)),
            {l \in to : l[2] \notin Fluffy}, BlockMsg(b))

\* relay_transactions: the pool first learns that they are public.
TxsMsg(ts) == [kind |-> "txs", txs |-> ts]
SetRelayed(n, ts) ==
    [n EXCEPT !.pool = [t \in DOMAIN @ |-> IF t \in ToSet(ts) THEN "fluff" ELSE @[t]]]
RelayTransactions(w, a, from, ts) ==
    IF ts = <<>> THEN w ELSE Post(w, Others(a, from), TxsMsg(ts))

\* m_incoming_tx_lock, from prepare_handle_incoming_blocks to the cleanup.
Free(l) == \A s \in Sides : s[1] = l[1] /\ s # l => work[s].at # "whole"

Goto(l, wk) == work' = [work EXCEPT ![l] = wk]
Finish(l) == Goto(l, NoWork)
Update(l, n) == nodes' = [nodes EXCEPT ![l[1]] = n]

\* A handler begins with the oldest message of its connection.
Msg(l) == Head(wire[Back2(l)])
NextIs(l, kind) ==
    Open(l) /\ work[l] = NoWork /\ wire[Back2(l)] # <<>> /\ Msg(l).kind = kind
Rest(l) == [wire EXCEPT ![Back2(l)] = Tail(@)]
Respond(l, msg) == wire' = Post(Rest(l), {l}, msg)

IgnoreMessage(l) ==
    /\ \E kind \in {"block", "fluffy", "txs", "complement"} : NextIs(l, kind)
    /\ conn[l] # "normal"
    /\ wire' = Rest(l)
    /\ UNCHANGED <<nodes, conn, work, own, todo>>

-----------------------------------------------------------------------------
\* handle_notify_new_transactions

NewTransactions(l) ==
    /\ NextIs(l, "txs") /\ conn[l] = "normal"
    /\ wire' = Rest(l)
    /\ Goto(l, [at |-> "txs", txs |-> Msg(l).txs, relay |-> <<>>])
    /\ UNCHANGED <<nodes, conn, own, todo>>

NewTransaction(l) ==
    LET wk == work[l]
        r == HandleIncomingTx(nodes[l[1]], Head(wk.txs), "fluff")
    IN /\ wk.at = "txs" /\ wk.txs # <<>> /\ Free(l)
       /\ Update(l, r.n)
       /\ IF r.failed THEN DropConnection(l)
          ELSE /\ Goto(l, [wk EXCEPT !.txs = Tail(@),
                           !.relay = IF r.relay THEN Append(@, Head(wk.txs)) ELSE @])
               /\ UNCHANGED <<wire, conn>>
       /\ UNCHANGED <<own, todo>>

PassTransactions(l) ==
    LET wk == work[l]
    IN /\ wk.at = "txs" /\ wk.txs = <<>>
       /\ Update(l, SetRelayed(nodes[l[1]], wk.relay))
       /\ wire' = RelayTransactions(wire, l[1], l[2], wk.relay)
       /\ Finish(l)
       /\ UNCHANGED <<conn, own, todo>>

\* handle_notify_get_txpool_complement
GetTxpoolComplement(l) ==
    /\ NextIs(l, "complement") /\ conn[l] = "normal"
    /\ Respond(l, TxsMsg(SetToSeq(TxPoolComplement(nodes[l[1]], Msg(l).known))))
    /\ UNCHANGED <<nodes, conn, work, own, todo>>

-----------------------------------------------------------------------------
\* handle_notify_new_fluffy_block: the transactions that came with the block,
\* then where each transaction of the block is, then the block.

NewFluffyBlock(l) ==
    /\ NextIs(l, "fluffy") /\ conn[l] = "normal"
    /\ wire' = Rest(l)
    /\ Goto(l, [at |-> "fluffy", block |-> Msg(l).block, txs |-> Msg(l).txs, i |-> 1,
                need |-> {}])
    /\ UNCHANGED <<nodes, conn, own, todo>>

BlockTx(l, at) ==
    LET wk == work[l]
        r == HandleIncomingTx(nodes[l[1]], Head(wk.txs), "block")
    IN /\ wk.at = at /\ wk.txs # <<>> /\ Free(l)
       /\ Update(l, r.n)
       /\ IF r.failed THEN DropConnection(l)
          ELSE Goto(l, [wk EXCEPT !.txs = Tail(@)]) /\ UNCHANGED <<wire, conn>>
       /\ UNCHANGED <<own, todo>>

Looking(l) == work[l].txs = <<>> /\ work[l].i <= Len(Body[work[l].block])
LookedFor(l) == Body[work[l].block][work[l].i]

LookInPool(l) ==
    LET wk == work[l]
    IN /\ wk.at = "fluffy" /\ Looking(l)
       /\ Goto(l, IF GetPoolTransaction(nodes[l[1]], LookedFor(l), "broadcasted")
                  THEN [wk EXCEPT !.i = @ + 1] ELSE [wk EXCEPT !.at = "chain"])
       /\ UNCHANGED <<nodes, wire, conn, own, todo>>

LookInChain(l) ==
    LET wk == work[l]
    IN /\ wk.at = "chain"
       /\ Goto(l, [wk EXCEPT !.at = "fluffy", !.i = @ + 1,
                   !.need = IF HaveTx(nodes[l[1]], LookedFor(l)) THEN @ ELSE @ \cup {wk.i}])
       /\ UNCHANGED <<nodes, wire, conn, own, todo>>

RequestMissing(l) ==
    LET wk == work[l]
    IN /\ wk.at = "fluffy" /\ wk.txs = <<>> /\ ~Looking(l) /\ wk.need # {}
       /\ wire' = Post(wire, {l}, [kind |-> "missing", block |-> wk.block, need |-> wk.need])
       /\ Finish(l)
       /\ UNCHANGED <<nodes, conn, own, todo>>

\* handle_incoming_block and what the verification context says.
AddReceived(l) ==
    LET wk == work[l]
        r == AddNewBlock(nodes[l[1]], wk.block)
    IN /\ Update(l, r.n)
       /\ CASE r.out = "failed" -> DropConnection(l)
            [] r.out \in {"added", "orphaned"} ->
                 Goto(l, [at |-> r.out, block |-> wk.block]) /\ UNCHANGED <<wire, conn>>
            [] OTHER -> Finish(l) /\ UNCHANGED <<wire, conn>>
       /\ UNCHANGED <<own, todo>>

AddFluffyBlock(l) ==
    /\ work[l].at = "fluffy" /\ work[l].txs = <<>> /\ ~Looking(l) /\ work[l].need = {}
    /\ Free(l)
    /\ AddReceived(l)

\* handle_notify_new_block keeps the lock from the first transaction on.
NewBlock(l) ==
    /\ NextIs(l, "block") /\ conn[l] = "normal" /\ Free(l)
    /\ wire' = Rest(l)
    /\ Goto(l, [at |-> "whole", block |-> Msg(l).block, txs |-> Msg(l).txs])
    /\ UNCHANGED <<nodes, conn, own, todo>>

AddWholeBlock(l) == work[l].at = "whole" /\ work[l].txs = <<>> /\ AddReceived(l)

PassBlock(l) ==
    /\ work[l].at = "added"
    /\ wire' = RelayBlock(wire, l[1], l[2], work[l].block)
    /\ Finish(l)
    /\ UNCHANGED <<nodes, conn, own, todo>>

\* The state changes and the chain is asked for.
HistoryMsg(n) == [kind |-> "history", ids |-> GetShortChainHistory(n)]

RequestChain(l) ==
    /\ conn' = [conn EXCEPT ![l] = "synchronizing"]
    /\ wire' = Post(wire, {l}, HistoryMsg(nodes[l[1]]))

Orphaned(l) ==
    /\ work[l].at = "orphaned"
    /\ RequestChain(l)
    /\ Finish(l)
    /\ UNCHANGED <<nodes, own, todo>>

-----------------------------------------------------------------------------
\* What a node answers

\* handle_request_fluffy_missing_tx: the block may be an alternative one, its
\* transactions are looked up in the main chain.
FindBlock(l) ==
    LET m == Msg(l)
    IN /\ NextIs(l, "missing")
       /\ IF IsRefused(GetBlockByHash(nodes[l[1]], m.block))
             \/ \E i \in m.need : i \notin DOMAIN Body[m.block]
          THEN DropConnection(l)
          ELSE /\ wire' = Rest(l)
               /\ Goto(l, [at |-> "fetch", block |-> m.block, need |-> SetToSortSeq(m.need, <)])
               /\ UNCHANGED conn
       /\ UNCHANGED <<nodes, own, todo>>

FetchMissing(l) ==
    LET wk == work[l]
        r == GetTransactions(nodes[l[1]], [i \in DOMAIN wk.need |-> Body[wk.block][wk.need[i]]])
    IN /\ wk.at = "fetch"
       /\ IF r.missed # <<>> THEN DropConnection(l)
          ELSE /\ wire' = Post(wire, {l}, FluffyMsg(wk.block, r.found))
               /\ Finish(l)
               /\ UNCHANGED conn
       /\ UNCHANGED <<nodes, own, todo>>

\* handle_request_chain: a history with another genesis gets no answer.
ChainRequested(l) ==
    LET e == ChainEntry(nodes[l[1]], Msg(l).ids)
    IN /\ NextIs(l, "history")
       /\ IF IsRefused(e) THEN wire' = Rest(l) ELSE Respond(l, e @@ [kind |-> "entry"])
       /\ UNCHANGED <<nodes, conn, work, own, todo>>

ObjectsRequested(l) ==
    /\ NextIs(l, "objects")
    /\ Respond(l, HandleGetObjects(nodes[l[1]], Msg(l).ids) @@ [kind |-> "span"])
    /\ UNCHANGED <<nodes, conn, work, own, todo>>

-----------------------------------------------------------------------------
\* Catching up, in brief

Known(n, b) == InChain(n, b) \/ b \in n.alt \cup n.invalid

ChainReceived(l) ==
    LET n == nodes[l[1]]
        ids == Msg(l).ids
        needed == SelectSeq(ids, LAMBDA b : ~Known(n, b))
    IN /\ NextIs(l, "entry")
       /\ IF ~Known(n, ids[1]) \/ \E i \in DOMAIN ids : ids[i] \in n.invalid
          THEN DropConnection(l)
          ELSE IF needed = <<>>
          THEN wire' = Rest(l) /\ conn' = [conn EXCEPT ![l] = "normal"] /\ UNCHANGED work
          ELSE Respond(l, [kind |-> "objects", ids |-> needed]) /\ UNCHANGED <<conn, work>>
       /\ UNCHANGED <<nodes, own, todo>>

SpanReceived(l) ==
    /\ NextIs(l, "span")
    /\ IF Msg(l).missed # <<>> THEN DropConnection(l)
       ELSE /\ wire' = Rest(l)
            /\ Goto(l, [at |-> "span", blocks |-> Msg(l).blocks])
            /\ UNCHANGED conn
    /\ UNCHANGED <<nodes, own, todo>>

\* The transactions of a block, then the block; the first failure ends it.
AddWithTxs(n, e) ==
    LET Step(r, t) == IF r.failed THEN r ELSE HandleIncomingTx(r.n, t, "block")
        r == FoldLeft(Step, Outcome(n, FALSE, FALSE), e.txs)
    IN IF r.failed THEN [n |-> r.n, out |-> "failed"] ELSE AddNewBlock(r.n, e.block)

AddSpan(l) ==
    LET wk == work[l]
        r == AddWithTxs(nodes[l[1]], Head(wk.blocks))
    IN /\ wk.at = "span" /\ wk.blocks # <<>> /\ Free(l)
       /\ Update(l, r.n)
       /\ IF r.out \in {"failed", "orphaned"} THEN DropConnection(l)
          ELSE Goto(l, [wk EXCEPT !.blocks = Tail(@)]) /\ UNCHANGED <<wire, conn>>
       /\ UNCHANGED <<own, todo>>

\* Mutant: the state stays as it was.
CaughtUpInSilence(l) ==
    /\ work[l].at = "span" /\ work[l].blocks = <<>>
    /\ Finish(l)
    /\ UNCHANGED <<nodes, wire, conn, own, todo>>

CaughtUp(l) ==
    /\ work[l].at = "span" /\ work[l].blocks = <<>>
    /\ conn' = [conn EXCEPT ![l] = "normal"]
    /\ Finish(l)
    /\ UNCHANGED <<nodes, wire, own, todo>>

\* Peers tell each other their top block every minute (process_payload_sync_data).
SyncDue(l) == /\ conn[l] = "normal" /\ work[l] = NoWork
              /\ ~Known(nodes[l[1]], Top(nodes[l[2]]))
TimedSync(l) ==
    /\ SyncDue(l)
    /\ RequestChain(l)
    /\ UNCHANGED <<nodes, work, own, todo>>

-----------------------------------------------------------------------------
\* What a node does of its own

\* send_raw_transaction; a refused transaction is not announced.
Submit(e) ==
    LET r == HandleIncomingTx(nodes[e.node], e.tx, e.method)
    IN /\ e.kind = "submit" /\ own[e.node] = NoWork
       /\ nodes' = [nodes EXCEPT ![e.node] = r.n]
       /\ own' = [own EXCEPT ![e.node] =
                    IF r.relay THEN [at |-> "txs", txs |-> <<e.tx>>] ELSE NoWork]
       /\ UNCHANGED <<wire, conn, work>>

\* handle_block_found, with a template that may be old by now.
Found(e) ==
    LET n == nodes[e.node]
        r == AddNewBlock(n, e.block)
    IN /\ e.kind = "find" /\ own[e.node] = NoWork
       /\ InChain(n, Prev[e.block])
       /\ Missing(n.pool, e.block) = {}
       /\ \A l \in Sides : l[1] = e.node => work[l].at # "whole"
       /\ nodes' = [nodes EXCEPT ![e.node] = r.n]
       /\ own' = [own EXCEPT ![e.node] =
                    IF r.out = "added" THEN [at |-> "block", block |-> e.block] ELSE NoWork]
       /\ UNCHANGED <<wire, conn, work>>

\* remove_stuck_transactions
Expire(e) ==
    /\ e.kind = "expire" /\ e.tx \in DOMAIN nodes[e.node].pool
    /\ nodes' = [nodes EXCEPT ![e.node].pool = Drop(@, {e.tx}), ![e.node].gone = @ \cup {e.tx}]
    /\ UNCHANGED <<wire, conn, work, own>>

\* request_txpool_complement, once, from a connection that is up.
RequestComplement(e) ==
    /\ e.kind = "ask"
    /\ wire' = Post(wire, {<<e.node, e.peer>>},
                    [kind |-> "complement", known |-> PoolTxs(nodes[e.node], "broadcasted")])
    /\ UNCHANGED <<nodes, conn, work, own>>

Event ==
    \E e \in todo :
        /\ todo' = todo \ {e}
        /\ Submit(e) \/ Found(e) \/ Expire(e) \/ RequestComplement(e)

Announce(a) ==
    LET wk == own[a]
    IN /\ wk # NoWork
       /\ IF wk.at = "txs"
          THEN /\ nodes' = [nodes EXCEPT ![a] = SetRelayed(@, wk.txs)]
               /\ wire' = RelayTransactions(wire, a, a, wk.txs)
          ELSE /\ wire' = IF GetTransactions(nodes[a], Body[wk.block]).missed # <<>> THEN wire
                          ELSE RelayBlock(wire, a, a, wk.block)
               /\ UNCHANGED nodes
       /\ own' = [own EXCEPT ![a] = NoWork]
       /\ UNCHANGED <<conn, work, todo>>

\* relay_txpool_transactions, minutes later: what was under way has arrived.
Quiet ==
    /\ \A l \in Sides : wire[l] = <<>> /\ work[l] = NoWork
    /\ \A a \in Peers : own[a] = NoWork
Relayable(n) == {t \in DOMAIN n.pool : n.pool[t] \in {"fluff", "block"}}
RelayPool(a) ==
    LET ts == SetToSeq(Relayable(nodes[a]))
    IN /\ Quiet
       /\ nodes' = [nodes EXCEPT ![a] = SetRelayed(@, ts)]
       /\ wire' = RelayTransactions(wire, a, a, ts)
       /\ UNCHANGED <<conn, work, own, todo>>

-----------------------------------------------------------------------------
RelayInit ==
    \E s \in Scenarios :
        /\ nodes = [a \in Peers |-> [chain |-> <<Genesis>>, alt |-> {}, invalid |-> {},
                                     pool |-> s.pools[a], bad |-> << {}, {} >>, gone |-> {},
                                     left |-> {}]]
        /\ wire = [l \in Sides |-> <<>>]
        /\ conn = [l \in Sides |-> "normal"]
        /\ work = [l \in Sides |-> NoWork]
        /\ own = [a \in Peers |-> NoWork]
        /\ todo = s.todo

HandleOne(l) ==
    \/ IgnoreMessage(l)
    \/ NewTransactions(l) \/ NewTransaction(l) \/ PassTransactions(l)
    \/ GetTxpoolComplement(l)
    \/ NewFluffyBlock(l) \/ BlockTx(l, "fluffy") \/ LookInPool(l) \/ LookInChain(l)
    \/ RequestMissing(l) \/ AddFluffyBlock(l)
    \/ NewBlock(l) \/ BlockTx(l, "whole") \/ AddWholeBlock(l)
    \/ PassBlock(l) \/ Orphaned(l)
    \/ FindBlock(l) \/ FetchMissing(l) \/ ChainRequested(l) \/ ObjectsRequested(l)
    \/ ChainReceived(l) \/ SpanReceived(l) \/ AddSpan(l) \/ CaughtUp(l)

RelayNext ==
    \/ \E l \in Sides : HandleOne(l) \/ TimedSync(l)
    \/ \E a \in Peers : Announce(a) \/ RelayPool(a)
    \/ Event

RelaySpec == RelayInit /\ [][RelayNext]_relayVars

-----------------------------------------------------------------------------
\* Properties

Honest == \A a \in Peers : nodes[a].gone = {} /\ nodes[a].left = {} /\ nodes[a].bad = << {}, {} >>
BlocksKnown == UNION {ToSet(nodes[a].chain) \cup nodes[a].alt : a \in Peers}

\* A transaction that its owner asked not to relay is in no message of loose
\* transactions and in no pool as one to relay, unless a block that holds it exists.
PrivateKept ==
    \A a \in Peers : \A t \in DOMAIN nodes[a].pool :
        (/\ nodes[a].pool[t] = "none"
         /\ \A b \in BlocksKnown : t \notin ToSet(Body[b])) =>
            /\ \A l \in Sides : \A i \in DOMAIN wire[l] :
                   wire[l][i].kind = "txs" => t \notin ToSet(wire[l][i].txs)
            /\ \A c \in Peers : t \in DOMAIN nodes[c].pool => nodes[c].pool[t] = "none"

\* Nodes that follow the protocol do not drop each other, whatever the order in
\* which blocks and transactions reach them, as long as no transaction has timed
\* out or failed its checks and no chain was reorganised.
KeepsPeers == Honest => \A l \in Sides : conn[l] # "closed"

\* The cache of transactions with bad semantics, which is filled by checks that
\* are stricter for loose transactions, never refuses one that a block may hold.
CacheIsJust ==
    \A a \in Peers : \A t \in nodes[a].bad[1] \cup nodes[a].bad[2] :
        HandleIncomingTx([nodes[a] EXCEPT !.bad = << {}, {} >>], t, "block").failed
            \/ t \in DOMAIN nodes[a].pool \/ HaveTx(nodes[a], t)

\* Nodes that follow the protocol neither expose nor refuse nor drop one another.
RelayKeeps == PrivateKept /\ KeepsPeers /\ CacheIsJust

\* Nothing is under way and no timed sync has anything to ask for.
Settled == Quiet /\ \A l \in Sides : ~SyncDue(l)

\* Whenever everything has settled, connected nodes have chains of equal work:
\* announcements that are ignored while a node catches up, blocks that arrive before
\* their parents and requests that cross each other leave no node behind.
BlocksSpread ==
    Settled => \A l \in Sides :
        Open(l) => SumWork(nodes[l[1]].chain) = SumWork(nodes[l[2]].chain)

\* Whenever everything has settled, what a node broadcasts is with its neighbours, or
\* they will take it when the pool is announced again: no connection is left in the
\* state in which announcements are ignored, and no transaction has become one that
\* the neighbour refuses, unless it timed out there.
TxsSpread ==
    Settled => \A l \in Sides : Open(l) =>
        /\ conn[l] = "normal"
        /\ \A t \in Relayable(nodes[l[2]]) \ nodes[l[1]].gone :
               \/ t \in DOMAIN nodes[l[1]].pool \/ HaveTx(nodes[l[1]], t)
               \/ ~HandleIncomingTx(nodes[l[1]], t, "fluff").failed

\* When everything has settled, blocks and transactions are everywhere.
RelaySpreads == BlocksSpread /\ TxsSpread

\* The nodes get along, and what one of them has reaches the others.
RelaySound == RelayKeeps /\ RelaySpreads

=============================================================================
