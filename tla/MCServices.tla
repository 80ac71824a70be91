----------------------------- MODULE MCServices -----------------------------
(***************************************************************************)
(* Parts that share no state with each other, one of which runs in a       *)
(* behaviour: how a payment is split into transactions, how a ring is      *)
(* chosen, how the wallet's files are kept; a payment from its             *)
(* construction to its receipt; the RPC server with the daemon's commands; *)
(* nodes that announce blocks and transactions; the HTTP server; and the   *)
(* command line wallet.                                                    *)
(***************************************************************************)
EXTENDS Spending, Rings, WalletFiles, Transfer, DaemonCli, Relay, HttpServer, WalletCli

-----------------------------------------------------------------------------
\* Spending, Rings

\* Four outputs over two subaddresses; two may share a transaction or a
\* height, one may be locked.
Owned(amount, m, x, h, f) == [amount |-> amount, minor |-> m, tx |-> x, height |-> h, free |-> f]

MCWallets ==
    {<<Owned(a, 0, 1, 1, TRUE), Owned(2, m, 2, h, TRUE), Owned(c, n, x, 3, f), Owned(9, 1, 4, 20, TRUE)>> :
        a \in {3, 8}, c \in {4, 30},
        m \in {0, 1}, n \in {0, 1}, h \in {1, 2}, x \in {2, 3}, f \in BOOLEAN}

Dst(a, x) == [addr |-> a, amount |-> x]

MCPayments ==
    {<<Dst("p", x)>> : x \in 1 .. 12} \cup
    {<<Dst("p", x), Dst(a, y)>> : x \in {1, 4, 7}, y \in {1, 3, 6}, a \in {"p", "q"}} \cup
    {<<Dst("p", x), Dst("q", y), Dst(a, z)>> :
        x \in {1, 3}, y \in {2, 5}, z \in {2, 4}, a \in {"p", "r"}}

MCEstimated(nin, nout) == nin + (nout \div 2)

\* The real weight is the estimate, more by one, or grows with each output.
MCReal ==
    {[p \in (1 .. 4) \X (0 .. 4) |-> p[1] + (p[2] \div 2) + k] : k \in {0, 1}} \cup
    {[p \in (1 .. 4) \X (0 .. 4) |-> p[1] + p[2] - 1]}

\* Five blocks with up to two outputs each, some without any.
MCDistributions ==
    {<<a, a + b, a + b + c, a + b + c + d, a + b + c + d + 1>> :
        a \in 1 .. 2, b \in 0 .. 2, c \in 0 .. 2, d \in 0 .. 2}

-----------------------------------------------------------------------------
\* Transfer, in the group of order 46337, the largest prime whose products fit
\* TLC's integers.  The hash is a fixed mixing function; it gives 0 now and then
\* for the challenges of the proofs, so that the paths for a zero hash are taken.

Mix(s) ==
    FoldLeft(LAMBDA a, x : ((a * 211 + x * 37 + (a % 97) * (x % 101) + 5077) % 46337), Len(s) + 17, s)

MCHash(s) ==
    LET h == Mix(s)
    IN  IF Len(s) >= 3 /\ (s[1] > 20 \/ s[1] = KeyRound) /\ h % 29 = 0 THEN 0 ELSE h

MCRand(n, k) == Mix(<<n, k, 77>>)

MCKeys ==
    [a \in {"alice", "bob"} |->
        IF a = "alice" THEN [spend |-> 101, view |-> 2003] ELSE [spend |-> 5011, view |-> 7019]]

MCIndexes == {<<0, 0>>, <<0, 1>>}

-----------------------------------------------------------------------------
\* RpcServer, DaemonCli: a chain with forks at the genesis block, transactions of
\* which two spend the same image, and a node that may change twice.

MCPrev == [a1 |-> "g", a2 |-> "a1", b1 |-> "g", e1 |-> "g"]
MCBody == [g |-> <<>>, a1 |-> <<"t1", "t2">>, a2 |-> <<"t4">>, b1 |-> <<"t1", "t3">>,
           e1 |-> <<"t1">>]
MCCoinbase == [g |-> "cg", a1 |-> "c1", a2 |-> "c2", b1 |-> "d1", e1 |-> "f1"]
MCWork == [g |-> 1, a1 |-> 2, a2 |-> 3, b1 |-> 4, e1 |-> 1]
MCReward == [g |-> 9, a1 |-> 8, a2 |-> 7, b1 |-> 8, e1 |-> 8]
MCTxs == {"t1", "t2", "t3", "t4"}
MCFee == [t \in MCTxs |-> 1]
MCCoins == {"cg", "c1", "c2", "d1", "f1"}
MCImages == [c \in MCCoins |-> {}] @@
            ("t1" :> {"k1"} @@ "t2" :> {"k2"} @@ "t3" :> {"k2"} @@ "t4" :> {"k4"})
MCOuts == [c \in MCCoins |-> 1] @@ [t \in MCTxs |-> 2]
MCUnlock == [c \in MCCoins |-> 2] @@ [t \in MCTxs |-> 0]
MCMatching == [h1 |-> {"s"}, h2 |-> {}, lo |-> {}]

Node0 == [chain |-> <<"g", "a1">>, alt |-> {"b1"}, pool |-> "t4" :> "fluff", relayed |-> {},
          hosts |-> "h2" :> 3, subnets |-> <<>>, now |-> 1, out |-> {"h1"}, inc |-> {},
          white |-> {"h1"}, gray |-> {"h2"}, synced |-> TRUE, target |-> 3, mining |-> 0,
          badTxs |-> TRUE, badBlocks |-> TRUE]
MCInitNodes == {Node0, [Node0 EXCEPT !.pool = "t4" :> "none", !.synced = FALSE,
                                     !.subnets = "s" :> 2, !.mining = 1]}

Plain(m, reqs) == {[m |-> m, plain |-> TRUE, req |-> r] : r \in reqs}
Json(m, reqs) == {[m |-> m, plain |-> FALSE, req |-> r] : r \in reqs}
Ban(h, b) == [host |-> h, ip |-> "", ban |-> b, seconds |-> 1]

MCRequests == UNION {
    Plain("get_info", {<<>>}), Json("get_info", {<<>>}),
    Plain("get_blocks", {[ids |-> i, start |-> s, no_miner_tx |-> x] :
        i \in {<<"a1", "g">>, <<"b1", "g">>, <<"bad">>}, s \in {0, 1}, x \in BOOLEAN}),
    Plain("get_hashes", {[ids |-> i] : i \in {<<"a1", "g">>, <<>>}}),
    Plain("get_tx_outputs", {[indices |-> <<0, 3>>], [indices |-> <<9>>]}),
    Plain("get_transactions", {[ids |-> i] :
        i \in {<<"t1", "t4">>, <<"t4", "t2">>, <<"t3", "t1">>, <<"t2", "t3">>, <<"bad">>}}),
    Plain("is_output_key_image_spent", {[images |-> i] :
        i \in {<<"k4">>, <<"k1", "k4">>, <<"k4", "k4">>, <<"bad">>}}),
    Plain("get_transaction_pool", {<<>>}), Plain("get_transaction_pool_hashes", {<<>>}),
    Json("get_block_header_by_hash", {[ids |-> <<"a1">>], [ids |-> <<"bad">>]}),
    Json("get_block_header_by_height", {[height |-> h] : h \in {1, 2}}),
    Json("get_block", {[id |-> "", height |-> 1], [id |-> "b1", height |-> 0],
                       [id |-> "bad", height |-> 0], [id |-> "", height |-> 3]}),
    Json("get_coinbase_tx_sum", {[height |-> h, count |-> c] : h \in {1, 4}, c \in {0, 1}}),
    Json("get_output_size_histogram", {[from |-> f, to |-> t, cumulative |-> c] :
        f \in {0, 1}, t \in {0, 1}, c \in BOOLEAN}),
    Plain("send_raw_transaction", {[tx |-> t, sane |-> s, valid |-> v, do_not_relay |-> d] :
        t \in {"t3", "t4", "bad"}, s \in BOOLEAN, v \in BOOLEAN, d \in BOOLEAN}),
    Plain("start_mining", {[address |-> a, threads |-> n] :
        a \in {"main", "sub", "bad"}, n \in {1, MaxThreads + 1}}),
    Plain("stop_mining", {<<>>}), Plain("mining_status", {<<>>}),
    Json("set_bans", {[bans |-> b] : b \in {<<Ban("h1", TRUE), Ban("s", TRUE)>>,
        <<Ban("h2", TRUE)>>, <<Ban("h2", FALSE), Ban("bad", TRUE)>>, <<Ban("s", FALSE), Ban("lo", TRUE)>>}}),
    Json("get_bans", {<<>>}),
    Json("banned", {[address |-> h] : h \in {"h1", "h2", "bad"}}),
    Json("flush_txpool", {[ids |-> i] : i \in {<<>>, <<"t4">>, <<"bad">>, <<"bad", "t1">>}}),
    Json("relay_tx", {[ids |-> i] : i \in {<<"t4">>, <<"bad", "t4">>}}),
    Plain("pop_blocks", {[nblocks |-> 1], [nblocks |-> 9]}),
    Json("flush_cache", {[bad_txs |-> TRUE, bad_blocks |-> FALSE]}),
    Plain("get_peer_list", {<<>>}), Json("get_connections", {<<>>}),
    Json("get_version", {<<>>}), Json("sync_info", {<<>>}),
    Plain("get_nothing", {<<>>})}

MCNumeral == ("0" :> 0 @@ "1" :> 1 @@ "9" :> 9)
MCHashes == MCTxs \cup {"k1", "k4", "a1", "b1"}
MCCommands ==
    {<<c>> : c \in {"help", "peer-list", "connections", "block", "tx", "is-spent",
                    "start-mining", "stop-mining", "mining-status", "pool-verbose", "pool",
                    "diff", "status", "banned", "ban", "flush-tx", "emission", "relay-tx",
                    "sync-info", "version", "flush-cache", "frob"}} \cup
    {<<"block", x>> : x \in {"1", "b1", "x"}} \cup
    {<<"tx", x>> : x \in {"t1", "t3", "t4", "x"}} \cup
    {<<"is-spent", x>> : x \in {"k1", "k4", "x"}} \cup
    {<<"start-mining", x>> : x \in {"main", "sub", "bad"}} \cup
    {<<c, x>> : c \in {"ban", "unban", "is-banned"}, x \in {"h1", "h2", "s"}} \cup
    {<<"flush-tx", x>> : x \in {"t4", "bad"}} \cup
    {<<"relay-tx", x>> : x \in {"t4", "bad"}} \cup
    {<<"pop-blocks", x>> : x \in {"0", "1", "x"}} \cup
    {<<"peer-list", "white", "1">>, <<"peer-list", "black">>, <<"pool", "x">>,
     <<"ban", "h1", "0">>, <<"ban", "h1", "1">>, <<"start-mining", "main", "9">>,
     <<"emission", "0">>, <<"emission", "1", "1">>, <<"flush-cache", "bad-txs">>}

-----------------------------------------------------------------------------
\* Relay: three nodes in a line, of which the last takes whole blocks only.

MCSize == [t1 |-> 1, t2 |-> 1, t3 |-> 9, t4 |-> 1]
MCLinks == {{"p", "q"}, {"q", "r"}}

Pools(p, q, r) == [p |-> p, q |-> q, r |-> r]
NoTxs == << >>
Submits(n, t, m) == [kind |-> "submit", node |-> n, tx |-> t, method |-> m]
Finds(n, b) == [kind |-> "find", node |-> n, block |-> b]
Expires(n, t) == [kind |-> "expire", node |-> n, tx |-> t]
Asks(n, p) == [kind |-> "ask", node |-> n, peer |-> p]

One == "t1" :> "fluff"
Four == "t4" :> "fluff"
Both == One @@ "t2" :> "fluff"
MCScenarios == {
    \* nothing
    [pools |-> Pools(NoTxs, NoTxs, NoTxs), todo |-> {}],
    \* transactions and the block that holds them, at the same time
    [pools |-> Pools("t2" :> "fluff", "t2" :> "fluff", NoTxs),
     todo |-> {Submits("p", "t1", "local"), Finds("p", "a1")}],
    \* two blocks in a row, of which one has a transaction nobody else knows
    [pools |-> Pools(One @@ "t2" :> "none" @@ Four, One @@ Four, One @@ Four),
     todo |-> {Finds("p", "a1"), Finds("p", "a2")}],
    \* a fork whose sides differ in work
    [pools |-> Pools(Both, One, Both),
     todo |-> {Finds("p", "e1"), Finds("r", "a1")}],
    \* private transactions, pools that are asked for, and one that is too big
    [pools |-> Pools("t2" :> "none", "t1" :> "fluff", NoTxs),
     todo |-> {Asks("q", "p"), Asks("r", "q"), Submits("q", "t3", "local"),
               Submits("r", "t2", "none")}],
    \* transactions that time out while a block with them is under way
    [pools |-> Pools(Both, Both, Both),
     todo |-> {Finds("p", "a1"), Expires("q", "t1"), Submits("r", "t1", "none")}]}

-----------------------------------------------------------------------------
\* WalletCli: three transfers on the chain for two accounts, one of which is a
\* transfer of the wallet's own that the cache still has as pending.

Seen(i, k, major, minor, h, t) ==
    [id |-> i, kind |-> k, major |-> major, minors |-> {minor}, height |-> h, time |-> t,
     amount |-> 5, spent |-> i = 2]
MCOnChain == {Seen(1, "in", 0, 0, 1, 9), Seen(2, "block", 0, 1, 2, 8), Seen(3, "out", 0, 0, 2, 7),
              Seen(4, "in", 1, 1, 3, 6)}
MCInMempool == {Seen(5, "pool", 0, 1, 0, 5)}
MCUnmined == {Seen(3, "pending", 0, 0, 0, 4), Seen(6, "failed", 0, 0, 0, 3)}

NoOptions == [open |-> "", new |-> "", fromKey |-> "", restore |-> FALSE, lookahead |-> "",
              typed |-> "", seed |-> "good", key |-> "k", noRelay |-> FALSE]
Full == [NoFile EXCEPT !.secret = "w", !.labels = <<2, 1, 1>>, !.cached = TRUE, !.unmined = MCUnmined]
KeysOnly == [NoFile EXCEPT !.secret = "x"]
CacheOnly == [NoFile EXCEPT !.cached = TRUE, !.labels = <<1>>]
MCDisk == [W |-> Full, X |-> KeysOnly, Y |-> CacheOnly, Z |-> NoFile]

\* Starts: each option for each state of the files.
MCStarts ==
    {[NoOptions EXCEPT ![f] = n, !.restore = r] :
        f \in {"open", "new", "fromKey", "typed"}, n \in {"W", "X", "Y", "Z"}, r \in BOOLEAN} \cup
    {[NoOptions EXCEPT !.new = "Z", !.lookahead = "bad"], [NoOptions EXCEPT !.open = "W", !.lookahead = "2:2"],
     [NoOptions EXCEPT !.open = "W", !.new = "Z"], [NoOptions EXCEPT !.restore = TRUE, !.new = "Z", !.seed = "bad"],
     [NoOptions EXCEPT !.fromKey = "Z", !.key = ""], NoOptions}

PayLine == <<"transfer", "A", "5">>
MCSets ==
    {<<"set", "always-confirm-transfers", "0">>, <<"set", "store-tx-info", "maybe">>, <<"set", "priority", "normal">>,
     <<"set", "priority", "9">>, <<"set", "unit", "nanomero">>, <<"set", "subaddress-lookahead", "0:1">>,
     <<"set", "refresh-from-block-height", "2">>, <<"set", "frob", "1">>, <<"password">>}
MCShows ==
    {<<"show", w>> : w \in {"in", "out", "pending", "failed", "pool", "coinbase", "index=1", "index=x", "1"}} \cup
    {<<"show">>, <<"show", "all", "index=0", "1", "2">>, <<"show", "in", "2">>, <<"tx", "t2">>, <<"tx", "t3">>,
     <<"tx", "t9">>, <<"tx", "x">>, <<"in">>, <<"in", "available">>, <<"in", "unavailable", "verbose", "index=1">>,
     <<"in", "x">>, <<"balance">>, <<"balance", "x">>, <<"status">>, <<"seed">>, <<"stop-mining">>, <<"help">>, <<"frob">>, << >>, <<"refresh">>}
MCMoves ==
    {<<"account">>, <<"account", "new">>, <<"account", "switch", "2">>, <<"account", "switch", "9">>, <<"rescan">>,
     <<"rescan", "hard">>, <<"rescan", "x">>, <<"address">>, <<"address", "new">>, <<"address", "all">>,
     <<"address", "0", "9">>, <<"address", "9">>, <<"address", "device", "0">>, <<"account", "x">>, <<"account", "label", "1">>, <<"address", "x">>}
MCPays ==
    {PayLine, <<"transfer">>, <<"transfer", "A">>, <<"transfer", "index=0">>, <<"transfer", "index=0", "normal", "A", "5">>,
     <<"transfer", "A", "x">>, <<"transfer", "A", "5", "B", "1">>, <<"transfer", "default", "A", "5">>,
     <<"transfer", "index=x", "A", "5">>, <<"transfer", "B", "0">>}

Opened == [NoOptions EXCEPT !.open = "W"]
Sessions1(options, lines) == {[options |-> o, disk |-> MCDisk, lines |-> l] : o \in options, l \in lines}
MCSessions ==
    Sessions1(MCStarts, {<<>>, <<<<"account", "switch", "0">>, <<"show">>>>}) \cup
    Sessions1({Opened}, {<<a, b>> : a \in MCSets, b \in MCSets \cup MCPays} \cup {<<a, b>> : a \in MCPays, b \in MCShows} \cup
                        {<<<<"account", "switch", "2">>, a, b>> : a, b \in MCMoves} \cup {<<<<"exit">>>>, <<<<"exit", "x">>>>}) \cup
    Sessions1({[Opened EXCEPT !.noRelay = TRUE]}, {<<a, b>> : a, b \in MCPays})

MCNumberWord == ("0" :> 0 @@ "1" :> 1 @@ "2" :> 2 @@ "9" :> 9)
MCAmountWord == ("0" :> 0 @@ "1" :> 1 @@ "5" :> 5)
MCIndexWord == ("index=0" :> {0} @@ "index=1" :> {1} @@ "index=x" :> {})
MCTxidWord == ("t2" :> 2 @@ "t3" :> 3 @@ "t9" :> 9)
MCPairWord == ("2:2" :> <<2, 2>> @@ "0:1" :> <<0, 1>>)

-----------------------------------------------------------------------------
VARIABLE machine    \* the part that runs

servicesVars == <<machine, spend, ring, fileVars, pay, cliVars, relayVars, httpVars, shell>>

\* A part that does not run.
SpendOff == spend = [status |-> "off", txes |-> <<>>]
RingOff  == ring = [status |-> "off"]
RpcOff   == CliInit /\ node = Node0
RelayOff == RelayInit /\ todo = {}
ShellOff == shell = [Blank EXCEPT !.at = "failed"]

ServicesInit ==
    /\ FilesInit /\ TransferInit /\ HttpInit
    /\ machine \in {"spending", "rings", "files", "transfer", "rpc", "relay", "http", "shell"}
    /\ IF machine = "spending" THEN SpendInit ELSE SpendOff
    /\ IF machine = "rings" THEN RingsInit ELSE RingOff
    /\ IF machine = "rpc" THEN CliInit ELSE RpcOff
    /\ IF machine = "relay" THEN RelayInit ELSE RelayOff
    /\ IF machine = "shell" THEN ShellInit ELSE ShellOff

ServicesNext ==
    /\ UNCHANGED machine
    /\ \/ machine = "spending" /\ SpendNext
          /\ UNCHANGED <<ring, fileVars, pay, cliVars, relayVars, httpVars, shell>>
       \/ machine = "rings" /\ RingsNext
          /\ UNCHANGED <<spend, fileVars, pay, cliVars, relayVars, httpVars, shell>>
       \/ machine = "files" /\ FilesNext
          /\ UNCHANGED <<spend, ring, pay, cliVars, relayVars, httpVars, shell>>
       \/ machine = "transfer" /\ TransferNext
          /\ UNCHANGED <<spend, ring, fileVars, cliVars, relayVars, httpVars, shell>>
       \/ machine = "rpc" /\ CliNext
          /\ UNCHANGED <<spend, ring, fileVars, pay, relayVars, httpVars, shell>>
       \/ machine = "relay" /\ RelayNext
          /\ UNCHANGED <<spend, ring, fileVars, pay, cliVars, httpVars, shell>>
       \/ machine = "http" /\ HttpNext
          /\ UNCHANGED <<spend, ring, fileVars, pay, cliVars, relayVars, shell>>
       \/ machine = "shell" /\ ShellNext
          /\ UNCHANGED <<spend, ring, fileVars, pay, cliVars, relayVars, httpVars>>

ServicesSpec == ServicesInit /\ [][ServicesNext]_servicesVars

-----------------------------------------------------------------------------
\* A payment is split into transactions that pay everyone, use an output once and
\* have sound rings, and that every node accepts, or it fails for a good reason.
PaymentSound ==
    /\ EveryoneIsPaid /\ InputsOnce /\ FeesAreEnough /\ GivesUpLast
    /\ RingSound /\ RequestUniform /\ FailsWhenShort
    /\ TransferSound

\* What the daemon answers was so while it worked on the request, and what it says
\* it did is done.
AnswersTrue ==
    /\ RpcTypeOK /\ InfoTrue /\ IndicesBelong /\ BlocksConnect /\ EntriesTrue
    /\ NothingOverlooked /\ HeaderTrue /\ ServerSurvives /\ FlushExact /\ BansApplied
    /\ PoolCoherent /\ ReportsTrue /\ DoneIsDone

=============================================================================
