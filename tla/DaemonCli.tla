----------------------------- MODULE DaemonCli -----------------------------
(***************************************************************************)
(* The command line client of the node: t_command_parser_executor turns    *)
(* the words of a command into a request, t_rpc_command_executor sends it  *)
(* to the RPC server and prints what came back.  A request or its answer   *)
(* may be lost; nothing is sent twice.                                     *)
(***************************************************************************)
EXTENDS RpcServer

CONSTANTS
    Commands,     \* the command lines that are entered, sequences of words
    Numeral,      \* word -> the number that it spells
    Hashes,       \* the words that parse_hash256 accepts
    DefaultBan    \* P2P_IP_BLOCKTIME

VARIABLE cli      \* [at, cmd, todo, got, said, exit]

cliVars == <<rpcVars, cli>>

\* What is printed: a message, and what it is about.
Text(m) == [text |-> m]
Invalid == Text("Invalid syntax")

Say(m) == [do |-> "say", said |-> m]
Ask(reqs) == [do |-> "ask", reqs |-> reqs]
To(m, plain, req) == [m |-> m, plain |-> plain, req |-> req]

IsNumber(w) == w \in DOMAIN Numeral

-----------------------------------------------------------------------------
\* t_rpc_command_executor: the requests of each of its members

GetInfo == Ask(<<To("get_info", TRUE, <<>>)>>)
GetPool == Ask(<<To("get_transaction_pool", TRUE, <<>>)>>)
ShowStatusRequests == Ask(<<To("get_info", TRUE, <<>>), To("mining_status", TRUE, <<>>)>>)
BlockByHash(id) == Ask(<<To("get_block", FALSE, [id |-> id, height |-> 0])>>)
BlockByHeight(h) == Ask(<<To("get_block", FALSE, [id |-> "", height |-> h])>>)
StartWith(address, threads) ==
    Ask(<<To("start_mining", TRUE, [address |-> address, threads |-> threads])>>)
SetBan(host, ban, seconds) ==
    Ask(<<To("set_bans", FALSE,
             [bans |-> <<[host |-> host, ip |-> "", ban |-> ban, seconds |-> seconds]>>])>>)
CoinbaseSum(height, count) ==
    IF height = 0 THEN Say(Text("The minimum starting height is 1."))
    ELSE Ask(<<To("get_coinbase_tx_sum", FALSE, [height |-> height, count |-> count])>>)

-----------------------------------------------------------------------------
\* t_command_parser_executor: one operator per member

Plainly(args, ask) == IF args = <<>> THEN ask ELSE Say(Invalid)

PrintPeerList(args) ==
    IF \/ Len(args) > 3
       \/ \E i \in DOMAIN args : args[i] \notin {"white", "gray"} /\ ~IsNumber(args[i])
    THEN Say(Invalid)
    ELSE Ask(<<To("get_peer_list", TRUE, <<>>)>>)

\* A word that is neither a number nor a hash is dropped without a message.
PrintBlock(args) ==
    IF args = <<>> \/ \E i \in 2..Len(args) : args[i] # "+hex" THEN Say(Invalid)
    ELSE IF IsNumber(args[1]) THEN BlockByHeight(Numeral[args[1]])
    ELSE IF args[1] \in Hashes THEN BlockByHash(args[1])
    ELSE Say(Text(""))

PrintTransaction(args) ==
    IF \/ args = <<>>
       \/ \E i \in 2..Len(args) : args[i] \notin {"+meta", "+hex", "+json"}
    THEN Say(Invalid)
    ELSE IF args[1] \in Hashes
    THEN Ask(<<To("get_transactions", TRUE, [ids |-> <<args[1]>>])>>)
    ELSE Say(Text(""))

IsOutputKeyImageSpent(args) ==
    IF args = <<>> THEN Say(Invalid)
    ELSE IF args[1] \in Hashes
    THEN Ask(<<To("is_output_key_image_spent", TRUE, [images |-> <<args[1]>>])>>)
    ELSE Say(Text(""))

StartMining(args) ==
    IF args = <<>> \/ args[1] = "bad" THEN Say(Invalid)
    ELSE IF args[1] = "sub" THEN Say(Text("subaddress for mining reward is not yet supported!"))
    ELSE IF Len(args) > 4 THEN Say(Invalid)
    ELSE LET given == Len(args) >= 2 /\ IsNumber(args[2]) /\ Numeral[args[2]] > 0
         IN StartWith(args[1], IF given THEN Numeral[args[2]] ELSE 1)

BanCommand(args) ==
    IF Len(args) \notin {1, 2} THEN Say(Invalid)
    ELSE IF Len(args) = 1 THEN SetBan(args[1], TRUE, DefaultBan)
    ELSE IF ~IsNumber(args[2]) THEN Say(Invalid)
    ELSE IF Numeral[args[2]] = 0 THEN Say(Text("Seconds must be greater than 0."))
    ELSE SetBan(args[1], TRUE, Numeral[args[2]])
Unban(args) == IF Len(args) # 1 THEN Say(Invalid) ELSE SetBan(args[1], FALSE, 0)
BannedCommand(args) ==
    IF Len(args) # 1 THEN Say(Invalid)
    ELSE Ask(<<To("banned", FALSE, [address |-> args[1]])>>)

\* The two commands that take a transaction's id refuse a word that is a hash.
FlushTxpool(args) ==
    IF Len(args) > 1 \/ (Len(args) = 1 /\ args[1] \in Hashes) THEN Say(Invalid)
    ELSE Ask(<<To("flush_txpool", FALSE, [ids |-> args])>>)
RelayTx(args) ==
    IF Len(args) # 1 \/ args[1] \in Hashes THEN Say(Invalid)
    ELSE Ask(<<To("relay_tx", FALSE, [ids |-> args])>>)

PrintCoinbaseTxSum(args) ==
    IF \E i \in 1..Min({2, Len(args)}) : ~IsNumber(args[i]) THEN Say(Invalid)
    ELSE CoinbaseSum(IF args = <<>> THEN 1 ELSE Numeral[args[1]],
                     IF Len(args) < 2 THEN 0 ELSE Numeral[args[2]])

PopBlocksCommand(args) ==
    IF Len(args) # 1 \/ ~IsNumber(args[1]) THEN Say(Invalid)
    ELSE IF Numeral[args[1]] < 1 THEN Say(Invalid)
    ELSE Ask(<<To("pop_blocks", TRUE, [nblocks |-> Numeral[args[1]]])>>)

FlushCacheCommand(args) ==
    IF args = <<>> \/ ~(ToSet(args) \subseteq {"bad-txs", "bad-blocks"}) THEN Say(Invalid)
    ELSE Ask(<<To("flush_cache", FALSE, [bad_txs |-> "bad-txs" \in ToSet(args),
                                         bad_blocks |-> "bad-blocks" \in ToSet(args)])>>)

\* The table of t_command_server.
Parse(name, args) ==
    CASE name = "help"          -> Say(Text("Commands"))
      [] name = "peer-list"     -> PrintPeerList(args)
      [] name = "connections"   -> Plainly(args, Ask(<<To("get_connections", FALSE, <<>>)>>))
      [] name = "block"         -> PrintBlock(args)
      [] name = "tx"            -> PrintTransaction(args)
      [] name = "is-spent"      -> IsOutputKeyImageSpent(args)
      [] name = "start-mining"  -> StartMining(args)
      [] name = "stop-mining"   -> Plainly(args, Ask(<<To("stop_mining", TRUE, <<>>)>>))
      [] name = "mining-status" -> Ask(<<To("mining_status", TRUE, <<>>)>>)
      [] name = "pool-verbose"  -> Plainly(args, GetPool)
      [] name = "pool"          -> Plainly(args, GetPool)
      [] name = "diff"          -> Plainly(args, GetInfo)
      [] name = "status"        -> Plainly(args, ShowStatusRequests)
      [] name = "banned"        -> Plainly(args, Ask(<<To("get_bans", FALSE, <<>>)>>))
      [] name = "ban"           -> BanCommand(args)
      [] name = "unban"         -> Unban(args)
      [] name = "is-banned"     -> BannedCommand(args)
      [] name = "flush-tx"      -> FlushTxpool(args)
      [] name = "emission"      -> PrintCoinbaseTxSum(args)
      [] name = "relay-tx"      -> RelayTx(args)
      [] name = "sync-info"     -> Plainly(args, Ask(<<To("sync_info", FALSE, <<>>)>>))
      [] name = "pop-blocks"    -> PopBlocksCommand(args)
      [] name = "version"       -> GetInfo
      [] name = "flush-cache"   -> FlushCacheCommand(args)
      [] OTHER                  -> [do |-> "unknown"]

-----------------------------------------------------------------------------
\* t_rpc_command_executor: what its members print of a usable answer

Usable(r) == r # <<>> /\ r.ok /\ r.status = "OK"

ShowTx(r) ==
    IF Len(r.entries) # 1 THEN Text("Transaction wasn't found")
    ELSE IF r.entries[1].in_pool THEN Text("Found in pool")
    ELSE [text |-> "Found in blockchain", height |-> r.entries[1].height]

ShowSpent(r) == Text(r.spent[1])
ShowPool(r) == IF r.txs = {} THEN Text("Pool is empty") ELSE [text |-> "ids", txs |-> r.txs]
ShowPoolLong(r) ==
    IF r.txs = {} /\ r.images = {} THEN Text("Pool is empty")
    ELSE IF r.txs = {} \/ r.images = {} THEN Text("WARNING: Inconsistent pool state")
    ELSE [text |-> "Transactions", txs |-> r.txs, images |-> r.images]
ShowBans(r) ==
    IF r.bans = <<>> THEN Text("No IPs are banned") ELSE [text |-> "banned for", bans |-> r.bans]
ShowBanned(r) == Text(IF r.banned THEN "is banned" ELSE "is not banned")
ShowDifficulty(r) == [text |-> "BH", height |-> r.height, top |-> r.top, work |-> r.work]
ShowMiningStatus(r) ==
    IF ~Usable(r) THEN Text("Mining info unavailable")
    ELSE Text(IF r.active THEN "Mining at" ELSE "Not currently mining")

\* A target below the height is shown as the height.
ShowStatus(r, mining) ==
    [text |-> "Height", height |-> r.height, net |-> Max({r.height, r.target}),
     mining |-> IF ~Usable(mining) THEN "unavailable"
                ELSE IF mining.active THEN "mining" ELSE "not mining"]
ShowSyncInfo(r) ==
    [text |-> "Height", height |-> r.height, net |-> Max({r.height, r.target}),
     peers |-> Cardinality(r.peers)]

\* Without "white" or "gray" both lists are shown.
ShowPeerList(r, words) ==
    [text |-> "peers",
     peers |-> (IF "white" \in words \/ "gray" \notin words THEN r.white ELSE {}) \cup
               (IF "gray" \in words \/ "white" \notin words THEN r.gray ELSE {})]

Show(cmd, got) ==
    LET name == cmd[1]
        r == got[1]
    IN CASE name = "mining-status" -> ShowMiningStatus(r)
         [] ~Usable(r)             -> Text("Unsuccessful")
         [] name = "status"        -> ShowStatus(r, got[2])
         [] name = "peer-list"     -> ShowPeerList(r, ToSet(Tail(cmd)))
         [] name = "connections"   -> [text |-> "Remote Host", connections |-> r.connections]
         [] name = "block"         -> [text |-> "header", header |-> r.header]
         [] name = "tx"            -> ShowTx(r)
         [] name = "is-spent"      -> ShowSpent(r)
         [] name = "pool"          -> ShowPool(r)
         [] name = "pool-verbose"  -> ShowPoolLong(r)
         [] name = "diff"          -> ShowDifficulty(r)
         [] name = "banned"        -> ShowBans(r)
         [] name = "is-banned"     -> ShowBanned(r)
         [] name = "start-mining"  -> Text("Mining started")
         [] name = "stop-mining"   -> Text("Mining stopped")
         [] name = "flush-tx"      -> Text("Pool successfully flushed")
         [] name = "emission"      -> [text |-> "sum", emission |-> r.emission, fees |-> r.fees]
         [] name = "relay-tx"      -> Text("Transaction successfully relayed")
         [] name = "sync-info"     -> ShowSyncInfo(r)
         [] name = "pop-blocks"    -> [text |-> "new height", height |-> r.height]
         [] OTHER                  -> Text("")    \* ban, unban, flush-cache; version

-----------------------------------------------------------------------------

NoCommand == [at |-> "idle"]

\* Main ends with 0 unless the command is unknown; a peer list that cannot be
\* fetched is reported as an unknown command too.
Ends(c, said) ==
    cli' = [c EXCEPT !.at = "done", !.said = said,
                     !.exit = IF c.cmd[1] = "peer-list" /\ said.text = "Unsuccessful"
                              THEN 1 ELSE 0]

Enter(cmd) ==
    /\ cli = NoCommand
    /\ LET p == Parse(cmd[1], Tail(cmd))
           c == [at |-> "send", cmd |-> cmd, todo |-> <<>>, got |-> <<>>,
                 said |-> Text(""), exit |-> 0]
       IN CASE p.do = "say"     -> Ends(c, p.said)
            [] p.do = "unknown" -> cli' = [c EXCEPT !.at = "done", !.exit = 1,
                                                    !.said = Text("Unknown command")]
            [] OTHER            -> cli' = [c EXCEPT !.todo = p.reqs]
    /\ UNCHANGED rpcVars

Send ==
    /\ cli.at = "send" /\ ~Running
    /\ LET r == Head(cli.todo) IN Serve(r.m, r.plain, r.req)
    /\ cli' = [cli EXCEPT !.at = "wait", !.todo = Tail(@)]

\* One answer came, or none did.  show_status goes on to its second request
\* only after the first was answered.
Take(rest, r) ==
    LET c == [cli EXCEPT !.todo = rest, !.got = Append(@, r)]
    IN IF rest # <<>> /\ Usable(r) THEN cli' = [c EXCEPT !.at = "send"]
       ELSE Ends(c, IF rest # <<>> THEN Text("Unsuccessful") ELSE Show(c.cmd, c.got))
Receive ==
    /\ cli.at = "wait" /\ call.at = "done"
    /\ Take(cli.todo, call.res)
    /\ UNCHANGED rpcVars

\* The request does not reach the server, or its answer does not come back.
Lost ==
    /\ \/ cli.at = "send" /\ Take(Tail(cli.todo), <<>>)
       \/ cli.at = "wait" /\ Take(cli.todo, <<>>)
    /\ UNCHANGED rpcVars

CliInit == RpcInit /\ cli = NoCommand
\* Either another program sends one request, or one command is entered.
CliNext ==
    \/ cli = NoCommand /\ call = Idle /\ Request /\ UNCHANGED cli
    \/ call = Idle /\ \E cmd \in Commands : Enter(cmd)
    \/ Send \/ Receive \/ Lost
    \/ (Handle \/ NodeStep) /\ UNCHANGED cli
CliSpec == CliInit /\ [][CliNext]_cliVars

-----------------------------------------------------------------------------
\* Properties

Printed(name, text) == cli.at = "done" /\ cli.cmd[1] = name /\ cli.said.text = text

(* What the client prints was so at some moment while the server worked on the    *)
(* request, whatever the node did meanwhile; a transaction that "wasn't found" or *)
(* an image reported unspent was absent for a moment or moved from the pool to    *)
(* the chain; the inconsistent pool that pool-verbose can warn of is never seen.  *)
(* (rpc_command_executor.cpp:488, 553, 583, 956)                                  *)
ReportsTrue ==
    LET said == cli.said
        arg == cli.cmd[2]
    IN /\ Printed("tx", "Found in blockchain") =>
            \E n \in During : HaveTx(n, arg) /\ TxBlockHeight(n, arg) = said.height
       /\ Printed("tx", "Found in pool") => \E n \in During : InPool(n, arg)
       /\ Printed("tx", "Transaction wasn't found") => Moved(HaveTx, InPool, arg)
       /\ Printed("is-spent", "unspent") => Moved(HaveKeyImageAsSpent, ImagePooled, arg)
       /\ \A c \in {"pool", "pool-verbose"} :
            Printed(c, "Pool is empty") => \E n \in During : n.pool = <<>>
       /\ ~Printed("pool-verbose", "WARNING: Inconsistent pool state")
       /\ Printed("pop-blocks", "new height") => \E n \in During : Height(n) = said.height
       /\ Printed("is-banned", "is not banned") => \E n \in During : BanOf(n, arg) = {}

(* A command that changes the node and reports no failure has changed it: mining  *)
(* runs or stopped, the host is banned or free again, the pool holds nothing that *)
(* it held when the request came.  (rpc_command_executor.cpp:690, 751, 817)       *)
DoneIsDone ==
    LET n == Last(call.seen)
        arg == cli.cmd[2]
    IN /\ Printed("start-mining", "Mining started") => n.mining > 0
       /\ Printed("stop-mining", "Mining stopped") => n.mining = 0
       /\ Printed("ban", "") /\ arg \in Blockable => arg \in DOMAIN n.hosts
       /\ Printed("unban", "") => arg \notin DOMAIN n.hosts \cup DOMAIN n.subnets
       /\ Printed("flush-tx", "Pool successfully flushed") =>
            \A t \in DOMAIN n.pool : \E m \in During : ~InPool(m, t)

=============================================================================
