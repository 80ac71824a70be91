------------------------------- MODULE Wallet -------------------------------
(***************************************************************************)
(* A wallet that follows its daemon.  refresh() asks for the pool, then    *)
(* pulls batches of blocks: a thread of the pool asks for the next batch   *)
(* while the main thread processes the current one.  The daemon may switch *)
(* to another chain, and its pool may change, between any two requests.    *)
(* Requests fail, the user interrupts, the process dies and comes back     *)
(* with the cache it stored last.                                          *)
(***************************************************************************)
EXTENDS WalletScan

CONSTANTS
    Chains,         \* the chains the daemon may be on, by their difficulty
    OwnTxs,         \* the transactions this wallet may create
    Batch,          \* COMMAND_RPC_GET_BLOCKS_FAST_MAX_COUNT
    ScannedMax,     \* how many scanned pool transactions a set holds (5000)
    SpendableAge,   \* CRYPTONOTE_DEFAULT_TX_SPENDABLE_AGE
    AllowedDelta,   \* CRYPTONOTE_LOCKED_TX_ALLOWED_DELTA_BLOCKS
    MaxSwitches,    \* bound: changes of the daemon's chain
    MaxFaults       \* bound: failed requests, interrupts and crashes

VARIABLES
    top,        \* the daemon's main chain is Chains[top]
    pool,       \* the transactions of the daemon's pool
    sent,       \* the transactions of this wallet a daemon has accepted
    w,          \* the wallet (see WalletScan)
    disk,       \* the wallet as the cache file holds it
    pc,         \* where refresh() is
    r,          \* its local variables
    switches, faults

walletVars == <<top, pool, sent, w, disk, pc, r, switches, faults>>

Txs == DOMAIN Ins

daemon == Chains[top]

Mined(c) == UNION {ToSet(TxsOf[b]) : b \in ToSet(c)}

SpentBy(c) == UNION {Ins[t] : t \in Mined(c)}

Created(c) == UNION {ToSet(Outs[t]) : t \in Mined(c)}

\* The local variables of refresh() while it does not run.
NoRefresh ==
    [history |-> <<>>, blocks |-> <<>>, start |-> 0, next |-> <<>>, nextStart |-> 0,
     unset |-> TRUE, first |-> TRUE, last |-> FALSE, error |-> FALSE, pull |-> "none",
     tries |-> 0, poolTxs |-> {}, run |-> TRUE]

WalletInit ==
    /\ top \in DOMAIN Chains /\ Mined(daemon) \cap OwnTxs = {}
    /\ pool = {} /\ sent = {}
    /\ w = Cleared /\ disk = Cleared
    /\ pc = "idle" /\ r = NoRefresh
    /\ switches = 0 /\ faults = 0

-----------------------------------------------------------------------------
\* The daemon

Conflict(t, S) == \E u \in S \ {t} : Ins[t] \cap Ins[u] # {}

\* The daemon moves to a chain of more difficulty.  Transactions of the
\* blocks it leaves return to its pool, or do not when they expire; those
\* that are mined or conflict with mined ones leave it.
DaemonSwitches(i) ==
    LET c == Chains[i]
        back == (pool \cup Mined(daemon)) \ (Mined(c) \cup MinerTxs)
        fit == {t \in back : Ins[t] \subseteq Created(c) \ SpentBy(c)}
    IN  /\ switches < MaxSwitches
        /\ i > top
        /\ Mined(c) \cap OwnTxs \subseteq sent
        /\ \E kept \in {fit, fit \ OwnTxs} :
             /\ \A t \in kept : ~ Conflict(t, kept)
             /\ pool' = kept
        /\ top' = i
        /\ switches' = switches + 1
        /\ UNCHANGED <<sent, w, disk, pc, r, faults>>

\* The daemon takes a transaction whose inputs are on its chain, unspent
\* there and in its pool.
DaemonAccepts(t) ==
    /\ t \notin Mined(daemon)
    /\ Ins[t] \subseteq Created(daemon) \ SpentBy(daemon)
    /\ ~ Conflict(t, pool)

\* A transaction of somebody else, or of a copy of this wallet.
DaemonReceives(t) ==
    /\ t \notin pool /\ DaemonAccepts(t)
    /\ pool' = pool \cup {t}
    /\ UNCHANGED <<top, sent, w, disk, pc, r, switches, faults>>

\* A transaction leaves the pool without being mined.
DaemonDrops(t) ==
    /\ faults < MaxFaults
    /\ pool' = pool \ {t}
    /\ faults' = faults + 1
    /\ UNCHANGED <<top, sent, w, disk, pc, r, switches>>

\* Blockchain::find_blockchain_supplement: the first hash of the request
\* that is on the daemon's chain, as a height.
Supplement(ids) ==
    LET common == SelectInSeq(ids, LAMBDA id : Contains(daemon, id))
    IN  CHOOSE h \in 0 .. Len(daemon) - 1 : daemon[h + 1] = ids[common]

\* core_rpc_server::on_get_blocks
GetBlocks(ids) ==
    LET h == Supplement(ids)
        upTo == Min({h + Batch, Len(daemon)})
    IN  IF Head(ids) = Last(daemon)
        THEN [ok |-> TRUE, start |-> 0, blocks |-> <<>>, last |-> FALSE]
        ELSE [ok |-> TRUE, start |-> h, blocks |-> SubSeq(daemon, h + 1, upTo),
              last |-> upTo = Len(daemon)]

\* core_rpc_server::on_get_hashes: the hashes found are copied into the
\* answer only when the search fails.
GetHashes(ids) == <<>>

-----------------------------------------------------------------------------
\* refresh()

Goto(label, locals) == pc' = label /\ r' = locals

Alone == UNCHANGED <<top, pool, sent, switches>>

Quiet == Alone /\ UNCHANGED disk

\* An exception leaves refresh().
Fails ==
    /\ faults < MaxFaults
    /\ faults' = faults + 1
    /\ Goto("idle", NoRefresh)
    /\ Quiet /\ UNCHANGED w

RefreshStart ==
    /\ pc = "idle"
    /\ Goto(IF RefreshFrom > Len(w.chain) THEN "fast" ELSE "pool",
            [NoRefresh EXCEPT !.history = GetShortChainHistory(w.chain)])
    /\ Quiet /\ UNCHANGED <<w, faults>>

\* wallet2::fast_refresh: too few hashes end it.
FastRefresh ==
    /\ pc = "fast"
    /\ Len(GetHashes(r.history)) <= ReorgBuffer
    /\ Goto("pool", [r EXCEPT !.history = GetShortChainHistory(w.chain)])
    /\ Quiet /\ UNCHANGED <<w, faults>>

FastRefreshFails == pc = "fast" /\ Fails

\* stop() during the fast refresh
Stopped ==
    /\ pc = "pool" /\ ~ r.run
    /\ Goto("idle", NoRefresh)
    /\ Quiet /\ UNCHANGED <<w, faults>>

\* A round of the loop: the next batch is asked for, unless the current one
\* is the last.
Round(locals) ==
    Goto("process", [locals EXCEPT
           !.error = FALSE, !.next = <<>>, !.unset = TRUE,
           !.pull = IF locals.last THEN "none" ELSE "queued"])

\* The top of the loop.  It ends when stop() was called or there is nothing
\* left to process.
Top(locals) ==
    IF ~ locals.run \/ (~ locals.first /\ locals.blocks = <<>>)
    THEN Goto("finish", [NoRefresh EXCEPT !.run = locals.run,
                                          !.poolTxs = locals.poolTxs])
    ELSE Round(locals)

\* A pending transaction that is missing from the pool for the second time
\* is given up, and its inputs are unspent again.
GiveUp(v, t) ==
    [v EXCEPT
      !.unconfirmed[t] = "failed",
      !.transfers = [i \in DOMAIN @ |->
                       IF @[i].out \in Ins[t]
                       THEN [@[i] EXCEPT !.spent = FALSE, !.spentHeight = 0]
                       ELSE @[i]]]

MissingFromPool(v, t) ==
    CASE v.unconfirmed[t] = "pending" ->
           [v EXCEPT !.unconfirmed[t] = "pending_not_in_pool"]
      [] v.unconfirmed[t] = "pending_not_in_pool" -> GiveUp(v, t)
      [] OTHER -> v

KeepPoolTxs(v) == v

RemoveObsoletePoolTxs(v) ==
    [v EXCEPT !.poolPayments = {p \in @ : p.tx \in pool}]

\* A payment of ours to another account is shown there as an incoming one.
PaysOtherAccount(t) ==
    \E o \in ToSet(Outs[t]) : Account[o] \notin {Account[i] : i \in Ins[t]}

\* The transactions of the pool the wallet has yet to look at.
NewPoolTxs(v) ==
    {t \in pool : /\ t \notin v.scanned[1] \cup v.scanned[2]
                  /\ \A p \in v.poolPayments : p.tx # t
                  /\ t \notin DOMAIN v.unconfirmed \/ PaysOtherAccount(t)}

\* wallet2::update_pool_state, up to the list of transactions to ask for.
PoolHashes ==
    /\ pc = "pool" /\ r.run
    /\ LET missing == DOMAIN w.unconfirmed \ pool
           v == RemoveObsoletePoolTxs(
                  FoldSet(LAMBDA t, u : MissingFromPool(u, t), w, missing))
       IN  /\ w' = v
           /\ IF NewPoolTxs(v) = {} THEN Round(r)
              ELSE Goto("fetch", [r EXCEPT !.poolTxs = NewPoolTxs(v)])
    /\ Quiet /\ UNCHANGED faults

PoolHashesFail == pc = "pool" /\ r.run /\ Fails

\* The transactions asked for: one the daemon no longer knows spoils the
\* whole answer, one that was mined meanwhile is left out.
PoolFetch ==
    /\ pc = "fetch"
    /\ LET known == r.poolTxs \subseteq pool \cup Mined(daemon)
       IN  Top([r EXCEPT !.poolTxs = IF known THEN @ \cap pool ELSE {}])
    /\ Quiet /\ UNCHANGED <<w, faults>>

PoolFetchFails ==
    /\ pc = "fetch"
    /\ faults < MaxFaults
    /\ faults' = faults + 1
    /\ Top([r EXCEPT !.poolTxs = {}])
    /\ Quiet /\ UNCHANGED w

\* pull_and_parse_next_blocks, on a thread of the pool.  It clears the error
\* of the loop, which the main thread may have set.
Pulling(result) ==
    /\ r.pull = "queued"
    /\ r' = [r EXCEPT !.pull = "done", !.error = ~ result.ok, !.last = result.last,
                      !.history = NextHistory(@, r.blocks),
                      !.next = result.blocks, !.nextStart = result.start,
                      !.unset = ~ result.ok]
    /\ Quiet /\ UNCHANGED <<w, pc>>

PullNextBlocks ==
    /\ Pulling(GetBlocks(NextHistory(r.history, r.blocks)))
    /\ UNCHANGED faults

PullFails ==
    /\ Pulling([ok |-> FALSE, start |-> 0, blocks |-> <<>>, last |-> FALSE])
    /\ faults < MaxFaults
    /\ faults' = faults + 1

\* The answer starts above the wallet's chain: the chain is rebuilt from the
\* genesis block and the hashes it held.
ResetHashchain(v) == [v EXCEPT !.chain = <<Genesis>> \o @]

\* The main thread's share of one round of the loop.
Process ==
    /\ pc = "process"
    /\ \E res \in {ProcessParsedBlocks(v, r.start, r.blocks) : v \in {w}} :
         CASE r.first ->
                Goto("wait", r) /\ UNCHANGED w
           [] ~ r.first /\ res.result = "ok" ->
                Goto("wait", r) /\ w' = res.w
           [] ~ r.first /\ res.result = "split" ->
                Goto("wait", [r EXCEPT !.error = TRUE]) /\ UNCHANGED w
           [] OTHER ->
                /\ w' = ResetHashchain(w)
                /\ Goto("caught", [r EXCEPT
                     !.history = GetShortChainHistory(ResetHashchain(w).chain)])
    /\ Quiet /\ UNCHANGED faults

Joined == r.pull # "queued"

\* The next batch starts where this one did: the loop ends.  Without an
\* answer the height compared is not initialised.
SameStart ==
    /\ pc = "wait" /\ Joined
    /\ ~ r.first /\ (r.unset \/ r.start = r.nextStart)
    /\ Goto("finish", [NoRefresh EXCEPT !.run = r.run, !.poolTxs = r.poolTxs])
    /\ Quiet /\ UNCHANGED <<w, faults>>

\* The batch that was pulled becomes the current one; an error of either
\* thread is thrown.
NextRound ==
    /\ pc = "wait" /\ Joined
    /\ r.first \/ r.unset \/ r.start # r.nextStart
    /\ IF r.error THEN Goto("caught", r)
       ELSE Top([r EXCEPT !.first = FALSE, !.blocks = r.next, !.start = r.nextStart,
                          !.next = <<>>, !.nextStart = 0])
    /\ Quiet /\ UNCHANGED <<w, faults>>

\* An exception in the loop: another try, or it leaves refresh().
TryAgain ==
    /\ pc = "caught" /\ Joined
    /\ IF r.tries < ReorgBuffer
       THEN Top([NoRefresh EXCEPT !.tries = r.tries + 1, !.last = r.last,
                                  !.run = r.run, !.poolTxs = r.poolTxs,
                                  !.history = GetShortChainHistory(w.chain)])
       ELSE Goto("idle", NoRefresh)
    /\ Quiet /\ UNCHANGED <<w, faults>>

\* wallet2::process_pool_state, one transaction.
ScanPoolTx(v, t) ==
    LET u == ProcessNewTransaction(v, t, 0, TRUE).w
        seen == u.scanned[1] \cup {t}
    IN  [u EXCEPT !.scanned = IF Cardinality(seen) > ScannedMax
                              THEN <<{}, seen>> ELSE <<seen, u.scanned[2]>>]

\* The end of refresh(); the handler of the request stores the wallet.
Finish ==
    /\ pc = "finish"
    /\ w' = IF r.run THEN FoldSet(LAMBDA t, v : ScanPoolTx(v, t), w, r.poolTxs) ELSE w
    /\ disk' = w'
    /\ Goto("idle", NoRefresh)
    /\ Alone /\ UNCHANGED faults

\* stop(), from the interrupt handler.
Stop ==
    /\ pc # "idle" /\ r.run
    /\ faults < MaxFaults
    /\ faults' = faults + 1
    /\ r' = [r EXCEPT !.run = FALSE]
    /\ Quiet /\ UNCHANGED <<w, pc>>

-----------------------------------------------------------------------------
\* The wallet's other operations

\* The transfer that holds an output; 0 when there is none.
TransferOf(v, o) == SelectInSeq(v.transfers, LAMBDA td : td.out = o)

\* create_transactions uses outputs that are unspent and unlocked.
Usable(v, o) ==
    LET i == TransferOf(v, o)
    IN  /\ i # 0
        /\ ~ v.transfers[i].spent
        /\ IsTransferUnlocked(v.transfers[i], Len(v.chain), SpendableAge, AllowedDelta)

MarkSpent(v, t) ==
    FoldSet(LAMBDA o, ts : SetSpent(ts, TransferOf(v, o), 0), v.transfers, Ins[t])

Recorded(v, t) ==
    [v EXCEPT !.unconfirmed = (t :> "pending") @@ @, !.transfers = MarkSpent(v, t)]

\* commit_tx: the daemon is told first; the handler then stores the wallet.
\* The answer may be lost, and the process may end before the wallet is
\* recorded or stored.
CommitTx(t) ==
    /\ pc = "idle"
    /\ t \notin sent
    /\ \A o \in Ins[t] : Usable(w, o)
    /\ DaemonAccepts(t)
    /\ sent' = sent \cup {t}
    /\ pool' = pool \cup {t}
    /\ \/ w' = Recorded(w, t) /\ disk' = w' /\ UNCHANGED faults
       \/ /\ faults < MaxFaults
          /\ faults' = faults + 1
          /\ w' \in {w, disk}
          /\ UNCHANGED disk
    /\ UNCHANGED <<top, pc, r, switches>>

\* The process ends and the wallet is loaded again.
Reload ==
    /\ faults < MaxFaults
    /\ faults' = faults + 1
    /\ w' = disk
    /\ Goto("idle", NoRefresh)
    /\ Quiet

\* rescan_blockchain, soft
Rescan ==
    /\ pc = "idle"
    /\ faults < MaxFaults
    /\ faults' = faults + 1
    /\ w' = Cleared
    /\ UNCHANGED <<top, pool, sent, disk, pc, r, switches>>

Refresh ==
    \/ RefreshStart \/ FastRefresh \/ Stopped \/ PoolHashes \/ PoolFetch
    \/ Process \/ SameStart \/ NextRound \/ TryAgain \/ Finish

Fault ==
    \/ FastRefreshFails \/ PoolHashesFail \/ PoolFetchFails \/ PullFails
    \/ Stop \/ Reload \/ Rescan

WalletNext ==
    \/ \E i \in DOMAIN Chains : DaemonSwitches(i)
    \/ \E t \in Txs \ (OwnTxs \cup MinerTxs) : DaemonReceives(t)
    \/ \E t \in pool : DaemonDrops(t)
    \/ Refresh \/ PullNextBlocks \/ Fault
    \/ \E t \in OwnTxs : CommitTx(t)

\* Refresh has a step to take: it does not wait for the thread that pulls.
RefreshReady == pc \in {"wait", "caught"} => r.pull # "queued"

\* The wallet is refreshed again and again and its threads are scheduled:
\* weak fairness of Refresh, each step of which moves pc, and of
\* PullNextBlocks, which is enabled until the request is answered.
WalletSpec ==
    /\ WalletInit /\ [][WalletNext]_walletVars
    /\ []<>~ RefreshReady \/ []<><<pc' # pc>>_pc
    /\ []<>(r.pull # "queued")

-----------------------------------------------------------------------------
\* Properties

\* The wallet's record of a chain, scanned from the genesis block on.
Scanned(c) ==
    FoldLeftDomain(LAMBDA v, i : IF i = 1 THEN v
                                 ELSE ProcessNewBlockchainEntry(v, c[i], i - 1),
                   Cleared, c)

Received(v) ==
    <<[i \in DOMAIN v.transfers |-> <<v.transfers[i].out, v.transfers[i].height>>],
      v.images, v.keys, v.payments, v.confirmed>>

\* The genesis block is twice in the wallet's chain: heights are off by one.
HashchainReset == Len(w.chain) > 1 /\ w.chain[2] = Genesis

\* Following the daemon through splits leaves the same transfers, indexes of
\* key images and public keys, payments and outgoing transactions as a scan
\* of the chain the wallet holds (process_parsed_blocks, detach_blockchain),
\* as long as that chain was never rebuilt by the handler of
\* out_of_hashchain_bounds_error.
ScanExact == HashchainReset \/ Received(w) = Received(Scanned(w.chain))

Failed(v) == {t \in DOMAIN v.unconfirmed : v.unconfirmed[t] = "failed"}

Pending(v) == DOMAIN v.unconfirmed \ Failed(v)

\* An output is marked spent exactly when a block of the wallet's chain, at
\* the height recorded, or a pending transaction of ours spends it.  The one
\* exception is an input of a transaction update_pool_state gave up.
SpentExact ==
    HashchainReset \/
    \A i \in DOMAIN w.transfers :
        LET td == w.transfers[i]
            Spends(S) == \E t \in S : td.out \in Ins[t]
        IN  IF td.spent
            THEN IF td.spentHeight = 0 THEN Spends(Pending(w))
                 ELSE Spends(ToSet(TxsOf[w.chain[td.spentHeight + 1]]))
            ELSE Spends(Mined(w.chain)) => Spends(Failed(w))

\* The amounts a transaction brings to the accounts add up to what its
\* outputs bring, so that scanning a chain or a pool transaction never ends
\* the process (the check before the payments are recorded).
NeverExits ==
    \A t \in Txs : (ProcessNewTransaction(w, t, Len(w.chain), TRUE)).consistent

\* What the wallet shows is what its chain says.
WalletExact == ScanExact /\ SpentExact /\ NeverExits

\* Once the daemon's chain is stable and requests succeed, the wallet comes
\* to hold that chain for good, its pending transactions are not mined ones,
\* and the incoming payments it shows as unconfirmed are in the pool.
EventuallyCurrent ==
    <>[](\/ HashchainReset
         \/ /\ w.chain = daemon
            /\ Pending(w) \cap Mined(daemon) = {}
            /\ \A p \in w.poolPayments : p.tx \in pool)

=============================================================================
