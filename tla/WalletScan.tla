----------------------------- MODULE WalletScan -----------------------------
(***************************************************************************)
(* What a wallet (tools::wallet2) knows, as a record, and the functions    *)
(* that bring it up to date: a transaction found in a block or in the      *)
(* pool, a block appended to the wallet's chain of hashes, and the         *)
(* removal of the blocks above a split.                                    *)
(*                                                                         *)
(* A block is its hash.  TxsOf gives the transactions of a block, the      *)
(* miner transaction first; Ins the outputs of this wallet whose key       *)
(* images a transaction reveals; Outs the outputs of a transaction that    *)
(* belong to this wallet, in their order.  An output has an amount, the    *)
(* account (major subaddress index) it was sent to and a one-time key,     *)
(* which also determines its key image.  Heights count from 0.             *)
(***************************************************************************)
EXTENDS Naturals, Sequences, FiniteSets, SequencesExt, FiniteSetsExt, TLC

CONSTANTS
    Genesis,        \* the hash of the genesis block
    TxsOf,          \* block -> sequence of its transactions
    Ins,            \* transaction -> set of our outputs it spends
    Outs,           \* transaction -> sequence of our outputs it creates
    MinerTxs,       \* the transactions that are miner transactions
    Amount,         \* output -> amount
    Account,        \* output -> account
    Key,            \* output -> one-time public key
    UnlockHeight,   \* transaction -> unlock_height
    YearBlocks,     \* tx_locked_one_year_away_in_blocks
    RefreshFrom,    \* m_refresh_from_block_height
    HistoryDense,   \* how many hashes of the history are consecutive (10)
    ReorgBuffer     \* config::lol::reorg_buffer

ASSUME WalletScanAssumption ==
    /\ RefreshFrom \in Nat /\ YearBlocks \in Nat
    /\ HistoryDense \in Nat /\ ReorgBuffer \in Nat \ {0}

Without(f, S) == [x \in DOMAIN f \ S |-> f[x]]

\* The containers of a new wallet; its hash chain holds the genesis block.
Cleared ==
    [chain |-> <<Genesis>>,     \* m_blockchain
     transfers |-> <<>>,        \* m_transfers
     images |-> <<>>,           \* m_output_key_images: key -> index
     keys |-> <<>>,             \* m_pub_keys: key -> index
     unconfirmed |-> <<>>,      \* m_unconfirmed_txs: tx -> state
     confirmed |-> <<>>,        \* m_confirmed_txs: tx -> height
     payments |-> {},           \* m_payments
     poolPayments |-> {},       \* m_unconfirmed_payments
     scanned |-> <<{}, {}>>]    \* m_scanned_pool_txs

-----------------------------------------------------------------------------
SetSpent(ts, i, h) == [ts EXCEPT ![i].spent = TRUE, ![i].spentHeight = h]

SetUnspent(ts, i) == [ts EXCEPT ![i].spent = FALSE, ![i].spentHeight = 0]

TxLockedTooFarAway(t, h) ==
    UnlockHeight[t] >= h /\ UnlockHeight[t] - h > YearBlocks

OurOuts(t, h) == IF TxLockedTooFarAway(t, h) THEN <<>> ELSE Outs[t]

\* A pending transaction found in a block becomes a confirmed one.
ProcessUnconfirmed(w, t, h) ==
    IF t \notin DOMAIN w.unconfirmed THEN w
    ELSE [w EXCEPT !.confirmed = IF t \in DOMAIN @ THEN @ ELSE (t :> h) @@ @,
                   !.unconfirmed = Without(@, {t})]

NewTransfer(t, o, h) ==
    [out |-> o, tx |-> t, height |-> h, amount |-> Amount[o],
     spent |-> FALSE, spentHeight |-> 0]

\* One received output o.  acc.got is what the transaction brings to each
\* account, acc.total is total_received_1.
ReceiveOutput(acc, t, o, h, pool) ==
    LET w == acc.w
        i == w.keys[Key[o]]
    IN  CASE Key[o] \notin DOMAIN w.keys ->
              [acc EXCEPT
                !.total = @ + Amount[o],
                !.w = IF pool THEN @
                      ELSE [@ EXCEPT
                             !.transfers = Append(@, NewTransfer(t, o, h)),
                             !.images = (Key[o] :> Len(w.transfers) + 1) @@ @,
                             !.keys = (Key[o] :> Len(w.transfers) + 1) @@ @]]
          [] Key[o] \in DOMAIN w.keys
             /\ (w.transfers[i].spent \/ w.transfers[i].amount >= Amount[o]) ->
              [acc EXCEPT !.got[Account[o]] = @ - Amount[o]]
          [] OTHER ->
              [acc EXCEPT
                !.got[Account[o]] = @ - w.transfers[i].amount,
                !.total = @ + (Amount[o] - w.transfers[i].amount),
                !.w = IF pool THEN @
                      ELSE [@ EXCEPT !.transfers[i] = NewTransfer(t, o, h)]]

Receive(w, t, h, pool) ==
    LET outs == OurOuts(t, h)
        To(a) == {o \in ToSet(outs) : Account[o] = a}
    IN  FoldLeft(LAMBDA acc, o : ReceiveOutput(acc, t, o, h, pool),
                 [w |-> w, total |-> 0, 
                  got |-> [a \in {Account[o] : o \in ToSet(outs)} |->
                             MapThenSumSet(LAMBDA o : Amount[o], To(a))]],
                 outs)

\* The inputs of t that are ours: those whose key image the wallet knows.
OurIns(w, t) == {o \in Ins[t] : Key[o] \in DOMAIN w.images}

\* The inputs found are marked spent and the transaction becomes an
\* outgoing one, unless it is only in the pool.
Spend(w, t, h, pool) ==
    IF pool \/ OurIns(w, t) = {} THEN w
    ELSE [w EXCEPT
           !.transfers = FoldSet(LAMBDA o, ts : SetSpent(ts, w.images[Key[o]], h),
                                 @, OurIns(w, t)),
           !.confirmed = (t :> h) @@ @]

\* The incoming payments: what the accounts other than the spending one got.
\* A payment is recorded for an account even when nothing is left of it.
PaymentsOf(got, t, h, spending) ==
    {[tx |-> t, account |-> a, amount |-> got[a], height |-> h] :
        a \in DOMAIN got \ spending}

\* emplace_or_replace: one entry for a transaction and an account.
EmplaceOrReplace(old, new) ==
    {p \in old : \A q \in new : <<p.tx, p.account>> # <<q.tx, q.account>>}
    \cup new

\* wallet2::process_new_transaction.  "consistent" is FALSE when the amounts
\* received disagree and the process exits.
ProcessNewTransaction(w, t, h, pool) ==
    LET start == IF t \in MinerTxs \/ pool THEN w ELSE ProcessUnconfirmed(w, t, h)
        r == Receive(start, t, h, pool)
        spent == Spend(r.w, t, h, pool)
        spending == {Account[o] : o \in OurIns(r.w, t)}
        new == PaymentsOf(r.got, t, h, spending)
    IN  [consistent |-> new = {} \/ r.total = SumFunction(r.got),
         w |-> IF pool
               THEN [spent EXCEPT !.poolPayments = EmplaceOrReplace(@, new)]
               ELSE [spent EXCEPT !.payments = @ \cup new]]

-----------------------------------------------------------------------------
ShouldSkipBlock(h) == h < RefreshFrom

\* wallet2::process_new_blockchain_entry
ProcessNewBlockchainEntry(w, b, h) ==
    LET scan == IF ShouldSkipBlock(h) THEN w
                ELSE FoldLeft(LAMBDA v, t : ProcessNewTransaction(v, t, h, FALSE).w,
                              w, TxsOf[b])
    IN  [scan EXCEPT !.chain = Append(@, b)]

\* The first transfer at or above a height; one past the last when none is.
FirstDetached(ts, h) ==
    LET above == {i \in DOMAIN ts : ts[i].height >= h}
    IN  IF above = {} THEN Len(ts) + 1 ELSE Min(above)

\* Mutant: outputs spent in the blocks given up stay spent.
DetachStaysSpent(w, h) ==
    LET start == FirstDetached(w.transfers, h)
        gone == {Key[w.transfers[i].out] : i \in start .. Len(w.transfers)}
        Reset(td) == IF td.spent /\ td.spentHeight >= h
                     THEN [td EXCEPT !.spent = FALSE, !.spentHeight = 0]
                     ELSE td
    IN  [w EXCEPT
          !.transfers = [i \in 1 .. start - 1 |-> @[i]],
          !.images = Without(@, gone),
          !.keys = Without(@, gone),
          !.chain = SubSeq(@, 1, h),
          !.payments = {p \in @ : p.height < h},
          !.confirmed = Without(@, {t \in DOMAIN @ : @[t] >= h})]

\* wallet2::detach_blockchain: the blocks from height h on are given up.
DetachBlockchain(w, h) ==
    LET start == FirstDetached(w.transfers, h)
        gone == {Key[w.transfers[i].out] : i \in start .. Len(w.transfers)}
        Reset(td) == IF td.spent /\ td.spentHeight >= h
                     THEN [td EXCEPT !.spent = FALSE, !.spentHeight = 0]
                     ELSE td
    IN  [w EXCEPT
          !.transfers = [i \in 1 .. start - 1 |-> Reset(@[i])],
          !.images = Without(@, gone),
          !.keys = Without(@, gone),
          !.chain = SubSeq(@, 1, h),
          !.payments = {p \in @ : p.height < h},
          !.confirmed = Without(@, {t \in DOMAIN @ : @[t] >= h})]

\* wallet2::process_parsed_blocks: the blocks of an answer that starts at
\* height start.  The result is "ok", "bounds" when the answer starts above
\* the wallet's chain, or "split" when its first block is not the wallet's.
ProcessParsedBlocks(w, start, blocks) ==
    LET Step(acc, b) ==
            LET h == acc.h
                v == acc.w
                next == [acc EXCEPT !.h = h + 1]
            IN  CASE acc.result # "ok" -> acc
                  [] acc.result = "ok" /\ h >= Len(v.chain) ->
                       [next EXCEPT !.w = ProcessNewBlockchainEntry(v, b, h)]
                  [] acc.result = "ok" /\ h < Len(v.chain) /\ v.chain[h + 1] = b ->
                       next
                  [] OTHER ->
                       IF h = start THEN [acc EXCEPT !.result = "split"]
                       ELSE [next EXCEPT !.w = ProcessNewBlockchainEntry(
                                                 DetachBlockchain(v, h), b, h)]
    IN  IF start >= Len(w.chain)
        THEN [w |-> w, h |-> start, result |-> "bounds"]
        ELSE FoldLeft(Step, [w |-> w, h |-> start, result |-> "ok"], blocks)

-----------------------------------------------------------------------------
RECURSIVE BackOffsets(_, _, _, _)
BackOffsets(offset, i, multiplier, size) ==
    CASE offset >= size -> <<>>
      [] offset < size /\ i < HistoryDense ->
           <<offset>> \o BackOffsets(offset + 1, i + 1, multiplier, size)
      [] OTHER ->
           <<offset>> \o BackOffsets(offset + 2 * multiplier, i + 1,
                                     2 * multiplier, size)

\* wallet2::get_short_chain_history: recent hashes first, then sparser ones,
\* the genesis block last.
GetShortChainHistory(c) ==
    LET offsets == BackOffsets(1, 0, 1, Len(c))
    IN  [k \in DOMAIN offsets |-> c[Len(c) - offsets[k] + 1]] \o <<c[1]>>

\* drop_from_short_history: the N oldest hashes before the genesis block.
DropFromShortHistory(ids, n) ==
    IF Len(ids) > n THEN SubSeq(ids, 1, Len(ids) - 1 - n) \o <<Last(ids)>> ELSE ids

\* The history of the next request: the last hashes of the blocks that are
\* being processed come first, the newest at the front.
NextHistory(ids, blocks) ==
    LET recent == SubSeq(blocks, Max({1, Len(blocks) - ReorgBuffer + 1}), Len(blocks))
    IN  Reverse(recent) \o DropFromShortHistory(ids, ReorgBuffer)

\* wallet2::is_transfer_unlocked of a transfer at the wallet's height.
IsTransferUnlocked(td, size, age, delta) ==
    /\ UnlockHeight[td.tx] = 0 \/ size + delta > UnlockHeight[td.tx]
    /\ td.height + age <= size

=============================================================================
