------------------------------ MODULE Transfer ------------------------------
(***************************************************************************)
(* Money from the miner's reward to a receiver's balance: a coinbase       *)
(* transaction is made and checked, a wallet builds a RingCT transaction   *)
(* that spends what it owns, a node checks it, a block confirms it and     *)
(* every wallet scans it.                                                  *)
(*                                                                         *)
(*  - cryptonote/tx/functional/tx_utils.cpp    construct_tx_with_tx_key,   *)
(*                                             construct_miner_tx          *)
(*  - cryptonote/basic/functional/tx_extra.cpp, format_utils.cpp           *)
(*  - cryptonote/core/cryptonote_core.cpp, blockchain.cpp    the checks    *)
(*  - math/consensus, math/blockchain          the numbered rules          *)
(*  - wallet/logic/functional/wallet.cpp, wallet/api/wallet2.cpp  the scan *)
(*                                                                         *)
(* An address is [account, index]; indexes are <<major, minor>>.  A        *)
(* transaction's extra is a sequence of fields [tag, keys].                *)
(***************************************************************************)
EXTENDS Consensus

CONSTANTS
    Accounts, Miners,   \* Miners \subseteq Accounts: whose addresses blocks pay
    AccountKeys,        \* [Accounts -> [spend, view]]: the secret keys
    SubaddressIndexes,  \* the indexes in every wallet's m_subaddresses
    Rand(_, _),         \* the k-th scalar crypto::randomScalar gives in the n-th construction
    RingSize,           \* config::lol::mixin + 1
    TxSpendableAge,       \* CRYPTONOTE_DEFAULT_TX_SPENDABLE_AGE
    Fees,               \* the fees a wallet may choose
    MaxHeight, MaxAttempts, MaxConstructions    \* bounds

VARIABLE pay

KeyPrefix == 12

PublicAddress(a) == get_subaddress(AccountKeys[a.account], a.index)

-----------------------------------------------------------------------------
(* tx_extra.cpp                                                            *)

add_tx_ecdh_public_key_to_extra(extra, key) == Append(extra, [tag |-> "pubkey", keys |-> <<key>>])
add_output_ecdh_public_keys_to_extra(extra, keys) == Append(extra, [tag |-> "output_keys", keys |-> keys])

\* the fields that stay are appended to a copy of all of them
remove_field_from_tx_extra(extra, tag) ==
    extra \o SelectSeq(extra, LAMBDA f : f.tag # tag)

\* the first field of a type, when all its points are safe
field_keys(extra, tag) ==
    LET at == {i \in DOMAIN extra : extra[i].tag = tag}
        keys == extra[CHOOSE i \in at : \A j \in at : i <= j].keys
    IN  IF at = {} \/ \E i \in DOMAIN keys : ~is_safe_point(keys[i]) THEN NoPair ELSE keys

get_all_output_ecdh_public_keys_from_extra(extra, output_count) ==
    LET own == field_keys(extra, "output_keys")
        shared == field_keys(extra, "pubkey")
    IN  IF own # NoPair /\ Len(own) = output_count THEN own
        ELSE IF shared # NoPair THEN [i \in 1..output_count |-> shared[1]]
        ELSE NoPair

-----------------------------------------------------------------------------
(* format_utils.cpp and the wallet's lookups                               *)

Subaddresses(a) == {<<get_subaddress(AccountKeys[a], i).m_spend_public_key, i>> : i \in SubaddressIndexes}

\* the index the output pays to, NoPair if it is not ours; output_index counts from 0
check_output_for_subaddresses(a, key, secret, output_index) ==
    LET spend == compute_subaddress_spend_pk_from_output_public_key(secret, output_index, key)
        at == {s \in Subaddresses(a) : spend # NoScalar /\ s[1] = spend}
    IN  IF at = {} THEN NoPair ELSE (CHOOSE s \in at : TRUE)[2]

\* [sec, pub, image], NoRecord when the derived key is not the output's
derive_output_key_pair_and_key_image(a, key, secret, output_index, index) ==
    LET sec == compute_output_secret_key_from_subaddress_spend_sk
                 (secret, output_index, get_subaddress_spend_secret_key(AccountKeys[a], index))
    IN  IF to_pk(sec) # key THEN NoRecord
        ELSE [sec |-> sec, pub |-> to_pk(sec), image |-> derive_key_image(sec)]

\* the same for a source, from the funding transaction's extra
derive_with_internal_checking_output_key_pair_and_key_image(a, key, extra, output_index) ==
    LET own == field_keys(extra, "output_keys")
        shared == field_keys(extra, "pubkey")
        tx_key == IF output_index < Len(own) THEN own[output_index + 1] ELSE shared[1]
        secret == derive_tx_output_ecdh_shared_secret(tx_key, AccountKeys[a].view)
        index == check_output_for_subaddresses(a, key, secret, output_index)
    IN  IF (output_index >= Len(own) /\ shared = NoPair) \/ index = NoPair THEN NoRecord
        ELSE derive_output_key_pair_and_key_image(a, key, secret, output_index, index)

absolute_output_offsets_to_relative(offs) ==
    LET s == SortSeq(offs, <)
    IN  [i \in DOMAIN s |-> IF i = 1 THEN s[1] ELSE s[i] - s[i - 1]]

relative_output_offsets_to_absolute(offs) ==
    [i \in DOMAIN offs |-> FoldLeft(+, 0, SubSeq(offs, 1, i))]

get_transaction_prefix_hash(tx) ==
    Hash(<<KeyPrefix>>
         \o vector_concat([i \in DOMAIN tx.vin |-> <<tx.vin[i].image>> \o tx.vin[i].offsets])
         \o [i \in DOMAIN tx.vout |-> tx.vout[i].key]
         \o vector_concat([i \in DOMAIN tx.extra |-> tx.extra[i].keys]))

-----------------------------------------------------------------------------
(* Building (tx_utils.cpp)                                                 *)

\* one output: its one-time key, the key in extra, and the hashed shared secret
generate_output_key_pairs(dst, output_index, sk) ==
    LET addr == PublicAddress(dst)
        secret == derive_tx_output_ecdh_shared_secret(addr.m_view_public_key, sk)
    IN  [key |-> compute_output_public_key_from_subaddress_spend_pk
                   (secret, output_index, addr.m_spend_public_key),
         pub |-> IF dst.index # <<0, 0>> THEN mult(sk, addr.m_spend_public_key) ELSE to_pk(sk),
         hashed |-> hash_tx_output_shared_secret_to_scalar(secret, output_index)]

\* inputs go by descending key image
get_sorted_permutation(images) ==
    SortSeq(Indices(Len(images)), LAMBDA i, j : ~(images[i] < images[j]))

apply_permutation(perm, xs) == [i \in DOMAIN perm |-> xs[perm[i]]]

\* construct_tx_with_tx_key up to the range proof.  A source is
\* [amount, mask, offsets, outputs, real_output, extra, position]: the ring with its
\* global offsets, which member is real, and the transaction it came in.
construct_tx_inputs(a, sources) ==
    LET derived == [i \in DOMAIN sources |->
            derive_with_internal_checking_output_key_pair_and_key_image
              (a, sources[i].outputs[sources[i].real_output].output_public_key,
               sources[i].extra, sources[i].position)]
        perm == get_sorted_permutation([i \in DOMAIN sources |-> derived[i].image])
    IN  IF sources = <<>> \/ \E i \in DOMAIN derived : derived[i] = NoRecord THEN NoPair
        ELSE apply_permutation(perm, [i \in DOMAIN sources |->
               [image |-> derived[i].image,
                offsets |-> absolute_output_offsets_to_relative(sources[i].offsets),
                amount |-> sources[i].amount, signer_sk |-> derived[i].sec,
                signer_blinding_factor |-> sources[i].mask,
                index_in_decoys |-> sources[i].real_output, decoys |-> sources[i].outputs]])

construct_tx_with_tx_key(a, sources, dsts, extra, sks) ==
    LET ins == construct_tx_inputs(a, sources)
        outs == [i \in DOMAIN dsts |-> generate_output_key_pairs(dsts[i], i - 1, sks[i])]
        cleaned == remove_field_from_tx_extra(remove_field_from_tx_extra(extra, "pubkey"), "output_keys")
        amount_in == FoldLeft(+, 0, [i \in DOMAIN sources |-> sources[i].amount])
        amount_out == FoldLeft(+, 0, [i \in DOMAIN dsts |-> dsts[i].amount])
        tx == [vin |-> [i \in DOMAIN ins |-> [image |-> ins[i].image, offsets |-> ins[i].offsets]],
               vout |-> [i \in DOMAIN outs |-> [key |-> outs[i].key, amount |-> 0]],
               extra |-> add_output_ecdh_public_keys_to_extra
                           (cleaned, [i \in DOMAIN outs |-> outs[i].pub]),
               unlock |-> 0]
    IN  IF ins = NoPair \/ amount_out > amount_in \/ \E i \in DOMAIN outs : outs[i].key = NoScalar
        THEN NoRecord
        ELSE [tx |-> tx, inputs |-> ins, fee |-> amount_in - amount_out,
              outputs |-> [i \in DOMAIN outs |-> [amount |-> dsts[i].amount, secret |-> outs[i].hashed]]]

construct_miner_tx(height, fee, miner, generated, sk) ==
    LET addr == PublicAddress(miner)
        secret == derive_tx_output_ecdh_shared_secret(addr.m_view_public_key, sk)
    IN  [vin |-> <<[height |-> height]>>, unlock |-> height + CoinbaseUnlockTime,
         vout |-> <<[key |-> compute_output_public_key_from_subaddress_spend_pk
                               (secret, 0, addr.m_spend_public_key),
                     amount |-> Amount(get_block_reward(generated) + fee)]>>,
         extra |-> add_tx_ecdh_public_key_to_extra(<<>>, to_pk(sk))]

-----------------------------------------------------------------------------
(* A node's checks.  The verdict is "ok" or the first check that fails.    *)

prevalidate_miner_transaction(cb, height) == maybe_coinbase_tx(cb) /\ cb.vin[1].height = height

\* the block's size is not modelled: rule 6 is the pool's
validate_miner_transaction(cb, fee, generated) ==
    rule_19_coinbase_tx_should_be_balanced(AmountsOf(cb), fee, generated)

check_outs_valid(tx) == check_tx_output_points(tx)

check_ringct_inputs_keyimages_diff(tx) ==
    rule_8_ringct_input_key_images_should_be_unique([i \in DOMAIN tx.vin |-> tx.vin[i].image])

check_ringct_inputs_ring_members_diff(tx) ==
    \A i \in DOMAIN tx.vin :
        rule_7_ringct_input_decoys_offsets_should_not_be_zero_except_the_first_one(tx.vin[i].offsets)

\* the limit on the weight is the pool's
check_ringct_semantic(tx) ==
    /\ rule_25_ringct_should_have_at_least_one_input(tx.vin)
    /\ check_outs_valid(tx)
    /\ Len(tx.rct.output_commits) = Len(tx.vout)
    /\ check_ringct_inputs_keyimages_diff(tx)
    /\ check_ringct_inputs_ring_members_diff(tx)
    /\ are_ringct_input_types_valid(tx.vin)

check_ringct_outputs(tx) ==
    /\ \A i \in DOMAIN tx.vout : tx.vout[i].amount = 0
    /\ check_tx_output_points(tx)
    /\ check_ringct_points(tx)

is_tx_spendtime_unlocked(p, unlock) == unlock = 0 \/ p.height + 1 > unlock

\* check_ringct_input: offsets count from 0, all must exist and be unlocked
RingOf(p, txin) ==
    LET at == relative_output_offsets_to_absolute(txin.offsets)
    IN  IF \A i \in DOMAIN at : /\ at[i] < Len(p.outs)
                                /\ is_tx_spendtime_unlocked(p, p.outs[at[i] + 1].unlock)
        THEN [i \in DOMAIN at |-> [output_public_key |-> p.outs[at[i] + 1].key,
                                   commit |-> p.outs[at[i] + 1].commit]]
        ELSE NoPair

\* the height of each ring's last member
NewestUsed(p, tx) ==
    {LET at == relative_output_offsets_to_absolute(tx.vin[i].offsets)
     IN  p.outs[at[Len(at)] + 1].height : i \in DOMAIN tx.vin}

\* the ring, the prefix hash and the key images are put back from the prefix
expand_transaction_2(p, tx) ==
    [tx.rct EXCEPT
        !.message = get_transaction_prefix_hash(tx),
        !.decoys = [i \in DOMAIN tx.vin |-> RingOf(p, tx.vin[i])],
        !.CLSAGs = [i \in DOMAIN tx.vin |-> [@[i] EXCEPT !.signer_key_image = tx.vin[i].image]]]

\* the last part of check_ringct_inputs; the rings and images compared there are
\* the ones expand_transaction_2 has just put in
check_ring_signatures(p, tx) ==
    IF Len(tx.rct.CLSAGs) # Len(tx.vin) THEN "mismatched sizes"
    ELSE IF ~maybeSizeCheckedRctData(tx.rct) THEN "size"
    ELSE verify_clsag_signatures(expand_transaction_2(p, tx))

check_ringct_inputs(p, tx) ==
    CASE ~rule_21_ringct_should_have_at_least_two_outputs(tx.vout) -> "too few outputs"
      [] \E i \in DOMAIN tx.vin : Len(tx.vin[i].offsets) # RingSize -> "ring size"
      [] ~rule_18_ringct_input_key_images_should_be_sorted([i \in DOMAIN tx.vin |-> tx.vin[i].image])
           -> "unsorted inputs"
      [] \E i \in DOMAIN tx.vin : tx.vin[i].image \in p.spent -> "double spend"
      [] \E i \in DOMAIN tx.vin : RingOf(p, tx.vin[i]) = NoPair -> "output missing or locked"
      [] \E h \in NewestUsed(p, tx) : h + TxSpendableAge > p.height -> "too young"
      [] OTHER -> check_ring_signatures(p, tx)

Verdict(p, tx) ==
    CASE ~check_ringct_semantic(tx) -> "semantic"
      [] ~maybeSizeCheckedRctData(tx.rct) -> "size"
      [] ~(verify_range_proof(tx.rct) /\ verify_ringct_balance(tx.rct)) -> "range proof or balance"
      [] ~check_ringct_outputs(tx) -> "outputs"
      [] OTHER -> check_ringct_inputs(p, tx)

-----------------------------------------------------------------------------
(* A wallet's scan of one transaction (process_new_transaction)            *)

\* scan_output_for_subaddresses and scan_output of output i: [index, image, amount,
\* mask, error]; index is NoPair when it is not ours
scan_output(a, tx, miner_tx, i, tx_key) ==
    LET secret == derive_tx_output_ecdh_shared_secret(tx_key, AccountKeys[a].view)
        index == check_output_for_subaddresses(a, tx.vout[i].key, secret, i - 1)
        pair == derive_output_key_pair_and_key_image(a, tx.vout[i].key, secret, i - 1, index)
        decoded == decode_ringct_commitment
                     (tx.rct, hash_tx_output_shared_secret_to_scalar(secret, i - 1), i)
        hidden == tx.vout[i].amount = 0 /\ ~miner_tx
        amount == IF hidden THEN decoded.amount ELSE tx.vout[i].amount
    IN  IF index = NoPair THEN [index |-> NoPair, error |-> FALSE]
        ELSE IF hidden /\ decoded = NoRecord THEN [index |-> index, error |-> TRUE]
        ELSE [index |-> index, error |-> amount = 0, image |-> pair.image, amount |-> amount,
              mask |-> IF tx.vout[i].amount = 0 THEN decoded.mask ELSE 1]

\* the transfers a wallet adds, with first the global offset of output 1
process_new_transaction(a, tx, miner_tx, first) ==
    LET keys == get_all_output_ecdh_public_keys_from_extra(tx.extra, Len(tx.vout))
        found(i) == scan_output(a, tx, miner_tx, i, keys[i])
        mine == IF keys = NoPair THEN {}
                ELSE {i \in DOMAIN tx.vout : found(i).index # NoPair /\ ~found(i).error}
    IN  {[offset |-> first + i - 1, position |-> i - 1, extra |-> tx.extra, index |-> found(i).index,
          amount |-> found(i).amount, mask |-> found(i).mask, image |-> found(i).image] : i \in mine}

-----------------------------------------------------------------------------
(* The machine.  pay.paid is a history variable: what the sender meant     *)
(* each output of the chain to be.                                         *)

\* an output the daemon offers for rings and the wallet may spend
SpendableNow(p, o) == /\ is_tx_spendtime_unlocked(p, p.outs[o + 1].unlock)
                /\ p.outs[o + 1].height + TxSpendableAge <= p.height
Unspent(p, a) == {t \in p.wallets[a] : t.image \notin p.spent}
NoJob == [st |-> "idle"]

TransferInit ==
    pay = [height |-> 1, outs |-> <<>>, spent |-> {}, generated |-> 0, draws |-> 0,
           wallets |-> [a \in Accounts |-> {}], job |-> NoJob, pool |-> <<>>,
           paid |-> {}, verdict |-> "none"]

\* BlockchainDB::add_transaction, add_spent_key for each input
SpentKeys(tx) == {tx.vin[k].image : k \in DOMAIN tx.vin}

\* a block with the pool's transactions: construct_miner_tx, its validation, the
\* outputs in the order of the block (coinbase first), and every wallet's scan
MineBlock(a) ==
    LET p == pay
        fee == FoldLeft(+, 0, [i \in DOMAIN p.pool |-> p.pool[i].tx.rct.fee])
        miner == [account |-> a, index |-> <<0, 0>>]
        cb == construct_miner_tx(p.height, fee, miner, p.generated, Rand(p.height, 1))
        cbOut == [key |-> cb.vout[1].key, commit |-> dummyCommit(cb.vout[1].amount),
                  unlock |-> cb.unlock, height |-> p.height]
        first(i) == Len(p.outs) + 1
                      + FoldLeft(+, 0, [j \in 1..(i - 1) |-> Len(p.pool[j].tx.vout)])
        txOuts(i) == [k \in DOMAIN p.pool[i].tx.vout |->
                         [key |-> p.pool[i].tx.vout[k].key, commit |-> p.pool[i].tx.rct.output_commits[k],
                          unlock |-> p.pool[i].tx.unlock, height |-> p.height]]
    IN  /\ p.height < MaxHeight
        /\ prevalidate_miner_transaction(cb, p.height)
        /\ validate_miner_transaction(cb, fee, p.generated)
        /\ pay' = [p EXCEPT
              !.height = @ + 1,
              !.generated = @ + get_block_reward(p.generated),
              !.outs = Append(@, cbOut) \o vector_concat([i \in DOMAIN p.pool |-> txOuts(i)]),
              !.spent = @ \cup UNION {SpentKeys(p.pool[i].tx) : i \in DOMAIN p.pool},
              !.wallets = [w \in Accounts |->
                  @[w] \cup process_new_transaction(w, cb, TRUE, Len(p.outs))
                       \cup UNION {process_new_transaction(w, p.pool[i].tx, FALSE, first(i)) :
                                   i \in DOMAIN p.pool}],
              !.paid = @ \cup {[offset |-> Len(p.outs), to |-> miner, amount |-> cb.vout[1].amount]}
                         \cup UNION {{[offset |-> first(i) + k - 1,
                                        to |-> [account |-> p.pool[i].dsts[k].account,
                                                index |-> p.pool[i].dsts[k].index],
                                        amount |-> p.pool[i].dsts[k].amount] :
                                       k \in DOMAIN p.pool[i].dsts} : i \in DOMAIN p.pool},
              !.pool = <<>>]

\* a ring of RingSize offsets, in ascending order, with the real one among them
RingsFor(p, t) ==
    {SetToSortSeq(r \cup {t.offset}, <) :
        r \in {x \in SUBSET {o \in 0..(Len(p.outs) - 1) : SpendableNow(p, o)} :
                t.offset \notin x /\ Cardinality(x) = RingSize - 1}}

SourceOf(p, t, ring) ==
    [amount |-> t.amount, mask |-> t.mask, offsets |-> ring,
     outputs |-> [i \in DOMAIN ring |-> [output_public_key |-> p.outs[ring[i] + 1].key,
                                         commit |-> p.outs[ring[i] + 1].commit]],
     real_output |-> CHOOSE i \in DOMAIN ring : ring[i] = t.offset,
     extra |-> t.extra, position |-> t.position]

\* what transfer_selected asks for: a payment and, unless it is used up exactly,
\* the change to the sender's subaddress <<0, 1>>
Destinations(a, total) ==
    {<<[account |-> b, index |-> i, amount |-> total - f]>> :
        b \in Accounts, i \in SubaddressIndexes, f \in {x \in Fees : x < total}}
    \cup {<<[account |-> b, index |-> i, amount |-> x], 
            [account |-> a, index |-> <<0, 1>>, amount |-> total - f - x]>> :
            b \in Accounts, i \in SubaddressIndexes,
            x \in 1..(total - 1), f \in {g \in Fees : g < total}}

BuildTx(a) ==
    LET p == pay
    IN  /\ p.job.st = "idle" /\ p.draws < MaxConstructions /\ p.pool = <<>>
        /\ \E ts \in {x \in SUBSET {t \in Unspent(p, a) : SpendableNow(p, t.offset)} : Cardinality(x) \in 1..2} :
           \E order \in {SetToSeq(ts)} :
           \E rings \in {f \in [DOMAIN order -> UNION {RingsFor(p, t) : t \in ts}] :
                            \A i \in DOMAIN order : f[i] \in RingsFor(p, order[i])} :
           \E dsts \in Destinations(a, FoldLeft(LAMBDA n, t : n + t.amount, 0, order)) :
              /\ \A i \in DOMAIN dsts : dsts[i].amount \in 1..(2^BitWidth - 1)
              /\ LET made == construct_tx_with_tx_key
                              (a, [i \in DOMAIN order |-> SourceOf(p, order[i], rings[i])], dsts, <<>>,
                               [i \in DOMAIN dsts |-> Rand(p.draws, 10 + i)])
                 IN  /\ made # NoRecord
                     /\ pay' = [p EXCEPT
                           !.job = [st |-> "proving", attempt |-> 1, dsts |-> dsts, made |-> made,
                                    salt |-> p.draws],
                           !.draws = @ + 1, !.verdict = "none"]

\* one pass of bulletproof_MAKE; when it succeeds the rest of generate_ringct follows
Prove ==
    LET p == pay
        j == p.job
        m == j.made
        rnd == [k \in 0..99 |-> Rand(j.salt, 100 + k)]
        width == ceiling_log2_review(Len(m.outputs))[1] * BitWidth
        again(k) == Rand(j.salt, 1000 * j.attempt + k)
        proof == bulletproof_MAKE(output_amounts(m.outputs), output_masks(m.outputs),
                    [alpha |-> again(1), rho |-> again(2), tau1 |-> again(3), tau2 |-> again(4),
                     sL |-> [i \in 1..width |-> again(10 + i)],
                     sR |-> [i \in 1..width |-> again(50 + i)]])
    IN  /\ j.st = "proving"
        /\ \E q \in {proof} :
             IF q = NoRecord
             THEN /\ j.attempt < MaxAttempts
                  /\ pay' = [p EXCEPT !.job.attempt = @ + 1]
             ELSE pay' = [p EXCEPT !.job = [st |-> "made", dsts |-> j.dsts,
                    tx |-> [vin |-> m.tx.vin, vout |-> m.tx.vout, extra |-> m.tx.extra,
                            unlock |-> m.tx.unlock,
                            rct |-> generate_ringct(get_transaction_prefix_hash(m.tx), m.inputs,
                                                    m.outputs, m.fee, q, rnd)]]]

\* the node sees what is serialised: no rings, no message, no key images in the signatures
Sent(tx) ==
    [tx EXCEPT !.rct.message = 0, !.rct.decoys = <<>>,
               !.rct.CLSAGs = [i \in DOMAIN @ |-> [@[i] EXCEPT !.signer_key_image = 0]]]

SubmitTx ==
    LET p == pay
    IN  /\ p.job.st = "made"
        /\ \E v \in {Verdict(p, Sent(p.job.tx))} :
             pay' = [p EXCEPT
                !.job = NoJob, !.verdict = v,
                !.pool = IF v = "ok" THEN Append(@, [tx |-> Sent(p.job.tx), dsts |-> p.job.dsts]) ELSE @]

TransferNext ==
    \/ \E a \in Miners : MineBlock(a)
    \/ \E a \in Accounts : BuildTx(a)
    \/ Prove
    \/ SubmitTx

TransferSpec == TransferInit /\ [][TransferNext]_pay

-----------------------------------------------------------------------------
(* Properties                                                              *)

Total(S) == FoldSet(LAMBDA t, n : n + t.amount, 0, S)

\* Whatever the wallet builds from unlocked outputs the node accepts: the range
\* proof verifies for every amount and padding, the masks balance, the rings the
\* node reads back are the ones signed, the inputs are sorted (construct_tx_with_
\* tx_key and generate_ringct against check_ringct_semantic and check_ringct_inputs).
\* Two refusals are left: a payment that uses up its inputs exactly has one output
\* only (rule 21), and a ring signature one of whose challenges hashed to zero,
\* which the generator does not look for (clsag.cpp:195).
HonestAccepted ==
    pay.verdict \in {"none", "ok", "too few outputs", "Bad signature hash"}

\* A wallet's scan finds exactly the outputs meant for it, under the subaddress and
\* with the amount the sender chose, coinbase rewards and change included
\* (generate_output_key_pairs against scan_output and decode_ringct_commitment).
WalletsExact ==
    \A a \in Accounts :
        {[offset |-> t.offset, to |-> [account |-> a, index |-> t.index], amount |-> t.amount] :
            t \in pay.wallets[a]}
          = {x \in pay.paid : x.to.account = a}

\* No money appears or is lost: what the wallets can still spend is what the
\* emission curve has created (get_block_reward, rule 3 and rule 19), fees being
\* paid on to the next miner.
MoneyConserved ==
    FoldSet(LAMBDA a, n : n + Total(Unspent(pay, a)), 0, Accounts) = pay.generated

\* An output has one key image, two outputs never share one, and the image in a
\* transaction's input is the one its owner recorded when it scanned the output
\* (derive_key_image; generate_clsag_signature computes it a second way).
ImagesIdentify ==
    LET all == UNION {pay.wallets[a] : a \in Accounts}
    IN  /\ \A t, u \in all : t.image = u.image => t.offset = u.offset
        /\ pay.job.st = "made" =>
             \A i \in DOMAIN pay.job.tx.vin :
                /\ \E t \in all : t.image = pay.job.tx.vin[i].image
                /\ pay.job.tx.rct.CLSAGs[i].signer_key_image = pay.job.tx.vin[i].image

\* What the signature covers cannot change on the way: the fee, an encrypted
\* amount, a commitment, an output key, a key in extra, the split between pseudo
\* commitments and a ring member (get_ring_signature_message, get_transaction_
\* prefix_hash, hash_clsag_data_with_key).
Changed(tx) ==
    {[tx EXCEPT !.rct.fee = @ + 1],
     [tx EXCEPT !.rct.ecdh_encrypted_data[1] = (@ + 1) % 2^BitWidth],
     [tx EXCEPT !.rct.output_commits = [i \in DOMAIN @ |-> IF i = 1 THEN add(@[1], 1)
                                                           ELSE IF i = 2 THEN sub(@[2], 1) ELSE @[i]]],
     [tx EXCEPT !.vout[1].key = add(@, 1)],
     [tx EXCEPT !.extra[1].keys[1] = add(@, 1)],
     [tx EXCEPT !.rct.pseudo_input_commits = [i \in DOMAIN @ |->
            IF i = 1 THEN add(@[1], 1) ELSE IF i = 2 THEN sub(@[2], 1) ELSE @[i]]],
     [tx EXCEPT !.rct.bulletproof.mu = add(@, 1)]}

ChangesRefused ==
    pay.job.st = "made" =>
        \A tx \in Changed(Sent(pay.job.tx)) : Verdict(pay, tx) # "ok"

\* Senders, receivers and the node agree on every payment, and on no other one.
TransferSound ==
    HonestAccepted /\ WalletsExact /\ MoneyConserved /\ ImagesIdentify /\ ChangesRefused

=============================================================================
