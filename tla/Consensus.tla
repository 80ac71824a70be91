----------------------------- MODULE Consensus -----------------------------
(***************************************************************************)
(* The numbered consensus rules (math/consensus) and the checks built from *)
(* them (math/blockchain/functional).  A transaction is [vin, vout, extra, *)
(* unlock, rct]; an input is a record with a key `image' (txin_from_key)   *)
(* or with a `height' (txin_gen), an output one with a `key' (txout_to_    *)
(* key).  amount_t has BitWidth bits, as many as a range proof covers.     *)
(* Rule 6 (block size) is the pool's and rule 16 the difficulty's; rules 1 *)
(* and 5 are static assertions and rule 17 is the shape of rct here.       *)
(***************************************************************************)
EXTENDS RingCT, FiniteSets

CONSTANTS
    MoneySupply, EmissionSpeed,     \* the emission curve's parameters
    CoinbaseUnlockTime              \* 60 blocks

Amount(n) == n % 2^BitWidth
SumOf(xs) == FoldLeft(+, 0, xs)
AmountsOf(tx) == [i \in DOMAIN tx.vout |-> tx.vout[i].amount]

get_block_reward(generated) ==
    (IF generated >= MoneySupply THEN 0 ELSE MoneySupply - generated) \div 2^EmissionSpeed

rule_2_ringct_output_amounts_should_not_overflow_amount_type(outputs, proof) ==
    bulletproof_VERIFY(outputs, proof)

rule_3_ringct_should_be_balanced(inputs, outputs, fee) ==
    vector_sum(inputs) = add(vector_sum(outputs), H_(int_to_scalar(fee)))

rule_4_ringct_input_should_be_from_a_key(message, sig, decoys, pseudo) ==
    verify_clsag_signature(message, sig, decoys, pseudo)

rule_7_ringct_input_decoys_offsets_should_not_be_zero_except_the_first_one(offsets) ==
    \A i \in 2..Len(offsets) : offsets[i] # 0

rule_8_ringct_input_key_images_should_be_unique(images) == Cardinality(ToSet(images)) = Len(images)

rule_9_range_proof_should_not_contain_invalid_data(proof) == maybeSafeBulletproof(proof)

rule_10_ring_signature_should_not_contain_invalid_data(sig) == maybeSafeCLSAG(sig)

\* also rules 11, 13 and 14, which are this test under another name
are_points_safe(points) == \A i \in DOMAIN points : is_safe_point(points[i])

rule_12_tx_output_target_should_be_output_public_key(out) == "key" \in DOMAIN out

are_tx_output_targets_valid(outs) ==
    \A i \in DOMAIN outs : rule_12_tx_output_target_should_be_output_public_key(outs[i])

rule_15_ringct_input_type_should_be_from_key(in) == "image" \in DOMAIN in

are_ringct_input_types_valid(ins) ==
    \A i \in DOMAIN ins : rule_15_ringct_input_type_should_be_from_key(ins[i])

\* std::is_sorted with greater_equal: an image not below the one before it is refused
rule_18_ringct_input_key_images_should_be_sorted(images) ==
    \A i \in 2..Len(images) : ~(images[i] >= images[i - 1])

rule_19_coinbase_tx_should_be_balanced(amounts, fee, generated) ==
    Amount(get_block_reward(generated) + fee) = Amount(SumOf(amounts))

rule_20_coinbase_outputs_are_locked_for_60_blocks(height, unlock) == height + CoinbaseUnlockTime = unlock

rule_21_ringct_should_have_at_least_two_outputs(outs) == Len(outs) >= 2

rule_22_coinbase_tx_should_have_only_one_input(ins) == Len(ins) = 1

rule_23_coinbase_tx_input_type_should_be_gen(in) == "height" \in DOMAIN in

rule_24_coinbase_output_amount_sum_should_not_overflow_amount_t(amounts) == SumOf(amounts) < 2^BitWidth

rule_25_ringct_should_have_at_least_one_input(ins) == ins # <<>>

-----------------------------------------------------------------------------

\* rules 12 and 11
check_tx_output_points(tx) ==
    /\ are_tx_output_targets_valid(tx.vout)
    /\ are_points_safe([i \in DOMAIN tx.vout |-> tx.vout[i].key])

\* rules 13 and 14
check_ringct_points(tx) ==
    are_points_safe(tx.rct.output_commits) /\ are_points_safe(tx.rct.pseudo_input_commits)

maybe_coinbase_tx(tx) ==
    /\ rule_22_coinbase_tx_should_have_only_one_input(tx.vin)
    /\ rule_23_coinbase_tx_input_type_should_be_gen(tx.vin[1])
    /\ check_tx_output_points(tx)
    /\ rule_24_coinbase_output_amount_sum_should_not_overflow_amount_t(AmountsOf(tx))
    /\ rule_20_coinbase_outputs_are_locked_for_60_blocks(tx.vin[1].height, tx.unlock)

verify_range_proof(rv) ==
    LET p == rule_9_range_proof_should_not_contain_invalid_data(rv.bulletproof)
    IN  p # NoRecord
        /\ rule_2_ringct_output_amounts_should_not_overflow_amount_type(rv.output_commits, p)

verify_ringct_balance(rv) ==
    rule_3_ringct_should_be_balanced(rv.pseudo_input_commits, rv.output_commits, rv.fee)

verify_unsafe_clsag_signature(message, sig, decoys, pseudo) ==
    LET safe == rule_10_ring_signature_should_not_contain_invalid_data(sig)
    IN  IF safe = NoRecord THEN "invalid clsag signature"
        ELSE rule_4_ringct_input_should_be_from_a_key(message, safe, decoys, pseudo)

\* "ok", or the reason the first bad input is refused for
verify_clsag_signatures(rv) ==
    LET message == get_ring_signature_message(rv)
        result(i) == verify_unsafe_clsag_signature
                       (message, rv.CLSAGs[i], rv.decoys[i], rv.pseudo_input_commits[i])
        bad == {i \in DOMAIN rv.decoys : result(i) # "ok"}
    IN  IF Len(rv.pseudo_input_commits) # Len(rv.decoys) \/ message = NoScalar THEN "mismatched sizes"
        ELSE IF bad = {} THEN "ok"
        ELSE result(CHOOSE i \in bad : \A j \in bad : i <= j)

=============================================================================
