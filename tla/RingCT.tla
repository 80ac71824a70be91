------------------------------- MODULE RingCT -------------------------------
(***************************************************************************)
(* Confidential ring signatures: the CLSAG signature (pseudo_functional/   *)
(* clsag.cpp, controller/clsagGen.cpp) and the RingCT data of a            *)
(* transaction built from it and the range proof (controller/ringCT_Gen,   *)
(* pseudo_functional/ringCT, consensus rules 2, 3, 4, 9, 10 and 17).       *)
(*                                                                         *)
(* A ring is a sequence of [output_public_key, commit].  rnd(k) is the     *)
(* k-th scalar crypto::randomScalar gives while the data is made.          *)
(***************************************************************************)
EXTENDS RangeProof

KeyAgg0 == 8                    \* config::HASH_KEY_CLSAG_AGG_0
KeyAgg1 == 9                    \* config::HASH_KEY_CLSAG_AGG_1
KeyRound == 10                  \* config::HASH_KEY_CLSAG_ROUND
KeyMessage == 11

ring_keys(decoys) == [i \in DOMAIN decoys |-> decoys[i].output_public_key]
ring_commits(decoys) == [i \in DOMAIN decoys |-> decoys[i].commit]

hash_clsag_data_with_key(image, surplus_image, pseudo, decoys, hash_key) ==
    Hash(<<hash_key>> \o ring_keys(decoys) \o ring_commits(decoys)
           \o <<image, to_inv8(surplus_image), pseudo>>)

round_hash(decoys, pseudo, message, L, R) ==
    Hash(<<KeyRound>> \o ring_keys(decoys) \o ring_commits(decoys) \o <<pseudo, message, L, R>>)

\* the points L and R of ring member d under the challenge c
round_points(d, s, c_p, c_c, image, surplus_image, pseudo) ==
    <<vector_sum(<<G_(s), mult(c_p, d.output_public_key), mult(c_c, sub(d.commit, pseudo))>>),
      vector_sum(<<mult(s, hash_to_point_via_field(d.output_public_key)),
                   mult(c_p, image), mult(c_c, surplus_image)>>)>>

\* index counts from 1; the challenges run round the ring from the signer's
\* successor, and c1 is the one that enters member 1
generate_clsag_signature(message, signer_sk, blinding, index, pseudo_blinding, pseudo, decoys, rnd) ==
    LET n == Len(decoys)
        z == sub(blinding, pseudo_blinding)
        base == hash_to_point_via_field(decoys[index].output_public_key)
        image == mult(signer_sk, base)
        D == mult(z, base)
        mu_P == hash_clsag_data_with_key(image, D, pseudo, decoys, KeyAgg0)
        mu_C == hash_clsag_data_with_key(image, D, pseudo, decoys, KeyAgg1)
        a == rnd[0]
        \* one decoy after another: [c, s, c1], c the challenge entering member i
        step(acc, k) ==
            LET i == ((index - 1 + k) % n) + 1
                first == IF i = 1 THEN acc.c ELSE acc.c1
                LR == round_points(decoys[i], rnd[k], mult(mu_P, acc.c), mult(mu_C, acc.c),
                                   image, D, pseudo)
            IN  [c |-> round_hash(decoys, pseudo, message, LR[1], LR[2]),
                 s |-> [acc.s EXCEPT ![i] = rnd[k]], c1 |-> first]
        end == FoldLeft(step, [c |-> round_hash(decoys, pseudo, message, G_(a), mult(a, base)),
                               s |-> scalar_repeat(0, n), c1 |-> 0], Indices(n - 1))
    IN  [s |-> [end.s EXCEPT ![index] =
                    sub(a, mult(end.c, add(mult(mu_C, z), mult(mu_P, signer_sk))))],
         c1 |-> IF index = 1 THEN end.c ELSE end.c1,
         signer_key_image |-> image, blinding_factor_surplus_key_image |-> D]

\* "ok", or why the signature is refused
verify_clsag_signature(message, sig, decoys, pseudo) ==
    LET n == Len(decoys)
        D == sig.blinding_factor_surplus_key_image
        mu_P == hash_clsag_data_with_key(sig.signer_key_image, D, pseudo, decoys, KeyAgg0)
        mu_C == hash_clsag_data_with_key(sig.signer_key_image, D, pseudo, decoys, KeyAgg1)
        step(c, i) ==
            LET LR == round_points(decoys[i], sig.s[i], mult(mu_P, c), mult(mu_C, c),
                                   sig.signer_key_image, D, pseudo)
                h == round_hash(decoys, pseudo, message, LR[1], LR[2])
            IN  IF c = NoScalar \/ h = 0 THEN NoScalar ELSE h
        last == FoldLeft(step, sig.c1, Indices(n))
    IN  CASE n < 1                -> "Empty decoys"
          [] n # Len(sig.s)       -> "wrong size"
          [] last = NoScalar      -> "Bad signature hash"
          [] last # sig.c1        -> "wrong signature"
          [] OTHER                -> "ok"

toUnsafeCLSAG(sig) ==
    [sig EXCEPT !.blinding_factor_surplus_key_image = to_inv8(@)]

maybeSafeCLSAG(sig) ==
    IF /\ \A i \in DOMAIN sig.s : is_reduced(sig.s[i])
       /\ is_reduced(sig.c1)
       /\ is_safe_point(sig.blinding_factor_surplus_key_image)
    THEN [sig EXCEPT !.blinding_factor_surplus_key_image = maybe_from_inv8(@)]
    ELSE NoRecord

-----------------------------------------------------------------------------
(* The RingCT data of a transaction.                                       *)

\* as if the masked amounts were not signed
MessageWithoutAmounts(rv) ==
    IF rv.decoys = <<>> THEN NoScalar
    ELSE Hash(<<KeyMessage, rv.message,
                Hash(<<KeyMessage, rv.fee>> \o rv.output_commits),
                LET p == rv.bulletproof
                IN  Hash(<<KeyMessage, p.A, p.S, p.T1, p.T2, p.tau, p.mu>> \o p.L \o p.R
                           \o <<p.a, p.b, p.t>>)>>)

\* fee, masked amounts and commitments (serialize_rctsig_base), the proof, and
\* the prefix hash `message'; NoScalar when no ring is known
get_ring_signature_message(rv) ==
    IF rv.decoys = <<>> THEN NoScalar
    ELSE Hash(<<KeyMessage, rv.message,
                Hash(<<KeyMessage, rv.fee>> \o rv.ecdh_encrypted_data \o rv.output_commits),
                LET p == rv.bulletproof
                IN  Hash(<<KeyMessage, p.A, p.S, p.T1, p.T2, p.tau, p.mu>> \o p.L \o p.R
                           \o <<p.a, p.b, p.t>>)>>)

\* the last blinding factor makes the pseudo commitments' masks add up to match
generate_matching_input_commits(match, amounts, rnd) ==
    LET n == Len(amounts)
        bs == [i \in 1..(n - 1) |-> rnd[i]]
        all == Append(bs, sub(match, vector_sum(bs)))
    IN  [i \in 1..n |-> [blinding |-> all[i], commit |-> commit(amounts[i], all[i])]]

\* inputs: [amount, signer_sk, signer_blinding_factor, index_in_decoys, decoys];
\* outputs: [amount, secret] with the hashed shared secret.  The proof is the one
\* bulletproof_MAKE's loop ended with.
output_masks(outputs) ==
    [i \in DOMAIN outputs |-> get_blinding_factor_from_hashed_shared_secret(outputs[i].secret)]

output_amounts(outputs) == [i \in DOMAIN outputs |-> outputs[i].amount]

generate_ringct(message, inputs, outputs, fee, proof, rnd) ==
    LET masks == output_masks(outputs)
        pseudo == generate_matching_input_commits
                    (vector_sum(masks), [i \in DOMAIN inputs |-> inputs[i].amount], rnd)
        unsigned ==
            [message |-> message, fee |-> fee,
             decoys |-> [i \in DOMAIN inputs |-> inputs[i].decoys],
             ecdh_encrypted_data |->
                 [i \in DOMAIN outputs |->
                     encode_amount_by_hashed_ecdh_shared_secret(outputs[i].amount, outputs[i].secret)],
             output_commits |-> [i \in DOMAIN outputs |-> commit(outputs[i].amount, masks[i])],
             bulletproof |-> toUnsafeBulletproof(proof),
             pseudo_input_commits |-> [i \in DOMAIN inputs |-> pseudo[i].commit],
             CLSAGs |-> <<>>]
        full == get_ring_signature_message(unsigned)
    IN  [unsigned EXCEPT !.CLSAGs =
            [i \in DOMAIN inputs |->
                LET scalars == [k \in 0..19 |-> rnd[20 * i + k]]
                IN  toUnsafeCLSAG(generate_clsag_signature
                       (full, inputs[i].signer_sk, inputs[i].signer_blinding_factor,
                        inputs[i].index_in_decoys, pseudo[i].blinding, pseudo[i].commit,
                        inputs[i].decoys, scalars))]]

maybeSizeCheckedRctData(rv) ==
    /\ Len(rv.pseudo_input_commits) = Len(rv.CLSAGs)
    /\ Len(rv.output_commits) = Len(rv.ecdh_encrypted_data)

\* what the receiver reads: [amount, mask], NoRecord where the code throws
decode_ringct_commitment(rv, secret, i) ==
    LET mask == get_blinding_factor_from_hashed_shared_secret(secret)
        amount == decode_amount_by_hashed_ecdh_shared_secret(rv.ecdh_encrypted_data[i], secret)
    IN  IF i \in DOMAIN rv.ecdh_encrypted_data /\ rv.output_commits[i] = commit(amount, mask)
        THEN [amount |-> amount, mask |-> mask]
        ELSE NoRecord

=============================================================================
