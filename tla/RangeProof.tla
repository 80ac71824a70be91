----------------------------- MODULE RangeProof -----------------------------
(***************************************************************************)
(* The bulletproof range proof: src/math/ringct/functional (bulletproofs_  *)
(* gen, bulletproofs_verify, innerProductArgument_gen, innerProduct        *)
(* Argument_verify, rctTypesUnsafe) and the two drivers that call it       *)
(* (controller/bulletproofs_gen.cpp, pseudo_functional/bulletproofs_       *)
(* verify.cpp).  A proof is for a sequence of commitments to amounts of    *)
(* BitWidth bits, padded to a power of two with zero amounts that have no  *)
(* commitment.                                                             *)
(***************************************************************************)
EXTENDS Group

CONSTANT BulletproofMaxOutputs          \* constant::BULLETPROOF_MAX_OUTPUTS

KeyGenerator == 7

ceiling_log2_review(x) ==
    LET l == CHOOSE n \in 0..x : 2^n >= x /\ (n = 0 \/ 2^(n - 1) < x) IN <<2^l, l>>

\* counted from 0, as the code does: odd numbers for G, even ones for H
get_bp_generator(idx) == hash_to_point_via_field(Hash(<<KeyGenerator, BaseH, idx>>))
get_bp_generator_G_V(n) == [i \in 1..n |-> get_bp_generator((i - 1) * 2 + 1)]
get_bp_generator_H_V(n) == [i \in 1..n |-> get_bp_generator((i - 1) * 2)]

\* least significant bit first
int_to_bits(x) == [i \in 1..BitWidth |-> (x \div 2^(i - 1)) % 2]

\* <<y, z>>, or NoPair when a hash is zero
hash_V_A_S(commits, A, S) ==
    LET h == maybe_hash_V_to_non_zero_scalar([i \in DOMAIN commits |-> to_inv8(commits[i])])
        y == maybe_hash_V_to_non_zero_scalar(<<h, to_inv8(A), to_inv8(S)>>)
        z == maybe_hash_V_to_non_zero_scalar(<<y>>)
    IN  IF h = NoScalar \/ y = NoScalar \/ z = NoScalar THEN NoPair ELSE <<y, z>>

\* the coefficients z^2, z^3, ... of the values, each times the powers of two
value_coefficients(z, padded) ==
    vector_concat(vector_mult_V_monadic(SubSeq(scalar_powers(z, padded + 2), 3, padded + 2),
                                        scalar_powers(2, BitWidth)))

-----------------------------------------------------------------------------
(* Making a proof.  rnd is what crypto::randomScalar(s) gave this attempt. *)

\* its last stage: the vectors under the challenge x, and what is hashed of them
bp_vectors_at(yz, commits, T, x, tau, mu, l, r) ==
    LET challenge == maybe_hash_V_to_non_zero_scalar(<<x, x, tau, mu, inner_product(l, r)>>)
    IN  IF yz = NoPair \/ x = NoScalar \/ challenge = NoScalar THEN NoRecord
        ELSE [l |-> l, r |-> r, challenge |-> challenge, y |-> yz[1],
              A |-> commits[1], S |-> commits[2], T1 |-> T[1], T2 |-> T[2], tau |-> tau, mu |-> mu]

\* the middle stage: the challenge x for the polynomials l0 + l1 X and r0 + r1 X
bp_vectors_for(yz, commits, T, tau0, l0, l1, r0, r1, rnd) ==
    LET x == maybe_hash_V_to_non_zero_scalar(<<yz[2], yz[2], to_inv8(T[1]), to_inv8(T[2])>>)
    IN  bp_vectors_at(yz, commits, T, x, evaluate_polynomial(<<tau0, rnd.tau1, rnd.tau2>>, x),
                      add(mult(x, rnd.rho), rnd.alpha),
                      vector_add_V(l0, vector_mult(l1, x)), vector_add_V(r0, vector_mult(r1, x)))

bp_polynomials(yz, commits, aL, masks, padded, rnd) ==
    LET y_powers == scalar_powers(yz[1], padded * BitWidth)
        z_powers == scalar_powers(yz[2], padded + 2)
        l0 == vector_subtract(aL, yz[2])
        l1 == rnd.sL
        r0 == vector_add_V(hadamard_product(y_powers, vector_add(vector_subtract(aL, 1), yz[2])),
                           value_coefficients(yz[2], padded))
        r1 == hadamard_product(y_powers, rnd.sR)
        T1 == add(G_(rnd.tau1), H_(add(inner_product(l0, r1), inner_product(l1, r0))))
        T2 == add(G_(rnd.tau2), H_(inner_product(l1, r1)))
    IN  bp_vectors_for(yz, commits, <<T1, T2>>,
                       inner_product(masks, SubSeq(z_powers, 3, Len(z_powers))), l0, l1, r0, r1, rnd)

get_bp_vectors_for_inner_product_argument(amounts, masks, rnd) ==
    LET padded == ceiling_log2_review(Len(amounts))[1]
        bits == [i \in 1..padded |-> IF i <= Len(amounts) THEN int_to_bits(amounts[i])
                                     ELSE scalar_repeat(0, BitWidth)]
        V == [i \in DOMAIN amounts |-> commit(amounts[i], masks[i])]
        aL == vector_concat(bits)
        G_V == get_bp_generator_G_V(padded * BitWidth)
        H_V == get_bp_generator_H_V(padded * BitWidth)
        A == homomorphic_hash(G_V, H_V, aL, vector_subtract(aL, 1), G_(1), rnd.alpha)
        S == homomorphic_hash(G_V, H_V, rnd.sL, rnd.sR, G_(1), rnd.rho)
    IN  bp_polynomials(hash_V_A_S(V, A, S), <<A, S>>, aL, masks, padded, rnd)

\* one halving: L and R, and the folded vectors under the round's challenge
init_inner_product_argument(G, H, a, b, u) ==
    LET as == split_vector(a)
        bs == split_vector(b)
        Gs == split_vector(G)
        Hs == split_vector(H)
    IN  <<homomorphic_hash(Gs[2], Hs[1], as[1], bs[2], u, inner_product(as[1], bs[2])),
          homomorphic_hash(Gs[1], Hs[2], as[2], bs[1], u, inner_product(as[2], bs[1]))>>

finish_inner_product_argument(a, b, challenge) ==
    LET as == split_vector(a)
        bs == split_vector(b)
        inv == multiplicative_inverse(challenge)
    IN  <<vector_add_V(vector_mult(as[1], challenge), vector_mult(as[2], inv)),
          vector_add_V(vector_mult(bs[1], inv), vector_mult(bs[2], challenge))>>

split_generators_with_challenge(G, H, challenge) ==
    LET Gs == split_vector(G)
        Hs == split_vector(H)
        inv == multiplicative_inverse(challenge)
    IN  <<vector_add_V(scalar_multP_V(inv, Gs[1]), scalar_multP_V(challenge, Gs[2])),
          vector_add_V(scalar_multP_V(challenge, Hs[1]), scalar_multP_V(inv, Hs[2]))>>

RECURSIVE make_recursive_inner_product_argument(_, _, _, _, _, _, _)
make_recursive_inner_product_argument(G, H, a, b, u, challenge, LR) ==
    IF Len(G) = 1 THEN [LR |-> LR, a |-> a[1], b |-> b[1]]
    ELSE LET lr == init_inner_product_argument(G, H, a, b, u)
             c == maybe_hash_V_to_non_zero_scalar(<<challenge, to_inv8(lr[1]), to_inv8(lr[2])>>)
             ab == finish_inner_product_argument(a, b, c)
             GH == split_generators_with_challenge(G, H, c)
         IN  IF c = NoScalar THEN NoRecord
             ELSE make_recursive_inner_product_argument
                    (GH[1], GH[2], ab[1], ab[2], u, c, Append(LR, lr))

\* the argument about the vectors v
inner_product_argument_for(v, width) ==
    make_recursive_inner_product_argument
      (get_bp_generator_G_V(width),
       vector_multP_V(scalar_powers(multiplicative_inverse(v.y), width),
                      get_bp_generator_H_V(width)),
       v.l, v.r, H_(v.challenge), v.challenge, <<>>)

bulletproof_from(v, ipa) ==
    IF v = NoRecord \/ ipa = NoRecord THEN NoRecord
    ELSE [A |-> v.A, S |-> v.S, T1 |-> v.T1, T2 |-> v.T2, tau |-> v.tau, mu |-> v.mu,
          LR |-> ipa.LR, a |-> ipa.a, b |-> ipa.b, t |-> inner_product(v.l, v.r)]

bulletproof_about(v, width) == bulletproof_from(v, inner_product_argument_for(v, width))

\* one pass of the `while (true)' of bulletproof_MAKE: NoRecord is a `continue'
bulletproof_MAKE(amounts, masks, rnd) ==
    bulletproof_about(get_bp_vectors_for_inner_product_argument(amounts, masks, rnd),
                      ceiling_log2_review(Len(amounts))[1] * BitWidth)

-----------------------------------------------------------------------------
(* On the wire every point is divided by 8; reading multiplies it back and *)
(* refuses the identity.                                                   *)

toUnsafeBulletproof(p) ==
    [A |-> to_inv8(p.A), S |-> to_inv8(p.S), T1 |-> to_inv8(p.T1), T2 |-> to_inv8(p.T2),
     tau |-> p.tau, mu |-> p.mu,
     L |-> [i \in DOMAIN p.LR |-> to_inv8(p.LR[i][1])],
     R |-> [i \in DOMAIN p.LR |-> to_inv8(p.LR[i][2])],
     a |-> p.a, b |-> p.b, t |-> p.t]

maybeSafeBulletproof(p) ==
    IF /\ \A x \in {p.A, p.S, p.T1, p.T2} \cup ToSet(p.L) \cup ToSet(p.R) : is_safe_point(x)
       /\ \A s \in {p.tau, p.mu, p.a, p.b, p.t} : is_reduced(s)
       /\ Len(p.L) = Len(p.R)
    THEN [A |-> maybe_from_inv8(p.A), S |-> maybe_from_inv8(p.S),
          T1 |-> maybe_from_inv8(p.T1), T2 |-> maybe_from_inv8(p.T2), tau |-> p.tau, mu |-> p.mu,
          LR |-> [i \in DOMAIN p.L |-> <<maybe_from_inv8(p.L[i]), maybe_from_inv8(p.R[i])>>],
          a |-> p.a, b |-> p.b, t |-> p.t]
    ELSE NoRecord

-----------------------------------------------------------------------------
(* Verifying                                                               *)

challenges_from(yz, x, c) ==
    IF yz = NoPair \/ x = NoScalar \/ c = NoScalar THEN NoRecord
    ELSE [y |-> yz[1], z |-> yz[2], x |-> x, inner |-> c]

challenges_after(yz, x, proof) ==
    challenges_from(yz, x, maybe_hash_V_to_non_zero_scalar(<<x, x, proof.tau, proof.mu, proof.t>>))

challenges_of(yz, proof) ==
    challenges_after(yz, maybe_hash_V_to_non_zero_scalar
                           (<<yz[2], yz[2], to_inv8(proof.T1), to_inv8(proof.T2)>>), proof)

get_hash_challenges(commits, proof) == challenges_of(hash_V_A_S(commits, proof.A, proof.S), proof)

verify_half(P, L, R, challenge) ==
    LET inv == multiplicative_inverse(challenge)
    IN  vector_sum(<<mult(mult(challenge, challenge), L), P, mult(mult(inv, inv), R)>>)

verify_inner_product_argument(P, G, H, lr, u, challenge, a_half, b_half) ==
    LET inv == multiplicative_inverse(challenge)
    IN  homomorphic_hash_full(G, H, vector_mult(a_half, inv), vector_mult(a_half, challenge),
                              vector_mult(b_half, challenge), vector_mult(b_half, inv),
                              u, inner_product(a_half, b_half))
          = verify_half(P, lr[1], lr[2], challenge)

RECURSIVE verify_recursive_inner_product_argument(_, _, _, _, _, _, _, _)
verify_recursive_inner_product_argument(P, G, H, LR, a, b, u, challenge) ==
    LET lr == Head(LR)
        c == maybe_hash_V_to_non_zero_scalar(<<challenge, to_inv8(lr[1]), to_inv8(lr[2])>>)
        GH == split_generators_with_challenge(G, H, c)
    IN  /\ c # NoScalar
        /\ IF Len(LR) = 1
           THEN verify_inner_product_argument(P, G, H, lr, u, c, <<a>>, <<b>>)
           ELSE verify_recursive_inner_product_argument
                  (verify_half(P, lr[1], lr[2], c), GH[1], GH[2], Tail(LR), a, b, u, c)

\* the two equations, under the challenges ch
verify_under(ch, commits, proof) ==
    LET padded == ceiling_log2_review(Len(commits))[1]
        width == padded * BitWidth
        y == ch.y
        z == ch.z
        z_powers == scalar_powers(z, padded + 3)
        delta == sub(mult(sub(z, mult(z, z)), sum_of_scalar_powers(y, width)),
                     mult(vector_sum(SubSeq(z_powers, 4, padded + 3)),
                          sum_of_scalar_powers(2, BitWidth)))
        T0 == add(H_(delta), vector_commit(SubSeq(z_powers, 3, Len(commits) + 2), commits))
        G_V == get_bp_generator_G_V(width)
        I_V == vector_multP_V(scalar_powers(multiplicative_inverse(y), width),
                              get_bp_generator_H_V(width))
        P_I == vector_commit(vector_add_V(value_coefficients(z, padded),
                                          vector_mult(scalar_powers(y, width), z)), I_V)
        u == H_(ch.inner)
        P == vector_sum(<<proof.A, mult(ch.x, proof.S),
                          vector_commit(scalar_repeat(sub(0, z), width), G_V), P_I,
                          mult(proof.t, u), G_(sub(0, proof.mu))>>)
    IN  /\ ch # NoRecord
        /\ add(H_(proof.t), G_(proof.tau)) = evaluate_polynomial(<<T0, proof.T1, proof.T2>>, ch.x)
        /\ verify_recursive_inner_product_argument
             (P, G_V, I_V, proof.LR, proof.a, proof.b, u, ch.inner)

bulletproof_VERIFY(commits, proof) ==
    /\ Len(commits) >= 1 /\ Len(proof.LR) > 0 /\ Len(commits) <= BulletproofMaxOutputs
    /\ Len(proof.LR) = ceiling_log2_review(Len(commits))[2] + ceiling_log2_review(BitWidth)[2]
    /\ verify_under(get_hash_challenges(commits, proof), commits, proof)

=============================================================================
