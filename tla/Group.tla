------------------------------- MODULE Group -------------------------------
(***************************************************************************)
(* The arithmetic under RingCT: src/math/group (scalars and points),       *)
(* src/math/crypto (keys), src/math/ringct/functional/rctOps and vectorOps,*)
(* and the subaddress keys of src/math/blockchain.                         *)
(*                                                                         *)
(* The curve's prime-order subgroup is replaced by a group of small prime  *)
(* order Q, written additively: a point is its discrete logarithm to the   *)
(* base point, so a point and a scalar are both residues modulo Q, and     *)
(* `point ^ scalar' of the code is a product.  What the algebra needs - a  *)
(* module over a prime field - is kept exactly; that logarithms are hard   *)
(* to find is not, and no property below speaks of it.  The identity is 0; *)
(* every other residue is a `safe' point (points of small order are left   *)
(* out).  The hash is the constant operator Hash: any function of a        *)
(* sequence of data, so every property is about all the algebra and none   *)
(* about SHA-3.                                                            *)
(***************************************************************************)
EXTENDS Integers, Sequences, SequencesExt, Bitwise

CONSTANTS
    Q,              \* the order of the group, a prime
    Hash(_),        \* sha3 followed by reduce: a sequence of data to a residue
    BitWidth        \* bits of an amount (64 in the code)

ASSUME GroupAssumption ==
    /\ Q \in Nat /\ Q > 8 /\ \A d \in 2..99 : (d * d <= Q) => (Q % d # 0)
    /\ BitWidth \in {1, 2, 4} /\ 2^BitWidth < Q

Scalars == 0..(Q - 1)

\* an empty std::optional, where a residue, a pair or a record is expected
NoScalar == -1
NoPair == <<>>
NoRecord == [none |-> TRUE]

Indices(n) == [i \in 1..n |-> i]

\* domain separators: what is hashed with one never meets what is hashed with another
KeyH == 1
KeyPoint == 2
KeyAmount == 3
KeyMask == 4
KeyOutput == 5
KeySubaddress == 6

-----------------------------------------------------------------------------
(* group.cpp.  add/sub/mult serve points and scalars alike.                *)

add(x, y) == (x + y) % Q
sub(x, y) == (x - y) % Q
mult(a, x) == (a * x) % Q

RECURSIVE power(_, _)
power(x, n) ==
    IF n = 0 THEN 1
    ELSE LET h == power(mult(x, x), n \div 2)
         IN  IF n % 2 = 0 THEN h ELSE mult(x, h)

multiplicative_inverse(x) == power(x, Q - 2)

identity == 0
is_safe_point(x) == x # identity
maybeSafePoint(x) == IF is_safe_point(x) THEN x ELSE NoScalar
is_reduced(x) == x \in Scalars
int_to_scalar(n) == n % Q

-----------------------------------------------------------------------------
(* rctOps.cpp and key.cpp                                                  *)

G_(x) == x % Q
BaseH == 1 + (Hash(<<KeyH>>) % (Q - 1))
H_(x) == mult(x, BaseH)

inv8 == multiplicative_inverse(8)
to_inv8(p) == mult(p, inv8)
maybe_from_inv8(p) == IF is_safe_point(p) THEN mult(p, 8) ELSE NoScalar

commit(amount, mask) == add(H_(int_to_scalar(amount)), G_(mask))
dummyCommit(amount) == commit(amount, 1)

hash_to_point_via_field(x) == 1 + (Hash(<<KeyPoint, x>>) % (Q - 1))

\* None when the hash reduces to zero
maybe_hash_V_to_non_zero_scalar(data) ==
    LET h == Hash(data) IN IF h = 0 THEN NoScalar ELSE h

\* the amount is masked with the low bits of a hash of the shared secret;
\* unmasking is the same operation
hash_and_xor_int(amount, secret) == amount ^^ (Hash(<<KeyAmount, secret>>) % 2^BitWidth)
encode_amount_by_hashed_ecdh_shared_secret(amount, secret) == hash_and_xor_int(amount, secret)
decode_amount_by_hashed_ecdh_shared_secret(masked, secret) == hash_and_xor_int(masked, secret)
get_blinding_factor_from_hashed_shared_secret(secret) == Hash(<<KeyMask, secret>>)

to_pk(sk) == G_(sk)

derive_key_image(sk) == mult(sk, hash_to_point_via_field(to_pk(sk)))

derive_tx_output_ecdh_shared_secret(pk, sk) == mult(mult(8, pk), sk)
hash_tx_output_shared_secret_to_scalar(secret, index) == Hash(<<KeyOutput, secret, index>>)

compute_output_secret_key_from_subaddress_spend_sk(secret, index, spend_sk) ==
    add(spend_sk, hash_tx_output_shared_secret_to_scalar(secret, index))

compute_output_public_key_from_subaddress_spend_pk(secret, index, spend_pk) ==
    IF is_safe_point(spend_pk)
    THEN add(G_(hash_tx_output_shared_secret_to_scalar(secret, index)), spend_pk)
    ELSE NoScalar

compute_subaddress_spend_pk_from_output_public_key(secret, index, output_public_key) ==
    LET h == hash_tx_output_shared_secret_to_scalar(secret, index)
    IN  IF h = 0 THEN NoScalar ELSE sub(output_public_key, G_(h))

-----------------------------------------------------------------------------
(* subaddress.cpp: keys is [spend, view], an index is <<major, minor>>     *)

hash_secret_key_with_subaddress_index(sec, index) == Hash(<<KeySubaddress, sec, index[1], index[2]>>)

get_subaddress_spend_secret_key(keys, index) ==
    IF index = <<0, 0>> THEN keys.spend
    ELSE add(keys.spend, hash_secret_key_with_subaddress_index(keys.view, index))

get_subaddress_view_secret_key_base_G(keys, index) ==
    IF index = <<0, 0>> THEN keys.view
    ELSE mult(keys.view, get_subaddress_spend_secret_key(keys, index))

get_subaddress(keys, index) ==
    [m_spend_public_key |-> to_pk(get_subaddress_spend_secret_key(keys, index)),
     m_view_public_key |-> to_pk(get_subaddress_view_secret_key_base_G(keys, index))]

-----------------------------------------------------------------------------
(* vectorOps.cpp.  The pairwise operations walk their first argument and   *)
(* throw when the second is shorter.                                       *)

scalar_powers(x, n) ==
    FoldLeft(LAMBDA s, i : Append(s, mult(s[Len(s)], x)), <<1>>, Indices(n - 1))

vector_sum(xs) == FoldLeft(add, 0, xs)
sum_of_scalar_powers(x, n) == vector_sum(scalar_powers(x, n))
hadamard_product(a, b) == [i \in DOMAIN a |-> mult(a[i], b[i])]
inner_product(a, b) == vector_sum(hadamard_product(a, b))
vector_add_V(a, b) == [i \in DOMAIN a |-> add(a[i], b[i])]
vector_add(a, x) == [i \in DOMAIN a |-> add(a[i], x)]
vector_subtract(a, x) == [i \in DOMAIN a |-> sub(a[i], x)]
vector_mult(a, x) == [i \in DOMAIN a |-> mult(a[i], x)]
vector_multP_V(a, points) == hadamard_product(a, points)
scalar_multP_V(x, points) == vector_mult(points, x)
vector_commit(a, points) == inner_product(a, points)
scalar_repeat(x, n) == [i \in 1..n |-> x]
vector_concat(xss) == FlattenSeq(xss)
vector_mult_V_monadic(xs, ys) == [i \in DOMAIN xs |-> vector_mult(ys, xs[i])]

evaluate_polynomial(cs, x) == inner_product(cs, scalar_powers(x, Len(cs)))

split_vector(xs) ==
    LET h == Len(xs) \div 2 IN <<SubSeq(xs, 1, h), SubSeq(xs, h + 1, Len(xs))>>

homomorphic_hash(G, H, a, b, u, c) ==
    add(add(vector_commit(a, G), vector_commit(b, H)), mult(c, u))

homomorphic_hash_full(G, H, a_1, a_2, b_1, b_2, u, c) ==
    LET GS == split_vector(G)
        HS == split_vector(H)
    IN  vector_sum(<<vector_commit(a_1, GS[1]), vector_commit(a_2, GS[2]),
                     vector_commit(b_1, HS[1]), vector_commit(b_2, HS[2]), mult(c, u)>>)

=============================================================================
