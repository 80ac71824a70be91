------------------------------ MODULE MCTxPool ------------------------------
(***************************************************************************)
(* Transactions for TxPool: a and b spend the same key image and are too   *)
(* heavy for the pool together; d spends it too, pays best and is never    *)
(* good enough for the pool or for a block.                                *)
(***************************************************************************)
EXTENDS TxPool, TLC

CONSTANTS a, b, d, k1, k2

Few == {a, b, d}
FewImages == (a :> {k1, k2}) @@ (b :> {k1}) @@ (d :> {k1})
FewRing == (a :> {}) @@ (b :> {}) @@ (d :> {})
FewWeight == (a :> 1) @@ (b :> 2) @@ (d :> 1)
FewRate == (a :> 2) @@ (b :> 3) @@ (d :> 4)

Images == {k1, k2}
=============================================================================
