----------------------------- MODULE MCBlockSync -----------------------------
(***************************************************************************)
(* Two branches of two blocks each after the genesis block; one peer on    *)
(* each.                                                                   *)
(***************************************************************************)
EXTENDS BlockSync, TLC

CONSTANTS g, a1, a2, b1, b2, p1, p2

ForkParent == (g :> g) @@ (a1 :> g) @@ (a2 :> a1) @@ (b1 :> g) @@ (b2 :> b1)
ForkPath ==
  (g :> {g}) @@ (a1 :> {g, a1}) @@ (a2 :> {g, a1, a2}) @@ (b1 :> {g, b1}) @@ (b2 :> {g, b1, b2})
ForkTop == (p1 :> a2) @@ (p2 :> b2)
=============================================================================
