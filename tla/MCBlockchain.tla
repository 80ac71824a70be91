---------------------------- MODULE MCBlockchain ----------------------------
(***************************************************************************)
(* Block trees for Blockchain.  Transactions a and b spend the same key    *)
(* image and c uses an output of a.                                        *)
(*                                                                         *)
(* Rivals:   g - a1(a) - a2(c), a3()  a2 has more work than b1,            *)
(*           g - b1(b) - b2(), bx()   b2 more than a2, bx, with a wrong    *)
(*                                    reward, still more, and a3, with a   *)
(*                                    bad header, the most.                *)
(* Clash:    without a3, and bx holds a transaction d and c, which both    *)
(*           spend the image of c, so that add_block throws.               *)
(***************************************************************************)
EXTENDS Blockchain, TLC

CONSTANTS g, a1, a2, a3, b1, b2, bx, a, b, c, d, k1, k2

ParentOf(p, x) == IF x = g THEN g ELSE p[x]

\* Ancestors in a tree of depth three at most.
PathIn(B, p) ==
  [x \in B |-> {x, ParentOf(p, x), ParentOf(p, ParentOf(p, x)), g}]

ThreeTxs == {a, b, c}
ThreeImages == (a :> {k1}) @@ (b :> {k1}) @@ (c :> {k2})
ThreeRing == (a :> {}) @@ (b :> {}) @@ (c :> {a})
Images == {k1, k2}

Rivals == {g, a1, a2, a3, b1, b2, bx}
RivalsParent == (g :> g) @@ (a1 :> g) @@ (a2 :> a1) @@ (a3 :> a1) @@ (b1 :> g) @@ (b2 :> b1) @@ (bx :> b1)
RivalsPath == PathIn(Rivals, RivalsParent)
RivalsWork ==
  (g :> 1) @@ (a1 :> 2) @@ (a2 :> 3) @@ (a3 :> 6) @@ (b1 :> 2) @@ (b2 :> 4) @@ (bx :> 5)
RivalsTxs ==
  (g :> <<>>) @@ (a1 :> <<a>>) @@ (a2 :> <<c>>) @@ (a3 :> <<>>) @@
  (b1 :> <<b>>) @@ (b2 :> <<>>) @@ (bx :> <<>>)

FourTxs == {a, b, c, d}
FourImages == ThreeImages @@ (d :> {k2})
FourRing == (a :> {}) @@ (b :> {}) @@ (c :> {}) @@ (d :> {})
Clash == Rivals \ {a3}
ClashParent == [x \in Clash |-> RivalsParent[x]]
ClashPath == [x \in Clash |-> RivalsPath[x]]
ClashWork == [x \in Clash |-> RivalsWork[x]]
ClashTxs == [x \in Clash |-> IF x = bx THEN <<d, c>> ELSE RivalsTxs[x]]

UnitWeight == [t \in TxId |-> 1]
Rates == [t \in TxId |-> ((a :> 2) @@ (b :> 3) @@ (c :> 4) @@ (d :> 1))[t]]
=============================================================================
