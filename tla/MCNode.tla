------------------------------- MODULE MCNode -------------------------------
(***************************************************************************)
(* One peer on the host of this node, and one on a host of its own.        *)
(***************************************************************************)
EXTENDS Node, TLC

CONSTANTS pa, pb, me, ha, hb, s1, s2

TwoOfAHost == (pa :> ha) @@ (pb :> hb) @@ (me :> ha)

OneEach == [white |-> <<pb>>, gray |-> <<me>>, anchor |-> {pb}]
=============================================================================
