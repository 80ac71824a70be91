---------------------------- MODULE MCDatabase ----------------------------
(***************************************************************************)
(* A small database: a genesis block with a version 1 miner transaction, a *)
(* block bb on it with transaction tx, and two blocks on bb: one with ty   *)
(* and one with tz, which spends an image of tx again.                     *)
(***************************************************************************)
EXTENDS Database

CONSTANTS bg, bb, bc, bd, mg, mb, mc, md, tx, ty, tz, k1, k2

Txs == {mg, mb, mc, md, tx, ty, tz}
Blocks == {bg, bb, bc, bd}
Inputs == (tx :> <<k1>>) @@ (ty :> <<k2>>) @@ (tz :> <<k2, k1>>)
            @@ [t \in {mg, mb, mc, md} |-> <<Gen>>]
Outputs == (mg :> <<5, 3>>) @@ (tx :> <<0, 0>>) @@ (ty :> <<0>>) @@ (tz :> <<0>>)
            @@ [t \in {mb, mc, md} |-> <<5>>]
Versions == [t \in Txs |-> IF t = mg THEN 1 ELSE 2]
Miners == (bg :> mg) @@ (bb :> mb) @@ (bc :> mc) @@ (bd :> md)
Bodies == (bg :> <<>>) @@ (bb :> <<tx>>) @@ (bc :> <<ty>>) @@ (bd :> <<tz>>)
Parents == (bg :> None) @@ (bb :> bg) @@ (bc :> bb) @@ (bd :> bb)
MajorVersions == [n \in Blocks |-> 17]
FullAfter == {0, 4, 9, 14}
==========================================================================
