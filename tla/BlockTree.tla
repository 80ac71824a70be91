------------------------------ MODULE BlockTree ------------------------------
(***************************************************************************)
(* The tree of blocks.  A block holds the hash of its parent, so it        *)
(* determines its ancestors, and a chain is given by its last block.       *)
(***************************************************************************)
EXTENDS Integers, FiniteSets

CONSTANTS
  Block,    \* block hashes
  Genesis,  \* the genesis block
  parent,   \* [Block -> Block]: prev_id
  path      \* [Block -> SUBSET Block]: the block and its ancestors

ASSUME TreeAssumption ==
  /\ Genesis \in Block
  /\ parent \in [Block -> Block]
  /\ path \in [Block -> SUBSET Block]
  /\ \A b \in Block : IsFiniteSet(path[b])
  /\ path[Genesis] = {Genesis}
  /\ \A b \in Block \ {Genesis} : b \notin path[parent[b]] /\ path[b] = path[parent[b]] \cup {b}

Height(b) == Cardinality(path[b]) - 1
=============================================================================
