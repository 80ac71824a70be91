------------------------------- MODULE Ledger -------------------------------
(***************************************************************************)
(* Transactions as the chain and the pool see them: the key images they    *)
(* spend and the transactions whose outputs their rings use.               *)
(***************************************************************************)

CONSTANTS
  TxId,         \* transaction hashes
  KeyImage,     \* key images
  images,       \* [TxId -> non-empty sets of KeyImage]: the inputs
  ring          \* [TxId -> SUBSET TxId]: transactions whose outputs the rings use

ASSUME ImagesAssumption == images \in [TxId -> (SUBSET KeyImage) \ {{}}]

ASSUME RingAssumption == ring \in [TxId -> SUBSET TxId]

\* Mutant: the key images of the chain are not looked at.
MutCheckInputs(t, mined) == ring[t] \subseteq mined

(***************************************************************************)
(* check_ringct_inputs, as far as it depends on the chain: no input is     *)
(* spent by a mined transaction and every ring member is an output of one. *)
(***************************************************************************)
CheckInputs(t, mined) ==
  /\ \A u \in mined : images[t] \cap images[u] = {}
  /\ ring[t] \subseteq mined

\* No key image is spent twice in S.
Compatible(S) == \A t, u \in S : t # u => images[t] \cap images[u] = {}
=============================================================================
