----------------------------- MODULE ChainStore -----------------------------
(***************************************************************************)
(* What the block database promises to the code above it: a saved chain of *)
(* blocks, and at most one unit of work on a private copy of it, which is  *)
(* saved as a whole or not at all. A unit of work that met an error can    *)
(* only be given up. The database (Database.tla) is shown to implement     *)
(* this specification.                                                     *)
(***************************************************************************)
EXTENDS Sequences, Integers

CONSTANTS
  Block,
  Linked(_, _)    \* Linked(chain, b): block b may follow the chain

VARIABLES
  saved,          \* the chain on disk
  phase,          \* of the unit of work: "none", "open", or "broken" by an error
  work            \* the chain of the open unit of work

vars == <<saved, phase, work>>

Init == saved = <<>> /\ phase = "none" /\ work = <<>>

Begin == phase = "none" /\ phase' = "open" /\ work' = saved /\ UNCHANGED saved

Push(b) ==
  /\ phase = "open" /\ Linked(work, b)
  /\ work' = Append(work, b) /\ UNCHANGED <<saved, phase>>

Pop ==
  /\ phase = "open" /\ Len(work) > 1
  /\ work' = SubSeq(work, 1, Len(work) - 1) /\ UNCHANGED <<saved, phase>>

Break == phase = "open" /\ phase' = "broken" /\ work' = <<>> /\ UNCHANGED saved

Save == phase = "open" /\ saved' = work /\ phase' = "none" /\ work' = <<>>

GiveUp == phase # "none" /\ phase' = "none" /\ work' = <<>> /\ UNCHANGED saved

(* The first block is saved as soon as the database is made.               *)
Found(b) ==
  /\ phase = "none" /\ saved = <<>> /\ Linked(<<>>, b)
  /\ saved' = <<b>> /\ UNCHANGED <<phase, work>>

Next ==
  \/ Begin \/ Pop \/ Break \/ Save \/ GiveUp
  \/ \E b \in Block : Push(b) \/ Found(b)

Spec == Init /\ [][Next]_vars
=============================================================================
