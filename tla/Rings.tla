-------------------------------- MODULE Rings --------------------------------
(***************************************************************************)
(* The ring of one input (RPC_Client::get_tx_outputs, gamma_picker): which *)
(* outputs the wallet asks the daemon for, and which of the answers become *)
(* the decoys.  Outputs are numbered over the whole chain; offsets[k] is   *)
(* how many there are in the first k blocks.  The wallet asks for more     *)
(* than it needs, in case some are still locked.                           *)
(***************************************************************************)
EXTENDS Integers, Sequences, FiniteSets, SequencesExt, FiniteSetsExt

CONSTANTS
    Distributions,  \* the offsets that are tried
    Age,            \* CRYPTONOTE_DEFAULT_TX_SPENDABLE_AGE
    FakeOuts,       \* fake_outputs_count
    Requested       \* requested_outputs_count

VARIABLE ring       \* the local variables of get_tx_outputs, for one input

\* Unlocked outputs: those of all blocks but the last Age - 1.
NumOuts(offsets) == offsets[Len(offsets) - Age + 1]

\* What gamma_picker::pick may return: an output of the block the drawn
\* position falls in, counted from the newest unlocked block.
GammaPicks(offsets) ==
    LET end == Len(offsets) - Age
        Block(x) == Min({k \in 1 .. end : offsets[k] >= x})
        First(k) == IF k = 1 THEN 0 ELSE offsets[k - 1]
        blocks == {Block(x) : x \in 0 .. offsets[end] - 1}
    IN  UNION {First(k) .. offsets[k] - 1 : k \in blocks}

-----------------------------------------------------------------------------
\* The real output is one the wallet may spend; "locked" are the outputs the
\* daemon reports as locked, coinbase outputs among the recent ones.
RingsInit ==
    \E offsets \in Distributions :
    \E real \in 0 .. NumOuts(offsets) - 1,
       locked \in SUBSET (offsets[Len(offsets) - Age] .. Last(offsets) - 1) :
        /\ offsets[Len(offsets) - Age] > 0
        /\ real \notin locked
        /\ ring = [offsets |-> offsets, real |-> real, locked |-> locked,
                   req |-> <<>>, outs |-> <<>>, left |-> {}, status |-> "ask"]

Few == NumOuts(ring.offsets) <= Requested

Asked == ToSet(ring.req)

\* Few outputs exist: all are asked for, the last one again and again.
AskForAll ==
    /\ ring.status = "ask" /\ Few
    /\ LET n == NumOuts(ring.offsets)
       IN  ring' = [ring EXCEPT
                      !.req = [k \in 1 .. Requested |-> IF k <= n THEN k - 1 ELSE n - 1],
                      !.status = "sort"]

AskForReal ==
    /\ ring.status = "ask" /\ ~ Few /\ ring.req = <<>>
    /\ ring' = [ring EXCEPT !.req = <<ring.real>>]

\* A new pick is kept, a repeated one is drawn again.
Draw(i) ==
    /\ ring.status = "ask" /\ ~ Few /\ ring.req # <<>>
    /\ Len(ring.req) < Requested
    /\ Cardinality(Asked) # NumOuts(ring.offsets)
    /\ i \in GammaPicks(ring.offsets) \ Asked
    /\ ring' = [ring EXCEPT !.req = Append(@, i)]

\* Enough are picked.
Picked ==
    /\ ring.status = "ask" /\ ~ Few /\ Len(ring.req) = Requested
    /\ ring' = [ring EXCEPT !.status = "sort"]

\* The request is sorted and sent; the answer must hold the real output.
SendRequest ==
    /\ ring.status = "sort"
    /\ ring' = IF ring.real \notin Asked
               THEN [ring EXCEPT !.status = "real_not_included"]
               ELSE [ring EXCEPT !.req = SortSeq(@, <),
                                 !.outs = <<ring.real>>,
                                 !.left = 1 .. Requested,
                                 !.status = "pick"]

\* tx_add_fake_output: locked outputs, the real one and duplicates are
\* passed over.
TxAddFakeOutput(outs, i) ==
    IF i \in ring.locked \/ i = ring.real \/ Contains(outs, i) THEN outs
    ELSE Append(outs, i)

\* The answers are looked at in random order until the ring is full.
Consider(n) ==
    /\ ring.status = "pick" /\ n \in ring.left
    /\ Len(ring.outs) < FakeOuts + 1
    /\ ring' = [ring EXCEPT !.outs = TxAddFakeOutput(@, ring.req[n]),
                            !.left = @ \ {n}]

Close ==
    /\ ring.status = "pick"
    /\ ring.left = {} \/ Len(ring.outs) = FakeOuts + 1
    /\ ring' = IF Len(ring.outs) < FakeOuts + 1
               THEN [ring EXCEPT !.status = "not_enough_outs"]
               ELSE [ring EXCEPT !.outs = SortSeq(@, <), !.left = {}, !.status = "done"]

RingsNext ==
    \/ AskForAll \/ AskForReal \/ Picked \/ SendRequest \/ Close
    \/ \E i \in 0 .. Last(ring.offsets) : Draw(i)
    \/ \E n \in ring.left : Consider(n)

-----------------------------------------------------------------------------
\* Properties

\* A finished ring has one real output and FakeOuts decoys, all different,
\* in increasing order (what absolute_output_offsets_to_relative needs), and
\* every decoy is an unlocked output of the chain (get_tx_outputs).
RingSound ==
    ring.status = "done" =>
        /\ Len(ring.outs) = FakeOuts + 1
        /\ \A k \in 1 .. FakeOuts : ring.outs[k] < ring.outs[k + 1]
        /\ Contains(ring.outs, ring.real)
        /\ ToSet(ring.outs) \subseteq (0 .. Last(ring.offsets) - 1) \ ring.locked

\* The daemon cannot tell the real output from the request: each input asks
\* for the same number of outputs, in increasing order, and the real one is
\* among outputs that could have been picked or all that exist.  The answers
\* of several inputs are told apart by that number.
RequestUniform ==
    ring.status \in {"pick", "done", "not_enough_outs"} =>
        /\ Len(ring.req) = Requested
        /\ \A k \in 1 .. Requested - 1 : ring.req[k] <= ring.req[k + 1]
        /\ Asked \subseteq 0 .. NumOuts(ring.offsets) - 1

\* A ring fails for lack of outputs only when fewer unlocked ones were asked
\* for than it needs.
FailsWhenShort ==
    ring.status = "not_enough_outs" =>
        Cardinality((Asked \cup {ring.real}) \ ring.locked) < FakeOuts + 1

=============================================================================
