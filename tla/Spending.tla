------------------------------ MODULE Spending ------------------------------
(***************************************************************************)
(* How the wallet turns destinations into transactions                     *)
(* (create_transactions).  A loop takes one output at a time, pays the     *)
(* destinations with it as far as it goes, and closes a transaction when   *)
(* everything is paid or the transaction is getting too heavy; then it     *)
(* needs a fee, which may take more outputs.  Which output is taken among  *)
(* the least related ones is random.                                       *)
(*                                                                         *)
(* A transfer is its amount, its account and subaddress (major, minor),    *)
(* the transaction and height it comes from and whether it may be spent:   *)
(* not spent, not frozen and unlocked.  A destination is an address and an *)
(* amount.  The weight of a transaction depends on its numbers of inputs   *)
(* and outputs; the real weight may differ from the estimate.              *)
(***************************************************************************)
EXTENDS Integers, Sequences, FiniteSets, SequencesExt, FiniteSetsExt

CONSTANTS
    Wallets,                \* the lists of transfers that are tried
    Payments,               \* the lists of destinations that are tried
    RealWeights,            \* real weights tried: function of <<inputs, outputs>>
    EstimatedWeight(_, _),  \* estimate_tx_weight
    FeePerWeight,           \* base fee times the priority's multiplier
    Quantum,                \* fee_quantization_mask
    WeightTarget,           \* TX_WEIGHT_TARGET(upper_transaction_weight_limit)
    WeightLimit             \* upper_transaction_weight_limit

VARIABLE spend      \* the local variables of create_transactions

Amounts(list) == FoldLeft(LAMBDA sum, x : sum + x.amount, 0, list)

-----------------------------------------------------------------------------
\* Fees

CalculateFeeFromWeight(weight) ==
    ((weight * FeePerWeight + Quantum - 1) \div Quantum) * Quantum

EstimateFee(nin, nout) == CalculateFeeFromWeight(EstimatedWeight(nin, nout))

\* get_num_outputs: the change, and a dummy output when there is only one.
GetNumOutputs(dsts, inputs) ==
    Max({2, Len(dsts) + (IF inputs # Amounts(dsts) THEN 1 ELSE 0)})

-----------------------------------------------------------------------------
\* Choosing outputs

\* get_output_relatedness, in tenths.
Relatedness(a, b) ==
    LET dh == IF a.height > b.height THEN a.height - b.height ELSE b.height - a.height
    IN  CASE a.tx = b.tx -> 10
          [] a.tx # b.tx /\ dh = 0 -> 9
          [] a.tx # b.tx /\ dh = 1 -> 8
          [] a.tx # b.tx /\ dh \in 2 .. 9 -> 2
          [] OTHER -> 0

\* pop_best_value_from: the candidates among the unused outputs.
BestValues(ts, unused, selected) ==
    LET Rel(i) == Max({0} \cup {Relatedness(ts[i], ts[j]) : j \in ToSet(selected)})
        best == Min({Rel(i) : i \in ToSet(unused)})
    IN  {i \in ToSet(unused) : Rel(i) = best}

\* pick_preferred_rct_inputs: the first output that is enough alone, else
\* the first of the least related pairs of one subaddress.
PickPreferredRctInputs(ts, needed) ==
    LET usable == {i \in DOMAIN ts : ts[i].free}
        alone == {i \in usable : ts[i].amount >= needed}
        pairs == {p \in usable \X usable :
                    /\ p[1] < p[2]
                    /\ ts[p[1]].minor = ts[p[2]].minor
                    /\ ts[p[1]].amount + ts[p[2]].amount >= needed
                    /\ Relatedness(ts[p[1]], ts[p[2]]) < 10}
        Rel(p) == Relatedness(ts[p[1]], ts[p[2]])
        least == {p \in pairs : \A q \in pairs : Rel(p) <= Rel(q)}
        First(p) == \A q \in least : p[1] < q[1] \/ (p[1] = q[1] /\ p[2] <= q[2])
    IN  CASE alone # {} -> <<Min(alone)>>
          [] alone = {} /\ pairs # {} -> CHOOSE p \in least : First(p)
          [] OTHER -> <<>>

\* The usable outputs of each subaddress, in the order of the wallet.
UnusedPerSubaddr(ts, minors) ==
    LET Of(m) == SelectSeq([i \in DOMAIN ts |-> i],
                           LAMBDA i : ts[i].free /\ ts[i].minor = m)
    IN  [k \in DOMAIN minors |-> Of(minors[k])]

\* Subaddresses by decreasing unlocked balance, the one of the preferred
\* inputs swapped to the front.
Minors(ts, preferred) ==
    LET usable == {i \in DOMAIN ts : ts[i].free}
        all == {ts[i].minor : i \in usable}
        Balance(m) == FoldSet(LAMBDA i, sum : sum + ts[i].amount, 0,
                              {i \in usable : ts[i].minor = m})
        sorted == SetToSortSeq(all, LAMBDA a, b :
                    Balance(a) > Balance(b) \/ (Balance(a) = Balance(b) /\ a < b))
        k == IF preferred = <<>> THEN 1
             ELSE SelectInSeq(sorted, LAMBDA m : m = ts[preferred[1]].minor)
    IN  IF sorted = <<>> THEN <<>>
        ELSE [sorted EXCEPT ![1] = sorted[k], ![k] = sorted[1]]

-----------------------------------------------------------------------------
\* Transactions

NewTx == [selected |-> <<>>, dsts |-> <<>>, fee |-> 0]

\* TX::add without merging: the destination in hand is at outIndex.
AddDst(tx, d, amount, outIndex) ==
    IF outIndex = Len(tx.dsts)
    THEN [tx EXCEPT !.dsts = Append(@, [d EXCEPT !.amount = amount])]
    ELSE [tx EXCEPT !.dsts[outIndex + 1].amount = @ + amount]

InputsOf(s, tx) == Amounts([k \in DOMAIN tx.selected |-> s.ts[tx.selected[k]]])

\* transfer_selected_rct: what goes to the destinations and the fee is taken
\* from the inputs, the rest is change.
Change(s, tx, fee) == InputsOf(s, tx) - Amounts(tx.dsts) - fee

RealNumOuts(s, tx, fee) ==
    Len(tx.dsts) + (IF Change(s, tx, fee) = 0 THEN 0 ELSE 1)

RealWeight(s, tx, fee) == s.real[<<Len(tx.selected), RealNumOuts(s, tx, fee)>>]

\* The fee the built transaction needs.
CalculateFee(s, tx, fee) == CalculateFeeFromWeight(RealWeight(s, tx, fee))

Current(s) == s.txes[Len(s.txes)]

WithCurrent(s, tx) == [s EXCEPT !.txes[Len(s.txes)] = tx]

Error(s, what) == [s EXCEPT !.status = what]

-----------------------------------------------------------------------------
\* The steps of the loop

HasRoom(tx) == EstimatedWeight(Len(tx.selected), Len(tx.dsts) + 1) < WeightTarget

\* The available amount pays as many destinations as it can, the last one
\* in part.
RECURSIVE Pay(_, _)
Pay(s, available) ==
    LET tx == Current(s)
        d == Head(s.dsts)
    IN  CASE s.dsts = <<>> \/ available = 0 \/ ~ HasRoom(tx) -> s
          [] s.dsts # <<>> /\ HasRoom(tx) /\ d.amount <= available ->
               Pay([WithCurrent(s, AddDst(tx, d, d.amount, s.outIndex)) EXCEPT
                      !.dsts = Tail(@), !.outIndex = @ + 1],
                   available - d.amount)
          [] OTHER ->
               [WithCurrent(s, AddDst(tx, d, available, s.outIndex)) EXCEPT
                  !.dsts[1].amount = @ - available]

\* The output goes to the fee or to the destinations.
Use(s, i) ==
    LET tx == Current(s)
        t == WithCurrent(s, [tx EXCEPT !.selected = Append(@, i)])
    IN  IF s.addingFee THEN [t EXCEPT !.availableForFee = @ + s.ts[i].amount]
        ELSE Pay(t, s.ts[i].amount)

TimeToTry(s) ==
    /\ s.preferred = <<>>
    /\ IF s.addingFee THEN s.availableForFee >= s.neededFee
       ELSE s.dsts = <<>> \/ ~ HasRoom(Current(s))

\* The fee is raised until the transaction built with it needs no more.
RECURSIVE FinalFee(_, _, _, _)
FinalFee(s, tx, fee, needed) ==
    IF needed > fee THEN FinalFee(s, tx, needed, CalculateFee(s, tx, needed)) ELSE fee

\* The transaction is kept, and another one begun if there is more to pay.
Keep(s, tx, fee) ==
    LET t == [WithCurrent(s, [tx EXCEPT !.fee = fee]) EXCEPT !.addingFee = FALSE]
    IN  IF t.dsts = <<>> THEN t
        ELSE [t EXCEPT !.txes = Append(@, NewTx), !.outIndex = 0]

GatherFee(s, needed) == [s EXCEPT !.addingFee = TRUE, !.neededFee = needed]

\* Mutant: what is carved out is not paid later.
CarveForgets(s, tx, i, needed) ==
    Keep([s EXCEPT !.neededFee = needed, !.availableForFee = needed],
         [tx EXCEPT !.dsts[i].amount = @ - needed], needed)

\* The fee is carved out of what the destination paid in part receives here;
\* that much is left to pay in the next transaction.
Carve(s, tx, i, needed) ==
    Keep([s EXCEPT !.dsts[1].amount = @ + needed, !.neededFee = needed,
                   !.availableForFee = needed],
         [tx EXCEPT !.dsts[i].amount = @ - needed], needed)

\* Enough for the estimated fee: the transaction is built, and its real
\* weight decides.
Build(s, estimated) ==
    LET tx == Current(s)
        needed == CalculateFee(s, tx, estimated)
        available == InputsOf(s, tx) - Amounts(tx.dsts)
        i == SelectInSeq(tx.dsts, LAMBDA d : d.addr = Head(s.dsts).addr)
        short == [s EXCEPT !.availableForFee = available, !.neededFee = needed]
    IN  CASE RealWeight(s, tx, estimated) >= WeightLimit -> Error(s, "tx_too_big")
          [] RealWeight(s, tx, estimated) < WeightLimit /\ needed <= available ->
               Keep(short, tx, FinalFee(s, tx, estimated, needed))
          [] OTHER ->
               IF s.dsts = <<>> THEN GatherFee(short, needed)
               ELSE IF i = 0 THEN Error(s, "paid_address_not_found")
               ELSE IF tx.dsts[i].amount > needed THEN Carve(s, tx, i, needed)
               ELSE GatherFee(short, needed)

TryTx(s) ==
    LET tx == Current(s)
        inputs == InputsOf(s, tx)
        estimated == EstimateFee(Len(tx.selected), GetNumOutputs(tx.dsts, inputs))
    IN  CASE ~ s.addingFee /\ tx.dsts = <<>> -> Error(s, "tx_too_big")
          [] inputs < Amounts(tx.dsts) + estimated -> GatherFee(s, estimated)
          [] OTHER -> Build(s, estimated)

\* The next subaddress, once the outputs of this one are used up.
NextSubaddr(s) ==
    IF /\ s.dsts # <<>> \/ s.addingFee
       /\ Head(s.unused) = <<>> /\ Len(s.unused) > 1
    THEN [s EXCEPT !.unused = Tail(@)] ELSE s

Iterate(s, i) ==
    LET t == Use(s, i)
    IN  NextSubaddr(IF TimeToTry(t) THEN TryTx(t) ELSE t)

-----------------------------------------------------------------------------
\* create_transactions

SpendInit ==
    \E ts \in Wallets, dsts \in Payments, real \in RealWeights :
        spend = [ts |-> ts, wanted |-> dsts, dsts |-> dsts, real |-> real,
                 unused |-> <<>>, preferred |-> <<>>, txes |-> <<NewTx>>,
                 addingFee |-> FALSE, neededFee |-> 0, availableForFee |-> 0,
                 outIndex |-> 0, status |-> "start"]

\* The early checks, the usable outputs and the preferred ones.
Begin ==
    LET needed == Amounts(spend.dsts)
        balance == Amounts(SelectSeq(spend.ts, LAMBDA t : t.free))
        preferred == PickPreferredRctInputs(spend.ts, needed + EstimateFee(2, 2))
    IN  /\ spend.status = "start"
        /\ spend' = IF needed + FeePerWeight * EstimatedWeight(1, 2) > balance
                    THEN Error(spend, "not_enough_money")
                    ELSE [spend EXCEPT
                            !.preferred = preferred,
                            !.unused = UnusedPerSubaddr(spend.ts, Minors(spend.ts, preferred)),
                            !.status = "loop"]

GoingOn(s) == s.dsts # <<>> \/ s.addingFee \/ s.preferred # <<>>

\* Money is needed and no output is left.
NoMoreOutputs ==
    /\ spend.status = "loop" /\ GoingOn(spend)
    /\ Head(spend.unused) = <<>>
    /\ spend' = Error(spend, "tx_not_possible")

\* The preferred inputs are used first, from the back.
TakePreferred ==
    LET i == Last(spend.preferred)
    IN  /\ spend.status = "loop" /\ spend.preferred # <<>>
        /\ Head(spend.unused) # <<>>
        /\ spend' = Iterate([spend EXCEPT
                               !.preferred = Front(@),
                               !.unused[1] = SelectSeq(@, LAMBDA j : j # i)], i)

TakeBestValue(i) ==
    /\ spend.status = "loop" /\ GoingOn(spend) /\ spend.preferred = <<>>
    /\ Head(spend.unused) # <<>>
    /\ i \in BestValues(spend.ts, Head(spend.unused), Current(spend).selected)
    /\ spend' = Iterate([spend EXCEPT
                           !.unused[1] = SelectSeq(@, LAMBDA j : j # i)], i)

\* Every transaction is built again with the fee that was settled.
BuildAll ==
    /\ spend.status = "loop" /\ ~ GoingOn(spend)
    /\ LET Short(tx) == Change(spend, tx, tx.fee) < 0
           Heavy(tx) == RealWeight(spend, tx, tx.fee) >= WeightLimit
       IN  spend' = CASE \E tx \in ToSet(spend.txes) : Short(tx) ->
                           Error(spend, "not_enough_unlocked_money")
                      [] \E tx \in ToSet(spend.txes) : ~ Short(tx) /\ Heavy(tx) ->
                           Error(spend, "tx_too_big")
                      [] OTHER -> [spend EXCEPT !.status = "done"]

SpendNext ==
    \/ Begin \/ NoMoreOutputs \/ TakePreferred \/ BuildAll
    \/ \E i \in DOMAIN spend.ts : TakeBestValue(i)

-----------------------------------------------------------------------------
\* Properties

PaidTo(list, a) == Amounts(SelectSeq(list, LAMBDA d : d.addr = a))

\* Every address receives, over all the transactions, exactly what it was
\* to receive: sanity_check says it checks this but does not.
EveryoneIsPaid ==
    spend.status = "done" =>
        LET outs == FlattenSeq([k \in DOMAIN spend.txes |-> spend.txes[k].dsts])
        IN  \A d \in ToSet(spend.wanted) : PaidTo(outs, d.addr) = PaidTo(spend.wanted, d.addr)

\* No output is an input twice, in one transaction or in two of them, and
\* only outputs that may be spent are used.
InputsOnce ==
    LET ins == FlattenSeq([k \in DOMAIN spend.txes |-> spend.txes[k].selected])
    IN  /\ IsInjective(ins)
        /\ \A i \in ToSet(ins) : spend.ts[i].free

\* The transactions that are sent pay at least the fee for their weight.
FeesAreEnough ==
    spend.status = "done" =>
        \A tx \in ToSet(spend.txes) : tx.fee >= CalculateFee(spend, tx, tx.fee)

\* The wallet gives up for lack of money only when every output it may spend
\* has been used.
GivesUpLast ==
    spend.status = "tx_not_possible" =>
        \A i \in DOMAIN spend.ts :
            spend.ts[i].free => \E tx \in ToSet(spend.txes) : Contains(tx.selected, i)

=============================================================================
