------------------------------ MODULE MCWallet ------------------------------
EXTENDS Wallet

\* A chain with three branches.  o1 is mined by this wallet, o2 paid to its
\* second account, o3 the change of its own transaction "own", which spends
\* o1; "twin" spends o1 from another copy of the wallet.
MCTxsOf ==
    [g |-> <<>>, e |-> <<>>, a1 |-> <<"mined">>, a2 |-> <<"own">>, a3 |-> <<"gift">>,
     b2 |-> <<"gift">>, b3 |-> <<"twin">>, b4 |-> <<>>, c1 |-> <<>>, c2 |-> <<"gift">>]
MCIns == [mined |-> {}, gift |-> {}, own |-> {"o1"}, twin |-> {"o1"}]
MCOuts == [mined |-> <<"o1">>, gift |-> <<"o2">>, own |-> <<"o3">>, twin |-> <<>>]
MCAmount == [o1 |-> 3, o2 |-> 1, o3 |-> 2]
MCAccount == [o1 |-> 0, o2 |-> 1, o3 |-> 0]
MCKey == [o1 |-> "o1", o2 |-> "o2", o3 |-> "o3"]
MCUnlock == [mined |-> 3, gift |-> 0, own |-> 0, twin |-> 0]
MCChains == <<<<"g", "e", "a1">>, <<"g", "e", "a1", "b2">>, <<"g", "e", "a1", "a2">>,
              <<"g", "e", "a1", "b2", "b3">>, <<"g", "c1", "c2">>,
              <<"g", "e", "a1", "a2", "a3">>, <<"g", "e", "a1", "b2", "b3", "b4">>>>
=============================================================================
