------------------------------- MODULE MCNet -------------------------------
(***************************************************************************)
(* Three parts of the network layer, one of which runs in a behaviour: the *)
(* byte stream of a connection, a connection under concurrent use, and the *)
(* server that makes connections.                                          *)
(***************************************************************************)
EXTENDS LevinStream, Connection, TcpServer

CONSTANTS i1, i2, n1, b1

Msg(flag, command, answer, cb) ==
    [flag |-> flag, command |-> command, answer |-> answer, cb |-> cb,
     inner |-> command, innerCb |-> 0]

Wrapped(inner, cb, innerCb) ==
    [flag |-> "none", command |-> "dummy", answer |-> FALSE, cb |-> cb,
     inner |-> inner, innerCb |-> innerCb]

MCMessages ==
    {Msg("request", "handshake", TRUE, 1), Msg("request", "ping", TRUE, 0),
     Msg("request", "block", FALSE, 4), Msg("request", "chain", FALSE, 9),
     Msg("response", "sync", FALSE, 2), Wrapped("block", 6, 1),
     Wrapped("ping", 2, 2), Wrapped("block", 7, 10)}

MCStreams == MCMessages \X MCMessages

MCMaxBytes ==
    [c \in {"handshake", "ping", "block", "chain", "sync", "dummy"} |->
        CASE c = "ping" -> 2 [] c = "block" -> 9 [] OTHER -> 20]

Scenario(callers, may) == [callers |-> callers, may |-> may]

\* Two callers and one trouble, one invoke and two troubles, or two invokes.
MCScenarios ==
    {Scenario({i1, c}, {t}) : c \in {n1, b1}, t \in Troubles} \cup
    {Scenario({i1}, t) : t \in kSubset(2, Troubles)} \cup
    {Scenario({i1, i2}, {})}

VARIABLE machine    \* the part that runs

vars == <<machine, lv, connVars, tcpVars>>

\* A part that does not run.
StreamOff == lv = [status |-> "off", why |-> "off"]
ConnOff   == ConnInit /\ cx.callers = {i1, i2}
TcpOff    == /\ sv = [flag |-> TRUE, io |-> "off", hosts |-> 0, listed |-> {}, parting |-> TRUE]
             /\ jobs = [j \in Jobs |-> [pc |-> "dead", cb |-> <<>>, c |-> NewConnection]]

NetInit ==
    \/ machine = "stream" /\ StreamInit /\ ConnOff /\ TcpOff
    \/ machine = "connection" /\ StreamOff /\ ConnInit /\ TcpOff
    \/ machine = "server" /\ StreamOff /\ ConnOff /\ TcpInit

NetNext ==
    /\ UNCHANGED machine
    /\ \/ machine = "stream" /\ StreamNext /\ UNCHANGED <<connVars, tcpVars>>
       \/ machine = "connection" /\ ConnNext /\ UNCHANGED <<lv, tcpVars>>
       \/ machine = "server" /\ TcpNext /\ UNCHANGED <<lv, connVars>>

NetSpec == NetInit /\ [][NetNext]_vars /\ ConnFairness /\ TcpFairness

-----------------------------------------------------------------------------
\* Whatever was begun ends: invokes, closing, connects, idle handlers, the stop.
CallsEnd == InvokesEnd /\ ClosingEnds /\ AsyncEnds /\ IdleRunsAgain /\ StopEnds

=============================================================================
