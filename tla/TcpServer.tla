----------------------------- MODULE TcpServer -----------------------------
(***************************************************************************)
(* boosted_tcp_server: the worker threads of its io_service, the           *)
(* connections it accepts and makes, the idle handlers (timers that run    *)
(* node_server::idle_worker, which connects and shakes hands while it      *)
(* blocks its worker), connect_async with its deadline, and the stop.      *)
(*                                                                         *)
(* A handler that does not block is one step of a free worker.  The        *)
(* connections themselves are modelled in module Connection: here one is   *)
(* started, has something to send or not, and is shut down.                *)
(***************************************************************************)
EXTENDS Integers, Sequences, FiniteSets

CONSTANTS
    Idles,      \* idle handlers, each with the connection it makes
    Asyncs,     \* calls of connect_async
    Accepts,    \* connections that come in
    Workers,    \* threads of run_server
    Mishaps     \* what may go wrong: a subset of MishapKinds

\* A host may be denied by the filter, an idle handler may throw, the
\* server may be told to stop.
MishapKinds == {"denied", "throws", "stop"}

\* run() starts ten workers and adds two idle handlers.
ASSUME WorkersSuffice ==
    Workers \in Nat /\ IsFiniteSet(Idles) /\ Cardinality(Idles) < Workers
                    /\ Mishaps \subseteq MishapKinds

\* A connection is made by an idle handler, by connect_async or by a peer.
ASSUME JobsApart ==
    /\ IsFiniteSet(Asyncs) /\ IsFiniteSet(Accepts)
    /\ Idles \cap Asyncs = {} /\ Idles \cap Accepts = {} /\ Asyncs \cap Accepts = {}

VARIABLES
    sv,     \* the server
    jobs    \* idle handlers, connect_async calls, incoming connections

tcpVars == <<sv, jobs>>

Jobs == Idles \cup Asyncs \cup Accepts

NewConnection ==
    [op |-> "none",         \* async_connect: pending, or completed
     ec |-> "none",         \* local_async_context::ec
     timer |-> "none",      \* the deadline
     closed |-> FALSE,      \* the deadline closed the socket
     started |-> FALSE, shut |-> FALSE, want |-> FALSE,
     queued |-> FALSE,      \* m_send_que is not empty
     late |-> FALSE,        \* started when the stop had closed all others
     heard |-> FALSE]       \* the event of do_handshake_with_peer

\* run_server has started the workers; init_server began to accept.
TcpInit ==
    /\ sv = [flag |-> FALSE, io |-> "running", hosts |-> 0, listed |-> {},
             parting |-> FALSE]
    /\ jobs = [j \in Jobs |->
                 [pc |-> IF j \in Idles THEN "timer" ELSE "none", cb |-> <<>>, c |-> NewConnection]]

Blocked == {i \in Idles : jobs[i].pc \notin {"timer", "dead"}}

\* A worker is free to run a handler.
Free == sv.io = "running" /\ Cardinality(Blocked) < Workers

Pc(j, p) == jobs[j].pc = p
To(j, p) == jobs' = [jobs EXCEPT ![j].pc = p]

-----------------------------------------------------------------------------
(* Connections.                                                            *)

Started(c) == [c EXCEPT !.started = TRUE, !.late = sv.parting, !.timer = "off"]

\* connection::start of job j's connection, after which j goes to p and the
\* callback gets onStart: counted, registered and reading, or denied by the
\* filter.  Start does not ask whether the connection has been cancelled.
Start(j, p, onStart, onDenied) ==
    \/ /\ jobs' = [jobs EXCEPT ![j] = [pc |-> p, cb |-> @.cb \o onStart,
                                      c |-> Started(@.c)]]
       /\ sv' = [sv EXCEPT !.hosts = @ + 1, !.listed = @ \ {j}]
    \/ /\ "denied" \in Mishaps
       /\ jobs' = [jobs EXCEPT ![j] = [pc |-> "back", cb |-> @.cb \o onDenied,
                                      c |-> [@.c EXCEPT !.shut = TRUE, !.timer = "off"]]]
       /\ sv' = [sv EXCEPT !.listed = @ \ {j}]

\* shutdown, with release_protocol: a waiting handshake hears of it.
ShutDown(c) == [c EXCEPT !.shut = TRUE, !.heard = TRUE]

\* connection::close.
Close(c) == IF c.queued THEN [c EXCEPT !.want = TRUE] ELSE ShutDown(c)

\* host_count goes down with the first shutdown after a start.
Counted(c) == c.started /\ ~c.shut

\* Connection j changes to c.
Becomes(j, c) ==
    /\ jobs' = [jobs EXCEPT ![j].c = c]
    /\ sv' = [sv EXCEPT !.hosts = IF Counted(jobs[j].c) /\ ~Counted(c) THEN @ - 1 ELSE @]

\* A read fails or ends.
ConnectionEnds(j) ==
    /\ Free /\ Counted(jobs[j].c)
    /\ Becomes(j, ShutDown(jobs[j].c))

\* handle_accept: the next accept is begun before the connection starts.
HandleAccept(j) ==
    /\ Free /\ j \in Accepts /\ Pc(j, "none")
    /\ Start(j, "up", <<>>, <<>>)

\* The network completes an async_connect.
NetworkAnswers(j) ==
    /\ jobs[j].c.op = "pending"
    /\ \E r \in {"ok", "error"} : jobs' = [jobs EXCEPT ![j].c.op = r]
    /\ UNCHANGED sv

-----------------------------------------------------------------------------
(* Idle handlers and the blocking connect.                                 *)

\* global_timer_handler.
IdleFires(i) == Free /\ Pc(i, "timer") /\ To(i, "run") /\ UNCHANGED sv

\* The handler returns and its timer is set again ...
IdleReturns(i) == (Pc(i, "run") \/ Pc(i, "back")) /\ To(i, "timer") /\ UNCHANGED sv

\* ... or throws: worker_thread goes on, the timer is not set again.
IdleThrows(i) == "throws" \in Mishaps /\ Pc(i, "run") /\ To(i, "dead") /\ UNCHANGED sv

\* connect: a new connection, known to send_stop_signal; the name may not
\* resolve or the socket not bind.
Connect(i) ==
    /\ Pc(i, "run") /\ ~Counted(jobs[i].c)
    /\ \/ /\ jobs' = [jobs EXCEPT ![i].pc = "wait", ![i].c = [NewConnection EXCEPT !.op = "pending"]]
          /\ sv' = [sv EXCEPT !.listed = @ \cup {i}]
       \/ To(i, "back") /\ UNCHANGED sv

\* connect_callback.
ConnectCallback(i) ==
    /\ Free /\ i \in Idles /\ jobs[i].c.op \in {"ok", "error"}
    /\ jobs' = [jobs EXCEPT ![i].c.op = "none", ![i].c.ec = jobs[i].c.op]
    /\ UNCHANGED sv

\* try_connect wakes, woken or after conn_timeout.
TryConnect(i) ==
    /\ Pc(i, "wait")
    /\ IF ~sv.flag /\ jobs[i].c.ec = "ok"
       THEN To(i, "connected") /\ UNCHANGED sv
       ELSE /\ jobs' = [jobs EXCEPT ![i].pc = "back", ![i].c.op = "none"]
            /\ sv' = [sv EXCEPT !.listed = @ \ {i}]

StartConnected(i) == Pc(i, "connected") /\ Start(i, "started", <<>>, <<>>)

\* do_handshake_with_peer: the invoke fails on a connection shut down, or is
\* queued and the event is waited for.
Handshake(i) ==
    /\ Pc(i, "started")
    /\ jobs' = [jobs EXCEPT ![i].pc = IF jobs[i].c.shut THEN "back" ELSE "shaking",
                            ![i].c.queued = ~jobs[i].c.shut]
    /\ UNCHANGED sv

\* handle_write.
Written(i) ==
    /\ Free /\ jobs[i].c.queued
    /\ LET c == [jobs[i].c EXCEPT !.queued = FALSE]
       IN  Becomes(i, IF c.want THEN ShutDown(c) ELSE c)

\* The response.
Answered(i) ==
    /\ Free /\ Pc(i, "shaking") /\ ~jobs[i].c.queued
    /\ Becomes(i, [jobs[i].c EXCEPT !.heard = TRUE])

\* The invoke's timer: the callback, then close.
InvokeTimesOut(i) ==
    /\ Free /\ Pc(i, "shaking") /\ ~jobs[i].c.heard
    /\ Becomes(i, [Close(jobs[i].c) EXCEPT !.heard = TRUE])

\* ev.wait returns.
Shaken(i) == Pc(i, "shaking") /\ jobs[i].c.heard /\ To(i, "back") /\ UNCHANGED sv

-----------------------------------------------------------------------------
(* connect_async.                                                          *)

\* The connection leaves connections_ as soon as connect_async returns, so
\* send_stop_signal never meets it.
ConnectAsync(a) ==
    /\ Free /\ a \in Asyncs /\ Pc(a, "none")
    /\ \/ To(a, "failed")
       \/ jobs' = [jobs EXCEPT ![a].pc = "connecting", ![a].c.op = "pending", ![a].c.timer = "armed"]
    /\ UNCHANGED sv

DeadlineExpires(a) ==
    /\ jobs[a].c.timer = "armed"
    /\ jobs' = [jobs EXCEPT ![a].c.timer = "due"]
    /\ UNCHANGED sv

\* The deadline's callback closes the socket, which ends a pending connect.
CloseSocket(c) ==
    [c EXCEPT !.timer = "off", !.closed = TRUE, !.op = IF c.op = "pending" THEN "error" ELSE c.op]

DeadlineRuns(a) ==
    /\ Free /\ jobs[a].c.timer = "due"
    /\ jobs' = [jobs EXCEPT ![a].c = CloseSocket(jobs[a].c)]
    /\ UNCHANGED sv

\* Mutant: a deadline that has run is not told from one that was cancelled.
CancelledAnyway(c) == TRUE

\* sh_deadline->cancel() stopped a wait.
Cancelled(c) == c.timer = "armed"

\* The callback of async_connect.
AsyncConnected(a) ==
    /\ Free /\ Pc(a, "connecting") /\ jobs[a].c.op \in {"ok", "error"}
    /\ IF jobs[a].c.op = "ok" /\ Cancelled(jobs[a].c)
       THEN Start(a, "up", <<"ok">>, <<"fault">>)
       ELSE /\ LET ec == IF jobs[a].c.op = "ok" THEN "aborted" ELSE "error"
               IN  jobs' = [jobs EXCEPT ![a] = [pc |-> "back", cb |-> Append(@.cb, ec),
                                                c |-> [@.c EXCEPT !.op = "none"]]]
            /\ UNCHANGED sv

-----------------------------------------------------------------------------
(* The stop.                                                               *)

StopFlag ==
    /\ "stop" \in Mishaps /\ ~sv.flag
    /\ sv' = [sv EXCEPT !.flag = TRUE]
    /\ UNCHANGED jobs

\* The rest of boosted_tcp_server::send_stop_signal: cancel what is being
\* connected, then stop the io_service.
StopService ==
    /\ sv.flag /\ sv.io = "running"
    /\ sv' = [sv EXCEPT !.io = "stopped", !.listed = {}]
    /\ jobs' = [j \in Jobs |-> IF j \in sv.listed THEN [jobs[j] EXCEPT !.c.shut = TRUE] ELSE jobs[j]]

\* node_server::send_stop_signal closes the connections that are registered.
CloseAll ==
    /\ sv.io = "stopped" /\ ~sv.parting
    /\ LET open == {j \in Jobs : Counted(jobs[j].c)}
           now  == [j \in Jobs |-> IF j \in open THEN Close(jobs[j].c) ELSE jobs[j].c]
       IN  /\ jobs' = [j \in Jobs |-> [jobs[j] EXCEPT !.c = now[j]]]
           /\ sv' = [sv EXCEPT !.parting = TRUE,
                               !.hosts = @ - Cardinality({j \in open : now[j].shut})]

-----------------------------------------------------------------------------
\* Steps of a thread that is running, and timers of connects.
IdleStep(i) ==
    \/ IdleFires(i) \/ IdleReturns(i)
    \/ TryConnect(i) \/ StartConnected(i) \/ Handshake(i) \/ Shaken(i)

TimeRuns(j) == InvokeTimesOut(j) \/ DeadlineExpires(j) \/ DeadlineRuns(j)

TcpNext ==
    \/ \E i \in Idles : \/ IdleStep(i) \/ IdleThrows(i) \/ Connect(i) \/ ConnectCallback(i)
                        \/ Written(i) \/ Answered(i)
    \/ \E a \in Asyncs : ConnectAsync(a) \/ AsyncConnected(a)
    \/ \E j \in Jobs : \/ HandleAccept(j) \/ ConnectionEnds(j) \/ NetworkAnswers(j)
                       \/ TimeRuns(j)
    \/ StopFlag \/ StopService \/ CloseAll

TcpSpec == TcpInit /\ [][TcpNext]_tcpVars

\* Threads run, time passes, and a stop that has begun is carried through.
TcpFairness ==
    /\ \A i \in Idles : WF_tcpVars(IdleStep(i)) /\ WF_tcpVars(InvokeTimesOut(i))
    /\ \A a \in Asyncs : /\ WF_tcpVars(AsyncConnected(a))
                         /\ WF_tcpVars(DeadlineExpires(a) \/ DeadlineRuns(a))
    /\ WF_tcpVars(StopService \/ CloseAll)

-----------------------------------------------------------------------------
(* Properties.                                                             *)

\* The deadline of connect_async never closes the socket of a connection
\* that was started: "deadline timer already queued callback ..., rare
\* situation" is told from a deadline that was cancelled in time.
DeadlineSparesStarted == \A a \in Asyncs : jobs[a].c.started => ~jobs[a].c.closed

\* connect_async calls back at most once, and says "ok" exactly when the
\* connection was started.
AsyncCallsBackOnce ==
    \A a \in Asyncs : /\ Len(jobs[a].cb) <= 1
                      /\ jobs[a].c.started <=> jobs[a].cb = <<"ok">>

\* host_count is the number of connections that were started and not shut
\* down, until a stop cancels one on its way to start: that one is counted
\* and never discounted.
HostsCounted ==
    LET open == Cardinality({j \in Jobs : Counted(jobs[j].c)})
    IN  /\ sv.hosts >= open
        /\ sv.io = "running" => sv.hosts = open

\* Deadlines, callbacks and the count of hosts survive every interleaving of
\* completions, timers, denials and the stop.
ServerSound == DeadlineSparesStarted /\ AsyncCallsBackOnce /\ HostsCounted

\* connect_async that returned TRUE calls back, unless the service stops.
AsyncEnds ==
    \A a \in Asyncs :
        Pc(a, "connecting") ~> (~Pc(a, "connecting") \/ sv.io = "stopped")

\* Idle handlers run again and again: a blocking connect and a handshake
\* each end, because a worker is left to run the timers.  The exceptions are
\* a handler that threw, and the stop.
IdleRunsAgain ==
    \A i \in Idles : []<>(Pc(i, "run") \/ Pc(i, "dead") \/ sv.flag)

\* Once stopped, every worker leaves its handler and run_server can join
\* them.  The exception is a handshake whose connection send_stop_signal did
\* not shut down: its request was still queued, or it was started after the
\* registered connections had been closed.
StopEnds ==
    sv.flag ~> \A i \in Blocked : Pc(i, "shaking") /\ (jobs[i].c.want \/ jobs[i].c.late)

=============================================================================
