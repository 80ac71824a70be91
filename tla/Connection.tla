----------------------------- MODULE Connection -----------------------------
(***************************************************************************)
(* A started TCP connection (epee connection<> and its                     *)
(* async_protocol_handler) while several threads use it:                   *)
(*                                                                         *)
(*   - callers, which look the connection up by its id and invoke a        *)
(*     command, send a notification or ask for a callback;                 *)
(*   - the strand, which completes reads and writes one after the other;   *)
(*   - the connection's timer and the timer of each invoke, whose          *)
(*     callbacks do not go through the strand;                             *)
(*   - one thread that drops the connection (async_protocol_handler_config *)
(*     ::close).                                                           *)
(*                                                                         *)
(* A step is what a thread does between two points where another one can   *)
(* interfere.  An expired timer whose callback waits for a thread is       *)
(* "due": cancelling it has no effect any more.                            *)
(***************************************************************************)
EXTENDS Integers, Sequences, FiniteSets, Functions

CONSTANTS
    Invokes, Notifies, Callbacks,   \* the callers, by what they call
    Scenarios,                      \* who calls, and what may go wrong
    MaxPeerMsgs                     \* messages the peer sends unasked

VARIABLES
    cx,     \* the connection object
    calls,  \* the callers
    closer, \* threads inside connection::close
    wire    \* what is under way between the two ends

connVars == <<cx, calls, closer, wire>>

Callers == Invokes \cup Notifies \cup Callbacks

\* The threads that call connection::close: the one that drops the
\* connection, its timer, and the timers of the invokes.
Closers == {"drop", "timer"} \cup Invokes

\* What may disturb the connection, apart from invokes that time out.
Troubles == {"drop", "silence", "write fails", "read fails", "peer stops", "peer talks"}

ASSUME ScenariosOK == \A s \in Scenarios : s.callers \subseteq Callers /\ s.may \subseteq Troubles

ASSUME CallersAreFinite == IsFiniteSet(Invokes) /\ IsFiniteSet(Notifies) /\ IsFiniteSet(Callbacks)

\* A caller is told apart from the other threads, messages and results.
ASSUME InvokesAreNoWords ==
    Invokes \cap {"drop", "timer", "note", "answer", "request", "nonsense",
                  "error", "destroyed", "timedout"} = {}

-----------------------------------------------------------------------------
\* After connection::start: registered, the timer set, the first read begun.
ConnInit ==
    /\ \E s \in Scenarios : cx =
            [obj |-> "live",
             callers |-> s.callers, may |-> s.may,
             listed |-> TRUE,           \* in m_connects
             shut |-> FALSE,            \* m_was_shutdown
             want |-> FALSE,            \* m_want_close_connection
             ready |-> FALSE,           \* m_ready_to_close
             closeCalled |-> FALSE,     \* m_close_called
             released |-> FALSE,        \* m_protocol_released
             refs |-> 0,                \* m_reference_count, m_wait_count
             queue |-> <<>>,            \* m_send_que
             writing |-> FALSE, reading |-> TRUE, posted |-> FALSE,
             armed |-> TRUE, due |-> FALSE,     \* m_timer
             handlers |-> <<>>,         \* m_invoke_response_handlers
             releasing |-> "nobody",    \* the thread that shuts down
             raced |-> FALSE,           \* an answer met no handler of its own
             lost |-> FALSE]            \* a close met a queue just emptied
    /\ calls = [c \in Callers |->
                    [pc |-> "idle", timer |-> "none",
                     tried |-> FALSE,   \* m_cancel_timer_called
                     got |-> <<>>]]     \* results the callback was given
    /\ closer = [a \in Closers |-> "off"]
    /\ wire = [asked |-> <<>>, inbox |-> <<>>, eof |-> FALSE, sent |-> 0]

-----------------------------------------------------------------------------
(* Parts of several handlers.                                              *)

\* reset_timer.
ResetTimer(x) == IF x.shut THEN x ELSE [x EXCEPT !.armed = TRUE]

\* do_send once the connection is known not to be shut down.
DoSend(x, item) ==
    IF x.queue = <<>>
    THEN [ResetTimer(x) EXCEPT !.queue = <<item>>, !.writing = TRUE]
    ELSE [x EXCEPT !.queue = Append(@, item)]

\* shutdown by thread a: the locked part.  release_protocol follows.
Shutdown(x, a) ==
    IF x.shut THEN x
    ELSE [x EXCEPT !.shut = TRUE, !.armed = FALSE, !.releasing = a]

\* The callback of an invoke is called with result r.
CallBack(k, r) == [k EXCEPT !.got = Append(@, r)]

\* cancel_timer succeeds: m_timer.cancel() stopped a wait, the first time.
CancelTimer(k) == ~k.tried /\ k.timer = "armed"

Strand == cx.obj = "live" /\ cx.releasing # "strand"

-----------------------------------------------------------------------------
(* Callers.                                                                *)

Goes(c, from, to) == calls[c].pc = from /\ calls' = [calls EXCEPT ![c].pc = to]

\* find_connection, under the lock of the map.
FindConnection(c) ==
    /\ c \in cx.callers
    /\ Goes(c, "idle", IF cx.listed THEN "found" ELSE "failed")
    /\ UNCHANGED <<cx, closer, wire>>

\* start_outer_call, without that lock.
LockConnection(c) ==
    /\ IF cx.obj = "live" /\ ~cx.shut
       THEN /\ Goes(c, "found", "locked")
            /\ cx' = [cx EXCEPT !.refs = @ + 1]
       ELSE Goes(c, "found", "failed") /\ UNCHANGED cx
    /\ UNCHANGED <<closer, wire>>

\* send_message in async_invoke.
InvokeSend(c) ==
    /\ c \in Invokes /\ calls[c].pc = "locked"
    /\ IF cx.shut
       THEN /\ calls' = [calls EXCEPT ![c] = CallBack([@ EXCEPT !.pc = "leaving"], "error")]
            /\ UNCHANGED cx
       ELSE /\ calls' = [calls EXCEPT ![c].pc = "sent"]
            /\ cx' = DoSend(cx, c)
    /\ UNCHANGED <<closer, wire>>

\* add_invoke_response_handler up to its lock: the test for a released
\* object and the constructor of anvoke_handler, with a second reference,
\* held until the callback is called, and the timer.
BuildHandler(c) ==
    /\ calls[c].pc = "sent"
    /\ IF cx.released
       THEN /\ calls' = [calls EXCEPT ![c] = CallBack([@ EXCEPT !.pc = "leaving"], "destroyed")]
            /\ UNCHANGED cx
       ELSE IF cx.shut
       THEN calls' = [calls EXCEPT ![c].pc = "built"] /\ UNCHANGED cx
       ELSE /\ calls' = [calls EXCEPT ![c] = [@ EXCEPT !.pc = "built", !.timer = "armed"]]
            /\ cx' = [cx EXCEPT !.refs = @ + 1]
    /\ UNCHANGED <<closer, wire>>

\* m_invoke_response_handlers.push_back.
PushHandler(c) ==
    /\ calls[c].pc = "built"
    /\ calls' = [calls EXCEPT ![c] =
                    IF @.timer = "none" THEN CallBack([@ EXCEPT !.pc = "leaving"], "destroyed")
                    ELSE [@ EXCEPT !.pc = "leaving"]]
    /\ cx' = [cx EXCEPT !.handlers = Append(@, c),
                        !.raced = @ \/ \E d \in Invokes \ {c} :
                                         calls[d].pc \in {"sent", "built"}]
    /\ UNCHANGED <<closer, wire>>

\* notify.
NotifySend(c) ==
    /\ c \in Notifies
    /\ Goes(c, "locked", "leaving")
    /\ cx' = IF cx.shut THEN cx ELSE DoSend(cx, "note")
    /\ UNCHANGED <<closer, wire>>

\* request_callback.
RequestCallback(c) ==
    /\ c \in Callbacks
    /\ Goes(c, "locked", "leaving")
    /\ cx' = [cx EXCEPT !.posted = TRUE]
    /\ UNCHANGED <<closer, wire>>

\* finish_outer_call.
FinishOuterCall(x) == [x EXCEPT !.refs = @ - 1]

LeaveCall(c) ==
    /\ Goes(c, "leaving", "done")
    /\ cx' = FinishOuterCall(cx)
    /\ UNCHANGED <<closer, wire>>

-----------------------------------------------------------------------------
(* Closing.                                                                *)

\* connection::close by thread a, first part: cancel the timer and look at
\* the queue.
CloseLook(a, x) ==
    /\ cx' = [x EXCEPT !.armed = FALSE]
    /\ closer' = [closer EXCEPT ![a] = IF cx.queue = <<>> THEN "empty" ELSE "queued"]

\* Second part: what the queue was like decides, not what it is like now.
CloseAct(a) ==
    /\ closer[a] \in {"empty", "queued"}
    /\ closer' = [closer EXCEPT ![a] = "done"]
    /\ cx' = IF closer[a] = "empty" THEN Shutdown([cx EXCEPT !.want = TRUE], a)
             ELSE [cx EXCEPT !.want = TRUE, !.lost = @ \/ (cx.queue = <<>> /\ ~cx.shut)]
    /\ UNCHANGED <<calls, wire>>

\* Mutant: handlers that release_protocol finds are called back at once.
CancelAlways(k) ==
    [CallBack(k, "destroyed") EXCEPT !.tried = TRUE, !.timer = "off"]

\* anvoke_handler::cancel.
Cancel(k) ==
    IF CancelTimer(k)
    THEN [CallBack(k, "destroyed") EXCEPT !.tried = TRUE, !.timer = "off"]
    ELSE [k EXCEPT !.tried = TRUE]

\* release_protocol takes the handlers out under the lock and cancels them.
ReleaseProtocol ==
    /\ cx.releasing # "nobody"
    /\ LET held == {c \in Range(cx.handlers) : CancelTimer(calls[c])}
       IN  /\ calls' = [c \in Callers |->
                            IF c \in Range(cx.handlers) THEN Cancel(calls[c]) ELSE calls[c]]
           /\ cx' = [cx EXCEPT !.releasing = "nobody", !.released = TRUE, !.handlers = <<>>,
                               !.refs = @ - Cardinality(held)]
    /\ UNCHANGED <<closer, wire>>

\* async_protocol_handler_config::close by another thread: find, close and,
\* without the lock, take out of the map.
Drop ==
    /\ "drop" \in cx.may
    /\ \/ /\ closer["drop"] = "off" /\ cx.listed
          /\ closer' = [closer EXCEPT !["drop"] = "found"]
          /\ UNCHANGED cx
       \/ /\ closer["drop"] = "found" /\ cx.obj = "live"
          /\ CloseLook("drop", [cx EXCEPT !.closeCalled = TRUE])
       \/ /\ closer["drop"] = "done" /\ cx.releasing # "drop"
          /\ closer' = [closer EXCEPT !["drop"] = "erased"]
          /\ cx' = [cx EXCEPT !.listed = FALSE]
    /\ UNCHANGED <<calls, wire>>

-----------------------------------------------------------------------------
(* Timers.                                                                 *)

\* The connection has been silent for too long.
TimerExpires ==
    /\ cx.armed /\ "silence" \in cx.may
    /\ cx' = [cx EXCEPT !.armed = FALSE, !.due = TRUE]
    /\ UNCHANGED <<calls, closer, wire>>

\* The callback of reset_timer.
ConnectionTimeout ==
    /\ cx.due /\ closer["timer"] \in {"off", "done"}
    /\ CloseLook("timer", [cx EXCEPT !.due = FALSE])
    /\ UNCHANGED <<calls, wire>>

InvokeTimerExpires(c) ==
    /\ calls[c].timer = "armed"
    /\ calls' = [calls EXCEPT ![c].timer = "due"]
    /\ UNCHANGED <<cx, closer, wire>>

\* The callback of an invoke's timer: the callback, close, and
\* finish_outer_call once close has returned.
InvokeTimeout(c) ==
    \/ /\ calls[c].timer = "due" /\ closer[c] = "off"
       /\ calls' = [calls EXCEPT ![c] = CallBack(@, "timedout")]
       /\ CloseLook(c, [cx EXCEPT !.closeCalled = TRUE])
       /\ UNCHANGED wire
    \/ /\ calls[c].timer = "due" /\ closer[c] = "done" /\ cx.releasing # c
       /\ calls' = [calls EXCEPT ![c].timer = "off"]
       /\ cx' = FinishOuterCall(cx)
       /\ UNCHANGED <<closer, wire>>

-----------------------------------------------------------------------------
(* The strand.                                                             *)

\* Mutant: an emptied queue does not shut the connection down.
WriteKeepsOpen ==
    /\ Strand /\ cx.writing
    /\ LET x == [cx EXCEPT !.queue = Tail(@), !.writing = FALSE]
       IN  cx' = IF x.queue # <<>> THEN [ResetTimer(x) EXCEPT !.writing = TRUE] ELSE x
    /\ wire' = IF Head(cx.queue) \in Invokes
               THEN [wire EXCEPT !.asked = Append(@, Head(cx.queue))] ELSE wire
    /\ UNCHANGED <<calls, closer>>

\* handle_write without an error.  After a shutdown the socket reports one,
\* unless the write had been completed before.
HandleWrite ==
    /\ Strand /\ cx.writing
    /\ LET x == [cx EXCEPT !.queue = Tail(@), !.writing = FALSE]
       IN  cx' = IF x.queue # <<>> THEN [ResetTimer(x) EXCEPT !.writing = TRUE]
                 ELSE IF cx.want THEN Shutdown(x, "strand")
                 ELSE x
    /\ wire' = IF Head(cx.queue) \in Invokes
               THEN [wire EXCEPT !.asked = Append(@, Head(cx.queue))] ELSE wire
    /\ UNCHANGED <<calls, closer>>

\* handle_write with an error.
HandleWriteError ==
    /\ Strand /\ cx.writing /\ (cx.shut \/ "write fails" \in cx.may)
    /\ cx' = Shutdown([cx EXCEPT !.writing = FALSE], "strand")
    /\ UNCHANGED <<calls, closer, wire>>

\* handle_recv refuses what came: close as soon as the queue is empty.
Refused(x) ==
    IF x.queue = <<>> THEN Shutdown([x EXCEPT !.want = TRUE, !.reading = FALSE], "strand")
    ELSE [x EXCEPT !.want = TRUE, !.reading = FALSE]

\* The handler an answer is for: the first one.
AnswerTo(x) == Head(x.handlers)

\* A response: the first handler gets it if its timer can still be stopped.
ReadResponse(c) ==
    LET x == [ResetTimer(cx) EXCEPT !.raced = @ \/ c \notin Range(cx.handlers)]
    IN  IF cx.handlers # <<>>
        THEN LET f == AnswerTo(cx)
             IN  IF CancelTimer(calls[f])
                 THEN /\ calls' = [calls EXCEPT ![f] =
                            [CallBack(@, c) EXCEPT !.tried = TRUE, !.timer = "off"]]
                      /\ cx' = FinishOuterCall(
                                  [x EXCEPT !.handlers = Tail(@)])
                 ELSE /\ calls' = [calls EXCEPT ![f].tried = TRUE]
                      /\ cx' = x
        ELSE /\ cx' = IF cx.refs = 0 THEN Refused(cx) ELSE x
             /\ UNCHANGED calls

\* handle_read with data.  A request is answered, a part of a message only
\* restarts the first handler's timer, which is no step of its own.
HandleRead ==
    /\ Strand /\ cx.reading /\ wire.inbox # <<>>
    /\ wire' = [wire EXCEPT !.inbox = Tail(@)]
    /\ UNCHANGED closer
    /\ LET item == Head(wire.inbox)
       IN  IF cx.shut
           THEN cx' = [cx EXCEPT !.reading = FALSE] /\ UNCHANGED calls
           ELSE IF cx.closeCalled
           THEN cx' = Refused(cx) /\ UNCHANGED calls
           ELSE IF item \in Invokes THEN ReadResponse(item)
           ELSE /\ cx' = IF item = "request" THEN DoSend(ResetTimer(cx), "answer")
                         ELSE IF item = "nonsense" THEN Refused(cx)
                         ELSE ResetTimer(cx)
                /\ UNCHANGED calls

\* handle_read with an error, or at the end of the peer's data.
HandleReadEnd ==
    /\ Strand /\ cx.reading
    /\ \/ cx.shut /\ cx' = [cx EXCEPT !.reading = FALSE]
       \/ /\ ~cx.shut /\ "read fails" \in cx.may
          /\ cx' = Shutdown([cx EXCEPT !.reading = FALSE, !.ready = TRUE], "strand")
       \/ /\ wire.eof /\ wire.inbox = <<>> /\ ~cx.shut
          /\ LET x == [cx EXCEPT !.reading = FALSE, !.ready = TRUE]
             IN  cx' = IF cx.ready \/ cx.queue = <<>> THEN Shutdown(x, "strand") ELSE x
    /\ UNCHANGED <<calls, closer, wire>>

\* call_back_starter.
CallBackStarter ==
    /\ Strand /\ cx.posted
    /\ cx' = [cx EXCEPT !.posted = FALSE]
    /\ UNCHANGED <<calls, closer, wire>>

-----------------------------------------------------------------------------
(* The end of the object, and the other end of the connection.             *)

InClose(a) == closer[a] \in {"empty", "queued"}

\* Nothing holds a shared_ptr any more.
Unreferenced ==
    /\ cx.obj = "live"
    /\ cx.refs = 0 /\ ~cx.reading /\ ~cx.writing /\ ~cx.posted
    /\ ~cx.armed /\ ~cx.due /\ cx.releasing = "nobody"
    /\ \A a \in Closers : ~InClose(a)

\* ~connection and ~async_protocol_handler, with del_connection.
Destruct ==
    /\ Unreferenced
    /\ cx' = [cx EXCEPT !.obj = "gone", !.shut = TRUE, !.released = TRUE,
                        !.handlers = <<>>, !.listed = FALSE]
    /\ UNCHANGED <<calls, closer, wire>>

\* The peer answers requests in order, sends messages of its own, and stops.
Peer ==
    /\ ~wire.eof /\ ~cx.shut
    /\ \/ /\ wire.asked # <<>>
          /\ wire' = [wire EXCEPT !.asked = Tail(@), !.inbox = Append(@, Head(wire.asked))]
       \/ /\ wire.sent < MaxPeerMsgs /\ "peer talks" \in cx.may
          /\ \E item \in {"request", "note", "nonsense"} :
                wire' = [wire EXCEPT !.inbox = Append(@, item), !.sent = @ + 1]
       \/ "peer stops" \in cx.may /\ wire' = [wire EXCEPT !.eof = TRUE]
    /\ UNCHANGED <<cx, calls, closer>>

-----------------------------------------------------------------------------
CallerStep ==
    \/ \E c \in Callers : \/ LockConnection(c) \/ NotifySend(c) \/ RequestCallback(c)
                          \/ LeaveCall(c)
    \/ \E c \in Invokes : InvokeSend(c) \/ BuildHandler(c) \/ PushHandler(c)

\* A thread that has begun something goes on.
ThreadStep ==
    \/ CallerStep
    \/ \E a \in Closers : CloseAct(a)
    \/ ReleaseProtocol
    \/ ConnectionTimeout
    \/ \E c \in Invokes : InvokeTimeout(c)
    \/ CallBackStarter
    \/ Destruct

\* Time passes.
TimeStep == TimerExpires \/ \E c \in Invokes : InvokeTimerExpires(c)

ConnNext ==
    \/ \E c \in Callers : FindConnection(c)
    \/ ThreadStep
    \/ TimeStep
    \/ Drop
    \/ HandleWrite \/ HandleWriteError
    \/ HandleRead \/ HandleReadEnd
    \/ Peer

ConnSpec == ConnInit /\ [][ConnNext]_connVars

\* Threads that have begun something go on, time passes, and the socket
\* completes a read or a write once it has been shut down.
ConnFairness ==
    /\ WF_connVars(ThreadStep)
    /\ WF_connVars(TimeStep)
    /\ WF_connVars(cx.shut /\ (HandleWriteError \/ HandleReadEnd))

-----------------------------------------------------------------------------
(* Properties.                                                             *)

Delivered(c) == Len(calls[c].got)

\* Every invoke's callback is called at most once: a response, the timeout,
\* release_protocol and a failed send never both report to it.
CalledBackOnce == \A c \in Invokes : Delivered(c) <= 1

\* start_outer_call and finish_outer_call are paired: the references are
\* those of the calls that run and of the handlers not called back yet, so
\* release() never finds "m_reference_count already at 0" and nothing keeps
\* the connection alive for ever.
ReferencesArePaired ==
    cx.refs = Cardinality({c \in Callers : calls[c].pc \in
                                {"locked", "sent", "built", "leaving"}})
            + Cardinality({c \in Invokes : calls[c].timer \in {"armed", "due"}})

\* A response reaches the invoke whose request it answers, unless requests
\* were sent in another order than their handlers were added, or it came
\* before its handler was there.
OwnAnswer ==
    \A c \in Invokes : \A i \in DOMAIN calls[c].got :
        calls[c].got[i] \in Invokes \ {c} => cx.raced

\* Whatever order calls, timers, answers and closes come in, a callback is
\* called once and with what it asked for, and what is counted is what there is.
CallsExact == CalledBackOnce /\ ReferencesArePaired /\ OwnAnswer

\* Every invoke that got hold of the connection hears something: the
\* response, an error or the timeout.
InvokesEnd ==
    \A c \in Invokes : calls[c].pc = "locked" ~> calls[c].got # <<>>

\* A connection that is to be closed is closed and destroyed, provided its
\* writes end.  The exception is a close that saw a queue which handle_write
\* emptied before m_want_close_connection was set: nobody shuts down.
ClosingEnds ==
    (cx.want /\ []<>~cx.writing) ~> (cx.obj = "gone" \/ cx.lost)

=============================================================================
