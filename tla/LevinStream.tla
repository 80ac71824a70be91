---------------------------- MODULE LevinStream ----------------------------
(***************************************************************************)
(* How async_protocol_handler::handle_recv turns the bytes of a connection *)
(* into commands.  Bytes come in chunks whose borders have nothing to do   *)
(* with the borders of messages.  A message is a header (bucket_head2) and *)
(* a body; one without REQUEST or RESPONSE flag carries another message in *)
(* its body.  handle_recv runs on the connection's strand, one chunk at a  *)
(* time, but each pass of its loop is a step: another thread may close the *)
(* connection, or start a handshake, in between.                           *)
(*                                                                         *)
(* Sizes are in units.  A header is SigUnits of signature, as many of m_cb *)
(* and one for the other fields.  Two units for a field keep a header that *)
(* is cut inside a field apart from one cut between fields.                *)
(***************************************************************************)
EXTENDS Integers, Sequences, FiniteSetsExt

CONSTANTS
    Streams,            \* sequences of messages a peer may send
    InitialMaxPacket,   \* LEVIN_INITIAL_MAX_PACKET_SIZE, before the handshake
    MaxPacket,          \* LEVIN_DEFAULT_MAX_PACKET_SIZE
    MaxBytes,           \* limit of a command (m_max_bytes)
    MaxChunk            \* units that fit into buffer_

ASSUME PacketSizes == InitialMaxPacket \in Nat /\ MaxPacket >= InitialMaxPacket

VARIABLE
    lv      \* the stream, how much of it came, and the handler's fields

SigUnits  == 2
HeadUnits == 2 * SigUnits + 1

-----------------------------------------------------------------------------
(* The bytes of a stream.                                                  *)

UnitsOf(m) == HeadUnits + m.cb

\* Units of the first n messages.
UnitsOfFirst(stream, n) ==
    MapThenSumSet(LAMBDA i : UnitsOf(stream[i]), 1 .. n)

\* The numbers of messages after which a stream may be cut at offset u.
StartsAt(stream, u) == {i \in DOMAIN stream : UnitsOfFirst(stream, i - 1) = u}

\* What a receiver should make of message m: a message without flags stands
\* for the one inside.
Payload(m) == IF m.flag = "none" THEN m.inner ELSE m.command

-----------------------------------------------------------------------------
StreamInit ==
    \E s \in Streams :
        lv = [status |-> "wait", stream |-> s,
              pos |-> 0,            \* units received
              base |-> 0,           \* units taken out of m_cache_in_buffer
              state |-> "head",     \* m_state
              head |-> 0,           \* number of the message m_current_head is of
              limit |-> 0,          \* max_packet_size, read at the entry
              maxPacket |-> InitialMaxPacket,
              closeCalled |-> FALSE,
              fragment |-> 0,       \* size of m_fragment_buffer
              got |-> <<>>,         \* what the commands handler was given
              why |-> "open"]       \* why handle_recv returned false

Cached == lv.pos - lv.base

\* The smaller of the packet limit and the command's (get_max_bytes).
Limit(command) == Min({lv.limit, MaxBytes[command]})

\* handle_recv returns false: handle_read closes the connection.
Refuse(l, why) == [l EXCEPT !.status = "closed", !.why = why]

\* The entry of handle_recv with a chunk of n units.
HandleRecv(n) ==
    /\ lv.status = "wait"
    /\ lv.pos + n <= UnitsOfFirst(lv.stream, Len(lv.stream))
    /\ lv' = IF lv.closeCalled THEN Refuse(lv, "closed")
             ELSE IF lv.maxPacket < Cached + lv.fragment THEN Refuse(lv, "bad buffer")
             ELSE IF n > lv.maxPacket - Cached - lv.fragment THEN Refuse(lv, "too much")
             ELSE [lv EXCEPT !.status = "loop", !.pos = @ + n, !.limit = lv.maxPacket]

\* Mutant: the body of a message is left in the buffer.
KeepBody(l, n) == l

\* m_cache_in_buffer.erase(0, n).
Erase(l, n) == [l EXCEPT !.base = @ + n]

\* The signature is looked for in the eight bytes after the first eight.
\* When fewer are there, memory behind the buffer decides.
PartialHeaderMatches ==
    IF Cached < SigUnits THEN {TRUE}
    ELSE IF Cached < 2 * SigUnits THEN BOOLEAN
    ELSE {FALSE}

\* case stream_state_head with less than a header.
AwaitHeader ==
    /\ lv.status = "loop" /\ lv.state = "head"
    /\ Cached < HeadUnits
    /\ \E ok \in PartialHeaderMatches :
          lv' = IF ok THEN [lv EXCEPT !.status = "wait"]
                ELSE Refuse(lv, "partial signature")

\* case stream_state_head with a whole header.
ReadHeader ==
    /\ lv.status = "loop" /\ lv.state = "head"
    /\ Cached >= HeadUnits
    /\ \/ /\ StartsAt(lv.stream, lv.base) = {}
          /\ lv' = Refuse(lv, "signature")
       \/ \E i \in StartsAt(lv.stream, lv.base) :
             LET l == Erase([lv EXCEPT !.head = i, !.state = "body"], HeadUnits)
             IN  lv' = IF lv.stream[i].cb > Limit(lv.stream[i].command) THEN Refuse(l, "too big") ELSE l

\* case stream_state_body with less than the body.
AwaitBody ==
    /\ lv.status = "loop" /\ lv.state = "body"
    /\ Cached < lv.stream[lv.head].cb
    /\ lv' = [lv EXCEPT !.status = "wait"]

\* invoke, notify or the handler of a response.
Deliver(l, what) == [l EXCEPT !.got = Append(@, what)]

\* A complete message: take it out and hand it over.  A response needs an
\* invoke that waits for it.  do_send of the answer to a request fails on a
\* connection that was shut down.  A completed handshake raises the limit,
\* from the next chunk on.
TakeMessage ==
    /\ lv.status = "loop" /\ lv.state = "body"
    /\ Cached >= lv.stream[lv.head].cb
    /\ LET m == lv.stream[lv.head]
           l == Erase([lv EXCEPT !.state = "head"], m.cb)
           d == Deliver(l, Payload(m))
           shaken == IF m.command = "handshake"
                     THEN {d, [d EXCEPT !.maxPacket = MaxPacket]} ELSE {d}
       IN  IF m.flag = "none" /\ m.cb < HeadUnits
           THEN lv' = Refuse([l EXCEPT !.fragment = @ + m.cb], "short fragment")
           ELSE IF m.flag = "none" /\ m.innerCb > Limit(m.inner)
           THEN lv' = Refuse(l, "too big")
           ELSE \/ lv' \in shaken
                \/ m.flag = "response" /\ lv' = Refuse(l, "no invoke")
                \/ m.answer /\ \E x \in shaken : lv' = Refuse(x, "not sent")

\* async_protocol_handler::close by another thread.
CloseCall ==
    /\ lv.status \in {"wait", "loop"} /\ ~lv.closeCalled
    /\ lv' = [lv EXCEPT !.closeCalled = TRUE]

\* async_invoke of our own handshake by another thread.
InvokeHandshake ==
    /\ lv.status \in {"wait", "loop"} /\ lv.maxPacket # MaxPacket
    /\ lv' = [lv EXCEPT !.maxPacket = MaxPacket]

StreamNext ==
    \/ \E n \in 1 .. MaxChunk : HandleRecv(n)
    \/ AwaitHeader
    \/ ReadHeader
    \/ AwaitBody
    \/ TakeMessage
    \/ CloseCall
    \/ InvokeHandshake

-----------------------------------------------------------------------------
(* Properties.                                                             *)

\* handle_recv finds every message that has arrived by the time it waits for
\* more bytes, and no other, in the order they were sent and with the
\* contents they were sent with, however the bytes were cut.
NothingLateOrInvented ==
    lv.status = "wait" =>
        LET whole == {n \in 0 .. Len(lv.stream) : UnitsOfFirst(lv.stream, n) <= lv.pos}
        IN  lv.got = [i \in 1 .. Max(whole) |-> Payload(lv.stream[i])]

\* handle_recv never keeps more than m_max_packet_size, and it never ends up
\* between messages: the whole header it reads is always one that was sent.
BuffersAreBounded ==
    lv.status \in {"wait", "loop", "closed"} =>
        /\ Cached + lv.fragment <= lv.maxPacket
        /\ lv.why \notin {"signature", "bad buffer"}

\* The bytes of a connection become the messages that were sent.
StreamExact == NothingLateOrInvented /\ BuffersAreBounded

=============================================================================
