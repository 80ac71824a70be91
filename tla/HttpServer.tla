---------------------------- MODULE HttpServer ----------------------------
(***************************************************************************)
(* The HTTP server in front of core_rpc_server: one thread runs the        *)
(* completion handlers of all connections, one after the other, and a      *)
(* request's handler runs to its end inside one of them.  Each connection  *)
(* serves one request and is bounded by a deadline that starts with it.    *)
(***************************************************************************)
EXTENDS Integers, FiniteSets

CONSTANT Clients, NoClient

ASSUME NoClientAssumption == NoClient \notin Clients

VARIABLES
    http,    \* client -> [st, timer, asked, answered]: its connection, its deadline,
             \* and whether its whole request and its whole answer went over
    serving  \* the client whose request is being handled, or NoClient

httpVars == <<http, serving>>

\* In "gone" the read has failed and only the deadline refers to the connection.
HttpOpen == {"reading", "ready", "handled", "writing", "gone"}
NoConnection == [st |-> "away", timer |-> "off", asked |-> FALSE, answered |-> FALSE]

HttpInit ==
    /\ http = [c \in Clients |-> NoConnection]
    /\ serving = NoClient

Idle1 == serving = NoClient
ConnSet(c, r) == http' = [http EXCEPT ![c] = r]
Becomes(c, st) == ConnSet(c, [http[c] EXCEPT !.st = st])

-----------------------------------------------------------------------------
\* The clients and the clock

HttpConnect(c) ==
    /\ http[c].st \in {"away", "closed"}
    /\ ConnSet(c, [NoConnection EXCEPT !.st = "backlog"])
    /\ UNCHANGED serving
HttpSend(c) ==
    /\ http[c].st = "reading"
    /\ ConnSet(c, [http[c] EXCEPT !.st = "ready", !.asked = TRUE])
    /\ UNCHANGED serving
\* The peer closes, or what it sends is no HTTP; the read ends with an error.
HttpBreak(c) == http[c].st = "reading" /\ Becomes(c, "gone") /\ UNCHANGED serving
HttpExpire(c) ==
    /\ http[c].timer = "armed"
    /\ ConnSet(c, [http[c] EXCEPT !.timer = "due"])
    /\ UNCHANGED serving

-----------------------------------------------------------------------------
\* The completion handlers

\* http_server: the connection is started and the next accept begun.
HttpAccept(c) ==
    /\ Idle1 /\ http[c].st = "backlog"
    /\ ConnSet(c, [http[c] EXCEPT !.st = "reading", !.timer = "armed"])
    /\ UNCHANGED serving

\* read_request's handler calls process_request, and that the RPC handler.
ProcessRequest(c) ==
    /\ Idle1 /\ http[c].st = "ready"
    /\ serving' = c
    /\ Becomes(c, "handled")

\* The RPC handler returned: write_response begins to write.
WriteResponse(c) ==
    /\ serving = c
    /\ serving' = NoClient
    /\ Becomes(c, "writing")

\* The answer is written, or writing failed; the deadline is cancelled and the
\* last reference to the connection goes.
Written(c, ok) ==
    /\ Idle1 /\ http[c].st = "writing"
    /\ ConnSet(c, [http[c] EXCEPT !.st = "closed", !.timer = "off", !.answered = ok])
    /\ UNCHANGED serving

\* Mutant: a second thread runs the handlers of deadlines.
CheckDeadlineAnytime(c) ==
    /\ http[c].timer = "due"
    /\ ConnSet(c, [http[c] EXCEPT !.st = "closed", !.timer = "off"])
    /\ UNCHANGED serving

\* check_deadline's handler closes the socket, which ends what is outstanding.
CheckDeadline(c) ==
    /\ Idle1 /\ http[c].timer = "due"
    /\ ConnSet(c, [http[c] EXCEPT !.st = "closed", !.timer = "off"])
    /\ UNCHANGED serving

HttpClient == \E c \in Clients : HttpConnect(c) \/ HttpSend(c) \/ HttpBreak(c)
HttpThread ==
    \E c \in Clients : \/ HttpAccept(c) \/ ProcessRequest(c) \/ WriteResponse(c)
                       \/ \E ok \in BOOLEAN : Written(c, ok)
                       \/ CheckDeadline(c)
HttpNext == HttpClient \/ HttpThread \/ \E c \in Clients : HttpExpire(c)

HttpSpec == HttpInit /\ [][HttpNext]_httpVars

-----------------------------------------------------------------------------

(* A connection that is open has a deadline that is still to come or to be       *)
(* handled, also after its read failed and while its request waits or is being   *)
(* handled, so that no client can keep a socket of the server for ever.          *)
(* (beast.cpp:473)                                                               *)
OpenIsBounded == \A c \in Clients : http[c].st \in HttpOpen => http[c].timer # "off"

(* A client that sent a whole request is left without an answer only by its      *)
(* deadline or by a failed write; one request at a time is handled, and each at  *)
(* most once.  (beast.cpp:108, 454)                                              *)
HandledStep ==
    \A c \in Clients :
      /\ http'[c].st = "handled" /\ http[c].st # "handled" =>
           http[c].st = "ready" /\ \A d \in Clients \ {c} : http[d].st # "handled"
      /\ http[c].st = "handled" => http'[c].st \in {"handled", "writing"}

(* HandledStep, of every step of the server.                                     *)
HandledOnce == [][HandledStep]_httpVars

(* Every connection comes to an end, and no request is handled twice.            *)
HttpSound == []OpenIsBounded /\ HandledOnce

=============================================================================
