-------------------------------- MODULE Node --------------------------------
(***************************************************************************)
(* The peer-to-peer node in its public zone: the connections, the peer     *)
(* lists, the thread of idle_worker that makes connections and looks after *)
(* the lists, and the handlers that the threads of the network run.        *)
(*                                                                         *)
(* A node is known by the address it listens on, which also stands for its *)
(* peer_id.  Of an incoming connection only the host is known until the    *)
(* handshake.  A connection that was closed leaves the map of connections  *)
(* at once, but on_connection_close is called when it is destroyed, later. *)
(*                                                                         *)
(* Intervals and times of expiry are left open: a task of idle_worker may  *)
(* be due at any time, a failed or a blocked host may be forgotten at any  *)
(* time.  A peer sends at most one address with a message.                 *)
(***************************************************************************)
EXTENDS Naturals, Sequences, FiniteSetsExt, Functions

CONSTANTS
  Addr,         \* network_address: a host and a port
  host,         \* [Addr -> Host]: what is_same_host compares
  NotAllowed,   \* loopback addresses, and local ones without --allow-local-ip
  WhiteLimit,   \* P2P_LOCAL_WHITE_PEERLIST_LIMIT
  GrayLimit,    \* P2P_LOCAL_GRAY_PEERLIST_LIMIT
  Me,           \* the address of this node
  None,
  Slot,         \* bounds the connections that exist at a time
  Stored,       \* the lists that an earlier run of the daemon left in p2pstate.bin
  CommandLine,  \* --add-peer
  Exclusive,    \* --add-exclusive-node
  Priority,     \* --add-priority-node
  Reliable,     \* peers that accept connections, answer, and do not go away
  MaxOut,       \* max_out_connection_count
  MaxIn,        \* max_in_connection_count
  MaxPerHost,   \* max_connections_per_address
  AnchorCount,  \* P2P_DEFAULT_ANCHOR_CONNECTIONS_COUNT
  Draws,        \* rounds of make_new_connection_from_peerlist
  FailLimit,    \* P2P_IP_FAILS_BEFORE_BLOCK
  MaxEvents     \* bound on what peers, operators and crashes do of their own accord

-----------------------------------------------------------------------------
\* The peer lists

\* The lists of peerlist_manager and what each of its operations does to them.
\* Every operation holds m_peerlist_lock, so each is one step of whoever calls
\* it.  A list is ordered by last_seen.  An address that joins the white list
\* does so with the present time, at the end; an address given on the command
\* line has last_seen 0 and is put at the front.  All the gray addresses have
\* last_seen 0 (sanitize_peerlist), which keeps them in the order in which they
\* were added.  The anchor list is small and only used as a whole: a set.

NoPeers == [white |-> <<>>, gray |-> <<>>, anchor |-> {}]

Listed(list) == Range(list)

\* The entry with the smallest last_seen goes first.
Trim(list, limit) ==
  IF Len(list) > limit THEN SubSeq(list, Len(list) - limit + 1, Len(list)) ELSE list

EvictHost(list, a) == SelectSeq(list, LAMBDA b : host[b] # host[a])

Without(list, a) == SelectSeq(list, LAMBDA b : b # a)

Insert(list, a, seen) == IF seen THEN list \o <<a>> ELSE <<a>> \o list

\* An address that is white already keeps its last_seen, and so its place.
NewWhite(white, a, seen) ==
  IF a \in Listed(white) THEN white ELSE Trim(Insert(EvictHost(white, a), a, seen), WhiteLimit)

AppendWhite(p, a, seen) ==
  IF a \in NotAllowed THEN p
  ELSE [p EXCEPT !.white = NewWhite(@, a, seen), !.gray = Without(@, a)]

NewGray(white, gray, a) ==
  IF a \in NotAllowed \/ a \in Listed(white) \/ a \in Listed(gray) THEN gray
  ELSE Trim(Append(gray, a), GrayLimit)

SetPeerJustSeen(p, a) == AppendWhite(p, a, TRUE)

AppendAnchor(p, a) == [p EXCEPT !.anchor = @ \cup {a}]

EmptyAnchors(p) == [p EXCEPT !.anchor = {}]

RemoveGray(p, a) == [p EXCEPT !.gray = Without(@, a)]

RemoveAnchor(p, a) == [p EXCEPT !.anchor = @ \ {a}]

\* remove_from_peer_white, _gray and _anchor together, as block_host calls them.
RemovePeer(p, a) ==
  [white |-> Without(p.white, a), gray |-> Without(p.gray, a), anchor |-> p.anchor \ {a}]

\* The addresses of a peer's list that the filter lets through become gray.
Merge(p, list, allowed) ==
  LET gray[k \in 0 .. Len(list)] ==
        IF k = 0 THEN p.gray
        ELSE IF list[k] \in allowed THEN NewGray(p.white, gray[k - 1], list[k]) ELSE gray[k - 1]
  IN  [p EXCEPT !.gray = gray[Len(list)]]

\* What has to hold of the lists: an address is in one of them, a host has one white address,
\* and neither list grows beyond its limit.
ListsSound(p) ==
  /\ Listed(p.white) \cap Listed(p.gray) = {}
  /\ IsInjective(p.white) /\ IsInjective(p.gray)
  /\ \A a, b \in Listed(p.white) : host[a] = host[b] => a = b
  /\ Len(p.white) <= WhiteLimit /\ Len(p.gray) <= GrayLimit

-----------------------------------------------------------------------------
ASSUME ListAssumption ==
  /\ NotAllowed \subseteq Addr
  /\ DOMAIN host = Addr
  /\ WhiteLimit \in Nat \ {0} /\ GrayLimit \in Nat \ {0}

ASSUME NodeAssumption ==
  /\ Me \in Addr /\ None \notin Addr
  /\ Stored \in [white : Seq(Addr), gray : Seq(Addr), anchor : SUBSET Addr]
  /\ ListsSound(Stored)
  /\ CommandLine \subseteq Addr /\ Exclusive \subseteq Addr /\ Priority \subseteq Addr
  /\ Reliable \subseteq Addr \ {Me}
  /\ MaxOut \in Nat /\ MaxIn \in Nat /\ MaxPerHost \in Nat
  /\ AnchorCount \in Nat /\ Draws \in Nat /\ MaxEvents \in Nat /\ FailLimit \in Nat \ {0}

VARIABLES
  peers,    \* m_peerlist
  conns,    \* m_connects, and the connections that are closed but not destroyed
  full,     \* what m_current_number_of_in_peers and _out_peers say: are the limits reached?
  failed,   \* m_conn_fails_cache
  blocked,  \* m_blocked_hosts
  score,    \* m_host_fails_score
  task,     \* where the thread of idle_worker is
  pings,    \* the addresses that try_ping connects to
  disk,     \* p2pstate.bin
  stop,     \* is_stop_signal_sent
  reached,  \* history: the addresses that answered, before too, or that the operator gave
  events    \* how many such things happened

vars == <<peers, conns, full, failed, blocked, score, task, pings, disk, stop, reached, events>>

Host == {host[a] : a \in Addr}

\* P2P_DEFAULT_WHITELIST_CONNECTIONS_PERCENT of the outgoing connections.
ExpectedWhite == (MaxOut * 70) \div 100

-----------------------------------------------------------------------------
\* Connections

\* Something happens that uses up one of the events if it is remarkable.
Happens(remarkable) ==
  /\ remarkable => events < MaxEvents
  /\ events' = IF remarkable THEN events + 1 ELSE events

Open == {s \in Slot : conns[s] # None /\ conns[s].up}

Free == {s \in Slot : conns[s] = None}

Outgoing == {s \in Open : conns[s].kind # "in"}

\* get_outgoing_connections_count
Out == Cardinality(Outgoing)

Incoming == {s \in Open : conns[s].kind = "in"}

Connection(h, a, kind) ==
  [host |-> h, addr |-> a, kind |-> kind, id |-> None, sync |-> FALSE, up |-> TRUE]

\* close of the protocol handler's configuration: the connection leaves the map.
Closed(cs, S) ==
  [s \in Slot |-> IF s \in S /\ cs[s] # None THEN [cs[s] EXCEPT !.up = FALSE] ELSE cs[s]]

IsAddrConnected(a) == \E s \in Outgoing : conns[s].addr = a

MutIsPeerUsed(a, id) == id = Me \/ \E s \in Incoming : conns[s].id = id

\* An entry of a list is an address with the peer_id that was heard of it: the right one, none (0,
\* which a connection before its handshake has too), or one of before the peer was restarted.
IsPeerUsed(a, id) == id = Me \/ IsAddrConnected(a) \/ \E s \in Open : conns[s].id = id

KnownIds(a) == {a, None, "old"}

IsRemoteHostAllowed(h) == h \notin blocked

IsAddrRecentlyFailed(a) == host[a] \in failed

HasTooManyConnections(h) == Cardinality({s \in Incoming : conns[s].host = h}) > MaxPerHost

-----------------------------------------------------------------------------
\* Blocking hosts.  These take the lists and the connections of the moment and give, in a record,
\* what becomes of them.

Now == [peers |-> peers, conns |-> conns, blocked |-> blocked, score |-> score]

BlockHost(n, h, a) ==
  [n EXCEPT
    !.blocked = @ \cup {h},
    !.peers = RemovePeer(@, a),
    !.conns = Closed(@, {s \in Slot : n.conns[s] # None /\ n.conns[s].host = h})]

AddHostFail(n, h, a, points) ==
  IF n.score[h] + points <= FailLimit THEN [n EXCEPT !.score[h] = @ + points]
  ELSE BlockHost([n EXCEPT !.score[h] = FailLimit \div 2], h, a)

Become(n) ==
  /\ peers' = n.peers /\ conns' = n.conns /\ blocked' = n.blocked /\ score' = n.score

\* handle_remote_peerlist: merges the addresses that did not fail lately and are not blocked.  One
\* that is Me is not recognised here.  A list that is too long counts against the peer's host.
Merged(p, list) ==
  Merge(p, list, {a \in Listed(list) : ~IsAddrRecentlyFailed(a) /\ IsRemoteHostAllowed(host[a])})

Gossip == {<<>>} \cup {<<a>> : a \in Addr}

-----------------------------------------------------------------------------
\* The thread of idle_worker

Idle == [phase |-> "idle", step |-> "loop", todo |-> {}, tries |-> 0, count |-> 0,
         na |-> None, slot |-> None, hsh |-> "none"]

ListPhase == {"anchor", "white", "gray", "gray2", "white2"}

\* How many outgoing connections each loop of connections_maker tries to have.
Wanted(phase) ==
  CASE phase = "anchor" -> AnchorCount
    [] phase = "white" -> ExpectedWhite
    [] phase \in {"gray", "gray2", "white2"} -> MaxOut

Source(phase) == Listed(IF phase \in {"white", "white2"} THEN peers.white ELSE peers.gray)

\* A round of the outer loop begins with the anchors, or with the gray list when there are enough
\* connections to white peers.
Round ==
  IF Out >= MaxOut THEN Idle
  ELSE [Idle EXCEPT !.phase = IF Out < ExpectedWhite THEN "anchor" ELSE "gray2", !.count = Out]

\* The loop that follows, and after the last one another round if the last round made a connection.
After(phase) ==
  CASE phase = "anchor" -> [task EXCEPT !.phase = "white", !.step = "loop"]
    [] phase = "white" -> [task EXCEPT !.phase = "gray", !.step = "loop"]
    [] phase = "gray2" -> [task EXCEPT !.phase = "white2", !.step = "loop"]
    [] phase \in {"gray", "white2"} -> IF stop \/ Out <= task.count THEN Idle ELSE Round

\* connections_maker begins with the exclusive nodes, and goes no further if there are any.
StartConnectionsMaker ==
  /\ task.phase = "idle"
  /\ ~stop
  /\ task' = [Idle EXCEPT !.phase = "listed", !.step = "pick",
                          !.todo = IF Exclusive # {} THEN Exclusive ELSE Priority]
  /\ UNCHANGED <<peers, conns, full, failed, blocked, score, pings, disk, stop, reached, events>>

\* connect_to_peerlist
NextListed ==
  /\ task.phase = "listed" /\ task.step = "pick"
  /\ \/ /\ task.todo = {} \/ stop
        /\ task' = IF Exclusive # {} \/ task.todo # {} THEN Idle ELSE Round
     \/ \E a \in task.todo :
          /\ ~stop
          /\ task' = IF IsAddrConnected(a) THEN [task EXCEPT !.todo = @ \ {a}]
                     ELSE [task EXCEPT !.todo = @ \ {a}, !.step = "connect", !.na = a]
  /\ UNCHANGED <<peers, conns, full, failed, blocked, score, pings, disk, stop, reached, events>>

\* make_expected_connections_count, which takes the whole anchor list before it looks for the stop
\* signal.
Loop ==
  /\ task.phase \in ListPhase /\ task.step = "loop"
  /\ IF Out >= Wanted(task.phase)
     THEN task' = After(task.phase) /\ UNCHANGED peers
     ELSE /\ task' = IF stop THEN After(task.phase)
                     ELSE [task EXCEPT !.step = "pick", !.tries = 0,
                             !.todo = IF task.phase = "anchor" THEN peers.anchor ELSE {}]
          /\ peers' = IF task.phase = "anchor" THEN EmptyAnchors(peers) ELSE peers
  /\ UNCHANGED <<conns, full, failed, blocked, score, pings, disk, stop, reached, events>>

Eligible(a, id) ==
  ~IsPeerUsed(a, id) /\ IsRemoteHostAllowed(host[a]) /\ ~IsAddrRecentlyFailed(a)

\* make_new_connection_from_anchor_peerlist
PickAnchor ==
  /\ task.phase = "anchor" /\ task.step = "pick"
  /\ \/ task.todo = {} /\ task' = After("anchor")
     \/ \E a \in task.todo : \E id \in KnownIds(a) :
          task' = IF Eligible(a, id)
                  THEN [task EXCEPT !.todo = @ \ {a}, !.step = "connect", !.na = a]
                  ELSE [task EXCEPT !.todo = @ \ {a}]
  /\ UNCHANGED <<peers, conns, full, failed, blocked, score, pings, disk, stop, reached, events>>

\* make_new_connection_from_peerlist: max_random_index stays 0, so it draws 3 times (Draws), and a
\* draw of an index that was drawn before is lost.
PickListed(a) ==
  /\ task.phase \in ListPhase \ {"anchor"} /\ task.step = "pick"
  /\ task.tries < Draws /\ ~stop
  /\ a \in Source(task.phase)
  /\ \/ \E id \in KnownIds(a) :
          task' = IF Eligible(a, id)
                  THEN [task EXCEPT !.tries = @ + 1, !.step = "connect", !.na = a]
                  ELSE [task EXCEPT !.tries = @ + 1]
     \/ task.tries > 0 /\ task' = [task EXCEPT !.tries = @ + 1]
  /\ UNCHANGED <<peers, conns, full, failed, blocked, score, pings, disk, stop, reached, events>>

GiveUpList ==
  /\ task.phase \in ListPhase \ {"anchor"} /\ task.step = "pick"
  /\ task.tries = Draws \/ stop \/ Source(task.phase) = {}
  /\ task' = After(task.phase)
  /\ UNCHANGED <<peers, conns, full, failed, blocked, score, pings, disk, stop, reached, events>>

\* gray_peerlist_housekeeping tries a random gray peer.
StartHousekeeping ==
  /\ task.phase = "idle"
  /\ ~stop /\ Exclusive = {}
  /\ \E a \in Listed(peers.gray) :
       task' = [Idle EXCEPT !.phase = "house", !.step = "connect", !.na = a]
  /\ UNCHANGED <<peers, conns, full, failed, blocked, score, pings, disk, stop, reached, events>>

-----------------------------------------------------------------------------
\* try_to_connect_and_handshake_with_new_peer and check_connection_and_handshake_with_peer

\* What follows an attempt that failed: the next candidate.  Housekeeping removes the gray peer.
Failed == IF task.phase = "house" THEN Idle ELSE [task EXCEPT !.step = "pick", !.na = None,
                                                              !.slot = None, !.hsh = "none"]

AfterFail(p) == IF task.phase = "house" THEN RemoveGray(p, task.na) ELSE p

\* The limit is compared with the number that the thread of the peers' logger last counted.
AtOutLimit == task.phase # "house" /\ full.out

SkipAtLimit ==
  /\ task.step = "connect"
  /\ AtOutLimit
  /\ task' = Failed
  /\ UNCHANGED <<peers, conns, full, failed, blocked, score, pings, disk, stop, reached, events>>

ConnectFails ==
  /\ task.step = "connect"
  /\ ~AtOutLimit
  /\ task.na \in Reliable => Free = {} \/ stop
  /\ failed' = failed \cup {host[task.na]}
  /\ task' = Failed
  /\ peers' = AfterFail(peers)
  /\ UNCHANGED <<conns, full, blocked, score, pings, disk, stop, reached, events>>

Connect ==
  /\ task.step = "connect"
  /\ ~stop
  /\ ~AtOutLimit
  /\ \E s \in Free :
       /\ conns' = [conns EXCEPT ![s] =
            Connection(host[task.na], task.na, IF task.phase = "house" THEN "house" ELSE "peer")]
       /\ task' = [task EXCEPT !.step = "wait", !.slot = s, !.hsh = "pending"]
  /\ UNCHANGED <<peers, full, failed, blocked, score, pings, disk, stop, reached, events>>

Waiting(s) == task.step = "wait" /\ task.slot = s /\ task.hsh = "pending"

\* The answer comes with the peer_id of this node: the connection is to ourselves.
Recognised(a) == IF a = Me THEN "bad" ELSE "ok"

\* The callback of do_handshake_with_peer.  The connection to ourselves is noticed after the
\* address was put on the white list.
HandshakeReply(s) ==
  /\ Waiting(s)
  /\ s \in Open
  /\ \/ \* wrong network, or an answer that is no handshake
        /\ conns[s].addr \notin Reliable
        /\ Happens(FALSE)
        /\ task' = [task EXCEPT !.hsh = "bad"]
        /\ UNCHANGED <<peers, conns, blocked, score, reached>>
     \/ \* a peer list that is too long
        /\ conns[s].addr \notin Reliable
        /\ Happens(TRUE)
        /\ Become(AddHostFail(Now, conns[s].host, conns[s].addr, 1))
        /\ task' = [task EXCEPT !.hsh = "bad"]
        /\ UNCHANGED reached
     \/ /\ task.phase = "house"
        /\ \E list \in Gossip : Happens(list # <<>>) /\ peers' = Merged(peers, list)
        /\ task' = [task EXCEPT !.hsh = "ok"]
        /\ reached' = reached \cup {task.na}
        /\ UNCHANGED <<conns, blocked, score>>
     \/ \* process_payload_sync_data refuses
        /\ task.phase # "house" /\ conns[s].addr \notin Reliable
        /\ \E list \in Gossip : Happens(list # <<>>) /\ peers' = Merged(peers, list)
        /\ task' = [task EXCEPT !.hsh = "bad"]
        /\ UNCHANGED <<conns, blocked, score, reached>>
     \/ /\ task.phase # "house"
        /\ \E list \in Gossip :
             Happens(list # <<>>) /\ peers' = SetPeerJustSeen(Merged(peers, list), task.na)
        /\ conns' = [conns EXCEPT ![s].id = task.na]
        /\ task' = [task EXCEPT !.hsh = Recognised(task.na)]
        /\ reached' = reached \cup {task.na}
        /\ UNCHANGED <<blocked, score>>
  /\ UNCHANGED <<full, failed, pings, disk, stop>>

\* The invocation times out: the callback is told, and the connection is closed.
HandshakeTimeout(s) ==
  /\ Waiting(s)
  /\ s \in Open /\ conns[s].addr \notin Reliable
  /\ task' = [task EXCEPT !.hsh = "timeout"]
  /\ conns' = Closed(conns, {s})
  /\ UNCHANGED <<peers, full, failed, blocked, score, pings, disk, stop, reached, events>>

\* The thread of idle_worker goes on after ev.wait().
HandshakeDone ==
  /\ task.step = "wait" /\ task.hsh # "pending"
  /\ LET s == task.slot
         na == task.na IN
     \/ /\ task.hsh # "ok"
        /\ conns' = IF task.hsh = "timeout" THEN conns ELSE Closed(conns, {s})
        /\ failed' = failed \cup {host[na]}
        /\ peers' = AfterFail(peers)
        /\ task' = Failed
     \/ /\ task.hsh = "ok" /\ task.phase = "house"
        /\ conns' = Closed(conns, {s})
        /\ peers' = SetPeerJustSeen(peers, na)
        /\ task' = Idle
        /\ UNCHANGED failed
     \/ /\ task.hsh = "ok" /\ task.phase # "house"
        /\ peers' = AppendAnchor(AppendWhite(peers, na, TRUE), na)
        /\ task' = [task EXCEPT !.step = IF task.phase = "listed" THEN "pick" ELSE "loop",
                                !.na = None, !.slot = None, !.hsh = "none", !.todo =
                                  IF task.phase = "listed" THEN @ ELSE {}]
        /\ UNCHANGED <<conns, failed>>
  /\ UNCHANGED <<full, blocked, score, pings, disk, stop, reached, events>>

-----------------------------------------------------------------------------
\* What the threads of the network do

MutForgottenAnchor(s) == conns[s].addr

\* on_connection_close: an outgoing peer that went away is no anchor, but a stop leaves the anchors.
ForgottenAnchor(s) == IF stop \/ conns[s].kind = "in" THEN None ELSE conns[s].addr

\* The connection is destroyed: the peer closed it, it broke, or it was closed here.
ConnectionClosed(s) ==
  /\ conns[s] # None
  /\ conns[s].up => conns[s].addr \notin Reliable \/ conns[s].kind # "peer"
  /\ conns' = [conns EXCEPT ![s] = None]
  /\ task' = IF Waiting(s) THEN [task EXCEPT !.hsh = "timeout"] ELSE task
  /\ peers' = RemoveAnchor(peers, ForgottenAnchor(s))
  /\ UNCHANGED <<full, failed, blocked, score, pings, disk, stop, reached, events>>

Accept(h) ==
  /\ Happens(TRUE)
  /\ ~stop
  /\ IsRemoteHostAllowed(h)
  /\ \E s \in Free : conns' = [conns EXCEPT ![s] = Connection(h, None, "in")]
  /\ UNCHANGED <<peers, full, failed, blocked, score, task, pings, disk, stop, reached>>

\* handle_handshake from the peer that listens on a.  It answers with the head of the white list.
HandleHandshake(s, a) ==
  /\ s \in Incoming
  /\ host[a] = conns[s].host
  /\ LET drop == Closed(conns, {s}) IN
     \/ \* wrong network
        /\ Happens(TRUE)
        /\ Become(AddHostFail([Now EXCEPT !.conns = drop], conns[s].host, None, 1))
        /\ UNCHANGED pings
     \/ /\ \/ conns[s].id # None
           \/ a = Me
           \/ full.in
           \/ HasTooManyConnections(conns[s].host)
           \/ TRUE  \* process_payload_sync_data refuses
        /\ Happens(FALSE)
        /\ conns' = drop
        /\ UNCHANGED <<peers, blocked, score, pings>>
     \/ /\ conns[s].id = None /\ a # Me /\ ~full.in
        /\ ~HasTooManyConnections(conns[s].host)
        /\ Happens(FALSE)
        /\ conns' = [conns EXCEPT ![s].id = a, ![s].sync = FALSE]
        /\ \/ a \notin NotAllowed /\ pings' = pings \cup {a}
           \/ UNCHANGED pings  \* the peer hides its port
        /\ UNCHANGED <<peers, blocked, score>>
  /\ UNCHANGED <<full, failed, task, disk, stop, reached>>

\* A handshake that comes on an outgoing connection.
UnexpectedHandshake(s) ==
  /\ Happens(TRUE)
  /\ s \in Outgoing
  /\ conns[s].addr \notin Reliable
  /\ Become(AddHostFail([Now EXCEPT !.conns = Closed(@, {s})], conns[s].host, conns[s].addr, 1))
  /\ UNCHANGED <<full, failed, task, pings, disk, stop, reached>>

\* try_ping: connect_async to the port that the peer announced, then COMMAND_PING.
PingConnect(a) ==
  /\ a \in pings
  /\ pings' = pings \ {a}
  /\ \/ UNCHANGED conns  \* back ping connect failed
     \/ ~stop /\ \E s \in Free : conns' = [conns EXCEPT ![s] = Connection(host[a], a, "ping")]
  /\ UNCHANGED <<peers, full, failed, blocked, score, task, disk, stop, reached, events>>

PingReply(s) ==
  /\ s \in Open
  /\ conns[s].kind = "ping"
  /\ conns' = Closed(conns, {s})
  /\ \/ UNCHANGED <<peers, reached>>  \* another status, or the peer_id of another node
     \/ /\ peers' = AppendWhite(peers, conns[s].addr, TRUE)
        /\ reached' = reached \cup {conns[s].addr}
  /\ UNCHANGED <<full, failed, blocked, score, task, pings, disk, stop, events>>

\* peer_sync_idle_maker: asks every peer that it knows the peer_id of.
PeerSync ==
  /\ task.phase = "idle"
  /\ LET S == {s \in Open : conns[s].id # None /\ ~conns[s].sync} IN
       /\ S # {}
       /\ conns' = [s \in Slot |-> IF s \in S THEN [conns[s] EXCEPT !.sync = TRUE] ELSE conns[s]]
  /\ UNCHANGED <<peers, full, failed, blocked, score, task, pings, disk, stop, reached, events>>

\* The callback of do_peer_timed_sync.  A peer list that is too long closes the connection and
\* counts against the host, but the rest of the answer is processed all the same.
TimedSyncReply(s) ==
  /\ s \in Open
  /\ conns[s].sync
  /\ \E list \in Gossip, spam, refuse \in BOOLEAN :
       LET c == conns[s]
           n == [Now EXCEPT !.conns[s].sync = FALSE]
           m == IF spam
                THEN AddHostFail([n EXCEPT !.conns = Closed(@, {s})], c.host, c.addr, 1)
                ELSE [n EXCEPT !.peers = Merged(@, list)] IN
         /\ Happens(spam \/ list # <<>>)
         /\ c.addr \in Reliable => ~spam /\ ~refuse
         /\ Become([m EXCEPT !.peers = IF c.kind = "in" THEN @ ELSE SetPeerJustSeen(@, c.addr),
                             !.conns = IF refuse THEN Closed(@, {s}) ELSE @])
  /\ UNCHANGED <<full, failed, task, pings, disk, stop, reached>>

\* The protocol handler drops a peer, with or without a fail, or handle_timed_sync does.
PayloadDrop(s) ==
  /\ Happens(TRUE)
  /\ s \in Open
  /\ conns[s].addr \notin Reliable
  /\ \E points \in {0, 1, 5} :
       LET n == [Now EXCEPT !.conns = Closed(@, {s})] IN
         Become(IF points = 0 THEN n ELSE AddHostFail(n, conns[s].host, conns[s].addr, points))
  /\ UNCHANGED <<full, failed, task, pings, disk, stop, reached>>

MutCounted == [in |-> Cardinality(Incoming) >= MaxIn, out |-> Out >= MaxIn]

Counted == [in |-> Cardinality(Incoming) >= MaxIn, out |-> Out = MaxOut]

\* The thread that logs the number of peers.
CountPeers ==
  /\ full # Counted
  /\ full' = Counted
  /\ UNCHANGED <<peers, conns, failed, blocked, score, task, pings, disk, stop, reached, events>>

\* set_bans of the RPC server.  A ban names a host, so it removes no address from the lists.
Ban(h) ==
  /\ Happens(TRUE)
  /\ h \notin blocked
  /\ Become(BlockHost(Now, h, None))
  /\ UNCHANGED <<full, failed, task, pings, disk, stop, reached>>

\* unblock_host, or the first look at a host after its time.
Unblock(h) ==
  /\ h \in blocked
  /\ blocked' = blocked \ {h}
  /\ UNCHANGED <<peers, conns, full, failed, score, task, pings, disk, stop, reached, events>>

\* P2P_FAILED_ADDR_FORGET_SECONDS passed.
Forget(h) ==
  /\ h \in failed
  /\ failed' = failed \ {h}
  /\ UNCHANGED <<peers, conns, full, blocked, score, task, pings, disk, stop, reached, events>>

-----------------------------------------------------------------------------
\* Start, stop and the file of the lists

\* The order of gray addresses is that of the file, by address.
Load(p) == [p EXCEPT !.gray = FoldSet(LAMBDA a, list : Append(list, a), <<>>, Listed(@))]

AddCommandLine(p) ==
  LET added == CommandLine \ NotAllowed IN
    [p EXCEPT
      !.white = FoldSet(LAMBDA a, white : NewWhite(white, a, FALSE), @, added),
      !.gray = SelectSeq(@, LAMBDA a : a \notin added)]

Started(p) ==
  /\ peers' = AddCommandLine(Load(p))
  /\ conns' = [s \in Slot |-> None]
  /\ full' = [in |-> MaxIn = 0, out |-> MaxOut = 0]
  /\ failed' = {} /\ blocked' = {} /\ score' = [h \in Host |-> 0]
  /\ task' = Idle
  /\ pings' = {}
  /\ stop' = FALSE

Init ==
  /\ peers = AddCommandLine(Load(Stored))
  /\ conns = [s \in Slot |-> None]
  /\ full = [in |-> MaxIn = 0, out |-> MaxOut = 0]
  /\ failed = {} /\ blocked = {} /\ score = [h \in Host |-> 0]
  /\ task = Idle
  /\ pings = {}
  /\ disk = Stored
  /\ stop = FALSE
  /\ reached = Listed(Stored.white) \cup CommandLine
  /\ events = 0

\* store_config truncates the file and then writes it.
StartStore ==
  /\ Happens(TRUE)
  /\ task.phase = "idle"
  /\ ~stop
  /\ disk # peers
  /\ disk' = NoPeers
  /\ task' = [Idle EXCEPT !.phase = "store"]
  /\ UNCHANGED <<peers, conns, full, failed, blocked, score, pings, stop, reached>>

FinishStore ==
  /\ task.phase = "store"
  /\ disk' = peers
  /\ task' = Idle
  /\ UNCHANGED <<peers, conns, full, failed, blocked, score, pings, stop, reached, events>>

\* send_stop_signal, which then closes every connection.
Stop ==
  /\ Happens(TRUE)
  /\ ~stop
  /\ stop' = TRUE
  /\ conns' = Closed(conns, Slot)
  /\ UNCHANGED <<peers, full, failed, blocked, score, task, pings, disk, reached>>

\* deinit waits for the threads, and stores the lists; the daemon is started again.
Restart ==
  /\ stop
  /\ task.phase = "idle"
  /\ \A s \in Slot : conns[s] = None
  /\ disk' = peers
  /\ Started(peers)
  /\ UNCHANGED <<reached, events>>

Crash ==
  /\ Happens(task.phase # "store")
  /\ Started(disk)
  /\ UNCHANGED <<disk, reached>>

-----------------------------------------------------------------------------
Attempt == SkipAtLimit \/ ConnectFails \/ Connect \/ HandshakeDone

IdleWorker ==
  \/ StartConnectionsMaker \/ NextListed \/ Loop \/ PickAnchor \/ GiveUpList
  \/ \E a \in Addr : PickListed(a)
  \/ Attempt
  \/ StartHousekeeping
  \/ StartStore \/ FinishStore
  \/ PeerSync

Network ==
  \/ \E s \in Slot :
       \/ HandshakeReply(s) \/ HandshakeTimeout(s) \/ ConnectionClosed(s)
       \/ UnexpectedHandshake(s) \/ PingReply(s) \/ TimedSyncReply(s) \/ PayloadDrop(s)
       \/ \E a \in Addr : HandleHandshake(s, a)
  \/ \E h \in Host : Accept(h)
  \/ \E a \in Addr : PingConnect(a)

Next ==
  \/ IdleWorker \/ Network
  \/ CountPeers
  \/ \E h \in Host : Ban(h) \/ Unblock(h) \/ Forget(h)
  \/ Stop \/ Restart \/ Crash

Spec == Init /\ [][Next]_vars

\* The threads go on, draws are random, failures are forgotten after a time, a closed connection
\* is destroyed, and a reliable peer answers.
Fairness ==
  /\ WF_vars(NextListed \/ Loop \/ PickAnchor \/ GiveUpList \/ \E a \in Addr : PickListed(a))
  /\ SF_vars(StartConnectionsMaker)
  /\ \A a \in Reliable : SF_vars(PickListed(a) /\ task'.step = "connect")
  /\ WF_vars(Attempt \/ FinishStore)
  /\ WF_vars(CountPeers)
  /\ \A h \in Host : WF_vars(Forget(h))
  /\ \A s \in Slot :
       /\ WF_vars(HandshakeReply(s) \/ HandshakeTimeout(s))
       /\ WF_vars(ConnectionClosed(s) /\ ~conns[s].up)

FairSpec == Spec /\ Fairness

-----------------------------------------------------------------------------
TypeOK ==
  /\ \A p \in {peers, disk} :
       Listed(p.white) \cup Listed(p.gray) \cup p.anchor \subseteq Addr \ NotAllowed
  /\ \A s \in Slot : conns[s] # None =>
       /\ conns[s].host \in Host
       /\ conns[s].addr \in IF conns[s].kind = "in" THEN {None} ELSE Addr
       /\ conns[s].id \in Addr \cup {None}
  /\ failed \subseteq Host /\ blocked \subseteq Host
  /\ score \in [Host -> 0 .. FailLimit]
  /\ pings \subseteq Addr /\ reached \subseteq Addr
  /\ task.step = "wait" <=> task.slot # None
  /\ task.hsh # "none" <=> task.slot # None

\* Whatever peers send and in whatever order handshakes, pings, timed syncs, bans and saves meet,
\* the lists in memory and in the file are sound: no address is both white and gray, no host has
\* two white addresses, and no list is beyond its limit.
ListsStaySound == ListsSound(peers) /\ ListsSound(disk)

\* What a peer tells us of others never becomes white by itself: every white address, in memory or
\* in the file, has answered a handshake or a ping of this node, or the operator gave it.
WhiteWasReached == Listed(peers.white) \cup Listed(disk.white) \subseteq reached

\* connections_maker never opens a second connection to an address that it is connected to,
\* although the address may be anchor, white and priority node at once.
OneConnection ==
  \A s, t \in Open :
    conns[s].kind = "peer" /\ conns[t].kind = "peer" /\ conns[s].addr = conns[t].addr => s = t

\* Our own address gets on the lists through gossip, but a connection to ourselves lasts only
\* until the thread that made it goes on, and closes it.
SelfDropped ==
  \A s \in Open : conns[s].id = Me => task.slot = s /\ task.hsh = "bad"

\* Peer lists and connections stay sound, whatever peers, users and timers do.
OverlaySound == TypeOK /\ ListsStaySound /\ WhiteWasReached /\ OneConnection /\ SelfDropped

\* The anchors are there to find the same peers after a restart.  Closing every connection on a
\* stop does not lose them; only a round of connections_maker that was about to use them does,
\* because it takes the list before it looks for the stop signal, and a host that gets blocked.
AnchorsSurviveStop ==
  [][stop /\ stop' /\ ~(task.phase = "anchor" /\ task.step = "loop") /\ blocked' = blocked
       => peers.anchor \subseteq peers'.anchor]_vars

\* A reliable peer that stays white and is not blocked gets connected again and again, or all the
\* connections there may be are taken, whatever the other peers do.  There is one exception: an
\* anchor that closes each connection between the answer to the handshake and the step that makes
\* it an anchor again keeps the loop over the anchors busy for ever.
EventuallyConnected ==
  \A r \in Reliable :
    /\ <>[](~stop /\ r \in Listed(peers.white) /\ host[r] \notin blocked)
    /\ <>[][task.hsh = "ok" /\ conns[task.slot] # None => conns'[task.slot] # None \/ task' # task]_vars
    => []<>(IsAddrConnected(r) \/ (\E s \in Open : conns[s].id = r) \/ Out >= MaxOut \/ Free = {})
=============================================================================
