----------------------------- MODULE NodeProofs -----------------------------
(***************************************************************************)
(* Proofs about Node, for any addresses, hosts, limits, lists and any      *)
(* number of connections: what becomes of the anchors when the node stops, *)
(* and that connections_maker keeps one connection to an address and none  *)
(* to this node.                                                           *)
(***************************************************************************)
EXTENDS Node, TLAPS

-----------------------------------------------------------------------------
\* What an operation on the lists leaves of the anchors.

IsLists(p) == DOMAIN p = {"white", "gray", "anchor"} /\ p.anchor \subseteq Addr

\* append_with_peer_white, merge_peerlist, remove_from_peer_gray, the order of the file and the
\* command line touch the white and the gray list, and leave the anchors.
LEMMA AnchorsLeft ==
    ASSUME NEW p, IsLists(p)
    PROVE  /\ \A a, seen : IsLists(AppendWhite(p, a, seen)) /\ AppendWhite(p, a, seen).anchor = p.anchor
           /\ \A a : IsLists(SetPeerJustSeen(p, a)) /\ SetPeerJustSeen(p, a).anchor = p.anchor
           /\ \A list, allowed :
                IsLists(Merge(p, list, allowed)) /\ Merge(p, list, allowed).anchor = p.anchor
           /\ \A a : IsLists(RemoveGray(p, a)) /\ RemoveGray(p, a).anchor = p.anchor
           /\ IsLists(Load(p)) /\ Load(p).anchor = p.anchor
           /\ IsLists(AddCommandLine(p)) /\ AddCommandLine(p).anchor = p.anchor
<1>1. ASSUME NEW a, NEW seen
      PROVE  IsLists(AppendWhite(p, a, seen)) /\ AppendWhite(p, a, seen).anchor = p.anchor
    BY DEF AppendWhite, IsLists
<1>2. ASSUME NEW a
      PROVE  IsLists(SetPeerJustSeen(p, a)) /\ SetPeerJustSeen(p, a).anchor = p.anchor
    BY <1>1, Zenon DEF SetPeerJustSeen
<1>3. ASSUME NEW list, NEW allowed
      PROVE  IsLists(Merge(p, list, allowed)) /\ Merge(p, list, allowed).anchor = p.anchor
    BY DEF Merge, IsLists
<1>4. ASSUME NEW a
      PROVE  IsLists(RemoveGray(p, a)) /\ RemoveGray(p, a).anchor = p.anchor
    BY DEF RemoveGray, IsLists
<1>5. IsLists(Load(p)) /\ Load(p).anchor = p.anchor
    BY DEF Load, IsLists
<1>6. IsLists(AddCommandLine(p)) /\ AddCommandLine(p).anchor = p.anchor
    BY DEF AddCommandLine, IsLists
<1> QED
    BY <1>1, <1>2, <1>3, <1>4, <1>5, <1>6

\* The other operations add an anchor, or take some away.
LEMMA AnchorsChanged ==
    ASSUME NEW p, IsLists(p), NEW a
    PROVE  /\ IsLists(EmptyAnchors(p)) /\ IsLists(RemovePeer(p, a)) /\ IsLists(NoPeers)
           /\ IsLists(RemoveAnchor(p, a)) /\ RemoveAnchor(p, a).anchor = p.anchor \ {a}
           /\ a \in Addr => IsLists(AppendAnchor(p, a)) /\ p.anchor \subseteq AppendAnchor(p, a).anchor
BY DEF EmptyAnchors, RemovePeer, RemoveAnchor, AppendAnchor, NoPeers, IsLists

-----------------------------------------------------------------------------
\* What closing does to the connections.

ConnFields == {"host", "addr", "kind", "id", "sync", "up"}

AreConns(cs) ==
  /\ DOMAIN cs = Slot
  /\ \A s \in Slot : cs[s] # None => DOMAIN cs[s] = ConnFields

Alive(cs, s) == cs[s] # None /\ cs[s].up

\* From cs to ds connections were closed or asked for a sync: none is new, and each is still to
\* the same peer.
Fewer(cs, ds) ==
  /\ AreConns(ds)
  /\ \A s \in Slot : Alive(ds, s) =>
       /\ Alive(cs, s)
       /\ ds[s].addr = cs[s].addr /\ ds[s].kind = cs[s].kind /\ ds[s].id = cs[s].id

LEMMA ClosedIsFewer ==
    ASSUME NEW cs, AreConns(cs), NEW S
    PROVE  /\ Fewer(cs, Closed(cs, S))
           /\ \A s \in S \cap Slot : ~Alive(Closed(cs, S), s)
<1> DEFINE ds == Closed(cs, S)
<1>1. DOMAIN ds = Slot
    BY DEF Closed
<1>2. ASSUME NEW s \in Slot, s \in S, cs[s] # None
      PROVE  DOMAIN ds[s] = ConnFields /\ ds[s].up = FALSE
    BY <1>2 DEF Closed, AreConns, ConnFields
<1>3. ASSUME NEW s \in Slot, ~(s \in S /\ cs[s] # None)
      PROVE  ds[s] = cs[s]
    BY <1>3 DEF Closed
<1> HIDE DEF ds
<1>4. AreConns(ds)
    BY <1>1, <1>2, <1>3, Zenon DEF AreConns
<1> QED
    BY <1>1, <1>2, <1>3, <1>4, Zenon DEF Fewer, Alive, AreConns, ds

LEMMA FewerAgain ==
    ASSUME NEW cs, NEW ds, NEW es, Fewer(cs, ds), Fewer(ds, es)
    PROVE  Fewer(cs, es)
BY DEF Fewer

LEMMA FewerSelf ==
    ASSUME NEW cs, AreConns(cs)
    PROVE  Fewer(cs, cs)
BY DEF Fewer

-----------------------------------------------------------------------------
\* add_host_fail and block_host

IsNow(n) ==
  /\ DOMAIN n = {"peers", "conns", "blocked", "score"}
  /\ IsLists(n.peers) /\ AreConns(n.conns)

LEMMA BlockHostEffect ==
    ASSUME NEW n, IsNow(n), NEW h, NEW a
    PROVE  IsNow(BlockHost(n, h, a)) /\ Fewer(n.conns, BlockHost(n, h, a).conns)
<1> DEFINE S == {s \in Slot : n.conns[s] # None /\ n.conns[s].host = h}
           m == BlockHost(n, h, a)
<1>1. DOMAIN m = DOMAIN n /\ m.peers = RemovePeer(n.peers, a) /\ m.conns = Closed(n.conns, S)
    BY DEF BlockHost, IsNow
<1>2. Fewer(n.conns, Closed(n.conns, S))
    BY ClosedIsFewer DEF IsNow
<1>3. IsLists(RemovePeer(n.peers, a))
    BY AnchorsChanged DEF IsNow
<1> HIDE DEF S, m
<1> QED
    BY <1>1, <1>2, <1>3 DEF IsNow, Fewer, m

LEMMA AddHostFailEffect ==
    ASSUME NEW n, IsNow(n), NEW h, NEW a, NEW points
    PROVE  IsNow(AddHostFail(n, h, a, points)) /\ Fewer(n.conns, AddHostFail(n, h, a, points).conns)
<1>1. ASSUME NEW k, NEW m, m = [n EXCEPT !.score[h] = k]
      PROVE  IsNow(m) /\ m.conns = n.conns
    BY <1>1 DEF IsNow
<1>2. CASE n.score[h] + points <= FailLimit
  <2>1. AddHostFail(n, h, a, points) = [n EXCEPT !.score[h] = n.score[h] + points]
      BY <1>2 DEF AddHostFail
  <2> QED
      BY <1>1, <2>1, FewerSelf DEF IsNow
<1>3. CASE ~(n.score[h] + points <= FailLimit)
  <2> DEFINE m == [n EXCEPT !.score[h] = FailLimit \div 2]
  <2>1. AddHostFail(n, h, a, points) = BlockHost(m, h, a)
      BY <1>3 DEF AddHostFail
  <2>2. IsNow(m) /\ m.conns = n.conns
      BY <1>1
  <2> HIDE DEF m
  <2> QED
      BY <2>1, <2>2, BlockHostEffect
<1> QED
    BY <1>2, <1>3

-----------------------------------------------------------------------------
\* The inductive invariant

ListsOk == IsLists(peers) /\ IsLists(disk)

TaskFields == {"phase", "step", "todo", "tries", "count", "na", "slot", "hsh"}

\* Outside of a loop of connections_maker and of housekeeping the thread has no attempt under way;
\* it tries addresses only; and what a handshake gave is forgotten when the attempt is over.
IsTask(t) ==
  /\ DOMAIN t = TaskFields
  /\ t.phase \in {"idle", "store"} => t.step = "loop"
  /\ t.todo \subseteq Addr
  /\ t.phase # "house" /\ t.step \in {"connect", "wait"} => t.na \in Addr
  /\ t.step # "wait" => t.hsh = "none"

\* send_stop_signal closes every connection, and none is made after it.
NoneAfterStop == stop => \A s \in Slot : ~Alive(conns, s)

\* Connections of connections_maker to a.
PeerTo(cs, s, a) == Alive(cs, s) /\ cs[s].kind = "peer" /\ cs[s].addr = a

\* The address that was chosen is not connected when the thread connects to it.
ChosenIsNew ==
  task.step = "connect" /\ task.phase # "house" => \A s \in Slot : ~PeerTo(conns, s, task.na)

NodeInv ==
  /\ ListsOk /\ AreConns(conns) /\ IsTask(task) /\ NoneAfterStop
  /\ OneConnection /\ ChosenIsNew /\ SelfDropped

\* The thread of idle_worker goes on while the connections stay as they are.
LEMMA ThreadMoves ==
    ASSUME NodeInv, ListsOk', IsTask(task'), UNCHANGED conns, stop' = stop,
           task.step # "wait" \/ task' = task,
           task'.step = "connect" /\ task'.phase # "house" =>
             \A s \in Slot : ~PeerTo(conns, s, task'.na)
    PROVE  NodeInv'
<1>1. AreConns(conns') /\ NoneAfterStop' /\ OneConnection'
    BY DEF NodeInv, NoneAfterStop, OneConnection, Open
<1>2. ChosenIsNew'
    BY DEF ChosenIsNew
<1>3. SelfDropped'
    BY DEF NodeInv, IsTask, SelfDropped, Open
<1> QED
    BY <1>1, <1>2, <1>3 DEF NodeInv

\* Connections are closed, or asked for a sync, and a handshake that the thread waits for may be
\* over.
LEMMA ConnectionsGo ==
    ASSUME NodeInv, ListsOk', Fewer(conns, conns'), stop' = stop,
           \/ task' = task
           \/ /\ task.step = "wait" /\ task.hsh = "pending"
              /\ \E v \in {"bad", "ok", "timeout"} : task' = [task EXCEPT !.hsh = v]
    PROVE  NodeInv'
<1>1. IsTask(task') /\ task'.step = task.step /\ task'.phase = task.phase /\ task'.na = task.na
    BY DEF NodeInv, IsTask, TaskFields
<1>2. AreConns(conns') /\ NoneAfterStop'
    BY DEF NodeInv, Fewer, NoneAfterStop
<1>3. OneConnection'
    BY DEF NodeInv, Fewer, OneConnection, Open, Alive
<1>4. ChosenIsNew'
    BY <1>1 DEF NodeInv, Fewer, ChosenIsNew, PeerTo
<1>5. SelfDropped'
  <2>1. CASE task' = task
      BY <2>1 DEF NodeInv, Fewer, SelfDropped, Open, Alive
  <2>2. CASE task.hsh = "pending"
      BY <2>2 DEF NodeInv, Fewer, SelfDropped, Open, Alive
  <2> QED
      BY <2>1, <2>2
<1> QED
    BY <1>1, <1>2, <1>3, <1>4, <1>5 DEF NodeInv

\* A new connection of another kind takes a free slot.
LEMMA OtherConnects ==
    ASSUME NodeInv, ListsOk', NEW s \in Free, NEW h, NEW a, NEW kind \in {"in", "ping", "house"},
           conns' = [conns EXCEPT ![s] = Connection(h, a, kind)], ~stop, stop' = stop,
           task' = task
    PROVE  NodeInv'
<1> DEFINE c == Connection(h, a, kind)
<1>1. s \in Slot /\ DOMAIN c = ConnFields /\ c.kind = kind /\ c.id = None
    BY DEF Free, Connection, ConnFields
<1> HIDE DEF c
<1>2. /\ DOMAIN conns' = Slot /\ conns'[s] = c
      /\ \A t \in Slot \ {s} : conns'[t] = conns[t]
    BY <1>1 DEF NodeInv, AreConns, c
<1>3. AreConns(conns')
    BY <1>1, <1>2 DEF NodeInv, AreConns
<1>4. OneConnection'
    BY <1>1, <1>2 DEF NodeInv, OneConnection, Open
<1>5. ChosenIsNew'
    BY <1>1, <1>2 DEF NodeInv, ChosenIsNew, PeerTo, Alive
<1>6. SelfDropped'
    BY <1>1, <1>2, NodeAssumption DEF NodeInv, SelfDropped, Open
<1>7. NoneAfterStop'
    BY DEF NoneAfterStop
<1> QED
    BY <1>3, <1>4, <1>5, <1>6, <1>7 DEF NodeInv

\* A handshake tells who the peer of s is.
LEMMA PeerIsKnown ==
    ASSUME NodeInv, ListsOk', NEW s \in Open, NEW a, stop' = stop,
           AreConns(conns'),
           \A t \in Slot \ {s} : conns'[t] = conns[t],
           conns'[s].addr = conns[s].addr, conns'[s].kind = conns[s].kind, conns'[s].id = a,
           \/ task' = task /\ a # Me
           \/ /\ task.step = "wait" /\ task.slot = s /\ task.hsh = "pending"
              /\ task' = [task EXCEPT !.hsh = Recognised(a)]
    PROVE  NodeInv'
<1>1. IsTask(task') /\ task'.step = task.step /\ task'.phase = task.phase /\ task'.na = task.na
    BY DEF NodeInv, IsTask, TaskFields
<1>2. NoneAfterStop'
    BY DEF NodeInv, NoneAfterStop, Open, Alive
<1>3. \A t \in Open' : t \in Open /\ conns'[t].addr = conns[t].addr /\ conns'[t].kind = conns[t].kind
    BY DEF Open
<1>4. OneConnection'
    BY <1>3 DEF NodeInv, OneConnection
<1>5. ChosenIsNew'
    BY <1>1, <1>3 DEF NodeInv, ChosenIsNew, PeerTo, Alive, Open
<1>6. SelfDropped'
  <2>1. CASE task' = task /\ a # Me
      BY <1>3, <2>1 DEF NodeInv, SelfDropped, Open
  <2>2. CASE task.slot = s /\ task.hsh = "pending" /\ task' = [task EXCEPT !.hsh = Recognised(a)]
    <3>1. task'.slot = s /\ task'.hsh = Recognised(a)
        BY <2>2 DEF NodeInv, IsTask, TaskFields
    <3> QED
        BY <1>3, <2>2, <3>1 DEF NodeInv, SelfDropped, Open, Recognised
  <2> QED
      BY <2>1, <2>2
<1> QED
    BY <1>1, <1>2, <1>4, <1>5, <1>6 DEF NodeInv

-----------------------------------------------------------------------------
\* The steps of the thread

\* What the loop that follows begins with.
LEMMA AfterIsTask ==
    ASSUME IsTask(task), NEW phase, task.step # "wait", task.phase \in ListPhase
    PROVE  /\ IsTask(Idle) /\ Idle.step = "loop"
           /\ IsTask(Round) /\ Round.step = "loop"
           /\ phase \in ListPhase => IsTask(After(phase)) /\ After(phase).step = "loop"
<1>1. IsTask(Idle) /\ Idle.step = "loop"
    BY DEF IsTask, Idle, TaskFields
<1>2. IsTask(Round) /\ Round.step = "loop"
    BY DEF IsTask, Idle, Round, TaskFields
<1>3. ASSUME NEW next \in {"white", "gray", "white2"}
      PROVE  /\ IsTask([task EXCEPT !.phase = next, !.step = "loop"])
             /\ [task EXCEPT !.phase = next, !.step = "loop"].step = "loop"
    BY DEF IsTask, TaskFields
<1>4. ASSUME phase \in ListPhase
      PROVE  IsTask(After(phase)) /\ After(phase).step = "loop"
    BY <1>1, <1>2, <1>3, <1>4 DEF After, ListPhase
<1> QED
    BY <1>1, <1>2, <1>4

\* What an attempt that failed leaves.
LEMMA FailedIsTask ==
    ASSUME IsTask(task), task.step \in {"connect", "wait"}
    PROVE  IsTask(Failed) /\ Failed.step \in {"loop", "pick"}
<1>1. CASE task.phase = "house"
    BY <1>1 DEF Failed, Idle, IsTask, TaskFields
<1>2. CASE task.phase # "house"
    BY <1>2 DEF Failed, IsTask, TaskFields
<1> QED
    BY <1>1, <1>2

\* An address that is not connected has no connection of connections_maker.
LEMMA NotConnected ==
    ASSUME NEW a, ~IsAddrConnected(a)
    PROVE  \A s \in Slot : ~PeerTo(conns, s, a)
BY DEF IsAddrConnected, PeerTo, Outgoing, Open, Alive

\* The steps of the thread that choose what to try next.
LEMMA ChoiceInv ==
    ASSUME NodeInv,
           \/ StartConnectionsMaker \/ NextListed \/ Loop \/ PickAnchor \/ GiveUpList
           \/ \E a \in Addr : PickListed(a)
           \/ StartHousekeeping
    PROVE  NodeInv'
<1> USE DEF NodeInv
<1>1. CASE StartConnectionsMaker
  <2>1. IsTask(task') /\ task'.step = "pick" /\ task.step # "wait"
      BY <1>1, NodeAssumption DEF StartConnectionsMaker, Idle, IsTask, TaskFields
  <2> QED
      BY <1>1, <2>1, ThreadMoves DEF StartConnectionsMaker, ListsOk
<1>2. CASE NextListed
  <2>1. CASE task' = IF Exclusive # {} \/ task.todo # {} THEN Idle ELSE Round
    <3>1. IsTask(task') /\ task'.step = "loop"
        BY <2>1 DEF IsTask, Idle, Round, TaskFields
    <3> QED
        BY <1>2, <3>1, ThreadMoves, Zenon DEF NextListed, ListsOk
  <2>2. ASSUME NEW a \in task.todo,
               task' = IF IsAddrConnected(a) THEN [task EXCEPT !.todo = @ \ {a}]
                       ELSE [task EXCEPT !.todo = @ \ {a}, !.step = "connect", !.na = a]
        PROVE  NodeInv'
    <3>1. task.phase = "listed" /\ task.step = "pick" /\ a \in Addr
        BY <1>2, Zenon DEF NextListed, IsTask
    <3>2. CASE IsAddrConnected(a)
      <4>1. IsTask(task') /\ task'.step = "pick"
          BY <2>2, <3>1, <3>2 DEF IsTask, TaskFields
      <4> QED
          BY <1>2, <3>1, <4>1, ThreadMoves, Zenon DEF NextListed, ListsOk
    <3>3. CASE ~IsAddrConnected(a)
      <4>1. IsTask(task') /\ task'.na = a
          BY <2>2, <3>1, <3>3 DEF IsTask, TaskFields
      <4> QED
          BY <1>2, <3>1, <3>3, <4>1, NotConnected, ThreadMoves, Zenon DEF NextListed, ListsOk
    <3> QED
        BY <3>2, <3>3
  <2> QED
      BY <1>2, <2>1, <2>2, Zenon DEF NextListed
<1>3. CASE Loop
  <2>1. task.phase \in ListPhase /\ task.step = "loop" /\ UNCHANGED <<conns, disk, stop>>
      BY <1>3 DEF Loop
  <2>2. ListsOk'
      BY <1>3, AnchorsChanged DEF Loop, ListsOk
  <2>3. IsTask(task') /\ task'.step \in {"loop", "pick"}
    <3>1. CASE task' = After(task.phase)
        BY <2>1, <3>1, AfterIsTask
    <3>2. CASE task' = [task EXCEPT !.step = "pick", !.tries = 0,
                          !.todo = IF task.phase = "anchor" THEN peers.anchor ELSE {}]
        BY <2>1, <3>2 DEF IsTask, TaskFields, ListPhase, ListsOk, IsLists
    <3> QED
        BY <1>3, <3>1, <3>2 DEF Loop
  <2> QED
      BY <2>1, <2>2, <2>3, ThreadMoves
<1>4. CASE PickAnchor
  <2>1. /\ task.phase = "anchor" /\ task.step = "pick" /\ UNCHANGED <<conns, peers, disk, stop>>
        /\ ListsOk'
      BY <1>4, Zenon DEF PickAnchor, ListsOk
  <2>2. CASE task' = After("anchor")
    <3>1. IsTask(task') /\ task'.step = "loop"
        BY <2>1, <2>2, AfterIsTask DEF ListPhase
    <3> QED
        BY <2>1, <3>1, ThreadMoves
  <2>3. ASSUME NEW a \in task.todo, NEW id,
               task' = IF Eligible(a, id)
                       THEN [task EXCEPT !.todo = @ \ {a}, !.step = "connect", !.na = a]
                       ELSE [task EXCEPT !.todo = @ \ {a}]
        PROVE  NodeInv'
    <3>1. CASE Eligible(a, id)
      <4>1. IsTask(task') /\ task'.na = a
          BY <2>1, <2>3, <3>1 DEF IsTask, TaskFields
      <4>2. ~IsAddrConnected(a)
          BY <3>1 DEF Eligible, IsPeerUsed
      <4> QED
          BY <2>1, <4>1, <4>2, NotConnected, ThreadMoves
    <3>2. CASE ~Eligible(a, id)
      <4>1. IsTask(task') /\ task'.step = "pick"
          BY <2>1, <2>3, <3>2 DEF IsTask, TaskFields
      <4> QED
          BY <2>1, <4>1, ThreadMoves
    <3> QED
        BY <3>1, <3>2
  <2> QED
      BY <1>4, <2>2, <2>3, Zenon DEF PickAnchor
<1>5. CASE GiveUpList
  <2>1. IsTask(task') /\ task'.step = "loop" /\ task.step = "pick"
      BY <1>5, AfterIsTask DEF GiveUpList
  <2> QED
      BY <1>5, <2>1, ThreadMoves DEF GiveUpList, ListsOk
<1>6. ASSUME NEW a \in Addr, PickListed(a) PROVE NodeInv'
  <2>1. /\ task.phase \in ListPhase /\ task.step = "pick" /\ UNCHANGED <<conns, peers, disk, stop>>
        /\ ListsOk'
      BY <1>6, Zenon DEF PickListed, ListsOk
  <2>2. CASE task' = [task EXCEPT !.tries = @ + 1]
    <3>1. IsTask(task') /\ task'.step = "pick"
        BY <2>1, <2>2 DEF IsTask, TaskFields
    <3> QED
        BY <2>1, <3>1, ThreadMoves
  <2>3. ASSUME NEW id, Eligible(a, id),
               task' = [task EXCEPT !.tries = @ + 1, !.step = "connect", !.na = a]
        PROVE  NodeInv'
    <3>1. IsTask(task') /\ task'.na = a
        BY <2>1, <2>3 DEF IsTask, TaskFields, ListPhase
    <3>2. ~IsAddrConnected(a)
        BY <2>3 DEF Eligible, IsPeerUsed
    <3> QED
        BY <2>1, <3>1, <3>2, NotConnected, ThreadMoves
  <2> QED
      BY <1>6, <2>2, <2>3, Zenon DEF PickListed
<1>7. CASE StartHousekeeping
  <2>1. IsTask(task') /\ task'.phase = "house" /\ task.step # "wait"
      BY <1>7, Zenon DEF StartHousekeeping, Idle, IsTask, TaskFields
  <2> QED
      BY <1>7, <2>1, ThreadMoves, Zenon DEF StartHousekeeping, ListsOk
<1> QED
    BY <1>1, <1>2, <1>3, <1>4, <1>5, <1>6, <1>7

\* An attempt at a connection: refused, failed or begun.
LEMMA AttemptInv ==
    ASSUME NodeInv, SkipAtLimit \/ ConnectFails \/ Connect
    PROVE  NodeInv'
<1> USE DEF NodeInv
<1>1. CASE SkipAtLimit
  <2>1. IsTask(task') /\ task'.step \in {"loop", "pick"} /\ task.step = "connect"
      BY <1>1, FailedIsTask DEF SkipAtLimit
  <2> QED
      BY <1>1, <2>1, ThreadMoves DEF SkipAtLimit, ListsOk
<1>2. CASE ConnectFails
  <2>1. IsTask(task') /\ task'.step \in {"loop", "pick"} /\ task.step = "connect"
      BY <1>2, FailedIsTask DEF ConnectFails
  <2>2. ListsOk'
      BY <1>2, AnchorsLeft DEF ConnectFails, AfterFail, ListsOk
  <2> QED
      BY <1>2, <2>1, <2>2, ThreadMoves DEF ConnectFails
<1>3. CASE Connect
  <2>1. PICK s \in Free :
          /\ conns' = [conns EXCEPT ![s] =
               Connection(host[task.na], task.na, IF task.phase = "house" THEN "house" ELSE "peer")]
          /\ task' = [task EXCEPT !.step = "wait", !.slot = s, !.hsh = "pending"]
      BY <1>3, Zenon DEF Connect
  <2> DEFINE c == Connection(host[task.na], task.na, IF task.phase = "house" THEN "house" ELSE "peer")
  <2>2. /\ s \in Slot /\ DOMAIN c = ConnFields /\ c.id = None /\ c.addr = task.na
        /\ c.kind = "peer" => task.phase # "house"
      BY DEF Free, Connection, ConnFields
  <2>3. conns' = [conns EXCEPT ![s] = c]
      BY <2>1
  <2> HIDE DEF c
  <2>4. /\ DOMAIN conns' = Slot /\ conns'[s] = c
        /\ \A t \in Slot \ {s} : conns'[t] = conns[t]
      BY <2>2, <2>3 DEF AreConns
  <2>5. /\ task.step = "connect" /\ ~stop /\ ~stop' /\ ListsOk'
      BY <1>3, Zenon DEF Connect, ListsOk
  <2>6. IsTask(task') /\ task'.step = "wait"
      BY <2>1, <2>5 DEF IsTask, TaskFields
  <2>7. AreConns(conns')
      BY <2>2, <2>4 DEF AreConns
  <2>8. OneConnection'
    <3>1. \A t \in Open' \ {s} : t \in Open /\ conns'[t] = conns[t]
        BY <2>4 DEF Open
    <3>2. \A t \in Open' \ {s} :
            ~(conns'[s].kind = "peer" /\ conns'[t].kind = "peer" /\ conns'[t].addr = conns'[s].addr)
        BY <2>2, <2>4, <2>5, <3>1 DEF ChosenIsNew, PeerTo, Open, Alive
    <3> QED
        BY <3>1, <3>2 DEF OneConnection
  <2>9. SelfDropped'
      BY <2>2, <2>4, <2>5, NodeAssumption DEF IsTask, SelfDropped, Open
  <2> QED
      BY <2>5, <2>6, <2>7, <2>8, <2>9 DEF NoneAfterStop, ChosenIsNew
<1> QED
    BY <1>1, <1>2, <1>3

\* The thread goes on after a handshake.
LEMMA DoneInv ==
    ASSUME NodeInv, HandshakeDone
    PROVE  NodeInv'
<1> USE DEF NodeInv
<1>1. /\ task.step = "wait" /\ task.hsh # "pending" /\ stop' = stop /\ disk' = disk
    BY DEF HandshakeDone
<1>2. ASSUME ListsOk', IsTask(task'), task'.step \in {"loop", "pick"}, Fewer(conns, conns'),
             \A s \in Slot : Alive(conns', s) => conns'[s].id # Me
      PROVE  NodeInv'
  <2>1. AreConns(conns') /\ NoneAfterStop'
      BY <1>1, <1>2 DEF Fewer, NoneAfterStop
  <2>2. OneConnection'
      BY <1>2 DEF Fewer, OneConnection, Open, Alive
  <2>3. ChosenIsNew' /\ SelfDropped'
      BY <1>2 DEF ChosenIsNew, SelfDropped, Open, Alive
  <2> QED
      BY <1>2, <2>1, <2>2, <2>3
<1>3. ASSUME task.hsh # "bad", Fewer(conns, conns')
      PROVE  \A s \in Slot : Alive(conns', s) => conns'[s].id # Me
    BY <1>3 DEF Fewer, SelfDropped, Open, Alive
<1>4. CASE /\ task.hsh # "ok"
           /\ conns' = IF task.hsh = "timeout" THEN conns ELSE Closed(conns, {task.slot})
           /\ peers' = AfterFail(peers) /\ task' = Failed
  <2>1. ListsOk'
      BY <1>1, <1>4, AnchorsLeft DEF AfterFail, ListsOk
  <2>2. IsTask(task') /\ task'.step \in {"loop", "pick"}
      BY <1>1, <1>4, FailedIsTask
  <2>3. Fewer(conns, conns')
      BY <1>4, ClosedIsFewer, FewerSelf
  <2>4. ASSUME task.hsh = "bad"
        PROVE  \A s \in Slot : Alive(conns', s) => conns'[s].id # Me
    <3>1. conns' = Closed(conns, {task.slot})
        BY <1>4, <2>4
    <3>2. \A s \in Slot : s = task.slot => ~Alive(conns', s)
        BY <3>1, ClosedIsFewer
    <3> QED
        BY <2>3, <3>2 DEF Fewer, SelfDropped, Open, Alive
  <2> QED
      BY <1>2, <1>3, <2>1, <2>2, <2>3, <2>4
<1>5. CASE /\ task.hsh = "ok" /\ conns' = Closed(conns, {task.slot})
           /\ peers' = SetPeerJustSeen(peers, task.na) /\ task' = Idle
  <2>1. ListsOk'
      BY <1>1, <1>5, AnchorsLeft, Zenon DEF ListsOk
  <2>2. IsTask(task') /\ task'.step \in {"loop", "pick"}
      BY <1>5 DEF IsTask, Idle, TaskFields
  <2>3. Fewer(conns, conns')
      BY <1>5, ClosedIsFewer
  <2> QED
      BY <1>2, <1>3, <1>5, <2>1, <2>2, <2>3
<1>6. CASE /\ task.hsh = "ok" /\ task.phase # "house" /\ conns' = conns
           /\ peers' = AppendAnchor(AppendWhite(peers, task.na, TRUE), task.na)
           /\ task' = [task EXCEPT !.step = IF task.phase = "listed" THEN "pick" ELSE "loop",
                                !.na = None, !.slot = None, !.hsh = "none", !.todo =
                                  IF task.phase = "listed" THEN @ ELSE {}]
  <2>1. ListsOk'
    <3>1. IsLists(AppendWhite(peers, task.na, TRUE)) /\ task.na \in Addr
        BY <1>1, <1>6, AnchorsLeft, Zenon DEF ListsOk, IsTask
    <3> QED
        BY <1>1, <1>6, <3>1, AnchorsChanged, Zenon DEF ListsOk
  <2>2. IsTask(task') /\ task'.step \in {"loop", "pick"}
      BY <1>1, <1>6 DEF IsTask, TaskFields
  <2>3. Fewer(conns, conns')
      BY <1>6, FewerSelf
  <2> QED
      BY <1>2, <1>3, <1>6, <2>1, <2>2, <2>3
<1> QED
    BY <1>4, <1>5, <1>6, Zenon DEF HandshakeDone

-----------------------------------------------------------------------------
\* The steps of the threads of the network

LEMMA NowIs ==
    ASSUME NodeInv, NEW cs, AreConns(cs)
    PROVE  IsNow(Now) /\ IsNow([Now EXCEPT !.conns = cs])
           /\ Now.conns = conns /\ Now.peers = peers /\ [Now EXCEPT !.conns = cs].conns = cs
BY DEF Now, IsNow, NodeInv, ListsOk

\* Connections ds that are left are what add_host_fail finds.
LEMMA FailInv ==
    ASSUME NodeInv, NEW ds, Fewer(conns, ds), NEW h, NEW a, NEW points,
           Become(AddHostFail([Now EXCEPT !.conns = ds], h, a, points)), disk' = disk
    PROVE  ListsOk' /\ Fewer(conns, conns')
<1> DEFINE n == [Now EXCEPT !.conns = ds]
           m == AddHostFail(n, h, a, points)
<1>1. IsNow(n) /\ n.conns = ds
    BY NowIs DEF Fewer
<1> HIDE DEF n
<1>2. IsNow(m) /\ Fewer(ds, m.conns)
    BY <1>1, AddHostFailEffect
<1>3. peers' = m.peers /\ conns' = m.conns
    BY DEF Become, n
<1> HIDE DEF m
<1> QED
    BY <1>2, <1>3, FewerAgain DEF NodeInv, ListsOk, IsNow

\* What merge_peerlist and the rest of handle_remote_peerlist make of the lists.
LEMMA MergedAnchors ==
    ASSUME NEW p, IsLists(p), NEW list, NEW a
    PROVE  /\ IsLists(Merged(p, list)) /\ Merged(p, list).anchor = p.anchor
           /\ IsLists(SetPeerJustSeen(p, a)) /\ SetPeerJustSeen(p, a).anchor = p.anchor
           /\ IsLists(SetPeerJustSeen(Merged(p, list), a))
           /\ SetPeerJustSeen(Merged(p, list), a).anchor = p.anchor
<1>1. IsLists(Merged(p, list)) /\ Merged(p, list).anchor = p.anchor
    BY AnchorsLeft DEF Merged
<1>2. \A q : IsLists(q) => IsLists(SetPeerJustSeen(q, a)) /\ SetPeerJustSeen(q, a).anchor = q.anchor
    BY AnchorsLeft
<1> QED
    BY <1>1, <1>2

LEMMA ReplyInv ==
    ASSUME NodeInv, NEW s \in Slot, HandshakeReply(s)
    PROVE  NodeInv'
<1> USE DEF NodeInv
<1>1. /\ task.step = "wait" /\ task.slot = s /\ task.hsh = "pending" /\ s \in Open
      /\ UNCHANGED <<disk, stop>>
    BY DEF HandshakeReply, Waiting
<1>2. CASE task' = [task EXCEPT !.hsh = "bad"] /\ UNCHANGED <<peers, conns>>
    BY <1>1, <1>2, FewerSelf, ConnectionsGo DEF ListsOk
<1>3. CASE /\ Become(AddHostFail(Now, conns[s].host, conns[s].addr, 1))
           /\ task' = [task EXCEPT !.hsh = "bad"]
  <2>1. Now = [Now EXCEPT !.conns = conns]
      BY DEF Now
  <2>2. ListsOk' /\ Fewer(conns, conns')
      BY <1>1, <1>3, <2>1, FewerSelf, FailInv
  <2> QED
      BY <1>1, <1>3, <2>2, ConnectionsGo
<1>4. ASSUME NEW list, peers' = Merged(peers, list), UNCHANGED conns,
             NEW v \in {"ok", "bad"}, task' = [task EXCEPT !.hsh = v]
      PROVE  NodeInv'
  <2>1. ListsOk'
      BY <1>1, <1>4, MergedAnchors DEF ListsOk
  <2> QED
      BY <1>1, <1>4, <2>1, FewerSelf, ConnectionsGo
<1>5. ASSUME NEW list, peers' = SetPeerJustSeen(Merged(peers, list), task.na),
             conns' = [conns EXCEPT ![s].id = task.na],
             task' = [task EXCEPT !.hsh = Recognised(task.na)]
      PROVE  NodeInv'
  <2>1. ListsOk'
      BY <1>1, <1>5, MergedAnchors DEF ListsOk
  <2>2. DOMAIN conns[s] = ConnFields
      BY <1>1 DEF Open, AreConns
  <2>3. /\ DOMAIN conns' = Slot /\ \A t \in Slot \ {s} : conns'[t] = conns[t]
        /\ conns'[s] = [conns[s] EXCEPT !.id = task.na]
      BY <1>5 DEF AreConns
  <2>4. /\ DOMAIN conns'[s] = ConnFields /\ conns'[s].id = task.na
        /\ conns'[s].addr = conns[s].addr /\ conns'[s].kind = conns[s].kind
      BY <2>2, <2>3 DEF ConnFields
  <2>5. AreConns(conns')
      BY <2>3, <2>4 DEF AreConns
  <2> QED
      BY <1>1, <1>5, <2>1, <2>3, <2>4, <2>5, PeerIsKnown, Zenon
<1>6. QED
    BY <1>2, <1>3, <1>4, <1>5, Zenon DEF HandshakeReply

LEMMA HandleHandshakeInv ==
    ASSUME NodeInv, NEW s \in Slot, NEW a \in Addr, HandleHandshake(s, a)
    PROVE  NodeInv'
<1> USE DEF NodeInv
<1>1. s \in Open /\ UNCHANGED <<disk, stop, task>>
    BY DEF HandleHandshake, Incoming
<1>2. Fewer(conns, Closed(conns, {s}))
    BY ClosedIsFewer
<1>3. CASE Become(AddHostFail([Now EXCEPT !.conns = Closed(conns, {s})], conns[s].host, None, 1))
  <2>1. ListsOk' /\ Fewer(conns, conns')
      BY <1>1, <1>2, <1>3, FailInv
  <2> QED
      BY <1>1, <2>1, ConnectionsGo
<1>4. CASE conns' = Closed(conns, {s}) /\ UNCHANGED peers
    BY <1>1, <1>2, <1>4, ConnectionsGo DEF ListsOk
<1>5. CASE a # Me /\ conns' = [conns EXCEPT ![s].id = a, ![s].sync = FALSE] /\ UNCHANGED peers
  <2>1. DOMAIN conns[s] = ConnFields
      BY <1>1 DEF Open, AreConns
  <2>2. /\ DOMAIN conns' = Slot /\ \A t \in Slot \ {s} : conns'[t] = conns[t]
        /\ conns'[s] = [[conns[s] EXCEPT !.id = a] EXCEPT !.sync = FALSE]
      BY <1>5 DEF AreConns
  <2>3. /\ DOMAIN conns'[s] = ConnFields /\ conns'[s].id = a
        /\ conns'[s].addr = conns[s].addr /\ conns'[s].kind = conns[s].kind
      BY <2>1, <2>2 DEF ConnFields
  <2>4. AreConns(conns')
      BY <2>2, <2>3, Zenon DEF AreConns
  <2> QED
      BY <1>1, <1>5, <2>2, <2>3, <2>4, PeerIsKnown, Zenon DEF ListsOk
<1> QED
    BY <1>3, <1>4, <1>5, Zenon DEF HandleHandshake

\* A connection is no longer asked for a sync.
LEMMA SyncAnswered ==
    ASSUME NEW cs, AreConns(cs), NEW s \in Slot, cs[s] # None
    PROVE  Fewer(cs, [cs EXCEPT ![s].sync = FALSE])
<1> DEFINE ds == [cs EXCEPT ![s].sync = FALSE]
<1>1. DOMAIN cs = Slot /\ DOMAIN cs[s] = ConnFields
    BY DEF AreConns
<1>2. /\ DOMAIN ds = Slot /\ \A t \in Slot \ {s} : ds[t] = cs[t]
      /\ ds[s] = [cs[s] EXCEPT !.sync = FALSE]
    BY <1>1
<1> HIDE DEF ds
<1>3. /\ DOMAIN ds[s] = ConnFields /\ ds[s].id = cs[s].id /\ ds[s].up = cs[s].up
      /\ ds[s].addr = cs[s].addr /\ ds[s].kind = cs[s].kind
    BY <1>1, <1>2 DEF ConnFields
<1>4. AreConns(ds)
    BY <1>2, <1>3 DEF AreConns
<1>5. \A t \in Slot : Alive(ds, t) =>
        /\ Alive(cs, t) /\ ds[t].addr = cs[t].addr /\ ds[t].kind = cs[t].kind /\ ds[t].id = cs[t].id
    BY <1>2, <1>3, Zenon DEF Alive
<1> QED
    BY <1>4, <1>5, Zenon DEF Fewer, ds

LEMMA TimedSyncInv ==
    ASSUME NodeInv, NEW s \in Slot, TimedSyncReply(s)
    PROVE  NodeInv'
<1> USE DEF NodeInv
<1> DEFINE c == conns[s]
           cs == [conns EXCEPT ![s].sync = FALSE]
           n == [Now EXCEPT !.conns[s].sync = FALSE]
           fail == AddHostFail([n EXCEPT !.conns = Closed(@, {s})], c.host, c.addr, 1)
           tell(list) == [n EXCEPT !.peers = Merged(@, list)]
           end(m, refuse) ==
             [m EXCEPT !.peers = IF c.kind = "in" THEN @ ELSE SetPeerJustSeen(@, c.addr),
                       !.conns = IF refuse THEN Closed(@, {s}) ELSE @]
<1>1. s \in Open /\ UNCHANGED <<disk, stop, task>>
    BY DEF TimedSyncReply
<1>2. PICK list \in Gossip, spam \in BOOLEAN, refuse \in BOOLEAN :
        Become(end(IF spam THEN fail ELSE tell(list), refuse))
    BY Zenon DEF TimedSyncReply
<1>3. Fewer(conns, cs)
    BY <1>1, SyncAnswered DEF Open
<1>4. n = [Now EXCEPT !.conns = cs]
    BY DEF Now
<1> HIDE DEF cs
<1>5. IsNow(n) /\ n.conns = cs
    BY <1>3, <1>4, NowIs, Zenon DEF Fewer
<1> HIDE DEF n
<1>6. IsNow(fail) /\ Fewer(conns, fail.conns)
  <2> DEFINE k == [n EXCEPT !.conns = Closed(@, {s})]
  <2>1. IsNow(k) /\ Fewer(cs, k.conns)
    <3>1. Fewer(cs, Closed(cs, {s}))
        BY <1>3, ClosedIsFewer DEF Fewer
    <3> QED
        BY <1>5, <3>1 DEF IsNow, Fewer
  <2> HIDE DEF k
  <2>2. IsNow(AddHostFail(k, c.host, c.addr, 1)) /\ Fewer(k.conns, AddHostFail(k, c.host, c.addr, 1).conns)
      BY <2>1, AddHostFailEffect
  <2> QED
      BY <1>3, <2>1, <2>2, FewerAgain DEF k
<1>7. IsNow(tell(list)) /\ Fewer(conns, tell(list).conns)
    BY <1>3, <1>5, MergedAnchors DEF IsNow
<1> HIDE DEF fail, tell
<1>8. ASSUME NEW m, IsNow(m), Fewer(conns, m.conns)
      PROVE  IsLists(end(m, refuse).peers) /\ Fewer(conns, end(m, refuse).conns)
  <2>1. /\ end(m, refuse).peers = IF c.kind = "in" THEN m.peers ELSE SetPeerJustSeen(m.peers, c.addr)
        /\ end(m, refuse).conns = IF refuse THEN Closed(m.conns, {s}) ELSE m.conns
      BY <1>8 DEF IsNow
  <2>2. IsLists(SetPeerJustSeen(m.peers, c.addr))
      BY <1>8, MergedAnchors DEF IsNow
  <2>3. Fewer(conns, Closed(m.conns, {s}))
      BY <1>8, ClosedIsFewer, FewerAgain DEF IsNow
  <2> QED
      BY <1>8, <2>1, <2>2, <2>3 DEF IsNow
<1> HIDE DEF end
<1>9. ListsOk' /\ Fewer(conns, conns')
    BY <1>1, <1>2, <1>6, <1>7, <1>8 DEF Become, ListsOk
<1> QED
    BY <1>1, <1>9, ConnectionsGo

\* The other steps of the network.
LEMMA NetworkInv ==
    ASSUME NodeInv, Network
    PROVE  NodeInv'
<1> USE DEF NodeInv
<1>1. ASSUME NEW s \in Slot, HandshakeTimeout(s) PROVE NodeInv'
  <2>1. Fewer(conns, conns') /\ ListsOk'
      BY <1>1, ClosedIsFewer DEF HandshakeTimeout, ListsOk
  <2> QED
      BY <1>1, <2>1, ConnectionsGo DEF HandshakeTimeout, Waiting
<1>2. ASSUME NEW s \in Slot, ConnectionClosed(s) PROVE NodeInv'
  <2>1. ListsOk'
      BY <1>2, AnchorsChanged DEF ConnectionClosed, ListsOk
  <2>2. DOMAIN conns' = Slot /\ conns'[s] = None /\ \A t \in Slot \ {s} : conns'[t] = conns[t]
      BY <1>2 DEF ConnectionClosed, AreConns
  <2>3. Fewer(conns, conns')
      BY <2>2 DEF Fewer, AreConns, Alive
  <2>4. /\ stop' = stop
        /\ \/ task' = task
           \/ Waiting(s) /\ task' = [task EXCEPT !.hsh = "timeout"]
      BY <1>2 DEF ConnectionClosed
  <2> QED
      BY <2>1, <2>3, <2>4, ConnectionsGo DEF Waiting
<1>3. ASSUME NEW s \in Slot, UnexpectedHandshake(s) PROVE NodeInv'
  <2>1. Fewer(conns, Closed(conns, {s}))
      BY ClosedIsFewer
  <2>2. [Now EXCEPT !.conns = Closed(@, {s})] = [Now EXCEPT !.conns = Closed(conns, {s})]
      BY DEF Now
  <2>3. ListsOk' /\ Fewer(conns, conns')
      BY <1>3, <2>1, <2>2, FailInv DEF UnexpectedHandshake
  <2> QED
      BY <1>3, <2>3, ConnectionsGo DEF UnexpectedHandshake
<1>4. ASSUME NEW s \in Slot, PingReply(s) PROVE NodeInv'
  <2>1. ListsOk'
    <3>1. IsLists(AppendWhite(peers, conns[s].addr, TRUE))
        BY AnchorsLeft, Zenon DEF ListsOk
    <3> QED
        BY <1>4, <3>1, Zenon DEF PingReply, ListsOk
  <2> QED
      BY <1>4, <2>1, ClosedIsFewer, ConnectionsGo DEF PingReply
<1>5. ASSUME NEW s \in Slot, PayloadDrop(s) PROVE NodeInv'
  <2> DEFINE ds == Closed(conns, {s})
             n == [Now EXCEPT !.conns = ds]
  <2>1. Fewer(conns, ds)
      BY ClosedIsFewer
  <2>2. [Now EXCEPT !.conns = Closed(@, {s})] = n
      BY DEF Now
  <2>3. UNCHANGED <<task, disk, stop>>
      BY <1>5 DEF PayloadDrop
  <2>4. PICK points \in {0, 1, 5} :
          Become(IF points = 0 THEN n ELSE AddHostFail(n, conns[s].host, conns[s].addr, points))
      BY <1>5, <2>2 DEF PayloadDrop
  <2>5. CASE points = 0
    <3>1. Become(n)
        BY <2>4, <2>5
    <3>2. peers' = peers /\ conns' = ds
        BY <3>1 DEF Become, Now
    <3> QED
        BY <2>1, <2>3, <3>2, ConnectionsGo DEF ListsOk
  <2>6. CASE points # 0
    <3>1. Become(AddHostFail(n, conns[s].host, conns[s].addr, points))
        BY <2>4, <2>6
    <3> HIDE DEF ds
    <3>2. ListsOk' /\ Fewer(conns, conns')
        BY <2>1, <2>3, <3>1, FailInv
    <3> QED
        BY <2>3, <3>2, ConnectionsGo
  <2> QED
      BY <2>5, <2>6
<1>6. ASSUME NEW h \in Host, Accept(h) PROVE NodeInv'
  <2>1. PICK s \in Free : conns' = [conns EXCEPT ![s] = Connection(h, None, "in")]
      BY <1>6, Zenon DEF Accept
  <2> QED
      BY <1>6, <2>1, OtherConnects, Zenon DEF Accept, ListsOk
<1>7. ASSUME NEW a \in Addr, PingConnect(a) PROVE NodeInv'
  <2>1. CASE UNCHANGED conns
      BY <1>7, <2>1, FewerSelf, ConnectionsGo DEF PingConnect, ListsOk
  <2>2. ASSUME NEW s \in Free, ~stop, conns' = [conns EXCEPT ![s] = Connection(host[a], a, "ping")]
        PROVE  NodeInv'
      BY <1>7, <2>2, OtherConnects, Zenon DEF PingConnect, ListsOk
  <2> QED
      BY <1>7, <2>1, <2>2 DEF PingConnect
<1> QED
    BY <1>1, <1>2, <1>3, <1>4, <1>5, <1>6, <1>7, ReplyInv, HandleHandshakeInv, TimedSyncInv
    DEF Network

-----------------------------------------------------------------------------
\* Start, stop, the file, and the rest

LEMMA StartedInv ==
    ASSUME NEW p, IsLists(p), IsLists(disk'), Started(p)
    PROVE  NodeInv'
<1>1. IsLists(Load(p))
    BY AnchorsLeft
<1>2. IsLists(AddCommandLine(Load(p)))
    BY <1>1, AnchorsLeft
<1>3. ListsOk'
    BY <1>2 DEF Started, ListsOk
<1>4. conns' = [s \in Slot |-> None] /\ task' = Idle /\ stop' = FALSE
    BY DEF Started
<1>5. IsTask(task') /\ task'.step = "loop"
    BY <1>4 DEF IsTask, Idle, TaskFields
<1>6. AreConns(conns') /\ \A s \in Slot : ~Alive(conns', s)
    BY <1>4 DEF AreConns, Alive
<1>7. Open' = {}
    BY <1>6 DEF Open, Alive
<1> QED
    BY <1>3, <1>4, <1>5, <1>6, <1>7 DEF NodeInv, NoneAfterStop, OneConnection, ChosenIsNew, SelfDropped

LEMMA InitInv == Init => NodeInv
<1> SUFFICES ASSUME Init PROVE NodeInv
    OBVIOUS
<1>0. IsLists(Stored)
    BY NodeAssumption DEF IsLists
<1>1. IsLists(Load(Stored))
    BY <1>0, AnchorsLeft
<1>2. IsLists(AddCommandLine(Load(Stored)))
    BY <1>1, AnchorsLeft
<1>3. ListsOk
    BY <1>0, <1>2 DEF Init, ListsOk
<1>4. conns = [s \in Slot |-> None] /\ task = Idle /\ stop = FALSE
    BY DEF Init
<1>5. IsTask(task) /\ task.step = "loop"
    BY <1>4 DEF IsTask, Idle, TaskFields
<1>6. AreConns(conns) /\ \A s \in Slot : ~Alive(conns, s)
    BY <1>4 DEF AreConns, Alive
<1>7. Open = {}
    BY <1>6 DEF Open, Alive
<1> QED
    BY <1>3, <1>4, <1>5, <1>6, <1>7 DEF NodeInv, NoneAfterStop, OneConnection, ChosenIsNew, SelfDropped

\* peer_sync_idle_maker marks connections.
LEMMA PeerSyncInv ==
    ASSUME NodeInv, PeerSync
    PROVE  NodeInv'
<1> USE DEF NodeInv
<1>1. PICK S \in SUBSET Open :
        conns' = [s \in Slot |-> IF s \in S THEN [conns[s] EXCEPT !.sync = TRUE] ELSE conns[s]]
    BY Zenon DEF PeerSync
<1>2. ASSUME NEW s \in Slot
      PROVE  /\ conns'[s] # None => DOMAIN conns'[s] = ConnFields
             /\ Alive(conns', s) =>
                  /\ Alive(conns, s) /\ conns'[s].addr = conns[s].addr
                  /\ conns'[s].kind = conns[s].kind /\ conns'[s].id = conns[s].id
  <2>1. CASE s \in S
    <3>1. conns'[s] = [conns[s] EXCEPT !.sync = TRUE] /\ conns[s] # None /\ DOMAIN conns[s] = ConnFields
        BY <1>1, <2>1 DEF Open, AreConns
    <3>2. Alive(conns, s)
        BY <2>1 DEF Open, Alive
    <3> QED
        BY <3>1, <3>2 DEF ConnFields
  <2>2. CASE s \notin S
    <3>1. conns'[s] = conns[s]
        BY <1>1, <2>2
    <3> QED
        BY <3>1 DEF AreConns, Alive
  <2> QED
      BY <2>1, <2>2
<1>3. DOMAIN conns' = Slot
    BY <1>1
<1>4. Fewer(conns, conns')
    BY <1>2, <1>3 DEF Fewer, AreConns
<1> QED
    BY <1>4, ConnectionsGo DEF PeerSync, ListsOk

LEMMA OthersInv ==
    ASSUME NodeInv,
           \/ StartStore \/ FinishStore \/ CountPeers
           \/ \E h \in Host : Ban(h) \/ Unblock(h) \/ Forget(h)
           \/ Stop \/ Restart \/ Crash
    PROVE  NodeInv'
<1> USE DEF NodeInv
<1>1. CASE StartStore
  <2>1. IsTask(task') /\ task'.step = "loop" /\ task.step # "wait"
      BY <1>1 DEF StartStore, Idle, IsTask, TaskFields
  <2>2. ListsOk'
      BY <1>1, AnchorsChanged DEF StartStore, ListsOk
  <2> QED
      BY <1>1, <2>1, <2>2, ThreadMoves DEF StartStore
<1>2. CASE FinishStore
  <2>1. IsTask(task') /\ task'.step = "loop" /\ task.step # "wait"
      BY <1>2 DEF FinishStore, Idle, IsTask, TaskFields
  <2> QED
      BY <1>2, <2>1, ThreadMoves DEF FinishStore, ListsOk
<1>3. CASE CountPeers
    BY <1>3, FewerSelf, ConnectionsGo DEF CountPeers, ListsOk
<1>4. ASSUME NEW h \in Host, Ban(h) PROVE NodeInv'
  <2>1. IsNow(Now) /\ Now.conns = conns
      BY NowIs, Zenon
  <2>2. IsNow(BlockHost(Now, h, None)) /\ Fewer(conns, BlockHost(Now, h, None).conns)
      BY <2>1, BlockHostEffect
  <2>3. ListsOk' /\ Fewer(conns, conns')
      BY <1>4, <2>2 DEF Ban, Become, IsNow, ListsOk
  <2> QED
      BY <1>4, <2>3, ConnectionsGo DEF Ban
<1>5. ASSUME NEW h \in Host, Unblock(h) \/ Forget(h) PROVE NodeInv'
    BY <1>5, FewerSelf, ConnectionsGo DEF Unblock, Forget, ListsOk
<1>6. CASE Stop
  <2>1. /\ Fewer(conns, conns') /\ \A s \in Slot : ~Alive(conns', s)
        /\ task' = task /\ ListsOk'
      BY <1>6, ClosedIsFewer DEF Stop, ListsOk
  <2>2. AreConns(conns') /\ NoneAfterStop' /\ Open' = {}
      BY <2>1 DEF Fewer, NoneAfterStop, Open, Alive
  <2> QED
      BY <2>1, <2>2 DEF OneConnection, ChosenIsNew, PeerTo, SelfDropped
<1>7. CASE Restart
    BY <1>7, StartedInv DEF Restart, ListsOk
<1>8. CASE Crash
    BY <1>8, StartedInv DEF Crash, ListsOk
<1> QED
    BY <1>1, <1>2, <1>3, <1>4, <1>5, <1>6, <1>7, <1>8

LEMMA NextInv ==
    ASSUME NodeInv, [Next]_vars
    PROVE  NodeInv'
<1>1. CASE IdleWorker
    BY <1>1, ChoiceInv, AttemptInv, DoneInv, PeerSyncInv, OthersInv DEF IdleWorker, Attempt
<1>2. CASE Network
    BY <1>2, NetworkInv
<1>3. CASE UNCHANGED vars
    BY <1>3, FewerSelf, ConnectionsGo DEF vars, NodeInv, ListsOk
<1> QED
    BY <1>1, <1>2, <1>3, OthersInv DEF Next

\* Whatever peers, users, timers and crashes do, connections_maker has one connection to an
\* address, though it comes upon the address as exclusive node, priority node, anchor, white and
\* gray; and a connection to this node itself ends with the attempt that made it.
THEOREM ConnectionsAreSound == Spec => [](OneConnection /\ SelfDropped)
<1>1. NodeInv => OneConnection /\ SelfDropped
    BY DEF NodeInv
<1> QED
    BY <1>1, InitInv, NextInv, PTL DEF Spec

\* A step that leaves the node stopped.
LEMMA AnchorsStep ==
    ASSUME NodeInv, Next, stop, stop', ~(task.phase = "anchor" /\ task.step = "loop"),
           blocked' = blocked
    PROVE  peers.anchor \subseteq peers'.anchor
<1>1. \A s \in Slot : s \notin Open
    BY DEF NodeInv, NoneAfterStop, Open, Alive
<1>2. IsLists(peers) /\ None \notin peers.anchor
    BY NodeAssumption DEF NodeInv, ListsOk, IsLists
<1>3. CASE UNCHANGED peers
    BY <1>3
<1>4. CASE Loop
    BY <1>4 DEF Loop
<1>5. CASE ConnectFails \/ HandshakeDone
  <2>1. AfterFail(peers).anchor = peers.anchor
      BY <1>2, AnchorsLeft DEF AfterFail
  <2>2. SetPeerJustSeen(peers, task.na).anchor = peers.anchor
      BY <1>2, MergedAnchors
  <2>3. ASSUME task.phase # "house", task.step = "wait"
        PROVE  peers.anchor \subseteq AppendAnchor(AppendWhite(peers, task.na, TRUE), task.na).anchor
    <3>1. task.na \in Addr
        BY <2>3 DEF NodeInv, IsTask
    <3>2. /\ IsLists(AppendWhite(peers, task.na, TRUE))
          /\ AppendWhite(peers, task.na, TRUE).anchor = peers.anchor
        BY <1>2, AnchorsLeft, Zenon DEF SetPeerJustSeen
    <3> QED
        BY <3>1, <3>2, AnchorsChanged, Zenon
  <2> QED
      BY <1>5, <2>1, <2>2, <2>3, Zenon DEF ConnectFails, HandshakeDone
<1>6. ASSUME NEW s \in Slot, ConnectionClosed(s)
      PROVE  peers.anchor \subseteq peers'.anchor
  <2>1. peers' = RemoveAnchor(peers, None)
      BY <1>6 DEF ConnectionClosed, ForgottenAnchor
  <2> QED
      BY <1>2, <2>1, AnchorsChanged
<1>7. ASSUME NEW s \in Slot, NEW a \in Addr,
             \/ HandshakeReply(s) \/ HandshakeTimeout(s) \/ UnexpectedHandshake(s) \/ PingReply(s)
             \/ TimedSyncReply(s) \/ PayloadDrop(s) \/ HandleHandshake(s, a)
      PROVE  FALSE
    BY <1>1, <1>7, Zenon DEF HandshakeReply, HandshakeTimeout, UnexpectedHandshake, PingReply,
         TimedSyncReply, PayloadDrop, HandleHandshake, Incoming, Outgoing
<1>8. ASSUME NEW h \in Host, Ban(h) PROVE FALSE
  <2>1. blocked' = blocked \cup {h}
      BY <1>8 DEF Ban, Become, BlockHost, Now
  <2> QED
      BY <1>8, <2>1 DEF Ban
<1>9. ~Restart /\ ~Crash
    BY DEF Restart, Crash, Started
<1>10. CASE \/ StartConnectionsMaker \/ NextListed \/ PickAnchor \/ GiveUpList
            \/ \E a \in Addr : PickListed(a)
            \/ SkipAtLimit \/ Connect \/ StartHousekeeping \/ StartStore \/ FinishStore \/ PeerSync
    BY <1>3, <1>10, Zenon DEF StartConnectionsMaker, NextListed, PickAnchor, GiveUpList, PickListed,
         SkipAtLimit, Connect, StartHousekeeping, StartStore, FinishStore, PeerSync
<1>11. CASE \/ CountPeers \/ Stop \/ \E h \in Host : Accept(h) \/ Unblock(h) \/ Forget(h)
            \/ \E a \in Addr : PingConnect(a)
    BY <1>3, <1>11 DEF CountPeers, Stop, Accept, Unblock, Forget, PingConnect
<1> QED
    BY <1>4, <1>5, <1>6, <1>7, <1>8, <1>9, <1>10, <1>11, NodeAssumption
    DEF Next, IdleWorker, Network, Attempt

\* Once the node was told to stop, no step loses an anchor: the connections that are closed then,
\* and destroyed one by one, leave their addresses in the list, and what is still under way only
\* adds to it.  The exceptions are the loop over the anchors that takes the list before it looks
\* for the stop signal, and a host that an operator blocks.
THEOREM AnchorsAreKept == Spec => AnchorsSurviveStop
<1>1. ASSUME NodeInv, [Next]_vars
      PROVE  [stop /\ stop' /\ ~(task.phase = "anchor" /\ task.step = "loop") /\ blocked' = blocked
                => peers.anchor \subseteq peers'.anchor]_vars
    BY <1>1, AnchorsStep
<1> QED
    BY <1>1, InitInv, NextInv, PTL DEF Spec, AnchorsSurviveStop
=============================================================================
