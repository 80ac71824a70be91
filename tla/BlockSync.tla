------------------------------ MODULE BlockSync ------------------------------
(***************************************************************************)
(* Synchronisation with peers: what the protocol handler keeps for each    *)
(* connection, the queue of downloaded spans of blocks, and the threads    *)
(* that add them to the chain, one at a time because of m_sync_lock.       *)
(*                                                                         *)
(* Each connection is served by a thread of its own.  The part of a        *)
(* handler up to try_add_next_blocks is one step, and so are each round of *)
(* its loop, and the part after the loop, which asks for more.  Requests   *)
(* to a peer and its answers are in order; a peer answers from the chain   *)
(* it has, as handle_request_chain and handle_request_get_objects do.      *)
(* Core is reduced to the blocks it has; a longer chain is a heavier one.  *)
(***************************************************************************)
EXTENDS BlockTree, Sequences, FiniteSetsExt, Functions

CONSTANTS
  Peer,
  top,           \* [Peer -> Block]: the last block of the chain of a peer
  Faulty,        \* peers that may send blocks or transactions that do not verify
  Unreliable,    \* peers to which connections may break or be slow
  SpanSize,      \* BLOCKS_SYNCHRONIZING_SIZE
  IdsMax,        \* BLOCKS_IDS_SYNCHRONIZING_DEFAULT_COUNT
  MaxQueue,      \* bound on the spans in the queue while a thread adds blocks
  MaxCallbacks   \* bound on the callbacks that wait for a connection

ASSUME PeerAssumption ==
  /\ IsFiniteSet(Block)
  /\ top \in [Peer -> Block]
  /\ Faulty \subseteq Peer /\ Unreliable \subseteq Peer
  /\ SpanSize \in Nat \ {0} /\ IdsMax \in Nat \ {0, 1}
  /\ MaxQueue \in Nat \ {0} /\ MaxCallbacks \in Nat \ {0}

VARIABLES
  have,    \* the blocks that core has
  tip,     \* the last block of the main chain
  target,  \* get_target_blockchain_height
  queue,   \* m_block_queue
  ctx,     \* the context of the connection to each peer
  conn,    \* its connection_id, fresh for every connection
  net,     \* requests that the peer has not answered yet
  pc,      \* how far the thread of the connection got in try_add_next_blocks
  lock,    \* the peers whose thread holds m_sync_lock
  synced   \* m_synchronized

vars == <<have, tip, target, queue, ctx, conn, net, pc, lock, synced>>

ChainHeight == Height(tip) + 1

AnyHeight == Cardinality(Block) + 1

Heights == 0..AnyHeight

ConnId == 0..(MaxQueue + Cardinality(Peer))

\* What is wrong with the content of a span: a transaction that does not parse, or one that
\* does not verify or such a block.
Faults == {"none", "tx", "block"}

\* lastKnown: is m_last_known_hash the hash of an empty block, and not null?
Closed ==
  [state |-> "closed", needed |-> <<>>, requested |-> {}, remote |-> 0, lrh |-> 0,
   waiting |-> FALSE, callbacks |-> 0, lastKnown |-> FALSE, score |-> 0,
   expect |-> "none", expectHeight |-> 0]

Open(p) == ctx[p].state # "closed"

IsContext(c) ==
  /\ c.state \in {"closed", "synchronizing", "standby", "normal"}
  /\ c.needed \in Seq(Block)
  /\ c.requested \subseteq Block
  /\ c.remote \in Heights /\ c.lrh \in Heights /\ c.expectHeight \in Heights
  /\ c.waiting \in BOOLEAN /\ c.lastKnown \in BOOLEAN
  /\ c.callbacks \in 0..(MaxCallbacks + 2)
  /\ c.score \in -1..0
  /\ c.expect \in {"none", "chain", "objects"}

TypeOK ==
  /\ have \in SUBSET Block /\ tip \in have
  /\ target \in Heights
  /\ queue \in Seq([start : Heights, blocks : Seq(Block), peer : Peer, id : ConnId,
                    fault : Faults])
  /\ \A p \in Peer : IsContext(ctx[p])
  /\ conn \in [Peer -> ConnId]
  /\ pc \in [Peer -> {"idle", "try", "adding", "leave", "ask", "force"}]
  /\ lock \in SUBSET Peer
  /\ synced \in BOOLEAN

Init ==
  /\ have = {Genesis} /\ tip = Genesis
  /\ target = 0
  /\ queue = <<>>
  /\ ctx = [p \in Peer |-> Closed]
  /\ conn = [p \in Peer |-> 0]
  /\ net = [p \in Peer |-> <<>>]
  /\ pc = [p \in Peer |-> "idle"]
  /\ lock = {}
  /\ synced = FALSE

-----------------------------------------------------------------------------
\* block_queue

AddBlocks(blocks, p, fault) ==
  Append(queue, [start |-> Height(Head(blocks)), blocks |-> blocks, peer |-> p, id |-> conn[p],
                 fault |-> fault])

\* The elements of q at the indices in K, in their order.
Kept(q, K) ==
  LET nth(i) == CHOOSE n \in K : Cardinality({m \in K : m <= n}) = i
  IN  [i \in 1..Cardinality(K) |-> q[nth(i)]]

MutRemoveBatches(q, s) ==
  Kept(q, {n \in DOMAIN q :
             ~(q[n].peer = s.peer /\ q[n].id = s.id /\ q[n].start < s.start)})

\* remove_batches_from_connection, for a batch and those before it.
RemoveBatches(q, s) ==
  Kept(q, {n \in DOMAIN q :
             ~(q[n].peer = s.peer /\ q[n].id = s.id /\ q[n].start <= s.start)})

\* remove_batches_from_connection, for all batches of the open connection to a peer.
RemoveAll(q, p) ==
  Kept(q, {n \in DOMAIN q : ~(Open(p) /\ q[n].peer = p /\ q[n].id = conn[p])})

\* The connection that a batch came from is still open.
FromOpen(s) == Open(s.peer) /\ conn[s.peer] = s.id

HasNextBatch == queue # <<>> /\ Head(queue).start <= ChainHeight

\* reserve_blocks: how many of the needed blocks to ask for.
Reserved(c) ==
  IF c.needed = <<>> \/ Len(c.needed) > c.lrh THEN 0 ELSE Min({Len(c.needed), SpanSize})

-----------------------------------------------------------------------------
\* What a peer answers.

BlockAt(b, h) == CHOOSE a \in path[b] : Height(a) = h

\* find_blockchain_supplement: the last block of our chain that the peer has too.
Common(p) ==
  CHOOSE b \in path[tip] \cap path[top[p]] :
    \A a \in path[tip] \cap path[top[p]] : Height(a) <= Height(b)

Ids(p, from) ==
  [i \in 1..Min({IdsMax, Height(top[p]) - Height(from) + 1}) |->
     BlockAt(top[p], Height(from) + i - 1)]

-----------------------------------------------------------------------------
\* request_missing_objects

\* skip_unneeded_hashes
Leading(c) ==
  Max({0} \cup {i \in 1..Len(c.needed) : \A j \in 1..i : c.needed[j] \in have})

SkipUnneeded(c) == [c EXCEPT !.needed = SubSeq(@, Leading(c) + 1, Len(@))]

FirstNeeded(c) == c.lrh - Len(c.needed) + 1

Failure == [ok |-> FALSE, c |-> Closed, send |-> <<>>]

Success(c, send) == [ok |-> TRUE, c |-> c, send |-> send]

AskObjects(c, blocks, h) ==
  Success([c EXCEPT !.waiting = TRUE, !.expect = "objects", !.expectHeight = h],
          <<[type |-> "objects", blocks |-> blocks, from |-> Genesis]>>)

\* The span at the front of the queue is asked for, but none of its blocks.
AskNext(c) == AskObjects(c, <<>>, Head(queue).start)

AskSpan(c) ==
  LET n == Reserved(c)
      blocks == SubSeq(c.needed, 1, n)
  IN  AskObjects([c EXCEPT !.requested = @ \cup Range(blocks),
                           !.needed = SubSeq(@, n + 1, Len(@))],
                 blocks, FirstNeeded(c))

AskChain(p, c, h) ==
  Success([c EXCEPT !.waiting = TRUE, !.expect = "chain", !.expectHeight = h],
          <<[type |-> "chain", blocks |-> <<>>, from |-> Common(p)]>>)

\* From the label "skip" on; free: nobody holds m_sync_lock.
AskMore(p, c, free) ==
  IF ChainHeight < target /\ free /\ queue # <<>>
    THEN Success([c EXCEPT !.state = "standby", !.callbacks = @ + 1], <<>>)
  ELSE IF c.lrh < c.remote - 1
    THEN AskChain(p, c, IF c.lastKnown THEN AnyHeight ELSE ChainHeight)
  ELSE IF c.lrh = c.remote - 1 /\ c.requested = {}
    THEN Success([c EXCEPT !.state = "normal"], <<>>)
  ELSE Failure

\* m_num_requested is never anything but zero.
RequestMissing(p, c, force, free) ==
  LET k == SkipUnneeded(c)
      none == [c EXCEPT !.needed = <<>>]
  IN  CASE force /\ queue # <<>> -> AskNext(c)
        [] c.needed = <<>> /\ ~(force /\ queue # <<>>) -> AskMore(p, none, free)
        [] c.needed # <<>> /\ ~(force /\ queue # <<>>) ->
             IF c.lrh + 1 < Len(c.needed) THEN AskMore(p, [none EXCEPT !.lrh = 0], free)
             ELSE IF k.needed = <<>> THEN Failure
             ELSE IF Reserved(k) > 0 THEN AskSpan(k)
             ELSE IF ~force /\ queue # <<>> THEN AskNext(k)
             ELSE AskMore(p, none, free)

\* on_connection_close takes the target from the connections that are left.
TargetWithout(S) ==
  Min({target, Max({0} \cup {ctx[q].remote : q \in {r \in Peer \ S : Open(r)}})})

CloseAll(S) ==
  /\ ctx' = [q \in Peer |-> IF q \in S THEN Closed ELSE ctx[q]]
  /\ net' = [q \in Peer |-> IF q \in S THEN <<>> ELSE net[q]]
  /\ target' = TargetWithout(S)

\* on_connection_synchronized is called.
Synchronized(c) ==
  c.state = "normal" /\ c.remote >= target /\ ChainHeight >= target

\* The connection to p asks for more, after the requests in sent, or is dropped.
GoOn(p, c, force, sent, seen) ==
  \E r \in {RequestMissing(p, c, force, lock = {})} :
    IF Open(p) /\ r.ok
      THEN /\ ctx' = [ctx EXCEPT ![p] = r.c]
           /\ net' = [net EXCEPT ![p] = sent \o r.send]
           /\ target' = Max({target, seen})
           /\ synced' = (synced \/ Synchronized(r.c))
      ELSE CloseAll({p}) /\ UNCHANGED synced

-----------------------------------------------------------------------------
\* Connections

MutKnown(p) == Height(top[p]) < ChainHeight

\* have_block(hshd.top_id)
Known(p) == top[p] \in have

\* process_payload_sync_data
SyncData(p, c, initial) ==
  LET remote == Height(top[p]) + 1
      t == IF target = 0 THEN ChainHeight ELSE target
  IN  /\ ctx' = [ctx EXCEPT ![p] =
                   [c EXCEPT !.remote = remote,
                             !.state = IF Known(p) THEN "normal" ELSE "synchronizing",
                             !.callbacks = IF Known(p) THEN @ ELSE @ + 1]]
      /\ target' = IF ~Known(p) /\ remote > t THEN remote ELSE target
      /\ synced' = (synced \/ (Known(p) /\ initial /\ remote >= t /\ t = ChainHeight))

Connect(p) ==
  /\ ~Open(p) /\ pc[p] = "idle"
  /\ SyncData(p, Closed, TRUE)
  /\ conn' = [conn EXCEPT ![p] = Min(ConnId \ {x.id : x \in {s \in Range(queue) : s.peer = p}})]
  /\ UNCHANGED <<have, tip, queue, net, pc, lock>>

TimedSync(p) ==
  /\ ctx[p].state \in {"standby", "normal"} /\ pc[p] = "idle"
  /\ ctx[p].callbacks < MaxCallbacks
  /\ SyncData(p, ctx[p], FALSE)
  /\ UNCHANGED <<have, tip, queue, conn, net, pc, lock>>

Close(p) ==
  /\ p \in Unreliable /\ Open(p)
  /\ CloseAll({p})
  /\ UNCHANGED <<have, tip, queue, conn, pc, lock, synced>>

\* A connection that kick_idle_peers spares once.
Spared(c) ==
  LET quiet == [c EXCEPT !.waiting = FALSE, !.expect = "none", !.expectHeight = 0]
  IN  [quiet EXCEPT !.score = @ - 1, !.state = "standby", !.callbacks = @ + 1]

KickIdle(p) ==
  /\ p \in Unreliable
  /\ ctx[p].state = "synchronizing" /\ ctx[p].waiting
  /\ IF ctx[p].score >= 0
       THEN ctx' = [ctx EXCEPT ![p] = Spared(@)] /\ UNCHANGED <<net, target>>
       ELSE CloseAll({p})
  /\ UNCHANGED <<have, tip, queue, conn, pc, lock, synced>>

CheckStandby(p) ==
  /\ ctx[p].state = "standby" /\ ctx[p].callbacks < MaxCallbacks
  /\ ctx' = [ctx EXCEPT ![p].callbacks = @ + 1]
  /\ UNCHANGED <<have, tip, target, queue, conn, net, pc, lock, synced>>

OnCallback(p) ==
  /\ ctx[p].callbacks > 0 /\ pc[p] = "idle"
  /\ LET c == [ctx[p] EXCEPT !.callbacks = @ - 1]
         r == AskChain(p, [c EXCEPT !.needed = <<>>], ChainHeight)
     IN  \/ /\ c.state = "synchronizing" /\ ~c.waiting
            /\ ctx' = [ctx EXCEPT ![p] = r.c]
            /\ net' = [net EXCEPT ![p] = @ \o r.send]
            /\ UNCHANGED pc
         \/ /\ c.state = "standby"
            /\ ctx' = [ctx EXCEPT ![p] = [c EXCEPT !.state = "synchronizing"]]
            /\ pc' = [pc EXCEPT ![p] = "try"]
            /\ UNCHANGED net
         \/ /\ c.state = "normal" \/ (c.state = "synchronizing" /\ c.waiting)
            /\ ctx' = [ctx EXCEPT ![p] = c]
            /\ UNCHANGED <<net, pc>>
  /\ UNCHANGED <<have, tip, target, queue, conn, lock, synced>>

-----------------------------------------------------------------------------
\* Answers

Answered(p, type) ==
  pc[p] = "idle" /\ net[p] # <<>> /\ Head(net[p]).type = type

WrongChain(p, from, ids) ==
  \/ ctx[p].expect # "chain"
  \/ Height(from) + 1 > ctx[p].expectHeight
  \/ from \notin have
  \/ \E i, j \in DOMAIN ids : i < j /\ ids[i] \notin have /\ ids[j] \in have

MutHeard(p, from, ids) ==
  [ctx[p] EXCEPT !.expect = "none", !.waiting = FALSE, !.remote = Height(top[p]) + 1,
                 !.lrh = Height(from) + Len(ids), !.needed = ids]

\* The context after an answer with hashes.
Heard(p, from, ids) ==
  [ctx[p] EXCEPT !.expect = "none", !.waiting = FALSE, !.remote = Height(top[p]) + 1,
                 !.lrh = Height(from) + Len(ids) - 1, !.needed = ids]

HandleResponseChainEntry(p) ==
  /\ Answered(p, "chain")
  /\ \E from \in {Head(net[p]).from} : \E ids \in {Ids(p, from)} :
       IF WrongChain(p, from, ids)
         THEN CloseAll({p}) /\ UNCHANGED synced
         ELSE \E c \in {Heard(p, from, ids)} : GoOn(p, c, FALSE, Tail(net[p]), c.remote)
  /\ UNCHANGED <<have, tip, queue, conn, pc, lock>>

WrongObjects(p, blocks) ==
  \/ ctx[p].expect # "objects"
  \/ blocks = <<>>
  \/ Height(Head(blocks)) > ctx[p].expectHeight
  \/ Range(blocks) # ctx[p].requested

\* The context after an answer with blocks.
Delivered(p) ==
  [ctx[p] EXCEPT !.expect = "none", !.waiting = FALSE, !.remote = Height(top[p]) + 1,
                 !.requested = {}, !.lastKnown = TRUE]

HandleResponseGetObjects(p) ==
  /\ Answered(p, "objects")
  /\ Len(queue) < MaxQueue + (IF lock = {} THEN Cardinality(Peer) ELSE 0)
  /\ LET blocks == Head(net[p]).blocks
         remote == Height(top[p]) + 1
     IN  IF WrongObjects(p, blocks)
           THEN CloseAll({p}) /\ UNCHANGED <<queue, pc>>
           ELSE /\ \E f \in IF p \in Faulty THEN Faults ELSE {"none"} :
                     queue' = AddBlocks(blocks, p, f)
                /\ ctx' = [ctx EXCEPT ![p] = Delivered(p)]
                /\ net' = [net EXCEPT ![p] = Tail(@)]
                /\ target' = Max({target, remote})
                /\ pc' = [pc EXCEPT ![p] = "try"]
  /\ UNCHANGED <<have, tip, conn, lock, synced>>

-----------------------------------------------------------------------------
\* try_add_next_blocks

TryLock(p) ==
  /\ pc[p] = "try"
  /\ IF lock = {}
       THEN lock' = {p} /\ pc' = [pc EXCEPT ![p] = "adding"]
       ELSE pc' = [pc EXCEPT ![p] = "ask"] /\ UNCHANGED lock
  /\ UNCHANGED <<have, tip, target, queue, ctx, conn, net, synced>>

Unlock(p, next) == lock' = {} /\ pc' = [pc EXCEPT ![p] = next]

Adding(p) == pc[p] = "adding" /\ queue # <<>>

Span == Head(queue)

\* Its last block is known: an old span.
OldSpan == Span.blocks[Len(Span.blocks)] \in have

OrphanSpan == ~OldSpan /\ parent[Head(Span.blocks)] \notin have

GoodSpan == ~OldSpan /\ ~OrphanSpan

\* prepare_handle_incoming_blocks parses the transactions of blocks on top of the chain.
Unprepared ==
  /\ Span.fault = "tx"
  /\ parent[Head(Span.blocks)] = tip /\ Range(Span.blocks) \cap have = {}

AddedUpTo(n) ==
  LET new == {Span.blocks[i] : i \in 1..n}
  IN  /\ have' = have \cup new
      /\ tip' = IF \E b \in new : Height(b) > Height(tip)
                  THEN Span.blocks[n] ELSE tip

SkipOld(p) ==
  /\ Adding(p) /\ OldSpan
  /\ queue' = RemoveBatches(queue, Span)
  /\ UNCHANGED <<have, tip, target, ctx, conn, net, pc, lock, synced>>

SkipOrphan(p) ==
  /\ Adding(p) /\ OrphanSpan
  /\ queue' = RemoveBatches(queue, Span)
  /\ ctx' = IF Open(p) THEN [ctx EXCEPT ![p] = [@ EXCEPT !.needed = <<>>, !.lrh = 0]] ELSE ctx
  /\ Unlock(p, "ask")
  /\ UNCHANGED <<have, tip, target, conn, net, synced>>

AddSpan(p) ==
  /\ Adding(p) /\ GoodSpan /\ Span.fault = "none"
  /\ AddedUpTo(Len(Span.blocks))
  /\ queue' = RemoveBatches(queue, Span)
  /\ UNCHANGED <<target, ctx, conn, net, pc, lock, synced>>

\* The connections to the host of a span that fails to be prepared are dropped.
PrepareFails(p) ==
  /\ Adding(p) /\ GoodSpan /\ Unprepared
  /\ queue' = RemoveAll(queue, Span.peer)
  /\ CloseAll({Span.peer})
  /\ Unlock(p, "idle")
  /\ UNCHANGED <<have, tip, conn, synced>>

\* A transaction or a block of the span fails verification.
AddFails(p) ==
  /\ Adding(p) /\ GoodSpan /\ Span.fault # "none" /\ ~Unprepared
  /\ \E n \in 0..(Len(Span.blocks) - 1) : AddedUpTo(n)
  /\ queue' = RemoveBatches(RemoveAll(queue, Span.peer), Span)
  /\ CloseAll({Span.peer})
  /\ Unlock(p, "idle")
  /\ UNCHANGED <<conn, synced>>

NoSpan(p) ==
  /\ pc[p] = "adding" /\ queue = <<>>
  /\ pc' = [pc EXCEPT ![p] = "leave"]
  /\ UNCHANGED <<have, tip, target, queue, ctx, conn, net, lock, synced>>

\* should_download_next_batch
ShouldDownload(p) == ctx[p].remote > ChainHeight /\ ~HasNextBatch

Leave(p) ==
  /\ pc[p] = "leave"
  /\ Unlock(p, IF ShouldDownload(p) THEN "force" ELSE "ask")
  /\ UNCHANGED <<have, tip, target, queue, ctx, conn, net, synced>>

Ask(p) ==
  /\ pc[p] \in {"ask", "force"}
  /\ GoOn(p, ctx[p], pc[p] = "force", net[p], 0)
  /\ pc' = [pc EXCEPT ![p] = "idle"]
  /\ UNCHANGED <<have, tip, queue, conn, lock>>

\* The log line of AskNext reads the first of no blocks, which is undefined: the
\* node crashes, or the request goes out as in Ask.
Crash(p) ==
  /\ pc[p] = "force" /\ queue # <<>>
  /\ target' = 0 /\ queue' = <<>> /\ lock' = {} /\ synced' = FALSE
  /\ ctx' = [q \in Peer |-> Closed]
  /\ net' = [q \in Peer |-> <<>>]
  /\ pc' = [q \in Peer |-> "idle"]
  /\ UNCHANGED <<have, tip, conn>>

Adds(p) ==
  \/ TryLock(p) \/ SkipOld(p) \/ SkipOrphan(p) \/ AddSpan(p)
  \/ PrepareFails(p) \/ AddFails(p) \/ NoSpan(p) \/ Leave(p) \/ Ask(p)

Handles(p) ==
  \/ Adds(p) \/ OnCallback(p)
  \/ HandleResponseChainEntry(p) \/ HandleResponseGetObjects(p)

Next ==
  \E p \in Peer :
    \/ Connect(p) \/ TimedSync(p) \/ Close(p) \/ KickIdle(p) \/ CheckStandby(p)
    \/ Crash(p) \/ Handles(p)

Spec == Init /\ [][Next]_vars

\* Peers that are not faulty are connected to again; answers arrive and threads run;
\* timers go off.  Strong fairness, because MaxQueue holds back answers and the code does not.
FairSpec ==
  /\ Spec
  /\ \A p \in Peer :
       /\ SF_vars(Handles(p))
       /\ WF_vars(TimedSync(p))
       /\ WF_vars(CheckStandby(p))
  /\ \A p \in Peer \ Faulty : WF_vars(Connect(p))

-----------------------------------------------------------------------------

(***************************************************************************)
(* request_missing_objects computes the height of the next needed block    *)
(* from m_last_response_height and the number of hashes left, and the      *)
(* answer is checked against it: it is the height of that block, whatever  *)
(* was skipped, requested or added by others in between.                   *)
(***************************************************************************)
NeededAligned ==
  \A p \in Peer : \A i \in DOMAIN ctx[p].needed :
    Height(ctx[p].needed[i]) = FirstNeeded(ctx[p]) + i - 1

(***************************************************************************)
(* A connection that is synchronizing has a request out that               *)
(* kick_idle_peers watches, a callback to come or a thread at work: nothing *)
(* else would ever wake it up, as process_payload_sync_data leaves a       *)
(* synchronizing connection alone.                                         *)
(***************************************************************************)
NotStalled(p) ==
  (ctx[p].state = "synchronizing" /\ pc[p] = "idle") => ctx[p].waiting \/ ctx[p].callbacks > 0

(***************************************************************************)
(* try_add_next_blocks promises "Then, we go back to download".  The only  *)
(* step that does not, and leaves the connection it works for stalled, is  *)
(* one that meets a span with a bad transaction or block, whoever sent it. *)
(***************************************************************************)
StallsOnBadSpan ==
  [][\A p \in Peer :
       (NotStalled(p) /\ ~NotStalled(p)') => Adding(p) /\ Span.fault # "none"]_vars

(***************************************************************************)
(* A thread that is done with the span at the front of the queue, added or *)
(* not, removes it "so other threads can wake up": no thread meets it      *)
(* again, unless it fails to be prepared after its connection has closed.  *)
(***************************************************************************)
SpanConsumed ==
  [][\A p \in Peer :
       (Adding(p) /\ Adds(p)) =>
         \/ Span \notin Range(queue')
         \/ Unprepared /\ ~FromOpen(Span)]_vars

(***************************************************************************)
(* When the node declares itself synchronized, no open connection claims a *)
(* longer chain, though targets go down with the connections that close    *)
(* and chains of other peers are added in between.                         *)
(***************************************************************************)
SynchronizedOk ==
  [][(synced' /\ ~synced) => \A q \in Peer : ctx'[q].remote <= ChainHeight']_vars

(***************************************************************************)
(* What a step of one connection does to the queue, to the others and to   *)
(* the state of the node.                                                  *)
(***************************************************************************)
StepsSound == StallsOnBadSpan /\ SpanConsumed /\ SynchronizedOk

(***************************************************************************)
(* If connections break, time out or crash the node only so often (hosts   *)
(* that send bad spans are blocked by add_host_fail), and bad spans are    *)
(* met only by the thread that received them, on a connection that is      *)
(* still open, the node gets the chains of all peers that send valid       *)
(* blocks, whatever the others send.                                       *)
(***************************************************************************)
EventuallySynced ==
  /\ [](\A p \in Peer : (Adding(p) /\ Span.fault # "none") => Span.peer = p /\ FromOpen(Span))
  /\ <>[][\A p \in Peer :
            ~(Close(p) \/ KickIdle(p) \/ Crash(p) \/ PrepareFails(p) \/ AddFails(p))]_vars
  => <>[](\A p \in Peer \ Faulty : top[p] \in have)
=============================================================================
