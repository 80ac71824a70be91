--------------------------- MODULE DatabaseProofs ---------------------------
(***************************************************************************)
(* Proofs about Database, for any number of writers and readers: one batch *)
(* at a time, and no resize under an open transaction.                     *)
(***************************************************************************)
EXTENDS Database, FiniteSetTheorems, TLAPS

Writing == {"write", "commit", "abort", "end"}

Places == Writing \cup {"idle", "start", "resize", "drain", "begin", "read", "guard"}

\* The threads whose transaction num_active_txns counts.
Counted == {t \in Thread : pc[t] \in Writing \cup {"read"}}

\* Where the threads may be: a writer that is not idle holds the pool lock.
Held ==
  /\ pc \in [Thread -> Places]
  /\ \A t \in Reader : pc[t] \in {"idle", "read", "guard"}
  /\ \A t \in Writer : pc[t] \notin {"read", "guard"} /\ (pc[t] # "idle" => lock = t)

\* A thread between batch_start and the end of its batch is m_writer.
Owned ==
  \A t \in Writer :
    /\ pc[t] \in {"resize", "drain", "begin"} => m_writer = t
    /\ pc[t] \in Writing => m_batch_active /\ m_writer = t

Own == BatchIsOwn /\ (m_batch_active => m_writer \in Writer)

Count == active = Cardinality(Counted)

BatchInv == Held /\ Owned /\ Own /\ Count

LEMMA ThreadsFinite == IsFiniteSet(Thread)
  BY ThreadAssumption, FS_Union DEF Thread

LEMMA CountedFinite ==
  /\ IsFiniteSet(Counted) /\ Cardinality(Counted) \in Nat
  /\ Cardinality(Counted) = 0 <=> Counted = {}
<1>1. IsFiniteSet(Counted)
  BY ThreadsFinite, FS_Subset DEF Counted
<1> QED
  BY <1>1, FS_CardinalityType, FS_EmptySet

\* What a move of one thread does to the count.
LEMMA CountMove ==
  ASSUME pc \in [Thread -> Places], NEW t \in Thread, NEW p, pc' = [pc EXCEPT ![t] = p]
  PROVE  LET was == pc[t] \in Writing \cup {"read"}
             is == p \in Writing \cup {"read"}
         IN  Cardinality(Counted') =
               Cardinality(Counted) + (IF is THEN 1 ELSE 0) - (IF was THEN 1 ELSE 0)
<1> DEFINE is == p \in Writing \cup {"read"}
           was == pc[t] \in Writing \cup {"read"}
<1>1. Counted' = (IF is THEN Counted \cup {t} ELSE Counted \ {t}) /\ (was <=> t \in Counted)
  BY DEF Counted
<1>2. IsFiniteSet(Counted) /\ Cardinality(Counted) \in Nat
  BY CountedFinite
<1> HIDE DEF is, was
<1>3. CASE is /\ was
  <2>1. Counted' = Counted
    BY <1>1, <1>3
  <2> QED
    BY <1>2, <1>3, <2>1 DEF is, was
<1>4. CASE is /\ ~was
  <2>1. Cardinality(Counted \cup {t}) = Cardinality(Counted) + 1
    BY <1>1, <1>2, <1>4, FS_AddElement
  <2> QED
    BY <1>1, <1>2, <1>4, <2>1 DEF is, was
<1>5. CASE ~is /\ was
  <2>1. Cardinality(Counted \ {t}) = Cardinality(Counted) - 1
    BY <1>1, <1>2, <1>5, FS_RemoveElement
  <2> QED
    BY <1>1, <1>2, <1>5, <2>1 DEF is, was
<1>6. CASE ~is /\ ~was
  <2>1. Counted' = Counted
    BY <1>1, <1>6
  <2> QED
    BY <1>2, <1>6, <2>1 DEF is, was
<1> QED
  BY <1>3, <1>4, <1>5, <1>6 DEF is, was

\* A writer that holds the lock moves: only what the step says of itself, of
\* the lock, of the batch and of the count has to be looked at.
LEMMA WriterMoves ==
  ASSUME BatchInv, NEW t \in Writer, NEW p \in Places \ {"read", "guard"},
         pc[t] # "idle", pc' = [pc EXCEPT ![t] = p],
         lock' = t \/ (lock' = None /\ p = "idle"),
         p \in {"resize", "drain", "begin"} => m_writer' = t,
         p \in Writing <=> m_batch_active', m_batch_active' <=> m_write_txn',
         m_batch_active' => m_writer' = t /\ lock' = t,
         active' = active + (IF p \in Writing THEN 1 ELSE 0) - (IF pc[t] \in Writing THEN 1 ELSE 0)
  PROVE  BatchInv'
<1> USE DEF Places, Writing
<1>1. t \in Thread /\ pc \in [Thread -> Places] /\ lock = t /\ pc[t] \notin {"read", "guard"}
  BY DEF BatchInv, Held, Thread
<1>2. \A u \in Writer \ {t} : pc[u] = "idle" /\ pc'[u] = "idle"
  BY <1>1 DEF BatchInv, Held, Thread
<1>3. pc'[t] = p
  BY <1>1
<1>4. Held'
  BY <1>1, <1>2, <1>3, ThreadAssumption DEF BatchInv, Held, Thread
<1>5. Owned'
  BY <1>2, <1>3 DEF Owned
<1>6. Own'
  BY <1>3 DEF Own, BatchIsOwn
<1>7. Count'
  <2>1. active = Cardinality(Counted) /\ Cardinality(Counted) \in Nat
    BY CountedFinite DEF BatchInv, Count
  <2> HIDE DEF Writing
  <2>2. Cardinality(Counted') =
          Cardinality(Counted) + (IF p \in Writing \cup {"read"} THEN 1 ELSE 0)
                               - (IF pc[t] \in Writing \cup {"read"} THEN 1 ELSE 0)
    BY <1>1, CountMove
  <2> QED
    BY <1>1, <2>1, <2>2 DEF Count
<1> QED
  BY <1>4, <1>5, <1>6, <1>7 DEF BatchInv

\* A reader moves, and touches nothing but the count.
LEMMA ReaderMoves ==
  ASSUME BatchInv, NEW t \in Reader, NEW p \in {"idle", "read", "guard"},
         pc' = [pc EXCEPT ![t] = p],
         UNCHANGED <<lock, m_writer, m_batch_active, m_write_txn>>,
         active' = active + (IF p = "read" THEN 1 ELSE 0) - (IF pc[t] = "read" THEN 1 ELSE 0)
  PROVE  BatchInv'
<1> USE DEF Places, Writing
<1>1. t \in Thread /\ pc \in [Thread -> Places] /\ pc[t] \in {"idle", "read", "guard"}
  BY DEF BatchInv, Held, Thread
<1>2. \A u \in Writer : pc'[u] = pc[u]
  BY <1>1, ThreadAssumption DEF Thread
<1>3. Held'
  BY <1>1, <1>2 DEF BatchInv, Held, Thread
<1>4. Owned' /\ Own'
  BY <1>2 DEF BatchInv, Owned, Own, BatchIsOwn
<1>5. Count'
  <2>1. active = Cardinality(Counted) /\ Cardinality(Counted) \in Nat
    BY CountedFinite DEF BatchInv, Count
  <2> HIDE DEF Writing
  <2>2. Cardinality(Counted') =
          Cardinality(Counted) + (IF p \in Writing \cup {"read"} THEN 1 ELSE 0)
                               - (IF pc[t] \in Writing \cup {"read"} THEN 1 ELSE 0)
    BY <1>1, CountMove
  <2> QED
    BY <1>1, <2>1, <2>2 DEF Count, Writing
<1> QED
  BY <1>3, <1>4, <1>5 DEF BatchInv

LEMMA NothingMoves ==
  ASSUME BatchInv, UNCHANGED <<pc, lock, m_writer, m_batch_active, m_write_txn, active>>
  PROVE  BatchInv'
BY DEF BatchInv, Held, Owned, Own, BatchIsOwn, Count, Counted

LEMMA BatchInit == Init => BatchInv
<1> SUFFICES ASSUME Init PROVE BatchInv
  OBVIOUS
<1>1. Counted = {}
  BY DEF Init, Counted, Writing
<1> QED
  BY <1>1, FS_EmptySet, ThreadAssumption
     DEF Init, BatchInv, Held, Owned, Own, BatchIsOwn, Count, Thread, Places, Writing

\* The work of a batch leaves the batch and its owner alone.
LEMMA WorkMoves ==
  ASSUME BatchInv, NEW t \in Writer, Work(t)
  PROVE  BatchInv'
<1>1. /\ pc[t] = "write"
      /\ UNCHANGED <<lock, m_writer, m_batch_active, m_write_txn, active>>
      /\ UNCHANGED pc \/ pc' = [pc EXCEPT ![t] = "end"] \/ pc' = [pc EXCEPT ![t] = "abort"]
  <2>1. CASE \E b \in Block, r \in Room \cup {Ample} : AddBlock(t, b, r)
    BY <2>1 DEF AddBlock, Working, At, Goto, Unmoved, gateVars
  <2>2. CASE \E back \in BOOLEAN, r \in Room \cup {Ample} : PopBlock(t, back, r)
    <3>1. PICK back \in BOOLEAN, r \in Room \cup {Ample} : PopBlock(t, back, r)
      BY <2>2
    <3>2. UNCHANGED pc \/ pc' = [pc EXCEPT ![t] = IF job[t] = "pop" THEN "abort" ELSE "end"]
      BY <3>1 DEF PopBlock, Goto
    <3> QED
      BY <3>1, <3>2 DEF PopBlock, Working, At, Unmoved, gateVars
  <2>3. CASE \E b \in AltBlock : AddAltBlock(t, b) \/ RemoveAltBlock(t, b)
    BY <2>3 DEF AddAltBlock, RemoveAltBlock, Working, At, Unmoved, gateVars
  <2>4. CASE \E x \in PoolTx, r \in Room \cup {Ample} : PoolWrite(t, x, r)
    BY <2>4 DEF PoolWrite, Working, At, Goto, Unmoved, gateVars
  <2>5. CASE \E h \in Peek : ReadOwn(t, h)
    BY <2>5 DEF ReadOwn, At, Unmoved, gateVars
  <2> QED
    BY <2>1, <2>2, <2>3, <2>4, <2>5 DEF Work
<1>2. lock = t /\ m_batch_active /\ m_write_txn /\ m_writer = t /\ active \in Nat
  BY <1>1, CountedFinite DEF BatchInv, Held, Owned, Own, BatchIsOwn, Writing, Count
<1>3. CASE UNCHANGED pc
  BY <1>1, <1>3, NothingMoves
<1>4. ASSUME NEW p \in {"end", "abort"}, pc' = [pc EXCEPT ![t] = p] PROVE BatchInv'
  <2>1. /\ p \in Places \ {"read", "guard"} /\ p \in Writing
        /\ p \notin {"resize", "drain", "begin"} /\ p # "idle"
        /\ pc[t] \in Writing /\ pc[t] # "idle"
    BY <1>1 DEF Places, Writing
  <2>2. m_batch_active' /\ m_write_txn' /\ m_writer' = t /\ lock' = t
    BY <1>1, <1>2
  <2>3. active' = active + 1 - 1
    BY <1>1, <1>2
  <2> QED
    BY <1>4, <2>1, <2>2, <2>3, WriterMoves
<1> QED
  BY <1>1, <1>3, <1>4

\* One step per action, each from the move it makes.
LEMMA BatchStep == BatchInv /\ [Next]_vars => BatchInv'
<1> SUFFICES ASSUME BatchInv, [Next]_vars PROVE BatchInv'
  OBVIOUS
<1> USE DEF At, Goto
<1>0. active \in Nat
  BY CountedFinite DEF BatchInv, Count
<1>w. ASSUME NEW t \in Writer, pc[t] # "idle"
      PROVE  /\ lock = t
             /\ pc[t] \in Writing => m_batch_active /\ m_write_txn /\ m_writer = t
             /\ pc[t] \notin Writing => ~m_batch_active /\ ~m_write_txn
             /\ pc[t] \in {"resize", "drain", "begin"} => m_writer = t
  BY <1>w DEF BatchInv, Held, Owned, Own, BatchIsOwn, Writing
<1>1. CASE InitGenesis
  BY <1>1, NothingMoves DEF InitGenesis, gateVars
<1>2. ASSUME NEW t \in Writer, NEW j \in Jobs, Enter(t, j) PROVE BatchInv'
  <2>1. /\ pc[t] = "idle" /\ lock = None /\ lock' = t
        /\ pc' = [pc EXCEPT ![t] = "start"]
        /\ UNCHANGED <<m_writer, m_batch_active, m_write_txn, active>>
    BY <1>2 DEF Enter, TakeLock, gateVars
  <2>2. \A u \in Writer : pc[u] = "idle"
    BY <2>1, ThreadAssumption DEF BatchInv, Held
  <2>3. t \in Thread /\ pc \in [Thread -> Places]
    BY DEF BatchInv, Held, Thread
  <2>4. ~m_batch_active /\ ~m_write_txn
    BY <2>2 DEF BatchInv, Own, BatchIsOwn
  <2>5. pc'[t] = "start" /\ \A u \in Thread \ {t} : pc'[u] = pc[u]
    BY <2>1, <2>3
  <2>6. Held'
    BY <2>1, <2>2, <2>3, <2>5, ThreadAssumption DEF BatchInv, Held, Thread, Places
  <2>7. Owned' /\ Own'
    BY <2>1, <2>2, <2>4, <2>5 DEF Owned, Own, BatchIsOwn, Thread, Writing
  <2>8. Counted' = Counted
    BY <2>1, <2>3, <2>5 DEF Counted, Writing
  <2> QED
    BY <2>1, <2>6, <2>7, <2>8 DEF BatchInv, Count
<1>3. ASSUME NEW t \in Writer, BatchStart(t) PROVE BatchInv'
  <2>1. pc[t] = "start" /\ lock = t /\ ~m_batch_active /\ ~m_write_txn
    BY <1>3, <1>w DEF BatchStart, Writing
  <2>2. /\ lock' = t /\ m_writer' = t /\ ~m_batch_active' /\ ~m_write_txn' /\ active' = active
        /\ pc' = [pc EXCEPT ![t] = "begin"] \/ pc' = [pc EXCEPT ![t] = "resize"]
    BY <1>3, <2>1 DEF BatchStart, gateVars
  <2>3. ASSUME NEW p \in {"begin", "resize"}, pc' = [pc EXCEPT ![t] = p] PROVE BatchInv'
    <3>1. /\ p \in Places \ {"read", "guard"} /\ p \notin Writing
          /\ pc[t] \notin Writing /\ pc[t] # "idle"
      BY <2>1 DEF Places, Writing
    <3>2. active' = active + 0 - 0
      BY <1>0, <2>2
    <3> QED
      BY <2>2, <2>3, <3>1, <3>2, WriterMoves
  <2> QED
    BY <2>2, <2>3
<1>4. ASSUME NEW t \in Writer, PreventNewTxns(t) PROVE BatchInv'
  <2>1. pc[t] = "resize" /\ lock = t /\ ~m_batch_active /\ ~m_write_txn /\ m_writer = t
    BY <1>4, <1>w DEF PreventNewTxns, Writing
  <2>2. /\ lock' = t /\ m_writer' = t /\ ~m_batch_active' /\ ~m_write_txn'
        /\ pc' = [pc EXCEPT ![t] = "drain"]
    BY <1>4, <2>1 DEF PreventNewTxns, writeVars
  <2>3. active' = active + 0 - 0
    BY <1>0, <1>4 DEF PreventNewTxns
  <2>4. "drain" \in Places \ {"read", "guard"} /\ "drain" \notin Writing /\ pc[t] \notin Writing
    BY <2>1 DEF Places, Writing
  <2> QED
    BY <2>1, <2>2, <2>3, <2>4, WriterMoves
<1>5. ASSUME NEW t \in Writer, SetMapSize(t) PROVE BatchInv'
  <2>1. pc[t] = "drain" /\ lock = t /\ ~m_batch_active /\ ~m_write_txn /\ m_writer = t
    BY <1>5, <1>w DEF SetMapSize, Writing
  <2>2. /\ lock' = t /\ m_writer' = t /\ ~m_batch_active' /\ ~m_write_txn'
        /\ pc' = [pc EXCEPT ![t] = "begin"]
    BY <1>5, <2>1 DEF SetMapSize, writeVars
  <2>3. active' = active + 0 - 0
    BY <1>0, <1>5 DEF SetMapSize
  <2>4. "begin" \in Places \ {"read", "guard"} /\ "begin" \notin Writing /\ pc[t] \notin Writing
    BY <2>1 DEF Places, Writing
  <2> QED
    BY <2>1, <2>2, <2>3, <2>4, WriterMoves
<1>6. ASSUME NEW t \in Writer, SetMapSizeFails(t) PROVE BatchInv'
  <2>1. pc[t] = "drain" /\ lock = t /\ ~m_batch_active /\ ~m_write_txn
    BY <1>6, <1>w DEF SetMapSizeFails, Writing
  <2>2. /\ lock' = t \/ lock' = None
        /\ ~m_batch_active' /\ ~m_write_txn'
        /\ pc' = [pc EXCEPT ![t] = "idle"]
    BY <1>6, <2>1 DEF SetMapSizeFails, writeVars
  <2>3. active' = active + 0 - 0
    BY <1>0, <1>6 DEF SetMapSizeFails
  <2>4. "idle" \in Places \ {"read", "guard"} /\ "idle" \notin Writing /\ pc[t] \notin Writing
    BY <2>1 DEF Places, Writing
  <2> QED
    BY <2>1, <2>2, <2>3, <2>4, WriterMoves
<1>7. ASSUME NEW t \in Writer, BeginBatch(t) PROVE BatchInv'
  <2>1. pc[t] = "begin" /\ lock = t /\ m_writer = t
    BY <1>7, <1>w DEF BeginBatch
  <2>2. /\ lock' = t /\ m_writer' = t /\ m_batch_active' /\ m_write_txn'
        /\ pc' = [pc EXCEPT ![t] = "write"]
    BY <1>7, <2>1 DEF BeginBatch
  <2>3. active' = active + 1 - 0
    BY <1>0, <1>7 DEF BeginBatch
  <2>4. "write" \in Places \ {"read", "guard"} /\ "write" \in Writing /\ pc[t] \notin Writing
    BY <2>1 DEF Places, Writing
  <2> QED
    BY <2>1, <2>2, <2>3, <2>4, WriterMoves
<1>8. ASSUME NEW t \in Writer, Stop(t) PROVE BatchInv'
  <2>1. pc[t] = "write" /\ pc[t] \in Writing
    BY <1>8 DEF Stop, Writing
  <2>2. lock = t /\ m_batch_active /\ m_write_txn /\ m_writer = t
    BY <1>w, <2>1
  <2>3. /\ lock' = t /\ m_batch_active' /\ m_write_txn' /\ m_writer' = t
        /\ pc' = [pc EXCEPT ![t] = IF job[t] = "pool" THEN "commit" ELSE "end"]
    BY <1>8, <2>2 DEF Stop, writeVars
  <2>4. active' = active + 1 - 1
    BY <1>0, <1>8 DEF Stop, gateVars
  <2>5. ASSUME NEW p \in {"commit", "end"}, pc' = [pc EXCEPT ![t] = p] PROVE BatchInv'
    <3>1. p \in Places \ {"read", "guard"} /\ p \in Writing
      BY DEF Places, Writing
    <3> QED
      BY <2>1, <2>3, <2>4, <2>5, <3>1, WriterMoves
  <2> QED
    BY <2>3, <2>5
<1>9. ASSUME NEW t \in Writer, BatchStop(t) \/ BatchAbort(t) PROVE BatchInv'
  <2>1. pc[t] \in Writing /\ pc[t] # "idle"
    BY <1>9 DEF BatchStop, BatchAbort, Writing
  <2>2. /\ lock' = None /\ ~m_batch_active' /\ ~m_write_txn' /\ active' = active - 1
        /\ pc' = [pc EXCEPT ![t] = "idle"]
    BY <1>9 DEF BatchStop, BatchAbort, Close
  <2>3. active' = active + 0 - 1
    BY <1>0, <2>2
  <2>4. "idle" \in Places \ {"read", "guard"} /\ "idle" \notin Writing
    BY DEF Places, Writing
  <2> QED
    BY <2>1, <2>2, <2>3, <2>4, WriterMoves
<1>10. ASSUME NEW t \in Reader, ReadBegin(t) PROVE BatchInv'
  <2>1. /\ pc[t] = "idle" /\ pc' = [pc EXCEPT ![t] = "read"] /\ active' = active + 1 - 0
        /\ UNCHANGED <<lock, m_writer, m_batch_active, m_write_txn>>
    BY <1>0, <1>10 DEF ReadBegin, writeVars
  <2> QED
    BY <2>1, ReaderMoves
<1>11. ASSUME NEW t \in Reader, ReadEnd(t) PROVE BatchInv'
  <2>1. /\ pc[t] = "read" /\ pc' = [pc EXCEPT ![t] = "idle"] /\ active' = active + 0 - 1
        /\ UNCHANGED <<lock, m_writer, m_batch_active, m_write_txn>>
    BY <1>0, <1>11 DEF ReadEnd, writeVars
  <2> QED
    BY <2>1, ReaderMoves
<1>12. ASSUME NEW t \in Reader, GuardBegin(t) \/ GuardEnd(t) PROVE BatchInv'
  BY <1>0, <1>12, ReaderMoves DEF GuardBegin, GuardEnd, writeVars, gateVars
<1>13. CASE Crash
  <2>1. Counted' = {}
    BY <1>13 DEF Crash, Counted, Writing
  <2> QED
    BY <1>13, <2>1, FS_EmptySet, ThreadAssumption
       DEF Crash, BatchInv, Held, Owned, Own, BatchIsOwn, Count, Thread, Places, Writing
<1>14. CASE UNCHANGED vars
  BY <1>14, NothingMoves DEF vars, writeVars, gateVars
<1> QED
  BY <1>1, <1>2, <1>3, <1>4, <1>5, <1>6, <1>7, <1>8, <1>9, <1>10, <1>11, <1>12, <1>13, <1>14,
     WorkMoves DEF Next, Step

\* A step that replaces the map is SetMapSize, which found the count zero.
LEMMA QuietStep ==
  ASSUME BatchInv, [Next]_vars, resizes' # resizes
  PROVE  /\ ~m_write_txn
         /\ \A t \in Thread : pc[t] \notin {"write", "commit", "abort", "end", "read"}
<1>1. \E t \in Writer : SetMapSize(t)
  <2>1. ASSUME NEW t \in Writer, Work(t) PROVE FALSE
    BY <2>1 DEF Work, AddBlock, PopBlock, AddAltBlock, RemoveAltBlock, PoolWrite, ReadOwn,
                Unmoved, gateVars
  <2> QED
    BY <2>1 DEF Next, Step, vars, InitGenesis, Enter, BatchStart, PreventNewTxns, SetMapSizeFails,
             BeginBatch, Stop, BatchStop, BatchAbort, Close, ReadBegin, ReadEnd, GuardBegin,
             GuardEnd, Crash, gateVars
<1>2. Counted = {}
  BY <1>1, CountedFinite DEF SetMapSize, Waited, BatchInv, Count
<1>3. \A t \in Thread : pc[t] \notin {"write", "commit", "abort", "end", "read"}
  BY <1>2 DEF Counted, Writing
<1> QED
  BY <1>3 DEF BatchInv, Own, BatchIsOwn, Thread

(* One batch at a time, and no resize under an open transaction, whatever  *)
(* the number of threads, of resizes and of restarts: whoever holds the    *)
(* pool lock finds no batch of another thread (LockedTXN), and do_resize   *)
(* replaces the map only when every counted transaction is over.           *)
THEOREM BatchesStayIsolated == Spec => BatchesIsolated
<1>1. BatchInv => BatchIsOwn
  BY DEF BatchInv, Own
<1>2. BatchInv /\ [Next]_vars =>
        [resizes' # resizes =>
           /\ ~m_write_txn
           /\ \A t \in Thread : pc[t] \notin {"write", "commit", "abort", "end", "read"}]_vars
  BY QuietStep
<1> QED
  BY <1>1, <1>2, BatchInit, BatchStep, PTL DEF Spec, BatchesIsolated, ResizeIsQuiet
=============================================================================
