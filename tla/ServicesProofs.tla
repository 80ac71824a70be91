--------------------------- MODULE ServicesProofs ---------------------------
(***************************************************************************)
(* Proofs about three parts around the node: the miner, for any growth of  *)
(* the chain and both kinds of workers; the HTTP server, for any number of *)
(* clients; and the wallet's files and its table of addresses, for any     *)
(* passwords, any lookaheads and any number of crashes, failed calls and   *)
(* addresses.                                                              *)
(***************************************************************************)
EXTENDS Miner, HttpServer, WalletFiles, TLAPS

-----------------------------------------------------------------------------
\* The miner

Starter == {"rpc", "sync"}

\* From the moment start has passed its test until the thread is launched, its caller
\* holds m_thread_lock.
StartLocked ==
  \A t \in Starter : pc[t] \in {"get", "set", "bump", "go", "launch"} => m_thread_lock = t

\* A start that passed its test found no thread, and none appears while it holds the lock.
LockedMeansNone == m_thread_lock # Nil => ~m_thread

\* m_stop is cleared for the thread that is about to be launched.
LaunchRuns == \A t \in Starter : pc[t] = "launch" => ~m_stop

\* stop has a thread to join.
StopHasThread == pc["rpc"] \in {"stop", "join"} => m_thread

\* m_thread holds a thread exactly from its launch to its join.
ThreadIsWorker == m_thread <=> pc["worker"] # "off"

StopWaits == m_thread /\ m_stop => pc["rpc"] = "join"

\* Templates build on a block that is or was the top.
Past == 0 .. tip \cup {Nil}

TemplatesPast ==
  /\ m_template \in Past /\ m_diff \in Past /\ b \in Past
  /\ \A t \in Thread : tmpl[t] \in Past

FoundBelow == pc["worker"] \in {"prepare", "add"} => b # MaxTip

MinerInv ==
  /\ MinerTypeOK
  /\ StartLocked /\ LockedMeansNone /\ LaunchRuns
  /\ StopHasThread /\ ThreadIsWorker /\ StopWaits
  /\ TemplatesPast /\ FoundBelow
  /\ WorksOnTemplate

\* A miner that has not been started satisfies the invariant.
LEMMA MinerInitInv == MinerInit => MinerInv
<1> SUFFICES ASSUME MinerInit PROVE MinerInv
  OBVIOUS
<1> USE MaxTipAssumption, NilAssumption DEF MinerInit
<1>1. pc["worker"] = "off" /\ \A t \in Thread \ {"worker"} : pc[t] = "idle"
  BY DEF Thread
<1>2. MinerTypeOK
  <2>1. pc \in [Thread -> Place]
    BY DEF Place
  <2>2. tip \in Tips /\ {m_template, m_diff, b} \subseteq Tips \cup {Nil}
    BY DEF Tips
  <2> QED
    BY <2>1, <2>2, Zenon DEF MinerTypeOK
<1>3. StartLocked /\ LaunchRuns /\ StopHasThread /\ ThreadIsWorker /\ FoundBelow
  BY <1>1 DEF StartLocked, LaunchRuns, StopHasThread, ThreadIsWorker, FoundBelow, Starter, Thread
<1>4. LockedMeansNone /\ StopWaits /\ TemplatesPast /\ WorksOnTemplate
  BY DEF LockedMeansNone, StopWaits, TemplatesPast, Past, WorksOnTemplate
<1> QED
  BY <1>2, <1>3, <1>4 DEF MinerInv

\* A process that ends is started again on its chain, in the state of a new miner.
LEMMA TerminateInv == MinerInv /\ Terminate => MinerInv'
<1> SUFFICES ASSUME MinerInv, Terminate PROVE MinerInv'
  OBVIOUS
<1> USE MaxTipAssumption, NilAssumption DEF Terminate
<1>1. pc'["worker"] = "off" /\ \A t \in Thread \ {"worker"} : pc'[t] = "idle"
  BY DEF Thread
<1>2. MinerTypeOK'
  <2>1. pc' \in [Thread -> Place]
    BY DEF Place
  <2>2. tip' \in Tips /\ {m_template', m_diff', b'} \subseteq Tips \cup {Nil}
    BY DEF MinerInv, MinerTypeOK
  <2> QED
    BY <2>1, <2>2, Zenon DEF MinerTypeOK
<1>3. StartLocked' /\ LaunchRuns' /\ StopHasThread' /\ ThreadIsWorker' /\ FoundBelow'
  BY <1>1 DEF StartLocked, LaunchRuns, StopHasThread, ThreadIsWorker, FoundBelow, Starter, Thread
<1>4. LockedMeansNone' /\ StopWaits' /\ TemplatesPast' /\ WorksOnTemplate'
  BY DEF LockedMeansNone, StopWaits, TemplatesPast, Past, WorksOnTemplate
<1> QED
  BY <1>2, <1>3, <1>4 DEF MinerInv

\* Every step of every thread preserves the invariant.
LEMMA MinerNextInv == MinerInv /\ [MinerNext]_allMinerVars => MinerInv'
<1> SUFFICES ASSUME MinerInv, [MinerNext]_allMinerVars PROVE MinerInv'
  OBVIOUS
<1> USE MaxTipAssumption, NilAssumption
    DEF MinerInv, MinerTypeOK, StartLocked, LockedMeansNone, LaunchRuns, StopHasThread, ThreadIsWorker,
          StopWaits, TemplatesPast, Past, FoundBelow, WorksOnTemplate, Thread, Tips, Place, Starter,
          Handler,
          At, Goto, is_mining, minerVars, templateVars, workVars
<1>1. ASSUME NEW t \in Thread, GetBlockTemplate(t) PROVE MinerInv'
  BY <1>1 DEF GetBlockTemplate
<1>2. ASSUME NEW t \in Thread, GetBlockTemplateFails(t) PROVE MinerInv'
  BY <1>2 DEF GetBlockTemplateFails, GoesOnAt
<1>3. ASSUME NEW t \in Thread, SetBlockTemplate(t) PROVE MinerInv'
  BY <1>3 DEF SetBlockTemplate
<1>4. ASSUME NEW t \in Thread, BumpTemplateNo(t) PROVE MinerInv'
  BY <1>4 DEF BumpTemplateNo, Bump, GoesOnAt
<1>5. ASSUME NEW t \in Starter, Start(t) PROVE MinerInv'
  BY <1>5 DEF Start, MayStart
<1>6. ASSUME NEW t \in Starter, ClearStop(t) PROVE MinerInv'
  <2>1. pc' \in [Thread -> Place] /\ pc'[t] = "launch" /\ \A u \in Thread \ {t} : pc'[u] = pc[u]
    BY <1>6 DEF ClearStop
  <2>2. MinerTypeOK'
    BY <1>6, <2>1, Zenon DEF ClearStop
  <2>3. StartLocked' /\ LaunchRuns' /\ StopHasThread' /\ ThreadIsWorker' /\ FoundBelow'
    BY <1>6, <2>1 DEF ClearStop
  <2> QED
    BY <1>6, <2>2, <2>3 DEF ClearStop
<1>7. ASSUME NEW t \in Starter, LaunchThread(t) PROVE MinerInv'
  BY <1>7, Zenon DEF LaunchThread
<1>8. CASE SendStopSignal
  BY <1>8 DEF SendStopSignal
<1>9. CASE Join
  BY <1>9, Zenon DEF Join
<1>10. CASE WorkerStops
  BY <1>10 DEF WorkerStops
<1>11. CASE CopyTemplate
  BY <1>11 DEF CopyTemplate, KeepsMining, MustCopy, TakeTemplate
<1>12. CASE ReadDifficulty
  BY <1>12 DEF ReadDifficulty, DiffSeen
<1>13. CASE DivideByZero
  BY <1>13, TerminateInv DEF DivideByZero
<1>14. CASE CopyTemplateGpu
  BY <1>14 DEF CopyTemplateGpu, KeepsMining, MustCopy, TakeTemplate
<1>15. CASE HashMisses
  BY <1>15 DEF HashMisses
<1>16. ASSUME NEW t \in Handler, Prepare(t) PROVE MinerInv'
  BY <1>16 DEF Prepare
<1>17. ASSUME NEW t \in Handler, Resume(t) PROVE MinerInv'
  <2>1. /\ pc' \in [Thread -> Place] /\ pc'[t] \in {"loop", "idle"} /\ t \in {"peer", "worker"}
        /\ \A u \in Thread \ {t} : pc'[u] = pc[u]
        /\ t = "worker" => pc'[t] = "loop"
    BY <1>17 DEF Resume
  <2>2. MinerTypeOK'
    BY <1>17, <2>1, Zenon DEF Resume
  <2>3. StartLocked' /\ LaunchRuns' /\ StopHasThread' /\ ThreadIsWorker' /\ FoundBelow'
    BY <1>17, <2>1 DEF Resume
  <2> QED
    BY <1>17, <2>2, <2>3 DEF Resume
<1>18. ASSUME NEW good \in BOOLEAN, AddFound(good) PROVE MinerInv'
  BY <1>18 DEF AddFound, Extends
<1>19. ASSUME NEW good \in BOOLEAN, AddReceived(good) PROVE MinerInv'
  BY <1>19 DEF AddReceived
<1>20. CASE Cleanup
  BY <1>20 DEF Cleanup
<1>21. CASE OnStartMining
  BY <1>21 DEF OnStartMining
<1>22. CASE OnSynchronized
  BY <1>22 DEF OnSynchronized
<1>23. CASE OnStopMining
  BY <1>23 DEF OnStopMining
<1>24. CASE GpuFails
  BY <1>24 DEF GpuFails
<1>25. CASE HashFinds
  BY <1>25 DEF HashFinds
<1>26. CASE NotifyNewBlock
  BY <1>26 DEF NotifyNewBlock
<1>27. CASE PrepareThrows
  BY <1>27 DEF PrepareThrows
<1>28. CASE FoundThrows
  BY <1>28, TerminateInv DEF FoundThrows
<1>29. ASSUME NEW t \in Handler, PrepareFails(t) PROVE MinerInv'
  BY <1>29 DEF PrepareFails, AfterFailure
<1>30. CASE OnIdle
  BY <1>30 DEF OnIdle
<1>31. CASE UNCHANGED allMinerVars
  BY <1>31 DEF allMinerVars
<1> QED
  BY <1>1, <1>2, <1>3, <1>4, <1>5, <1>6, <1>7, <1>8, <1>9, <1>10, <1>11, <1>12, <1>13, <1>14, <1>15, <1>16, <1>17, <1>18, <1>19, <1>20, <1>21, <1>22, <1>23, <1>24, <1>25, <1>26, <1>27, <1>28, <1>29, <1>30, <1>31, Zenon
  DEF MinerNext, Run, Request, Control, WorkerStep, Handling

\* The invariant is kept for ever.
LEMMA MinerInvariant == MinerSpec => []MinerInv
  BY MinerInitInv, MinerNextInv, PTL DEF MinerSpec

\* The miner's fields keep their types, and the chain it builds on never passes its bound.
THEOREM MinerTyped == MinerSpec => []MinerTypeOK
<1>1. MinerInv => MinerTypeOK
  BY DEF MinerInv
<1> QED
  BY <1>1, MinerInvariant, PTL

\* However starts, stops and found blocks interleave, there is at most one worker, it is
\* the one in m_thread, and only a stop that waits for it can have told it to end.
THEOREM AtMostOneWorker == MinerSpec => []OneWorker
<1>1. MinerInv => OneWorker
  BY NilAssumption
  DEF MinerInv, OneWorker, Running, StartLocked, LockedMeansNone, ThreadIsWorker, StopWaits, Starter,
      Thread
<1> QED
  BY <1>1, MinerInvariant, PTL

\* The worker's copy is the miner's template unless a newer one has been set since.
THEOREM CopyIsTemplate == MinerSpec => []WorksOnTemplate
<1>1. MinerInv => WorksOnTemplate
  BY DEF MinerInv
<1> QED
  BY <1>1, MinerInvariant, PTL

-----------------------------------------------------------------------------
\* The HTTP server

HttpConnection ==
    [st : HttpOpen \cup {"away", "backlog", "closed"}, timer : {"off", "armed", "due"},
     asked : BOOLEAN, answered : BOOLEAN]

\* The request that is being handled is that of the client being served.
HttpInv ==
    /\ http \in [Clients -> HttpConnection] /\ serving \in Clients \cup {NoClient}
    /\ \A c \in Clients : http[c].st = "handled" <=> serving = c
    /\ OpenIsBounded

\* No client is connected when the server starts.
LEMMA HttpInitInv == HttpInit => HttpInv
    BY NoClientAssumption DEF HttpInit, HttpInv, HttpConnection, NoConnection, HttpOpen, OpenIsBounded

\* Every step keeps the invariant and hands over the server as HandledStep says.
LEMMA HttpStep == HttpInv /\ [HttpNext]_httpVars => HttpInv' /\ HandledStep
<1> SUFFICES ASSUME HttpInv, [HttpNext]_httpVars PROVE HttpInv' /\ HandledStep
    OBVIOUS
<1> USE NoClientAssumption DEF HttpInv, HandledStep, OpenIsBounded, HttpConnection, HttpOpen, Idle1,
        ConnSet, Becomes
<1>1. ASSUME NEW c \in Clients, HttpConnect(c) PROVE HttpInv' /\ HandledStep
    BY <1>1, Zenon DEF HttpConnect, NoConnection
<1>2. ASSUME NEW c \in Clients, HttpSend(c) PROVE HttpInv' /\ HandledStep
    BY <1>2, Zenon DEF HttpSend
<1>3. ASSUME NEW c \in Clients, HttpBreak(c) PROVE HttpInv' /\ HandledStep
    BY <1>3 DEF HttpBreak
<1>4. ASSUME NEW c \in Clients, HttpExpire(c) PROVE HttpInv' /\ HandledStep
    BY <1>4 DEF HttpExpire
<1>5. ASSUME NEW c \in Clients, HttpAccept(c) PROVE HttpInv' /\ HandledStep
    BY <1>5, Zenon DEF HttpAccept
<1>6. ASSUME NEW c \in Clients, ProcessRequest(c) PROVE HttpInv' /\ HandledStep
    BY <1>6 DEF ProcessRequest
<1>7. ASSUME NEW c \in Clients, WriteResponse(c) PROVE HttpInv' /\ HandledStep
    BY <1>7 DEF WriteResponse
<1>8. ASSUME NEW c \in Clients, NEW ok \in BOOLEAN, Written(c, ok) PROVE HttpInv' /\ HandledStep
    BY <1>8, Zenon DEF Written
<1>9. ASSUME NEW c \in Clients, CheckDeadline(c) PROVE HttpInv' /\ HandledStep
    BY <1>9, Zenon DEF CheckDeadline
<1>10. CASE UNCHANGED httpVars
    BY <1>10 DEF httpVars
<1> QED
    BY <1>1, <1>2, <1>3, <1>4, <1>5, <1>6, <1>7, <1>8, <1>9, <1>10
    DEF HttpNext, HttpClient, HttpThread

\* With any number of clients, every open connection has a deadline to come, one
\* request is handled at a time, and each at most once.
THEOREM HttpServes == HttpSpec => HttpSound
<1>1. HttpInv => OpenIsBounded
    BY DEF HttpInv
<1> QED
    BY HttpInitInv, HttpStep, <1>1, PTL DEF HttpSpec, HttpSound, HandledOnce

-----------------------------------------------------------------------------
\* The wallet's files

Index == [major : Nat, minor : Nat]

\* Tables in which the scan finds what was handed out.
GoodBooks == {bk \in [labels : Seq(Nat), rows : SUBSET Index] : BookHolds(bk)}

WholeKeys  == [st : {"whole"}, pw : Passwords, look : Lookaheads]
WholeCache == [st : {"whole"}, pw : Passwords, book : GoodBooks]
OpenPurse  == [open : {TRUE}, pw : Passwords, look : Lookaheads, book : GoodBooks]

Operations == {"generate", "change_password", "rewrite", "store", "close"}
RunningSteps    == [what : Operations, pw : Passwords, at : 1 .. 3, written : BOOLEAN]

FileNames == {"keys", "keys.new", "cache", "cache.new"}

FilesTyped ==
    /\ files = [f \in FileNames |-> files[f]]
    /\ files["keys"] \in {Absent} \cup WholeKeys
    /\ files["keys.new"] \in {Absent, Partial} \cup WholeKeys
    /\ files["cache"] \in {Absent} \cup WholeCache
    /\ files["cache.new"] \in {Absent, Partial} \cup WholeCache
    /\ purse \in {NoPurse} \cup OpenPurse
    /\ steps \in {FilesIdle} \cup RunningSteps
    /\ torn \in BOOLEAN

\* generate before the first keys file is in place.
NoKeysYet == steps.what = "generate" /\ steps.at = 1

\* How far an operation is says what the files hold.
StepsMatch ==
    steps # FilesIdle =>
        /\ purse # NoPurse
        /\ steps.at <= Len(Saves(steps.what))
        /\ steps.written => files[New(Saving(steps))] =
                IF Saving(steps) = "keys" THEN Keys(steps.pw, purse.look)
                                          ELSE Cache(steps.pw, purse.book)
        /\ steps.pw = IF steps.what = "rewrite" THEN files["keys"].pw ELSE purse.pw
        /\ steps.what = "change_password" /\ steps.at = 2 => files["keys"].pw = steps.pw

\* A cache file never comes without a keys file, and the keys file comes first.
KeysFirst ==
    /\ files["cache"] # Absent => files["keys"] # Absent
    /\ NoKeysYet => files["keys"] = Absent /\ files["cache"] = Absent
    /\ purse # NoPurse /\ ~NoKeysYet => files["keys"] # Absent

\* Outside of a password change the wallet in memory, the keys file and the cache
\* file agree on the password, until a change is interrupted.
OnePassword ==
    ~torn /\ steps.what # "change_password" =>
        /\ purse # NoPurse /\ ~NoKeysYet => files["keys"].pw = purse.pw
        /\ files["cache"] # Absent => files["cache"].pw = files["keys"].pw

FilesInv == FilesTyped /\ StepsMatch /\ KeysFirst /\ OnePassword

-----------------------------------------------------------------------------
\* The table of addresses

\* A table with no account is good.
LEMMA EmptyBookGood == EmptyBook \in GoodBooks
<1>1. <<>> \in Seq(Nat) /\ Len(<<>>) = 0
    OBVIOUS
<1> QED
    BY <1>1 DEF GoodBooks, EmptyBook, BookHolds, Index

\* expand_subaddresses keeps a table good, for every address and lookahead: the
\* labels it adds are covered by rows, and no row is left without the one before.
LEMMA ExpandGood ==
    ASSUME NEW book \in GoodBooks, NEW look \in Lookaheads, NEW i \in Index
    PROVE  ExpandSubaddresses(book, look, i) \in GoodBooks
<1> DEFINE n == Len(book.labels)
           bk == ExpandSubaddresses(book, look, i)
<1>1. /\ book.labels \in Seq(Nat) /\ book.rows \subseteq Index /\ n \in Nat
      /\ book = [labels |-> book.labels, rows |-> book.rows]
      /\ BookHolds(book) /\ look \in Nat /\ look >= 1 /\ i.major \in Nat /\ i.minor \in Nat
    BY LookaheadsAssumption DEF GoodBooks, Index
<1>2. \A a \in 1 .. n : book.labels[a] \in Nat
    BY <1>1
<1>3. CASE n <= i.major
  <2> DEFINE more == [a \in 1 .. i.major + 1 |->
                            IF a <= n THEN book.labels[a]
                            ELSE IF a = i.major + 1 THEN i.minor + 1 ELSE 0]
             fresh == [major : n .. i.major + look - 1, minor : 0 .. look - 1]
             own == [major : {i.major}, minor : 0 .. i.minor + look - 1]
             rows == book.rows \cup fresh \cup own
  <2>1. bk = [labels |-> more, rows |-> rows]
      BY <1>3 DEF ExpandSubaddresses
  <2>2. more \in Seq(Nat) /\ Len(more) = i.major + 1
    <3>1. more \in [1 .. i.major + 1 -> Nat]
        BY <1>1, <1>2
    <3>2. i.major + 1 \in Nat
        BY <1>1
    <3> QED
        BY <3>1, <3>2
  <2>3. rows \subseteq Index
      BY <1>1 DEF Index
  <2>4. ASSUME NEW a \in 0 .. i.major
        PROVE  \E l \in Lookaheads : \A m \in 0 .. more[a + 1] + l - 2 : [major |-> a, minor |-> m] \in rows
    <3>1. CASE a < n
      <4>1. a \in 0 .. n - 1 /\ more[a + 1] = book.labels[a + 1]
          BY <3>1, <1>1
      <4> QED
          BY <4>1, <1>1, Zenon DEF BookHolds
    <3>2. CASE a >= n /\ a # i.major
      <4>1. more[a + 1] = 0
          BY <3>2, <1>1
      <4>2. \A m \in 0 .. 0 + look - 2 : [major |-> a, minor |-> m] \in fresh
          BY <3>2, <1>1
      <4>3. \A m \in 0 .. more[a + 1] + look - 2 : [major |-> a, minor |-> m] \in rows
        <5> HIDE DEF more, fresh, own
        <5> QED
            BY <4>1, <4>2
      <4> HIDE DEF more, rows
      <4> QED
          BY <4>3
    <3>3. CASE a = i.major
      <4>1. more[a + 1] = i.minor + 1
          BY <3>3, <1>1, <1>3
      <4>2. \A m \in 0 .. i.minor + 1 + look - 2 : [major |-> a, minor |-> m] \in own
          BY <3>3, <1>1
      <4>3. \A m \in 0 .. more[a + 1] + look - 2 : [major |-> a, minor |-> m] \in rows
        <5> HIDE DEF more, fresh, own
        <5> QED
            BY <4>1, <4>2
      <4> HIDE DEF more, rows
      <4> QED
          BY <4>3
    <3>4. a < n \/ (a >= n /\ a # i.major) \/ a = i.major
        BY <1>1
    <3> HIDE DEF more, rows
    <3> QED
        BY <3>1, <3>2, <3>3, <3>4
  <2>5. ASSUME NEW j \in rows, j.minor > 0
        PROVE  [major |-> j.major, minor |-> j.minor - 1] \in rows
    <3>1. CASE j \in book.rows
        BY <3>1, <2>5, <1>1 DEF BookHolds
    <3>2. CASE j \in fresh
      <4>1. PICK a \in n .. i.major + look - 1, m \in 0 .. look - 1 : j = [major |-> a, minor |-> m]
          BY <3>2
      <4>2. m - 1 \in 0 .. look - 1
          BY <4>1, <2>5, <1>1
      <4> QED
          BY <4>1, <4>2
    <3>3. CASE j \in own
      <4>1. PICK m \in 0 .. i.minor + look - 1 : j = [major |-> i.major, minor |-> m]
          BY <3>3
      <4>2. m - 1 \in 0 .. i.minor + look - 1
          BY <4>1, <2>5, <1>1
      <4> QED
          BY <4>1, <4>2
    <3> QED
        BY <3>1, <3>2, <3>3
  <2> HIDE DEF more, rows, bk, fresh, own
  <2>6. BookHolds(bk)
    <3>1. bk.labels = more /\ bk.rows = rows /\ Len(bk.labels) - 1 = i.major
        BY <2>1, <2>2, <1>1
    <3> QED
        BY <3>1, <2>4, <2>5 DEF BookHolds
  <2> QED
      BY <2>1, <2>2, <2>3, <2>6 DEF GoodBooks, bk
<1>4. CASE n > i.major /\ book.labels[i.major + 1] <= i.minor
  <2> DEFINE k == i.major + 1
             old == book.labels[k]
             more == [book.labels EXCEPT ![k] = i.minor + 1]
             fresh == [major : {i.major}, minor : old .. i.minor + look - 1]
             rows == book.rows \cup fresh
  <2>1. bk = [labels |-> more, rows |-> rows]
      BY <1>4, <1>1 DEF ExpandSubaddresses
  <2>2. k \in 1 .. n /\ old \in Nat
      BY <1>1, <1>2, <1>4
  <2>3. more \in Seq(Nat) /\ Len(more) = n
      BY <2>2, <1>1
  <2>4. rows \subseteq Index
      BY <1>1, <2>2 DEF Index
  <2>5. \A m \in 0 .. old - 1 : [major |-> i.major, minor |-> m] \in book.rows
    <3>1. i.major \in 0 .. n - 1
        BY <1>1, <1>4
    <3>2. PICK l \in Lookaheads : \A m \in 0 .. old + l - 2 : [major |-> i.major, minor |-> m] \in book.rows
        BY <3>1, <1>1 DEF BookHolds
    <3>3. l \in Nat /\ l >= 1
        BY LookaheadsAssumption
    <3> QED
        BY <3>2, <3>3, <2>2
  <2>6. ASSUME NEW a \in 0 .. n - 1
        PROVE  \E l \in Lookaheads : \A m \in 0 .. more[a + 1] + l - 2 : [major |-> a, minor |-> m] \in rows
    <3>1. CASE a # i.major
      <4>1. more[a + 1] = book.labels[a + 1]
          BY <3>1, <1>1
      <4> QED
          BY <4>1, <1>1 DEF BookHolds
    <3>2. CASE a = i.major
      <4>1. more[a + 1] = i.minor + 1
          BY <3>2, <1>1, <2>2
      <4>2. ASSUME NEW m \in 0 .. i.minor + 1 + look - 2 PROVE [major |-> a, minor |-> m] \in rows
        <5>1. CASE m < old
            BY <5>1, <2>5, <2>2, <3>2
        <5>2. CASE m >= old
          <6>1. m \in old .. i.minor + look - 1
              BY <5>2, <2>2, <1>1
          <6> QED
              BY <6>1, <3>2
        <5> QED
            BY <5>1, <5>2, <2>2
      <4> QED
          BY <4>1, <4>2
    <3> QED
        BY <3>1, <3>2
  <2>7. ASSUME NEW j \in rows, j.minor > 0
        PROVE  [major |-> j.major, minor |-> j.minor - 1] \in rows
    <3>1. CASE j \in book.rows
        BY <3>1, <2>7, <1>1 DEF BookHolds
    <3>2. CASE j \in fresh
      <4>1. PICK m \in old .. i.minor + look - 1 : j = [major |-> i.major, minor |-> m]
          BY <3>2
      <4>2. CASE m = old
        <5>1. m - 1 \in 0 .. old - 1
            BY <4>1, <4>2, <2>2, <2>7
        <5> QED
            BY <5>1, <4>1, <2>5
      <4>3. CASE m # old
        <5> HIDE DEF old
        <5>1. m - 1 \in old .. i.minor + look - 1
            BY <4>3, <2>2, <1>1
        <5> QED
            BY <5>1, <4>1
      <4> QED
          BY <4>2, <4>3
    <3> QED
        BY <3>1, <3>2
  <2> HIDE DEF more, rows, bk, fresh
  <2>8. BookHolds(bk)
    <3>1. bk.labels = more /\ bk.rows = rows /\ Len(bk.labels) = n
        BY <2>1, <2>3
    <3> HIDE DEF n
    <3> QED
        BY <3>1, <2>6, <2>7 DEF BookHolds
  <2> QED
      BY <2>1, <2>3, <2>4, <2>8 DEF GoodBooks, bk
<1>5. CASE n > i.major /\ ~(book.labels[i.major + 1] <= i.minor)
    BY <1>5, <1>1 DEF ExpandSubaddresses
<1> QED
    BY <1>1, <1>3, <1>4, <1>5

-----------------------------------------------------------------------------
\* The files

\* What each operation saves, and in which order.
LEMMA SavesAre ==
    /\ Saves("generate") = <<"keys", "cache", "keys">>
    /\ Saves("change_password") = <<"keys", "cache">>
    /\ Saves("rewrite") = <<"keys">>
    /\ Saves("store") = <<"cache">>
    /\ Saves("close") = <<"cache">>
BY DEF Saves

\* Where a running operation can be.
LEMMA SavingCases ==
    ASSUME FilesInv, steps # FilesIdle
    PROVE  /\ steps \in RunningSteps
           /\ \/ steps.what = "generate" /\ Len(Saves(steps.what)) = 3
                 /\ \/ steps.at \in {1, 3} /\ Saving(steps) = "keys"
                    \/ steps.at = 2 /\ Saving(steps) = "cache"
              \/ steps.what = "change_password" /\ Len(Saves(steps.what)) = 2
                 /\ \/ steps.at = 1 /\ Saving(steps) = "keys"
                    \/ steps.at = 2 /\ Saving(steps) = "cache"
              \/ steps.what = "rewrite" /\ Len(Saves(steps.what)) = 1
                 /\ steps.at = 1 /\ Saving(steps) = "keys"
              \/ steps.what \in {"store", "close"} /\ Len(Saves(steps.what)) = 1
                 /\ steps.at = 1 /\ Saving(steps) = "cache"
<1>1. steps \in RunningSteps /\ steps.at <= Len(Saves(steps.what))
    BY DEF FilesInv, FilesTyped, StepsMatch
<1>2. steps.what \in Operations /\ steps.at \in 1 .. 3
    BY <1>1 DEF RunningSteps
<1>3. CASE steps.what = "generate"
    BY <1>1, <1>2, <1>3, SavesAre DEF Saving
<1>4. CASE steps.what = "change_password"
    BY <1>1, <1>2, <1>4, SavesAre DEF Saving
<1>5. CASE steps.what = "rewrite"
    BY <1>1, <1>2, <1>5, SavesAre DEF Saving
<1>6. CASE steps.what \in {"store", "close"}
    BY <1>1, <1>2, <1>6, SavesAre DEF Saving
<1> QED
    BY <1>1, <1>2, <1>3, <1>4, <1>5, <1>6 DEF Operations

\* The four contents are told apart by what they hold.
LEMMA ContentsDiffer ==
    /\ Absent # Partial
    /\ \A k \in WholeKeys : k # Absent /\ k # Partial /\ k.st = "whole"
    /\ \A c \in WholeCache : c # Absent /\ c # Partial /\ c.st = "whole"
    /\ NoPurse.open = FALSE
    /\ \A p \in OpenPurse : p # NoPurse /\ p.open = TRUE
    /\ FilesIdle.what = "idle"
    /\ \A r \in RunningSteps : r # FilesIdle /\ r.what # "idle"
<1>1. Absent.st = "absent" /\ Partial.st = "partial"
    BY DEF Absent, Partial
<1>2. NoPurse.open = FALSE /\ FilesIdle.what = "idle"
    BY DEF NoPurse, FilesIdle
<1> QED
    BY <1>1, <1>2, Zenon DEF WholeKeys, WholeCache, OpenPurse, RunningSteps, Operations

\* A step that only extends the table of the open wallet.
LEMMA BookStep ==
    ASSUME FilesInv, Ready, NEW bk \in GoodBooks,
           purse' = [purse EXCEPT !.book = bk], UNCHANGED <<files, steps, torn>>
    PROVE  FilesInv'
<1>1. purse \in OpenPurse
    BY ContentsDiffer DEF FilesInv, FilesTyped, Ready
<1>2. purse' \in OpenPurse /\ purse'.pw = purse.pw
    BY <1>1, Zenon DEF OpenPurse
<1>3. FilesTyped'
    BY <1>2 DEF FilesInv, FilesTyped
<1>4. StepsMatch'
    BY DEF Ready, StepsMatch
<1>5. KeysFirst' /\ OnePassword'
    BY <1>1, <1>2, ContentsDiffer DEF FilesInv, KeysFirst, OnePassword, NoKeysYet
<1> QED
    BY <1>3, <1>4, <1>5 DEF FilesInv

\* The wallet is dropped, or stays open, when no operation runs any more; the
\* files in place are those before the step.
LEMMA DropStep ==
    ASSUME FilesInv, steps' = FilesIdle, FilesTyped',
           purse' \in {purse, NoPurse},
           steps.what = "generate" => purse' = NoPurse,
           files'["keys"] = files["keys"], files'["cache"] = files["cache"],
           torn' = (torn \/ steps.what = "change_password")
    PROVE  FilesInv'
<1>1. StepsMatch'
    BY DEF StepsMatch
<1>2. steps'.what = "idle" /\ ~NoKeysYet'
    BY ContentsDiffer DEF NoKeysYet
<1>3. KeysFirst'
    BY <1>2 DEF FilesInv, KeysFirst, NoKeysYet
<1>4. OnePassword'
  <2> SUFFICES ASSUME ~torn'
               PROVE  /\ purse' # NoPurse => files'["keys"].pw = purse'.pw
                      /\ files'["cache"] # Absent => files'["cache"].pw = files'["keys"].pw
      BY <1>2 DEF OnePassword
  <2>1. torn = FALSE /\ steps.what # "change_password"
      BY Zenon DEF FilesInv, FilesTyped
  <2> QED
      BY <2>1 DEF FilesInv, OnePassword, NoKeysYet
<1> QED
    BY <1>1, <1>3, <1>4 DEF FilesInv

\* An operation begins on an open wallet whose files are as they were.
LEMMA BeginStep ==
    ASSUME FilesInv, Ready, NEW what \in Operations \ {"generate"}, NEW pw \in Passwords,
           steps' = Doing(what, pw), UNCHANGED <<files, torn>>,
           purse' \in OpenPurse,
           what # "change_password" => purse'.pw = purse.pw,
           pw = IF what = "rewrite" THEN files["keys"].pw ELSE purse'.pw
    PROVE  FilesInv'
<1>1. steps = FilesIdle /\ steps.what = "idle" /\ purse # NoPurse
    BY ContentsDiffer DEF Ready
<1>2. /\ steps' \in RunningSteps /\ steps'.what = what /\ steps'.at = 1 /\ steps'.written = FALSE
      /\ steps'.pw = pw
    BY DEF Doing, RunningSteps
<1>3. FilesTyped'
    BY <1>2 DEF FilesInv, FilesTyped
<1>4. StepsMatch'
  <2>1. 1 <= Len(Saves(what))
      BY SavesAre DEF Operations
  <2> QED
      BY <1>2, <2>1, ContentsDiffer DEF StepsMatch
<1>5. KeysFirst'
    BY <1>1, <1>2 DEF FilesInv, KeysFirst, NoKeysYet
<1>6. OnePassword'
    BY <1>1, <1>2 DEF FilesInv, OnePassword, NoKeysYet
<1> QED
    BY <1>3, <1>4, <1>5, <1>6 DEF FilesInv

\* generate
LEMMA GenerateStep ==
    ASSUME FilesInv, NEW pw \in Passwords, NEW look \in Lookaheads, Generate(pw, look)
    PROVE  FilesInv'
<1> DEFINE book == ExpandSubaddresses(EmptyBook, look, [major |-> 0, minor |-> 0])
<1>1. book \in GoodBooks
    BY EmptyBookGood, ExpandGood DEF Index
<1> HIDE DEF book
<1>2. /\ purse' = Purse(pw, look, book) /\ steps' = Doing("generate", pw)
      /\ files["keys"] = Absent /\ files["cache"] = Absent /\ UNCHANGED <<files, torn>>
    BY DEF Generate, book
<1>3. purse' \in OpenPurse /\ purse'.pw = pw
    BY <1>1, <1>2 DEF Purse, OpenPurse
<1>4. /\ steps' \in RunningSteps /\ steps'.what = "generate" /\ steps'.at = 1 /\ steps'.written = FALSE
      /\ steps'.pw = pw
    BY <1>2 DEF Doing, RunningSteps, Operations
<1>5. FilesTyped'
    BY <1>2, <1>3, <1>4 DEF FilesInv, FilesTyped
<1>6. StepsMatch'
  <2>1. 1 <= Len(Saves("generate"))
      BY SavesAre
  <2> QED
      BY <1>3, <1>4, <2>1, ContentsDiffer DEF StepsMatch
<1>7. KeysFirst' /\ OnePassword'
    BY <1>2, <1>4 DEF KeysFirst, OnePassword, NoKeysYet
<1> QED
    BY <1>5, <1>6, <1>7 DEF FilesInv

\* load: it opens the wallet only with the password of both files.
LEMMA LoadStep ==
    ASSUME FilesInv, NEW pw \in Passwords, Load(pw)
    PROVE  FilesInv'
<1>1. purse = NoPurse
    BY ContentsDiffer DEF FilesInv, FilesTyped, Load
<1>2. steps = FilesIdle /\ steps.what = "idle"
    BY <1>1, ContentsDiffer DEF FilesInv, StepsMatch
<1>3. files["keys"] \in WholeKeys /\ files["keys"].pw = pw
    BY DEF FilesInv, FilesTyped, Load, Absent
<1>4. purse' \in OpenPurse /\ purse'.pw = pw
  <2>1. CASE purse' = Purse(pw, files["keys"].look, EmptyBook)
      BY <2>1, <1>3, EmptyBookGood DEF Purse, OpenPurse, WholeKeys
  <2>2. CASE files["cache"].st = "whole" /\ purse' = Purse(pw, files["keys"].look, files["cache"].book)
    <3>1. files["cache"] \in WholeCache
        BY <2>2 DEF FilesInv, FilesTyped, Absent
    <3> QED
        BY <2>2, <3>1, <1>3 DEF Purse, OpenPurse, WholeKeys, WholeCache
  <2> QED
      BY <2>1, <2>2 DEF Load
<1>5. UNCHANGED <<files, steps, torn>>
    BY DEF Load
<1>6. FilesTyped' /\ StepsMatch'
    BY <1>2, <1>4, <1>5 DEF FilesInv, FilesTyped, StepsMatch
<1>7. KeysFirst'
    BY <1>2, <1>3, <1>5, ContentsDiffer DEF FilesInv, KeysFirst, NoKeysYet
<1>8. OnePassword'
    BY <1>2, <1>3, <1>4, <1>5 DEF FilesInv, OnePassword, NoKeysYet
<1> QED
    BY <1>6, <1>7, <1>8 DEF FilesInv

\* What WriteNew puts under the name *.new.
LEMMA ContentTyped ==
    ASSUME FilesInv, steps # FilesIdle
    PROVE  /\ purse \in OpenPurse
           /\ Keys(steps.pw, purse.look) \in WholeKeys
           /\ Cache(steps.pw, purse.book) \in WholeCache
<1>1. purse \in OpenPurse /\ steps \in RunningSteps
    BY DEF FilesInv, FilesTyped, StepsMatch
<1> QED
    BY <1>1, Zenon DEF OpenPurse, RunningSteps, Keys, Cache, WholeKeys, WholeCache

\* A step that changes one *.new file only keeps the files typed.
LEMMA NewFileTyped ==
    ASSUME FilesInv, NEW c,
           \/ files' = [files EXCEPT !["keys.new"] = c] /\ c \in {Absent, Partial} \cup WholeKeys
           \/ files' = [files EXCEPT !["cache.new"] = c] /\ c \in {Absent, Partial} \cup WholeCache,
           purse' \in {NoPurse} \cup OpenPurse, steps' \in {FilesIdle} \cup RunningSteps, torn' \in BOOLEAN
    PROVE  /\ FilesTyped'
           /\ files'["keys"] = files["keys"] /\ files'["cache"] = files["cache"]
BY DEF FilesInv, FilesTyped, FileNames

LEMMA WriteNewStep ==
    ASSUME FilesInv, WriteNew
    PROVE  FilesInv'
<1> DEFINE c == IF Saving(steps) = "keys" THEN Keys(steps.pw, purse.look)
                                          ELSE Cache(steps.pw, purse.book)
<1>1. steps # FilesIdle /\ steps \in RunningSteps /\ Saving(steps) \in {"keys", "cache"}
    BY SavingCases DEF WriteNew
<1>2. /\ steps' \in RunningSteps /\ steps'.what = steps.what /\ steps'.at = steps.at
      /\ steps'.pw = steps.pw /\ steps'.written = TRUE
    BY <1>1, Zenon DEF WriteNew, RunningSteps
<1>3. UNCHANGED <<purse, torn>> /\ files' = [files EXCEPT ![New(Saving(steps))] = c]
    BY DEF WriteNew
<1>4. \/ New(Saving(steps)) = "keys.new" /\ c \in WholeKeys
      \/ New(Saving(steps)) = "cache.new" /\ c \in WholeCache
    BY <1>1, ContentTyped DEF New
<1>5. files'[New(Saving(steps))] = c
    BY <1>3, <1>4 DEF FilesInv, FilesTyped, FileNames
<1>6. Saving(steps') = Saving(steps) /\ Saving(steps)' = Saving(steps)
    BY <1>2 DEF Saving
<1>7. FilesTyped' /\ files'["keys"] = files["keys"] /\ files'["cache"] = files["cache"]
  <2>1. purse' \in {NoPurse} \cup OpenPurse /\ torn' \in BOOLEAN
      BY <1>3 DEF FilesInv, FilesTyped
  <2> HIDE DEF c
  <2>2. \/ files' = [files EXCEPT !["keys.new"] = c] /\ c \in {Absent, Partial} \cup WholeKeys
        \/ files' = [files EXCEPT !["cache.new"] = c] /\ c \in {Absent, Partial} \cup WholeCache
      BY <1>3, <1>4, Zenon
  <2> QED
      BY <1>2, <2>1, <2>2, NewFileTyped
<1>8. StepsMatch'
  <2>1. files'[New(Saving(steps'))] = c /\ c = IF Saving(steps') = "keys" THEN Keys(steps'.pw, purse'.look)
                                              ELSE Cache(steps'.pw, purse'.book)
      BY <1>2, <1>3, <1>5, <1>6
  <2>2. purse' # NoPurse /\ steps'.at <= Len(Saves(steps'.what))
      BY <1>1, <1>2, <1>3 DEF FilesInv, StepsMatch
  <2>3. steps'.pw = IF steps'.what = "rewrite" THEN files'["keys"].pw ELSE purse'.pw
      BY <1>1, <1>2, <1>3, <1>7 DEF FilesInv, StepsMatch
  <2>4. steps'.what = "change_password" /\ steps'.at = 2 => files'["keys"].pw = steps'.pw
      BY <1>1, <1>2, <1>7 DEF FilesInv, StepsMatch
  <2> HIDE DEF c
  <2> QED
      BY <2>1, <2>2, <2>3, <2>4 DEF StepsMatch
<1>9. KeysFirst' /\ OnePassword'
    BY <1>2, <1>3, <1>7 DEF FilesInv, KeysFirst, OnePassword, NoKeysYet
<1> QED
    BY <1>7, <1>8, <1>9 DEF FilesInv

\* The rename: the file that the operation saves now has the content written
\* for it, and the operation goes on or is done.
LEMMA ReplaceFileStep ==
    ASSUME FilesInv, ReplaceFile
    PROVE  FilesInv'
<1>1. /\ steps # FilesIdle /\ steps \in RunningSteps /\ steps.written = TRUE
      /\ purse \in OpenPurse /\ torn' = torn /\ torn \in BOOLEAN
    BY SavingCases, ContentTyped DEF ReplaceFile, RunningSteps, FilesInv, FilesTyped
<1>2. steps.pw = IF steps.what = "rewrite" THEN files["keys"].pw ELSE purse.pw
    BY <1>1 DEF FilesInv, StepsMatch
\* The step on the keys file.
<1>3. ASSUME Saving(steps) = "keys"
      PROVE  /\ files'["keys"] \in WholeKeys /\ files'["keys"].pw = steps.pw
             /\ files'["keys.new"] = Absent
             /\ files'["cache"] = files["cache"] /\ files'["cache.new"] = files["cache.new"]
             /\ files' = [f \in FileNames |-> files'[f]]
  <2>1. New(Saving(steps)) = "keys.new" /\ files["keys.new"] = Keys(steps.pw, purse.look)
      BY <1>1, <1>3 DEF FilesInv, StepsMatch, New
  <2>2. files' = [files EXCEPT !["keys"] = files["keys.new"], !["keys.new"] = Absent]
      BY <1>3, <2>1, Zenon DEF ReplaceFile
  <2>3. Keys(steps.pw, purse.look) \in WholeKeys /\ Keys(steps.pw, purse.look).pw = steps.pw
      BY <1>1, ContentTyped DEF Keys
  <2> QED
      BY <2>1, <2>2, <2>3, Zenon DEF FilesInv, FilesTyped, FileNames
\* The step on the cache file.
<1>4. ASSUME Saving(steps) = "cache"
      PROVE  /\ files'["cache"] \in WholeCache /\ files'["cache"].pw = steps.pw
             /\ files'["cache.new"] = Absent
             /\ files'["keys"] = files["keys"] /\ files'["keys.new"] = files["keys.new"]
             /\ files' = [f \in FileNames |-> files'[f]]
  <2>1. New(Saving(steps)) = "cache.new" /\ files["cache.new"] = Cache(steps.pw, purse.book)
      BY <1>1, <1>4 DEF FilesInv, StepsMatch, New
  <2>2. files' = [files EXCEPT !["cache"] = files["cache.new"], !["cache.new"] = Absent]
      BY <1>4, <2>1, Zenon DEF ReplaceFile
  <2>3. Cache(steps.pw, purse.book) \in WholeCache /\ Cache(steps.pw, purse.book).pw = steps.pw
      BY <1>1, ContentTyped DEF Cache
  <2> QED
      BY <2>1, <2>2, <2>3, Zenon DEF FilesInv, FilesTyped, FileNames
<1>5. /\ files'["keys"] \in {Absent} \cup WholeKeys
      /\ files'["keys.new"] \in {Absent, Partial} \cup WholeKeys
      /\ files'["cache"] \in {Absent} \cup WholeCache
      /\ files'["cache.new"] \in {Absent, Partial} \cup WholeCache
      /\ files' = [f \in FileNames |-> files'[f]]
    BY <1>1, <1>3, <1>4, SavingCases DEF FilesInv, FilesTyped
\* It was the last file.
<1>6. ASSUME steps.at = Len(Saves(steps.what))
      PROVE  FilesInv'
  <2>1. /\ steps' = FilesIdle /\ steps'.what = "idle"
        /\ purse' = IF steps.what = "close" THEN NoPurse ELSE purse
      BY <1>6, ContentsDiffer DEF ReplaceFile
  <2>2. FilesTyped'
      BY <1>1, <1>5, <2>1 DEF FilesTyped
  <2>3. StepsMatch' /\ ~NoKeysYet'
      BY <2>1 DEF StepsMatch, NoKeysYet
  <2>4. files'["keys"] # Absent
    <3>1. CASE Saving(steps) = "keys"
        BY <3>1, <1>3, ContentsDiffer
    <3>2. CASE Saving(steps) = "cache"
      <4>1. ~NoKeysYet
          BY <3>2, <1>1, SavingCases DEF NoKeysYet
      <4> QED
          BY <3>2, <1>1, <1>4, <4>1, ContentsDiffer DEF FilesInv, KeysFirst
    <3> QED
        BY <3>1, <3>2, <1>1, SavingCases
  <2>5. KeysFirst'
      BY <2>3, <2>4 DEF KeysFirst
  <2>6. ASSUME torn = FALSE
        PROVE  /\ files'["keys"].pw = purse.pw
               /\ files'["cache"] # Absent => files'["cache"].pw = files'["keys"].pw
    <3>1. CASE steps.what = "generate"
      <4>1. steps.at = 3 /\ Saving(steps) = "keys" /\ ~NoKeysYet
        <5>1. Len(Saves(steps.what)) = 3
            BY <3>1, <1>1, SavingCases
        <5>2. steps.at = 3
            BY <5>1, <1>6
        <5> QED
            BY <3>1, <5>2, <1>1, SavingCases DEF NoKeysYet
      <4>2. files["keys"].pw = purse.pw
          BY <3>1, <4>1, <2>6, <1>1, ContentsDiffer DEF FilesInv, OnePassword
      <4>3. files["cache"] # Absent => files["cache"].pw = files["keys"].pw
          BY <3>1, <2>6 DEF FilesInv, OnePassword
      <4> QED
          BY <3>1, <4>1, <4>2, <4>3, <1>2, <1>3
    <3>2. CASE steps.what = "change_password"
      <4>1. steps.at = 2 /\ Saving(steps) = "cache"
        <5>1. Len(Saves(steps.what)) = 2
            BY <3>2, <1>1, SavingCases
        <5>2. steps.at = 2
            BY <5>1, <1>6
        <5> QED
            BY <3>2, <5>2, <1>1, SavingCases
      <4>2. files["keys"].pw = steps.pw
          BY <3>2, <4>1, <1>1 DEF FilesInv, StepsMatch
      <4> QED
          BY <3>2, <4>1, <4>2, <1>2, <1>4
    <3>3. CASE steps.what = "rewrite"
      <4>1. Saving(steps) = "keys" /\ ~NoKeysYet
          BY <3>3, <1>1, SavingCases DEF NoKeysYet
      <4>2. files["keys"].pw = purse.pw
          BY <3>3, <4>1, <2>6, <1>1, ContentsDiffer DEF FilesInv, OnePassword
      <4>3. files["cache"] # Absent => files["cache"].pw = files["keys"].pw
          BY <3>3, <2>6 DEF FilesInv, OnePassword
      <4> QED
          BY <3>3, <4>1, <4>2, <4>3, <1>2, <1>3
    <3>4. CASE steps.what \in {"store", "close"}
      <4>1. Saving(steps) = "cache" /\ ~NoKeysYet
          BY <3>4, <1>1, SavingCases DEF NoKeysYet
      <4>2. files["keys"].pw = purse.pw
          BY <3>4, <4>1, <2>6, <1>1, ContentsDiffer DEF FilesInv, OnePassword
      <4> QED
          BY <3>4, <4>1, <4>2, <1>2, <1>4
    <3> QED
        BY <1>1, <3>1, <3>2, <3>3, <3>4, SavingCases
  <2>7. OnePassword'
      BY <1>1, <2>1, <2>3, <2>6, Zenon DEF OnePassword
  <2> QED
      BY <2>2, <2>3, <2>5, <2>7 DEF FilesInv
\* Another file follows: generate before its last save, or change_password
\* between the two files.
<1>7. ASSUME steps.at # Len(Saves(steps.what))
      PROVE  FilesInv'
  <2>1. /\ steps' = [steps EXCEPT !.at = @ + 1, !.written = FALSE] /\ purse' = purse
      BY <1>7 DEF ReplaceFile
  <2>2. \/ steps.what = "generate" /\ steps.at = 1 /\ Saving(steps) = "keys"
        \/ steps.what = "generate" /\ steps.at = 2 /\ Saving(steps) = "cache"
        \/ steps.what = "change_password" /\ steps.at = 1 /\ Saving(steps) = "keys"
      BY <1>1, <1>7, SavingCases, Zenon
  <2>3. /\ steps'.what = steps.what /\ steps'.at = steps.at + 1 /\ steps'.written = FALSE
        /\ steps'.pw = steps.pw
      BY <2>1, <1>1 DEF RunningSteps
  <2>4. steps' \in RunningSteps
    <3>1. steps.at + 1 \in 1 .. 3
        BY <2>2
    <3>2. \A k \in 1 .. 3 : [steps EXCEPT !.at = k, !.written = FALSE] \in RunningSteps
        BY <1>1, Zenon DEF RunningSteps
    <3> QED
        BY <2>1, <3>1, <3>2, Zenon
  <2>5. FilesTyped'
      BY <1>1, <1>5, <2>1, <2>4 DEF FilesTyped
  <2>6. StepsMatch'
    <3>1. steps'.at <= Len(Saves(steps'.what))
      <4>1. steps.at < Len(Saves(steps.what))
        <5>1. Len(Saves("generate")) = 3 /\ Len(Saves("change_password")) = 2
            BY SavesAre
        <5>2. 1 < 3 /\ 2 < 3 /\ 1 < 2
            OBVIOUS
        <5>3. CASE steps.what = "generate" /\ (steps.at = 1 \/ steps.at = 2)
            BY <5>1, <5>2, <5>3, Zenon
        <5>4. CASE steps.what = "change_password" /\ steps.at = 1
            BY <5>1, <5>2, <5>4, Zenon
        <5> QED
            BY <5>3, <5>4, <2>2
      <4>2. steps.at \in Nat /\ Len(Saves(steps.what)) \in Nat
          BY <1>1, <2>2, SavingCases
      <4> QED
          BY <2>3, <4>1, <4>2
    <3>2. steps'.what = "change_password" => files'["keys"].pw = steps'.pw
        BY <2>2, <2>3, <1>3
    <3>3. steps'.pw = purse'.pw /\ steps'.what # "rewrite" /\ purse' # NoPurse
        BY <2>1, <2>2, <2>3, <1>1, <1>2, ContentsDiffer
    <3> QED
        BY <2>3, <3>1, <3>2, <3>3 DEF StepsMatch
  <2>7. ~NoKeysYet' /\ files'["keys"] # Absent
    <3>1. steps'.at # 1
        BY <2>2, <2>3
    <3>2. CASE Saving(steps) = "keys"
        BY <3>1, <3>2, <1>3, ContentsDiffer DEF NoKeysYet
    <3>3. CASE steps.at = 2 /\ Saving(steps) = "cache"
        BY <3>1, <3>3, <1>1, <1>4, ContentsDiffer DEF FilesInv, KeysFirst, NoKeysYet
    <3> QED
        BY <2>2, <3>2, <3>3
  <2>8. KeysFirst'
      BY <2>7 DEF KeysFirst
  <2>9. OnePassword'
    <3> SUFFICES ASSUME steps.what = "generate", torn = FALSE
                 PROVE  /\ files'["keys"].pw = purse.pw
                        /\ files'["cache"] # Absent => files'["cache"].pw = files'["keys"].pw
        BY <1>1, <2>1, <2>2, <2>3, Zenon DEF OnePassword
    <3>1. steps.pw = purse.pw
        BY <1>2
    <3>2. CASE steps.at = 1 /\ Saving(steps) = "keys"
      <4>1. files["cache"] = Absent
          BY <3>2 DEF FilesInv, KeysFirst, NoKeysYet
      <4> QED
          BY <3>1, <3>2, <4>1, <1>3
    <3>3. CASE steps.at = 2 /\ Saving(steps) = "cache"
      <4>1. files["keys"].pw = purse.pw
          BY <3>3, <1>1, ContentsDiffer DEF FilesInv, OnePassword, NoKeysYet
      <4> QED
          BY <3>1, <3>3, <4>1, <1>4
    <3> QED
        BY <2>2, <3>2, <3>3
  <2> QED
      BY <2>5, <2>6, <2>8, <2>9 DEF FilesInv
<1> QED
    BY <1>6, <1>7

\* A call fails, or the process dies: what was in place stays in place.
LEMMA InterruptedStep ==
    ASSUME FilesInv, CallFails \/ Crash
    PROVE  FilesInv'
<1>1. steps' = FilesIdle /\ torn' = (torn \/ steps.what = "change_password") /\ torn' \in BOOLEAN
    BY Zenon DEF CallFails, Crash, Interrupted
<1>2. purse' \in {purse, NoPurse} /\ (steps.what = "generate" => purse' = NoPurse)
    BY DEF CallFails, Crash
<1>3. purse' \in {NoPurse} \cup OpenPurse
    BY <1>2 DEF FilesInv, FilesTyped
<1>4. \/ files' = files
      \/ files' = [files EXCEPT !["keys.new"] = Absent]
      \/ steps # FilesIdle /\ files' = [files EXCEPT ![New(Saving(steps))] = Partial]
    BY DEF CallFails, Crash
<1>5. FilesTyped' /\ files'["keys"] = files["keys"] /\ files'["cache"] = files["cache"]
  <2>1. CASE files' = files
      BY <2>1, <1>1, <1>3 DEF FilesInv, FilesTyped
  <2>2. CASE files' = [files EXCEPT !["keys.new"] = Absent]
    <3>1. Absent \in {Absent, Partial} \cup WholeKeys
        OBVIOUS
    <3> QED
        BY <2>2, <3>1, <1>1, <1>3, NewFileTyped, Zenon
  <2>3. CASE steps # FilesIdle /\ files' = [files EXCEPT ![New(Saving(steps))] = Partial]
    <3>1. New(Saving(steps)) \in {"keys.new", "cache.new"}
        BY DEF New
    <3>2. Partial \in {Absent, Partial} \cup WholeKeys /\ Partial \in {Absent, Partial} \cup WholeCache
        OBVIOUS
    <3> QED
        BY <2>3, <3>1, <3>2, <1>1, <1>3, NewFileTyped, Zenon
  <2> QED
      BY <1>4, <2>1, <2>2, <2>3
<1> QED
    BY <1>1, <1>2, <1>5, DropStep

-----------------------------------------------------------------------------
\* FilesInv holds initially, every step keeps it, and it implies FilesSound.
LEMMA FilesInvariant == FilesSpec => []FilesInv
<1>1. FilesInit => FilesInv
    BY ContentsDiffer, Zenon DEF FilesInit, FilesInv, FilesTyped, StepsMatch, KeysFirst, OnePassword,
                          NoKeysYet, FileNames
<1>2. FilesInv /\ [FilesNext]_fileVars => FilesInv'
  <2> SUFFICES ASSUME FilesInv, [FilesNext]_fileVars PROVE FilesInv'
      OBVIOUS
  <2>1. ASSUME NEW pw \in Passwords, NEW look \in Lookaheads, Generate(pw, look) PROVE FilesInv'
      BY <2>1, GenerateStep
  <2>2. ASSUME NEW pw \in Passwords, Load(pw) PROVE FilesInv'
      BY <2>2, LoadStep
  <2>3. Ready => purse \in OpenPurse
      BY ContentsDiffer DEF FilesInv, FilesTyped, Ready
  <2>4. purse \in OpenPurse =>
            /\ purse.pw \in Passwords /\ purse.look \in Lookaheads /\ purse.book \in GoodBooks
            /\ purse.book.labels \in Seq(Nat) /\ purse.book.rows \subseteq Index
            /\ purse.open = TRUE
      BY Zenon DEF OpenPurse, GoodBooks
  <2>5. ASSUME NEW new \in Passwords, ChangePassword(new) PROVE FilesInv'
    <3>1. purse' \in OpenPurse /\ purse'.pw = new
        BY <2>3, <2>5, Zenon DEF ChangePassword, OpenPurse
    <3> QED
        BY <3>1, <2>5, BeginStep DEF ChangePassword, Operations
  <2>6. ASSUME NEW look \in Lookaheads, SetSubaddressLookahead(look) PROVE FilesInv'
    <3>1. purse' \in OpenPurse /\ purse'.pw = purse.pw
        BY <2>3, <2>6, Zenon DEF SetSubaddressLookahead, OpenPurse
    <3>2. files["keys"].pw \in Passwords
        BY <2>6 DEF FilesInv, FilesTyped, SetSubaddressLookahead, Absent, WholeKeys
    <3> QED
        BY <3>1, <3>2, <2>6, BeginStep DEF SetSubaddressLookahead, Operations
  <2>7. ASSUME Store \/ CloseWallet PROVE FilesInv'
    <3>1. Ready /\ UNCHANGED <<files, purse, torn>>
        BY <2>7 DEF Store, CloseWallet
    <3>2. purse' \in OpenPurse /\ purse'.pw = purse.pw /\ purse.pw \in Passwords
        BY <3>1, <2>3, <2>4
    <3>3. CASE Store
        BY <3>1, <3>2, <3>3, BeginStep DEF Store, Operations
    <3>4. CASE CloseWallet
        BY <3>1, <3>2, <3>4, BeginStep DEF CloseWallet, Operations
    <3> QED
        BY <2>7, <3>3, <3>4
  <2>8. ASSUME AddSubaddressAccount PROVE FilesInv'
    <3>1. Ready /\ purse.book \in GoodBooks /\ purse.look \in Lookaheads /\ Len(purse.book.labels) \in Nat
        BY <2>8, <2>3, <2>4 DEF AddSubaddressAccount
    <3>2. ExpandSubaddresses(purse.book, purse.look, [major |-> Len(purse.book.labels), minor |-> 0])
              \in GoodBooks
        BY <3>1, ExpandGood DEF Index
    <3> QED
        BY <3>1, <3>2, <2>8, BookStep DEF AddSubaddressAccount
  <2>9. ASSUME NEW a \in 0 .. MaxIndex, AddSubaddress(a) PROVE FilesInv'
    <3>1. Ready /\ purse.book \in GoodBooks /\ purse.look \in Lookaheads
        BY <2>9, <2>3, <2>4 DEF AddSubaddress
    <3>2. Labelled(purse.book, a) \in Nat
        BY <3>1, <2>3, <2>4 DEF Labelled
    <3>3. ExpandSubaddresses(purse.book, purse.look, [major |-> a, minor |-> Labelled(purse.book, a)])
              \in GoodBooks
        BY <3>1, <3>2, ExpandGood DEF Index
    <3> QED
        BY <3>1, <3>3, <2>9, BookStep DEF AddSubaddress
  <2>10. ASSUME NEW i \in purse.book.rows, ReceiveAt(i) PROVE FilesInv'
    <3>1. Ready /\ purse.book \in GoodBooks /\ purse.look \in Lookaheads /\ i \in Index
        BY <2>10, <2>3, <2>4 DEF ReceiveAt
    <3>2. ExpandSubaddresses(purse.book, purse.look, i) \in GoodBooks
        BY <3>1, ExpandGood
    <3> QED
        BY <3>1, <3>2, <2>10, BookStep DEF ReceiveAt
  <2>11. ASSUME RescanHard PROVE FilesInv'
    <3>1. Ready /\ purse.look \in Lookaheads
        BY <2>11, <2>3, <2>4 DEF RescanHard
    <3>2. ExpandSubaddresses(EmptyBook, purse.look, [major |-> 0, minor |-> 0]) \in GoodBooks
        BY <3>1, EmptyBookGood, ExpandGood DEF Index
    <3> QED
        BY <3>1, <3>2, <2>11, BookStep DEF RescanHard
  <2>12. ASSUME UNCHANGED fileVars PROVE FilesInv'
      BY <2>12 DEF fileVars, FilesInv, FilesTyped, StepsMatch, KeysFirst, OnePassword, NoKeysYet
  <2> QED
      BY <2>1, <2>2, <2>5, <2>6, <2>7, <2>8, <2>9, <2>10, <2>11, <2>12,
         WriteNewStep, ReplaceFileStep, InterruptedStep DEF FilesNext
<1> QED
    BY <1>1, <1>2, PTL DEF FilesSpec

\* Whatever operations run, wherever the process dies and whichever system
\* call fails: there is a whole keys file once there is one, the two files
\* open with one password unless a password change was interrupted, and the
\* scan recognises every address that was handed out (generate, load,
\* store_to, store_keys, change_password, rewrite, expand_subaddresses).
THEOREM FilesSurvive == FilesSpec => []FilesSound
<1>1. FilesInv => FilesSound
  <2> SUFFICES ASSUME FilesInv PROVE FilesSound
      OBVIOUS
  <2>1. KeysSurvive
    <3>1. files["keys"] = Absent \/ files["keys"].st = "whole"
        BY ContentsDiffer DEF FilesInv, FilesTyped
    <3> QED
        BY <3>1 DEF KeysSurvive, FilesInv, KeysFirst, Absent
  <2>2. CacheOpens
    <3> SUFFICES ASSUME steps = FilesIdle, ~torn, files["cache"] # Absent
                 PROVE  files["cache"].st = "whole" /\ files["cache"].pw = files["keys"].pw
        BY DEF CacheOpens
    <3>1. steps.what # "change_password"
        BY ContentsDiffer
    <3> QED
        BY <3>1, ContentsDiffer DEF FilesInv, FilesTyped, OnePassword
  <2>3. WindowHolds
      BY ContentsDiffer, Zenon DEF FilesInv, FilesTyped, WindowHolds, OpenPurse, GoodBooks
  <2> QED
      BY <2>1, <2>2, <2>3 DEF FilesSound
<1> QED
    BY <1>1, FilesInvariant, PTL

=============================================================================
