------------------------------- MODULE Miner -------------------------------
(***************************************************************************)
(* The miner (cryptonote/miner) and the threads that meet in it: its       *)
(* worker, the RPC thread that starts and stops it, the thread that        *)
(* reports that the node is synchronized, a peer's thread that handles a   *)
(* new block, and the idle timer that refreshes the block template.        *)
(*                                                                         *)
(* A block template is known by the block it builds on, a number `tip`;    *)
(* the difficulty that goes with it by the same number. What a hash is,    *)
(* and so whether a nonce solves the template, is a choice. m_template_no  *)
(* is abstracted to what the worker finds out by comparing it: whether a   *)
(* template was ever set, and whether one was set since the worker's last  *)
(* copy. Hash rates, which are only reported, are left out.                *)
(***************************************************************************)
EXTENDS Integers

CONSTANTS
  MaxTip,   \* blocks the chain grows by
  OpenCL,   \* built with the GPU worker: a Boolean
  Nil,
  Torn      \* a difficulty read while it was being written

ASSUME MaxTipAssumption == MaxTip \in Nat

Thread == {"rpc", "sync", "peer", "idle", "worker"}
Tips == 0 .. MaxTip

ASSUME NilAssumption == Nil \notin Tips /\ Nil \notin Thread

VARIABLES
  tip,               \* the top of the main chain
  m_stop,
  m_pauser,
  m_thread,          \* m_thread holds a thread
  m_template,        \* Nil before the first set_block_template
  m_diff,
  local_template_ver,\* the worker's: "none", "old" or "current"
  b, local_diff,     \* the worker's copies
  gpu,               \* the worker is opencl_miner
  m_thread_lock,
  m_template_lock,
  incoming,          \* holder of m_incoming_tx_lock and the pool lock
  pc,                \* [Thread -> where the thread is]
  tmpl,              \* [Thread -> the template it asked for]
  synchronized,      \* on_synchronized was called
  threw              \* an exception has passed a pause without a resume, or ended
                     \* the worker, or the worker returned by itself

minerVars == <<m_stop, m_thread, gpu, m_thread_lock, synchronized>>
templateVars == <<m_template, m_diff, m_template_lock, tmpl>>
workVars == <<local_template_ver, b, local_diff>>
allMinerVars == <<tip, m_pauser, minerVars, templateVars, workVars, incoming, pc, threw>>

MinerInit ==
  /\ tip = 0
  /\ m_stop = TRUE /\ m_pauser = FALSE /\ m_thread = FALSE /\ gpu = FALSE
  /\ m_template = Nil /\ m_diff = Nil
  /\ local_template_ver = "none" /\ b = Nil /\ local_diff = Nil
  /\ m_thread_lock = Nil /\ m_template_lock = Nil /\ incoming = Nil
  /\ pc = [t \in Thread |-> IF t = "worker" THEN "off" ELSE "idle"]
  /\ tmpl = [t \in Thread |-> Nil]
  /\ synchronized = FALSE /\ threw = FALSE

At(t, place) == pc[t] = place
Goto(t, place) == pc' = [pc EXCEPT ![t] = place]
is_mining == ~m_stop

(***************************************************************************)
(* request_block_template and set_block_template                           *)
(***************************************************************************)

(* Where each thread goes on after its call.                               *)
GoesOnAt(t) ==
  CASE t \in {"rpc", "sync"} -> "go" [] t = "worker" -> "resume"
    [] t = "peer" -> "cleanup"       [] t = "idle" -> "idle"

(* get_block_template, under the locks of the pool and the blockchain.     *)
GetBlockTemplate(t) ==
  /\ At(t, "get") /\ incoming \in {Nil, t}
  /\ tmpl' = [tmpl EXCEPT ![t] = tip]
  /\ Goto(t, "set")
  /\ UNCHANGED <<tip, m_pauser, minerVars, m_template, m_diff, m_template_lock, workVars,
                 incoming, threw>>

(* It fails: the template stays as it is, and no caller looks at the       *)
(* result.                                                                 *)
GetBlockTemplateFails(t) ==
  /\ At(t, "get") /\ incoming \in {Nil, t}
  /\ Goto(t, GoesOnAt(t))
  /\ UNCHANGED <<tip, m_pauser, minerVars, templateVars, workVars, incoming, threw>>

MutBump(v) == v

(* ++m_template_no, as the worker's comparison will see it.                *)
Bump(v) == IF v = "current" THEN "old" ELSE v

(* set_block_template in two steps, for m_diff is read without the lock.   *)
SetBlockTemplate(t) ==
  /\ At(t, "set") /\ m_template_lock = Nil
  /\ m_template_lock' = t
  /\ m_template' = tmpl[t]
  /\ Goto(t, "bump")
  /\ UNCHANGED <<tip, m_pauser, minerVars, m_diff, tmpl, workVars, incoming, threw>>

BumpTemplateNo(t) ==
  /\ At(t, "bump")
  /\ m_diff' = tmpl[t]
  /\ local_template_ver' = Bump(local_template_ver)
  /\ m_template_lock' = Nil
  /\ tmpl' = [tmpl EXCEPT ![t] = Nil]
  /\ Goto(t, GoesOnAt(t))
  /\ UNCHANGED <<tip, m_pauser, minerVars, m_template, b, local_diff, incoming, threw>>

Request(t) == GetBlockTemplate(t) \/ SetBlockTemplate(t) \/ BumpTemplateNo(t)

(***************************************************************************)
(* start and stop                                                          *)
(***************************************************************************)

(* on_start_mining looks at is_synchronized and is_mining first;           *)
(* on_synchronized, called once, starts the miner when the node was told   *)
(* to mine.                                                                *)
OnStartMining ==
  /\ At("rpc", "idle") /\ synchronized /\ ~is_mining
  /\ Goto("rpc", "start")
  /\ UNCHANGED <<tip, m_pauser, minerVars, templateVars, workVars, incoming, threw>>

OnSynchronized ==
  /\ At("sync", "idle") /\ ~synchronized
  /\ synchronized' = TRUE
  /\ Goto("sync", "start")
  /\ UNCHANGED <<tip, m_pauser, m_stop, m_thread, gpu, m_thread_lock, templateVars, workVars,
                 incoming, threw>>

MutMayStart == ~is_mining

MayStart == ~is_mining /\ ~m_thread

Start(t) ==
  /\ At(t, "start") /\ m_thread_lock = Nil
  /\ IF MayStart THEN m_thread_lock' = t /\ Goto(t, "get")
             ELSE Goto(t, "idle") /\ UNCHANGED m_thread_lock
  /\ UNCHANGED <<tip, m_pauser, m_stop, m_thread, gpu, synchronized, templateVars, workVars,
                 incoming, threw>>

ClearStop(t) ==
  /\ At(t, "go")
  /\ m_stop' = FALSE
  /\ Goto(t, "launch")
  /\ UNCHANGED <<tip, m_pauser, m_thread, gpu, m_thread_lock, synchronized, templateVars,
                 workVars, incoming, threw>>

(* The worker's locals are initialized when its thread begins.             *)
LaunchThread(t) ==
  /\ At(t, "launch")
  /\ m_thread' = TRUE
  /\ gpu' \in (IF OpenCL THEN BOOLEAN ELSE {FALSE})
  /\ local_template_ver' = "none" /\ b' = Nil /\ local_diff' = Nil
  /\ m_thread_lock' = Nil
  /\ pc' = [pc EXCEPT ![t] = "idle", !["worker"] = "loop"]
  /\ UNCHANGED <<tip, m_pauser, m_stop, synchronized, templateVars, incoming, threw>>

(* stop, which takes no lock. The RPC server has one thread, and the       *)
(* daemon stops it before it stops the core: there is one caller at a      *)
(* time.                                                                   *)
OnStopMining ==
  /\ At("rpc", "idle") /\ is_mining /\ m_thread
  /\ Goto("rpc", "stop")
  /\ UNCHANGED <<tip, m_pauser, minerVars, templateVars, workVars, incoming, threw>>

SendStopSignal ==
  /\ At("rpc", "stop")
  /\ m_stop' = TRUE
  /\ Goto("rpc", "join")
  /\ UNCHANGED <<tip, m_pauser, m_thread, gpu, m_thread_lock, synchronized, templateVars,
                 workVars, incoming, threw>>

Join ==
  /\ At("rpc", "join") /\ At("worker", "done")
  /\ m_thread' = FALSE
  /\ pc' = [pc EXCEPT !["rpc"] = "idle", !["worker"] = "off"]
  /\ gpu' = FALSE /\ local_template_ver' = "none" /\ b' = Nil /\ local_diff' = Nil
  /\ UNCHANGED <<tip, m_pauser, m_stop, m_thread_lock, synchronized, templateVars, incoming,
                 threw>>

(***************************************************************************)
(* The worker                                                              *)
(***************************************************************************)

(* The loop's test of m_stop comes before that of m_pauser.                *)
WorkerStops ==
  /\ At("worker", "loop") /\ m_stop
  /\ Goto("worker", "done")
  /\ UNCHANGED <<tip, m_pauser, minerVars, templateVars, workVars, incoming, threw>>

KeepsMining == At("worker", "loop") /\ ~m_stop /\ ~m_pauser

(* The copy made under the template lock.                                  *)
TakeTemplate == IF local_template_ver = "current" THEN b ELSE m_template

MustCopy == m_template # Nil /\ local_template_ver # "current"

(* worker_thread: a new template is copied under the lock, the difficulty  *)
(* is read afterwards and without it.                                      *)
CopyTemplate ==
  /\ KeepsMining /\ ~gpu
  /\ MustCopy => m_template_lock = Nil
  /\ b' = TakeTemplate
  /\ local_template_ver' = IF m_template = Nil THEN "none" ELSE "current"
  /\ Goto("worker", "read")
  /\ UNCHANGED <<tip, m_pauser, minerVars, templateVars, local_diff, incoming, threw>>

(* What a read of m_diff may give while another thread writes it.          *)
DiffSeen ==
  IF m_template_lock # Nil /\ m_diff # m_template THEN {m_diff, m_template, Torn} ELSE {m_diff}

(* An exception leaves the worker's thread: the process ends, and is       *)
(* started again on the chain it stored.                                   *)
Terminate ==
  /\ m_stop' = TRUE /\ m_pauser' = FALSE /\ m_thread' = FALSE /\ gpu' = FALSE
  /\ m_template' = Nil /\ m_diff' = Nil
  /\ local_template_ver' = "none" /\ b' = Nil /\ local_diff' = Nil
  /\ m_thread_lock' = Nil /\ m_template_lock' = Nil /\ incoming' = Nil
  /\ pc' = [t \in Thread |-> IF t = "worker" THEN "off" ELSE "idle"]
  /\ tmpl' = [t \in Thread |-> Nil]
  /\ synchronized' = FALSE /\ threw' = TRUE
  /\ UNCHANGED tip

(* max_int_for_diff divides by the difficulty before the worker looks      *)
(* whether a template was ever set: with none the division throws, and     *)
(* nothing catches it.                                                     *)
ReadDifficulty ==
  /\ At("worker", "read")
  /\ local_diff' \in DiffSeen \ {Nil}
  /\ Goto("worker", IF local_template_ver = "none" THEN "loop" ELSE "hash")
  /\ UNCHANGED <<tip, m_pauser, minerVars, templateVars, local_template_ver, b, incoming,
                 threw>>

DivideByZero ==
  /\ At("worker", "read") /\ Nil \in DiffSeen
  /\ Terminate

(* opencl_miner: template and difficulty are copied together.              *)
CopyTemplateGpu ==
  /\ KeepsMining /\ gpu /\ m_template # Nil
  /\ MustCopy => m_template_lock = Nil
  /\ b' = TakeTemplate
  /\ local_diff' = IF MustCopy THEN m_diff ELSE local_diff
  /\ local_template_ver' = "current"
  /\ Goto("worker", "hash")
  /\ UNCHANGED <<tip, m_pauser, minerVars, templateVars, incoming, threw>>

(* The kernel does not build: the thread returns, and m_stop stays FALSE.  *)
GpuFails ==
  /\ At("worker", "loop") /\ gpu /\ local_template_ver = "none"
  /\ Goto("worker", "done")
  /\ threw' = TRUE
  /\ UNCHANGED <<tip, m_pauser, minerVars, templateVars, workVars, incoming>>

(* One hash, or one round of the GPU: it meets local_diff or not.          *)
HashMisses ==
  /\ At("worker", "hash")
  /\ Goto("worker", "loop")
  /\ UNCHANGED <<tip, m_pauser, minerVars, templateVars, workVars, incoming, threw>>

HashFinds ==
  /\ At("worker", "hash") /\ tip < MaxTip
  /\ m_pauser' = TRUE
  /\ Goto("worker", "prepare")
  /\ UNCHANGED <<tip, minerVars, templateVars, workVars, incoming, threw>>

(***************************************************************************)
(* Blocks: core::handle_block_found by the worker, and                     *)
(* handle_notify_new_block by the peer's thread. Both pause the miner and  *)
(* hold the incoming lock from prepare to cleanup.                         *)
(***************************************************************************)
Handler == {"worker", "peer"}

NotifyNewBlock ==
  /\ At("peer", "idle") /\ synchronized /\ tip < MaxTip
  /\ m_pauser' = TRUE
  /\ Goto("peer", "prepare")
  /\ UNCHANGED <<tip, minerVars, templateVars, workVars, incoming, threw>>

Prepare(t) ==
  /\ At(t, "prepare") /\ incoming = Nil
  /\ incoming' = t
  /\ Goto(t, "add")
  /\ UNCHANGED <<tip, m_pauser, minerVars, templateVars, workVars, threw>>

AfterFailure(t) == "resume"

(* The found block's transactions are not all there, the batch does not    *)
(* start, or a transaction of the peer's block is not valid.               *)
PrepareFails(t) ==
  /\ At(t, "prepare")
  /\ Goto(t, AfterFailure(t))
  /\ UNCHANGED <<tip, m_pauser, minerVars, templateVars, workVars, incoming, threw>>

(* An exception out of prepare_handle_incoming_blocks leaves the peer's    *)
(* handler without resume_mine, and ends the process when it is the        *)
(* worker's.                                                               *)
PrepareThrows ==
  /\ At("peer", "prepare") /\ incoming = Nil
  /\ threw' = TRUE
  /\ Goto("peer", "idle")
  /\ UNCHANGED <<tip, m_pauser, minerVars, templateVars, workVars, incoming>>

FoundThrows == At("worker", "prepare") /\ incoming = Nil /\ Terminate

(* The worker's block extends the chain when its parent still is the top   *)
(* and its hash meets the parent's difficulty, which is not sure when it   *)
(* was compared with another.                                              *)
Meets == IF local_diff = b THEN {TRUE} ELSE BOOLEAN

Extends == b = tip

AddFound(good) ==
  /\ At("worker", "add")
  /\ good \in Meets
  /\ tip' = IF good /\ Extends THEN tip + 1 ELSE tip
  /\ incoming' = Nil
  /\ Goto("worker", IF is_mining THEN "get" ELSE "resume")
  /\ UNCHANGED <<m_pauser, minerVars, templateVars, workVars, threw>>

(* The peer's block may be refused, or be one that was known; when it is   *)
(* added the template is asked for before cleanup.                         *)
AddReceived(good) ==
  /\ At("peer", "add")
  /\ tip' = IF good /\ tip < MaxTip THEN tip + 1 ELSE tip
  /\ Goto("peer", IF good /\ is_mining THEN "get" ELSE "cleanup")
  /\ UNCHANGED <<m_pauser, minerVars, templateVars, workVars, incoming, threw>>

Cleanup ==
  /\ At("peer", "cleanup")
  /\ incoming' = Nil
  /\ Goto("peer", "resume")
  /\ UNCHANGED <<tip, m_pauser, minerVars, templateVars, workVars, threw>>

Resume(t) ==
  /\ At(t, "resume")
  /\ m_pauser' = FALSE
  /\ Goto(t, IF t = "worker" THEN "loop" ELSE "idle")
  /\ UNCHANGED <<tip, minerVars, templateVars, workVars, incoming, threw>>

MutOnIdle ==
  /\ At("idle", "idle") /\ is_mining /\ m_template = Nil
  /\ Goto("idle", "get")
  /\ UNCHANGED <<tip, m_pauser, minerVars, templateVars, workVars, incoming, threw>>

(* on_idle: every five seconds a mining node asks for a new template.      *)
OnIdle ==
  /\ At("idle", "idle") /\ is_mining
  /\ Goto("idle", "get")
  /\ UNCHANGED <<tip, m_pauser, minerVars, templateVars, workVars, incoming, threw>>

WorkerStep ==
  \/ WorkerStops \/ CopyTemplate \/ ReadDifficulty \/ DivideByZero \/ CopyTemplateGpu
  \/ HashMisses

Handling(t) ==
  \/ Prepare(t) \/ Resume(t)
  \/ t = "worker" /\ \E good \in BOOLEAN : AddFound(good)
  \/ t = "peer" /\ (Cleanup \/ \E good \in BOOLEAN : AddReceived(good))

Control(t) == Start(t) \/ ClearStop(t) \/ LaunchThread(t)

Run(t) ==
  \/ Request(t)
  \/ t \in {"rpc", "sync"} /\ Control(t)
  \/ t = "rpc" /\ (SendStopSignal \/ Join)
  \/ t = "worker" /\ WorkerStep
  \/ t \in Handler /\ Handling(t)

MinerNext ==
  \/ \E t \in Thread : Run(t) \/ GetBlockTemplateFails(t)
  \/ OnStartMining \/ OnSynchronized \/ OnStopMining
  \/ GpuFails \/ HashFinds
  \/ NotifyNewBlock \/ PrepareThrows \/ FoundThrows
  \/ \E t \in Handler : PrepareFails(t)
  \/ OnIdle

MinerSpec == MinerInit /\ [][MinerNext]_allMinerVars

(* Every thread that can go on does; the idle timer fires again and again; *)
(* a lock that is freed again and again is obtained; a template that is    *)
(* asked for again and again is delivered in the end.                      *)
MinerFairness ==
  /\ \A t \in Thread : SF_allMinerVars(Run(t))
  /\ WF_allMinerVars(OnIdle)

MinerFairSpec == MinerSpec /\ MinerFairness

(***************************************************************************)
(* Properties                                                              *)
(***************************************************************************)
Running == pc["worker"] \notin {"off", "done"}

Place == {"off", "idle", "start", "get", "set", "bump", "go", "launch", "stop", "join",
          "loop", "read", "hash", "prepare", "add", "cleanup", "resume", "done"}

(* The miner's fields and its threads' places.                             *)
MinerTypeOK ==
  /\ tip \in Tips /\ {m_template, m_diff, b} \subseteq Tips \cup {Nil}
  /\ local_diff \in Tips \cup {Nil, Torn}
  /\ {m_stop, m_pauser, m_thread, gpu, synchronized, threw} \subseteq BOOLEAN
  /\ local_template_ver \in {"none", "old", "current"}
  /\ m_thread_lock \in {"rpc", "sync", Nil} /\ m_template_lock \in Thread \cup {Nil}
  /\ incoming \in Handler \cup {Nil}
  /\ pc \in [Thread -> Place] /\ tmpl \in [Thread -> Tips \cup {Nil}]

(* m_thread never lets go of, and start never replaces, a thread that is   *)
(* still running: the worker is in m_thread, and was told to stop only by  *)
(* a thread that waits for it.                                             *)
OneWorker ==
  /\ Running => m_thread
  /\ m_thread /\ m_stop => pc["rpc"] = "join"
  /\ \A t \in {"rpc", "sync"} : pc[t] \in {"go", "launch"} => ~m_thread /\ pc["worker"] = "off"

(* A hash is never spent on a template that had been replaced when the     *)
(* worker last compared template numbers: what the worker holds is the     *)
(* miner's template unless one has been set since.                         *)
WorksOnTemplate ==
  local_template_ver = "current" /\ m_template_lock = Nil => b = m_template

(* stop returns: the worker leaves its loop, whatever it was doing.        *)
StopReturns == (pc["rpc"] = "join") ~> (pc["rpc"] = "idle")

(* The miner is not left paused by those who handle blocks, whatever their *)
(* outcome, unless an exception leaves the peer's handler.                 *)
PauseEnds == []~threw => (m_pauser ~> ~m_pauser)

(* A template requested before a block arrived may be set after the one    *)
(* requested for it, yet the miner does not stay on the old one: once the  *)
(* chain stays as it is, a node that goes on mining hashes templates that  *)
(* build on its top, tested against the difficulty that goes with them.    *)
EventuallyFresh ==
  []~threw /\ <>[](is_mining /\ ~m_pauser) =>
    \A n \in Tips : <>[](tip = n) => []<>(pc["worker"] = "hash" /\ b = n /\ local_diff = n)

(* Whoever waits for the miner is served: a stop, a pause, a new template. *)
MinerProgress == StopReturns /\ PauseEnds /\ EventuallyFresh

=============================================================================
