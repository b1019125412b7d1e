----------------------------- MODULE Scheduler -----------------------------
(***************************************************************************)
(* The MATRIX schedulers at work: what happens between the moment every    *)
(* task of the workload is in some wait queue (wait_all_task_recv returns  *)
(* in every scheduler) and the moment every scheduler has cleared its      *)
(* running flag.                                                           *)
(*                                                                         *)
(* Each scheduler is a process with these threads:                         *)
(*   crt   checking_ready_task, moves ready tasks out of the wait queue    *)
(*   core  executing_task, one per core, executes ready tasks              *)
(*   cct   checking_complete_task, decreases the children's indegrees      *)
(*   ws    workstealing, steals from a loaded neighbour                    *)
(*   mon   localQueue_monitor, moves local tasks to the stealable queue    *)
(*   rs    recording_stat, counts finished tasks and stops the scheduler   *)
(* and the handler of its epoll server, proc_req.  The schedulers share    *)
(* the metadata of the tasks and the counter "num tasks done", which live  *)
(* in ZHT; a ZHT operation is one atomic step of the single-threaded ZHT   *)
(* server.                                                                 *)
(*                                                                         *)
(* The priority queues and the complete queue are sets (no task is ever    *)
(* queued twice, see OnePlace); a pop from a priority queue takes a task   *)
(* that Tops allows.  The wait queue is a set too: crt cycles through the  *)
(* deque, and a check that finds a task not ready puts it back and changes *)
(* nothing, so only the successful checks are steps.                       *)
(***************************************************************************)
EXTENDS Integers, FiniteSets, FiniteSetsExt

CONSTANTS
    Schedulers,         \* the schedulers of the membership list
    Cores,              \* the executing threads of one scheduler
    Tasks,              \* the task ids of the workload
    None,               \* no task, no scheduler, no data name
    Children,           \* [Tasks -> SUBSET Tasks], the DAG's adjacency list
    Submission,         \* the ways the client may have dealt the tasks out
    OutputSize,         \* [Tasks -> Nat], Value.outputsize of each task
    DataSizeThreshold,  \* config: tasks with more input are not stealable
    WorkStealingOn,     \* config: fork the work stealing thread
    FLWS,               \* config: Policy is FLWS, fork the queue monitor
    NumNeigh,           \* number of neighbours a thief polls
    MaxTaskPerPkg,      \* config: most tasks in one package of a message
    PollLimit           \* doublings that bring the poll interval to its bound

ASSUME SchedulersAssumption ==
    /\ IsFiniteSet(Schedulers)
    /\ None \notin Schedulers

(* The names of the threads and places that are not cores, see below. *)
Kinds == {"wait", "crt", "local", "ws", "mon", "conn", "ran", "cct", "rs"}

ASSUME CoresAssumption == Cores \intersect Kinds = {}

ASSUME TasksAssumption ==
    /\ IsFiniteSet(Tasks)
    /\ None \notin Tasks
    /\ Children \in [Tasks -> SUBSET Tasks]
    /\ Submission \subseteq [Tasks -> Schedulers]
    /\ OutputSize \in [Tasks -> Nat]

ASSUME ConfigAssumption ==
    /\ DataSizeThreshold \in Nat
    /\ WorkStealingOn \in BOOLEAN
    /\ FLWS \in BOOLEAN
    /\ NumNeigh \in Nat
    /\ MaxTaskPerPkg \in Nat \ {0}
    /\ PollLimit \in Nat

VARIABLES
    zht,            \* task metadata: indegree, notes, alldatasize
    numTasksDone,   \* the ZHT counter "num tasks done"
    waitQueue, localQueue, wsQueue, completeQueue,
    localData,      \* what the map localData holds under each data name
    crt, core, cct, ws, migrating, rs,   \* the threads' local state
    sockMutex,      \* is sockMutex locked, per process
    conn,           \* the connection its holder has open to another scheduler
    numTaskFin, prevNumTaskFin, running,
    reported        \* history: the tasks counted into "num tasks done"

store  == <<zht, numTasksDone>>
queues == <<waitQueue, localQueue, wsQueue, completeQueue>>
net    == <<sockMutex, conn>>
counts == <<numTaskFin, prevNumTaskFin, running, reported>>
vars   == <<store, queues, localData, crt, core, cct, ws, migrating, rs, net,
            counts>>

-----------------------------------------------------------------------------
(* Values. *)

Parents(t) == {p \in Tasks : t \in Children[p]}

(* A data name is get_id() + taskid: the result of a task on a scheduler.  *)
DataName == Schedulers \X Tasks

(* The part of a task's Value that the schedulers change.  A note is one   *)
(* entry of the aligned lists parents, datanamelist and datasize: the data *)
(* name <<s, p>> of a parent p that ran on s, its size being OutputSize[p].*)
Metadata == [indegree : Int, notes : SUBSET DataName, alldatasize : Int]

Size(d) == OutputSize[d[2]]

NoMetadata == [indegree |-> 0, notes |-> {}, alldatasize |-> 0]

(* Mutant: the indegree is decreased before and again in the retry loop.   *)
NotifiedTwice(v, s, p) ==
    [indegree    |-> v.indegree - 2,
     notes       |-> v.notes \union {<<s, p>>},
     alldatasize |-> v.alldatasize + OutputSize[p]]

(* notify_children: the child's Value after parent p, run on s, is noted.  *)
Notified(v, s, p) ==
    [indegree    |-> v.indegree - 1,
     notes       |-> v.notes \union {<<s, p>>},
     alldatasize |-> v.alldatasize + OutputSize[p]]

(* task_ready_process: the parents with the largest data, one of which the *)
(* loop selects (the first in list order).                                 *)
MaxData(v) == {d \in v.notes : \A e \in v.notes : Size(e) <= Size(d)}

Stealable(v) == v.alldatasize <= DataSizeThreshold

(* The datalength that task_ready_process stores in the TaskMsg of t.  The *)
(* metadata of a ready task does not change any more (see ReadyIsFinal).   *)
DataLength(t) ==
    IF Stealable(zht[t]) THEN zht[t].alldatasize
                         ELSE Max({Size(d) : d \in zht[t].notes})

(* HighPriorityByDataSize: sets of n tasks that n pops from q can yield.   *)
Tops(q, n) ==
    {M \in SUBSET q : /\ Cardinality(M) = n
                      /\ \A t \in M, u \in q \ M : DataLength(t) <= DataLength(u)}

(* A scheduler has at most one connection to another scheduler open,       *)
(* because it is opened and closed under sockMutex.                        *)
Content == {"absent", "result", "error"}

Msg(type, peer, tasks, name, content, load) ==
    [type |-> type, peer |-> peer, tasks |-> tasks, name |-> name,
     content |-> content, load |-> load]

NoConn == Msg("none", None, {}, None, "absent", 0)

(* What the threads keep between two steps. *)
CrtAt(pc, task, val, to) == [pc |-> pc, task |-> task, val |-> val, to |-> to]

CoreAt(pc, task, todo, name) ==
    [pc |-> pc, task |-> task, todo |-> todo, name |-> name]

CctAt(pc, task, todo, child, snap) ==
    [pc |-> pc, task |-> task, todo |-> todo, child |-> child, snap |-> snap]

WsAt(pc, neigh, maxLoadedIdx, maxLoad, poll) ==
    [pc |-> pc, neigh |-> neigh, maxLoadedIdx |-> maxLoadedIdx,
     maxLoad |-> maxLoad, poll |-> poll]

NoLoad == -1          \* stands for the code's -1000000

IdleCrt      == CrtAt("idle", None, NoMetadata, None)
IdleCore     == CoreAt("idle", None, {}, None)
IdleCct      == CctAt("idle", None, {}, None, NoMetadata)
IdleWs(poll) == WsAt("idle", {}, None, NoLoad, poll)
IdleRs       == [pc |-> "look", expected |-> 0, attempt |-> 0]

-----------------------------------------------------------------------------
(* Every task is in one wait queue: bestcase deals them out, worstcase     *)
(* sends them all to one scheduler, and several clients mix the two.  The  *)
(* client has written indegree and children of every task into ZHT.        *)
Init ==
    /\ zht = [t \in Tasks |-> [indegree    |-> Cardinality(Parents(t)),
                               notes       |-> {},
                               alldatasize |-> 0]]
    /\ numTasksDone = 0
    /\ \E at \in Submission :
           waitQueue = [s \in Schedulers |-> {t \in Tasks : at[t] = s}]
    /\ localQueue = [s \in Schedulers |-> {}]
    /\ wsQueue = [s \in Schedulers |-> {}]
    /\ completeQueue = [s \in Schedulers |-> {}]
    /\ localData = [s \in Schedulers |-> [d \in DataName |-> "absent"]]
    /\ crt = [s \in Schedulers |-> IdleCrt]
    /\ core = [s \in Schedulers |-> [c \in Cores |-> IdleCore]]
    /\ cct = [s \in Schedulers |-> IdleCct]
    /\ ws = [s \in Schedulers |-> IdleWs(0)]
    /\ migrating = [s \in Schedulers |-> {}]
    /\ rs = [s \in Schedulers |-> IdleRs]
    /\ sockMutex = [s \in Schedulers |-> FALSE]
    /\ conn = [s \in Schedulers |-> NoConn]
    /\ numTaskFin = [s \in Schedulers |-> 0]
    /\ prevNumTaskFin = [s \in Schedulers |-> 0]
    /\ running = [s \in Schedulers |-> TRUE]
    /\ reported = {}

(* Mutant: the exchange is made without locking sockMutex. *)
OpenUnlocked(s, msg) ==
    /\ sockMutex' = [sockMutex EXCEPT ![s] = TRUE]
    /\ conn' = [conn EXCEPT ![s] = msg]

(* send_first: lock sockMutex, connect to the peer and send the request.   *)
Open(s, msg) ==
    /\ ~sockMutex[s]
    /\ sockMutex' = [sockMutex EXCEPT ![s] = TRUE]
    /\ conn' = [conn EXCEPT ![s] = msg]

(* Close the connection and unlock sockMutex. *)
Close(s) ==
    /\ sockMutex' = [sockMutex EXCEPT ![s] = FALSE]
    /\ conn' = [conn EXCEPT ![s] = NoConn]

(* proc_req of peer n answers the request of s on the same connection.     *)
Asked(n, s, type) == conn[s].type = type /\ conn[s].peer = n

Answer(s, msg) ==
    /\ conn' = [conn EXCEPT ![s] = msg]
    /\ UNCHANGED sockMutex

-----------------------------------------------------------------------------
(* crt: checking_ready_task, check_a_ready_task, task_ready_process.       *)

(* The lookup of a waiting task finds its indegree 0. *)
CrtLookup(s, t) ==
    /\ crt[s].pc = "idle"
    /\ t \in waitQueue[s]
    /\ ~sockMutex[s]
    /\ zht[t].indegree = 0
    /\ waitQueue' = [waitQueue EXCEPT ![s] = @ \ {t}]
    /\ crt' = [crt EXCEPT ![s] = CrtAt("ready", t, zht[t], None)]
    /\ UNCHANGED <<store, localQueue, wsQueue, completeQueue, localData, core,
                   cct, ws, migrating, rs, net, counts>>

(* flag 0: little input data, any scheduler may execute the task. *)
CrtToWsQueue(s) ==
    /\ crt[s].pc = "ready"
    /\ Stealable(crt[s].val)
    /\ wsQueue' = [wsQueue EXCEPT ![s] = @ \union {crt[s].task}]
    /\ crt' = [crt EXCEPT ![s] = IdleCrt]
    /\ UNCHANGED <<store, waitQueue, localQueue, completeQueue, localData, core,
                   cct, ws, migrating, rs, net, counts>>

(* flag 1: the largest piece of input data is here, produced or cached. *)
CrtToLocalQueue(s, d) ==
    /\ crt[s].pc = "ready"
    /\ ~Stealable(crt[s].val)
    /\ d \in MaxData(crt[s].val)
    /\ d[1] = s \/ localData[s][d] # "absent"
    /\ localQueue' = [localQueue EXCEPT ![s] = @ \union {crt[s].task}]
    /\ crt' = [crt EXCEPT ![s] = IdleCrt]
    /\ UNCHANGED <<store, waitQueue, wsQueue, completeQueue, localData, core,
                   cct, ws, migrating, rs, net, counts>>

(* flag 2: it is on another scheduler, to which the task is pushed ...     *)
CrtChoosePush(s, d) ==
    /\ crt[s].pc = "ready"
    /\ ~Stealable(crt[s].val)
    /\ d \in MaxData(crt[s].val)
    /\ d[1] # s /\ localData[s][d] = "absent"
    /\ crt' = [crt EXCEPT ![s] = CrtAt("push", @.task, @.val, d[1])]
    /\ UNCHANGED <<store, queues, localData, core, cct, ws, migrating, rs, net,
                   counts>>

(* Mutant: the flag says that the task is to be queued here, too. *)
CrtPushAndKeep(s) ==
    /\ crt[s].pc = "push"
    /\ Open(s, Msg("push task", crt[s].to, {crt[s].task}, None, "absent", 0))
    /\ crt' = [crt EXCEPT ![s] = CrtAt("ack", None, NoMetadata, None)]
    /\ localQueue' = [localQueue EXCEPT ![s] = @ \union {crt[s].task}]
    /\ UNCHANGED <<store, waitQueue, wsQueue, completeQueue, localData, core,
                   cct, ws, migrating, rs, counts>>

(* ... once sockMutex is free. *)
CrtPush(s) ==
    /\ crt[s].pc = "push"
    /\ Open(s, Msg("push task", crt[s].to, {crt[s].task}, None, "absent", 0))
    /\ crt' = [crt EXCEPT ![s] = CrtAt("ack", None, NoMetadata, None)]
    /\ UNCHANGED <<store, queues, localData, core, cct, ws, migrating, rs,
                   counts>>

CrtAck(s) ==
    /\ crt[s].pc = "ack"
    /\ conn[s].type = "ack"
    /\ Close(s)
    /\ crt' = [crt EXCEPT ![s] = IdleCrt]
    /\ UNCHANGED <<store, queues, localData, core, cct, ws, migrating, rs,
                   counts>>

-----------------------------------------------------------------------------
(* core: executing_task and exec_a_task.                                   *)

(* The unlocked tests of the two queues.  The local queue is tested first, *)
(* but may be filled, or read amid a push, before the other one is tested. *)
ExecLook(s, c) ==
    /\ core[s][c].pc = "idle"
    /\ \/ /\ localQueue[s] # {}
          /\ core' = [core EXCEPT ![s][c] = CoreAt("local", None, {}, None)]
       \/ /\ wsQueue[s] # {}
          /\ core' = [core EXCEPT ![s][c] = CoreAt("ws", None, {}, None)]
    /\ UNCHANGED <<store, queues, localData, crt, cct, ws, migrating, rs, net,
                   counts>>

(* What the thread keeps after its second test, under the queue's mutex.   *)
Took(t) == CoreAt("lookup", t, {}, None)

ExecTakeLocal(s, c) ==
    /\ core[s][c].pc = "local"
    /\ \/ \E M \in Tops(localQueue[s], 1) : \E t \in M :
             /\ localQueue' = [localQueue EXCEPT ![s] = @ \ {t}]
             /\ core' = [core EXCEPT ![s][c] = Took(t)]
       \/ /\ localQueue[s] = {}
          /\ core' = [core EXCEPT ![s][c] = IdleCore]
          /\ UNCHANGED localQueue
    /\ UNCHANGED <<store, waitQueue, wsQueue, completeQueue, localData, crt,
                   cct, ws, migrating, rs, net, counts>>

ExecTakeWs(s, c) ==
    /\ core[s][c].pc = "ws"
    /\ \/ \E M \in Tops(wsQueue[s], 1) : \E t \in M :
             /\ wsQueue' = [wsQueue EXCEPT ![s] = @ \ {t}]
             /\ core' = [core EXCEPT ![s][c] = Took(t)]
       \/ /\ wsQueue[s] = {}
          /\ core' = [core EXCEPT ![s][c] = IdleCore]
          /\ UNCHANGED wsQueue
    /\ UNCHANGED <<store, waitQueue, localQueue, completeQueue, localData, crt,
                   cct, ws, migrating, rs, net, counts>>

(* The lookup of the task's metadata: the data of the parents that have    *)
(* any are to be collected.                                                *)
ExecLookup(s, c) ==
    /\ core[s][c].pc = "lookup"
    /\ ~sockMutex[s]
    /\ core' = [core EXCEPT ![s][c] =
                   CoreAt("fetch", @.task,
                          {d \in zht[@.task].notes : Size(d) > 0}, None)]
    /\ UNCHANGED <<store, queues, localData, crt, cct, ws, migrating, rs, net,
                   counts>>

(* Data of a parent that ran here, or that is cached. *)
ExecReadHere(s, c, d) ==
    /\ core[s][c].pc = "fetch"
    /\ d \in core[s][c].todo
    /\ d[1] = s \/ localData[s][d] # "absent"
    /\ core' = [core EXCEPT ![s][c] = CoreAt("fetch", @.task, @.todo \ {d}, None)]
    /\ UNCHANGED <<store, queues, localData, crt, cct, ws, migrating, rs, net,
                   counts>>

(* Data of a parent that ran elsewhere, not in the cache ... *)
ExecMiss(s, c, d) ==
    /\ core[s][c].pc = "fetch"
    /\ d \in core[s][c].todo
    /\ d[1] # s /\ localData[s][d] = "absent"
    /\ core' = [core EXCEPT ![s][c] = CoreAt("miss", @.task, @.todo, d)]
    /\ UNCHANGED <<store, queues, localData, crt, cct, ws, migrating, rs, net,
                   counts>>

(* Mutants: the data name is taken for the host, or the request goes to    *)
(* the requester itself.                                                   *)
ExecRequireName(s, c) ==
    /\ core[s][c].pc = "miss"
    /\ Open(s, Msg("require data", core[s][c].name, {}, core[s][c].name,
                   "absent", 0))
    /\ core' = [core EXCEPT ![s][c] = CoreAt("wait", @.task, @.todo, @.name)]
    /\ UNCHANGED <<store, queues, localData, crt, cct, ws, migrating, rs,
                   counts>>

ExecRequireSelf(s, c) ==
    /\ core[s][c].pc = "miss"
    /\ Open(s, Msg("require data", s, {}, core[s][c].name, "absent", 0))
    /\ core' = [core EXCEPT ![s][c] = CoreAt("wait", @.task, @.todo, @.name)]
    /\ UNCHANGED <<store, queues, localData, crt, cct, ws, migrating, rs,
                   counts>>

(* ... are requested from that scheduler once sockMutex is free ... *)
ExecRequire(s, c) ==
    /\ core[s][c].pc = "miss"
    /\ Open(s, Msg("require data", core[s][c].name[1], {}, core[s][c].name,
                   "absent", 0))
    /\ core' = [core EXCEPT ![s][c] = CoreAt("wait", @.task, @.todo, @.name)]
    /\ UNCHANGED <<store, queues, localData, crt, cct, ws, migrating, rs,
                   counts>>

(* map::insert, which keeps what is already there. *)
Insert(s, d, content) ==
    localData' = [localData EXCEPT ![s][d] = IF @ = "absent" THEN content ELSE @]

(* ... and what it sends is cached. *)
ExecRecvData(s, c) ==
    /\ core[s][c].pc = "wait"
    /\ conn[s].type = "send data"
    /\ Close(s)
    /\ Insert(s, core[s][c].name, conn[s].content)
    /\ core' = [core EXCEPT ![s][c] =
                   CoreAt("fetch", @.task, @.todo \ {@.name}, None)]
    /\ UNCHANGED <<store, queues, crt, cct, ws, migrating, rs, counts>>

(* All data is there: execute the command and keep its result. *)
ExecRun(s, c) ==
    /\ core[s][c].pc = "fetch"
    /\ core[s][c].todo = {}
    /\ Insert(s, <<s, core[s][c].task>>, "result")
    /\ core' = [core EXCEPT ![s][c] = CoreAt("ran", @.task, {}, None)]
    /\ UNCHANGED <<store, queues, crt, cct, ws, migrating, rs, net, counts>>

ExecComplete(s, c) ==
    /\ core[s][c].pc = "ran"
    /\ completeQueue' = [completeQueue EXCEPT ![s] = @ \union {core[s][c].task}]
    /\ core' = [core EXCEPT ![s][c] = CoreAt("completed", @.task, {}, None)]
    /\ UNCHANGED <<store, waitQueue, localQueue, wsQueue, localData, crt, cct,
                   ws, migrating, rs, net, counts>>

(* Mutant: the counters are not protected by numTaskFinMutex. *)
ReportingUnlocked(s) == FALSE

(* numTaskFin++ under numTaskFinMutex, which rs holds while it reports. *)
Reporting(s) == rs[s].pc \in {"swap", "retry"}

ExecCount(s, c) ==
    /\ core[s][c].pc = "completed"
    /\ ~Reporting(s)
    /\ numTaskFin' = [numTaskFin EXCEPT ![s] = @ + 1]
    /\ core' = [core EXCEPT ![s][c] = IdleCore]
    /\ UNCHANGED <<store, queues, localData, crt, cct, ws, migrating, rs, net,
                   prevNumTaskFin, running, reported>>

-----------------------------------------------------------------------------
(* cct: checking_complete_task and notify_children.  The children of a     *)
(* task never change, so the lookup of the finished task is not a step.    *)

CctPop(s, t) ==
    /\ cct[s].pc = "idle"
    /\ t \in completeQueue[s]
    /\ completeQueue' = [completeQueue EXCEPT ![s] = @ \ {t}]
    /\ cct' = [cct EXCEPT ![s] =
                 IF Children[t] = {} THEN IdleCct
                 ELSE CctAt("next", t, Children[t], None, NoMetadata)]
    /\ UNCHANGED <<store, waitQueue, localQueue, wsQueue, localData, crt, core,
                   ws, migrating, rs, net, counts>>

CctLookup(s, k) ==
    /\ cct[s].pc = "next"
    /\ k \in cct[s].todo
    /\ ~sockMutex[s]
    /\ cct' = [cct EXCEPT ![s] = CctAt("swap", @.task, @.todo, k, zht[k])]
    /\ UNCHANGED <<store, queues, localData, crt, core, ws, migrating, rs, net,
                   counts>>

(* Mutant: an insert instead of the compare_swap. *)
MatchesAlways(s) == TRUE

(* Does ZHT's compare_swap find the value that cct expects? *)
Matches(s) == zht[cct[s].child] = cct[s].snap

(* One compare_swap of the child's metadata.  If it fails, its query value *)
(* becomes the expected one, and the loop goes on with sockMutex locked.   *)
CctSwap(s) ==
    LET k == cct[s].child
        rest == cct[s].todo \ {k}
    IN  /\ \/ cct[s].pc = "swap" /\ ~sockMutex[s]
           \/ cct[s].pc = "retry"
        /\ \/ /\ Matches(s)
              /\ zht' = [zht EXCEPT ![k] = Notified(cct[s].snap, s, cct[s].task)]
              /\ cct' = [cct EXCEPT ![s] =
                           IF rest = {} THEN IdleCct
                           ELSE CctAt("next", @.task, rest, None, NoMetadata)]
              /\ sockMutex' = [sockMutex EXCEPT ![s] = FALSE]
           \/ /\ ~Matches(s)
              /\ cct' = [cct EXCEPT ![s] = CctAt("retry", @.task, @.todo, k, zht[k])]
              /\ sockMutex' = [sockMutex EXCEPT ![s] = TRUE]
              /\ UNCHANGED zht
        /\ UNCHANGED <<numTasksDone, queues, localData, crt, core, ws,
                       migrating, rs, conn, counts>>

-----------------------------------------------------------------------------
(* ws: workstealing, choose_neigh, find_most_loaded_neigh, steal_task.     *)

(* The unlocked test reads the size of the local queue, then that of the   *)
(* work stealing queue.  The first may be out of date by then, the second  *)
(* torn by a push.                                                         *)
WsChoose(s) ==
    /\ WorkStealingOn
    /\ ws[s].pc = "idle"
    /\ localQueue[s] = {} \/ wsQueue[s] = {}
    /\ ws[s].poll < PollLimit
    /\ \E N \in kSubset(NumNeigh, Schedulers \ {s}) :
          ws' = [ws EXCEPT ![s] = WsAt("query", N, None, NoLoad, @.poll)]
    /\ UNCHANGED <<store, queues, localData, crt, core, cct, migrating, rs, net,
                   counts>>

WsQuery(s, n) ==
    /\ ws[s].pc = "query"
    /\ n \in ws[s].neigh
    /\ Open(s, Msg("query load", n, {}, None, "absent", 0))
    /\ ws' = [ws EXCEPT ![s] = WsAt("load", @.neigh \ {n}, @.maxLoadedIdx,
                                    @.maxLoad, @.poll)]
    /\ UNCHANGED <<store, queues, localData, crt, core, cct, migrating, rs,
                   counts>>

WsRecvLoad(s) ==
    /\ ws[s].pc = "load"
    /\ conn[s].type = "send load"
    /\ Close(s)
    /\ ws' = [ws EXCEPT ![s] =
                 IF @.maxLoad < conn[s].load
                 THEN WsAt("query", @.neigh, conn[s].peer, conn[s].load, @.poll)
                 ELSE WsAt("query", @.neigh, @.maxLoadedIdx, @.maxLoad, @.poll)]
    /\ UNCHANGED <<store, queues, localData, crt, core, cct, migrating, rs,
                   counts>>

(* All neighbours answered: ask the most loaded one for tasks. *)
WsSteal(s) ==
    /\ ws[s].pc = "query"
    /\ ws[s].neigh = {}
    /\ ws[s].maxLoad > 0
    /\ Open(s, Msg("steal task", ws[s].maxLoadedIdx, {}, None, "absent", 0))
    /\ ws' = [ws EXCEPT ![s] = WsAt("steal", {}, @.maxLoadedIdx, @.maxLoad,
                                    @.poll)]
    /\ UNCHANGED <<store, queues, localData, crt, core, cct, migrating, rs,
                   counts>>

(* No neighbour has ready tasks: double the poll interval. *)
WsNoLoad(s) ==
    /\ ws[s].pc = "query"
    /\ ws[s].neigh = {}
    /\ ws[s].maxLoad <= 0
    /\ ws' = [ws EXCEPT ![s] = IdleWs(ws[s].poll + 1)]
    /\ UNCHANGED <<store, queues, localData, crt, core, cct, migrating, rs, net,
                   counts>>

(* Mutant: the request is repeated until there are tasks. *)
WsRecvNothingRetry(s) ==
    /\ ws[s].pc = "steal"
    /\ conn[s].type = "send tasks"
    /\ conn[s].tasks = {}
    /\ Answer(s, Msg("steal task", conn[s].peer, {}, None, "absent", 0))
    /\ UNCHANGED <<store, queues, localData, crt, core, cct, ws, migrating, rs,
                   counts>>

(* recv_task_from_scheduler: no tasks, the theft failed. *)
WsRecvNothing(s) ==
    /\ ws[s].pc = "steal"
    /\ conn[s].type = "send tasks"
    /\ conn[s].tasks = {}
    /\ Close(s)
    /\ ws' = [ws EXCEPT ![s] = IdleWs(ws[s].poll + 1)]
    /\ UNCHANGED <<store, queues, localData, crt, core, cct, migrating, rs,
                   counts>>

(* Mutant: only the first package is read. *)
WsRecvFirstPackage(s) ==
    /\ ws[s].pc = "steal"
    /\ conn[s].type = "send tasks"
    /\ \E B \in (SUBSET conn[s].tasks) \ {{}} :
          /\ Cardinality(B) <= MaxTaskPerPkg
          /\ wsQueue' = [wsQueue EXCEPT ![s] = @ \union B]
    /\ Close(s)
    /\ ws' = [ws EXCEPT ![s] = IdleWs(0)]
    /\ UNCHANGED <<store, waitQueue, localQueue, completeQueue, localData, crt,
                   core, cct, migrating, rs, counts>>

(* It queues one package of tasks; after the last one the theft is over.   *)
WsRecvPackage(s) ==
    /\ ws[s].pc = "steal"
    /\ conn[s].type = "send tasks"
    /\ \E B \in (SUBSET conn[s].tasks) \ {{}} :
          LET rest == conn[s].tasks \ B
          IN  /\ \/ Cardinality(B) = MaxTaskPerPkg
                 \/ Cardinality(B) < MaxTaskPerPkg /\ rest = {}
              /\ wsQueue' = [wsQueue EXCEPT ![s] = @ \union B]
              /\ \/ /\ rest = {}
                    /\ Close(s)
                    /\ ws' = [ws EXCEPT ![s] = IdleWs(0)]
                 \/ /\ rest # {}
                    /\ Answer(s, Msg("send tasks", conn[s].peer, rest, None,
                                     "absent", 0))
                    /\ UNCHANGED ws
    /\ UNCHANGED <<store, waitQueue, localQueue, completeQueue, localData, crt,
                   core, cct, migrating, rs, counts>>

(* There are ready tasks: the poll interval starts over. *)
WsReset(s) ==
    /\ ws[s].pc = "idle"
    /\ localQueue[s] # {} \/ wsQueue[s] # {}
    /\ 0 < ws[s].poll /\ ws[s].poll < PollLimit
    /\ ws' = [ws EXCEPT ![s] = IdleWs(0)]
    /\ UNCHANGED <<store, queues, localData, crt, core, cct, migrating, rs, net,
                   counts>>

(* The poll interval has reached its bound: the thread ends. *)
WsExit(s) ==
    /\ WorkStealingOn
    /\ ws[s].pc = "idle"
    /\ ws[s].poll >= PollLimit
    /\ ws' = [ws EXCEPT ![s] = WsAt("exit", {}, None, NoLoad, @.poll)]
    /\ UNCHANGED <<store, queues, localData, crt, core, cct, migrating, rs, net,
                   counts>>

-----------------------------------------------------------------------------
(* mon: localQueue_monitor.  maxSize is the throughput so far times a      *)
(* configured time, so it is 0 until a task has finished here, and then    *)
(* any number.                                                             *)

(* Mutant: the migrated tasks stay in the local queue, too. *)
MonSplitKeeping(s) ==
    /\ FLWS
    /\ migrating[s] = {}
    /\ numTaskFin[s] > 0
    /\ \E maxSize \in 1 .. Cardinality(localQueue[s]) - 1 :
       \E remain \in Tops(localQueue[s], maxSize) :
          migrating' = [migrating EXCEPT ![s] = localQueue[s] \ remain]
    /\ UNCHANGED <<store, queues, localData, crt, core, cct, ws, rs, net, counts>>

MonSplit(s) ==
    /\ FLWS
    /\ migrating[s] = {}
    /\ numTaskFin[s] > 0
    /\ \E maxSize \in 1 .. Cardinality(localQueue[s]) - 1 :
       \E remain \in Tops(localQueue[s], maxSize) :
          /\ localQueue' = [localQueue EXCEPT ![s] = remain]
          /\ migrating' = [migrating EXCEPT ![s] = localQueue[s] \ remain]
    /\ UNCHANGED <<store, waitQueue, wsQueue, completeQueue, localData, crt,
                   core, cct, ws, rs, net, counts>>

MonPush(s) ==
    /\ migrating[s] # {}
    /\ wsQueue' = [wsQueue EXCEPT ![s] = @ \union migrating[s]]
    /\ migrating' = [migrating EXCEPT ![s] = {}]
    /\ UNCHANGED <<store, waitQueue, localQueue, completeQueue, localData, crt,
                   core, cct, ws, rs, net, counts>>

-----------------------------------------------------------------------------
(* rs: recording_stat.                                                     *)

(* The lookup of "num tasks done": all done, and the scheduler stops ...   *)
RsStop(s) ==
    /\ rs[s].pc = "look"
    /\ ~sockMutex[s]
    /\ numTasksDone = Cardinality(Tasks)
    /\ running' = [running EXCEPT ![s] = FALSE]
    /\ rs' = [rs EXCEPT ![s] = [pc |-> "exit", expected |-> 0, attempt |-> 0]]
    /\ UNCHANGED <<store, queues, localData, crt, core, cct, ws, migrating, net,
                   numTaskFin, prevNumTaskFin, reported>>

(* What rs keeps across its compare_swap: the value it expects and the one *)
(* that adds what has finished here since it last reported.                *)
Trial(s, pc, value) ==
    [pc |-> pc, expected |-> value,
     attempt |-> value + (numTaskFin[s] - prevNumTaskFin[s])]

(* ... or not, and rs locks numTaskFinMutex.  (A task counted between the  *)
(* two could as well have been counted before the lookup.)                 *)
RsLookup(s) ==
    /\ rs[s].pc = "look"
    /\ ~sockMutex[s]
    /\ numTasksDone # Cardinality(Tasks)
    /\ rs' = [rs EXCEPT ![s] = Trial(s, "swap", numTasksDone)]
    /\ UNCHANGED <<store, queues, localData, crt, core, cct, ws, migrating, net,
                   counts>>

(* The tasks that numTaskFin has counted. *)
Finished(s) ==
    {t \in Tasks : /\ localData[s][<<s, t>>] # "absent"
                   /\ \A c \in Cores : ~ /\ core[s][c].pc \in {"ran", "completed"}
                                         /\ core[s][c].task = t}

(* One compare_swap of the counter.  After a failure the loop goes on from *)
(* the query value with sockMutex locked, unless that value says that all  *)
(* is done.  Leaving the loop rs notes what is reported.                   *)
RsSwap(s) ==
    /\ \/ rs[s].pc = "swap" /\ ~sockMutex[s]
       \/ rs[s].pc = "retry"
    /\ \/ /\ numTasksDone = rs[s].expected
          /\ numTasksDone' = rs[s].attempt
          /\ reported' = reported \union Finished(s)
          /\ prevNumTaskFin' = [prevNumTaskFin EXCEPT ![s] = numTaskFin[s]]
          /\ rs' = [rs EXCEPT ![s] = IdleRs]
          /\ sockMutex' = [sockMutex EXCEPT ![s] = FALSE]
       \/ /\ numTasksDone # rs[s].expected
          /\ numTasksDone = Cardinality(Tasks)
          /\ prevNumTaskFin' = [prevNumTaskFin EXCEPT ![s] = numTaskFin[s]]
          /\ rs' = [rs EXCEPT ![s] = IdleRs]
          /\ sockMutex' = [sockMutex EXCEPT ![s] = FALSE]
          /\ UNCHANGED <<numTasksDone, reported>>
       \/ /\ numTasksDone # rs[s].expected
          /\ numTasksDone # Cardinality(Tasks)
          /\ rs' = [rs EXCEPT ![s] = Trial(s, "retry", numTasksDone)]
          /\ sockMutex' = [sockMutex EXCEPT ![s] = TRUE]
          /\ UNCHANGED <<numTasksDone, prevNumTaskFin, reported>>
    /\ UNCHANGED <<zht, queues, localData, crt, core, cct, ws, migrating, conn,
                   numTaskFin, running>>

-----------------------------------------------------------------------------
(* The handler of scheduler n, proc_req, serving a request of s.           *)

(* An unlocked read of wsQueue.size(): while a push moves the queue to a   *)
(* larger buffer it can also come out too small or too large.              *)
ProcQueryLoad(n, s) ==
    /\ Asked(n, s, "query load")
    /\ \E load \in {0, Cardinality(wsQueue[n]), Cardinality(Tasks)} :
          Answer(s, Msg("send load", n, {}, None, "absent", load))
    /\ UNCHANGED <<store, queues, localData, crt, core, cct, ws, migrating, rs,
                   counts>>

(* Mutant: the handler sends copies of the tasks. *)
ProcStealTaskCopy(n, s) ==
    /\ Asked(n, s, "steal task")
    /\ \E M \in Tops(wsQueue[n], Cardinality(wsQueue[n]) \div 2) :
          Answer(s, Msg("send tasks", n, M, None, "absent", 0))
    /\ UNCHANGED <<store, queues, localData, crt, core, cct, ws, migrating, rs,
                   counts>>

(* send_task: half of the work stealing queue. *)
ProcStealTask(n, s) ==
    /\ Asked(n, s, "steal task")
    /\ \E M \in Tops(wsQueue[n], Cardinality(wsQueue[n]) \div 2) :
          /\ wsQueue' = [wsQueue EXCEPT ![n] = @ \ M]
          /\ Answer(s, Msg("send tasks", n, M, None, "absent", 0))
    /\ UNCHANGED <<store, waitQueue, localQueue, completeQueue, localData, crt,
                   core, cct, ws, migrating, rs, counts>>

(* recv_pushing_task *)
ProcPushTask(n, s) ==
    /\ Asked(n, s, "push task")
    /\ localQueue' = [localQueue EXCEPT ![n] = @ \union conn[s].tasks]
    /\ Answer(s, Msg("ack", n, {}, None, "absent", 0))
    /\ UNCHANGED <<store, waitQueue, wsQueue, completeQueue, localData, crt,
                   core, cct, ws, migrating, rs, counts>>

(* The data, or an error text that the requester takes for the data. *)
ProcRequireData(n, s) ==
    LET found == localData[n][conn[s].name]
    IN  /\ Asked(n, s, "require data")
        /\ Answer(s, Msg("send data", n, {}, conn[s].name,
                         IF found = "absent" THEN "error" ELSE found, 0))
        /\ UNCHANGED <<store, queues, localData, crt, core, cct, ws, migrating,
                       rs, counts>>

-----------------------------------------------------------------------------
CrtStep(s) ==
    \/ \E t \in Tasks : CrtLookup(s, t)
    \/ CrtToWsQueue(s)
    \/ \E d \in DataName : CrtToLocalQueue(s, d) \/ CrtChoosePush(s, d)
    \/ CrtPush(s)
    \/ CrtAck(s)

ExecStep(s, c) ==
    \/ ExecLook(s, c)
    \/ ExecTakeLocal(s, c)
    \/ ExecTakeWs(s, c)
    \/ ExecLookup(s, c)
    \/ \E d \in DataName : ExecReadHere(s, c, d) \/ ExecMiss(s, c, d)
    \/ ExecRequire(s, c)
    \/ ExecRecvData(s, c)
    \/ ExecRun(s, c)
    \/ ExecComplete(s, c)
    \/ ExecCount(s, c)

CctStep(s) ==
    \/ \E t \in Tasks : CctPop(s, t) \/ CctLookup(s, t)
    \/ CctSwap(s)

WsStep(s) ==
    \/ WsChoose(s)
    \/ \E n \in Schedulers : WsQuery(s, n)
    \/ WsRecvLoad(s)
    \/ WsSteal(s)
    \/ WsNoLoad(s)
    \/ WsRecvNothing(s)
    \/ WsRecvPackage(s)
    \/ WsReset(s)
    \/ WsExit(s)

MonStep(s) == MonSplit(s) \/ MonPush(s)

RsStep(s) == RsStop(s) \/ RsLookup(s) \/ RsSwap(s)

ProcStep(n) ==
    \E s \in Schedulers :
        \/ ProcQueryLoad(n, s)
        \/ ProcStealTask(n, s)
        \/ ProcPushTask(n, s)
        \/ ProcRequireData(n, s)

(* Every scheduler has stopped: the threads end, the processes sleep. *)
Terminated ==
    /\ \A s \in Schedulers : ~running[s]
    /\ UNCHANGED vars

Next ==
    \/ \E s \in Schedulers :
          \/ CrtStep(s)
          \/ \E c \in Cores : ExecStep(s, c)
          \/ CctStep(s)
          \/ WsStep(s)
          \/ MonStep(s)
          \/ RsStep(s)
          \/ ProcStep(s)
    \/ Terminated

Spec == Init /\ [][Next]_vars

(* A thread that can take its next step again and again takes it: this     *)
(* needs a fair thread scheduler and a sockMutex that does not starve a    *)
(* waiting thread.  A thread may leave its loop once running is false; the *)
(* one that holds sockMutex finishes its exchange, and the handlers never  *)
(* end.  The monitor is not needed for progress, except that it queues     *)
(* what it has taken.                                                      *)
Release(s) ==
    \/ CrtAck(s)
    \/ \E c \in Cores : ExecRecvData(s, c)
    \/ cct[s].pc = "retry" /\ CctSwap(s)
    \/ WsRecvLoad(s) \/ WsRecvNothing(s) \/ WsRecvPackage(s)
    \/ rs[s].pc = "retry" /\ RsSwap(s)

FairSpec ==
    /\ Spec
    /\ \A s \in Schedulers :
          /\ SF_vars(running[s] /\ CrtStep(s))
          /\ \A c \in Cores : SF_vars(running[s] /\ ExecStep(s, c))
          /\ SF_vars(running[s] /\ CctStep(s))
          /\ SF_vars(running[s] /\ WsStep(s))
          /\ SF_vars(RsStep(s))
          /\ WF_vars(MonPush(s))
          /\ WF_vars(Release(s))
          /\ WF_vars(ProcStep(s))

-----------------------------------------------------------------------------
(* Properties. *)

CrtState ==
         [pc : {"idle", "ack"}, task : {None}, val : {NoMetadata}, to : {None}]
  \union [pc : {"ready"}, task : Tasks, val : Metadata, to : {None}]
  \union [pc : {"push"}, task : Tasks, val : Metadata, to : Schedulers]

CoreState ==
         [pc : {"idle", "local", "ws"}, task : {None}, todo : {{}}, name : {None}]
  \union [pc : {"lookup", "fetch", "ran", "completed"}, task : Tasks,
          todo : SUBSET DataName, name : {None}]
  \union [pc : {"miss", "wait"}, task : Tasks, todo : SUBSET DataName,
          name : DataName]

CctState ==
         [pc : {"idle"}, task : {None}, todo : {{}}, child : {None},
          snap : {NoMetadata}]
  \union [pc : {"next"}, task : Tasks, todo : SUBSET Tasks, child : {None},
          snap : {NoMetadata}]
  \union [pc : {"swap", "retry"}, task : Tasks, todo : SUBSET Tasks,
          child : Tasks, snap : Metadata]

WsState ==
         [pc : {"idle", "query", "load", "exit"}, neigh : SUBSET Schedulers,
          maxLoadedIdx : {None}, maxLoad : {NoLoad}, poll : Nat]
  \union [pc : {"query", "load", "steal"}, neigh : SUBSET Schedulers,
          maxLoadedIdx : Schedulers, maxLoad : Int, poll : Nat]

RsState == [pc : {"look", "swap", "retry", "exit"}, expected : Int, attempt : Int]

(* Only messages about tasks carry tasks, only those about data a name.    *)
Message ==
         {NoConn}
  \union [type : {"query load", "send load", "steal task", "ack"},
          peer : Schedulers, tasks : {{}}, name : {None}, content : {"absent"},
          load : Int]
  \union [type : {"push task", "send tasks"}, peer : Schedulers,
          tasks : SUBSET Tasks, name : {None}, content : {"absent"}, load : {0}]
  \union [type : {"require data", "send data"}, peer : Schedulers,
          tasks : {{}}, name : DataName, content : Content, load : {0}]

(* The types of the variables and of what the threads keep at each step.   *)
TypeOK ==
    /\ zht \in [Tasks -> Metadata]
    /\ numTasksDone \in Int
    /\ waitQueue \in [Schedulers -> SUBSET Tasks]
    /\ localQueue \in [Schedulers -> SUBSET Tasks]
    /\ wsQueue \in [Schedulers -> SUBSET Tasks]
    /\ completeQueue \in [Schedulers -> SUBSET Tasks]
    /\ localData \in [Schedulers -> [DataName -> Content]]
    /\ crt \in [Schedulers -> CrtState]
    /\ core \in [Schedulers -> [Cores -> CoreState]]
    /\ cct \in [Schedulers -> CctState]
    /\ ws \in [Schedulers -> WsState]
    /\ migrating \in [Schedulers -> SUBSET Tasks]
    /\ rs \in [Schedulers -> RsState]
    /\ sockMutex \in [Schedulers -> BOOLEAN]
    /\ conn \in [Schedulers -> Message]
    /\ numTaskFin \in [Schedulers -> Int]
    /\ prevNumTaskFin \in [Schedulers -> Int]
    /\ running \in [Schedulers -> BOOLEAN]
    /\ reported \in SUBSET Tasks

(* The places a task can be in on a scheduler: its queues, the local       *)
(* variables of its threads, the connection, each core before the task's   *)
(* command has run, and "ran" for the tasks it has executed.               *)
Places == {"wait", "crt", "local", "ws", "mon", "conn", "ran"} \union Cores

Executing == {"lookup", "fetch", "miss", "wait"}

Held(s, p) ==
    CASE p = "wait"  -> waitQueue[s]
      [] p = "crt"   -> {t \in Tasks : t = crt[s].task}
      [] p = "local" -> localQueue[s]
      [] p = "ws"    -> wsQueue[s]
      [] p = "mon"   -> migrating[s]
      [] p = "conn"  -> conn[s].tasks
      [] p = "ran"   -> {t \in Tasks : localData[s][<<s, t>>] # "absent"}
      [] OTHER       -> {t \in Tasks : /\ core[s][p].pc \in Executing
                                       /\ core[s][p].task = t}

(* Across readiness checks, pushes, thefts and queue migrations no task is *)
(* lost and none is duplicated: at all times every task is in exactly one  *)
(* place, so it is executed at most once and by one scheduler.             *)
OnePlace ==
    \A t \in Tasks :
        LET where == {pl \in Schedulers \X Places : t \in Held(pl[1], pl[2])}
        IN  \E pl \in where : where = {pl}

(* Parent p has not been noted in the metadata of its child t: it has not  *)
(* run, or it is on its way to notify_children, or it is there and t is    *)
(* still to be done.                                                       *)
Outstanding(p, t) ==
    \/ \A s \in Schedulers : p \notin Held(s, "ran")
    \/ \E s \in Schedulers :
          \/ p \in completeQueue[s]
          \/ \E c \in Cores : core[s][c].pc = "ran" /\ core[s][c].task = p
          \/ cct[s].task = p /\ t \in cct[s].todo

(* notify_children by several schedulers at once loses no update and makes *)
(* none twice: the indegree in ZHT is the number of parents that are still *)
(* outstanding, and the data of all the others is listed.                  *)
IndegreeExact ==
    \A t \in Tasks :
        LET left == {p \in Parents(t) : Outstanding(p, t)}
        IN  /\ zht[t].indegree = Cardinality(left)
            /\ {d[2] : d \in zht[t].notes} = Parents(t) \ left

(* Once a task is found ready its metadata is final: what crt and the      *)
(* cores keep after their lookup cannot become stale.                      *)
ReadyIsFinal ==
    [][\A t \in Tasks : zht[t].indegree = 0 => zht'[t] = zht[t]]_vars

(* Data named in a task's metadata, or in a core's list of data to         *)
(* collect, is in the localData of the scheduler that produced it: the     *)
(* unchecked find of exec_a_task finds it, proc_req never answers with its *)
(* error text, and no error text is cached as data.                        *)
DataInPlace ==
    /\ \A t \in Tasks : \A d \in zht[t].notes : localData[d[1]][d] = "result"
    /\ \A s \in Schedulers, c \in Cores : \A d \in core[s][c].todo :
          localData[d[1]][d] = "result"
    /\ \A s \in Schedulers, d \in DataName : localData[s][d] # "error"

(* The threads that are between locking and unlocking sockMutex. *)
SockHolders(s) ==
    {c \in Cores : core[s][c].pc = "wait"}
      \union {x \in {"crt"} : crt[s].pc = "ack"}
      \union {x \in {"cct"} : cct[s].pc = "retry"}
      \union {x \in {"ws"} : ws[s].pc \in {"load", "steal"}}
      \union {x \in {"rs"} : rs[s].pc = "retry"}

(* sockMutex has one holder exactly when it is locked, and the answer on   *)
(* the connection is for the request its holder sent, so no thread reads   *)
(* another thread's answer.                                                *)
OneConversation ==
    \A s \in Schedulers :
        /\ sockMutex[s] <=> SockHolders(s) # {}
        /\ \A x, y \in SockHolders(s) : x = y
        /\ crt[s].pc = "ack" <=> conn[s].type \in {"push task", "ack"}
        /\ ws[s].pc = "load" <=> conn[s].type \in {"query load", "send load"}
        /\ ws[s].pc = "steal" <=> conn[s].type \in {"steal task", "send tasks"}
        /\ (\E c \in Cores : core[s][c].pc = "wait")
              <=> conn[s].type \in {"require data", "send data"}

(* The work stealing thread keeps stealing for a scheduler that is still   *)
(* processing tasks and whose ready queue is empty when the poll interval  *)
(* has reached the upper bound, as the comment on workstealing says.       *)
StealsAtBound ==
    \A s \in Schedulers :
        /\ WorkStealingOn /\ running[s]
        /\ localQueue[s] = {} /\ wsQueue[s] = {}
        /\ ws[s].poll >= PollLimit
        => ws[s].pc # "exit"

RanTasks == {t \in Tasks : \E s \in Schedulers : t \in Held(s, "ran")}

(* "num tasks done" is the number of tasks reported, each once, in spite   *)
(* of the concurrent compare_swap loops; what a scheduler has not yet      *)
(* reported is what it has finished since prevNumTaskFin was set.          *)
CounterExact ==
    /\ numTasksDone = Cardinality(reported)
    /\ reported \subseteq RanTasks
    /\ \A s \in Schedulers :
          /\ numTaskFin[s] = Cardinality(Finished(s))
          /\ prevNumTaskFin[s] = Cardinality(reported \intersect Finished(s))

(* The schedulers execute the workload as TaskGraph asks: every task once, *)
(* after all its parents, and no scheduler stops before all tasks are run. *)
TG == INSTANCE TaskGraph
        WITH ran <- RanTasks, stopped <- {s \in Schedulers : ~running[s]}

ExecutesTaskGraph == TG!Spec

(* Every scheduler finds out in the end that the workload is done. *)
AllStop == <>(\A s \in Schedulers : ~running[s])

(* sockMutex is always unlocked again: no two schedulers wait for each     *)
(* other's answers for ever.                                               *)
SockReleased == \A s \in Schedulers : sockMutex[s] ~> ~sockMutex[s]
=============================================================================
