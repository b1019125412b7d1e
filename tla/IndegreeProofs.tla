--------------------------- MODULE IndegreeProofs ---------------------------
(***************************************************************************)
(* IndegreeExact, ReadyIsFinal and CounterExact hold for any number of     *)
(* schedulers, cores and tasks: a task that has run is in one stage on its *)
(* way through notify_children, its compare_swap takes it off the children *)
(* one by one, and a scheduler counts it once.  With it the schedulers     *)
(* execute the workload as TaskGraph asks.                                 *)
(***************************************************************************)
EXTENDS PlaceProofs

(* The core has run its task, and has not yet counted it. *)
Staged == {"ran", "completed"}

(* No two cores, nor a core and the complete queue, nor those and the      *)
(* checking-complete thread, have the same task to announce, and what that *)
(* thread has still to do are children of its task.                        *)
Apart(s) ==
    /\ \A c, d \in Cores :
          /\ core[s][c].pc \in Staged /\ core[s][d].pc \in Staged
          /\ core[s][c].task = core[s][d].task
          => c = d
    /\ \A c \in Cores :
          core[s][c].pc = "ran" => /\ core[s][c].task \notin completeQueue[s]
                                   /\ core[s][c].task # cct[s].task
    /\ cct[s].task \notin completeQueue[s]
    /\ cct[s].pc # "idle" => cct[s].todo \subseteq Children[cct[s].task]
    /\ cct[s].pc \in {"swap", "retry"} => cct[s].child \in cct[s].todo

StagesApart == \A s \in Schedulers : Apart(s)

(* A task is in no two places. *)
LEMMA Once ==
    ASSUME OnePlace, NEW t \in Tasks,
           NEW s \in Schedulers, NEW p \in Places, t \in Held(s, p),
           NEW n \in Schedulers, NEW q \in Places, t \in Held(n, q)
    PROVE  s = n /\ p = q
  <1> DEFINE where == {pl \in Schedulers \X Places : t \in Held(pl[1], pl[2])}
  <1>1. PICK pl \in where : where = {pl}
    BY DEF OnePlace
  <1>2. <<s, p>> \in where /\ <<n, q>> \in where
    OBVIOUS
  <1> QED
    BY <1>1, <1>2

(* What is on its way to the children has run on the same scheduler. *)
LEMMA StagedRan ==
    ASSUME TypeOK, DataKept, NEW s \in Schedulers
    PROVE  /\ \A t \in completeQueue[s] : t \in Held(s, "ran")
           /\ cct[s].pc # "idle" => cct[s].task \in Held(s, "ran")
           /\ \A c \in Cores :
                 core[s][c].pc \in Staged => core[s][c].task \in Held(s, "ran")
  <1>1. Held(s, "ran") = {t \in Tasks : localData[s][<<s, t>>] # "absent"}
    BY HeldIs DEF HeldAs
  <1>2. \A t \in Tasks : Kept(<<s, t>>) => t \in Held(s, "ran")
    BY <1>1 DEF Kept
  <1>3. \A t \in completeQueue[s] : t \in Tasks /\ Kept(<<s, t>>)
    BY DEF TypeOK, DataKept
  <1>4. cct[s].pc # "idle" => cct[s].task \in Tasks /\ Kept(<<s, cct[s].task>>)
    BY CctTypes DEF TypeOK, DataKept
  <1>5. ASSUME NEW c \in Cores, core[s][c].pc \in Staged
        PROVE  core[s][c].task \in Tasks /\ Kept(<<s, core[s][c].task>>)
    <2>1. core[s][c] \in CoreState /\ CoreKept(s, core[s][c])
      BY DEF TypeOK, DataKept
    <2> QED
      BY <1>5, <2>1, CoreTypes DEF CoreKept, Staged
  <1> QED
    BY <1>2, <1>3, <1>4, <1>5, Zenon

(* Steps that are not about executed tasks. *)
LEMMA OtherThreads ==
    ASSUME NEW s \in Schedulers,
           CrtStep(s) \/ WsStep(s) \/ MonStep(s) \/ ProcStep(s)
    PROVE  UNCHANGED <<zht, numTasksDone, completeQueue, localData, core, cct, rs,
                       numTaskFin, prevNumTaskFin, running, reported>>
  <1> USE DEF store, queues, counts
  <1>1. CASE CrtStep(s)
    BY <1>1, Zenon DEF CrtStep, CrtLookup, CrtToWsQueue, CrtToLocalQueue,
                       CrtChoosePush, CrtPush, CrtAck
  <1>2. CASE WsStep(s)
    BY <1>2, Zenon DEF WsStep, WsChoose, WsQuery, WsRecvLoad, WsSteal, WsNoLoad,
                       WsRecvNothing, WsRecvPackage, WsReset, WsExit
  <1>3. CASE MonStep(s)
    BY <1>3, Zenon DEF MonStep, MonSplit, MonPush
  <1>4. CASE ProcStep(s)
    BY <1>4, Zenon DEF ProcStep, ProcQueryLoad, ProcStealTask, ProcPushTask,
                       ProcRequireData
  <1> QED
    BY <1>1, <1>2, <1>3, <1>4

(* What every step of a core leaves alone. *)
LEMMA ExecKeeps ==
    ASSUME TypeOK, NEW s \in Schedulers, NEW c \in Cores, ExecStep(s, c)
    PROVE  /\ UNCHANGED <<zht, numTasksDone, cct, rs, prevNumTaskFin, running, reported>>
           /\ \A u \in Schedulers, e \in Cores :
                 u # s \/ e # c => core'[u][e] = core[u][e]
  <1> USE DEF store, queues, counts
  <1>1. UNCHANGED <<zht, numTasksDone, cct, rs, prevNumTaskFin, running, reported>>
    BY Zenon DEF ExecStep, ExecLook, ExecTakeLocal, ExecTakeWs, ExecLookup,
                 ExecReadHere, ExecMiss, ExecRequire, ExecRecvData, ExecRun,
                 ExecComplete, ExecCount
  <1>2. PICK y : core' = [core EXCEPT ![s][c] = y]
    BY Zenon DEF ExecStep, ExecLook, ExecTakeLocal, ExecTakeWs, ExecLookup,
                 ExecReadHere, ExecMiss, ExecRequire, ExecRecvData, ExecRun,
                 ExecComplete, ExecCount
  <1>3. \A u \in Schedulers, e \in Cores : u # s \/ e # c => core'[u][e] = core[u][e]
    BY <1>2 DEF TypeOK
  <1> QED
    BY <1>1, <1>3

(* Before a core runs its task, or when it only looks for one. *)
QuietStep(s, c) ==
    /\ core[s][c].pc \notin Staged /\ core'[s][c].pc \notin Staged
    /\ UNCHANGED <<completeQueue, numTaskFin>>
    /\ \A u \in Schedulers : Held(u, "ran")' = Held(u, "ran")

(* What a step of a core can be. *)
LEMMA ExecKinds ==
    ASSUME TypeOK, MissElsewhere, NEW s \in Schedulers, NEW c \in Cores,
           ExecStep(s, c)
    PROVE  QuietStep(s, c) \/ ExecRun(s, c) \/ ExecComplete(s, c) \/ ExecCount(s, c)
  <1> USE DEF store, queues, counts
  <1>0. \A pc \in {"idle", "local", "ws", "lookup", "fetch", "miss", "wait"} :
        \A t, T, d : CoreAt(pc, t, T, d).pc \notin Staged
    BY DEF CoreAt, Staged
  <1>1. ASSUME NEW y, core' = [core EXCEPT ![s][c] = y], y.pc \notin Staged
        PROVE  core'[s][c].pc \notin Staged
    BY <1>1 DEF TypeOK
  <1>2. ASSUME UNCHANGED localData
        PROVE  \A u \in Schedulers : Held(u, "ran")' = Held(u, "ran")
    BY <1>2, Unmoved
  <1>3. CASE ExecLook(s, c) \/ ExecTakeLocal(s, c) \/ ExecTakeWs(s, c)
    <2>1. core[s][c].pc \notin Staged
      BY <1>3 DEF ExecLook, ExecTakeLocal, ExecTakeWs, Staged
    <2>2. PICK pc \in {"idle", "local", "ws", "lookup"} :
             \E t : core' = [core EXCEPT ![s][c] = CoreAt(pc, t, {}, None)]
      BY <1>3 DEF ExecLook, ExecTakeLocal, ExecTakeWs, Took, IdleCore
    <2>3. core'[s][c].pc \notin Staged
      <3>1. PICK t : core' = [core EXCEPT ![s][c] = CoreAt(pc, t, {}, None)]
        BY <2>2, Zenon
      <3>2. CoreAt(pc, t, {}, None).pc \notin Staged
        BY <1>0
      <3> QED
        BY <1>1, <3>1, <3>2, Zenon
    <2>4. UNCHANGED <<completeQueue, numTaskFin, localData>>
      BY <1>3 DEF ExecLook, ExecTakeLocal, ExecTakeWs
    <2> QED
      BY <1>2, <2>1, <2>3, <2>4, Zenon DEF QuietStep
  <1>4. CASE ExecLookup(s, c)
    BY <1>0, <1>1, <1>2, <1>4 DEF ExecLookup, QuietStep, Staged
  <1>5. ASSUME NEW d \in DataName, ExecReadHere(s, c, d) \/ ExecMiss(s, c, d)
        PROVE  QuietStep(s, c)
    BY <1>0, <1>1, <1>2, <1>5 DEF ExecReadHere, ExecMiss, QuietStep, Staged
  <1>6. CASE ExecRequire(s, c)
    BY <1>0, <1>1, <1>2, <1>6, Zenon DEF ExecRequire, QuietStep, Staged
  <1>7. CASE ExecRecvData(s, c)
    BY <1>0, <1>1, <1>7, CachedElsewhere, Zenon DEF ExecRecvData, QuietStep, Staged
  <1> QED
    BY <1>3, <1>4, <1>5, <1>6, <1>7 DEF ExecStep

(* A task that is run now was in no stage: it had not run before. *)
LEMMA RunIsNew ==
    ASSUME TypeOK, OnePlace, DataKept, NEW s \in Schedulers, NEW c \in Cores,
           ExecRun(s, c)
    PROVE  \A u \in Schedulers :
              /\ core[s][c].task \notin Held(u, "ran")
              /\ core[s][c].task \notin completeQueue[u]
              /\ core[s][c].task # cct[u].task
              /\ \A e \in Cores : core[u][e].pc \in Staged
                                     => core[u][e].task # core[s][c].task
  <1> DEFINE t == core[s][c].task
  <1>1. t \in Tasks
    BY ResultHere
  <1>2. t \in Held(s, c)
    <2>1. core[s][c].pc \in Executing
      BY DEF ExecRun, Executing
    <2> QED
      BY <1>1, <2>1, HeldIs DEF HeldAs
  <1>3. \A u \in Schedulers : t \notin Held(u, "ran")
    BY <1>1, <1>2, Once, PlaceNames
  <1>4. \A u \in Schedulers : cct[u].pc = "idle" => cct[u].task = None
    BY CctTypes DEF TypeOK
  <1> QED
    BY <1>1, <1>3, <1>4, StagedRan, TasksAssumption

(* Apart stays where only cores leave their stage. *)
LEMMA ApartSame ==
    ASSUME NEW u \in Schedulers, Apart(u),
           completeQueue'[u] = completeQueue[u], cct'[u] = cct[u],
           \A c \in Cores : core'[u][c].pc \in Staged => core'[u][c] = core[u][c]
    PROVE  Apart(u)'
  BY DEF Apart, Staged

(* Each step keeps the stages apart. *)
LEMMA ApartExec ==
    ASSUME TypeOK, OnePlace, MissElsewhere, DataKept, StagesApart,
           NEW s \in Schedulers, NEW c \in Cores, ExecStep(s, c)
    PROVE  StagesApart'
  <1> SUFFICES ASSUME NEW u \in Schedulers PROVE Apart(u)'
    BY DEF StagesApart
  <1> DEFINE x == core[s][c]
  <1>0. /\ Apart(u) /\ UNCHANGED cct
        /\ \A v \in Schedulers, e \in Cores : v # s \/ e # c => core'[v][e] = core[v][e]
    BY ExecKeeps DEF StagesApart
  <1>1. CASE QuietStep(s, c)
    BY <1>0, <1>1, ApartSame DEF QuietStep
  <1>2. CASE ExecCount(s, c)
    <2>1. core'[s][c].pc \notin Staged /\ UNCHANGED completeQueue
      BY <1>2 DEF ExecCount, IdleCore, CoreAt, Staged, queues, TypeOK
    <2> QED
      BY <1>0, <2>1, ApartSame
  <1>3. CASE ExecRun(s, c)
    <2>1. UNCHANGED completeQueue /\ core'[s][c].pc = "ran" /\ core'[s][c].task = x.task
      BY <1>3 DEF ExecRun, CoreAt, queues, TypeOK
    <2>2. CASE u # s
      BY <1>0, <2>1, <2>2, ApartSame
    <2>3. CASE u = s
      <3>1. /\ x.task \notin completeQueue[s] /\ x.task # cct[s].task
            /\ \A e \in Cores : core[s][e].pc \in Staged => core[s][e].task # x.task
        BY <1>3, RunIsNew
      <3> HIDE DEF x
      <3> QED
        BY <1>0, <2>1, <2>3, <3>1 DEF Apart, Staged
    <2> QED
      BY <2>2, <2>3
  <1>4. CASE ExecComplete(s, c)
    <2>1. /\ core'[s][c].pc = "completed" /\ core'[s][c].task = x.task /\ x.pc = "ran"
          /\ completeQueue'[s] = completeQueue[s] \union {x.task}
          /\ \A v \in Schedulers : v # s => completeQueue'[v] = completeQueue[v]
      BY <1>4 DEF ExecComplete, CoreAt, TypeOK
    <2>2. CASE u # s
      BY <1>0, <2>1, <2>2, ApartSame
    <2>3. CASE u = s
      BY <1>0, <2>1, <2>3 DEF Apart, Staged
    <2> QED
      BY <2>2, <2>3
  <1> QED
    BY <1>1, <1>2, <1>3, <1>4, ExecKinds

(* A completion that is taken is in no other stage. *)
LEMMA ApartCct ==
    ASSUME TypeOK, StagesApart, NEW s \in Schedulers, CctStep(s)
    PROVE  StagesApart'
  <1> USE DEF store, queues
  <1> SUFFICES ASSUME NEW u \in Schedulers PROVE Apart(u)'
    BY DEF StagesApart
  <1>0. Apart(u) /\ UNCHANGED core
    BY Zenon DEF StagesApart, CctStep, CctPop, CctLookup, CctSwap
  <1>1. CASE u # s
    <2>1. cct'[u] = cct[u] /\ completeQueue'[u] = completeQueue[u]
      BY <1>1 DEF CctStep, CctPop, CctLookup, CctSwap, TypeOK
    <2> QED
      BY <1>0, <2>1, ApartSame, Zenon
  <1>2. CASE u = s
    <2>0. cct[s] \in CctState /\ completeQueue[s] \in SUBSET Tasks
      BY DEF TypeOK
    <2>1. ASSUME NEW t \in Tasks, CctPop(s, t) PROVE Apart(s)'
      <3>1. t \in completeQueue[s] /\ completeQueue'[s] = completeQueue[s] \ {t}
        BY <2>1 DEF CctPop, TypeOK
      <3>2. \/ cct'[s].pc = "idle" /\ cct'[s].task = None
            \/ cct'[s].pc = "next" /\ cct'[s].task = t /\ cct'[s].todo = Children[t]
        BY <2>1 DEF CctPop, IdleCct, CctAt, TypeOK
      <3>3. \A e \in Cores : core[s][e].pc = "ran" => core[s][e].task # None
        <4>1. \A e \in Cores : core[s][e] \in CoreState
          BY DEF TypeOK
        <4> QED
          BY <4>1, CoreTypes, TasksAssumption
      <3> QED
        <4>1. t # None /\ t \in Tasks /\ None \notin completeQueue[s]
          BY <2>0, TasksAssumption
        <4>2. /\ cct'[s].task \notin completeQueue'[s]
              /\ cct'[s].pc # "idle" => cct'[s].todo \subseteq Children[cct'[s].task]
              /\ cct'[s].pc \notin {"swap", "retry"}
          BY <3>1, <3>2, <4>1, Zenon
        <4>3. \A e \in Cores :
                 core[s][e].pc = "ran" => /\ core[s][e].task \notin completeQueue'[s]
                                          /\ core[s][e].task # cct'[s].task
          BY <1>0, <1>2, <3>1, <3>2, <3>3, Zenon DEF Apart
        <4> QED
          BY <1>0, <1>2, <4>2, <4>3 DEF Apart
    <2>2. ASSUME NEW k \in Tasks, CctLookup(s, k) PROVE Apart(s)'
      <3>1. /\ UNCHANGED completeQueue /\ cct[s].pc = "next"
            /\ cct'[s].task = cct[s].task /\ cct'[s].todo = cct[s].todo
            /\ cct'[s].child = k /\ k \in cct[s].todo
        BY <2>2, Zenon DEF CctLookup, CctAt, TypeOK
      <3> QED
        BY <1>0, <1>2, <3>1 DEF Apart, Staged
    <2>3. CASE CctSwap(s)
      <3>1. /\ UNCHANGED completeQueue /\ cct[s].pc \in {"swap", "retry"}
            /\ \/ cct'[s].pc = "idle" /\ cct'[s].task = None
               \/ /\ cct'[s].pc = "next" /\ cct'[s].task = cct[s].task
                  /\ cct'[s].todo \subseteq cct[s].todo
               \/ /\ cct'[s].pc = "retry" /\ cct'[s].task = cct[s].task
                  /\ cct'[s].todo = cct[s].todo /\ cct'[s].child = cct[s].child
        BY <2>3 DEF CctSwap, IdleCct, CctAt, TypeOK
      <3>2. \A e \in Cores : core[s][e].pc = "ran" => core[s][e].task # None
        <4>1. \A e \in Cores : core[s][e] \in CoreState
          BY DEF TypeOK
        <4> QED
          BY <4>1, CoreTypes, TasksAssumption
      <3> QED
        BY <1>0, <1>2, <2>0, <3>1, <3>2, TasksAssumption DEF Apart, Staged
    <2> QED
      BY <1>2, <2>1, <2>2, <2>3, Zenon DEF CctStep
  <1> QED
    BY <1>1, <1>2

(* Every step keeps the stages apart. *)
LEMMA ApartNext ==
    TypeOK /\ OnePlace /\ MissElsewhere /\ DataKept /\ StagesApart /\ [Next]_vars
      => StagesApart'
  <1> SUFFICES ASSUME TypeOK, OnePlace, MissElsewhere, DataKept, StagesApart, [Next]_vars
               PROVE  StagesApart'
    OBVIOUS
  <1>1. ASSUME UNCHANGED <<core, cct, completeQueue>> PROVE StagesApart'
    BY <1>1, ApartSame DEF StagesApart
  <1>2. CASE UNCHANGED vars
    BY <1>1, <1>2 DEF vars, queues
  <1>3. ASSUME NEW s \in Schedulers, CrtStep(s) \/ WsStep(s) \/ MonStep(s) \/ ProcStep(s)
        PROVE  StagesApart'
    BY <1>1, <1>3, OtherThreads
  <1>4. ASSUME NEW s \in Schedulers, NEW c \in Cores, ExecStep(s, c) PROVE StagesApart'
    BY <1>4, ApartExec
  <1>5. ASSUME NEW s \in Schedulers, CctStep(s) PROVE StagesApart'
    BY <1>5, ApartCct
  <1>6. ASSUME NEW s \in Schedulers, RsStep(s) PROVE StagesApart'
    BY <1>1, <1>6, Zenon DEF RsStep, RsStop, RsLookup, RsSwap, queues
  <1> QED
    BY <1>2, <1>3, <1>4, <1>5, <1>6 DEF Next, Terminated

(* The parents of t that are outstanding, and what IndegreeExact says of t. *)
Left(t) == {p \in Parents(t) : Outstanding(p, t)}

IndegreeOf(t) ==
    /\ zht[t].indegree = Cardinality(Left(t))
    /\ {d[2] : d \in zht[t].notes} = Parents(t) \ Left(t)

(* IndegreeExact, task by task. *)
LEMMA IndegreeEach == IndegreeExact <=> \A t \in Tasks : IndegreeOf(t)
  BY Zenon DEF IndegreeExact, IndegreeOf, Left

(* The same after a step. *)
LEMMA IndegreeEachPrime == (\A t \in Tasks : IndegreeOf(t))' => IndegreeExact'
  BY IndegreeEach, PTL

(* Outstanding depends on where the task has run and on its stage. *)
LEMMA OutstandingSame ==
    ASSUME \A u \in Schedulers : Held(u, "ran")' = Held(u, "ran"),
           UNCHANGED completeQueue,
           \A u \in Schedulers : /\ cct'[u].task = cct[u].task
                                 /\ cct'[u].todo = cct[u].todo,
           \A u \in Schedulers, c \in Cores :
              /\ core'[u][c].pc = "ran" <=> core[u][c].pc = "ran"
              /\ core[u][c].pc = "ran" => core'[u][c].task = core[u][c].task,
           NEW p, NEW t
    PROVE  Outstanding(p, t)' <=> Outstanding(p, t)
  BY DEF Outstanding

(* A child whose metadata and outstanding parents stay. *)
LEMMA IndegreeSame ==
    ASSUME NEW t \in Tasks, IndegreeOf(t), zht'[t] = zht[t],
           \A p \in Parents(t) : Outstanding(p, t)' <=> Outstanding(p, t)
    PROVE  IndegreeOf(t)'
  <1>1. Left(t)' = Left(t)
    BY DEF Left, Parents
  <1>2. (Parents(t) \ Left(t))' = Parents(t) \ Left(t)
    BY <1>1 DEF Parents
  <1> QED
    BY <1>1, <1>2 DEF IndegreeOf

(* Cores: running a task that was outstanding leaves it outstanding. *)
LEMMA OutstandingExec ==
    ASSUME TypeOK, OnePlace, MissElsewhere, DataKept,
           NEW s \in Schedulers, NEW c \in Cores, ExecStep(s, c), NEW p, NEW t
    PROVE  Outstanding(p, t)' <=> Outstanding(p, t)
  <1> DEFINE x == core[s][c]
  <1>0. /\ UNCHANGED cct
        /\ \A v \in Schedulers, e \in Cores : v # s \/ e # c => core'[v][e] = core[v][e]
    BY ExecKeeps
  <1>1. CASE QuietStep(s, c)
    <2>1. x.pc # "ran" /\ core'[s][c].pc # "ran"
      BY <1>1, Zenon DEF QuietStep, Staged
    <2> HIDE DEF x
    <2> QED
      BY <1>0, <1>1, <2>1, OutstandingSame DEF QuietStep, x
  <1>2. CASE ExecCount(s, c)
    <2>1. x.pc # "ran" /\ core'[s][c].pc # "ran"
      BY <1>2 DEF ExecCount, IdleCore, CoreAt, TypeOK
    <2>2. UNCHANGED <<completeQueue, localData>>
      BY <1>2, Zenon DEF ExecCount, queues
    <2> QED
      BY <1>0, <2>1, <2>2, OutstandingSame, Unmoved
  <1>3. CASE ExecRun(s, c)
    <2>1. /\ x.pc = "fetch" /\ core'[s][c].pc = "ran" /\ core'[s][c].task = x.task
          /\ UNCHANGED completeQueue
      BY <1>3 DEF ExecRun, CoreAt, TypeOK, queues
    <2>2. CASE p = x.task
      <3>1. Outstanding(p, t)
        BY <1>3, <2>2, RunIsNew DEF Outstanding
      <3>2. Outstanding(p, t)'
        BY <2>1, <2>2 DEF Outstanding
      <3> QED
        BY <3>1, <3>2
    <2>3. CASE p # x.task
      <3>1. \A u \in Schedulers : p \in Held(u, "ran")' <=> p \in Held(u, "ran")
        BY <1>3, <2>3, ResultHere, Zenon
      <3>2. \A u \in Schedulers, e \in Cores :
               core'[u][e].pc = "ran" /\ core'[u][e].task = p
                 <=> core[u][e].pc = "ran" /\ core[u][e].task = p
        BY <1>0, <2>1, <2>3, Zenon
      <3> QED
        BY <1>0, <2>1, <3>1, <3>2 DEF Outstanding
    <2> QED
      BY <2>2, <2>3
  <1>4. CASE ExecComplete(s, c)
    <2>1. /\ x.pc = "ran" /\ core'[s][c].pc = "completed"
          /\ completeQueue'[s] = completeQueue[s] \union {x.task}
          /\ \A u \in Schedulers : u # s => completeQueue'[u] = completeQueue[u]
      BY <1>4 DEF ExecComplete, CoreAt, TypeOK
    <2>2. \A u \in Schedulers : Held(u, "ran")' = Held(u, "ran")
      BY <1>4, Unmoved, Zenon DEF ExecComplete
    <2>3. CASE p = x.task
      <3>1. Outstanding(p, t)
        BY <2>1, <2>3, Zenon DEF Outstanding
      <3>2. Outstanding(p, t)'
        BY <2>1, <2>3, Zenon DEF Outstanding
      <3> QED
        BY <3>1, <3>2
    <2>4. CASE p # x.task
      <3>1. \A u \in Schedulers, e \in Cores :
               core'[u][e].pc = "ran" /\ core'[u][e].task = p
                 <=> core[u][e].pc = "ran" /\ core[u][e].task = p
        BY <1>0, <2>1, <2>4, Zenon
      <3>2. \A u \in Schedulers : p \in completeQueue'[u] <=> p \in completeQueue[u]
        BY <2>1, <2>4
      <3> QED
        BY <1>0, <2>2, <3>1, <3>2 DEF Outstanding
    <2> QED
      BY <2>3, <2>4
  <1> QED
    BY <1>1, <1>2, <1>3, <1>4, ExecKinds

(* A task popped from the complete queue has all its children to do. *)
LEMMA OutstandingPop ==
    ASSUME TypeOK, NEW s \in Schedulers, NEW q \in Tasks, CctPop(s, q),
           NEW t \in Tasks, NEW p \in Parents(t)
    PROVE  Outstanding(p, t)' <=> Outstanding(p, t)
  <1>0. p \in Tasks /\ t \in Children[p]
    BY DEF Parents
  <1>1. /\ q \in completeQueue[s] /\ completeQueue'[s] = completeQueue[s] \ {q}
        /\ \A u \in Schedulers : u # s => /\ completeQueue'[u] = completeQueue[u]
                                          /\ cct'[u] = cct[u]
    BY DEF CctPop, TypeOK
  <1>2. UNCHANGED <<core, localData>>
    BY Zenon DEF CctPop
  <1>3. \A u \in Schedulers : Held(u, "ran")' = Held(u, "ran")
    BY <1>2, Unmoved
  <1>4. cct[s].task # p
    <2>1. cct[s] \in CctState /\ cct[s].pc = "idle"
      BY Zenon DEF CctPop, TypeOK
    <2> QED
      BY <1>0, <2>1, CctTypes, TasksAssumption
  <1>5. \/ Children[q] = {} /\ cct'[s].task = None
        \/ cct'[s].task = q /\ cct'[s].todo = Children[q]
    BY DEF CctPop, IdleCct, CctAt, TypeOK
  <1>6. CASE p = q
    <2>1. cct'[s].task = p /\ t \in cct'[s].todo
      BY <1>0, <1>5, <1>6
    <2>2. Outstanding(p, t)'
      BY <2>1 DEF Outstanding
    <2>3. Outstanding(p, t)
      BY <1>1, <1>6, Zenon DEF Outstanding
    <2> QED
      BY <2>2, <2>3
  <1>7. CASE p # q
    <2>1. cct'[s].task # p
      BY <1>0, <1>5, <1>7, TasksAssumption, Zenon
    <2>2. \A u \in Schedulers : /\ p \in completeQueue'[u] <=> p \in completeQueue[u]
                                /\ cct'[u].task = p /\ t \in cct'[u].todo
                                      <=> cct[u].task = p /\ t \in cct[u].todo
      BY <1>1, <1>4, <1>7, <2>1, Zenon
    <2> QED
      BY <1>2, <1>3, <2>2, Zenon DEF Outstanding
  <1> QED
    BY <1>6, <1>7

(* A compare_swap that succeeds takes its task off one child, which it was *)
(* outstanding for, and off no other.                                      *)
LEMMA SwapTakesOne ==
    ASSUME TypeOK, OnePlace, DataKept, StagesApart, NEW s \in Schedulers,
           CctSwap(s), Matches(s), NEW k, k = cct[s].child, NEW p, p = cct[s].task
    PROVE  /\ k \in Tasks /\ p \in Parents(k)
           /\ Outstanding(p, k) /\ ~Outstanding(p, k)'
           /\ \A t \in Tasks : \A q \in Parents(t) :
                 t # k \/ q # p => (Outstanding(q, t)' <=> Outstanding(q, t))
           /\ zht' = [zht EXCEPT ![k] = Notified(zht[k], s, p)]
  <1>0. /\ cct[s] \in CctState /\ cct[s].pc \in {"swap", "retry"} /\ Apart(s)
        /\ UNCHANGED <<core, localData, completeQueue>>
    BY Zenon DEF CctSwap, TypeOK, StagesApart, queues
  <1>1. k \in Tasks /\ p \in Tasks
    BY <1>0, CctTypes, Zenon
  <1>2. k \in cct[s].todo /\ k \in Children[p]
    BY <1>0, <1>1, TasksAssumption, Zenon DEF Apart
  <1>3. p \in Parents(k)
    BY <1>1, <1>2, Zenon DEF Parents
  <1>4. Outstanding(p, k)
    BY <1>2, Zenon DEF Outstanding
  <1>5. \A u \in Schedulers : Held(u, "ran")' = Held(u, "ran")
    BY <1>0, Unmoved, Zenon
  <1>6. /\ \A u \in Schedulers : u # s => cct'[u] = cct[u]
        /\ \/ cct[s].todo \ {k} = {} /\ cct'[s].task = None
           \/ cct'[s].task = p /\ cct'[s].todo = cct[s].todo \ {k}
    <2>1. \/ cct[s].todo \ {k} = {} /\ cct' = [cct EXCEPT ![s] = IdleCct]
          \/ cct' = [cct EXCEPT ![s] = CctAt("next", p, cct[s].todo \ {k}, None, NoMetadata)]
      BY DEF CctSwap
    <2>2. IdleCct.task = None
      BY DEF IdleCct, CctAt
    <2>3. PICK x : x = CctAt("next", p, cct[s].todo \ {k}, None, NoMetadata)
      OBVIOUS
    <2>4. x.task = p /\ x.todo = cct[s].todo \ {k}
      BY <2>3, Zenon DEF CctAt
    <2> QED
      BY <2>1, <2>2, <2>3, <2>4, Zenon DEF TypeOK
  <1>7. p \in Held(s, "ran")
    BY <1>0, StagedRan, Zenon
  <1>8. \A u \in Schedulers : u # s => p \notin Held(u, "ran")
    BY <1>1, <1>7, Once, PlaceNames, Zenon
  <1>9. \A u \in Schedulers : p \notin completeQueue[u]
    BY <1>0, <1>8, StagedRan, Zenon DEF Apart
  <1>10. \A u \in Schedulers, c \in Cores : ~(core[u][c].pc = "ran" /\ core[u][c].task = p)
    BY <1>0, <1>8, StagedRan, Zenon DEF Apart, Staged
  <1>11. \A u \in Schedulers : u # s => cct[u].task # p
    <2>1. \A u \in Schedulers : cct[u].pc = "idle" => cct[u].task = None
      BY CctTypes, Zenon DEF TypeOK
    <2> QED
      BY <1>1, <1>8, <2>1, StagedRan, TasksAssumption, Zenon
  <1>12. \A u \in Schedulers : ~(cct'[u].task = p /\ k \in cct'[u].todo)
    BY <1>1, <1>6, <1>11, TasksAssumption, Zenon
  <1>13. ~Outstanding(p, k)'
    BY <1>0, <1>5, <1>7, <1>9, <1>10, <1>12, Zenon DEF Outstanding
  <1>14. ASSUME NEW t \in Tasks, NEW q \in Parents(t), t # k \/ q # p
         PROVE  Outstanding(q, t)' <=> Outstanding(q, t)
    <2>1. q \in Tasks
      BY Zenon DEF Parents
    <2>2. cct'[s].task = q /\ t \in cct'[s].todo <=> cct[s].task = q /\ t \in cct[s].todo
      BY <1>6, <1>14, <2>1, TasksAssumption
    <2>3. \A u \in Schedulers : cct'[u].task = q /\ t \in cct'[u].todo
                                  <=> cct[u].task = q /\ t \in cct[u].todo
      BY <1>6, <2>2
    <2> QED
      BY <1>0, <1>5, <2>3 DEF Outstanding
  <1>15. zht' = [zht EXCEPT ![k] = Notified(zht[k], s, p)]
    BY Zenon DEF CctSwap, Matches
  <1> QED
    BY <1>1, <1>3, <1>4, <1>13, <1>14, <1>15

(* The indegree goes down by one as one parent stops being outstanding. *)
LEMMA IndegreeSwap ==
    ASSUME TypeOK, OnePlace, DataKept, StagesApart, IndegreeExact,
           NEW s \in Schedulers, CctSwap(s), Matches(s), NEW t \in Tasks
    PROVE  IndegreeOf(t)'
  <1>0. PICK k, p : k = cct[s].child /\ p = cct[s].task
    OBVIOUS
  <1> DEFINE v == Notified(zht[k], s, p)
  <1>1. /\ k \in Tasks /\ p \in Parents(k) /\ Outstanding(p, k) /\ ~Outstanding(p, k)'
        /\ \A c \in Tasks : \A q \in Parents(c) :
              c # k \/ q # p => (Outstanding(q, c)' <=> Outstanding(q, c))
        /\ zht' = [zht EXCEPT ![k] = v]
    BY <1>0, SwapTakesOne
  <1>2. v.indegree = zht[k].indegree - 1 /\ v.notes = zht[k].notes \union {<<s, p>>}
    BY DEF Notified
  <1>3. IndegreeOf(t) /\ IndegreeOf(k)
    BY <1>1, IndegreeEach, Zenon
  <1> HIDE DEF v
  <1>4. CASE t # k
    BY <1>1, <1>3, <1>4, IndegreeSame DEF TypeOK
  <1>5. CASE t = k
    <2>1. zht'[k] = v
      BY <1>1, Zenon DEF TypeOK
    <2>2. Left(k)' = Left(k) \ {p} /\ p \in Left(k)
      BY <1>1, Zenon DEF Left, Parents
    <2>3. Cardinality(Left(k) \ {p}) = Cardinality(Left(k)) - 1
      <3>1. IsFiniteSet(Left(k))
        BY TaskSetsFinite DEF Left, Parents
      <3> QED
        BY <2>2, <3>1, FS_RemoveElement, Zenon
    <2>4. v.indegree = Cardinality(Left(k) \ {p})
      BY <1>2, <1>3, <2>3 DEF IndegreeOf
    <2>5. {d[2] : d \in v.notes} = Parents(k) \ (Left(k) \ {p})
      <3>1. {d[2] : d \in v.notes} = {d[2] : d \in zht[k].notes} \union {p}
        <4>1. v.notes = zht[k].notes \union {<<s, p>>}
          BY <1>2, Zenon
        <4>2. <<s, p>>[2] = p
          OBVIOUS
        <4> QED
          BY <4>1, <4>2, Zenon
      <3>2. {d[2] : d \in zht[k].notes} = Parents(k) \ Left(k)
        BY <1>3 DEF IndegreeOf
      <3> QED
        BY <1>1, <3>1, <3>2
    <2>6. Parents(k)' = Parents(k)
      BY DEF Parents
    <2> QED
      BY <1>5, <2>1, <2>2, <2>4, <2>5, <2>6, Zenon DEF IndegreeOf
  <1> QED
    BY <1>4, <1>5

(* Every step keeps the indegrees exact. *)
LEMMA IndegreeNext ==
    /\ TypeOK /\ OnePlace /\ MissElsewhere /\ DataKept /\ StagesApart /\ IndegreeExact
    /\ [Next]_vars
    => IndegreeExact'
  <1> SUFFICES ASSUME TypeOK, OnePlace, MissElsewhere, DataKept, StagesApart,
                      IndegreeExact, [Next]_vars, NEW t \in Tasks
               PROVE  IndegreeOf(t)'
    BY IndegreeEachPrime
  <1>0. IndegreeOf(t)
    BY IndegreeEach
  <1>1. ASSUME UNCHANGED <<zht, core, completeQueue, localData>>,
               \A u \in Schedulers : /\ cct'[u].task = cct[u].task
                                     /\ cct'[u].todo = cct[u].todo
        PROVE  IndegreeOf(t)'
    <2>1. \A u \in Schedulers : Held(u, "ran")' = Held(u, "ran")
      BY <1>1, Unmoved, Zenon
    <2>2. \A p \in Parents(t) : Outstanding(p, t)' <=> Outstanding(p, t)
      BY <1>1, <2>1, OutstandingSame
    <2> QED
      BY <1>0, <1>1, <2>2, IndegreeSame, Zenon
  <1>2. CASE UNCHANGED vars
    BY <1>1, <1>2 DEF vars, queues, store
  <1>3. ASSUME NEW s \in Schedulers, CrtStep(s) \/ WsStep(s) \/ MonStep(s) \/ ProcStep(s)
        PROVE  IndegreeOf(t)'
    BY <1>1, <1>3, OtherThreads, Zenon
  <1>4. ASSUME NEW s \in Schedulers, NEW c \in Cores, ExecStep(s, c) PROVE IndegreeOf(t)'
    BY <1>0, <1>4, ExecKeeps, OutstandingExec, IndegreeSame
  <1>5. ASSUME NEW s \in Schedulers, RsStep(s) PROVE IndegreeOf(t)'
    <2>1. UNCHANGED <<zht, core, completeQueue, localData, cct>>
      BY <1>5, Zenon DEF RsStep, RsStop, RsLookup, RsSwap, queues, store
    <2> QED
      BY <1>1, <2>1
  <1>6. ASSUME NEW s \in Schedulers, CctStep(s) PROVE IndegreeOf(t)'
    <2>1. ASSUME NEW q \in Tasks, CctPop(s, q) PROVE IndegreeOf(t)'
      <3>1. UNCHANGED zht
        BY <2>1, Zenon DEF CctPop, store
      <3> QED
        BY <1>0, <2>1, <3>1, OutstandingPop, IndegreeSame
    <2>2. ASSUME NEW k \in Tasks, CctLookup(s, k) PROVE IndegreeOf(t)'
      <3>1. UNCHANGED <<zht, core, completeQueue, localData>>
        BY <2>2, Zenon DEF CctLookup, store, queues
      <3>2. \A u \in Schedulers : cct'[u].task = cct[u].task /\ cct'[u].todo = cct[u].todo
        BY <2>2 DEF CctLookup, CctAt, TypeOK
      <3> QED
        BY <1>1, <3>1, <3>2
    <2>3. ASSUME CctSwap(s), Matches(s) PROVE IndegreeOf(t)'
      BY <2>3, IndegreeSwap, Zenon
    <2>4. ASSUME CctSwap(s), ~Matches(s) PROVE IndegreeOf(t)'
      <3>1. UNCHANGED <<zht, core, completeQueue, localData>>
        BY <2>4, Zenon DEF CctSwap, queues
      <3>2. \A u \in Schedulers : cct'[u].task = cct[u].task /\ cct'[u].todo = cct[u].todo
        <4> DEFINE y == CctAt("retry", cct[s].task, cct[s].todo, cct[s].child,
                              zht[cct[s].child])
        <4>1. cct' = [cct EXCEPT ![s] = y]
          BY <2>4, Zenon DEF CctSwap
        <4>2. y.task = cct[s].task /\ y.todo = cct[s].todo
          BY DEF CctAt
        <4> HIDE DEF y
        <4> QED
          BY <4>1, <4>2 DEF TypeOK
      <3> QED
        BY <1>1, <3>1, <3>2
    <2> QED
      BY <1>6, <2>1, <2>2, <2>3, <2>4 DEF CctStep
  <1> QED
    BY <1>2, <1>3, <1>4, <1>5, <1>6 DEF Next, Terminated

(* At first all parents are outstanding, and no task is in a stage. *)
LEMMA IndegreeInit == Init => StagesApart /\ IndegreeExact
  <1> SUFFICES ASSUME Init PROVE StagesApart /\ IndegreeExact
    OBVIOUS
  <1>1. \A s \in Schedulers, c \in Cores : core[s][c].pc = "idle"
    BY DEF Init, IdleCore, CoreAt
  <1>2. \A s \in Schedulers : /\ cct[s].pc = "idle" /\ completeQueue[s] = {}
                              /\ \A t \in Tasks : t \notin Held(s, "ran")
    <2>1. \A s \in Schedulers, t \in Tasks : localData[s][<<s, t>>] = "absent"
      BY Zenon DEF Init, DataName
    <2>2. \A s \in Schedulers : Held(s, "ran") = {t \in Tasks : localData[s][<<s, t>>] # "absent"}
      BY HeldIs, Zenon DEF HeldAs
    <2>3. \A s \in Schedulers : cct[s].pc = "idle" /\ completeQueue[s] = {}
      BY Zenon DEF Init, IdleCct, CctAt
    <2> QED
      BY <2>1, <2>2, <2>3, Zenon
  <1>3. StagesApart
    BY <1>1, <1>2 DEF StagesApart, Apart, Staged
  <1>4. ASSUME NEW t \in Tasks PROVE IndegreeOf(t)
    <2>1. \A p \in Parents(t) : Outstanding(p, t)
      BY <1>2 DEF Outstanding, Parents
    <2>2. Left(t) = Parents(t)
      BY <2>1, Zenon DEF Left
    <2>3. zht[t].indegree = Cardinality(Parents(t)) /\ zht[t].notes = {}
      BY Zenon DEF Init
    <2> QED
      BY <2>2, <2>3 DEF IndegreeOf
  <1> QED
    BY <1>3, <1>4, IndegreeEach

(* A compare_swap changes the metadata of a task with an outstanding       *)
(* parent, so its indegree is not 0.                                       *)
LEMMA ReadyStep ==
    ASSUME TypeOK, OnePlace, DataKept, StagesApart, IndegreeExact, [Next]_vars,
           NEW t \in Tasks, zht[t].indegree = 0
    PROVE  zht'[t] = zht[t]
  <1>1. ASSUME NEW s \in Schedulers, CctSwap(s), Matches(s) PROVE zht'[t] = zht[t]
    <2>0. PICK k, p : k = cct[s].child /\ p = cct[s].task
      BY Zenon
    <2>1. /\ p \in Parents(k) /\ Outstanding(p, k)
          /\ zht' = [zht EXCEPT ![k] = Notified(zht[k], s, p)]
      BY <1>1, <2>0, SwapTakesOne
    <2>2. t # k
      <3>1. SUFFICES ASSUME t = k PROVE FALSE
        OBVIOUS
      <3>2. p \in Left(t)
        BY <2>1, <3>1 DEF Left
      <3>3. Cardinality(Left(t)) = 0
        BY IndegreeEach DEF IndegreeOf
      <3>4. IsFiniteSet(Left(t))
        BY TaskSetsFinite DEF Left, Parents
      <3> QED
        BY <3>2, <3>3, <3>4, FS_EmptySet
    <2> QED
      BY <2>1, <2>2 DEF TypeOK
  <1>2. ASSUME NEW s \in Schedulers, CctStep(s) PROVE zht'[t] = zht[t]
    <2>1. UNCHANGED zht \/ (CctSwap(s) /\ Matches(s))
      BY <1>2, Zenon DEF CctStep, CctPop, CctLookup, CctSwap, store
    <2> QED
      BY <1>1, <2>1
  <1>3. ASSUME NEW s \in Schedulers, CrtStep(s) \/ WsStep(s) \/ MonStep(s) \/ ProcStep(s)
        PROVE  zht'[t] = zht[t]
    BY <1>3, OtherThreads
  <1>4. ASSUME NEW s \in Schedulers, NEW c \in Cores, ExecStep(s, c)
        PROVE  zht'[t] = zht[t]
    BY <1>4, ExecKeeps
  <1>5. ASSUME NEW s \in Schedulers, RsStep(s) PROVE zht'[t] = zht[t]
    BY <1>5, Zenon DEF RsStep, RsStop, RsLookup, RsSwap, store
  <1>6. CASE UNCHANGED vars
    BY <1>6 DEF vars, store
  <1> QED
    BY <1>2, <1>3, <1>4, <1>5, <1>6, Zenon DEF Next, Terminated

(* The facts that the following proofs start from. *)
DataInv == TypeOK /\ OnePlace /\ MissElsewhere /\ DataKept /\ StagesApart

(* What DataCorrect says holds in every reachable state. *)
LEMMA DataInvHolds == Spec => []DataInv
  <1>1. Init => DataInv
    BY TypeInit, PlaceInit, MissInit, DataInit, IndegreeInit DEF DataInv
  <1>2. DataInv /\ OneConversation /\ [Next]_vars => DataInv'
    BY TypeNext, PlaceNext, MissElsewhereNext, DataNext, ApartNext DEF DataInv
  <1> QED
    BY <1>1, <1>2, ConversationCorrect, PTL DEF Spec

(* notify_children run by several schedulers at once, for the same child   *)
(* even, loses no update of its indegree and makes none twice.             *)
THEOREM IndegreeCorrect == Spec => []IndegreeExact
  <1>1. DataInv /\ IndegreeExact /\ [Next]_vars => IndegreeExact'
    BY IndegreeNext DEF DataInv
  <1> QED
    BY <1>1, IndegreeInit, DataInvHolds, PTL DEF Spec

(* The copy of a ready task's metadata that the checking-ready thread and  *)
(* the cores keep after their lookup does not become stale.                *)
THEOREM ReadyCorrect == Spec => ReadyIsFinal
  <1>1. DataInv /\ IndegreeExact /\ [Next]_vars
          => [\A t \in Tasks : zht[t].indegree = 0 => zht'[t] = zht[t]]_vars
    BY ReadyStep DEF DataInv
  <1> QED
    BY <1>1, IndegreeCorrect, DataInvHolds, PTL DEF Spec, ReadyIsFinal

-----------------------------------------------------------------------------
(* What a scheduler has finished. *)

Holds(s, t) == \E c \in Cores : core[s][c].pc \in Staged /\ core[s][c].task = t

(* The finished tasks have run here and are with no core any more. *)
LEMMA FinishedIs ==
    \A s \in Schedulers : Finished(s) = {t \in Held(s, "ran") : ~Holds(s, t)}
  <1> SUFFICES ASSUME NEW s \in Schedulers
               PROVE  Finished(s) = {t \in Held(s, "ran") : ~Holds(s, t)}
    OBVIOUS
  <1>1. Held(s, "ran") = {t \in Tasks : localData[s][<<s, t>>] # "absent"}
    BY HeldIs DEF HeldAs
  <1> QED
    BY <1>1 DEF Finished, Holds, Staged

(* The same after a step. *)
LEMMA FinishedIsPrime ==
    (\A s \in Schedulers : Finished(s) = {t \in Held(s, "ran") : ~Holds(s, t)})'
  BY FinishedIs, PTL

(* A task is finished on one scheduler. *)
LEMMA FinishedOnce ==
    ASSUME OnePlace, NEW s \in Schedulers, NEW u \in Schedulers,
           NEW t \in Finished(s), t \in Finished(u) \/ t \in Held(u, "ran")
    PROVE  s = u
  <1>1. t \in Held(s, "ran") /\ t \in Held(u, "ran")
    BY FinishedIs
  <1>2. t \in Tasks
    BY DEF Finished
  <1> QED
    BY <1>1, <1>2, Once, PlaceNames

(* A step after which every scheduler has finished the same. *)
LEMMA FinishedSame ==
    ASSUME \A u \in Schedulers : Held(u, "ran")' = Held(u, "ran"),
           \A u \in Schedulers : \A t : Holds(u, t)' <=> Holds(u, t),
           NEW s \in Schedulers
    PROVE  Finished(s)' = Finished(s)
  BY FinishedIs, FinishedIsPrime

(* A step that neither moves a task nor changes data finishes none. *)
LEMMA FinishedStill ==
    ASSUME UNCHANGED <<core, localData>>, NEW s \in Schedulers
    PROVE  Finished(s)' = Finished(s)
  <1>1. \A u \in Schedulers : Held(u, "ran")' = Held(u, "ran")
    BY Unmoved
  <1>2. \A u \in Schedulers : \A t : Holds(u, t)' <=> Holds(u, t)
    BY DEF Holds, Staged
  <1> QED
    BY <1>1, <1>2, FinishedSame

(* Only numTaskFin++ makes a task finished, and only that task. *)
LEMMA FinishedExec ==
    ASSUME DataInv, NEW s \in Schedulers, NEW c \in Cores, ExecStep(s, c)
    PROVE  \/ (\A u \in Schedulers : Finished(u)' = Finished(u)) /\ UNCHANGED numTaskFin
           \/ /\ ExecCount(s, c)
              /\ core[s][c].task \in Held(s, "ran") \ Finished(s)
              /\ Finished(s)' = Finished(s) \union {core[s][c].task}
              /\ \A u \in Schedulers : u # s => Finished(u)' = Finished(u)
  <1> USE DEF DataInv
  <1> DEFINE x == core[s][c]
  <1>k. PICK k : k = x.task
    OBVIOUS
  <1>0. \A u \in Schedulers, e \in Cores : u # s \/ e # c => core'[u][e] = core[u][e]
    BY ExecKeeps
  <1>1. CASE QuietStep(s, c)
    <2>1. \A u \in Schedulers : \A t : Holds(u, t)' <=> Holds(u, t)
      <3>1. \A u \in Schedulers, e \in Cores :
               core[u][e].pc \in Staged \/ core'[u][e].pc \in Staged
                 => core'[u][e] = core[u][e]
        BY <1>0, <1>1 DEF QuietStep
      <3> QED
        BY <3>1 DEF Holds, Staged
    <2> QED
      BY <1>1, <2>1, FinishedSame DEF QuietStep
  <1>2. CASE ExecComplete(s, c)
    <2>1. x.pc = "ran" /\ core'[s][c].pc = "completed" /\ core'[s][c].task = x.task
      BY <1>2 DEF ExecComplete, CoreAt, TypeOK
    <2>2. UNCHANGED <<localData, numTaskFin>>
      BY <1>2, Zenon DEF ExecComplete, counts
    <2>3. \A u \in Schedulers : \A t : Holds(u, t)' <=> Holds(u, t)
      <3>1. \A u \in Schedulers, e \in Cores :
               /\ core'[u][e].pc \in Staged <=> core[u][e].pc \in Staged
               /\ core'[u][e].pc \in Staged => core'[u][e].task = core[u][e].task
        BY <1>0, <2>1 DEF Staged
      <3> QED
        BY <3>1 DEF Holds, Staged
    <2> QED
      BY <2>2, <2>3, FinishedSame, Unmoved
  <1>3. CASE ExecRun(s, c)
    <2>1. x.pc \notin Staged /\ core'[s][c].pc = "ran" /\ core'[s][c].task = k
      BY <1>k, <1>3 DEF ExecRun, CoreAt, TypeOK, Staged
    <2>2. UNCHANGED numTaskFin
      BY <1>3, Zenon DEF ExecRun, counts
    <2>3. ASSUME NEW u \in Schedulers, u # s PROVE Finished(u)' = Finished(u)
      <3>1. Held(u, "ran")' = Held(u, "ran")
        BY <1>3, <2>3, ResultHere
      <3>2. \A t : Holds(u, t)' <=> Holds(u, t)
        BY <1>0, <2>3 DEF Holds, Staged
      <3> QED
        BY <3>1, <3>2, FinishedIs, FinishedIsPrime
    <2>4. Finished(s)' = Finished(s)
      <3>1. Held(s, "ran")' = Held(s, "ran") \union {k} /\ k \notin Held(s, "ran")
        BY <1>k, <1>3, ResultHere, RunIsNew
      <3>2. Holds(s, k)'
        BY <2>1 DEF Holds, Staged
      <3>3. ASSUME NEW t, t # k PROVE Holds(s, t)' <=> Holds(s, t)
        BY <1>0, <2>1, <3>3 DEF Holds, Staged
      <3> QED
        BY <3>1, <3>2, <3>3, FinishedIs, FinishedIsPrime
    <2> QED
      BY <2>2, <2>3, <2>4
  <1>4. CASE ExecCount(s, c)
    <2>1. x.pc \in Staged /\ core'[s][c].pc \notin Staged /\ UNCHANGED localData
      BY <1>4 DEF ExecCount, IdleCore, CoreAt, TypeOK, Staged
    <2>2. \A u \in Schedulers : Held(u, "ran")' = Held(u, "ran")
      BY <2>1, Unmoved
    <2>3. k \in Held(s, "ran") /\ Holds(s, k)
      BY <1>k, <2>1, StagedRan DEF Holds
    <2>4. ~Holds(s, k)'
      <3>1. \A e \in Cores : core[s][e].pc \in Staged /\ core[s][e].task = k => e = c
        BY <1>k, <2>1 DEF StagesApart, Apart
      <3>2. \A e \in Cores : core'[s][e].pc \in Staged => core'[s][e].task # k
        BY <1>0, <2>1, <3>1
      <3> QED
        BY <3>2 DEF Holds, Staged
    <2>5. ASSUME NEW t, t # k PROVE Holds(s, t)' <=> Holds(s, t)
      BY <1>k, <1>0, <2>1, <2>5 DEF Holds, Staged
    <2>6. ASSUME NEW u \in Schedulers, u # s PROVE Finished(u)' = Finished(u)
      <3>1. \A t : Holds(u, t)' <=> Holds(u, t)
        BY <1>0, <2>6 DEF Holds, Staged
      <3> QED
        BY <2>2, <3>1, FinishedIs, FinishedIsPrime
    <2>7. Finished(s)' = Finished(s) \union {k} /\ k \notin Finished(s)
      BY <2>2, <2>3, <2>4, <2>5, FinishedIs, FinishedIsPrime
    <2> QED
      BY <1>k, <1>4, <2>3, <2>6, <2>7
  <1> QED
    BY <1>1, <1>2, <1>3, <1>4, ExecKinds

-----------------------------------------------------------------------------
(* The counters of one scheduler, and what its recording thread is about   *)
(* to write while it holds numTaskFinMutex.                                *)
CountedAt(s) ==
    /\ numTaskFin[s] = Cardinality(Finished(s))
    /\ prevNumTaskFin[s] = Cardinality(reported \intersect Finished(s))
    /\ Reporting(s)
         => rs[s].attempt = rs[s].expected + (numTaskFin[s] - prevNumTaskFin[s])

(* Only what some scheduler has finished is reported. *)
ReportedFinished == \A t \in reported : \E s \in Schedulers : t \in Finished(s)

CounterInv ==
    /\ numTasksDone = Cardinality(reported)
    /\ ReportedFinished
    /\ \A s \in Schedulers : CountedAt(s)

(* The invariant gives CounterExact: each increment is of a task that ran. *)
LEMMA CounterInvImplies == TypeOK /\ CounterInv => CounterExact
  <1> SUFFICES ASSUME TypeOK, CounterInv PROVE CounterExact
    OBVIOUS
  <1>1. reported \subseteq RanTasks
    BY FinishedIs DEF TypeOK, CounterInv, ReportedFinished, RanTasks
  <1> QED
    BY <1>1 DEF CounterInv, CountedAt, CounterExact

(* At first nothing has run, and nothing is reported. *)
LEMMA CounterInit == Init => CounterInv
  <1> SUFFICES ASSUME Init PROVE CounterInv
    OBVIOUS
  <1>1. ASSUME NEW s \in Schedulers PROVE Finished(s) = {}
    BY DEF Init, Finished, DataName
  <1>2. \A s \in Schedulers : ~Reporting(s)
    BY DEF Init, IdleRs, Reporting
  <1>3. \A s \in Schedulers : numTaskFin[s] = 0 /\ prevNumTaskFin[s] = 0
    BY DEF Init
  <1>4. reported = {} /\ numTasksDone = 0
    BY DEF Init
  <1> QED
    BY <1>1, <1>2, <1>3, <1>4, FS_EmptySet DEF CounterInv, CountedAt, ReportedFinished

(* The counters of a scheduler that nothing has happened to. *)
LEMMA CountedSame ==
    ASSUME NEW s \in Schedulers, CountedAt(s), Finished(s)' = Finished(s),
           (reported \intersect Finished(s))' = reported \intersect Finished(s),
           numTaskFin'[s] = numTaskFin[s], prevNumTaskFin'[s] = prevNumTaskFin[s],
           rs'[s] = rs[s]
    PROVE  CountedAt(s)'
  BY DEF CountedAt, Reporting

(* A step that finishes and reports nothing. *)
LEMMA CounterSame ==
    ASSUME CounterInv, \A s \in Schedulers : Finished(s)' = Finished(s),
           UNCHANGED <<numTasksDone, numTaskFin, prevNumTaskFin, rs, reported>>
    PROVE  CounterInv'
  <1>1. ASSUME NEW s \in Schedulers PROVE CountedAt(s)'
    BY CountedSame DEF CounterInv
  <1> QED
    BY <1>1 DEF CounterInv, ReportedFinished

(* numTaskFin++: the task was not finished before, so it was not reported, *)
(* and rs is not at its compare_swap, since it would hold numTaskFinMutex. *)
LEMMA CounterExec ==
    ASSUME DataInv, CounterInv, NEW s \in Schedulers, NEW c \in Cores, ExecStep(s, c)
    PROVE  CounterInv'
  <1> USE DEF DataInv
  <1>0. UNCHANGED <<numTasksDone, prevNumTaskFin, rs, reported>>
    BY ExecKeeps
  <1>1. CASE (\A u \in Schedulers : Finished(u)' = Finished(u)) /\ UNCHANGED numTaskFin
    BY <1>0, <1>1, CounterSame
  <1>2. ASSUME NEW k, k \in Held(s, "ran") \ Finished(s),
               Finished(s)' = Finished(s) \union {k},
               \A u \in Schedulers : u # s => Finished(u)' = Finished(u),
               ExecCount(s, c)
        PROVE  CounterInv'
    <2>1. k \notin reported
      <3>1. ASSUME NEW u \in Schedulers, k \in Finished(u) PROVE FALSE
        BY <1>2, <3>1, FinishedOnce
      <3> QED
        BY <3>1 DEF CounterInv, ReportedFinished
    <2>2. \A u \in Schedulers : (reported \intersect Finished(u))' = reported \intersect Finished(u)
      BY <1>0, <1>2, <2>1
    <2>3. ReportedFinished'
      BY <1>0, <1>2 DEF CounterInv, ReportedFinished
    <2>4. numTaskFin' = [numTaskFin EXCEPT ![s] = numTaskFin[s] + 1] /\ ~Reporting(s)
      BY <1>2, Zenon DEF ExecCount
    <2>5. numTaskFin \in [Schedulers -> Int]
      BY DEF TypeOK
    <2>6. Cardinality(Finished(s) \union {k}) = Cardinality(Finished(s)) + 1
      <3>1. Finished(s) \in SUBSET Tasks
        BY DEF Finished
      <3> QED
        BY <1>2, <3>1, TaskSetsFinite, FS_AddElement
    <2>7. CountedAt(s)'
      <3>1. numTaskFin'[s] = Cardinality(Finished(s))'
        BY <1>2, <2>4, <2>5, <2>6, Zenon DEF CounterInv, CountedAt
      <3>2. prevNumTaskFin'[s] = Cardinality(reported \intersect Finished(s))'
        BY <1>0, <2>2 DEF CounterInv, CountedAt
      <3>3. ~Reporting(s)'
        BY <1>0, <2>4 DEF Reporting
      <3> QED
        BY <3>1, <3>2, <3>3, Zenon DEF CountedAt
    <2>8. ASSUME NEW u \in Schedulers, u # s PROVE CountedAt(u)'
      BY <1>0, <1>2, <2>2, <2>4, <2>5, <2>8, CountedSame, Zenon DEF CounterInv
    <2> QED
      BY <1>0, <2>3, <2>7, <2>8 DEF CounterInv
  <1> QED
    BY <1>1, <1>2, FinishedExec

(* If the counter says that all is done, all is reported. *)
LEMMA AllReported ==
    ASSUME TypeOK, CounterInv, numTasksDone = Cardinality(Tasks)
    PROVE  reported = Tasks
  BY FS_Subset, TasksAssumption, Zenon DEF TypeOK, CounterInv

(* recording_stat: the lookup of the counter and its compare_swap. *)
LEMMA CounterRs ==
    ASSUME DataInv, CounterInv, NEW s \in Schedulers, RsStep(s)
    PROVE  CounterInv'
  <1> USE DEF DataInv
  <1>0. UNCHANGED <<core, localData, numTaskFin>>
    BY Zenon DEF RsStep, RsStop, RsLookup, RsSwap, counts
  <1>1. \A u \in Schedulers : Finished(u)' = Finished(u) /\ Finished(u) \in SUBSET Tasks
    BY <1>0, FinishedStill DEF Finished
  <1>2. /\ rs \in [Schedulers -> RsState] /\ prevNumTaskFin \in [Schedulers -> Int]
        /\ numTaskFin \in [Schedulers -> Int] /\ numTasksDone \in Int
        /\ reported \in SUBSET Tasks
    BY DEF TypeOK
  <1>3. ASSUME NEW y, rs' = [rs EXCEPT ![s] = y],
               UNCHANGED <<numTasksDone, prevNumTaskFin, reported>>,
               y.pc \in {"swap", "retry"}
                 => y.attempt = y.expected + (numTaskFin[s] - prevNumTaskFin[s])
        PROVE  CounterInv'
    <2>1. ReportedFinished'
      BY <1>1, <1>3 DEF CounterInv, ReportedFinished
    <2>2. rs'[s] = y /\ \A u \in Schedulers : u # s => rs'[u] = rs[u]
      BY <1>2, <1>3, Zenon
    <2>3. ASSUME NEW u \in Schedulers, u # s PROVE CountedAt(u)'
      BY <1>0, <1>1, <1>3, <2>2, <2>3, CountedSame DEF CounterInv
    <2>4. CountedAt(s)'
      BY <1>0, <1>1, <1>3, <2>2 DEF CounterInv, CountedAt, Reporting
    <2> QED
      BY <1>3, <2>1, <2>3, <2>4 DEF CounterInv
  <1>4. ASSUME NEW R \in SUBSET Tasks, reported' = R, reported \subseteq R,
               R \subseteq reported \union Finished(s), Finished(s) \subseteq R,
               numTasksDone' = Cardinality(R),
               prevNumTaskFin' = [prevNumTaskFin EXCEPT ![s] = numTaskFin[s]],
               rs' = [rs EXCEPT ![s] = IdleRs]
        PROVE  CounterInv'
    <2>1. ReportedFinished'
      BY <1>1, <1>4 DEF CounterInv, ReportedFinished
    <2>2. /\ rs'[s] = IdleRs /\ prevNumTaskFin'[s] = numTaskFin[s]
          /\ \A u \in Schedulers : u # s => /\ rs'[u] = rs[u]
                                            /\ prevNumTaskFin'[u] = prevNumTaskFin[u]
      BY <1>2, <1>4, Zenon
    <2>3. ASSUME NEW u \in Schedulers, u # s PROVE CountedAt(u)'
      <3>1. Finished(u) \intersect Finished(s) = {}
        BY <2>3, FinishedOnce
      <3>2. (reported \intersect Finished(u))' = reported \intersect Finished(u)
        BY <1>1, <1>4, <3>1
      <3> QED
        BY <1>0, <1>1, <2>2, <2>3, <3>2, CountedSame DEF CounterInv
    <2>4. CountedAt(s)'
      <3>1. (reported \intersect Finished(s))' = Finished(s)
        BY <1>1, <1>4
      <3>2. ~Reporting(s)'
        BY <2>2 DEF Reporting, IdleRs
      <3> QED
        BY <1>0, <1>1, <2>2, <3>1, <3>2, Zenon DEF CounterInv, CountedAt
    <2> QED
      BY <1>4, <2>1, <2>3, <2>4 DEF CounterInv
  <1>5. CASE RsStop(s)
    <2> DEFINE y == [pc |-> "exit", expected |-> 0, attempt |-> 0]
    <2>1. /\ rs' = [rs EXCEPT ![s] = y]
          /\ UNCHANGED <<numTasksDone, prevNumTaskFin, reported>>
      BY <1>5, Zenon DEF RsStop, store
    <2>2. y.pc \notin {"swap", "retry"}
      OBVIOUS
    <2> HIDE DEF y
    <2> QED
      BY <1>3, <2>1, <2>2, Zenon
  <1>6. ASSUME NEW pc, rs' = [rs EXCEPT ![s] = Trial(s, pc, numTasksDone)],
               UNCHANGED <<numTasksDone, prevNumTaskFin, reported>>
        PROVE  CounterInv'
    <2> DEFINE y == Trial(s, pc, numTasksDone)
    <2>1. y.attempt = y.expected + (numTaskFin[s] - prevNumTaskFin[s])
      BY DEF Trial
    <2>2. rs' = [rs EXCEPT ![s] = y]
      BY <1>6
    <2> HIDE DEF y
    <2> QED
      BY <1>3, <1>6, <2>1, <2>2, Zenon
  <1>7. CASE RsLookup(s)
    <2>1. /\ rs' = [rs EXCEPT ![s] = Trial(s, "swap", numTasksDone)]
          /\ UNCHANGED <<numTasksDone, prevNumTaskFin, reported>>
      BY <1>7, Zenon DEF RsLookup, store, counts
    <2> QED
      BY <1>6, <2>1, Zenon
  <1>8. CASE RsSwap(s)
    <2>1. ASSUME numTasksDone = rs[s].expected, numTasksDone' = rs[s].attempt,
                 reported' = reported \union Finished(s),
                 prevNumTaskFin' = [prevNumTaskFin EXCEPT ![s] = numTaskFin[s]],
                 rs' = [rs EXCEPT ![s] = IdleRs]
          PROVE  CounterInv'
      <3> DEFINE R == reported \union Finished(s)
      <3>1. Reporting(s)
        BY <1>8, Zenon DEF RsSwap, Reporting
      <3>2. Cardinality(R) = Cardinality(reported) + Cardinality(Finished(s))
                               - Cardinality(reported \intersect Finished(s))
        BY <1>1, <1>2, TaskSetsFinite, FS_Union
      <3>3. numTasksDone' = Cardinality(R)
        <4>1. CountedAt(s) /\ numTasksDone = Cardinality(reported)
          BY DEF CounterInv
        <4>2. /\ Cardinality(reported) \in Int /\ Cardinality(Finished(s)) \in Int
              /\ Cardinality(reported \intersect Finished(s)) \in Int
          BY <1>1, <1>2, TaskSetsFinite
        <4> HIDE DEF R
        <4> QED
          BY <2>1, <3>1, <3>2, <4>1, <4>2 DEF CountedAt
      <3>4. R \in SUBSET Tasks /\ reported \subseteq R /\ Finished(s) \subseteq R
        BY <1>1, <1>2
      <3> QED
        BY <1>4, <2>1, <3>3, <3>4
    <2>2. ASSUME numTasksDone = Cardinality(Tasks),
                 prevNumTaskFin' = [prevNumTaskFin EXCEPT ![s] = numTaskFin[s]],
                 rs' = [rs EXCEPT ![s] = IdleRs],
                 UNCHANGED <<numTasksDone, reported>>
          PROVE  CounterInv'
      <3>1. reported = Tasks /\ numTasksDone = Cardinality(reported)
        BY <2>2, AllReported DEF CounterInv
      <3>2. Finished(s) \subseteq reported
        BY <1>1, <3>1
      <3> QED
        BY <1>2, <1>4, <2>2, <3>1, <3>2
    <2>3. ASSUME rs' = [rs EXCEPT ![s] = Trial(s, "retry", numTasksDone)],
                 UNCHANGED <<numTasksDone, prevNumTaskFin, reported>>
          PROVE  CounterInv'
      BY <1>6, <2>3, Zenon
    <2> QED
      BY <1>8, <2>1, <2>2, <2>3, Zenon DEF RsSwap
  <1> QED
    BY <1>5, <1>7, <1>8 DEF RsStep

(* Every step keeps the counters exact. *)
LEMMA CounterNext == DataInv /\ CounterInv /\ [Next]_vars => CounterInv'
  <1> SUFFICES ASSUME DataInv, CounterInv, [Next]_vars PROVE CounterInv'
    OBVIOUS
  <1>1. ASSUME UNCHANGED <<numTasksDone, localData, core, rs, numTaskFin,
                           prevNumTaskFin, reported>>
        PROVE  CounterInv'
    BY <1>1, FinishedStill, CounterSame, Zenon
  <1>2. CASE UNCHANGED vars
    BY <1>1, <1>2, Zenon DEF vars, store, counts
  <1>3. ASSUME NEW s \in Schedulers, CrtStep(s) \/ WsStep(s) \/ MonStep(s) \/ ProcStep(s)
        PROVE  CounterInv'
    BY <1>1, <1>3, OtherThreads
  <1>4. ASSUME NEW s \in Schedulers, NEW c \in Cores, ExecStep(s, c) PROVE CounterInv'
    BY <1>4, CounterExec
  <1>5. ASSUME NEW s \in Schedulers, CctStep(s) PROVE CounterInv'
    BY <1>1, <1>5, Zenon DEF CctStep, CctPop, CctLookup, CctSwap, store, counts
  <1>6. ASSUME NEW s \in Schedulers, RsStep(s) PROVE CounterInv'
    BY <1>6, CounterRs
  <1> QED
    BY <1>2, <1>3, <1>4, <1>5, <1>6 DEF Next, Terminated

(* The counter is exact, per scheduler, in every reachable state. *)
LEMMA CounterInvHolds == Spec => []CounterInv
  BY CounterInit, CounterNext, DataInvHolds, PTL DEF Spec

(* The compare_swap loops of the recording threads count every finished    *)
(* task into "num tasks done", and none twice.                             *)
THEOREM CounterCorrect == Spec => []CounterExact
  BY CounterInvImplies, CounterInvHolds, TypeCorrect, PTL

-----------------------------------------------------------------------------
(* The refinement of TaskGraph. *)

(* A task has left the wait queues only with its indegree 0. *)
ReadyOut ==
    \A t \in Tasks : zht[t].indegree = 0 \/ \E s \in Schedulers : t \in waitQueue[s]

(* At first every task is in a wait queue. *)
LEMMA ReadyOutInit == Init => ReadyOut
  <1> SUFFICES ASSUME Init, NEW t \in Tasks PROVE \E s \in Schedulers : t \in waitQueue[s]
    BY DEF ReadyOut
  <1>1. PICK at \in Submission : waitQueue = [s \in Schedulers |-> {u \in Tasks : at[u] = s}]
    BY Zenon DEF Init
  <1>2. at[t] \in Schedulers
    BY TasksAssumption
  <1> QED
    BY <1>1, <1>2

(* Only the checking-ready thread takes a task out of a wait queue. *)
LEMMA LeavesWaitQueue ==
    ASSUME [Next]_vars
    PROVE  \/ UNCHANGED waitQueue
           \/ \E s \in Schedulers, t \in Tasks : CrtLookup(s, t)
  <1> USE DEF queues
  <1>1. ASSUME NEW s \in Schedulers, CrtStep(s)
        PROVE  UNCHANGED waitQueue \/ \E t \in Tasks : CrtLookup(s, t)
    BY <1>1, Zenon DEF CrtStep, CrtToWsQueue, CrtToLocalQueue, CrtChoosePush,
                       CrtPush, CrtAck
  <1>2. ASSUME NEW s \in Schedulers, NEW c \in Cores, ExecStep(s, c)
        PROVE  UNCHANGED waitQueue
    BY <1>2, Zenon DEF ExecStep, ExecLook, ExecTakeLocal, ExecTakeWs, ExecLookup,
                       ExecReadHere, ExecMiss, ExecRequire, ExecRecvData, ExecRun,
                       ExecComplete, ExecCount
  <1>3. ASSUME NEW s \in Schedulers, CctStep(s) \/ MonStep(s) \/ RsStep(s)
        PROVE  UNCHANGED waitQueue
    BY <1>3, Zenon DEF CctStep, CctPop, CctLookup, CctSwap, MonStep, MonSplit, MonPush,
                       RsStep, RsStop, RsLookup, RsSwap
  <1>4. ASSUME NEW s \in Schedulers, WsStep(s) PROVE UNCHANGED waitQueue
    BY <1>4, Zenon DEF WsStep, WsChoose, WsQuery, WsRecvLoad, WsSteal, WsNoLoad,
                       WsRecvNothing, WsRecvPackage, WsReset, WsExit
  <1>5. ASSUME NEW s \in Schedulers, ProcStep(s) PROVE UNCHANGED waitQueue
    BY <1>5, Zenon DEF ProcStep, ProcQueryLoad, ProcStealTask, ProcPushTask,
                       ProcRequireData
  <1>6. CASE UNCHANGED vars
    BY <1>6 DEF vars
  <1> QED
    BY <1>1, <1>2, <1>3, <1>4, <1>5, <1>6 DEF Next, Terminated

(* A task leaves the wait queues only when its indegree in ZHT is 0. *)
LEMMA ReadyOutNext ==
    DataInv /\ IndegreeExact /\ ReadyOut /\ [Next]_vars => ReadyOut'
  <1> SUFFICES ASSUME DataInv, IndegreeExact, ReadyOut, [Next]_vars, NEW t \in Tasks
               PROVE  zht'[t].indegree = 0 \/ \E s \in Schedulers : t \in waitQueue'[s]
    BY DEF ReadyOut
  <1>1. zht[t].indegree = 0 => zht'[t].indegree = 0
    BY ReadyStep DEF DataInv
  <1>2. CASE UNCHANGED waitQueue
    BY <1>1, <1>2 DEF ReadyOut
  <1>3. ASSUME NEW s \in Schedulers, NEW u \in Tasks, CrtLookup(s, u)
        PROVE  zht'[t].indegree = 0 \/ \E n \in Schedulers : t \in waitQueue'[n]
    <2>1. waitQueue' = [waitQueue EXCEPT ![s] = waitQueue[s] \ {u}]
      BY <1>3, Zenon DEF CrtLookup
    <2>2. zht[u].indegree = 0
      BY <1>3, Zenon DEF CrtLookup
    <2>3. waitQueue \in [Schedulers -> SUBSET Tasks]
      BY DEF DataInv, TypeOK
    <2>4. CASE t = u
      BY <1>1, <2>2, <2>4
    <2>5. CASE t # u
      BY <1>1, <2>1, <2>3, <2>5 DEF ReadyOut
    <2> QED
      BY <2>4, <2>5
  <1> QED
    BY <1>2, <1>3, LeavesWaitQueue

(* A task that a core runs has left the wait queues, so none of its        *)
(* parents is outstanding: they all have run.                              *)
LEMMA RunAfterParents ==
    ASSUME DataInv, IndegreeExact, ReadyOut, NEW s \in Schedulers, NEW c \in Cores,
           ExecRun(s, c), NEW t, t = core[s][c].task
    PROVE  t \in Tasks /\ Parents(t) \subseteq RanTasks
  <1> USE DEF DataInv
  <1>1. t \in Tasks /\ t \in Held(s, c)
    <2>1. core[s][c].pc \in Executing
      BY Zenon DEF ExecRun, Executing
    <2> QED
      BY <2>1, HeldIs, ResultHere, Zenon DEF HeldAs
  <1>2. \A u \in Schedulers : t \notin waitQueue[u]
    <2>1. \A u \in Schedulers : t \notin Held(u, "wait")
      BY <1>1, Once, PlaceNames
    <2> QED
      BY <2>1, HeldIs DEF HeldAs
  <1>3. Left(t) = {}
    <2>1. Cardinality(Left(t)) = 0
      BY <1>1, <1>2, IndegreeEach DEF ReadyOut, IndegreeOf
    <2>2. IsFiniteSet(Left(t))
      BY TaskSetsFinite DEF Left, Parents
    <2> QED
      BY <2>1, <2>2, FS_EmptySet, Zenon
  <1>4. ASSUME NEW p \in Parents(t) PROVE p \in RanTasks
    <2>1. ~Outstanding(p, t) /\ p \in Tasks
      BY <1>3 DEF Left, Parents
    <2>2. \E u \in Schedulers : p \in Held(u, "ran")
      BY <2>1, Zenon DEF Outstanding
    <2> QED
      BY <2>1, <2>2 DEF RanTasks
  <1> QED
    BY <1>1, <1>4, Zenon

(* What the abstract specification sees does not change. *)
LEMMA NothingSeen ==
    ASSUME \A s \in Schedulers : Held(s, "ran")' = Held(s, "ran"), UNCHANGED running
    PROVE  UNCHANGED TG!vars
  BY DEF TG!vars, RanTasks

(* Every step of the schedulers is a step of TaskGraph, or is not seen. *)
LEMMA StepRefines ==
    DataInv /\ IndegreeExact /\ ReadyOut /\ CounterInv /\ [Next]_vars
      => [TG!Next]_TG!vars
  <1> SUFFICES ASSUME DataInv, IndegreeExact, ReadyOut, CounterInv, [Next]_vars
               PROVE  TG!Next \/ UNCHANGED TG!vars
    OBVIOUS
  <1> USE DEF DataInv
  <1>0. ASSUME UNCHANGED <<localData, running>> PROVE UNCHANGED TG!vars
    BY <1>0, NothingSeen, Unmoved
  <1>1. CASE UNCHANGED vars
    BY <1>0, <1>1 DEF vars, counts
  <1>2. ASSUME NEW s \in Schedulers, CrtStep(s) \/ WsStep(s) \/ MonStep(s) \/ ProcStep(s)
        PROVE  UNCHANGED TG!vars
    BY <1>0, <1>2, OtherThreads
  <1>3. ASSUME NEW s \in Schedulers, NEW c \in Cores, ExecStep(s, c)
        PROVE  TG!Next \/ UNCHANGED TG!vars
    <2>0. UNCHANGED running
      BY <1>3, ExecKeeps
    <2>1. CASE QuietStep(s, c)
      BY <2>0, <2>1, NothingSeen DEF QuietStep
    <2>2. CASE ExecComplete(s, c) \/ ExecCount(s, c)
      BY <1>0, <2>0, <2>2, Zenon DEF ExecComplete, ExecCount
    <2>3. CASE ExecRun(s, c)
      <3>0. PICK t : t = core[s][c].task
        OBVIOUS
      <3>1. t \in Tasks /\ Parents(t) \subseteq RanTasks
        BY <2>3, <3>0, RunAfterParents
      <3>2. t \notin RanTasks
        BY <2>3, <3>0, RunIsNew DEF RanTasks
      <3>3. RanTasks' = RanTasks \union {t}
        BY <2>3, <3>0, <3>1, ResultHere DEF RanTasks
      <3>4. TG!Run(t)
        BY <2>0, <3>1, <3>2, <3>3, Zenon DEF TG!Run, TG!Parents, Parents
      <3> QED
        BY <3>1, <3>4 DEF TG!Next
    <2> QED
      BY <1>3, <2>1, <2>2, <2>3, ExecKinds
  <1>4. ASSUME NEW s \in Schedulers, CctStep(s) PROVE UNCHANGED TG!vars
    <2>1. UNCHANGED <<localData, running>>
      BY <1>4, Zenon DEF CctStep, CctPop, CctLookup, CctSwap, counts
    <2> QED
      BY <1>0, <2>1
  <1>5. ASSUME NEW s \in Schedulers, RsStep(s) PROVE TG!Next \/ UNCHANGED TG!vars
    <2>1. CASE RsLookup(s) \/ RsSwap(s)
      <3>1. UNCHANGED <<localData, running>>
        BY <2>1, Zenon DEF RsLookup, RsSwap, counts
      <3> QED
        BY <1>0, <3>1
    <2>2. CASE RsStop(s)
      <3>1. /\ numTasksDone = Cardinality(Tasks) /\ UNCHANGED localData
            /\ running' = [running EXCEPT ![s] = FALSE]
        BY <2>2, Zenon DEF RsStop
      <3>2. RanTasks' = RanTasks
        BY <3>1, Unmoved DEF RanTasks
      <3>3. RanTasks = Tasks
        <4>1. reported = Tasks
          BY <3>1, AllReported
        <4>2. reported \subseteq RanTasks
          BY CounterInvImplies DEF CounterExact
        <4> QED
          BY <4>1, <4>2 DEF RanTasks
      <3>4. running \in [Schedulers -> BOOLEAN]
        BY DEF TypeOK
      <3>5. {u \in Schedulers : ~running'[u]} = {u \in Schedulers : ~running[u]} \union {s}
        BY <3>1, <3>4
      <3>6. CASE running[s]
        <4>1. TG!Stop(s)
          BY <3>2, <3>3, <3>5, <3>6 DEF TG!Stop
        <4> QED
          BY <4>1 DEF TG!Next
      <3>7. CASE ~running[s]
        BY <3>2, <3>5, <3>7 DEF TG!vars
      <3> QED
        BY <3>6, <3>7
    <2> QED
      BY <1>5, <2>1, <2>2 DEF RsStep
  <1> QED
    BY <1>1, <1>2, <1>3, <1>4, <1>5 DEF Next, Terminated

(* At first no task has run. *)
LEMMA InitRefines == Init => TG!Init
  <1> SUFFICES ASSUME Init PROVE TG!Init
    OBVIOUS
  <1>1. RanTasks = {}
    <2>1. \A s \in Schedulers, t \in Tasks : localData[s][<<s, t>>] = "absent"
      BY Zenon DEF Init, DataName
    <2>2. \A s \in Schedulers, t \in Tasks : t \notin Held(s, "ran")
      BY <2>1, HeldIs, Zenon DEF HeldAs
    <2> QED
      BY <2>2, Zenon DEF RanTasks
  <1>2. {s \in Schedulers : ~running[s]} = {}
    BY DEF Init
  <1> QED
    BY <1>1, <1>2 DEF TG!Init

(* The schedulers implement TaskGraph: whatever the threads, thefts and    *)
(* pushes do, every task runs once and after all its parents, and no       *)
(* scheduler stops before the whole workload has run.                      *)
THEOREM SchedulersRefine == Spec => ExecutesTaskGraph
  <1>1. Spec => []ReadyOut
    BY ReadyOutInit, ReadyOutNext, DataInvHolds, IndegreeCorrect, PTL DEF Spec
  <1>2. Spec => [][TG!Next]_TG!vars
    BY <1>1, StepRefines, DataInvHolds, IndegreeCorrect, CounterInvHolds, PTL DEF Spec
  <1> QED
    BY <1>2, InitRefines, PTL DEF Spec, ExecutesTaskGraph, TG!Spec
=============================================================================
