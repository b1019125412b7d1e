------------------------- MODULE ConversationProofs -------------------------
(***************************************************************************)
(* Proofs about Scheduler, for any number of schedulers, cores and tasks:  *)
(* the types, and OneConversation, which is inductive once the types are   *)
(* known.                                                                  *)
(***************************************************************************)
EXTENDS Scheduler, FiniteSetTheorems, TLAPS

-----------------------------------------------------------------------------
(* Types. *)

(* Sets of tasks are finite, so their cardinalities are numbers. *)
LEMMA TaskSetsFinite ==
    \A S \in SUBSET Tasks : IsFiniteSet(S) /\ Cardinality(S) \in Nat
  <1> TAKE S \in SUBSET Tasks
  <1>1. IsFiniteSet(S)
    BY TasksAssumption, FS_Subset
  <1> QED
    BY <1>1, FS_CardinalityType

(* The idle states of the threads have their types. *)
LEMMA IdleTypes ==
    /\ NoMetadata \in Metadata
    /\ IdleCrt \in CrtState
    /\ CrtAt("ack", None, NoMetadata, None) \in CrtState
    /\ IdleCore \in CoreState
    /\ IdleCct \in CctState
    /\ \A n \in Nat : IdleWs(n) \in WsState
    /\ IdleRs \in RsState
    /\ NoConn \in Message
  <1>1. NoMetadata \in Metadata
    BY DEF NoMetadata, Metadata
  <1>2. IdleCrt \in CrtState /\ CrtAt("ack", None, NoMetadata, None) \in CrtState
    BY DEF IdleCrt, CrtAt, CrtState
  <1>3. IdleCore \in CoreState
    BY DEF IdleCore, CoreAt, CoreState
  <1>4. IdleCct \in CctState
    BY DEF IdleCct, CctAt, CctState
  <1>5. \A n \in Nat : IdleWs(n) \in WsState
    BY DEF IdleWs, WsAt, WsState, NoLoad
  <1>6. IdleRs \in RsState
    BY DEF IdleRs, RsState
  <1>7. NoConn \in Message
    BY DEF Message
  <1> QED
    BY <1>1, <1>2, <1>3, <1>4, <1>5, <1>6, <1>7

(* The state after the submission has the types. *)
LEMMA TypeInit == Init => TypeOK
  <1> SUFFICES ASSUME Init PROVE TypeOK
    OBVIOUS
  <1> USE TasksAssumption, SchedulersAssumption, IdleTypes
  <1>1. \A t \in Tasks : Cardinality(Parents(t)) \in Nat
    BY TaskSetsFinite DEF Parents
  <1>2. zht \in [Tasks -> Metadata]
    BY <1>1 DEF Init, Metadata
  <1> QED
    BY <1>2 DEF Init, TypeOK, Content

(* What the type of a thread's state says about its fields, and which      *)
(* states the steps may build.                                             *)
LEMMA CrtTypes ==
    /\ \A x \in CrtState :
          /\ x.pc \in {"idle", "ready", "push", "ack"}
          /\ x.pc \in {"ready", "push"} => x.task \in Tasks /\ x.val \in Metadata
          /\ x.pc \in {"idle", "ack"} => x.task = None
          /\ x.pc = "push" => x.to \in Schedulers
    /\ \A t \in Tasks, v \in Metadata :
          /\ CrtAt("ready", t, v, None) \in CrtState
          /\ \A n \in Schedulers : CrtAt("push", t, v, n) \in CrtState
  BY IdleTypes DEF CrtState, CrtAt

(* The same for an executing thread. *)
LEMMA CoreTypes ==
    /\ \A x \in CoreState :
          /\ x.todo \in SUBSET DataName
          /\ x.pc \in {"idle", "local", "ws", "lookup", "fetch", "miss", "wait",
                       "ran", "completed"}
          /\ x.pc \in {"idle", "local", "ws"} => x.task = None /\ x.todo = {}
          /\ x.pc \notin {"idle", "local", "ws"} => x.task \in Tasks
          /\ x.pc \in {"miss", "wait"} => x.name \in DataName
    /\ CoreAt("local", None, {}, None) \in CoreState
    /\ CoreAt("ws", None, {}, None) \in CoreState
    /\ \A t \in Tasks, D \in SUBSET DataName :
          /\ \A pc \in {"lookup", "fetch", "ran", "completed"} :
                CoreAt(pc, t, D, None) \in CoreState
          /\ \A d \in DataName : /\ CoreAt("miss", t, D, d) \in CoreState
                                 /\ CoreAt("wait", t, D, d) \in CoreState
  <1>1. \A x \in CoreState :
          /\ x.todo \in SUBSET DataName
          /\ x.pc \in {"idle", "local", "ws", "lookup", "fetch", "miss", "wait",
                       "ran", "completed"}
          /\ x.pc \in {"idle", "local", "ws"} => x.task = None /\ x.todo = {}
          /\ x.pc \notin {"idle", "local", "ws"} => x.task \in Tasks
          /\ x.pc \in {"miss", "wait"} => x.name \in DataName
    BY DEF CoreState
  <1>2. /\ CoreAt("local", None, {}, None) \in CoreState
        /\ CoreAt("ws", None, {}, None) \in CoreState
    BY DEF CoreState, CoreAt
  <1>3. ASSUME NEW t \in Tasks, NEW D \in SUBSET DataName
        PROVE  \A pc \in {"lookup", "fetch", "ran", "completed"} :
                  CoreAt(pc, t, D, None) \in CoreState
    BY DEF CoreState, CoreAt
  <1>4. ASSUME NEW t \in Tasks, NEW D \in SUBSET DataName, NEW d \in DataName
        PROVE  /\ CoreAt("miss", t, D, d) \in CoreState
               /\ CoreAt("wait", t, D, d) \in CoreState
    BY DEF CoreState, CoreAt
  <1> QED
    BY <1>1, <1>2, <1>3, <1>4

(* The same for the checking-complete thread. *)
LEMMA CctTypes ==
    /\ \A x \in CctState :
          /\ x.pc \in {"idle", "next", "swap", "retry"}
          /\ x.todo \in SUBSET Tasks
          /\ x.pc = "idle" => x.task = None /\ x.todo = {}
          /\ x.pc # "idle" => x.task \in Tasks
          /\ x.pc \in {"swap", "retry"} => x.child \in Tasks /\ x.snap \in Metadata
    /\ \A t \in Tasks, T \in SUBSET Tasks :
          /\ CctAt("next", t, T, None, NoMetadata) \in CctState
          /\ \A k \in Tasks, v \in Metadata :
                /\ CctAt("swap", t, T, k, v) \in CctState
                /\ CctAt("retry", t, T, k, v) \in CctState
  <1>1. \A x \in CctState :
          /\ x.pc \in {"idle", "next", "swap", "retry"}
          /\ x.todo \in SUBSET Tasks
          /\ x.pc = "idle" => x.task = None /\ x.todo = {}
          /\ x.pc # "idle" => x.task \in Tasks
          /\ x.pc \in {"swap", "retry"} => x.child \in Tasks /\ x.snap \in Metadata
    BY DEF CctState
  <1>2. ASSUME NEW t \in Tasks, NEW T \in SUBSET Tasks
        PROVE  CctAt("next", t, T, None, NoMetadata) \in CctState
    BY DEF CctState, CctAt
  <1>3. ASSUME NEW t \in Tasks, NEW T \in SUBSET Tasks, NEW k \in Tasks,
               NEW v \in Metadata
        PROVE  /\ CctAt("swap", t, T, k, v) \in CctState
               /\ CctAt("retry", t, T, k, v) \in CctState
    BY DEF CctState, CctAt
  <1> QED
    BY <1>1, <1>2, <1>3

(* The same for the work stealing thread. *)
LEMMA WsTypes ==
    /\ \A x \in WsState :
          /\ x.pc \in {"idle", "query", "load", "steal", "exit"}
          /\ x.neigh \in SUBSET Schedulers
          /\ x.maxLoad \in Int
          /\ x.poll \in Nat
          /\ x.maxLoad > 0 => x.maxLoadedIdx \in Schedulers
    /\ \A N \in SUBSET Schedulers, n \in Nat :
          /\ WsAt("query", N, None, NoLoad, n) \in WsState
          /\ WsAt("exit", N, None, NoLoad, n) \in WsState
          /\ \A i \in Schedulers, l \in Int :
                /\ WsAt("query", N, i, l, n) \in WsState
                /\ WsAt("steal", N, i, l, n) \in WsState
    /\ \A x \in WsState, N \in SUBSET Schedulers :
          x.pc \in {"query", "load"} =>
             /\ WsAt("query", N, x.maxLoadedIdx, x.maxLoad, x.poll) \in WsState
             /\ WsAt("load", N, x.maxLoadedIdx, x.maxLoad, x.poll) \in WsState
  <1>1. \A x \in WsState :
          /\ x.pc \in {"idle", "query", "load", "steal", "exit"}
          /\ x.neigh \in SUBSET Schedulers
          /\ x.maxLoad \in Int
          /\ x.poll \in Nat
          /\ x.maxLoad > 0 => x.maxLoadedIdx \in Schedulers
    BY DEF WsState, NoLoad
  <1>2. ASSUME NEW N \in SUBSET Schedulers, NEW n \in Nat
        PROVE  /\ WsAt("query", N, None, NoLoad, n) \in WsState
               /\ WsAt("exit", N, None, NoLoad, n) \in WsState
    BY DEF WsState, WsAt
  <1>3. ASSUME NEW N \in SUBSET Schedulers, NEW n \in Nat, NEW i \in Schedulers,
               NEW l \in Int
        PROVE  /\ WsAt("query", N, i, l, n) \in WsState
               /\ WsAt("steal", N, i, l, n) \in WsState
    BY DEF WsState, WsAt
  <1>4. ASSUME NEW x \in WsState, NEW N \in SUBSET Schedulers,
               x.pc \in {"query", "load"}
        PROVE  /\ WsAt("query", N, x.maxLoadedIdx, x.maxLoad, x.poll) \in WsState
               /\ WsAt("load", N, x.maxLoadedIdx, x.maxLoad, x.poll) \in WsState
    BY <1>4 DEF WsState, WsAt
  <1> QED
    BY <1>1, <1>2, <1>3, <1>4, Zenon

(* What a message of each type carries. *)
LEMMA MessageTypes ==
    \A x \in Message :
        /\ x.tasks \in SUBSET Tasks
        /\ x.type # "none" => x.peer \in Schedulers
        /\ x.load \in Int
        /\ x.content \in Content
        /\ x.type \in {"require data", "send data"} => x.name \in DataName
        /\ x.type \notin {"push task", "send tasks"} => x.tasks = {}
  <1> TAKE x \in Message
  <1>1. CASE x = NoConn
    <2>1. /\ x.tasks = {} /\ x.type = "none" /\ x.load = 0
          /\ x.content = "absent"
      BY <1>1 DEF NoConn, Msg
    <2> QED
      BY <2>1 DEF Content
  <1>2. CASE x \in [type : {"query load", "send load", "steal task", "ack"},
                    peer : Schedulers, tasks : {{}}, name : {None},
                    content : {"absent"}, load : Int]
    BY <1>2, Zenon DEF Content
  <1>3. CASE x \in [type : {"push task", "send tasks"}, peer : Schedulers,
                    tasks : SUBSET Tasks, name : {None},
                    content : {"absent"}, load : {0}]
    <2>1. x.load \in Int
      <3>1. x.load = 0
        BY <1>3, Zenon
      <3> QED
        BY <3>1
    <2>2. /\ x.tasks \in SUBSET Tasks /\ x.type \in {"push task", "send tasks"}
          /\ x.peer \in Schedulers /\ x.content = "absent"
      BY <1>3, Zenon
    <2> QED
      BY <2>1, <2>2, Zenon DEF Content
  <1>4. CASE x \in [type : {"require data", "send data"}, peer : Schedulers,
                    tasks : {{}}, name : DataName, content : Content,
                    load : {0}]
    <2>1. x.load \in Int
      <3>1. x.load = 0
        BY <1>4, Zenon
      <3> QED
        BY <3>1
    <2>2. /\ x.tasks = {} /\ x.type \in {"require data", "send data"}
          /\ x.peer \in Schedulers /\ x.name \in DataName
          /\ x.content \in Content
      BY <1>4, Zenon
    <2> QED
      BY <2>1, <2>2, Zenon
  <1> QED
    BY <1>1, <1>2, <1>3, <1>4, Zenon DEF Message

(* The messages about load, as they are built. *)
LEMMA LoadMessage ==
    ASSUME NEW type \in {"query load", "send load", "steal task", "ack"},
           NEW n \in Schedulers, NEW l \in Int
    PROVE  Msg(type, n, {}, None, "absent", l) \in Message
  BY Zenon DEF Message, Msg

(* Messages that carry no load have 0 there. *)
LEMMA Zero == 0 \in Int
  OBVIOUS

(* The requests and the acknowledgement, as they are built. *)
LEMMA RequestMessage ==
    ASSUME NEW type \in {"query load", "steal task", "ack"}, NEW n \in Schedulers
    PROVE  Msg(type, n, {}, None, "absent", 0) \in Message
  <1> DEFINE zero == 0
  <1>1. zero \in Int
    BY Zero, Zenon
  <1> HIDE DEF zero
  <1>2. Msg(type, n, {}, None, "absent", zero) \in Message
    BY <1>1, LoadMessage, Zenon
  <1> QED
    BY <1>2, Zenon DEF zero

(* The messages that carry tasks, as they are built. *)
LEMMA TasksMessage ==
    ASSUME NEW type \in {"push task", "send tasks"}, NEW n \in Schedulers,
           NEW T \in SUBSET Tasks
    PROVE  Msg(type, n, T, None, "absent", 0) \in Message
  BY Zenon DEF Message, Msg

(* The messages about data, as they are built. *)
LEMMA DataMessage ==
    ASSUME NEW type \in {"require data", "send data"}, NEW n \in Schedulers,
           NEW d \in DataName, NEW x \in Content
    PROVE  Msg(type, n, {}, d, x, 0) \in Message
  BY Zenon DEF Message, Msg

(* Each thread's steps, and the handler's, preserve the types. *)
LEMMA TypeCrt ==
    ASSUME TypeOK, NEW s \in Schedulers, CrtStep(s)
    PROVE  TypeOK'
  <1> USE IdleTypes, CrtTypes DEF store, queues, net, counts
  <1>0. crt[s] \in CrtState
    BY DEF TypeOK
  <1>1. ASSUME NEW t \in Tasks, CrtLookup(s, t) PROVE TypeOK'
    <2>1. CrtAt("ready", t, zht[t], None) \in CrtState
      BY DEF TypeOK
    <2> QED
      BY <1>1, <2>1 DEF CrtLookup, TypeOK
  <1>2. ASSUME CrtToWsQueue(s) PROVE TypeOK'
    <2>1. crt[s].task \in Tasks
      BY <1>0, <1>2, Zenon DEF CrtToWsQueue
    <2> QED
      BY <1>2, <2>1 DEF CrtToWsQueue, TypeOK
  <1>3. ASSUME NEW d \in DataName, CrtToLocalQueue(s, d) PROVE TypeOK'
    <2>1. crt[s].task \in Tasks
      BY <1>0, <1>3 DEF CrtToLocalQueue
    <2> QED
      BY <1>3, <2>1 DEF CrtToLocalQueue, TypeOK
  <1>4. ASSUME NEW d \in DataName, CrtChoosePush(s, d) PROVE TypeOK'
    <2>1. CrtAt("push", crt[s].task, crt[s].val, d[1]) \in CrtState
      BY <1>0, <1>4, Zenon DEF CrtChoosePush, DataName
    <2> QED
      BY <1>4, <2>1 DEF CrtChoosePush, TypeOK
  <1>5. ASSUME CrtPush(s) PROVE TypeOK'
    <2>1. Msg("push task", crt[s].to, {crt[s].task}, None, "absent", 0) \in Message
      BY <1>0, <1>5, TasksMessage, Zenon DEF CrtPush
    <2> QED
      BY <1>5, <2>1, Zenon DEF CrtPush, Open, TypeOK
  <1>6. ASSUME CrtAck(s) PROVE TypeOK'
    BY <1>6 DEF CrtAck, Close, TypeOK
  <1> QED
    BY <1>1, <1>2, <1>3, <1>4, <1>5, <1>6 DEF CrtStep

(* Inserting into localData keeps its type. *)
LEMMA InsertType ==
    ASSUME NEW s \in Schedulers, NEW d \in DataName, NEW content \in Content,
           localData \in [Schedulers -> [DataName -> Content]],
           Insert(s, d, content)
    PROVE  localData' \in [Schedulers -> [DataName -> Content]]
  <1> DEFINE v == IF localData[s][d] = "absent" THEN content ELSE localData[s][d]
  <1>1. v \in Content
    OBVIOUS
  <1>2. localData' = [localData EXCEPT ![s][d] = v]
    BY DEF Insert
  <1> HIDE DEF v
  <1> QED
    BY <1>1, <1>2

(* A step of one core keeps the type of all cores. *)
LEMMA CoreUpdate ==
    ASSUME core \in [Schedulers -> [Cores -> CoreState]],
           NEW s \in Schedulers, NEW c \in Cores, NEW x \in CoreState,
           core' = [core EXCEPT ![s][c] = x]
    PROVE  core' \in [Schedulers -> [Cores -> CoreState]]
  OBVIOUS

(* numTaskFin++ leaves a number. *)
LEMMA CountUpdate ==
    ASSUME NEW s \in Schedulers, numTaskFin \in [Schedulers -> Int],
           numTaskFin' = [numTaskFin EXCEPT ![s] = @ + 1]
    PROVE  numTaskFin' \in [Schedulers -> Int]
  OBVIOUS

(* A step of an executing thread keeps the types. *)
LEMMA TypeExec ==
    ASSUME TypeOK, NEW s \in Schedulers, NEW c \in Cores, ExecStep(s, c)
    PROVE  TypeOK'
  <1> DEFINE x == core[s][c]
  <1>0. x \in CoreState
    BY DEF TypeOK
  <1> USE IdleTypes, CoreTypes DEF store, queues, net, counts
  <1>1. ASSUME ExecLook(s, c) PROVE TypeOK'
    <2>1. core' \in [Schedulers -> [Cores -> CoreState]]
      <3>1. core \in [Schedulers -> [Cores -> CoreState]]
        BY DEF TypeOK
      <3>2. PICK y \in CoreState : core' = [core EXCEPT ![s][c] = y]
        BY <1>1 DEF ExecLook
      <3> QED
        BY <3>1, <3>2, CoreUpdate, Zenon
    <2> QED
      BY <1>1, <2>1, Zenon DEF ExecLook, TypeOK
  <1>2. ASSUME ExecTakeLocal(s, c) PROVE TypeOK'
    <2>1. ASSUME NEW t \in Tasks PROVE Took(t) \in CoreState
      BY Zenon DEF Took
    <2>2. CASE localQueue[s] = {} /\ core' = [core EXCEPT ![s][c] = IdleCore]
                 /\ UNCHANGED localQueue
      BY <1>2, <2>2, Zenon DEF ExecTakeLocal, TypeOK
    <2>3. ASSUME NEW t \in localQueue[s],
                 localQueue' = [localQueue EXCEPT ![s] = @ \ {t}],
                 core' = [core EXCEPT ![s][c] = Took(t)]
          PROVE  TypeOK'
      <3>1. Took(t) \in CoreState
        BY <2>1 DEF TypeOK
      <3> QED
        BY <1>2, <2>3, <3>1, Zenon DEF ExecTakeLocal, TypeOK
    <2> QED
      BY <1>2, <2>2, <2>3 DEF ExecTakeLocal, Tops
  <1>3. ASSUME ExecTakeWs(s, c) PROVE TypeOK'
    <2>1. ASSUME NEW t \in Tasks PROVE Took(t) \in CoreState
      BY DEF Took
    <2>2. CASE wsQueue[s] = {} /\ core' = [core EXCEPT ![s][c] = IdleCore]
                 /\ UNCHANGED wsQueue
      BY <1>3, <2>2, Zenon DEF ExecTakeWs, TypeOK
    <2>3. ASSUME NEW t \in wsQueue[s],
                 wsQueue' = [wsQueue EXCEPT ![s] = @ \ {t}],
                 core' = [core EXCEPT ![s][c] = Took(t)]
          PROVE  TypeOK'
      <3>1. Took(t) \in CoreState
        BY <2>1, Zenon DEF TypeOK
      <3> QED
        BY <1>3, <2>3, <3>1, Zenon DEF ExecTakeWs, TypeOK
    <2> QED
      BY <1>3, <2>2, <2>3, Zenon DEF ExecTakeWs, Tops
  <1>4. ASSUME ExecLookup(s, c) PROVE TypeOK'
    <2>1. x.task \in Tasks /\ zht[x.task].notes \in SUBSET DataName
      BY <1>0, <1>4, Zenon DEF ExecLookup, TypeOK, Metadata
    <2>2. CoreAt("fetch", x.task, {d \in zht[x.task].notes : Size(d) > 0}, None)
            \in CoreState
      BY <2>1
    <2> QED
      BY <1>4, <2>2, Zenon DEF ExecLookup, TypeOK
  <1>5. ASSUME NEW d \in DataName, ExecReadHere(s, c, d) PROVE TypeOK'
    <2>1. CoreAt("fetch", x.task, x.todo \ {d}, None) \in CoreState
      BY <1>0, <1>5 DEF ExecReadHere
    <2> QED
      BY <1>5, <2>1, Zenon DEF ExecReadHere, TypeOK
  <1>6. ASSUME NEW d \in DataName, ExecMiss(s, c, d) PROVE TypeOK'
    <2>1. CoreAt("miss", x.task, x.todo, d) \in CoreState
      BY <1>0, <1>6, Zenon DEF ExecMiss
    <2> QED
      BY <1>6, <2>1 DEF ExecMiss, TypeOK
  <1>7. ASSUME ExecRequire(s, c) PROVE TypeOK'
    <2>1. x.task \in Tasks /\ x.name \in DataName /\ x.name[1] \in Schedulers
      BY <1>0, <1>7, Zenon DEF ExecRequire, DataName
    <2>2. CoreAt("wait", x.task, x.todo, x.name) \in CoreState
      BY <1>0, <2>1, Zenon
    <2>3. Msg("require data", x.name[1], {}, x.name, "absent", 0) \in Message
      BY <2>1, DataMessage, Zenon DEF Content
    <2> QED
      BY <1>7, <2>2, <2>3, Zenon DEF ExecRequire, Open, TypeOK
  <1>8. ASSUME ExecRecvData(s, c) PROVE TypeOK'
    <2>1. x.task \in Tasks /\ x.name \in DataName
      BY <1>0, <1>8, Zenon DEF ExecRecvData
    <2>2. CoreAt("fetch", x.task, x.todo \ {x.name}, None) \in CoreState
      BY <1>0, <2>1, Zenon
    <2>3. conn[s].content \in Content
      BY MessageTypes, Zenon DEF TypeOK
    <2>4. localData' \in [Schedulers -> [DataName -> Content]]
      BY <1>8, <2>1, <2>3, InsertType, Zenon DEF ExecRecvData, TypeOK
    <2> QED
      BY <1>8, <2>2, <2>4, Zenon DEF ExecRecvData, Close, TypeOK
  <1>9. ASSUME ExecRun(s, c) PROVE TypeOK'
    <2>1. x.task \in Tasks
      BY <1>0, <1>9, Zenon DEF ExecRun
    <2>2. CoreAt("ran", x.task, {}, None) \in CoreState
      BY <2>1, Zenon
    <2>3. localData' \in [Schedulers -> [DataName -> Content]]
      <3>1. <<s, x.task>> \in DataName /\ "result" \in Content
        BY <2>1, Zenon DEF DataName, Content
      <3> QED
        BY <1>9, <3>1, InsertType, Zenon DEF ExecRun, TypeOK
    <2> QED
      BY <1>9, <2>2, <2>3, Zenon DEF ExecRun, TypeOK
  <1>10. ASSUME ExecComplete(s, c) PROVE TypeOK'
    <2>1. x.task \in Tasks
      BY <1>0, <1>10, Zenon DEF ExecComplete
    <2>2. CoreAt("completed", x.task, {}, None) \in CoreState
      BY <2>1, Zenon
    <2> QED
      BY <1>10, <2>1, <2>2, Zenon DEF ExecComplete, TypeOK
  <1>11. ASSUME ExecCount(s, c) PROVE TypeOK'
    <2>1. core' \in [Schedulers -> [Cores -> CoreState]]
      BY <1>11, CoreUpdate, Zenon DEF ExecCount, TypeOK
    <2>2. numTaskFin' \in [Schedulers -> Int]
      BY <1>11, CountUpdate, Zenon DEF ExecCount, TypeOK
    <2> QED
      BY <1>11, <2>1, <2>2, Zenon DEF ExecCount, TypeOK
  <1> QED
    BY <1>1, <1>2, <1>3, <1>4, <1>5, <1>6, <1>7, <1>8, <1>9, <1>10, <1>11
       DEF ExecStep

(* A step of the checking-complete thread keeps the types. *)
LEMMA TypeCct ==
    ASSUME TypeOK, NEW s \in Schedulers, CctStep(s)
    PROVE  TypeOK'
  <1> USE IdleTypes, CctTypes DEF store, queues, net, counts
  <1> DEFINE x == cct[s]
  <1>0. x \in CctState
    BY Zenon DEF TypeOK
  <1>1. ASSUME NEW t \in Tasks, CctPop(s, t) PROVE TypeOK'
    <2>1. CctAt("next", t, Children[t], None, NoMetadata) \in CctState
      BY TasksAssumption, Zenon
    <2> QED
      BY <1>1, <2>1, Zenon DEF CctPop, TypeOK
  <1>2. ASSUME NEW k \in Tasks, CctLookup(s, k) PROVE TypeOK'
    <2>1. CctAt("swap", x.task, x.todo, k, zht[k]) \in CctState
      BY <1>0, <1>2, Zenon DEF CctLookup, TypeOK
    <2> QED
      BY <1>2, <2>1, Zenon DEF CctLookup, TypeOK
  <1>3. ASSUME CctSwap(s) PROVE TypeOK'
    <2>1. x.task \in Tasks /\ x.child \in Tasks /\ x.snap \in Metadata
      BY <1>0, <1>3, Zenon DEF CctSwap
    <2>2. Notified(x.snap, s, x.task) \in Metadata
      BY <2>1, TasksAssumption DEF Notified, Metadata, DataName
    <2>3. CctAt("next", x.task, x.todo \ {x.child}, None, NoMetadata) \in CctState
      BY <1>0, <2>1, Zenon
    <2>4. CctAt("retry", x.task, x.todo, x.child, zht[x.child]) \in CctState
      BY <1>0, <2>1, Zenon DEF TypeOK
    <2> QED
      <3>1. zht' \in [Tasks -> Metadata]
        <4>1. zht \in [Tasks -> Metadata]
          BY Zenon DEF TypeOK
        <4>2. \/ zht' = zht
              \/ zht' = [zht EXCEPT ![x.child] = Notified(x.snap, s, x.task)]
          BY <1>3, Zenon DEF CctSwap
        <4> QED
          BY <2>1, <2>2, <4>1, <4>2, Zenon
      <3>3. sockMutex' \in [Schedulers -> BOOLEAN]
        BY <1>3, Zenon DEF CctSwap, TypeOK
      <3>2. cct' \in [Schedulers -> CctState]
        <4>1. cct \in [Schedulers -> CctState]
          BY Zenon DEF TypeOK
        <4>2. PICK y \in CctState : cct' = [cct EXCEPT ![s] = y]
          BY <1>3, <2>3, <2>4, Zenon DEF CctSwap
        <4> QED
          BY <4>1, <4>2, Zenon
      <3> QED
        BY <1>3, <3>1, <3>2, <3>3, Zenon DEF CctSwap, TypeOK
  <1> QED
    BY <1>1, <1>2, <1>3, Zenon DEF CctStep

(* A step of the work stealing thread keeps the types. *)
LEMMA TypeWs ==
    ASSUME TypeOK, NEW s \in Schedulers, WsStep(s)
    PROVE  TypeOK'
  <1> USE DEF store, queues, net, counts
  <1> DEFINE x == ws[s]
  <1>0. x \in WsState /\ conn[s] \in Message
    BY DEF TypeOK
  <1>1. ASSUME WsChoose(s) PROVE TypeOK'
    <2>1. PICK N \in SUBSET Schedulers :
             ws' = [ws EXCEPT ![s] = WsAt("query", N, None, NoLoad, @.poll)]
      BY <1>1, Zenon DEF WsChoose, kSubset
    <2>2. WsAt("query", N, None, NoLoad, x.poll) \in WsState
      BY <1>0, WsTypes
    <2>3. ws' \in [Schedulers -> WsState]
      BY <2>1, <2>2, Zenon DEF TypeOK
    <2> QED
      BY <1>1, <2>3 DEF WsChoose, TypeOK
  <1>2. ASSUME NEW n \in Schedulers, WsQuery(s, n) PROVE TypeOK'
    <2>1. WsAt("load", x.neigh \ {n}, x.maxLoadedIdx, x.maxLoad, x.poll) \in WsState
      BY <1>0, <1>2, WsTypes, Zenon DEF WsQuery
    <2>2. Msg("query load", n, {}, None, "absent", 0) \in Message
      BY RequestMessage, Zenon
    <2> QED
      BY <1>2, <2>1, <2>2, Zenon DEF WsQuery, Open, TypeOK
  <1>3. ASSUME WsRecvLoad(s) PROVE TypeOK'
    <2>1. conn[s].peer \in Schedulers /\ conn[s].load \in Int
      BY <1>0, <1>3, MessageTypes, Zenon DEF WsRecvLoad
    <2>2. WsAt("query", x.neigh, conn[s].peer, conn[s].load, x.poll) \in WsState
      BY <1>0, <2>1, WsTypes, Zenon
    <2>3. WsAt("query", x.neigh, x.maxLoadedIdx, x.maxLoad, x.poll) \in WsState
      BY <1>0, <1>3, WsTypes, Zenon DEF WsRecvLoad
    <2> QED
      BY <1>3, <2>2, <2>3, IdleTypes, Zenon DEF WsRecvLoad, Close, TypeOK
  <1>4. ASSUME WsSteal(s) PROVE TypeOK'
    <2>1. x.maxLoadedIdx \in Schedulers
      BY <1>0, <1>4, WsTypes, Zenon DEF WsSteal
    <2>2. WsAt("steal", {}, x.maxLoadedIdx, x.maxLoad, x.poll) \in WsState
      BY <1>0, <2>1, WsTypes
    <2>3. Msg("steal task", x.maxLoadedIdx, {}, None, "absent", 0) \in Message
      BY <2>1, RequestMessage, Zenon
    <2> QED
      BY <1>4, <2>2, <2>3, Zenon DEF WsSteal, Open, TypeOK
  <1>5. ASSUME WsNoLoad(s) PROVE TypeOK'
    <2>1. IdleWs(x.poll + 1) \in WsState
      BY <1>0, WsTypes, IdleTypes
    <2> QED
      BY <1>5, <2>1, Zenon DEF WsNoLoad, TypeOK
  <1>6. ASSUME WsRecvNothing(s) PROVE TypeOK'
    <2>1. IdleWs(x.poll + 1) \in WsState
      BY <1>0, WsTypes, IdleTypes
    <2> QED
      BY <1>6, <2>1, IdleTypes, Zenon DEF WsRecvNothing, Close, TypeOK
  <1>7. ASSUME WsRecvPackage(s) PROVE TypeOK'
    <2>1. conn[s].peer \in Schedulers /\ conn[s].tasks \in SUBSET Tasks
      BY <1>0, <1>7, MessageTypes, Zenon DEF WsRecvPackage
    <2>2. PICK B \in SUBSET conn[s].tasks :
             /\ wsQueue' = [wsQueue EXCEPT ![s] = @ \union B]
             /\ \/ Close(s) /\ ws' = [ws EXCEPT ![s] = IdleWs(0)]
                \/ /\ Answer(s, Msg("send tasks", conn[s].peer, conn[s].tasks \ B,
                                    None, "absent", 0))
                   /\ UNCHANGED ws
      BY <1>7, Zenon DEF WsRecvPackage
    <2>3. Msg("send tasks", conn[s].peer, conn[s].tasks \ B, None, "absent", 0)
            \in Message
      BY <2>1, TasksMessage, Zenon
    <2>4. wsQueue' \in [Schedulers -> SUBSET Tasks]
      BY <2>1, <2>2, Zenon DEF TypeOK
    <2>5. ws' \in [Schedulers -> WsState]
      <3>1. IdleWs(0) \in WsState
        BY IdleTypes
      <3> QED
        BY <2>2, <3>1, Zenon DEF TypeOK
    <2>6. conn' \in [Schedulers -> Message] /\ sockMutex' \in [Schedulers -> BOOLEAN]
      <3>1. NoConn \in Message
        BY IdleTypes, Zenon
      <3>2. CASE Close(s)
        BY <3>1, <3>2, Zenon DEF Close, TypeOK
      <3>3. CASE Answer(s, Msg("send tasks", conn[s].peer, conn[s].tasks \ B,
                               None, "absent", 0))
        BY <2>3, <3>3, Zenon DEF Answer, TypeOK
      <3> QED
        BY <2>2, <3>2, <3>3, Zenon
    <2> QED
      BY <1>7, <2>4, <2>5, <2>6, Zenon DEF WsRecvPackage, TypeOK
  <1>8. ASSUME WsReset(s) PROVE TypeOK'
    <2>1. IdleWs(0) \in WsState
      BY IdleTypes, Zenon
    <2> QED
      BY <1>8, <2>1 DEF WsReset, TypeOK
  <1>9. ASSUME WsExit(s) PROVE TypeOK'
    <2>1. WsAt("exit", {}, None, NoLoad, x.poll) \in WsState
      BY <1>0, WsTypes, IdleTypes, Zenon
    <2> QED
      BY <1>9, <2>1 DEF WsExit, TypeOK
  <1> QED
    BY <1>1, <1>2, <1>3, <1>4, <1>5, <1>6, <1>7, <1>8, <1>9 DEF WsStep

(* A step of the queue monitor keeps the types. *)
LEMMA TypeMon ==
    ASSUME TypeOK, NEW s \in Schedulers, MonStep(s)
    PROVE  TypeOK'
  <1> USE DEF store, queues, net, counts
  <1>1. ASSUME MonSplit(s) PROVE TypeOK'
    <2>1. PICK remain \in SUBSET localQueue[s] :
             /\ localQueue' = [localQueue EXCEPT ![s] = remain]
             /\ migrating' = [migrating EXCEPT ![s] = localQueue[s] \ remain]
      BY <1>1, Zenon DEF MonSplit, Tops
    <2> QED
      BY <1>1, <2>1 DEF MonSplit, TypeOK
  <1>2. ASSUME MonPush(s) PROVE TypeOK'
    BY <1>2 DEF MonPush, TypeOK
  <1> QED
    BY <1>1, <1>2 DEF MonStep

(* A step of the recording thread keeps the types. *)
LEMMA TypeRs ==
    ASSUME TypeOK, NEW s \in Schedulers, RsStep(s)
    PROVE  TypeOK'
  <1> USE IdleTypes DEF store, queues, net, counts
  <1>1. [pc |-> "exit", expected |-> 0, attempt |-> 0] \in RsState
    BY DEF RsState
  <1>2. ASSUME NEW pc \in {"swap", "retry"}
        PROVE  Trial(s, pc, numTasksDone) \in RsState
    BY DEF Trial, RsState, TypeOK
  <1>3. rs[s].attempt \in Int
    BY Zenon DEF TypeOK, RsState
  <1>4. ASSUME RsStop(s) PROVE TypeOK'
    BY <1>1, <1>4, Zenon DEF RsStop, TypeOK
  <1>5. ASSUME RsLookup(s) PROVE TypeOK'
    BY <1>2, <1>5, Zenon DEF RsLookup, TypeOK
  <1>6. ASSUME RsSwap(s) PROVE TypeOK'
    <2>1. Finished(s) \in SUBSET Tasks
      BY DEF Finished
    <2> QED
      <3>1. numTasksDone' \in Int /\ reported' \in SUBSET Tasks
        BY <1>3, <1>6, <2>1, Zenon DEF RsSwap, TypeOK
      <3>2. rs' \in [Schedulers -> RsState]
        BY <1>2, <1>6 DEF RsSwap, TypeOK
      <3>4. sockMutex' \in [Schedulers -> BOOLEAN]
        BY <1>6, Zenon DEF RsSwap, TypeOK
      <3>3. prevNumTaskFin' \in [Schedulers -> Int]
        BY <1>6 DEF RsSwap, TypeOK
      <3> QED
        BY <1>6, <3>1, <3>2, <3>3, <3>4, Zenon DEF RsSwap, TypeOK
  <1> QED
    BY <1>4, <1>5, <1>6 DEF RsStep

(* An answer of the handler keeps the types. *)
LEMMA TypeProc ==
    ASSUME TypeOK, NEW n \in Schedulers, ProcStep(n)
    PROVE  TypeOK'
  <1> USE DEF store, queues, net, counts
  <1>1. PICK s \in Schedulers : \/ ProcQueryLoad(n, s)
                                \/ ProcStealTask(n, s)
                                \/ ProcPushTask(n, s)
                                \/ ProcRequireData(n, s)
    BY DEF ProcStep
  <1>0. conn[s] \in Message
    BY Zenon DEF TypeOK
  <1>2. CASE ProcQueryLoad(n, s)
    <2>1. Cardinality(wsQueue[n]) \in Int /\ Cardinality(Tasks) \in Int
      BY TaskSetsFinite DEF TypeOK
    <2>2. PICK l \in {0, Cardinality(wsQueue[n]), Cardinality(Tasks)} :
             Answer(s, Msg("send load", n, {}, None, "absent", l))
      BY <1>2, Zenon DEF ProcQueryLoad
    <2>3. Msg("send load", n, {}, None, "absent", l) \in Message
      <3>1. l \in Int
        <4>1. CASE l = 0
          BY <4>1
        <4>2. CASE l # 0
          BY <2>1, <2>2, <4>2, Zenon
        <4> QED
          BY <4>1, <4>2
      <3> QED
        BY <3>1, LoadMessage, Zenon
    <2> QED
      BY <1>2, <2>2, <2>3, Zenon DEF ProcQueryLoad, Answer, TypeOK
  <1>3. CASE ProcStealTask(n, s)
    <2>1. PICK M \in SUBSET wsQueue[n] :
             /\ wsQueue' = [wsQueue EXCEPT ![n] = @ \ M]
             /\ Answer(s, Msg("send tasks", n, M, None, "absent", 0))
      BY <1>3, Zenon DEF ProcStealTask, Tops
    <2>2. M \in SUBSET Tasks
      BY DEF TypeOK
    <2>3. Msg("send tasks", n, M, None, "absent", 0) \in Message
      BY <2>2, TasksMessage, Zenon
    <2> QED
      BY <1>3, <2>1, <2>3, Zenon DEF ProcStealTask, Answer, TypeOK
  <1>4. CASE ProcPushTask(n, s)
    <2>1. conn[s].tasks \in SUBSET Tasks
      BY <1>0, MessageTypes, Zenon
    <2>2. Msg("ack", n, {}, None, "absent", 0) \in Message
      BY RequestMessage, Zenon
    <2> QED
      BY <1>4, <2>1, <2>2, Zenon DEF ProcPushTask, Answer, TypeOK
  <1>5. CASE ProcRequireData(n, s)
    <2> DEFINE found == localData[n][conn[s].name]
               content == IF found = "absent" THEN "error" ELSE found
    <2>1. conn[s].name \in DataName
      BY <1>0, <1>5, MessageTypes, Zenon DEF ProcRequireData, Asked
    <2>2. content \in Content
      BY <2>1 DEF TypeOK, Content
    <2>3. Msg("send data", n, {}, conn[s].name, content, 0) \in Message
      BY <2>1, <2>2, DataMessage, Zenon
    <2> QED
      BY <1>5, <2>3, Zenon DEF ProcRequireData, Answer, TypeOK
  <1> QED
    BY <1>1, <1>2, <1>3, <1>4, <1>5

(* Every step keeps the types. *)
LEMMA TypeNext == TypeOK /\ [Next]_vars => TypeOK'
  <1> SUFFICES ASSUME TypeOK, [Next]_vars PROVE TypeOK'
    OBVIOUS
  <1>1. CASE UNCHANGED vars
    BY <1>1 DEF vars, store, queues, net, counts, TypeOK
  <1>2. CASE Terminated
    BY <1>1, <1>2 DEF Terminated
  <1> QED
    BY <1>1, <1>2, TypeCrt, TypeExec, TypeCct, TypeWs, TypeMon, TypeRs, TypeProc
       DEF Next

(* The threads and the handler of any number of schedulers keep to the     *)
(* types: at each of its steps a thread has what the code reads there, a   *)
(* message has what its receiver parses, and the counters are numbers.     *)
THEOREM TypeCorrect == Spec => []TypeOK
  <1> QED
    BY TypeInit, TypeNext, PTL DEF Spec

-----------------------------------------------------------------------------
(* Conversations. *)

(* OneConversation about one scheduler, thread by thread: who is between   *)
(* locking and unlocking sockMutex excludes every other, and the holder    *)
(* tells the kind of the message on the connection.                        *)
CoreWaits(s) == \E c \in Cores : core[s][c].pc = "wait"

Conversation(s) ==
    /\ sockMutex[s] <=> \/ crt[s].pc = "ack"
                        \/ cct[s].pc = "retry"
                        \/ ws[s].pc \in {"load", "steal"}
                        \/ rs[s].pc = "retry"
                        \/ CoreWaits(s)
    /\ crt[s].pc = "ack" => /\ cct[s].pc # "retry"
                            /\ ws[s].pc \notin {"load", "steal"}
                            /\ rs[s].pc # "retry"
                            /\ ~CoreWaits(s)
    /\ cct[s].pc = "retry" => /\ ws[s].pc \notin {"load", "steal"}
                              /\ rs[s].pc # "retry"
                              /\ ~CoreWaits(s)
    /\ ws[s].pc \in {"load", "steal"} => rs[s].pc # "retry" /\ ~CoreWaits(s)
    /\ rs[s].pc = "retry" => ~CoreWaits(s)
    /\ \A c, d \in Cores : core[s][c].pc = "wait" /\ core[s][d].pc = "wait" => c = d
    /\ crt[s].pc = "ack" <=> conn[s].type \in {"push task", "ack"}
    /\ ws[s].pc = "load" <=> conn[s].type \in {"query load", "send load"}
    /\ ws[s].pc = "steal" <=> conn[s].type \in {"steal task", "send tasks"}
    /\ CoreWaits(s) <=> conn[s].type \in {"require data", "send data"}

(* The two forms of the property are equivalent. *)
LEMMA ConversationEquiv ==
    OneConversation <=> \A s \in Schedulers : Conversation(s)
  <1>1. ASSUME NEW s \in Schedulers
        PROVE  /\ SockHolders(s) # {} <=> \/ crt[s].pc = "ack"
                                          \/ cct[s].pc = "retry"
                                          \/ ws[s].pc \in {"load", "steal"}
                                          \/ rs[s].pc = "retry"
                                          \/ CoreWaits(s)
               /\ "crt" \in SockHolders(s) <=> crt[s].pc = "ack"
               /\ "cct" \in SockHolders(s) <=> cct[s].pc = "retry"
               /\ "ws" \in SockHolders(s) <=> ws[s].pc \in {"load", "steal"}
               /\ "rs" \in SockHolders(s) <=> rs[s].pc = "retry"
               /\ \A c \in Cores : c \in SockHolders(s) <=> core[s][c].pc = "wait"
               /\ SockHolders(s) \subseteq {"crt", "cct", "ws", "rs"} \union Cores
               /\ \A c \in Cores : c \notin {"crt", "cct", "ws", "rs"}
    BY CoresAssumption, Zenon DEF Kinds, SockHolders, CoreWaits
  <1>2. ASSUME NEW s \in Schedulers,
               sockMutex[s] <=> SockHolders(s) # {},
               \A x, y \in SockHolders(s) : x = y
        PROVE  /\ crt[s].pc = "ack" => /\ cct[s].pc # "retry"
                                       /\ ws[s].pc \notin {"load", "steal"}
                                       /\ rs[s].pc # "retry"
                                       /\ ~CoreWaits(s)
               /\ cct[s].pc = "retry" => /\ ws[s].pc \notin {"load", "steal"}
                                         /\ rs[s].pc # "retry"
                                         /\ ~CoreWaits(s)
               /\ ws[s].pc \in {"load", "steal"} => rs[s].pc # "retry" /\ ~CoreWaits(s)
               /\ rs[s].pc = "retry" => ~CoreWaits(s)
               /\ \A c, d \in Cores :
                     core[s][c].pc = "wait" /\ core[s][d].pc = "wait" => c = d
    <2>1. CoreWaits(s) => \E c \in Cores : c \in SockHolders(s)
      BY <1>1 DEF CoreWaits
    <2>2. ~CoreWaits(s) \/ SockHolders(s) \subseteq Cores
      BY <1>2, <2>1
    <2>3. \A c, d \in Cores : core[s][c].pc = "wait" /\ core[s][d].pc = "wait" => c = d
      BY <1>1, <1>2
    <2>4. /\ crt[s].pc = "ack" => cct[s].pc # "retry" /\ ws[s].pc \notin {"load", "steal"}
                                 /\ rs[s].pc # "retry"
          /\ cct[s].pc = "retry" => ws[s].pc \notin {"load", "steal"} /\ rs[s].pc # "retry"
          /\ ws[s].pc \in {"load", "steal"} => rs[s].pc # "retry"
      BY <1>1, <1>2
    <2>5. CoreWaits(s) => /\ crt[s].pc # "ack" /\ cct[s].pc # "retry"
                          /\ ws[s].pc \notin {"load", "steal"} /\ rs[s].pc # "retry"
      BY <1>1, <2>2, Zenon
    <2> QED
      BY <2>3, <2>4, <2>5, Zenon
  <1>3. ASSUME NEW s \in Schedulers, Conversation(s),
               NEW x \in SockHolders(s), NEW y \in SockHolders(s)
        PROVE  x = y
    <2> DEFINE In(z) == \/ z = "crt" /\ crt[s].pc = "ack"
                        \/ z = "cct" /\ cct[s].pc = "retry"
                        \/ z = "ws" /\ ws[s].pc \in {"load", "steal"}
                        \/ z = "rs" /\ rs[s].pc = "retry"
                        \/ z \in Cores /\ core[s][z].pc = "wait"
    <2>1. In(x) /\ In(y)
      <3>1. ASSUME NEW z \in SockHolders(s) PROVE In(z)
        <4>1. z \in {"crt", "cct", "ws", "rs"} \/ z \in Cores
          BY <1>1, Zenon
        <4> QED
          BY <1>1, <4>1
      <3> QED
        BY <3>1, Zenon
    <2>2. CASE x \in Cores /\ core[s][x].pc = "wait"
      <3>1. CoreWaits(s)
        BY <2>2, Zenon DEF CoreWaits
      <3>2. y \in Cores /\ core[s][y].pc = "wait"
        BY <1>3, <2>1, <3>1, Zenon DEF Conversation
      <3> QED
        BY <1>3, <2>2, <3>2, Zenon DEF Conversation
    <2>3. CASE y \in Cores /\ core[s][y].pc = "wait"
      <3>1. CoreWaits(s)
        BY <2>3, Zenon DEF CoreWaits
      <3>2. x \in Cores /\ core[s][x].pc = "wait"
        BY <1>3, <2>1, <3>1, Zenon DEF Conversation
      <3> QED
        BY <1>3, <2>3, <3>2, Zenon DEF Conversation
    <2> QED
      BY <1>3, <2>1, <2>2, <2>3, Zenon DEF Conversation
  <1>4. OneConversation => \A s \in Schedulers : Conversation(s)
    <2> SUFFICES ASSUME OneConversation, NEW s \in Schedulers
                 PROVE  Conversation(s)
      OBVIOUS
    <2>1. /\ sockMutex[s] <=> SockHolders(s) # {}
          /\ \A x, y \in SockHolders(s) : x = y
      BY Zenon DEF OneConversation
    <2>2. /\ crt[s].pc = "ack" <=> conn[s].type \in {"push task", "ack"}
          /\ ws[s].pc = "load" <=> conn[s].type \in {"query load", "send load"}
          /\ ws[s].pc = "steal" <=> conn[s].type \in {"steal task", "send tasks"}
          /\ CoreWaits(s) <=> conn[s].type \in {"require data", "send data"}
      BY Zenon DEF OneConversation, CoreWaits
    <2> QED
      BY <1>1, <1>2, <2>1, <2>2, Zenon DEF Conversation, CoreWaits
  <1>5. (\A s \in Schedulers : Conversation(s)) => OneConversation
    <2> SUFFICES ASSUME \A s \in Schedulers : Conversation(s), NEW s \in Schedulers
                 PROVE  /\ sockMutex[s] <=> SockHolders(s) # {}
                        /\ \A x, y \in SockHolders(s) : x = y
      BY Zenon DEF OneConversation, Conversation, CoreWaits
    <2> QED
      BY <1>1, <1>3, Zenon DEF Conversation
  <1> QED
    BY <1>4, <1>5, Zenon

(* A step that neither takes nor releases sockMutex on scheduler u and     *)
(* keeps the kind of the message there.                                    *)
LEMMA Quiet ==
    ASSUME NEW u \in Schedulers, Conversation(u),
           sockMutex'[u] = sockMutex[u],
           conn'[u].type = conn[u].type,
           crt'[u].pc = "ack" <=> crt[u].pc = "ack",
           cct'[u].pc = "retry" <=> cct[u].pc = "retry",
           ws'[u].pc = "load" <=> ws[u].pc = "load",
           ws'[u].pc = "steal" <=> ws[u].pc = "steal",
           rs'[u].pc = "retry" <=> rs[u].pc = "retry",
           \A c \in Cores : core'[u][c].pc = "wait" <=> core[u][c].pc = "wait"
    PROVE  Conversation(u)'
  <1>1. CoreWaits(u)' <=> CoreWaits(u)
    BY Zenon DEF CoreWaits
  <1> QED
    BY <1>1, Zenon DEF Conversation

(* Steps of checkReadyQueue that begin and end outside a push. *)
LEMMA QuietCrt ==
    ASSUME NEW s \in Schedulers, NEW x, DOMAIN crt = Schedulers,
           crt' = [crt EXCEPT ![s] = x], crt[s].pc # "ack", x.pc # "ack",
           UNCHANGED <<sockMutex, conn, core, cct, ws, rs>>,
           NEW u \in Schedulers, Conversation(u)
    PROVE  Conversation(u)'
  <1>1. crt'[u].pc = "ack" <=> crt[u].pc = "ack"
    OBVIOUS
  <1> QED
    BY <1>1, Quiet

(* Steps of checkCompQueue that begin and end outside a retry of a swap. *)
LEMMA QuietCct ==
    ASSUME NEW s \in Schedulers, NEW x, DOMAIN cct = Schedulers,
           cct' = [cct EXCEPT ![s] = x], cct[s].pc # "retry", x.pc # "retry",
           UNCHANGED <<sockMutex, conn, core, crt, ws, rs>>,
           NEW u \in Schedulers, Conversation(u)
    PROVE  Conversation(u)'
  <1>1. cct'[u].pc = "retry" <=> cct[u].pc = "retry"
    OBVIOUS
  <1> QED
    BY <1>1, Quiet

(* Steps of the checking-ready thread: CrtPush locks, CrtAck unlocks. *)
LEMMA ConversationCrt ==
    ASSUME TypeOK, NEW s \in Schedulers, CrtStep(s),
           NEW u \in Schedulers, Conversation(u)
    PROVE  Conversation(u)'
  <1> USE DEF store, queues, net, counts, TypeOK
  <1>1. CASE \E t \in Tasks : CrtLookup(s, t)
    <2>1. PICK t \in Tasks : CrtLookup(s, t)
      BY <1>1
    <2>2. PICK x : x = CrtAt("ready", t, zht[t], None)
      OBVIOUS
    <2>3. x.pc # "ack"
      BY <2>2 DEF CrtAt
    <2>4. DOMAIN crt = Schedulers
      BY Zenon
    <2> QED
      BY <2>1, <2>2, <2>3, <2>4, QuietCrt, Zenon DEF CrtLookup
  <1>2. CASE CrtToWsQueue(s)
    BY <1>2, Quiet, Zenon DEF CrtToWsQueue, IdleCrt, CrtAt
  <1>3. CASE \E d \in DataName : CrtToLocalQueue(s, d)
    <2>1. PICK d \in DataName : CrtToLocalQueue(s, d)
      BY <1>3
    <2>2. IdleCrt.pc # "ack"
      BY DEF IdleCrt, CrtAt
    <2>3. DOMAIN crt = Schedulers
      BY Zenon
    <2> QED
      BY <2>1, <2>2, <2>3, QuietCrt, Zenon DEF CrtToLocalQueue
  <1>4. CASE \E d \in DataName : CrtChoosePush(s, d)
    <2>1. PICK d \in DataName : CrtChoosePush(s, d)
      BY <1>4
    <2>2. PICK x : x = CrtAt("push", crt[s].task, crt[s].val, d[1])
      OBVIOUS
    <2>3. x.pc # "ack"
      BY <2>2 DEF CrtAt
    <2>4. DOMAIN crt = Schedulers
      OBVIOUS
    <2> QED
      BY <2>1, <2>2, <2>3, <2>4, QuietCrt, Zenon DEF CrtChoosePush
  <1>5. CASE CrtPush(s)
    <2>1. CASE u # s
      BY <1>5, <2>1, Quiet, Zenon DEF CrtPush, Open
    <2>2. CASE u = s
      BY <1>5, <2>2, Zenon DEF CrtPush, Open, CrtAt, Msg, Conversation, CoreWaits
    <2> QED
      BY <2>1, <2>2, Zenon
  <1>6. CASE CrtAck(s)
    <2>1. CASE u # s
      BY <1>6, <2>1, Quiet, Zenon DEF CrtAck, Close
    <2>2. CASE u = s
      BY <1>6, <2>2, Zenon DEF CrtAck, Close, IdleCrt, CrtAt, NoConn, Msg, Conversation,
                        CoreWaits
    <2> QED
      BY <2>1, <2>2
  <1> QED
    BY <1>1, <1>2, <1>3, <1>4, <1>5, <1>6, Zenon DEF CrtStep

(* A step of one core that is not about the connection. *)
LEMMA QuietCore ==
    ASSUME TypeOK, NEW s \in Schedulers, NEW c \in Cores, NEW x,
           core' = [core EXCEPT ![s][c] = x],
           core[s][c].pc # "wait", x.pc # "wait",
           UNCHANGED <<sockMutex, conn, crt, cct, ws>>,
           \A v \in Schedulers : rs'[v].pc = rs[v].pc,
           NEW u \in Schedulers, Conversation(u)
    PROVE  Conversation(u)'
  <1>1. \A d \in Cores : core'[u][d].pc = "wait" <=> core[u][d].pc = "wait"
    BY Zenon DEF TypeOK
  <1> QED
    BY <1>1, Quiet, Zenon

(* Steps of a core: ExecRequire locks, ExecRecvData unlocks. *)
LEMMA ConversationExec ==
    ASSUME TypeOK, NEW s \in Schedulers, NEW c \in Cores, ExecStep(s, c),
           NEW u \in Schedulers, Conversation(u)
    PROVE  Conversation(u)'
  <1> USE DEF store, queues, net, counts, TypeOK
  <1>1. CASE ExecLook(s, c)
    <2>1. PICK pc \in {"local", "ws"} :
             core' = [core EXCEPT ![s][c] = CoreAt(pc, None, {}, None)]
      BY <1>1 DEF ExecLook
    <2>2. CoreAt(pc, None, {}, None).pc # "wait"
      BY Zenon DEF CoreAt
    <2> QED
      BY <1>1, <2>1, <2>2, QuietCore, Zenon DEF ExecLook
  <1>2. CASE ExecTakeLocal(s, c)
    <2>1. IdleCore.pc # "wait" /\ \A t : Took(t).pc # "wait"
      BY Zenon DEF Took, IdleCore, CoreAt
    <2>2. CASE core' = [core EXCEPT ![s][c] = IdleCore]
      BY <1>2, <2>1, <2>2, QuietCore, Zenon DEF ExecTakeLocal
    <2>3. ASSUME NEW t, core' = [core EXCEPT ![s][c] = Took(t)]
          PROVE  Conversation(u)'
      BY <1>2, <2>1, <2>3, QuietCore, Zenon DEF ExecTakeLocal
    <2> QED
      BY <1>2, <2>2, <2>3, Zenon DEF ExecTakeLocal
  <1>3. CASE ExecTakeWs(s, c)
    <2>1. IdleCore.pc # "wait" /\ \A t : Took(t).pc # "wait"
      BY DEF Took, IdleCore, CoreAt
    <2>2. CASE core' = [core EXCEPT ![s][c] = IdleCore]
      BY <1>3, <2>1, <2>2, QuietCore, Zenon DEF ExecTakeWs
    <2>3. ASSUME NEW t, core' = [core EXCEPT ![s][c] = Took(t)]
          PROVE  Conversation(u)'
      BY <1>3, <2>1, <2>3, QuietCore, Zenon DEF ExecTakeWs
    <2> QED
      BY <1>3, <2>2, <2>3, Zenon DEF ExecTakeWs
  <1>4. CASE ExecLookup(s, c)
    BY <1>4, Quiet, Zenon DEF ExecLookup, CoreAt
  <1>5. ASSUME NEW d \in DataName, ExecReadHere(s, c, d) \/ ExecMiss(s, c, d)
        PROVE  Conversation(u)'
    <2>1. CASE ExecReadHere(s, c, d)
      BY <2>1, Quiet, Zenon DEF ExecReadHere, CoreAt
    <2>2. CASE ExecMiss(s, c, d)
      BY <2>2, Quiet, Zenon DEF ExecMiss, CoreAt
    <2> QED
      BY <1>5, <2>1, <2>2
  <1>6. CASE ExecRequire(s, c)
    <2>1. CASE u # s
      BY <1>6, <2>1, Quiet, Zenon DEF ExecRequire, Open
    <2>2. CASE u = s
      <3>0. core'[s][c].pc = "wait"
        BY <1>6, Zenon DEF ExecRequire, CoreAt
      <3>1. CoreWaits(s)'
        BY <3>0, Zenon DEF CoreWaits
      <3>2. \A d \in Cores : core'[s][d].pc = "wait" => d = c
        BY <1>6, <2>2, Zenon DEF ExecRequire, Open, Conversation, CoreWaits
      <3> QED
        BY <1>6, <2>2, <3>1, <3>2, Zenon DEF ExecRequire, Open, Msg, Conversation, CoreWaits
    <2> QED
      BY <2>1, <2>2
  <1>7. CASE ExecRecvData(s, c)
    <2>1. CASE u # s
      BY <1>7, <2>1, Quiet, Zenon DEF ExecRecvData, Close
    <2>2. CASE u = s
      <3>1. CoreWaits(s)
        BY <1>7, Zenon DEF ExecRecvData, CoreWaits
      <3>2. ~CoreWaits(s)'
        BY <1>7, <2>2, Zenon DEF ExecRecvData, CoreAt, Conversation, CoreWaits
      <3> QED
        BY <1>7, <2>2, <3>1, <3>2, Zenon DEF ExecRecvData, Close, NoConn, Msg, Conversation
    <2> QED
      BY <2>1, <2>2
  <1>8. CASE ExecRun(s, c)
    BY <1>8, Quiet, Zenon DEF ExecRun, CoreAt
  <1>9. CASE ExecComplete(s, c)
    BY <1>9, Quiet, Zenon DEF ExecComplete, CoreAt
  <1>10. CASE ExecCount(s, c)
    BY <1>10, Quiet, Zenon DEF ExecCount, IdleCore, CoreAt
  <1> QED
    BY <1>1, <1>2, <1>3, <1>4, <1>5, <1>6, <1>7, <1>8, <1>9, <1>10 DEF ExecStep

(* Steps of the checking-complete thread: CctSwap locks and unlocks. *)
LEMMA ConversationCct ==
    ASSUME TypeOK, NEW s \in Schedulers, CctStep(s),
           NEW u \in Schedulers, Conversation(u)
    PROVE  Conversation(u)'
  <1> USE DEF store, queues, net, counts, TypeOK
  <1>1. CASE \E t \in Tasks : CctPop(s, t)
    <2>1. PICK t \in Tasks : CctPop(s, t)
      BY <1>1
    <2>2. cct[s].pc # "retry" /\ cct'[s].pc # "retry"
      BY <2>1, Zenon DEF CctPop, IdleCct, CctAt
    <2>3. u # s => cct'[u] = cct[u]
      BY <2>1, Zenon DEF CctPop
    <2>4. UNCHANGED <<crt, core, ws, rs, net>>
      BY <2>1, Zenon DEF CctPop
    <2> QED
      BY <2>2, <2>3, <2>4, Quiet, Zenon
  <1>2. CASE \E t \in Tasks : CctLookup(s, t)
    <2>1. PICK t \in Tasks : CctLookup(s, t)
      BY <1>2
    <2>2. PICK x : x = CctAt("swap", cct[s].task, cct[s].todo, t, zht[t])
      BY Zenon
    <2>3. x.pc # "retry"
      BY <2>2, Zenon DEF CctAt
    <2>4. DOMAIN cct = Schedulers
      BY Zenon
    <2> QED
      BY <2>1, <2>2, <2>3, <2>4, QuietCct, Zenon DEF CctLookup
  <1>3. CASE CctSwap(s)
    <2>1. CASE u # s
      BY <1>3, <2>1, Quiet, Zenon DEF CctSwap
    <2>2. CASE u = s
      <3>1. /\ cct'[s].pc = "retry" <=> sockMutex'[s]
            /\ sockMutex[s] => cct[s].pc = "retry"
        <4>1. CASE Matches(s)
          <5>1. IdleCct.pc # "retry"
            BY Zenon DEF IdleCct, CctAt
          <5>2. PICK x : x = CctAt("next", cct[s].task, cct[s].todo \ {cct[s].child}, None,
                                   NoMetadata)
            BY Zenon
          <5>3. x.pc # "retry"
            BY <5>2, Zenon DEF CctAt
          <5>4. cct'[s] \in {IdleCct, x} /\ ~sockMutex'[s]
            BY <1>3, <4>1, <5>2, Zenon DEF CctSwap
          <5>5. sockMutex[s] => cct[s].pc = "retry"
            BY <1>3, Zenon DEF CctSwap
          <5> QED
            BY <5>1, <5>3, <5>4, <5>5, Zenon
        <4>2. CASE ~Matches(s)
          <5>1. PICK x : x = CctAt("retry", cct[s].task, cct[s].todo, cct[s].child,
                                   zht[cct[s].child])
            BY Zenon
          <5>2. x.pc = "retry"
            BY <5>1, Zenon DEF CctAt
          <5>3. cct'[s] = x /\ sockMutex'[s]
            BY <1>3, <4>2, <5>1, Zenon DEF CctSwap
          <5>4. sockMutex[s] => cct[s].pc = "retry"
            BY <1>3, Zenon DEF CctSwap
          <5> QED
            BY <5>2, <5>3, <5>4, Zenon
        <4> QED
          BY <4>1, <4>2, Zenon
      <3>2. CoreWaits(s)' <=> CoreWaits(s)
        BY <1>3, Zenon DEF CctSwap, CoreWaits
      <3> QED
        BY <1>3, <2>2, <3>1, <3>2, Zenon DEF CctSwap, Conversation
    <2> QED
      BY <2>1, <2>2
  <1> QED
    BY <1>1, <1>2, <1>3, Zenon DEF CctStep

(* Steps of the work stealing thread: a lock and unlock per exchange. *)
LEMMA ConversationWs ==
    ASSUME TypeOK, NEW s \in Schedulers, WsStep(s),
           NEW u \in Schedulers, Conversation(u)
    PROVE  Conversation(u)'
  <1> USE DEF store, queues, net, counts, TypeOK
  <1>1. CASE WsChoose(s)
    <2>1. PICK N : ws' = [ws EXCEPT ![s] = WsAt("query", N, None, NoLoad, @.poll)]
      BY <1>1, Zenon DEF WsChoose
    <2> QED
      BY <1>1, <2>1, Quiet, Zenon DEF WsChoose, WsAt
  <1>2. ASSUME NEW n \in Schedulers, WsQuery(s, n) PROVE Conversation(u)'
    <2>1. CASE u # s
      BY <1>2, <2>1, Quiet, Zenon DEF WsQuery, Open
    <2>2. CASE u = s
      BY <1>2, <2>2, Zenon DEF WsQuery, Open, WsAt, Msg, Conversation, CoreWaits
    <2> QED
      BY <2>1, <2>2
  <1>3. CASE WsRecvLoad(s)
    <2>1. CASE u # s
      BY <1>3, <2>1, Quiet, Zenon DEF WsRecvLoad, Close
    <2>2. CASE u = s
      BY <1>3, <2>2, Zenon DEF WsRecvLoad, Close, WsAt, NoConn, Msg, Conversation, CoreWaits
    <2> QED
      BY <2>1, <2>2
  <1>4. CASE WsSteal(s)
    <2>1. CASE u # s
      BY <1>4, <2>1, Quiet, Zenon DEF WsSteal, Open
    <2>2. CASE u = s
      BY <1>4, <2>2, Zenon DEF WsSteal, Open, WsAt, Msg, Conversation, CoreWaits
    <2> QED
      BY <2>1, <2>2
  <1>5. CASE WsNoLoad(s)
    BY <1>5, Quiet, Zenon DEF WsNoLoad, IdleWs, WsAt
  <1>6. CASE WsRecvNothing(s)
    <2>1. CASE u # s
      BY <1>6, <2>1, Quiet, Zenon DEF WsRecvNothing, Close
    <2>2. CASE u = s
      BY <1>6, <2>2, Zenon DEF WsRecvNothing, Close, IdleWs, WsAt, NoConn, Msg,
                        Conversation, CoreWaits
    <2> QED
      BY <2>1, <2>2
  <1>7. CASE WsRecvPackage(s)
    <2>1. CASE u # s
      BY <1>7, <2>1, Quiet, Zenon DEF WsRecvPackage, Close, Answer
    <2>2. CASE u = s
      <3>1. \/ ws'[s].pc = "idle" /\ conn'[s].type = "none" /\ ~sockMutex'[s]
            \/ ws'[s].pc = "steal" /\ conn'[s].type = "send tasks" /\ sockMutex'[s]
        <4>1. IdleWs(0).pc = "idle" /\ NoConn.type = "none"
          BY Zenon DEF IdleWs, WsAt, NoConn, Msg
        <4>2. \A n, T : Msg("send tasks", n, T, None, "absent", 0).type = "send tasks"
          BY Zenon DEF Msg
        <4>3. ws[s].pc = "steal" /\ sockMutex[s]
          BY <1>7, <2>2, Zenon DEF WsRecvPackage, Conversation
        <4>4. CASE Close(s) /\ ws' = [ws EXCEPT ![s] = IdleWs(0)]
          BY <4>1, <4>4, Zenon DEF Close
        <4>5. ASSUME NEW n, NEW T, UNCHANGED ws,
                     Answer(s, Msg("send tasks", n, T, None, "absent", 0))
              PROVE  /\ ws'[s].pc = "steal" /\ conn'[s].type = "send tasks"
                     /\ sockMutex'[s]
          BY <4>2, <4>3, <4>5, Zenon DEF Answer
        <4> QED
          BY <1>7, <4>4, <4>5, Zenon DEF WsRecvPackage
      <3>2. CoreWaits(s)' <=> CoreWaits(s)
        BY <1>7, Zenon DEF WsRecvPackage, CoreWaits
      <3> QED
        BY <1>7, <2>2, <3>1, <3>2, Zenon DEF WsRecvPackage, Conversation
    <2> QED
      BY <2>1, <2>2
  <1>8. CASE WsReset(s)
    BY <1>8, Quiet, Zenon DEF WsReset, IdleWs, WsAt
  <1>9. CASE WsExit(s)
    BY <1>9, Quiet, Zenon DEF WsExit, WsAt
  <1> QED
    BY <1>1, <1>2, <1>3, <1>4, <1>5, <1>6, <1>7, <1>8, <1>9, Zenon DEF WsStep

(* Steps of the monitor, and of rs, where RsSwap locks and unlocks. *)
LEMMA ConversationMonRs ==
    ASSUME TypeOK, NEW s \in Schedulers, MonStep(s) \/ RsStep(s),
           NEW u \in Schedulers, Conversation(u)
    PROVE  Conversation(u)'
  <1> USE DEF store, queues, net, counts, TypeOK
  <1>1. CASE MonStep(s)
    BY <1>1, Quiet, Zenon DEF MonStep, MonSplit, MonPush
  <1>2. CASE RsStop(s)
    BY <1>2, Quiet, Zenon DEF RsStop
  <1>3. CASE RsLookup(s)
    BY <1>3, Quiet, Zenon DEF RsLookup, Trial
  <1>4. CASE RsSwap(s)
    <2>1. CASE u # s
      BY <1>4, <2>1, Quiet, Zenon DEF RsSwap
    <2>2. CASE u = s
      <3>1. /\ rs'[s].pc = "retry" <=> sockMutex'[s]
            /\ sockMutex[s] => rs[s].pc = "retry"
        <4>1. CASE rs' = [rs EXCEPT ![s] = IdleRs] /\ ~sockMutex'[s]
          BY <1>4, <4>1, Zenon DEF RsSwap, IdleRs
        <4>2. CASE rs' = [rs EXCEPT ![s] = Trial(s, "retry", numTasksDone)] /\ sockMutex'[s]
          BY <1>4, <4>2, Zenon DEF RsSwap, Trial
        <4> QED
          BY <1>4, <4>1, <4>2, Zenon DEF RsSwap
      <3>2. CoreWaits(s)' <=> CoreWaits(s)
        BY <1>4, Zenon DEF RsSwap, CoreWaits
      <3> QED
        BY <1>4, <2>2, <3>1, <3>2, Zenon DEF RsSwap, Conversation
    <2> QED
      BY <2>1, <2>2, Zenon
  <1> QED
    BY <1>1, <1>2, <1>3, <1>4, Zenon DEF RsStep

(* An answer is of the kind that the request asks for. *)
LEMMA ConversationProc ==
    ASSUME TypeOK, NEW n \in Schedulers, ProcStep(n),
           NEW u \in Schedulers, Conversation(u)
    PROVE  Conversation(u)'
  <1> USE DEF store, queues, net, counts
  <1>1. PICK s \in Schedulers : \/ ProcQueryLoad(n, s)
                                \/ ProcStealTask(n, s)
                                \/ ProcPushTask(n, s)
                                \/ ProcRequireData(n, s)
    BY Zenon DEF ProcStep
  <1>2. UNCHANGED <<sockMutex, crt, core, cct, ws, rs>>
    BY <1>1, Zenon DEF ProcQueryLoad, ProcStealTask, ProcPushTask, ProcRequireData, Answer
  <1>3. \/ conn[s].type = "query load" /\ conn'[s].type = "send load"
        \/ conn[s].type = "steal task" /\ conn'[s].type = "send tasks"
        \/ conn[s].type = "push task" /\ conn'[s].type = "ack"
        \/ conn[s].type = "require data" /\ conn'[s].type = "send data"
    <2>0. ASSUME NEW type, NEW T, NEW d, NEW x, NEW l,
                 Answer(s, Msg(type, n, T, d, x, l))
          PROVE  conn'[s].type = type
      BY <2>0, Zenon DEF Answer, Msg, TypeOK
    <2>1. CASE ProcQueryLoad(n, s)
      <3>1. conn'[s].type = "send load"
        BY <2>0, <2>1, Zenon DEF ProcQueryLoad
      <3>2. conn[s].type = "query load"
        BY <2>1, Zenon DEF ProcQueryLoad, Asked
      <3> QED
        BY <3>1, <3>2, Zenon
    <2>2. CASE ProcStealTask(n, s)
      <3>1. conn'[s].type = "send tasks"
        BY <2>0, <2>2, Zenon DEF ProcStealTask
      <3>2. conn[s].type = "steal task"
        BY <2>2, Zenon DEF ProcStealTask, Asked
      <3> QED
        BY <3>1, <3>2, Zenon
    <2>3. CASE ProcPushTask(n, s)
      <3>1. conn'[s].type = "ack"
        BY <2>0, <2>3, Zenon DEF ProcPushTask
      <3>2. conn[s].type = "push task"
        BY <2>3, Zenon DEF ProcPushTask, Asked
      <3> QED
        BY <3>1, <3>2, Zenon
    <2>4. CASE ProcRequireData(n, s)
      BY <2>0, <2>4, Zenon DEF ProcRequireData, Asked
    <2> QED
      BY <1>1, <2>1, <2>2, <2>3, <2>4, Zenon
  <1>4. CASE u # s
    <2>1. conn'[u] = conn[u]
      BY <1>1, <1>4, Zenon DEF ProcQueryLoad, ProcStealTask, ProcPushTask, ProcRequireData,
                        Answer, TypeOK
    <2> QED
      BY <1>2, <2>1, Quiet, Zenon
  <1>5. CASE u = s
    <2>1. CoreWaits(u)' <=> CoreWaits(u)
      BY <1>2, Zenon DEF CoreWaits
    <2> QED
      BY <1>2, <1>3, <1>5, <2>1, Zenon DEF Conversation
  <1> QED
    BY <1>4, <1>5

(* ConversationEquiv in the next state. *)
LEMMA ConversationEquivPrime ==
    (\A s \in Schedulers : Conversation(s))' => OneConversation'
  BY ConversationEquiv, PTL

(* Every step keeps the property. *)
LEMMA ConversationNext ==
    TypeOK /\ OneConversation /\ [Next]_vars => OneConversation'
  <1> SUFFICES ASSUME TypeOK, OneConversation, [Next]_vars,
                      NEW u \in Schedulers
               PROVE  Conversation(u)'
    BY ConversationEquivPrime
  <1>1. Conversation(u)
    BY ConversationEquiv, Zenon
  <1>2. CASE UNCHANGED vars
    BY <1>1, <1>2, Quiet, Zenon DEF vars, net
  <1>3. ASSUME NEW s \in Schedulers, CrtStep(s) PROVE Conversation(u)'
    BY <1>1, <1>3, ConversationCrt
  <1>4. ASSUME NEW s \in Schedulers, NEW c \in Cores, ExecStep(s, c)
        PROVE  Conversation(u)'
    BY <1>1, <1>4, ConversationExec, Zenon
  <1>5. ASSUME NEW s \in Schedulers, CctStep(s) PROVE Conversation(u)'
    BY <1>1, <1>5, ConversationCct
  <1>6. ASSUME NEW s \in Schedulers, WsStep(s) PROVE Conversation(u)'
    BY <1>1, <1>6, ConversationWs
  <1>7. ASSUME NEW s \in Schedulers, MonStep(s) \/ RsStep(s) PROVE Conversation(u)'
    BY <1>1, <1>7, ConversationMonRs
  <1>8. ASSUME NEW s \in Schedulers, ProcStep(s) PROVE Conversation(u)'
    BY <1>1, <1>8, ConversationProc
  <1> QED
    BY <1>2, <1>3, <1>4, <1>5, <1>6, <1>7, <1>8 DEF Next, Terminated

(* The threads of a scheduler that talk to other schedulers never use the  *)
(* connection at the same time: between locking and unlocking sockMutex    *)
(* there is one thread, and the answer it reads is to its own request.     *)
THEOREM ConversationCorrect == Spec => []OneConversation
  <1>1. Init => OneConversation
    <2> SUFFICES ASSUME Init, NEW s \in Schedulers PROVE Conversation(s)
      BY ConversationEquiv, Zenon
    <2>1. /\ crt[s].pc = "idle" /\ cct[s].pc = "idle" /\ ws[s].pc = "idle"
          /\ rs[s].pc = "look" /\ conn[s].type = "none" /\ ~sockMutex[s]
      BY Zenon DEF Init, IdleCrt, IdleCct, IdleWs, IdleRs, CrtAt, CctAt, WsAt, NoConn, Msg
    <2>2. \A c \in Cores : core[s][c].pc = "idle"
      BY Zenon DEF Init, IdleCore, CoreAt
    <2> QED
      BY <2>1, <2>2, Zenon DEF Conversation, CoreWaits
  <1> QED
    BY <1>1, ConversationNext, TypeCorrect, PTL DEF Spec
=============================================================================
