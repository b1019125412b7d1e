----------------------------- MODULE PlaceProofs -----------------------------
(***************************************************************************)
(* OnePlace and DataInPlace hold for any number of schedulers, cores and   *)
(* tasks: every step of a thread or handler moves a set of tasks from one  *)
(* place to another, or none; and a result is in localData before anything *)
(* names it, and it stays there.                                           *)
(***************************************************************************)
EXTENDS ConversationProofs

(* The places, one by one. *)
HeldAs(s) ==
    /\ Held(s, "wait") = waitQueue[s]
    /\ Held(s, "crt") = {t \in Tasks : t = crt[s].task}
    /\ Held(s, "local") = localQueue[s]
    /\ Held(s, "ws") = wsQueue[s]
    /\ Held(s, "mon") = migrating[s]
    /\ Held(s, "conn") = conn[s].tasks
    /\ Held(s, "ran") = {t \in Tasks : localData[s][<<s, t>>] # "absent"}
    /\ \A c \in Cores : Held(s, c) = {t \in Tasks : /\ core[s][c].pc \in Executing
                                                    /\ core[s][c].task = t}

(* No core has the name of another place, so each case of Held applies. *)
LEMMA HeldIs == \A s \in Schedulers : HeldAs(s)
  BY CoresAssumption DEF HeldAs, Held, Kinds

(* HeldIs in the next state. *)
LEMMA HeldIsPrime == (\A s \in Schedulers : HeldAs(s))'
  BY HeldIs, PTL

(* What decides that a place holds the same tasks after a step. *)
LEMMA Unmoved ==
    ASSUME NEW u \in Schedulers
    PROVE  /\ waitQueue'[u] = waitQueue[u] => Held(u, "wait")' = Held(u, "wait")
           /\ crt'[u].task = crt[u].task => Held(u, "crt")' = Held(u, "crt")
           /\ localQueue'[u] = localQueue[u] => Held(u, "local")' = Held(u, "local")
           /\ wsQueue'[u] = wsQueue[u] => Held(u, "ws")' = Held(u, "ws")
           /\ migrating'[u] = migrating[u] => Held(u, "mon")' = Held(u, "mon")
           /\ conn'[u].tasks = conn[u].tasks => Held(u, "conn")' = Held(u, "conn")
           /\ localData'[u] = localData[u] => Held(u, "ran")' = Held(u, "ran")
           /\ \A c \in Cores : core'[u][c] = core[u][c] => Held(u, c)' = Held(u, c)
  <1>1. HeldAs(u) /\ HeldAs(u)'
    BY HeldIs, HeldIsPrime
  <1>2. ASSUME NEW c \in Cores, core'[u][c] = core[u][c]
        PROVE  Held(u, c)' = Held(u, c)
    <2>1. Held(u, c) = {t \in Tasks : /\ core[u][c].pc \in Executing
                                      /\ core[u][c].task = t}
      BY <1>1 DEF HeldAs
    <2>2. Held(u, c)' = {t \in Tasks : /\ core'[u][c].pc \in Executing
                                       /\ core'[u][c].task = t}
      BY <1>1 DEF HeldAs, Executing
    <2> QED
      BY <1>2, <2>1, <2>2
  <1>3. localData'[u] = localData[u] => Held(u, "ran")' = Held(u, "ran")
    BY <1>1, Zenon DEF HeldAs
  <1> QED
    BY <1>1, <1>2, <1>3, Zenon DEF HeldAs

(* No task moves, or the tasks M move from place <<s, p>> to <<n, q>>. *)
LEMMA Still ==
    ASSUME OnePlace,
           \A u \in Schedulers, r \in Places : Held(u, r)' = Held(u, r)
    PROVE  OnePlace'
  BY DEF OnePlace

Moves(M, s, p, n, q) ==
    /\ M \subseteq Held(s, p)
    /\ Held(s, p)' = Held(s, p) \ M
    /\ Held(n, q)' = Held(n, q) \union M
    /\ \A u \in Schedulers, r \in Places :
          ~(u = s /\ r = p) /\ ~(u = n /\ r = q) => Held(u, r)' = Held(u, r)

(* A step that moves tasks to another place leaves each in one place. *)
LEMMA Move ==
    ASSUME OnePlace, NEW s \in Schedulers, NEW p \in Places,
           NEW n \in Schedulers, NEW q \in Places, s # n \/ p # q,
           NEW M, Moves(M, s, p, n, q)
    PROVE  OnePlace'
  <1> USE DEF Moves
  <1> DEFINE Now(t) == {pl \in Schedulers \X Places : t \in Held(pl[1], pl[2])}
  <1> SUFFICES ASSUME NEW t \in Tasks
               PROVE  \E pl \in Now(t)' : Now(t)' = {pl}
    BY DEF OnePlace
  <1>1. PICK pl \in Now(t) : Now(t) = {pl}
    BY DEF OnePlace
  <1>2. PICK u \in Schedulers, r \in Places : pl = <<u, r>>
    BY <1>1
  <1>3. t \in Held(u, r)
    BY <1>1, <1>2
  <1>4. ASSUME NEW v \in Schedulers, NEW z \in Places, t \in Held(v, z)
        PROVE  v = u /\ z = r
    <2>1. <<v, z>> \in Now(t)
      BY <1>4
    <2> QED
      BY <1>1, <1>2, <2>1
  <1>5. CASE t \in M
    <2>1. u = s /\ r = p
      BY <1>4, <1>5
    <2>2. t \in Held(n, q)'
      BY <1>5
    <2>3. ASSUME NEW v \in Schedulers, NEW z \in Places, t \in Held(v, z)'
          PROVE  v = n /\ z = q
      BY <1>4, <1>5, <2>1, <2>3
    <2>4. <<n, q>> \in Now(t)'
      BY <2>2
    <2>5. Now(t)' = {<<n, q>>}
      BY <2>3, <2>4
    <2> QED
      BY <2>4, <2>5
  <1>6. CASE t \notin M
    <2>1. t \in Held(u, r)'
      BY <1>3, <1>6
    <2>2. ASSUME NEW v \in Schedulers, NEW z \in Places, t \in Held(v, z)'
          PROVE  v = u /\ z = r
      BY <1>4, <1>6, <2>2
    <2>3. <<u, r>> \in Now(t)'
      BY <2>1
    <2>4. Now(t)' = {<<u, r>>}
      BY <2>2, <2>3
    <2> QED
      BY <2>3, <2>4
  <1> QED
    BY <1>5, <1>6

(* Places has these names, and no core is called by one of the first. *)
LEMMA PlaceNames ==
    /\ {"wait", "crt", "local", "ws", "mon", "conn", "ran"} \subseteq Places
    /\ Cores \subseteq Places
    /\ \A c \in Cores : c \notin {"wait", "crt", "local", "ws", "mon", "conn", "ran"}
  BY CoresAssumption DEF Places, Kinds

(* While sockMutex is free the connection carries no tasks. *)
LEMMA NothingSent ==
    ASSUME TypeOK, OneConversation, NEW s \in Schedulers, ~sockMutex[s]
    PROVE  conn[s].tasks = {}
  <1>1. SockHolders(s) = {}
    BY Zenon DEF OneConversation
  <1>2. conn[s].type \notin {"push task", "send tasks"}
    <2>1. crt[s].pc # "ack" /\ ws[s].pc # "steal"
      BY <1>1 DEF SockHolders
    <2> QED
      BY <2>1, Zenon DEF OneConversation
  <1> QED
    BY <1>2, MessageTypes, Zenon DEF TypeOK

(* Steps of the checking-ready thread: out of the wait queue, and on. *)
LEMMA PlaceCrt ==
    ASSUME TypeOK, OneConversation, OnePlace, NEW s \in Schedulers, CrtStep(s)
    PROVE  OnePlace'
  <1> USE DEF store, queues, net, counts
  <1>0. HeldAs(s) /\ HeldAs(s)' /\ crt[s] \in CrtState
    BY HeldIs, HeldIsPrime DEF TypeOK
  <1>1. ASSUME NEW t \in Tasks, CrtLookup(s, t) PROVE OnePlace'
    <2>1. {t} \subseteq Held(s, "wait") /\ Held(s, "wait")' = Held(s, "wait") \ {t}
      BY <1>0, <1>1 DEF HeldAs, CrtLookup, TypeOK
    <2>2. Held(s, "crt")' = Held(s, "crt") \union {t}
      <3>1. crt[s].task = None /\ crt'[s].task = t
        BY <1>0, <1>1, CrtTypes DEF CrtLookup, CrtAt, TypeOK
      <3> QED
        BY <1>0, <3>1, TasksAssumption DEF HeldAs
    <2>3. \A u \in Schedulers, r \in Places :
             ~(u = s /\ r = "wait") /\ ~(u = s /\ r = "crt")
               => Held(u, r)' = Held(u, r)
      BY <1>1, Unmoved DEF CrtLookup, Places, TypeOK
    <2>4. Moves({t}, s, "wait", s, "crt")
      BY <2>1, <2>2, <2>3 DEF Moves
    <2> QED
      BY <2>4, Move, PlaceNames
  <1>2. ASSUME CrtToWsQueue(s) PROVE OnePlace'
    <2> DEFINE t == crt[s].task
    <2>1. t \in Tasks
      BY <1>0, <1>2, CrtTypes DEF CrtToWsQueue
    <2>2. {t} \subseteq Held(s, "crt") /\ Held(s, "crt")' = Held(s, "crt") \ {t}
      <3>1. crt'[s].task = None
        BY <1>2 DEF CrtToWsQueue, IdleCrt, CrtAt, TypeOK
      <3> QED
        BY <1>0, <2>1, <3>1, TasksAssumption DEF HeldAs
    <2>3. Held(s, "ws")' = Held(s, "ws") \union {t}
      BY <1>0, <1>2 DEF HeldAs, CrtToWsQueue, TypeOK
    <2>4. \A u \in Schedulers, r \in Places :
             ~(u = s /\ r = "crt") /\ ~(u = s /\ r = "ws")
               => Held(u, r)' = Held(u, r)
      BY <1>2, Unmoved DEF CrtToWsQueue, Places, TypeOK
    <2>5. Moves({t}, s, "crt", s, "ws")
      BY <2>2, <2>3, <2>4 DEF Moves
    <2> QED
      BY <2>5, Move, PlaceNames
  <1>3. ASSUME NEW d \in DataName, CrtToLocalQueue(s, d) PROVE OnePlace'
    <2> DEFINE t == crt[s].task
    <2>1. t \in Tasks
      BY <1>0, <1>3, CrtTypes DEF CrtToLocalQueue
    <2>2. {t} \subseteq Held(s, "crt") /\ Held(s, "crt")' = Held(s, "crt") \ {t}
      <3>1. crt'[s].task = None
        BY <1>3 DEF CrtToLocalQueue, IdleCrt, CrtAt, TypeOK
      <3> QED
        BY <1>0, <2>1, <3>1, TasksAssumption DEF HeldAs
    <2>3. Held(s, "local")' = Held(s, "local") \union {t}
      BY <1>0, <1>3 DEF HeldAs, CrtToLocalQueue, TypeOK
    <2>4. \A u \in Schedulers, r \in Places :
             ~(u = s /\ r = "crt") /\ ~(u = s /\ r = "local")
               => Held(u, r)' = Held(u, r)
      BY <1>3, Unmoved DEF CrtToLocalQueue, Places, TypeOK
    <2>5. Moves({t}, s, "crt", s, "local")
      BY <2>2, <2>3, <2>4 DEF Moves
    <2> QED
      BY <2>5, Move, PlaceNames
  <1>4. ASSUME NEW d \in DataName, CrtChoosePush(s, d) PROVE OnePlace'
    <2>1. crt'[s].task = crt[s].task
      BY <1>4 DEF CrtChoosePush, CrtAt, TypeOK
    <2>2. \A u \in Schedulers, r \in Places : Held(u, r)' = Held(u, r)
      BY <1>4, <2>1, Unmoved DEF CrtChoosePush, Places, TypeOK
    <2> QED
      BY <2>2, Still
  <1>5. ASSUME CrtPush(s) PROVE OnePlace'
    <2> DEFINE t == crt[s].task
    <2>1. t \in Tasks
      BY <1>0, <1>5, CrtTypes, Zenon DEF CrtPush
    <2>2. {t} \subseteq Held(s, "crt") /\ Held(s, "crt")' = Held(s, "crt") \ {t}
      <3>1. crt'[s].task = None
        BY <1>5, Zenon DEF CrtPush, CrtAt, TypeOK
      <3> QED
        BY <1>0, <2>1, <3>1, TasksAssumption DEF HeldAs
    <2>3. Held(s, "conn")' = Held(s, "conn") \union {t}
      <3>1. conn[s].tasks = {}
        BY <1>5, NothingSent, Zenon DEF CrtPush, Open
      <3>2. conn'[s].tasks = {t}
        BY <1>5, Zenon DEF CrtPush, Open, Msg, TypeOK
      <3> QED
        BY <1>0, <3>1, <3>2 DEF HeldAs
    <2>4. \A u \in Schedulers, r \in Places :
             ~(u = s /\ r = "crt") /\ ~(u = s /\ r = "conn")
               => Held(u, r)' = Held(u, r)
      BY <1>5, Unmoved, Zenon DEF CrtPush, Open, Places, TypeOK
    <2>5. Moves({t}, s, "crt", s, "conn")
      BY <2>2, <2>3, <2>4 DEF Moves
    <2> QED
      BY <2>5, Move, PlaceNames, Zenon
  <1>6. ASSUME CrtAck(s) PROVE OnePlace'
    <2>1. crt'[s].task = crt[s].task
      BY <1>0, <1>6, CrtTypes, Zenon DEF CrtAck, IdleCrt, CrtAt, TypeOK
    <2>2. conn'[s].tasks = conn[s].tasks
      BY <1>6, MessageTypes, Zenon DEF CrtAck, Close, NoConn, Msg, TypeOK
    <2>3. \A u \in Schedulers, r \in Places : Held(u, r)' = Held(u, r)
      BY <1>6, <2>1, <2>2, Unmoved DEF CrtAck, Close, Places, TypeOK
    <2> QED
      BY <2>3, Still
  <1> QED
    BY <1>1, <1>2, <1>3, <1>4, <1>5, <1>6 DEF CrtStep

(* What a core asks another scheduler for was produced elsewhere, so that  *)
(* caching it does not make the task look executed here.                   *)
MissElsewhere ==
    \A s \in Schedulers, c \in Cores :
        core[s][c].pc \in {"miss", "wait"} => core[s][c].name[1] # s

(* A step of a core after which it executes the same task, or still none.  *)
LEMMA CoreStill ==
    ASSUME TypeOK, NEW s \in Schedulers, NEW c \in Cores, NEW x,
           core' = [core EXCEPT ![s][c] = x],
           x.pc \in Executing <=> core[s][c].pc \in Executing,
           x.pc \in Executing => x.task = core[s][c].task,
           UNCHANGED <<waitQueue, crt, localQueue, wsQueue, migrating>>,
           \A u \in Schedulers : conn'[u].tasks = conn[u].tasks,
           \A u \in Schedulers : Held(u, "ran")' = Held(u, "ran"),
           OnePlace
    PROVE  OnePlace'
  <1>1. HeldAs(s) /\ HeldAs(s)'
    BY HeldIs, HeldIsPrime, Zenon
  <1>2. core'[s][c] = x
    BY DEF TypeOK
  <1>3. Held(s, c)' = Held(s, c)
    <2>1. Held(s, c) = {t \in Tasks : core[s][c].pc \in Executing
                                      /\ core[s][c].task = t}
      BY <1>1 DEF HeldAs
    <2>2. Held(s, c)' = {t \in Tasks : x.pc \in Executing /\ x.task = t}
      BY <1>1, <1>2 DEF HeldAs, Executing
    <2> QED
      BY <2>1, <2>2
  <1>4. ASSUME NEW u \in Schedulers, NEW d \in Cores, u # s \/ d # c
        PROVE  Held(u, d)' = Held(u, d)
    <2>1. core'[u][d] = core[u][d]
      BY <1>4 DEF TypeOK
    <2> QED
      BY <2>1, Unmoved, Zenon
  <1>5. \A u \in Schedulers, r \in Places : Held(u, r)' = Held(u, r)
    BY <1>3, <1>4, Unmoved DEF Places
  <1> QED
    BY <1>5, Still

(* Caching what another scheduler sent does not look like an execution. *)
LEMMA CachedElsewhere ==
    ASSUME TypeOK, MissElsewhere, NEW s \in Schedulers, NEW c \in Cores,
           ExecRecvData(s, c), NEW u \in Schedulers
    PROVE  /\ \A t \in Tasks : localData'[u][<<u, t>>] = localData[u][<<u, t>>]
           /\ Held(u, "ran")' = Held(u, "ran")
  <1> DEFINE d == core[s][c].name
  <1>1. d \in DataName /\ d[1] # s
    <2>1. core[s][c] \in CoreState
      BY DEF TypeOK
    <2> QED
      BY <2>1, CoreTypes, Zenon DEF ExecRecvData, MissElsewhere
  <1>2. ASSUME NEW t \in Tasks PROVE localData'[u][<<u, t>>] = localData[u][<<u, t>>]
    <2>1. CASE u = s
      <3>1. <<s, t>> # d /\ <<s, t>> \in DataName
        BY <1>1 DEF DataName
      <3> QED
        BY <1>1, <2>1, <3>1, Zenon DEF ExecRecvData, Insert, TypeOK
    <2>2. CASE u # s
      BY <2>2, Zenon DEF ExecRecvData, Insert, TypeOK
    <2> QED
      BY <2>1, <2>2
  <1>3. HeldAs(u) /\ HeldAs(u)'
    BY HeldIs, HeldIsPrime
  <1> QED
    BY <1>2, <1>3, Zenon DEF HeldAs

(* The result of an execution is that of one more task that ran here. *)
LEMMA ResultHere ==
    ASSUME TypeOK, NEW s \in Schedulers, NEW c \in Cores, ExecRun(s, c)
    PROVE  /\ core[s][c].task \in Tasks
           /\ Held(s, "ran")' = Held(s, "ran") \union {core[s][c].task}
           /\ \A u \in Schedulers : u # s => Held(u, "ran")' = Held(u, "ran")
  <1> DEFINE t == core[s][c].task
  <1>1. t \in Tasks
    <2>1. core[s][c] \in CoreState
      BY DEF TypeOK
    <2> QED
      BY <2>1, CoreTypes DEF ExecRun
  <1>2. ASSUME NEW u \in Schedulers, NEW k \in Tasks
        PROVE  localData'[u][<<u, k>>] # "absent"
                 <=> localData[u][<<u, k>>] # "absent" \/ (u = s /\ k = t)
    <2>1. <<s, t>> \in DataName /\ <<u, k>> \in DataName
      BY <1>1 DEF DataName
    <2>2. <<u, k>> = <<s, t>> <=> u = s /\ k = t
      BY Zenon
    <2>3. localData'[s][<<s, t>>] # "absent"
      BY <2>1, Zenon DEF ExecRun, Insert, TypeOK
    <2>4. CASE u # s
      BY <2>4, Zenon DEF ExecRun, Insert, TypeOK
    <2>5. CASE u = s /\ k # t
      BY <2>1, <2>2, <2>5, Zenon DEF ExecRun, Insert, TypeOK
    <2> QED
      BY <2>3, <2>4, <2>5
  <1>3. Held(s, "ran")' = Held(s, "ran") \union {t}
    <2>1. HeldAs(s) /\ HeldAs(s)'
      BY HeldIs, HeldIsPrime
    <2>2. /\ Held(s, "ran") = {k \in Tasks : localData[s][<<s, k>>] # "absent"}
          /\ Held(s, "ran")' = {k \in Tasks : localData'[s][<<s, k>>] # "absent"}
      BY <2>1 DEF HeldAs
    <2> QED
      BY <1>1, <1>2, <2>2, Zenon
  <1>4. ASSUME NEW u \in Schedulers, u # s PROVE Held(u, "ran")' = Held(u, "ran")
    <2>1. HeldAs(u) /\ HeldAs(u)'
      BY HeldIs, HeldIsPrime
    <2> QED
      BY <1>2, <1>4, <2>1, Zenon DEF HeldAs
  <1> QED
    BY <1>1, <1>3, <1>4

(* Steps of a core: a queue pop, and the execution. *)
LEMMA PlaceExec ==
    ASSUME TypeOK, OneConversation, OnePlace, MissElsewhere,
           NEW s \in Schedulers, NEW c \in Cores, ExecStep(s, c)
    PROVE  OnePlace'
  <1> USE DEF store, queues, net, counts
  <1> DEFINE x == core[s][c]
  <1>0. HeldAs(s) /\ HeldAs(s)' /\ x \in CoreState
    BY HeldIs, HeldIsPrime, Zenon DEF TypeOK
  <1>1. ASSUME UNCHANGED localData, NEW u \in Schedulers
        PROVE  Held(u, "ran")' = Held(u, "ran")
    BY <1>1, Unmoved, Zenon
  <1>2. CASE ExecLook(s, c)
    <2>1. PICK pc \in {"local", "ws"} :
             core' = [core EXCEPT ![s][c] = CoreAt(pc, None, {}, None)]
      BY <1>2 DEF ExecLook
    <2>2. CoreAt(pc, None, {}, None).pc \notin Executing /\ x.pc \notin Executing
      BY <1>2 DEF ExecLook, CoreAt, Executing
    <2> QED
      BY <1>1, <1>2, <2>1, <2>2, CoreStill, Zenon DEF ExecLook
  <1>3. CASE ExecLookup(s, c)
    <2> DEFINE y == CoreAt("fetch", x.task, {d \in zht[x.task].notes : Size(d) > 0},
                           None)
    <2>1. y.pc \in Executing /\ y.task = x.task /\ x.pc \in Executing
      BY <1>3 DEF ExecLookup, CoreAt, Executing
    <2>2. core' = [core EXCEPT ![s][c] = y]
      BY <1>3 DEF ExecLookup
    <2> HIDE DEF y
    <2> QED
      BY <1>1, <1>3, <2>1, <2>2, CoreStill DEF ExecLookup
  <1>4. ASSUME NEW d \in DataName, ExecReadHere(s, c, d) PROVE OnePlace'
    <2> DEFINE y == CoreAt("fetch", x.task, x.todo \ {d}, None)
    <2>1. y.pc \in Executing /\ y.task = x.task /\ x.pc \in Executing
      BY <1>4 DEF ExecReadHere, CoreAt, Executing
    <2>2. core' = [core EXCEPT ![s][c] = y]
      BY <1>4 DEF ExecReadHere
    <2>3. UNCHANGED <<waitQueue, crt, localQueue, wsQueue, migrating, conn, localData>>
      BY <1>4 DEF ExecReadHere
    <2> HIDE DEF y
    <2> QED
      BY <1>1, <2>1, <2>2, <2>3, CoreStill, Zenon
  <1>5. ASSUME NEW d \in DataName, ExecMiss(s, c, d) PROVE OnePlace'
    <2> DEFINE y == CoreAt("miss", x.task, x.todo, d)
    <2>1. y.pc \in Executing /\ y.task = x.task /\ x.pc \in Executing
      BY <1>5 DEF ExecMiss, CoreAt, Executing
    <2>2. core' = [core EXCEPT ![s][c] = y]
      BY <1>5 DEF ExecMiss
    <2>3. UNCHANGED <<waitQueue, crt, localQueue, wsQueue, migrating, conn, localData>>
      BY <1>5 DEF ExecMiss
    <2> HIDE DEF y
    <2> QED
      BY <1>1, <2>1, <2>2, <2>3, CoreStill, Zenon
  <1>6. CASE ExecRequire(s, c)
    <2> DEFINE y == CoreAt("wait", x.task, x.todo, x.name)
    <2>1. y.pc \in Executing /\ y.task = x.task /\ x.pc \in Executing
      BY <1>6, Zenon DEF ExecRequire, CoreAt, Executing
    <2>2. core' = [core EXCEPT ![s][c] = y]
      BY <1>6, Zenon DEF ExecRequire
    <2>3. \A u \in Schedulers : conn'[u].tasks = conn[u].tasks
      BY <1>6, NothingSent, Zenon DEF ExecRequire, Open, Msg, TypeOK
    <2> HIDE DEF y
    <2> QED
      BY <1>1, <1>6, <2>1, <2>2, <2>3, CoreStill, Zenon DEF ExecRequire
  <1>7. CASE ExecRecvData(s, c)
    <2> DEFINE y == CoreAt("fetch", x.task, x.todo \ {x.name}, None)
    <2>1. y.pc \in Executing /\ y.task = x.task /\ x.pc \in Executing
      BY <1>7, Zenon DEF ExecRecvData, CoreAt, Executing
    <2>2. core' = [core EXCEPT ![s][c] = y]
      BY <1>7, Zenon DEF ExecRecvData
    <2>3. \A u \in Schedulers : conn'[u].tasks = conn[u].tasks
      BY <1>7, MessageTypes, Zenon DEF ExecRecvData, Close, NoConn, Msg, TypeOK
    <2>5. ASSUME NEW u \in Schedulers PROVE Held(u, "ran")' = Held(u, "ran")
      BY <1>7, CachedElsewhere
    <2>6. UNCHANGED <<waitQueue, crt, localQueue, wsQueue, migrating>>
      BY <1>7, Zenon DEF ExecRecvData
    <2> HIDE DEF y
    <2> QED
      BY <2>1, <2>2, <2>3, <2>5, <2>6, CoreStill, Zenon
  <1>8. CASE ExecComplete(s, c)
    <2> DEFINE y == CoreAt("completed", x.task, {}, None)
    <2>1. y.pc \notin Executing /\ x.pc \notin Executing
      BY <1>8 DEF ExecComplete, CoreAt, Executing
    <2>2. core' = [core EXCEPT ![s][c] = y]
      BY <1>8 DEF ExecComplete
    <2> HIDE DEF y
    <2> QED
      BY <1>1, <1>8, <2>1, <2>2, CoreStill, Zenon DEF ExecComplete
  <1>9. CASE ExecCount(s, c)
    <2>1. IdleCore.pc \notin Executing /\ x.pc \notin Executing
      BY <1>9 DEF ExecCount, IdleCore, CoreAt, Executing
    <2> QED
      BY <1>1, <1>9, <2>1, CoreStill, Zenon DEF ExecCount
  <1>10. CASE ExecTakeLocal(s, c)
    <2>1. CASE localQueue[s] = {} /\ UNCHANGED localQueue
                 /\ core' = [core EXCEPT ![s][c] = IdleCore]
      <3>1. IdleCore.pc \notin Executing /\ x.pc \notin Executing
        BY <1>10 DEF ExecTakeLocal, IdleCore, CoreAt, Executing
      <3> QED
        BY <1>1, <1>10, <2>1, <3>1, CoreStill, Zenon DEF ExecTakeLocal
    <2>2. ASSUME NEW t \in localQueue[s],
                 localQueue' = [localQueue EXCEPT ![s] = @ \ {t}],
                 core' = [core EXCEPT ![s][c] = Took(t)]
          PROVE  OnePlace'
      <3>1. {t} \subseteq Held(s, "local") /\ Held(s, "local")' = Held(s, "local") \ {t}
        BY <1>0, <2>2, Zenon DEF HeldAs, TypeOK
      <3>2. Held(s, c)' = Held(s, c) \union {t}
        <4>1. core'[s][c] = Took(t)
          BY <2>2, Zenon DEF TypeOK
        <4>2. Took(t).pc \in Executing /\ Took(t).task = t
          BY Zenon DEF Took, CoreAt, Executing
        <4>3. Held(s, c)' = {t}
          <5>1. Held(s, c)' = {v \in Tasks : /\ core'[s][c].pc \in Executing
                                             /\ core'[s][c].task = v}
            BY <1>0 DEF HeldAs, Executing
          <5>2. t \in Tasks
            BY <2>2 DEF TypeOK
          <5> QED
            BY <4>1, <4>2, <5>1, <5>2, Zenon
        <4>4. x.pc \notin Executing
          BY <1>10, Zenon DEF ExecTakeLocal, Executing
        <4>5. Held(s, c) = {}
          BY <1>0, <4>4, Zenon DEF HeldAs
        <4> QED
          BY <4>3, <4>5
      <3>3. UNCHANGED <<waitQueue, crt, wsQueue, migrating, conn, localData>>
        BY <1>10, Zenon DEF ExecTakeLocal
      <3>4. \A u \in Schedulers, r \in Places :
               ~(u = s /\ r = "local") /\ ~(u = s /\ r = c) => Held(u, r)' = Held(u, r)
        <4>1. \A u \in Schedulers, d \in Cores :
                 u # s \/ d # c => core'[u][d] = core[u][d]
          BY <2>2, Zenon DEF TypeOK
        <4> QED
          BY <2>2, <3>3, <4>1, Unmoved, Zenon DEF Places, TypeOK
      <3>5. Moves({t}, s, "local", s, c)
        BY <3>1, <3>2, <3>4, Zenon DEF Moves
      <3> QED
        BY <3>5, Move, PlaceNames
    <2> QED
      BY <1>10, <2>1, <2>2 DEF ExecTakeLocal, Tops
  <1>11. CASE ExecTakeWs(s, c)
    <2>1. CASE wsQueue[s] = {} /\ UNCHANGED wsQueue
                 /\ core' = [core EXCEPT ![s][c] = IdleCore]
      <3>1. IdleCore.pc \notin Executing /\ x.pc \notin Executing
        BY <1>11 DEF ExecTakeWs, IdleCore, CoreAt, Executing
      <3> QED
        BY <1>1, <1>11, <2>1, <3>1, CoreStill, Zenon DEF ExecTakeWs
    <2>2. ASSUME NEW t \in wsQueue[s],
                 wsQueue' = [wsQueue EXCEPT ![s] = @ \ {t}],
                 core' = [core EXCEPT ![s][c] = Took(t)]
          PROVE  OnePlace'
      <3>1. {t} \subseteq Held(s, "ws") /\ Held(s, "ws")' = Held(s, "ws") \ {t}
        BY <1>0, <2>2, Zenon DEF HeldAs, TypeOK
      <3>2. Held(s, c)' = Held(s, c) \union {t}
        <4>1. core'[s][c] = Took(t)
          BY <2>2, Zenon DEF TypeOK
        <4>2. Took(t).pc \in Executing /\ Took(t).task = t
          BY Zenon DEF Took, CoreAt, Executing
        <4>3. Held(s, c)' = {t}
          <5>1. Held(s, c)' = {v \in Tasks : /\ core'[s][c].pc \in Executing
                                             /\ core'[s][c].task = v}
            BY <1>0 DEF HeldAs, Executing
          <5>2. t \in Tasks
            BY <2>2 DEF TypeOK
          <5> QED
            BY <4>1, <4>2, <5>1, <5>2, Zenon
        <4>4. x.pc \notin Executing
          BY <1>11, Zenon DEF ExecTakeWs, Executing
        <4>5. Held(s, c) = {}
          BY <1>0, <4>4 DEF HeldAs
        <4> QED
          BY <4>3, <4>5
      <3>3. UNCHANGED <<waitQueue, crt, localQueue, migrating, conn, localData>>
        BY <1>11, Zenon DEF ExecTakeWs
      <3>4. \A u \in Schedulers, r \in Places :
               ~(u = s /\ r = "ws") /\ ~(u = s /\ r = c) => Held(u, r)' = Held(u, r)
        <4>1. \A u \in Schedulers, d \in Cores :
                 u # s \/ d # c => core'[u][d] = core[u][d]
          BY <2>2 DEF TypeOK
        <4> QED
          BY <2>2, <3>3, <4>1, Unmoved, Zenon DEF Places, TypeOK
      <3>5. Moves({t}, s, "ws", s, c)
        BY <3>1, <3>2, <3>4 DEF Moves
      <3> QED
        BY <3>5, Move, PlaceNames
    <2> QED
      BY <1>11, <2>1, <2>2, Zenon DEF ExecTakeWs, Tops
  <1>12. CASE ExecRun(s, c)
    <2> DEFINE t == x.task
    <2>1. t \in Tasks /\ x.pc \in Executing
      BY <1>0, <1>12, CoreTypes DEF ExecRun, Executing
    <2>2. {t} \subseteq Held(s, c) /\ Held(s, c)' = Held(s, c) \ {t}
      <3>1. core'[s][c].pc \notin Executing
        BY <1>12, Zenon DEF ExecRun, CoreAt, Executing, TypeOK
      <3>2. Held(s, c)' = {}
        BY <1>0, <3>1 DEF HeldAs, Executing
      <3>3. Held(s, c) = {t}
        <4>1. Held(s, c) = {k \in Tasks : core[s][c].pc \in Executing /\ core[s][c].task = k}
          BY <1>0 DEF HeldAs
        <4> QED
          BY <2>1, <4>1, Zenon
      <3> QED
        BY <3>2, <3>3, Zenon
    <2>4. Held(s, "ran")' = Held(s, "ran") \union {t}
      BY <1>12, ResultHere
    <2>5. ASSUME NEW u \in Schedulers, u # s PROVE Held(u, "ran")' = Held(u, "ran")
      BY <1>12, <2>5, ResultHere
    <2>6. UNCHANGED <<waitQueue, crt, localQueue, wsQueue, migrating, conn>>
      BY <1>12, Zenon DEF ExecRun
    <2>7. \A u \in Schedulers, r \in Places :
             ~(u = s /\ r = c) /\ ~(u = s /\ r = "ran") => Held(u, r)' = Held(u, r)
      <3>1. \A u \in Schedulers, d \in Cores :
               u # s \/ d # c => core'[u][d] = core[u][d]
        BY <1>12, Zenon DEF ExecRun, TypeOK
      <3> QED
        BY <2>5, <2>6, <3>1, Unmoved, Zenon DEF Places
    <2>8. Moves({t}, s, c, s, "ran")
      BY <2>2, <2>4, <2>7 DEF Moves
    <2> QED
      BY <2>8, Move, PlaceNames
  <1> QED
    BY <1>2, <1>3, <1>4, <1>5, <1>6, <1>7, <1>8, <1>9, <1>10, <1>11, <1>12
       DEF ExecStep

(* A step that changes no queue, and on each connection keeps the tasks.   *)
LEMMA OthersStill ==
    ASSUME OnePlace,
           UNCHANGED <<waitQueue, crt, localQueue, wsQueue, migrating, localData, core>>,
           \A u \in Schedulers : conn'[u].tasks = conn[u].tasks
    PROVE  OnePlace'
  <1>1. \A u \in Schedulers, r \in Places : Held(u, r)' = Held(u, r)
    BY Unmoved DEF Places
  <1> QED
    BY <1>1, Still

(* Steps of the checking-complete and recording threads move no task. *)
LEMMA PlaceCctRs ==
    ASSUME OnePlace, NEW s \in Schedulers, CctStep(s) \/ RsStep(s)
    PROVE  OnePlace'
  <1>1. UNCHANGED <<waitQueue, crt, localQueue, wsQueue, migrating, localData, core,
                    conn>>
    BY Zenon DEF CctStep, CctPop, CctLookup, CctSwap, RsStep, RsStop, RsLookup, RsSwap,
           queues, net
  <1> QED
    BY <1>1, OthersStill, Zenon

(* Steps of the queue monitor: local queue, its vector, wsQueue. *)
LEMMA PlaceMon ==
    ASSUME TypeOK, OnePlace, NEW s \in Schedulers, MonStep(s)
    PROVE  OnePlace'
  <1> USE DEF store, queues, net, counts
  <1>0. HeldAs(s) /\ HeldAs(s)'
    BY HeldIs, HeldIsPrime
  <1>1. ASSUME MonSplit(s) PROVE OnePlace'
    <2>1. PICK remain \in SUBSET localQueue[s] :
             /\ localQueue' = [localQueue EXCEPT ![s] = remain]
             /\ migrating' = [migrating EXCEPT ![s] = localQueue[s] \ remain]
      BY <1>1, Zenon DEF MonSplit, Tops
    <2> DEFINE M == localQueue[s] \ remain
    <2>2. M \subseteq Held(s, "local") /\ Held(s, "local")' = Held(s, "local") \ M
      <3>1. Held(s, "local") = localQueue[s] /\ Held(s, "local")' = localQueue'[s]
        BY <1>0 DEF HeldAs
      <3>2. localQueue'[s] = remain
        BY <2>1 DEF TypeOK
      <3> QED
        BY <2>1, <3>1, <3>2
    <2>3. Held(s, "mon")' = Held(s, "mon") \union M
      <3>1. Held(s, "mon") = migrating[s] /\ Held(s, "mon")' = migrating'[s]
        BY <1>0 DEF HeldAs
      <3>2. migrating[s] = {}
        BY <1>1 DEF MonSplit
      <3>3. migrating'[s] = M
        BY <2>1, Zenon DEF TypeOK
      <3> QED
        BY <3>1, <3>2, <3>3, Zenon
    <2>4. \A u \in Schedulers, r \in Places :
             ~(u = s /\ r = "local") /\ ~(u = s /\ r = "mon")
               => Held(u, r)' = Held(u, r)
      BY <1>1, <2>1, Unmoved, Zenon DEF MonSplit, Places, TypeOK
    <2> HIDE DEF M
    <2>5. Moves(M, s, "local", s, "mon")
      BY <2>2, <2>3, <2>4 DEF Moves
    <2> QED
      BY <2>5, Move, PlaceNames
  <1>2. ASSUME MonPush(s) PROVE OnePlace'
    <2> DEFINE M == migrating[s]
    <2>2. M \subseteq Held(s, "mon") /\ Held(s, "mon")' = Held(s, "mon") \ M
      BY <1>0, <1>2, Zenon DEF HeldAs, MonPush, TypeOK
    <2>3. Held(s, "ws")' = Held(s, "ws") \union M
      BY <1>0, <1>2, Zenon DEF HeldAs, MonPush, TypeOK
    <2>4. \A u \in Schedulers, r \in Places :
             ~(u = s /\ r = "mon") /\ ~(u = s /\ r = "ws")
               => Held(u, r)' = Held(u, r)
      BY <1>2, Unmoved DEF MonPush, Places, TypeOK
    <2> HIDE DEF M
    <2>5. Moves(M, s, "mon", s, "ws")
      BY <2>2, <2>3, <2>4 DEF Moves
    <2> QED
      BY <2>5, Move, PlaceNames, Zenon
  <1> QED
    BY <1>1, <1>2 DEF MonStep

(* Steps of the work stealing thread: packages go to its wsQueue. *)
LEMMA PlaceWs ==
    ASSUME TypeOK, OneConversation, OnePlace, NEW s \in Schedulers, WsStep(s)
    PROVE  OnePlace'
  <1> USE DEF store, queues, net, counts
  <1>0. HeldAs(s) /\ HeldAs(s)' /\ conn[s] \in Message
    BY HeldIs, HeldIsPrime DEF TypeOK
  <1>1. CASE WsChoose(s) \/ WsNoLoad(s) \/ WsReset(s) \/ WsExit(s)
    <2>1. UNCHANGED <<waitQueue, crt, localQueue, wsQueue, migrating, localData, core,
                      conn>>
      BY <1>1, Zenon DEF WsChoose, WsNoLoad, WsReset, WsExit
    <2> QED
      BY <2>1, OthersStill, Zenon
  <1>2. ASSUME NEW n \in Schedulers, WsQuery(s, n) PROVE OnePlace'
    <2>1. \A u \in Schedulers : conn'[u].tasks = conn[u].tasks
      BY <1>2, NothingSent, Zenon DEF WsQuery, Open, Msg, TypeOK
    <2> QED
      BY <1>2, <2>1, OthersStill, Zenon DEF WsQuery
  <1>3. CASE WsSteal(s)
    <2>1. \A u \in Schedulers : conn'[u].tasks = conn[u].tasks
      BY <1>3, NothingSent, Zenon DEF WsSteal, Open, Msg, TypeOK
    <2> QED
      BY <1>3, <2>1, OthersStill, Zenon DEF WsSteal
  <1>4. CASE WsRecvLoad(s) \/ WsRecvNothing(s)
    <2>1. conn[s].tasks = {} /\ Close(s)
      BY <1>0, <1>4, MessageTypes, Zenon DEF WsRecvLoad, WsRecvNothing
    <2>2. \A u \in Schedulers : conn'[u].tasks = conn[u].tasks
      BY <2>1, Zenon DEF Close, NoConn, Msg, TypeOK
    <2>3. UNCHANGED <<waitQueue, crt, localQueue, wsQueue, migrating, localData, core>>
      BY <1>4, Zenon DEF WsRecvLoad, WsRecvNothing
    <2> QED
      BY <2>2, <2>3, OthersStill, Zenon
  <1>5. CASE WsRecvPackage(s)
    <2>1. PICK B \in SUBSET conn[s].tasks :
             /\ wsQueue' = [wsQueue EXCEPT ![s] = @ \union B]
             /\ \/ conn[s].tasks \ B = {} /\ Close(s)
                \/ Answer(s, Msg("send tasks", conn[s].peer, conn[s].tasks \ B,
                                 None, "absent", 0))
      BY <1>5, Zenon DEF WsRecvPackage
    <2>2. conn'[s].tasks = conn[s].tasks \ B
      <3>1. CASE conn[s].tasks \ B = {} /\ Close(s)
        BY <3>1, Zenon DEF Close, NoConn, Msg, TypeOK
      <3>2. CASE Answer(s, Msg("send tasks", conn[s].peer, conn[s].tasks \ B,
                               None, "absent", 0))
        BY <3>2, Zenon DEF Answer, Msg, TypeOK
      <3> QED
        BY <2>1, <3>1, <3>2, Zenon
    <2>3. \A u \in Schedulers : u # s => conn'[u] = conn[u]
      BY <2>1, Zenon DEF Close, Answer, TypeOK
    <2>4. B \subseteq Held(s, "conn") /\ Held(s, "conn")' = Held(s, "conn") \ B
      BY <1>0, <2>1, <2>2, Zenon DEF HeldAs
    <2>5. Held(s, "ws")' = Held(s, "ws") \union B
      BY <1>0, <2>1, Zenon DEF HeldAs, TypeOK
    <2>6. UNCHANGED <<waitQueue, crt, localQueue, migrating, localData, core>>
      BY <1>5, Zenon DEF WsRecvPackage
    <2>7. \A u \in Schedulers, r \in Places :
             ~(u = s /\ r = "conn") /\ ~(u = s /\ r = "ws") => Held(u, r)' = Held(u, r)
      <3>1. \A u \in Schedulers : u # s => wsQueue'[u] = wsQueue[u]
        BY <2>1, Zenon DEF TypeOK
      <3> QED
        BY <2>3, <2>6, <3>1, Unmoved, Zenon DEF Places
    <2>8. Moves(B, s, "conn", s, "ws")
      BY <2>4, <2>5, <2>7 DEF Moves
    <2> QED
      BY <2>8, Move, PlaceNames, Zenon
  <1> QED
    BY <1>1, <1>2, <1>3, <1>4, <1>5 DEF WsStep

(* Answers: a theft leaves the wsQueue, a push enters the local queue. *)
LEMMA PlaceProc ==
    ASSUME TypeOK, OnePlace, NEW n \in Schedulers, ProcStep(n)
    PROVE  OnePlace'
  <1> USE DEF store, queues, net, counts
  <1>1. PICK s \in Schedulers : \/ ProcQueryLoad(n, s)
                                \/ ProcStealTask(n, s)
                                \/ ProcPushTask(n, s)
                                \/ ProcRequireData(n, s)
    BY DEF ProcStep
  <1>0. /\ HeldAs(s) /\ HeldAs(s)' /\ HeldAs(n) /\ HeldAs(n)' /\ conn[s] \in Message
    BY HeldIs, HeldIsPrime DEF TypeOK
  <1>2. ASSUME NEW type, NEW T, NEW d, NEW x, NEW l, Answer(s, Msg(type, n, T, d, x, l))
        PROVE  /\ conn'[s].tasks = T
               /\ \A u \in Schedulers : u # s => conn'[u] = conn[u]
    BY <1>2 DEF Answer, Msg, TypeOK
  <1>3. CASE ProcQueryLoad(n, s)
    <2>1. conn'[s].tasks = {} /\ \A u \in Schedulers : u # s => conn'[u] = conn[u]
      BY <1>2, <1>3, Zenon DEF ProcQueryLoad
    <2>2. conn[s].tasks = {}
      <3>1. conn[s].type = "query load"
        BY <1>3, Zenon DEF ProcQueryLoad, Asked
      <3> QED
        BY <1>0, <3>1, MessageTypes, Zenon
    <2>3. UNCHANGED <<waitQueue, crt, localQueue, wsQueue, migrating, localData, core>>
      BY <1>3, Zenon DEF ProcQueryLoad
    <2> QED
      BY <2>1, <2>2, <2>3, OthersStill, Zenon
  <1>4. CASE ProcRequireData(n, s)
    <2>1. conn'[s].tasks = {} /\ \A u \in Schedulers : u # s => conn'[u] = conn[u]
      BY <1>2, <1>4, Zenon DEF ProcRequireData
    <2>2. conn[s].tasks = {}
      BY <1>0, <1>4, MessageTypes, Zenon DEF ProcRequireData, Asked
    <2>3. UNCHANGED <<waitQueue, crt, localQueue, wsQueue, migrating, localData, core>>
      BY <1>4, Zenon DEF ProcRequireData
    <2> QED
      BY <2>1, <2>2, <2>3, OthersStill
  <1>5. CASE ProcStealTask(n, s)
    <2>1. PICK M \in SUBSET wsQueue[n] :
             /\ wsQueue' = [wsQueue EXCEPT ![n] = @ \ M]
             /\ Answer(s, Msg("send tasks", n, M, None, "absent", 0))
      BY <1>5, Zenon DEF ProcStealTask, Tops
    <2>2. conn'[s].tasks = M /\ \A u \in Schedulers : u # s => conn'[u] = conn[u]
      BY <1>2, <2>1, Zenon
    <2>3. conn[s].tasks = {}
      <3>1. conn[s].type = "steal task"
        BY <1>5, Zenon DEF ProcStealTask, Asked
      <3> QED
        BY <1>0, <3>1, MessageTypes, Zenon
    <2>4. M \subseteq Held(n, "ws") /\ Held(n, "ws")' = Held(n, "ws") \ M
      BY <1>0, <2>1, Zenon DEF HeldAs, TypeOK
    <2>5. Held(s, "conn")' = Held(s, "conn") \union M
      <3>1. Held(s, "conn") = conn[s].tasks /\ Held(s, "conn")' = conn'[s].tasks
        BY HeldIs, HeldIsPrime DEF HeldAs
      <3> QED
        BY <2>2, <2>3, <3>1, Zenon
    <2>6. UNCHANGED <<waitQueue, crt, localQueue, migrating, localData, core>>
      BY <1>5, Zenon DEF ProcStealTask
    <2>7. \A u \in Schedulers, r \in Places :
             ~(u = n /\ r = "ws") /\ ~(u = s /\ r = "conn") => Held(u, r)' = Held(u, r)
      <3>1. \A u \in Schedulers : u # n => wsQueue'[u] = wsQueue[u]
        BY <2>1, Zenon DEF TypeOK
      <3> QED
        BY <2>2, <2>6, <3>1, Unmoved, Zenon DEF Places
    <2>8. Moves(M, n, "ws", s, "conn")
      BY <2>4, <2>5, <2>7 DEF Moves
    <2> QED
      BY <2>8, Move, PlaceNames, Zenon
  <1>6. CASE ProcPushTask(n, s)
    <2> DEFINE M == conn[s].tasks
    <2>1. Answer(s, Msg("ack", n, {}, None, "absent", 0))
      BY <1>6, Zenon DEF ProcPushTask
    <2>2. conn'[s].tasks = {} /\ \A u \in Schedulers : u # s => conn'[u] = conn[u]
      BY <1>2, <2>1, Zenon
    <2>3. localQueue' = [localQueue EXCEPT ![n] = @ \union M]
      BY <1>6, Zenon DEF ProcPushTask
    <2>4. M \subseteq Held(s, "conn") /\ Held(s, "conn")' = Held(s, "conn") \ M
      BY <1>0, <2>2, Zenon DEF HeldAs
    <2>5. Held(n, "local")' = Held(n, "local") \union M
      BY <1>0, <2>3, Zenon DEF HeldAs, TypeOK
    <2>6. UNCHANGED <<waitQueue, crt, wsQueue, migrating, localData, core>>
      BY <1>6, Zenon DEF ProcPushTask
    <2>7. \A u \in Schedulers, r \in Places :
             ~(u = s /\ r = "conn") /\ ~(u = n /\ r = "local")
               => Held(u, r)' = Held(u, r)
      <3>1. \A u \in Schedulers : u # n => localQueue'[u] = localQueue[u]
        BY <2>3, Zenon DEF TypeOK
      <3> QED
        BY <2>2, <2>6, <3>1, Unmoved, Zenon DEF Places
    <2> HIDE DEF M
    <2>8. Moves(M, s, "conn", n, "local")
      BY <2>4, <2>5, <2>7 DEF Moves
    <2> QED
      BY <2>8, Move, PlaceNames
  <1> QED
    BY <1>1, <1>3, <1>4, <1>5, <1>6

(* Only a core's own steps change what it keeps. *)
LEMMA MissElsewhereNext ==
    TypeOK /\ MissElsewhere /\ [Next]_vars => MissElsewhere'
  <1> SUFFICES ASSUME TypeOK, MissElsewhere, [Next]_vars PROVE MissElsewhere'
    OBVIOUS
  <1>1. ASSUME UNCHANGED core PROVE MissElsewhere'
    BY <1>1 DEF MissElsewhere
  <1>2. ASSUME NEW s \in Schedulers, NEW c \in Cores, NEW y,
               core' = [core EXCEPT ![s][c] = y],
               y.pc \in {"miss", "wait"} => y.name[1] # s
        PROVE  MissElsewhere'
    <2>1. core'[s][c] = y
      BY <1>2, Zenon DEF TypeOK
    <2>2. \A u \in Schedulers, d \in Cores :
             u # s \/ d # c => core'[u][d] = core[u][d]
      BY <1>2, Zenon DEF TypeOK
    <2> QED
      BY <1>2, <2>1, <2>2 DEF MissElsewhere
  <1>3. ASSUME NEW s \in Schedulers, NEW c \in Cores, ExecStep(s, c)
        PROVE  MissElsewhere'
    <2> DEFINE x == core[s][c]
    <2>1. \A pc \in {"idle", "local", "ws", "lookup", "fetch", "ran", "completed"} :
          \A t, T, d : CoreAt(pc, t, T, d).pc \notin {"miss", "wait"}
      BY Zenon DEF CoreAt
    <2>2. CASE ExecLook(s, c) \/ ExecTakeLocal(s, c) \/ ExecTakeWs(s, c)
      BY <1>2, <2>1, <2>2, Zenon DEF ExecLook, ExecTakeLocal, ExecTakeWs, Took, IdleCore
    <2>3. CASE \/ ExecLookup(s, c)
               \/ \E d \in DataName : ExecReadHere(s, c, d)
               \/ ExecRecvData(s, c) \/ ExecRun(s, c)
               \/ ExecComplete(s, c) \/ ExecCount(s, c)
      BY <1>2, <2>1, <2>3, Zenon DEF ExecLookup, ExecReadHere, ExecRecvData, ExecRun,
                              ExecComplete, ExecCount, IdleCore
    <2>4. ASSUME NEW d \in DataName, ExecMiss(s, c, d) PROVE MissElsewhere'
      <3>1. CoreAt("miss", x.task, x.todo, d).name = d
        BY DEF CoreAt
      <3> QED
        BY <1>2, <2>4, <3>1, Zenon DEF ExecMiss
    <2>5. CASE ExecRequire(s, c)
      <3>1. CoreAt("wait", x.task, x.todo, x.name).name = x.name /\ x.name[1] # s
        BY <2>5, Zenon DEF CoreAt, ExecRequire, MissElsewhere
      <3> QED
        BY <1>2, <2>5, <3>1, Zenon DEF ExecRequire
    <2> QED
      BY <1>3, <2>2, <2>3, <2>4, <2>5, Zenon DEF ExecStep
  <1>4. ASSUME NEW s \in Schedulers,
               \/ CrtStep(s) \/ CctStep(s) \/ WsStep(s) \/ MonStep(s) \/ RsStep(s)
               \/ ProcStep(s)
        PROVE  UNCHANGED core
    <2>1. CASE CrtStep(s)
      BY <2>1, Zenon DEF CrtStep, CrtLookup, CrtToWsQueue, CrtToLocalQueue,
                         CrtChoosePush, CrtPush, CrtAck
    <2>2. CASE CctStep(s) \/ MonStep(s) \/ RsStep(s)
      BY <2>2, Zenon DEF CctStep, CctPop, CctLookup, CctSwap, MonStep, MonSplit,
                         MonPush, RsStep, RsStop, RsLookup, RsSwap
    <2>3. CASE WsStep(s)
      BY <2>3, Zenon DEF WsStep, WsChoose, WsQuery, WsRecvLoad, WsSteal, WsNoLoad,
                         WsRecvNothing, WsRecvPackage, WsReset, WsExit
    <2>4. CASE ProcStep(s)
      BY <2>4, Zenon DEF ProcStep, ProcQueryLoad, ProcStealTask, ProcPushTask,
                         ProcRequireData
    <2> QED
      BY <1>4, <2>1, <2>2, <2>3, <2>4
  <1>5. CASE UNCHANGED vars
    BY <1>1, <1>5 DEF vars
  <1> QED
    BY <1>1, <1>3, <1>4, <1>5 DEF Next, Terminated

(* No core misses anything at first. *)
LEMMA MissInit == Init => MissElsewhere
  <1>1. IdleCore.pc \notin {"miss", "wait"}
    BY DEF IdleCore, CoreAt
  <1>2. Init => \A s \in Schedulers, c \in Cores : core[s][c] = IdleCore
    <2>1. Init => core = [s \in Schedulers |-> [c \in Cores |-> IdleCore]]
      BY Zenon DEF Init
    <2> QED
      BY <2>1
  <1> QED
    BY <1>1, <1>2 DEF MissElsewhere

(* After the submission every task is in one wait queue. *)
LEMMA PlaceInit == Init => OnePlace
  <1> SUFFICES ASSUME Init, NEW t \in Tasks
               PROVE  LET where == {pl \in Schedulers \X Places :
                                       t \in Held(pl[1], pl[2])}
                      IN  \E pl \in where : where = {pl}
    BY DEF OnePlace
  <1>1. PICK at \in Submission :
           waitQueue = [s \in Schedulers |-> {k \in Tasks : at[k] = s}]
    BY DEF Init
  <1>2. at[t] \in Schedulers
    BY TasksAssumption
  <1>3. ASSUME NEW s \in Schedulers, NEW r \in Places, t \in Held(s, r)
        PROVE  s = at[t] /\ r = "wait"
    <2>1. HeldAs(s)
      BY HeldIs, Zenon
    <2>2. crt[s].task = None /\ conn[s].tasks = {}
      BY Zenon DEF Init, IdleCrt, CrtAt, NoConn, Msg
    <2>3. \A c \in Cores : core[s][c].pc \notin Executing
      BY Zenon DEF Init, IdleCore, CoreAt, Executing
    <2>4. localData[s][<<s, t>>] = "absent"
      BY Zenon DEF Init, DataName
    <2>5. r = "wait"
      BY <1>3, <2>1, <2>2, <2>3, <2>4, TasksAssumption, Zenon DEF HeldAs, Init, Places
    <2> QED
      BY <1>1, <1>3, <2>1, <2>5 DEF HeldAs
  <1>4. t \in Held(at[t], "wait")
    BY <1>1, <1>2, HeldIs DEF HeldAs
  <1>5. <<at[t], "wait">> \in Schedulers \X Places
    BY <1>2, PlaceNames
  <1>6. {pl \in Schedulers \X Places : t \in Held(pl[1], pl[2])} = {<<at[t], "wait">>}
    BY <1>3, <1>4, <1>5
  <1> QED
    BY <1>6, Zenon

(* Every step leaves every task in one place. *)
LEMMA PlaceNext ==
    TypeOK /\ OneConversation /\ MissElsewhere /\ OnePlace /\ [Next]_vars => OnePlace'
  <1> SUFFICES ASSUME TypeOK, OneConversation, MissElsewhere, OnePlace, [Next]_vars
               PROVE  OnePlace'
    OBVIOUS
  <1>1. CASE UNCHANGED vars
    BY <1>1, OthersStill DEF vars, queues, net
  <1>2. ASSUME NEW s \in Schedulers, CrtStep(s) PROVE OnePlace'
    BY <1>2, PlaceCrt
  <1>3. ASSUME NEW s \in Schedulers, NEW c \in Cores, ExecStep(s, c) PROVE OnePlace'
    BY <1>3, PlaceExec
  <1>4. ASSUME NEW s \in Schedulers, CctStep(s) \/ RsStep(s) PROVE OnePlace'
    BY <1>4, PlaceCctRs
  <1>5. ASSUME NEW s \in Schedulers, WsStep(s) PROVE OnePlace'
    BY <1>5, PlaceWs
  <1>6. ASSUME NEW s \in Schedulers, MonStep(s) PROVE OnePlace'
    BY <1>6, PlaceMon
  <1>7. ASSUME NEW s \in Schedulers, ProcStep(s) PROVE OnePlace'
    BY <1>7, PlaceProc
  <1> QED
    BY <1>1, <1>2, <1>3, <1>4, <1>5, <1>6, <1>7 DEF Next, Terminated

(* No interleaving of the schedulers' threads loses or duplicates a task:  *)
(* from the wait queues over the readiness checks, pushes, migrations and  *)
(* thefts to its execution every task is in exactly one place, so that no  *)
(* two cores execute the same task.                                        *)
THEOREM PlaceCorrect == Spec => []OnePlace
  <1>1. Spec => []MissElsewhere
    BY MissInit, MissElsewhereNext, TypeCorrect, PTL DEF Spec
  <1> QED
    BY <1>1, PlaceInit, PlaceNext, TypeCorrect, ConversationCorrect, PTL DEF Spec

-----------------------------------------------------------------------------
(* The results. *)

(* The result d is where it was produced. *)
Kept(d) == localData[d[1]][d] = "result"

(* What a core of scheduler s, and a message, rely on. *)
CoreKept(s, x) ==
    /\ \A d \in x.todo : Kept(d)
    /\ x.pc \in {"miss", "wait"} => Kept(x.name)
    /\ x.pc \in {"ran", "completed"} => Kept(<<s, x.task>>)

ConnKept(m) ==
    /\ m.type = "require data" => m.peer = m.name[1] /\ Kept(m.name)
    /\ m.type = "send data" => m.content = "result"

NoError == \A s \in Schedulers, d \in DataName : localData[s][d] # "error"

(* Everything that names a result names one that is kept: metadata, the    *)
(* cores, the messages, and the tasks on their way to notify_children.     *)
DataKept ==
    /\ NoError
    /\ \A t \in Tasks : \A d \in zht[t].notes : Kept(d)
    /\ \A s \in Schedulers, c \in Cores : CoreKept(s, core[s][c])
    /\ \A s \in Schedulers : ConnKept(conn[s])
    /\ \A s \in Schedulers : \A t \in completeQueue[s] : Kept(<<s, t>>)
    /\ \A s \in Schedulers : cct[s].pc # "idle" => Kept(<<s, cct[s].task>>)

(* A step that loses no result and caches no error text. *)
Keeps ==
    /\ NoError'
    /\ \A d \in DataName : Kept(d) => Kept(d)'

(* A step that leaves the stores alone keeps all data. *)
LEMMA Unchanged == DataKept /\ UNCHANGED localData => Keeps
  BY DEF DataKept, Keeps, NoError, Kept

(* map::insert of a result keeps everything and leaves the result there. *)
LEMMA Inserted ==
    ASSUME TypeOK, NoError, NEW s \in Schedulers, NEW d \in DataName,
           Insert(s, d, "result")
    PROVE  Keeps /\ localData'[s][d] = "result"
  <1> DEFINE v == IF localData[s][d] = "absent" THEN "result" ELSE localData[s][d]
  <1>1. v = "result"
    BY DEF TypeOK, Content, NoError
  <1>2. localData' = [localData EXCEPT ![s][d] = v]
    BY DEF Insert
  <1> HIDE DEF v
  <1>3. localData'[s][d] = "result"
    BY <1>1, <1>2 DEF TypeOK
  <1>4. ASSUME NEW u \in Schedulers, NEW e \in DataName, u # s \/ e # d
        PROVE  localData'[u][e] = localData[u][e]
    BY <1>2, <1>4 DEF TypeOK
  <1>5. NoError'
    BY <1>3, <1>4 DEF NoError
  <1>6. ASSUME NEW e \in DataName, Kept(e) PROVE Kept(e)'
    <2>1. e[1] \in Schedulers
      BY DEF DataName
    <2> QED
      BY <1>3, <1>4, <1>6, <2>1 DEF Kept
  <1> QED
    BY <1>3, <1>5, <1>6 DEF Keeps

(* What names no new result is still in order after such a step. *)
LEMMA StillKept ==
    ASSUME TypeOK, DataKept, Keeps
    PROVE  /\ NoError'
           /\ UNCHANGED zht => (\A t \in Tasks : \A d \in zht[t].notes : Kept(d))'
           /\ \A s \in Schedulers, c \in Cores :
                 core'[s][c] = core[s][c] => CoreKept(s, core[s][c])'
           /\ \A s \in Schedulers : conn'[s] = conn[s] => ConnKept(conn[s])'
           /\ UNCHANGED completeQueue
                => (\A s \in Schedulers : \A t \in completeQueue[s] : Kept(<<s, t>>))'
           /\ UNCHANGED cct
                => (\A s \in Schedulers : cct[s].pc # "idle" => Kept(<<s, cct[s].task>>))'
  <1>1. UNCHANGED zht => (\A t \in Tasks : \A d \in zht[t].notes : Kept(d))'
    BY Zenon DEF DataKept, Keeps, TypeOK, Metadata
  <1>2. ASSUME NEW s \in Schedulers, NEW c \in Cores, core'[s][c] = core[s][c]
        PROVE  CoreKept(s, core[s][c])'
    <2> DEFINE x == core[s][c]
    <2>1. x \in CoreState /\ CoreKept(s, x)
      BY DEF TypeOK, DataKept
    <2>2. \A d \in x.todo : d \in DataName
      BY <2>1, CoreTypes
    <2>3. x.pc \in {"miss", "wait"} => x.name \in DataName
      BY <2>1, CoreTypes
    <2>4. x.pc \in {"ran", "completed"} => <<s, x.task>> \in DataName
      BY <2>1, CoreTypes DEF DataName
    <2> HIDE DEF x
    <2>5. /\ \A d \in x.todo : Kept(d)'
          /\ x.pc \in {"miss", "wait"} => Kept(x.name) /\ x.name \in DataName
          /\ x.pc \in {"ran", "completed"} =>
                Kept(<<s, x.task>>) /\ <<s, x.task>> \in DataName
      BY <2>1, <2>2, <2>3, <2>4 DEF CoreKept, Keeps
    <2> QED
      BY <1>2, <2>5 DEF CoreKept, Keeps, Kept, x
  <1>3. ASSUME NEW s \in Schedulers, conn'[s] = conn[s] PROVE ConnKept(conn[s])'
    <2>1. conn[s].type = "require data" => conn[s].name \in DataName
      BY MessageTypes, Zenon DEF TypeOK
    <2>2. ConnKept(conn[s])
      BY DEF DataKept
    <2> QED
      BY <1>3, <2>1, <2>2, Zenon DEF ConnKept, Keeps, Kept
  <1>4. UNCHANGED completeQueue
          => (\A s \in Schedulers : \A t \in completeQueue[s] : Kept(<<s, t>>))'
    BY Zenon DEF DataKept, Keeps, TypeOK, DataName
  <1>5. UNCHANGED cct
          => (\A s \in Schedulers : cct[s].pc # "idle" => Kept(<<s, cct[s].task>>))'
    BY CctTypes DEF DataKept, Keeps, TypeOK, DataName
  <1> QED
    BY <1>1, <1>2, <1>3, <1>4, <1>5 DEF Keeps

(* A step after which at most one connection carries another message. *)
LEMMA DataConn ==
    ASSUME TypeOK, DataKept, UNCHANGED <<zht, localData, core, completeQueue, cct>>,
           NEW s \in Schedulers, NEW m, conn' = [conn EXCEPT ![s] = m],
           m.type = "require data" => m.peer = m.name[1] /\ Kept(m.name),
           m.type = "send data" => m.content = "result"
    PROVE  DataKept'
  <1>1. Keeps
    BY Unchanged, Zenon
  <1>2. conn'[s] = m /\ \A u \in Schedulers : u # s => conn'[u] = conn[u]
    BY Zenon DEF TypeOK
  <1>3. ConnKept(conn[s])'
    BY <1>2, Zenon DEF ConnKept, Kept
  <1> QED
    BY <1>1, <1>2, <1>3, StillKept, Zenon DEF DataKept

(* A step that changes nothing of this. *)
LEMMA DataStill ==
    ASSUME TypeOK, DataKept,
           UNCHANGED <<zht, localData, core, completeQueue, cct, conn>>
    PROVE  DataKept'
  BY Unchanged, StillKept DEF DataKept

(* A message that is not about data. *)
LEMMA OtherMessage ==
    ASSUME NEW type \in {"query load", "send load", "steal task", "send tasks",
                         "push task", "ack"},
           NEW n, NEW T, NEW d, NEW x, NEW l
    PROVE  Msg(type, n, T, d, x, l).type \notin {"require data", "send data"}
  BY Zenon DEF Msg

(* A free connection carries no message about data. *)
LEMMA NoMessage == NoConn.type \notin {"require data", "send data"}
  BY DEF NoConn, Msg

(* A thread that opens or closes a connection that is not about data. *)
LEMMA DataOpen ==
    ASSUME TypeOK, DataKept, UNCHANGED <<zht, localData, core, completeQueue, cct>>,
           NEW s \in Schedulers,
           \/ Close(s)
           \/ \E type \in {"query load", "send load", "steal task", "send tasks",
                           "push task", "ack"} :
              \E n, T, d, x, l : \/ Open(s, Msg(type, n, T, d, x, l))
                                \/ Answer(s, Msg(type, n, T, d, x, l))
    PROVE  DataKept'
  <1>1. CASE Close(s)
    BY <1>1, NoMessage, DataConn, Zenon DEF Close
  <1>2. ASSUME NEW type \in {"query load", "send load", "steal task", "send tasks",
                            "push task", "ack"},
               NEW n, NEW T, NEW d, NEW x, NEW l,
               \/ Open(s, Msg(type, n, T, d, x, l))
               \/ Answer(s, Msg(type, n, T, d, x, l))
        PROVE  DataKept'
    <2> DEFINE m == Msg(type, n, T, d, x, l)
    <2>1. m.type \notin {"require data", "send data"}
      BY OtherMessage, Zenon
    <2>2. conn' = [conn EXCEPT ![s] = m]
      BY <1>2, Zenon DEF Open, Answer
    <2> HIDE DEF m
    <2> QED
      BY <2>1, <2>2, DataConn, Zenon
  <1> QED
    BY <1>1, <1>2, Zenon

(* Steps of the checking-ready thread. *)
LEMMA DataCrt ==
    ASSUME TypeOK, DataKept, NEW s \in Schedulers, CrtStep(s)
    PROVE  DataKept'
  <1>1. UNCHANGED <<zht, localData, core, completeQueue, cct>>
    BY Zenon DEF CrtStep, CrtLookup, CrtToWsQueue, CrtToLocalQueue, CrtChoosePush,
                 CrtPush, CrtAck, store, queues
  <1>2. CASE UNCHANGED conn
    BY <1>1, <1>2, DataStill
  <1>3. CASE CrtPush(s)
    <2>1. Open(s, Msg("push task", crt[s].to, {crt[s].task}, None, "absent", 0))
      BY <1>3, Zenon DEF CrtPush
    <2> QED
      BY <1>1, <2>1, DataOpen, Zenon
  <1>4. CASE CrtAck(s)
    BY <1>1, <1>4, DataOpen, Zenon DEF CrtAck
  <1> QED
    BY <1>2, <1>3, <1>4, Zenon DEF CrtStep, CrtLookup, CrtToWsQueue, CrtToLocalQueue,
                                  CrtChoosePush, net

(* Steps of the work stealing thread. *)
LEMMA DataWs ==
    ASSUME TypeOK, DataKept, NEW s \in Schedulers, WsStep(s)
    PROVE  DataKept'
  <1>1. UNCHANGED <<zht, localData, core, completeQueue, cct>>
    BY Zenon DEF WsStep, WsChoose, WsQuery, WsRecvLoad, WsSteal, WsNoLoad,
                 WsRecvNothing, WsRecvPackage, WsReset, WsExit, store, queues
  <1>2. \/ UNCHANGED conn
        \/ Close(s)
        \/ \E n : Open(s, Msg("query load", n, {}, None, "absent", 0))
        \/ \E n : Open(s, Msg("steal task", n, {}, None, "absent", 0))
        \/ \E n, T : Answer(s, Msg("send tasks", n, T, None, "absent", 0))
    BY Zenon DEF WsStep, WsChoose, WsQuery, WsRecvLoad, WsSteal, WsNoLoad,
                 WsRecvNothing, WsRecvPackage, WsReset, WsExit, net
  <1>3. CASE UNCHANGED conn
    BY <1>1, <1>3, DataStill
  <1>4. CASE Close(s)
    BY <1>1, <1>4, DataOpen, Zenon
  <1>5. ASSUME NEW n, Open(s, Msg("query load", n, {}, None, "absent", 0))
        PROVE  DataKept'
    BY <1>1, <1>5, DataOpen, Zenon
  <1>6. ASSUME NEW n, Open(s, Msg("steal task", n, {}, None, "absent", 0))
        PROVE  DataKept'
    BY <1>1, <1>6, DataOpen, Zenon
  <1>7. ASSUME NEW n, NEW T, Answer(s, Msg("send tasks", n, T, None, "absent", 0))
        PROVE  DataKept'
    BY <1>1, <1>7, DataOpen, Zenon
  <1> QED
    BY <1>2, <1>3, <1>4, <1>5, <1>6, <1>7, Zenon

(* Steps of the monitor and of the recording thread. *)
LEMMA DataMonRs ==
    ASSUME TypeOK, DataKept, NEW s \in Schedulers, MonStep(s) \/ RsStep(s)
    PROVE  DataKept'
  <1>1. UNCHANGED <<zht, localData, core, completeQueue, cct, conn>>
    BY Zenon DEF MonStep, MonSplit, MonPush, RsStep, RsStop, RsLookup, RsSwap, store,
                 queues, net
  <1> QED
    BY <1>1, DataStill

(* Answers: data that is asked for is there. *)
LEMMA DataProc ==
    ASSUME TypeOK, DataKept, NEW n \in Schedulers, ProcStep(n)
    PROVE  DataKept'
  <1>1. UNCHANGED <<zht, localData, core, completeQueue, cct>>
    BY Zenon DEF ProcStep, ProcQueryLoad, ProcStealTask, ProcPushTask,
                 ProcRequireData, store, queues
  <1>2. PICK s \in Schedulers :
           \/ \E l : Answer(s, Msg("send load", n, {}, None, "absent", l))
           \/ \E M : Answer(s, Msg("send tasks", n, M, None, "absent", 0))
           \/ Answer(s, Msg("ack", n, {}, None, "absent", 0))
           \/ ProcRequireData(n, s)
    BY Zenon DEF ProcStep, ProcQueryLoad, ProcStealTask, ProcPushTask
  <1>3. ASSUME NEW l, Answer(s, Msg("send load", n, {}, None, "absent", l))
        PROVE  DataKept'
    BY <1>1, <1>3, DataOpen, Zenon
  <1>4. ASSUME NEW M, Answer(s, Msg("send tasks", n, M, None, "absent", 0))
        PROVE  DataKept'
    BY <1>1, <1>4, DataOpen, Zenon
  <1>5. ASSUME Answer(s, Msg("ack", n, {}, None, "absent", 0))
        PROVE  DataKept'
    BY <1>1, <1>5, DataOpen, Zenon
  <1>6. CASE ProcRequireData(n, s)
    <2> DEFINE d == conn[s].name
               found == localData[n][d]
               answer == IF found = "absent" THEN "error" ELSE found
               m == Msg("send data", n, {}, d, answer, 0)
    <2>1. conn[s].type = "require data" /\ conn[s].peer = n
      BY <1>6, Zenon DEF ProcRequireData, Asked
    <2>2. d[1] = n /\ Kept(d)
      BY <2>1, Zenon DEF DataKept, ConnKept
    <2>3. answer = "result"
      BY <2>2 DEF Kept
    <2>4. conn' = [conn EXCEPT ![s] = m]
      BY <1>6, Zenon DEF ProcRequireData, Answer
    <2>5. m.type = "send data" /\ m.content = answer
      BY DEF Msg
    <2> HIDE DEF m, answer
    <2> QED
      BY <1>1, <2>3, <2>4, <2>5, DataConn, Zenon
  <1> QED
    BY <1>2, <1>3, <1>4, <1>5, <1>6, Zenon

(* A step of a core that changes what it keeps to y, and may insert a      *)
(* result into localData.                                                  *)
LEMMA DataCore ==
    ASSUME TypeOK, DataKept, Keeps, UNCHANGED <<zht, cct>>,
           NEW s \in Schedulers, NEW c \in Cores, NEW y,
           core' = [core EXCEPT ![s][c] = y], CoreKept(s, y)',
           (\A u \in Schedulers : ConnKept(conn[u]))',
           (\A u \in Schedulers : \A t \in completeQueue[u] : Kept(<<u, t>>))'
    PROVE  DataKept'
  <1>1. core'[s][c] = y /\ \A u \in Schedulers, e \in Cores :
                               u # s \/ e # c => core'[u][e] = core[u][e]
    BY DEF TypeOK
  <1>2. (\A u \in Schedulers, e \in Cores : CoreKept(u, core[u][e]))'
    <2> SUFFICES ASSUME NEW u \in Schedulers, NEW e \in Cores
                 PROVE  CoreKept(u, core[u][e])'
      OBVIOUS
    <2>1. CASE u = s /\ e = c
      BY <1>1, <2>1 DEF CoreKept, Kept
    <2>2. CASE u # s \/ e # c
      BY <1>1, <2>2, StillKept
    <2> QED
      BY <2>1, <2>2
  <1> QED
    BY <1>2, StillKept, Zenon DEF DataKept

(* What CoreKept asks after a step of the states that the steps build. *)
LEMMA CoreKeptAt ==
    ASSUME NEW s, NEW t, NEW D, NEW d
    PROVE  /\ \A pc \in {"idle", "local", "ws", "lookup", "fetch"} :
                 (\A e \in D : Kept(e)') => CoreKept(s, CoreAt(pc, t, D, d))'
           /\ \A pc \in {"miss", "wait"} :
                 (\A e \in D : Kept(e)') /\ Kept(d)' => CoreKept(s, CoreAt(pc, t, D, d))'
           /\ \A pc \in {"ran", "completed"} :
                 Kept(<<s, t>>)' => CoreKept(s, CoreAt(pc, t, {}, d))'
  BY DEF CoreKept, CoreAt, Kept

(* Steps of a core: a result is kept before it is announced. *)
LEMMA DataExec ==
    ASSUME TypeOK, DataKept, NEW s \in Schedulers, NEW c \in Cores, ExecStep(s, c)
    PROVE  DataKept'
  <1> USE DEF store, queues, net, counts
  <1>0. PICK x \in CoreState : x = core[s][c]
    BY Zenon DEF TypeOK
  <1>1. CoreKept(s, x)
    BY <1>0 DEF DataKept
  <1>2. UNCHANGED <<zht, cct>>
    BY Zenon DEF ExecStep, ExecLook, ExecTakeLocal, ExecTakeWs, ExecLookup,
                 ExecReadHere, ExecMiss, ExecRequire, ExecRecvData, ExecRun,
                 ExecComplete, ExecCount
  <1>3. ASSUME Keeps
        PROVE  \A d \in x.todo : Kept(d)'
    BY <1>1, <1>3, CoreTypes, Zenon DEF CoreKept, Keeps
  <1>4. ASSUME UNCHANGED <<localData, conn, completeQueue>>,
               NEW pc \in {"idle", "local", "ws", "lookup", "fetch"}, NEW t, NEW D,
               core' = [core EXCEPT ![s][c] = CoreAt(pc, t, D, None)],
               \A d \in D : Kept(d) /\ d \in DataName
        PROVE  DataKept'
    <2>1. Keeps
      BY <1>4, Unchanged
    <2>2. \A d \in D : Kept(d)'
      BY <1>4, <2>1 DEF Keeps
    <2>3. CoreKept(s, CoreAt(pc, t, D, None))'
      BY <2>2, CoreKeptAt, Zenon
    <2> DEFINE y == CoreAt(pc, t, D, None)
    <2>4. CoreKept(s, y)' /\ core' = [core EXCEPT ![s][c] = y]
      BY <1>4, <2>3
    <2> HIDE DEF y
    <2> QED
      BY <1>2, <1>4, <2>1, <2>4, DataCore, StillKept, Zenon
  <1>5. CASE ExecLook(s, c) \/ ExecTakeLocal(s, c) \/ ExecTakeWs(s, c)
    <2>0. PICK pc \in {"idle", "local", "ws", "lookup"} :
             \E t : core' = [core EXCEPT ![s][c] = CoreAt(pc, t, {}, None)]
      BY <1>5 DEF ExecLook, ExecTakeLocal, ExecTakeWs, Took, IdleCore
    <2>1. PICK t : core' = [core EXCEPT ![s][c] = CoreAt(pc, t, {}, None)]
      BY <2>0, Zenon
    <2>2. UNCHANGED <<localData, conn, completeQueue>>
      BY <1>5 DEF ExecLook, ExecTakeLocal, ExecTakeWs
    <2>3. PICK D : D = {}
      BY Zenon
    <2>4. /\ core' = [core EXCEPT ![s][c] = CoreAt(pc, t, D, None)]
          /\ \A d \in D : Kept(d) /\ d \in DataName
      BY <2>1, <2>3
    <2> QED
      BY <1>4, <2>2, <2>4, Zenon
  <1>6. CASE ExecLookup(s, c)
    <2>1. PICK D : D = {d \in zht[x.task].notes : Size(d) > 0}
      BY Zenon
    <2>2. x.task \in Tasks
      BY <1>0, <1>6, CoreTypes DEF ExecLookup
    <2>3. \A d \in D : Kept(d) /\ d \in DataName
      <3>1. zht[x.task].notes \in SUBSET DataName
        BY <2>2 DEF TypeOK, Metadata
      <3>2. D \subseteq zht[x.task].notes
        BY <2>1
      <3> QED
        BY <2>2, <3>1, <3>2 DEF DataKept
    <2>4. core' = [core EXCEPT ![s][c] = CoreAt("fetch", x.task, D, None)]
      BY <1>0, <1>6, <2>1 DEF ExecLookup
    <2>5. UNCHANGED <<localData, conn, completeQueue>>
      BY <1>6 DEF ExecLookup
    <2> QED
      BY <1>4, <2>3, <2>4, <2>5, Zenon
  <1>7. ASSUME NEW d \in DataName, ExecReadHere(s, c, d) PROVE DataKept'
    <2>1. core' = [core EXCEPT ![s][c] = CoreAt("fetch", x.task, x.todo \ {d}, None)]
      BY <1>0, <1>7 DEF ExecReadHere
    <2>2. UNCHANGED <<localData, conn, completeQueue>>
      BY <1>7 DEF ExecReadHere
    <2>3. \A e \in x.todo \ {d} : Kept(e) /\ e \in DataName
      BY <1>1, CoreTypes DEF CoreKept
    <2> QED
      BY <1>4, <2>1, <2>2, <2>3, Zenon
  <1>8. ASSUME NEW d \in DataName, ExecMiss(s, c, d) PROVE DataKept'
    <2>1. core' = [core EXCEPT ![s][c] = CoreAt("miss", x.task, x.todo, d)]
      BY <1>0, <1>8 DEF ExecMiss
    <2>2. UNCHANGED <<localData, conn, completeQueue>>
      BY <1>8 DEF ExecMiss
    <2>3. Keeps
      BY <2>2, Unchanged
    <2>4. Kept(d)
      BY <1>0, <1>1, <1>8, Zenon DEF ExecMiss, CoreKept
    <2>5. CoreKept(s, CoreAt("miss", x.task, x.todo, d))'
      BY <1>3, <2>3, <2>4, CoreKeptAt, Zenon DEF Keeps
    <2> DEFINE y == CoreAt("miss", x.task, x.todo, d)
    <2>6. CoreKept(s, y)' /\ core' = [core EXCEPT ![s][c] = y]
      BY <2>1, <2>5
    <2> HIDE DEF y
    <2> QED
      BY <1>2, <2>2, <2>3, <2>6, DataCore, StillKept, Zenon
  <1>9. CASE ExecRequire(s, c)
    <2> DEFINE m == Msg("require data", x.name[1], {}, x.name, "absent", 0)
               y == CoreAt("wait", x.task, x.todo, x.name)
    <2>1. /\ core' = [core EXCEPT ![s][c] = y]
          /\ conn' = [conn EXCEPT ![s] = m]
      BY <1>0, <1>9, Zenon DEF ExecRequire, Open
    <2>2. UNCHANGED <<localData, completeQueue>>
      BY <1>9, Zenon DEF ExecRequire
    <2>3. Keeps
      BY <2>2, Unchanged
    <2>4. x.pc = "miss"
      BY <1>0, <1>9, Zenon DEF ExecRequire
    <2>5. x.name \in DataName /\ Kept(x.name)
      BY <1>1, <2>4, CoreTypes, Zenon DEF CoreKept
    <2>6. CoreKept(s, y)'
      BY <1>3, <2>3, <2>5, CoreKeptAt, Zenon DEF Keeps
    <2>7. m.type = "require data" /\ m.peer = x.name[1] /\ m.name = x.name
      BY DEF Msg
    <2> HIDE DEF m, y
    <2>8. conn'[s] = m /\ \A u \in Schedulers : u # s => conn'[u] = conn[u]
      BY <2>1 DEF TypeOK
    <2>9. (\A u \in Schedulers : ConnKept(conn[u]))'
      <3> SUFFICES ASSUME NEW u \in Schedulers PROVE ConnKept(conn[u])'
        BY Zenon
      <3>1. CASE u = s
        <4>1. Kept(x.name)'
          BY <2>3, <2>5 DEF Keeps
        <4> QED
          BY <2>7, <2>8, <3>1, <4>1, Zenon DEF ConnKept, Kept
      <3>2. CASE u # s
        BY <2>3, <2>8, <3>2, StillKept, Zenon
      <3> QED
        BY <3>1, <3>2
    <2> QED
      BY <1>2, <2>1, <2>2, <2>3, <2>6, <2>9, DataCore, StillKept, Zenon
  <1>10. CASE ExecRecvData(s, c)
    <2> DEFINE y == CoreAt("fetch", x.task, x.todo \ {x.name}, None)
    <2>1. /\ core' = [core EXCEPT ![s][c] = y]
          /\ conn' = [conn EXCEPT ![s] = NoConn]
          /\ Insert(s, x.name, conn[s].content)
      BY <1>0, <1>10, Zenon DEF ExecRecvData, Close
    <2>2. x.pc = "wait" /\ conn[s].type = "send data" /\ UNCHANGED completeQueue
      BY <1>0, <1>10, Zenon DEF ExecRecvData
    <2>3. conn[s].content = "result"
      BY <2>2, Zenon DEF DataKept, ConnKept
    <2>4. x.name \in DataName
      BY <2>2, CoreTypes, Zenon
    <2>5. Keeps
      BY <2>1, <2>3, <2>4, Inserted, Zenon DEF DataKept
    <2>6. CoreKept(s, y)'
      BY <1>3, <2>5, CoreKeptAt, Zenon
    <2> HIDE DEF y
    <2>7. conn'[s] = NoConn /\ \A u \in Schedulers : u # s => conn'[u] = conn[u]
      BY <2>1 DEF TypeOK
    <2>8. (\A u \in Schedulers : ConnKept(conn[u]))'
      <3> SUFFICES ASSUME NEW u \in Schedulers PROVE ConnKept(conn[u])'
        OBVIOUS
      <3>1. CASE u = s
        BY <2>7, <3>1, NoMessage, Zenon DEF ConnKept
      <3>2. CASE u # s
        BY <2>5, <2>7, <3>2, StillKept, Zenon
      <3> QED
        BY <3>1, <3>2
    <2> QED
      BY <1>2, <2>1, <2>2, <2>5, <2>6, <2>8, DataCore, StillKept, Zenon
  <1>11. CASE ExecRun(s, c)
    <2> DEFINE y == CoreAt("ran", x.task, {}, None)
    <2>1. /\ core' = [core EXCEPT ![s][c] = y]
          /\ Insert(s, <<s, x.task>>, "result")
          /\ x.pc = "fetch" /\ UNCHANGED <<conn, completeQueue>>
      BY <1>0, <1>11, Zenon DEF ExecRun
    <2>2. <<s, x.task>> \in DataName
      BY <2>1, CoreTypes DEF DataName
    <2>3. Keeps /\ localData'[s][<<s, x.task>>] = "result"
      BY <2>1, <2>2, Inserted DEF DataKept
    <2>4. CoreKept(s, y)'
      <3>1. Kept(<<s, x.task>>)'
        BY <2>3 DEF Kept
      <3> QED
        BY <3>1, CoreKeptAt
    <2> HIDE DEF y
    <2> QED
      BY <1>2, <2>1, <2>3, <2>4, DataCore, StillKept, Zenon
  <1>12. CASE ExecComplete(s, c)
    <2> DEFINE y == CoreAt("completed", x.task, {}, None)
    <2>1. /\ core' = [core EXCEPT ![s][c] = y]
          /\ completeQueue' = [completeQueue EXCEPT ![s] = @ \union {x.task}]
          /\ x.pc = "ran" /\ UNCHANGED <<localData, conn>>
      BY <1>0, <1>12, Zenon DEF ExecComplete
    <2>2. Keeps
      BY <2>1, Unchanged
    <2>3. Kept(<<s, x.task>>)'
      BY <1>1, <2>1 DEF CoreKept, Kept
    <2>4. CoreKept(s, y)'
      BY <2>3, CoreKeptAt
    <2> HIDE DEF y
    <2>5. (\A u \in Schedulers : \A t \in completeQueue[u] : Kept(<<u, t>>))'
      <3> SUFFICES ASSUME NEW u \in Schedulers, NEW t \in completeQueue'[u]
                   PROVE  Kept(<<u, t>>)'
        BY Zenon
      <3>1. t \in completeQueue[u] \/ (u = s /\ t = x.task)
        BY <2>1 DEF TypeOK
      <3>2. ASSUME t \in completeQueue[u] PROVE Kept(<<u, t>>)'
        BY <2>1, <3>2 DEF DataKept, Kept
      <3> QED
        BY <2>3, <3>1, <3>2 DEF Kept
    <2> QED
      BY <1>2, <2>1, <2>2, <2>4, <2>5, DataCore, StillKept, Zenon
  <1>13. CASE ExecCount(s, c)
    <2>1. /\ core' = [core EXCEPT ![s][c] = CoreAt("idle", None, {}, None)]
          /\ UNCHANGED <<localData, conn, completeQueue>>
      BY <1>13, Zenon DEF ExecCount, IdleCore
    <2>2. PICK D : D = {}
      BY Zenon
    <2>3. PICK t : t = None
      OBVIOUS
    <2>4. /\ core' = [core EXCEPT ![s][c] = CoreAt("idle", t, D, None)]
          /\ \A d \in D : Kept(d) /\ d \in DataName
      BY <2>1, <2>2, <2>3
    <2> QED
      BY <1>4, <2>1, <2>4, Zenon
  <1> QED
    BY <1>5, <1>6, <1>7, <1>8, <1>9, <1>10, <1>11, <1>12, <1>13 DEF ExecStep

(* Steps of the checking-complete thread: it notes a result that is kept.  *)
LEMMA DataCct ==
    ASSUME TypeOK, DataKept, NEW s \in Schedulers, CctStep(s)
    PROVE  DataKept'
  <1> USE DEF store, queues, net, counts
  <1>1. UNCHANGED <<localData, core, conn>>
    BY Zenon DEF CctStep, CctPop, CctLookup, CctSwap
  <1>2. Keeps
    BY <1>1, Unchanged
  <1>3. \A u \in Schedulers, e \in Cores : core'[u][e] = core[u][e]
    BY <1>1
  <1>4. /\ NoError'
        /\ (\A u \in Schedulers, e \in Cores : CoreKept(u, core[u][e]))'
        /\ (\A u \in Schedulers : ConnKept(conn[u]))'
    BY <1>1, <1>2, <1>3, StillKept
  <1>5. \A d : Kept(d)' <=> Kept(d)
    BY <1>1 DEF Kept
  <1>6. ASSUME NEW y, cct' = [cct EXCEPT ![s] = y],
               y.pc # "idle" => Kept(<<s, y.task>>)
        PROVE  (\A u \in Schedulers : cct[u].pc # "idle" => Kept(<<u, cct[u].task>>))'
    <2> SUFFICES ASSUME NEW u \in Schedulers, cct'[u].pc # "idle"
                 PROVE  Kept(<<u, cct[u].task>>)'
      OBVIOUS
    <2>1. CASE u = s
      <3>1. cct'[u] = y
        BY <1>6, <2>1, Zenon DEF TypeOK
      <3> QED
        BY <1>1, <1>6, <2>1, <3>1 DEF Kept
    <2>2. CASE u # s
      <3>1. cct'[u] = cct[u]
        BY <1>6, <2>2, Zenon DEF TypeOK
      <3>2. Kept(<<u, cct[u].task>>)
        BY <3>1 DEF DataKept
      <3> QED
        BY <1>1, <3>1, <3>2 DEF Kept
    <2> QED
      BY <2>1, <2>2
  <1>7. ASSUME NEW t \in Tasks, CctPop(s, t) PROVE DataKept'
    <2> DEFINE y == IF Children[t] = {} THEN IdleCct
                    ELSE CctAt("next", t, Children[t], None, NoMetadata)
    <2>1. cct' = [cct EXCEPT ![s] = y] /\ UNCHANGED zht
      BY <1>7, Zenon DEF CctPop
    <2>2. Kept(<<s, t>>)
      BY <1>7 DEF CctPop, DataKept
    <2>3. y.pc # "idle" => y.task = t
      BY DEF IdleCct, CctAt
    <2> HIDE DEF y
    <2>4. (\A u \in Schedulers : cct[u].pc # "idle" => Kept(<<u, cct[u].task>>))'
      BY <1>6, <2>1, <2>2, <2>3, Zenon
    <2>5. (\A u \in Schedulers : \A v \in completeQueue[u] : Kept(<<u, v>>))'
      <3>1. \A u \in Schedulers : completeQueue'[u] \subseteq completeQueue[u]
        BY <1>7, Zenon DEF CctPop, TypeOK
      <3> QED
        BY <1>1, <3>1, Zenon DEF DataKept, Kept
    <2> QED
      BY <1>2, <1>4, <2>1, <2>4, <2>5, StillKept DEF DataKept
  <1>8. ASSUME NEW k \in Tasks, CctLookup(s, k) PROVE DataKept'
    <2> DEFINE y == CctAt("swap", cct[s].task, cct[s].todo, k, zht[k])
    <2>1. cct' = [cct EXCEPT ![s] = y] /\ UNCHANGED <<zht, completeQueue>>
      BY <1>8, Zenon DEF CctLookup
    <2>2. Kept(<<s, cct[s].task>>)
      BY <1>8, Zenon DEF CctLookup, DataKept
    <2>3. y.task = cct[s].task
      BY DEF CctAt
    <2> HIDE DEF y
    <2> QED
      BY <1>2, <1>4, <1>6, <2>1, <2>2, <2>3, StillKept, Zenon DEF DataKept
  <1>9. CASE CctSwap(s)
    <2> DEFINE k == cct[s].child
               t == cct[s].task
    <2>1. cct[s].pc \in {"swap", "retry"} /\ UNCHANGED completeQueue
      BY <1>9, Zenon DEF CctSwap
    <2>2. k \in Tasks /\ t \in Tasks /\ Kept(<<s, t>>)
      BY <2>1, CctTypes, Zenon DEF TypeOK, DataKept
    <2>3. (\A u \in Schedulers : \A v \in completeQueue[u] : Kept(<<u, v>>))'
      BY <1>2, <2>1, StillKept, Zenon
    <2>4. CASE Matches(s)
      <3> DEFINE y == IF cct[s].todo \ {k} = {} THEN IdleCct
                      ELSE CctAt("next", t, cct[s].todo \ {k}, None, NoMetadata)
                 v == Notified(cct[s].snap, s, t)
      <3>1. cct' = [cct EXCEPT ![s] = y] /\ zht' = [zht EXCEPT ![k] = v]
        BY <1>9, <2>4, Zenon DEF CctSwap
      <3>2. y.pc # "idle" => y.task = t
        BY DEF IdleCct, CctAt
      <3>3. cct[s].snap = zht[k]
        BY <2>4, Zenon DEF Matches
      <3>4. v.notes = zht[k].notes \union {<<s, t>>}
        BY <3>3, Zenon DEF Notified
      <3> HIDE DEF y, v, k, t
      <3>5. (\A u \in Schedulers : cct[u].pc # "idle" => Kept(<<u, cct[u].task>>))'
        BY <1>6, <2>2, <3>1, <3>2, Zenon
      <3>6. (\A c \in Tasks : \A d \in zht[c].notes : Kept(d))'
        <4> SUFFICES ASSUME NEW c \in Tasks, NEW d \in zht'[c].notes
                     PROVE  Kept(d)
          BY <1>5, Zenon
        <4>1. d \in zht[c].notes \/ d = <<s, t>>
          BY <2>2, <3>1, <3>4, Zenon DEF TypeOK
        <4> QED
          BY <2>2, <4>1 DEF DataKept
      <3> QED
        BY <1>4, <2>3, <3>5, <3>6 DEF DataKept
    <2>5. CASE ~Matches(s)
      <3> DEFINE y == CctAt("retry", t, cct[s].todo, k, zht[k])
      <3>1. cct' = [cct EXCEPT ![s] = y] /\ UNCHANGED zht
        BY <1>9, <2>5, Zenon DEF CctSwap
      <3>2. y.task = t
        BY DEF CctAt
      <3> HIDE DEF y
      <3> QED
        BY <1>2, <1>4, <1>6, <2>2, <2>3, <3>1, <3>2, StillKept, Zenon DEF DataKept
    <2> QED
      BY <2>4, <2>5
  <1> QED
    BY <1>7, <1>8, <1>9 DEF CctStep

(* Every step keeps what is named. *)
LEMMA DataNext == TypeOK /\ DataKept /\ [Next]_vars => DataKept'
  <1> SUFFICES ASSUME TypeOK, DataKept, [Next]_vars PROVE DataKept'
    OBVIOUS
  <1>1. CASE UNCHANGED vars
    BY <1>1, DataStill DEF vars, store, queues, net
  <1>2. ASSUME NEW s \in Schedulers, CrtStep(s) PROVE DataKept'
    BY <1>2, DataCrt
  <1>3. ASSUME NEW s \in Schedulers, NEW c \in Cores, ExecStep(s, c) PROVE DataKept'
    BY <1>3, DataExec
  <1>4. ASSUME NEW s \in Schedulers, CctStep(s) PROVE DataKept'
    BY <1>4, DataCct
  <1>5. ASSUME NEW s \in Schedulers, WsStep(s) PROVE DataKept'
    BY <1>5, DataWs
  <1>6. ASSUME NEW s \in Schedulers, MonStep(s) \/ RsStep(s) PROVE DataKept'
    BY <1>6, DataMonRs, Zenon
  <1>7. ASSUME NEW s \in Schedulers, ProcStep(s) PROVE DataKept'
    BY <1>7, DataProc
  <1> QED
    BY <1>1, <1>2, <1>3, <1>4, <1>5, <1>6, <1>7 DEF Next, Terminated

(* At first nothing is named. *)
LEMMA DataInit == Init => DataKept
  <1> SUFFICES ASSUME Init PROVE DataKept
    OBVIOUS
  <1>1. /\ \A t \in Tasks : zht[t].notes = {}
        /\ \A s \in Schedulers : completeQueue[s] = {}
        /\ \A s \in Schedulers, d \in DataName : localData[s][d] = "absent"
    BY Zenon DEF Init
  <1>2. \A s \in Schedulers : conn[s].type = "none" /\ cct[s].pc = "idle"
    BY DEF Init, NoConn, Msg, IdleCct, CctAt
  <1>3. \A s \in Schedulers, c \in Cores : core[s][c].pc = "idle" /\ core[s][c].todo = {}
    BY DEF Init, IdleCore, CoreAt
  <1> QED
    BY <1>1, <1>2, <1>3, Zenon DEF DataKept, NoError, ConnKept, CoreKept

(* The unchecked find of exec_a_task finds the data, the handler of        *)
(* "require data" never answers with its error text, and no error text is  *)
(* cached: a result is in localData before a message or ZHT names it.      *)
THEOREM DataCorrect == Spec => []DataInPlace
  <1>1. DataKept => DataInPlace
    BY Zenon DEF DataKept, DataInPlace, CoreKept, Kept, NoError
  <1> QED
    BY <1>1, DataInit, DataNext, TypeCorrect, PTL DEF Spec
=============================================================================
