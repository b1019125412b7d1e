---------------------------- MODULE StartupProofs ----------------------------
(* For any number of schedulers, clients and tasks nobody goes on before    *)
(* all schedulers are registered, no scheduler starts before all tasks are  *)
(* queued, and no task is queued before its record is in ZHT.               *)
EXTENDS Startup, FiniteSetTheorems, TLAPS

(* Scheduler 0 exists, and the schedulers are as many as NumScheduler. *)
LEMMA SchedulersFinite ==
    /\ 0 \in Schedulers /\ Schedulers \subseteq Nat
    /\ IsFiniteSet(Schedulers) /\ Cardinality(Schedulers) = NumScheduler
  <1>1. IsFiniteSet(Schedulers)
    BY StartupAssumption, FS_Interval DEF Schedulers
  <1>2. Cardinality(Schedulers) = NumScheduler
    BY StartupAssumption, FS_Interval DEF Schedulers
  <1> QED
    BY <1>1, <1>2, StartupAssumption DEF Schedulers

(* There are finitely many tasks, and at least one. *)
LEMMA TasksFinite == IsFiniteSet(Tasks) /\ Cardinality(Tasks) \in Nat \ {0}
  <1> DEFINE N == 0 .. NumTaskPerClient - 1
  <1>1. IsFiniteSet(Clients) /\ IsFiniteSet(N)
    BY StartupAssumption, FS_Interval DEF Clients
  <1>2. IsFiniteSet(Tasks)
    BY <1>1, FS_Product, Zenon DEF Tasks
  <1>3. <<0, 0>> \in Tasks
    BY StartupAssumption DEF Tasks, Clients
  <1> QED
    BY <1>2, <1>3, FS_EmptySet, FS_CardinalityType

(* The initial state has the types. *)
LEMMA TypeInit == Init => TypeOK
  BY SchedulersFinite DEF Init, TypeOK, Counts

(* A client's tasks are tasks of the workload. *)
LEMMA OwnTasksAreTasks == \A c \in Clients : OwnTasks(c) \subseteq Tasks
  BY DEF OwnTasks, Tasks

(* A batch of submit_task holds the client's own tasks. *)
LEMMA BatchIsOwn == \A c \in Clients, s \in Schedulers : Batch(c, s) \subseteq OwnTasks(c)
  BY DEF Batch

(* Each action keeps the types. *)
LEMMA TypeScheduler ==
    ASSUME TypeOK, NEW s \in Schedulers, SchedulerStep(s) \/ Serve(s)
    PROVE  TypeOK'
  <1> USE DEF main, serving, clients
  <1>1. UNCHANGED <<info, conn, recvSeen, waitQueue, cpc, target>>
    BY Zenon DEF SchedulerStep, InsertReg, InsertRecv, LookupReg, SwapReg,
                 WaitAllScheduler, ForkEs, WaitAllTaskRecv, Serve
  <1>2. regCount' \in Counts
    <2>1. \/ UNCHANGED regCount
          \/ regCount' = 1
          \/ Swaps(regCount, seen[s]) /\ regCount' = seen[s] + 1
      BY Zenon DEF SchedulerStep, InsertReg, InsertRecv, LookupReg, SwapReg,
                   WaitAllScheduler, ForkEs, WaitAllTaskRecv, Serve
    <2>2. regCount \in Counts
      BY Zenon DEF TypeOK
    <2> QED
      BY <2>1, <2>2 DEF Swaps, Counts
  <1>3. recvCount' \in Counts
    <2>1. UNCHANGED recvCount \/ recvCount' = 0
      BY Zenon DEF SchedulerStep, InsertReg, InsertRecv, LookupReg, SwapReg,
                   WaitAllScheduler, ForkEs, WaitAllTaskRecv, Serve
    <2>2. recvCount \in Counts
      BY Zenon DEF TypeOK
    <2> QED
      BY <2>1, <2>2 DEF Counts
  <1>4. spc' \in [Schedulers -> {"regist", "insert", "swap", "wait scheduler", "open",
                                 "wait task", "started"}]
    BY Zenon DEF SchedulerStep, InsertReg, InsertRecv, LookupReg, SwapReg,
           WaitAllScheduler, ForkEs, WaitAllTaskRecv, Serve, TypeOK
  <1>5. seen' \in [Schedulers -> Counts]
    BY Zenon DEF SchedulerStep, InsertReg, InsertRecv, LookupReg, SwapReg,
           WaitAllScheduler, ForkEs, WaitAllTaskRecv, Serve, TypeOK
  <1>6. listening' \subseteq Schedulers
    BY Zenon DEF SchedulerStep, InsertReg, InsertRecv, LookupReg, SwapReg,
           WaitAllScheduler, ForkEs, WaitAllTaskRecv, Serve, TypeOK
  <1> QED
    BY <1>1, <1>2, <1>3, <1>4, <1>5, <1>6, Zenon DEF TypeOK

(* The steps of a client keep the types. *)
LEMMA TypeClient ==
    ASSUME TypeOK, NEW c \in Clients, ClientStep(c)
    PROVE  TypeOK'
  <1> USE DEF main, serving, clients
  <1>1. UNCHANGED <<regCount, recvCount, spc, seen, listening, recvSeen, waitQueue>>
    BY Zenon DEF ClientStep, ClientWait, InsertTaskInfo, SubmitTask
  <1>2. info' \subseteq Tasks
    BY OwnTasksAreTasks, Zenon DEF ClientStep, ClientWait, InsertTaskInfo, SubmitTask, TypeOK
  <1>3. conn' \in [Clients \X Schedulers ->
                     {"none", "refused", "backlog", "event", "lookup", "swap", "done"}]
    BY Zenon DEF ClientStep, ClientWait, InsertTaskInfo, SubmitTask, TypeOK
  <1>4. cpc' \in [Clients -> {"wait", "info", "submit", "submitted"}]
    <2>1. \/ UNCHANGED cpc
          \/ \E v \in {"wait", "info", "submit", "submitted"} : cpc' = [cpc EXCEPT ![c] = v]
      BY Zenon DEF ClientStep, ClientWait, InsertTaskInfo, SubmitTask, NextTarget
    <2> QED
      BY <2>1, Zenon DEF TypeOK
  <1>5. target' \in [Clients -> Schedulers]
    <2>1. target[c] \in Schedulers
      BY Zenon DEF TypeOK
    <2>2. target[c] + 1 < NumScheduler => target[c] + 1 \in Schedulers
      BY <2>1, StartupAssumption DEF Schedulers
    <2>3. \/ UNCHANGED target
          \/ \E s \in Schedulers : target' = [target EXCEPT ![c] = s]
      BY <2>2, Zenon DEF ClientStep, ClientWait, InsertTaskInfo, SubmitTask, NextTarget
    <2> QED
      BY <2>3, Zenon DEF TypeOK
  <1> QED
    BY <1>1, <1>2, <1>3, <1>4, <1>5, Zenon DEF TypeOK

(* The handlers of submitted tasks keep the types. *)
LEMMA TypeServe ==
    ASSUME TypeOK, NEW c \in Clients, NEW s \in Schedulers, ServeStep(c, s)
    PROVE  TypeOK'
  <1> USE DEF main, serving, clients
  <1>1. UNCHANGED <<regCount, info, spc, seen, listening, cpc, target>>
    BY Zenon DEF ServeStep, Accept, RecvTaskFromClient, LookupRecv, SwapRecv
  <1>2. recvCount' \in Counts
    <2>1. Cardinality(Batch(c, s)) \in Nat
      BY BatchIsOwn, OwnTasksAreTasks, TasksFinite, FS_Subset, FS_CardinalityType
    <2>2. recvCount \in Counts /\ recvSeen[s] \in Counts
      BY Zenon DEF TypeOK
    <2>3. StrToNum(recvSeen[s]) \in Nat
      BY <2>2 DEF StrToNum, Counts, Absent
    <2>4. \/ UNCHANGED recvCount
          \/ recvCount' = StrToNum(recvSeen[s]) + Cardinality(Batch(c, s))
      BY Zenon DEF ServeStep, Accept, RecvTaskFromClient, LookupRecv, SwapRecv
    <2> QED
      BY <2>1, <2>2, <2>3, <2>4 DEF Counts
  <1>3. conn' \in [Clients \X Schedulers ->
                     {"none", "refused", "backlog", "event", "lookup", "swap", "done"}]
    BY Zenon DEF ServeStep, Accept, RecvTaskFromClient, LookupRecv, SwapRecv, TypeOK
  <1>4. recvSeen' \in [Schedulers -> Counts]
    BY Zenon DEF ServeStep, Accept, RecvTaskFromClient, LookupRecv, SwapRecv, TypeOK
  <1>5. waitQueue' \in [Schedulers -> SUBSET Tasks]
    <2>1. Batch(c, s) \subseteq Tasks
      BY BatchIsOwn, OwnTasksAreTasks
    <2>2. \/ UNCHANGED waitQueue
          \/ waitQueue' = [waitQueue EXCEPT ![s] = waitQueue[s] \cup Batch(c, s)]
      BY Zenon DEF ServeStep, Accept, RecvTaskFromClient, LookupRecv, SwapRecv
    <2>3. waitQueue \in [Schedulers -> SUBSET Tasks]
      BY Zenon DEF TypeOK
    <2> QED
      BY <2>1, <2>2, <2>3
  <1> QED
    BY <1>1, <1>2, <1>3, <1>4, <1>5, Zenon DEF TypeOK

(* Every step keeps the types. *)
LEMMA TypeNext == TypeOK /\ [Next]_vars => TypeOK'
  <1> SUFFICES ASSUME TypeOK, [Next]_vars PROVE TypeOK'
    OBVIOUS
  <1>1. CASE UNCHANGED vars
    BY <1>1, Zenon DEF vars, main, serving, clients, TypeOK
  <1> QED
    BY <1>1, TypeScheduler, TypeClient, TypeServe DEF Next

(* The types hold in every reachable state. *)
LEMMA TypeHolds == Spec => []TypeOK
  BY TypeInit, TypeNext, PTL DEF Spec

-----------------------------------------------------------------------------
(* The count of the registered schedulers. *)

RegistrationExact ==
    /\ spc[0] = "regist" => regCount = Absent /\ \A s \in Schedulers : spc[s] = "regist"
    /\ spc[0] # "regist" => regCount = Cardinality(Registered)

Past == {"wait scheduler", "open", "wait task", "started"}

(* A step that leaves the registration alone. *)
LEMMA RegistrationSame ==
    ASSUME RegistrationExact, UNCHANGED regCount,
           \A s \in Schedulers : /\ spc'[s] = "regist" <=> spc[s] = "regist"
                                 /\ spc'[s] = "swap" <=> spc[s] = "swap"
    PROVE  RegistrationExact' /\ Registered' = Registered
  <1>1. Registered' = Registered
    BY DEF Registered
  <1> QED
    BY <1>1, SchedulersFinite DEF RegistrationExact

(* Only regist changes the count, and it adds one scheduler. *)
LEMMA RegistrationNext ==
    TypeOK /\ RegistrationExact /\ [Next]_vars
      => RegistrationExact' /\ Registered \subseteq Registered'
  <1> SUFFICES ASSUME TypeOK, RegistrationExact, [Next]_vars
               PROVE  RegistrationExact' /\ Registered \subseteq Registered'
    OBVIOUS
  <1> USE DEF main, serving, clients
  <1>0. 0 \in Schedulers /\ spc \in [Schedulers -> {"regist", "insert", "swap",
                                "wait scheduler", "open", "wait task", "started"}]
    BY SchedulersFinite, Zenon DEF TypeOK
  <1>1. ASSUME UNCHANGED <<regCount, spc>>
        PROVE  RegistrationExact' /\ Registered \subseteq Registered'
    BY <1>1, RegistrationSame
  <1>2. ASSUME NEW s \in Schedulers, InsertReg(s)
        PROVE  RegistrationExact' /\ Registered \subseteq Registered'
    <2>1. s = 0 /\ spc[0] = "regist" /\ regCount' = 1
      BY <1>2, Zenon DEF InsertReg
    <2>2. spc' = [spc EXCEPT ![0] = "insert"]
      BY <1>2, <2>1, Zenon DEF InsertReg
    <2>3. \A u \in Schedulers : spc[u] = "regist"
      BY <2>1 DEF RegistrationExact
    <2>4. Registered = {} /\ Registered' = {0}
      BY <1>0, <2>2, <2>3, Zenon DEF Registered
    <2>5. spc'[0] # "regist"
      BY <1>0, <2>2, Zenon
    <2>6. Cardinality({0}) = 1
      BY FS_Singleton, Zenon
    <2> QED
      BY <2>1, <2>4, <2>5, <2>6, Zenon DEF RegistrationExact
  <1>3. ASSUME NEW s \in Schedulers, LookupReg(s)
        PROVE  RegistrationExact' /\ Registered \subseteq Registered'
    <2>1. s # 0 /\ spc[s] = "regist" /\ regCount # Absent /\ UNCHANGED regCount
      BY <1>3, Zenon DEF LookupReg
    <2>2. spc' = [spc EXCEPT ![s] = "swap"]
      BY <1>3, Zenon DEF LookupReg
    <2>3. Registered' = Registered
      BY <1>0, <2>1, <2>2, Zenon DEF Registered
    <2>4. spc[0] # "regist" /\ spc'[0] # "regist"
      BY <1>0, <2>1, <2>2, Zenon DEF RegistrationExact
    <2> QED
      BY <2>1, <2>3, <2>4, Zenon DEF RegistrationExact
  <1>4. ASSUME NEW s \in Schedulers, SwapReg(s)
        PROVE  RegistrationExact' /\ Registered \subseteq Registered'
    <2>1. CASE ~Swaps(regCount, seen[s])
      BY <1>1, <1>4, <2>1, Zenon DEF SwapReg
    <2>2. CASE Swaps(regCount, seen[s])
      <3>1. /\ spc[s] = "swap" /\ regCount' = regCount + 1
            /\ spc' = [spc EXCEPT ![s] = "wait scheduler"]
        BY <1>4, <2>2, Zenon DEF SwapReg, Swaps
      <3>2. spc[0] # "regist" /\ spc'[0] # "regist"
        BY <1>0, <3>1, Zenon DEF RegistrationExact
      <3>3. Registered' = Registered \cup {s} /\ s \notin Registered
        BY <1>0, <3>1, Zenon DEF Registered
      <3>4. IsFiniteSet(Registered)
        BY SchedulersFinite, FS_Subset DEF Registered
      <3>5. Cardinality(Registered \cup {s}) = Cardinality(Registered) + 1
        BY <3>3, <3>4, FS_AddElement
      <3>6. regCount' = Cardinality(Registered \cup {s})
        BY <3>1, <3>2, <3>5, Zenon DEF RegistrationExact
      <3> QED
        BY <3>2, <3>3, <3>6, Zenon DEF RegistrationExact
    <2> QED
      BY <2>1, <2>2
  <1>5. ASSUME NEW s \in Schedulers, NEW from, NEW to \in Past, from \in Past \cup {"insert"},
               spc[s] = from, spc' = [spc EXCEPT ![s] = to], UNCHANGED regCount
        PROVE  RegistrationExact' /\ Registered \subseteq Registered'
    <2>1. \A u \in Schedulers : /\ spc'[u] = "regist" <=> spc[u] = "regist"
                                /\ spc'[u] = "swap" <=> spc[u] = "swap"
      BY <1>0, <1>5, Zenon DEF Past
    <2> QED
      BY <1>5, <2>1, RegistrationSame
  <1>6. ASSUME NEW s \in Schedulers, InsertRecv(s) \/ WaitAllScheduler(s) \/ ForkEs(s)
                                       \/ WaitAllTaskRecv(s)
        PROVE  RegistrationExact' /\ Registered \subseteq Registered'
    <2>1. UNCHANGED regCount
      BY <1>6, Zenon DEF InsertRecv, WaitAllScheduler, ForkEs, WaitAllTaskRecv
    <2>2. \E to \in Past : spc[s] \in Past \cup {"insert"} /\ spc' = [spc EXCEPT ![s] = to]
      BY <1>6, Zenon DEF InsertRecv, WaitAllScheduler, ForkEs, WaitAllTaskRecv, Past
    <2> QED
      BY <1>5, <2>1, <2>2, Zenon
  <1>7. ASSUME NEW s \in Schedulers, SchedulerStep(s) \/ Serve(s)
        PROVE  RegistrationExact' /\ Registered \subseteq Registered'
    <2>1. CASE Serve(s)
      BY <1>1, <2>1, Zenon DEF Serve
    <2> QED
      BY <1>2, <1>3, <1>4, <1>6, <1>7, <2>1 DEF SchedulerStep
  <1>8. ASSUME NEW c \in Clients, ClientStep(c)
        PROVE  RegistrationExact' /\ Registered \subseteq Registered'
    BY <1>1, <1>8, Zenon DEF ClientStep, ClientWait, InsertTaskInfo, SubmitTask
  <1>9. ASSUME NEW c \in Clients, NEW s \in Schedulers, ServeStep(c, s)
        PROVE  RegistrationExact' /\ Registered \subseteq Registered'
    BY <1>1, <1>9, Zenon DEF ServeStep, Accept, RecvTaskFromClient, LookupRecv, SwapRecv
  <1>10. CASE UNCHANGED vars
    BY <1>1, <1>10 DEF vars
  <1> QED
    BY <1>7, <1>8, <1>9, <1>10 DEF Next

(* A count that is NumScheduler means that all are registered. *)
LEMMA CountMeansAll ==
    ASSUME TypeOK, RegistrationExact, StrToNum(regCount) = NumScheduler
    PROVE  Registered = Schedulers
  <1>1. regCount # Absent /\ regCount = NumScheduler
    BY StartupAssumption DEF StrToNum
  <1>2. regCount = Cardinality(Registered)
    BY <1>1, Zenon DEF RegistrationExact
  <1>3. Registered \in SUBSET Schedulers
    BY DEF Registered
  <1> QED
    BY <1>1, <1>2, <1>3, SchedulersFinite, FS_Subset, Zenon

(* Nobody passes wait_all_scheduler before all have registered. *)
LEMMA RegisteredFirstNext ==
    TypeOK /\ RegistrationExact /\ AllRegisteredFirst /\ [Next]_vars => AllRegisteredFirst'
  <1> SUFFICES ASSUME TypeOK, RegistrationExact, AllRegisteredFirst, [Next]_vars
               PROVE  AllRegisteredFirst'
    OBVIOUS
  <1> USE DEF main, serving, clients
  <1>0. /\ spc \in [Schedulers -> {"regist", "insert", "swap", "wait scheduler", "open",
                                   "wait task", "started"}]
        /\ cpc \in [Clients -> {"wait", "info", "submit", "submitted"}]
    BY Zenon DEF TypeOK
  <1>1. ASSUME Registered = Schedulers PROVE AllRegisteredFirst'
    <2>1. Registered' = Schedulers
      BY <1>1, RegistrationNext DEF Registered
    <2> QED
      BY <2>1, Zenon DEF AllRegisteredFirst
  <1>2. ASSUME Registered # Schedulers PROVE AllRegisteredFirst'
    <2>1. /\ \A s \in Schedulers : spc[s] \notin {"open", "wait task", "started"}
          /\ \A c \in Clients : cpc[c] = "wait"
          /\ StrToNum(regCount) # NumScheduler
      BY <1>0, <1>2, CountMeansAll, Zenon DEF AllRegisteredFirst
    <2>2. \A s \in Schedulers : spc'[s] \notin {"open", "wait task", "started"}
      <3>1. ASSUME NEW s \in Schedulers, NEW to \in {"insert", "wait scheduler", "swap"},
                   spc' = [spc EXCEPT ![s] = to]
            PROVE  \A u \in Schedulers : spc'[u] \notin {"open", "wait task", "started"}
        BY <1>0, <2>1, <3>1, Zenon
      <3>2. \/ UNCHANGED spc
            \/ \E s \in Schedulers : \E to \in {"insert", "wait scheduler", "swap"} :
                  spc' = [spc EXCEPT ![s] = to]
        <4>1. ASSUME NEW s \in Schedulers, SchedulerStep(s)
              PROVE  \/ UNCHANGED spc
                     \/ \E to \in {"insert", "wait scheduler", "swap"} :
                           spc' = [spc EXCEPT ![s] = to]
          <5>1. ~WaitAllScheduler(s)
            BY <2>1, Zenon DEF WaitAllScheduler
          <5>2. ~ForkEs(s) /\ ~WaitAllTaskRecv(s)
            BY <2>1, Zenon DEF ForkEs, WaitAllTaskRecv
          <5> QED
            BY <4>1, <5>1, <5>2, Zenon DEF SchedulerStep, InsertReg, InsertRecv, LookupReg, SwapReg
        <4>2. ASSUME NEW s \in Schedulers, Serve(s) PROVE UNCHANGED spc
          BY <4>2, Zenon DEF Serve
        <4>3. ASSUME NEW c \in Clients, ClientStep(c) PROVE UNCHANGED spc
          BY <4>3, Zenon DEF ClientStep, ClientWait, InsertTaskInfo, SubmitTask
        <4>4. ASSUME NEW c \in Clients, NEW s \in Schedulers, ServeStep(c, s)
              PROVE  UNCHANGED spc
          BY <4>4, Zenon DEF ServeStep, Accept, RecvTaskFromClient, LookupRecv, SwapRecv
        <4>5. CASE UNCHANGED vars
          BY <4>5 DEF vars
        <4> QED
          BY <4>1, <4>2, <4>3, <4>4, <4>5, Zenon DEF Next
      <3> QED
        BY <2>1, <3>1, <3>2, Zenon
    <2>3. UNCHANGED cpc
      <3>1. ASSUME NEW c \in Clients, ClientStep(c) PROVE FALSE
        <4>1. ~ClientWait(c)
          BY <2>1, Zenon DEF ClientWait
        <4>2. ~InsertTaskInfo(c) /\ ~SubmitTask(c)
          BY <2>1, Zenon DEF InsertTaskInfo, SubmitTask
        <4> QED
          BY <3>1, <4>1, <4>2 DEF ClientStep
      <3>2. ASSUME NEW s \in Schedulers, SchedulerStep(s) \/ Serve(s) PROVE UNCHANGED cpc
        BY <3>2, Zenon DEF SchedulerStep, InsertReg, InsertRecv, LookupReg, SwapReg,
                           WaitAllScheduler, ForkEs, WaitAllTaskRecv, Serve
      <3>3. ASSUME NEW c \in Clients, NEW s \in Schedulers, ServeStep(c, s)
            PROVE  UNCHANGED cpc
        BY <3>3, Zenon DEF ServeStep, Accept, RecvTaskFromClient, LookupRecv, SwapRecv
      <3>4. CASE UNCHANGED vars
        BY <3>4 DEF vars
      <3> QED
        BY <3>1, <3>2, <3>3, <3>4 DEF Next
    <2> QED
      BY <2>1, <2>2, <2>3, Zenon DEF AllRegisteredFirst
  <1> QED
    BY <1>1, <1>2

(* No scheduler opens its server, and no client goes on, before every      *)
(* scheduler has counted itself, whatever the order of their lookups and   *)
(* compare_swaps.                                                          *)
THEOREM RegistrationCorrect == Spec => []AllRegisteredFirst
  <1>1. Init => RegistrationExact /\ AllRegisteredFirst
    BY SchedulersFinite DEF Init, RegistrationExact, AllRegisteredFirst
  <1> QED
    BY <1>1, RegistrationNext, RegisteredFirstNext, TypeHolds, PTL DEF Spec

-----------------------------------------------------------------------------
(* The count of the tasks. *)

(* Only scheduler 0 inserts the counters, and nothing is counted before. *)
InsertsFirst ==
    /\ \A s \in Schedulers : spc[s] = "insert" => s = 0
    /\ spc[0] \in {"regist", "insert"} => recvCount = Absent

(* The schedulers that client c has turned to. *)
Sent(c, s) ==
    IF submitMode = "bestcase"
      THEN cpc[c] = "submitted" \/ (cpc[c] = "submit" /\ s < target[c])
      ELSE cpc[c] = "submitted" /\ s = target[c]

SentOnce == \A c \in Clients, s \in Schedulers : conn[<<c, s>>] # "none" => Sent(c, s)

(* A client submits its tasks after it has inserted their records. *)
InfoFirst ==
    \A c \in Clients : cpc[c] \in {"submit", "submitted"} => OwnTasks(c) \subseteq info

Taken == {"lookup", "swap", "done"}

(* A batch is queued before it is counted. *)
BatchQueued ==
    \A c \in Clients, s \in Schedulers :
        conn[<<c, s>>] \in Taken => Batch(c, s) \subseteq waitQueue[s]

(* The tasks of the batches that are done, which are the ones counted. *)
Counted ==
    {t \in Tasks : \E s \in Schedulers : conn[<<t[1], s>>] = "done" /\ t \in Batch(t[1], s)}

CountExact ==
    /\ recvCount = Absent => Counted = {}
    /\ recvCount # Absent => recvCount = Cardinality(Counted)

QueueInv ==
    /\ InsertsFirst /\ SentOnce /\ InfoFirst /\ BatchQueued /\ CountExact
    /\ StartedWithAllTasks /\ QueuedIsKnown

(* The queues are empty at first. *)
LEMMA QueueInit == Init => QueueInv
  <1> SUFFICES ASSUME Init PROVE QueueInv
    OBVIOUS
  <1>1. \A c \in Clients, s \in Schedulers : conn[<<c, s>>] = "none"
    BY DEF Init
  <1>2. \A s \in Schedulers : spc[s] = "regist" /\ waitQueue[s] = {}
    BY DEF Init
  <1>3. (\A c \in Clients : cpc[c] = "wait") /\ recvCount = Absent
    BY DEF Init
  <1>4. Counted = {}
    BY <1>1, Zenon DEF Counted, Tasks
  <1>5. InsertsFirst /\ StartedWithAllTasks /\ QueuedIsKnown
    BY <1>2, <1>3 DEF InsertsFirst, StartedWithAllTasks, QueuedIsKnown
  <1>6. SentOnce /\ BatchQueued
    BY <1>1 DEF SentOnce, BatchQueued, Taken
  <1>7. InfoFirst
    BY <1>3 DEF InfoFirst
  <1> QED
    BY <1>3, <1>4, <1>5, <1>6, <1>7 DEF CountExact, QueueInv

(* No two batches of a run share a task: the tasks are dealt out in turn,  *)
(* or they all go to one scheduler.                                        *)
LEMMA BatchesApart ==
    ASSUME TypeOK, SentOnce, NEW c \in Clients, NEW d \in Clients,
           NEW s \in Schedulers, NEW u \in Schedulers, c # d \/ s # u,
           conn[<<c, s>>] # "none", conn[<<d, u>>] # "none",
           NEW t \in Batch(c, s)
    PROVE  t \notin Batch(d, u)
  <1>1. t \in OwnTasks(c) /\ Batch(d, u) \subseteq OwnTasks(d)
    BY BatchIsOwn
  <1>2. CASE c # d
    BY <1>1, <1>2 DEF OwnTasks
  <1>3. CASE c = d /\ submitMode = "bestcase"
    BY <1>3 DEF Batch
  <1>4. CASE c = d /\ submitMode # "bestcase"
    <2>1. Sent(c, s) /\ Sent(d, u)
      BY DEF SentOnce
    <2> QED
      BY <1>4, <2>1 DEF Sent
  <1> QED
    BY <1>2, <1>3, <1>4

(* What has been counted is queued, so that once all is counted all is     *)
(* queued.                                                                 *)
LEMMA AllQueued ==
    ASSUME TypeOK, BatchQueued, CountExact, StrToNum(recvCount) = NumAllTask
    PROVE  UNION {waitQueue[u] : u \in Schedulers} = Tasks
  <1>1. recvCount # Absent /\ recvCount = Cardinality(Tasks)
    BY TasksFinite DEF StrToNum, NumAllTask
  <1>2. Counted \in SUBSET Tasks
    BY DEF Counted
  <1>3. Counted = Tasks
    BY <1>1, <1>2, TasksFinite, FS_Subset DEF CountExact
  <1>4. ASSUME NEW t \in Tasks PROVE \E u \in Schedulers : t \in waitQueue[u]
    <2>1. PICK s \in Schedulers : conn[<<t[1], s>>] = "done" /\ t \in Batch(t[1], s)
      BY <1>3 DEF Counted
    <2>2. t[1] \in Clients
      BY DEF Tasks
    <2> QED
      BY <2>1, <2>2 DEF BatchQueued, Taken
  <1>5. \A u \in Schedulers : waitQueue[u] \subseteq Tasks
    BY Zenon DEF TypeOK
  <1> QED
    BY <1>4, <1>5

(* The invariant speaks of the queues, the connections and the clients     *)
(* only through these.                                                     *)
LEMMA QueueSame ==
    ASSUME SentOnce, InfoFirst, BatchQueued, QueuedIsKnown,
           UNCHANGED <<info, conn, waitQueue, cpc, target, submitMode>>
    PROVE  SentOnce' /\ InfoFirst' /\ BatchQueued' /\ QueuedIsKnown' /\ Counted' = Counted
  <1>1. \A c \in Clients, s \in Schedulers : Batch(c, s)' = Batch(c, s)
    BY DEF Batch
  <1>2. BatchQueued'
    BY <1>1 DEF BatchQueued
  <1>3. Counted' = Counted
    BY DEF Counted, Batch
  <1>4. SentOnce'
    BY DEF SentOnce, Sent
  <1>5. InfoFirst' /\ QueuedIsKnown'
    BY DEF InfoFirst, QueuedIsKnown
  <1> QED
    BY <1>2, <1>3, <1>4, <1>5

(* The steps of a scheduler leave queues and batches alone. *)
LEMMA QueueScheduler ==
    ASSUME TypeOK, QueueInv, NEW s \in Schedulers, SchedulerStep(s) \/ Serve(s)
    PROVE  QueueInv'
  <1> USE DEF main, serving, clients
  <1>0. 0 \in Schedulers /\ spc \in [Schedulers -> {"regist", "insert", "swap",
                                "wait scheduler", "open", "wait task", "started"}]
    BY SchedulersFinite, Zenon DEF TypeOK
  <1>1. UNCHANGED <<info, conn, waitQueue, cpc, target, submitMode>>
    BY Zenon DEF SchedulerStep, InsertReg, InsertRecv, LookupReg, SwapReg,
                 WaitAllScheduler, ForkEs, WaitAllTaskRecv, Serve
  <1>2. SentOnce' /\ InfoFirst' /\ BatchQueued' /\ QueuedIsKnown' /\ Counted' = Counted
    BY <1>1, QueueSame DEF QueueInv
  <1>3. CASE InsertRecv(s)
    <2>1. s = 0 /\ recvCount = Absent /\ recvCount' = 0
      BY <1>3, Zenon DEF InsertRecv, QueueInv, InsertsFirst
    <2>2. spc' = [spc EXCEPT ![s] = "wait scheduler"]
      BY <1>3, Zenon DEF InsertRecv
    <2>3. InsertsFirst'
      BY <1>0, <2>1, <2>2, Zenon DEF QueueInv, InsertsFirst
    <2>4. StartedWithAllTasks'
      BY <1>0, <1>1, <2>2, Zenon DEF QueueInv, StartedWithAllTasks
    <2>5. CountExact'
      <3>1. Counted' = {}
        BY <1>2, <2>1 DEF QueueInv, CountExact
      <3>2. Absent # 0 /\ Cardinality({}) = 0
        BY FS_EmptySet DEF Absent
      <3> QED
        BY <2>1, <3>1, <3>2 DEF CountExact
    <2> QED
      BY <1>2, <2>3, <2>4, <2>5 DEF QueueInv
  <1>4. CASE ~InsertRecv(s)
    <2>1. UNCHANGED recvCount
      BY <1>4, Zenon DEF SchedulerStep, InsertReg, LookupReg, SwapReg,
                         WaitAllScheduler, ForkEs, WaitAllTaskRecv, Serve
    <2>2. CountExact'
      BY <1>2, <2>1 DEF QueueInv, CountExact
    <2>3. InsertsFirst'
      <3>1. \/ UNCHANGED spc
            \/ s = 0 /\ spc[s] = "regist" /\ spc' = [spc EXCEPT ![s] = "insert"]
            \/ \E to \in {"swap", "wait scheduler", "open", "wait task", "started"} :
                  spc' = [spc EXCEPT ![s] = to]
        BY <1>4, Zenon DEF SchedulerStep, InsertReg, LookupReg, SwapReg,
                    WaitAllScheduler, ForkEs, WaitAllTaskRecv, Serve
      <3> QED
        BY <1>0, <2>1, <3>1, Zenon DEF QueueInv, InsertsFirst
    <2>4. StartedWithAllTasks'
      <3>1. CASE WaitAllTaskRecv(s)
        <4>1. StrToNum(recvCount) = NumAllTask
          BY <3>1, Zenon DEF WaitAllTaskRecv
        <4>2. UNION {waitQueue[u] : u \in Schedulers} = Tasks
          BY <4>1, AllQueued DEF QueueInv
        <4> QED
          BY <1>1, <4>2, Zenon DEF StartedWithAllTasks
      <3>2. CASE ~WaitAllTaskRecv(s)
        <4>1. \/ UNCHANGED spc
              \/ \E to \in {"insert", "swap", "wait scheduler", "open", "wait task"} :
                    spc' = [spc EXCEPT ![s] = to]
          BY <1>4, <3>2, Zenon DEF SchedulerStep, InsertReg, LookupReg, SwapReg,
                            WaitAllScheduler, ForkEs, Serve
        <4>2. \A u \in Schedulers : spc'[u] = "started" => spc[u] = "started"
          BY <1>0, <4>1, Zenon
        <4> QED
          BY <1>1, <4>2 DEF QueueInv, StartedWithAllTasks
      <3> QED
        BY <3>1, <3>2
    <2> QED
      BY <1>2, <2>2, <2>3, <2>4 DEF QueueInv
  <1> QED
    BY <1>3, <1>4

(* A client that turns to a scheduler has not done so before. *)
LEMMA SubmitSends ==
    ASSUME TypeOK, SentOnce, NEW c \in Clients, SubmitTask(c)
    PROVE  /\ conn[<<c, target[c]>>] = "none"
           /\ conn'[<<c, target[c]>>] \in {"backlog", "refused"}
           /\ \A d \in Clients, s \in Schedulers :
                 d # c \/ s # target[c] => conn'[<<d, s>>] = conn[<<d, s>>]
           /\ SentOnce'
  <1>0. target[c] \in Schedulers /\ cpc[c] = "submit" /\ NextTarget(c) /\ UNCHANGED submitMode
    BY Zenon DEF TypeOK, SubmitTask
  <1>1. conn[<<c, target[c]>>] = "none"
    <2>1. ~(target[c] < target[c])
      <3>1. target[c] \in Nat
        BY <1>0, SchedulersFinite, Zenon
      <3> QED
        BY <3>1
    <2>2. ~Sent(c, target[c])
      BY <1>0, <2>1 DEF Sent
    <2> QED
      BY <1>0, <2>2 DEF SentOnce
  <1>2. PICK v \in {"backlog", "refused"} : conn' = [conn EXCEPT ![<<c, target[c]>>] = v]
    BY Zenon DEF SubmitTask
  <1>3. /\ conn'[<<c, target[c]>>] = v
        /\ \A d \in Clients, s \in Schedulers :
              d # c \/ s # target[c] => conn'[<<d, s>>] = conn[<<d, s>>]
    BY <1>0, <1>2, Zenon DEF TypeOK
  <1>4. ASSUME NEW d \in Clients, NEW s \in Schedulers, conn'[<<d, s>>] # "none"
        PROVE  Sent(d, s)'
    <2>0. cpc \in [Clients -> {"wait", "info", "submit", "submitted"}] /\ target \in [Clients -> Schedulers]
      BY Zenon DEF TypeOK
    <2>1. d # c \/ s # target[c] => Sent(d, s)
      BY <1>3, <1>4 DEF SentOnce
    <2>2. CASE submitMode = "bestcase" /\ target[c] + 1 < NumScheduler
      <3>1. target' = [target EXCEPT ![c] = target[c] + 1] /\ UNCHANGED cpc
        BY <1>0, <2>2, Zenon DEF NextTarget
      <3>2. target'[c] = target[c] + 1 /\ (d # c => target'[d] = target[d])
        BY <2>0, <3>1
      <3>3. s \in Nat /\ target[c] \in Nat
        BY <1>0, SchedulersFinite
      <3>4. d = c => s < target'[c]
        <4>1. CASE d = c /\ s = target[c]
          BY <3>2, <3>3, <4>1
        <4>2. CASE d = c /\ s # target[c]
          <5>1. s < target[c]
            BY <1>0, <2>1, <2>2, <4>2 DEF Sent
          <5> QED
            BY <3>2, <3>3, <5>1
        <4> QED
          BY <4>1, <4>2
      <3> QED
        BY <1>0, <2>1, <2>2, <3>1, <3>2, <3>4 DEF Sent
    <2>3. CASE ~(submitMode = "bestcase" /\ target[c] + 1 < NumScheduler)
      <3>1. cpc' = [cpc EXCEPT ![c] = "submitted"] /\ UNCHANGED target
        BY <1>0, <2>3, Zenon DEF NextTarget
      <3>2. cpc'[c] = "submitted" /\ (d # c => cpc'[d] = cpc[d])
        BY <2>0, <3>1
      <3> QED
        BY <1>0, <2>1, <3>1, <3>2 DEF Sent
    <2> QED
      BY <2>2, <2>3
  <1> QED
    BY <1>1, <1>3, <1>4 DEF SentOnce

(* A client submits each of its batches once. *)
LEMMA QueueClient ==
    ASSUME TypeOK, QueueInv, NEW c \in Clients, ClientStep(c)
    PROVE  QueueInv'
  <1> USE DEF main, serving, clients
  <1>0. cpc \in [Clients -> {"wait", "info", "submit", "submitted"}] /\ target \in [Clients -> Schedulers]
    BY Zenon DEF TypeOK
  <1>1. UNCHANGED <<recvCount, spc, waitQueue, submitMode>>
    BY Zenon DEF ClientStep, ClientWait, InsertTaskInfo, SubmitTask
  <1>2. info \subseteq info'
    BY DEF ClientStep, ClientWait, InsertTaskInfo, SubmitTask
  <1>3. InsertsFirst' /\ StartedWithAllTasks' /\ QueuedIsKnown'
    BY <1>1, <1>2 DEF QueueInv, InsertsFirst, StartedWithAllTasks, QueuedIsKnown
  <1>4. \A d \in Clients, s \in Schedulers :
           conn'[<<d, s>>] = conn[<<d, s>>]
             \/ (conn[<<d, s>>] \notin Taken /\ conn'[<<d, s>>] \notin Taken)
    <2>1. CASE SubmitTask(c)
      BY <2>1, SubmitSends, Zenon DEF QueueInv, Taken
    <2>2. CASE ~SubmitTask(c)
      BY <2>2, Zenon DEF ClientStep, ClientWait, InsertTaskInfo
    <2> QED
      BY <2>1, <2>2, Zenon
  <1>5. \A d \in Clients, s \in Schedulers : Batch(d, s)' = Batch(d, s)
    BY <1>1 DEF Batch
  <1>6. BatchQueued'
    BY <1>1, <1>4, <1>5 DEF QueueInv, BatchQueued
  <1>7. CountExact'
    <2>1. \A t \in Tasks : t[1] \in Clients
      BY DEF Tasks
    <2>2. Counted' = Counted
      BY <1>4, <1>5, <2>1, Zenon DEF Counted, Taken
    <2> QED
      BY <1>1, <2>2 DEF QueueInv, CountExact
  <1>8. InfoFirst'
    <2>1. \/ /\ cpc[c] = "wait" /\ cpc' = [cpc EXCEPT ![c] = "info"]
          \/ /\ info' = info \cup OwnTasks(c) /\ cpc' = [cpc EXCEPT ![c] = "submit"]
          \/ /\ cpc[c] = "submit" /\ UNCHANGED cpc
          \/ /\ cpc[c] = "submit" /\ cpc' = [cpc EXCEPT ![c] = "submitted"]
      BY Zenon DEF ClientStep, ClientWait, InsertTaskInfo, SubmitTask, NextTarget
    <2> QED
      BY <1>0, <1>2, <2>1 DEF QueueInv, InfoFirst, OwnTasks
  <1>9. SentOnce'
    <2>1. CASE SubmitTask(c)
      BY <2>1, SubmitSends, Zenon DEF QueueInv
    <2>2. CASE ~SubmitTask(c)
      <3>1. /\ cpc[c] \in {"wait", "info"} /\ UNCHANGED conn
            /\ \E v \in {"info", "submit"} : cpc' = [cpc EXCEPT ![c] = v]
            /\ \E s \in Schedulers : target' = [target EXCEPT ![c] = s]
        <4>1. CASE ClientWait(c)
          BY <1>0, <4>1 DEF ClientWait
        <4>2. CASE InsertTaskInfo(c)
          BY <4>2, Zenon DEF InsertTaskInfo
        <4> QED
          BY <2>2, <4>1, <4>2 DEF ClientStep
      <3>2. \A s \in Schedulers : conn[<<c, s>>] = "none"
        BY <3>1 DEF QueueInv, SentOnce, Sent
      <3>3. \A d \in Clients : d # c => cpc'[d] = cpc[d] /\ target'[d] = target[d]
        BY <1>0, <3>1
      <3>4. ASSUME NEW d \in Clients, NEW s \in Schedulers, conn'[<<d, s>>] # "none"
            PROVE  Sent(d, s)'
        <4>1. d # c /\ Sent(d, s)
          BY <3>1, <3>2, <3>4 DEF QueueInv, SentOnce
        <4> QED
          BY <1>1, <3>3, <4>1 DEF Sent
      <3> QED
        BY <3>4 DEF SentOnce
    <2> QED
      BY <2>1, <2>2
  <1> QED
    BY <1>3, <1>6, <1>7, <1>8, <1>9 DEF QueueInv

(* The server of a scheduler: a batch is queued whole, then counted once. *)
LEMMA QueueServe ==
    ASSUME TypeOK, QueueInv, NEW c \in Clients, NEW s \in Schedulers, ServeStep(c, s)
    PROVE  QueueInv'
  <1> USE DEF main, serving, clients
  <1>0. /\ conn[<<c, s>>] \in {"backlog", "event", "lookup", "swap"}
        /\ conn[<<c, s>>] = "swap" => ~RecvTaskFromClient(c, s)
    BY DEF ServeStep, Accept, RecvTaskFromClient, LookupRecv, SwapRecv
  <1>1. UNCHANGED <<spc, info, cpc, target, submitMode>>
    BY Zenon DEF ServeStep, Accept, RecvTaskFromClient, LookupRecv, SwapRecv
  <1>2. PICK v \in {"event", "lookup", "swap", "done"} : conn' = [conn EXCEPT ![<<c, s>>] = v]
    BY DEF ServeStep, Accept, RecvTaskFromClient, LookupRecv, SwapRecv
  <1>3. /\ conn'[<<c, s>>] = v
        /\ \A d \in Clients, u \in Schedulers :
              d # c \/ u # s => conn'[<<d, u>>] = conn[<<d, u>>]
    BY <1>2, Zenon DEF TypeOK
  <1>4. Sent(c, s) /\ Batch(c, s) \subseteq info
    <2>1. Sent(c, s)
      BY <1>0 DEF QueueInv, SentOnce
    <2>2. cpc[c] \in {"submit", "submitted"}
      BY <2>1 DEF Sent
    <2> QED
      BY <2>1, <2>2, BatchIsOwn DEF QueueInv, InfoFirst
  <1>5. SentOnce'
    <2>1. ASSUME NEW d \in Clients, NEW u \in Schedulers, conn'[<<d, u>>] # "none"
          PROVE  Sent(d, u)
      BY <1>3, <1>4, <2>1 DEF QueueInv, SentOnce
    <2>2. \A d \in Clients, u \in Schedulers : Sent(d, u)' <=> Sent(d, u)
      BY <1>1 DEF Sent
    <2> QED
      BY <2>1, <2>2 DEF SentOnce
  <1>6. InfoFirst'
    BY <1>1 DEF QueueInv, InfoFirst
  <1>7. \/ UNCHANGED waitQueue
        \/ waitQueue' = [waitQueue EXCEPT ![s] = waitQueue[s] \cup Batch(c, s)]
    BY Zenon DEF ServeStep, Accept, RecvTaskFromClient, LookupRecv, SwapRecv
  <1>8. /\ \A u \in Schedulers : waitQueue[u] \subseteq waitQueue'[u]
        /\ \A u \in Schedulers : waitQueue'[u] \subseteq waitQueue[u] \cup Batch(c, s)
        /\ \A u \in Schedulers : waitQueue'[u] \subseteq Tasks
    <2>1. waitQueue \in [Schedulers -> SUBSET Tasks]
      BY Zenon DEF TypeOK
    <2>2. Batch(c, s) \subseteq Tasks
      BY BatchIsOwn, OwnTasksAreTasks
    <2> QED
      BY <1>7, <2>1, <2>2
  <1>9. QueuedIsKnown'
    BY <1>1, <1>4, <1>8 DEF QueueInv, QueuedIsKnown
  <1>10. StartedWithAllTasks'
    <2>1. ASSUME UNION {waitQueue[u] : u \in Schedulers} = Tasks
          PROVE  UNION {waitQueue'[u] : u \in Schedulers} = Tasks
      BY <1>8, <2>1
    <2> QED
      BY <1>1, <2>1 DEF QueueInv, StartedWithAllTasks
  <1>11. \A d \in Clients, u \in Schedulers : Batch(d, u)' = Batch(d, u)
    BY <1>1 DEF Batch
  <1>12. BatchQueued'
    <2>1. v \in Taken => Batch(c, s) \subseteq waitQueue'[s]
      <3>1. CASE RecvTaskFromClient(c, s)
        <4>1. waitQueue' = [waitQueue EXCEPT ![s] = waitQueue[s] \cup Batch(c, s)]
          BY <3>1, Zenon DEF RecvTaskFromClient
        <4> QED
          BY <4>1, Zenon DEF TypeOK
      <3>2. CASE Accept(c, s)
        BY <1>3, <3>2, Zenon DEF Accept, TypeOK, Taken
      <3>3. CASE LookupRecv(c, s) \/ SwapRecv(c, s)
        <4>1. conn[<<c, s>>] \in Taken
          BY <3>3 DEF LookupRecv, SwapRecv, Taken
        <4> QED
          BY <1>8, <4>1 DEF QueueInv, BatchQueued
      <3> QED
        BY <3>1, <3>2, <3>3 DEF ServeStep
    <2>2. ASSUME NEW d \in Clients, NEW u \in Schedulers, conn'[<<d, u>>] \in Taken
          PROVE  Batch(d, u) \subseteq waitQueue'[u]
      BY <1>3, <1>8, <2>1, <2>2 DEF QueueInv, BatchQueued
    <2> QED
      BY <1>11, <2>2 DEF BatchQueued
  <1>13. Counted' = IF v = "done" THEN Counted \cup Batch(c, s) ELSE Counted
    <2>1. \A t \in Tasks : t[1] \in Clients
      BY DEF Tasks
    <2>2. \A t \in Batch(c, s) : t \in Tasks /\ t[1] = c
      BY BatchIsOwn DEF OwnTasks, Tasks
    <2>3. conn[<<c, s>>] # "done"
      BY <1>0
    <2>4. ASSUME NEW t \in Tasks
          PROVE  (\E u \in Schedulers : conn'[<<t[1], u>>] = "done" /\ t \in Batch(t[1], u))
                   <=> t \in Counted \/ (v = "done" /\ t \in Batch(c, s))
      BY <1>3, <2>1, <2>2, <2>3, Zenon DEF Counted
    <2>5. Counted' = {t \in Tasks : \E u \in Schedulers :
                         conn'[<<t[1], u>>] = "done" /\ t \in Batch(t[1], u)}
      BY <1>1 DEF Counted, Batch
    <2>6. Counted \subseteq Tasks
      BY DEF Counted
    <2> QED
      BY <2>2, <2>4, <2>5, <2>6
  <1>14. CASE SwapRecv(c, s) /\ Swaps(recvCount, recvSeen[s])
    <2>1. /\ recvCount' = StrToNum(recvSeen[s]) + Cardinality(Batch(c, s))
          /\ conn' = [conn EXCEPT ![<<c, s>>] = "done"]
      BY <1>14, Zenon DEF SwapRecv
    <2>2. recvCount # Absent /\ recvCount' = recvCount + Cardinality(Batch(c, s))
      BY <1>14, <2>1 DEF Swaps, StrToNum
    <2>3. v = "done"
      BY <1>3, <2>1, Zenon DEF TypeOK
    <2>4. Counted \cap Batch(c, s) = {}
      <3>1. ASSUME NEW t \in Batch(c, s), t \in Counted PROVE FALSE
        <4>1. PICK u \in Schedulers : conn[<<t[1], u>>] = "done" /\ t \in Batch(t[1], u)
          BY <3>1 DEF Counted
        <4>2. t[1] = c
          BY BatchIsOwn DEF OwnTasks
        <4>3. u # s
          BY <1>0, <4>1, <4>2
        <4> QED
          BY <1>0, <4>1, <4>2, <4>3, BatchesApart DEF QueueInv
      <3> QED
        BY <3>1
    <2>5. /\ IsFiniteSet(Counted) /\ IsFiniteSet(Batch(c, s))
          /\ Cardinality(Counted) \in Nat /\ Cardinality(Batch(c, s)) \in Nat
      <3>1. Counted \in SUBSET Tasks /\ Batch(c, s) \in SUBSET Tasks
        BY BatchIsOwn, OwnTasksAreTasks DEF Counted
      <3> QED
        BY <3>1, TasksFinite, FS_Subset, FS_CardinalityType
    <2>6. Cardinality(Counted \cup Batch(c, s)) = Cardinality(Counted) + Cardinality(Batch(c, s))
      <3>1. Cardinality(Counted \cup Batch(c, s))
              = Cardinality(Counted) + Cardinality(Batch(c, s)) - Cardinality(Counted \cap Batch(c, s))
        BY <2>5, FS_Union
      <3>2. Cardinality(Counted \cap Batch(c, s)) = 0
        BY <2>4, FS_EmptySet
      <3> QED
        BY <2>5, <3>1, <3>2
    <2>7. recvCount' = Cardinality(Counted')
      <3>1. recvCount = Cardinality(Counted) /\ Counted' = Counted \cup Batch(c, s)
        BY <1>13, <2>2, <2>3 DEF QueueInv, CountExact
      <3> QED
        BY <2>2, <2>6, <3>1, Zenon
    <2>8. recvCount' # Absent
      BY <1>13, <2>2, <2>3, <2>5, <2>6, <2>7 DEF Absent
    <2>9. CountExact'
      BY <2>7, <2>8 DEF CountExact
    <2>10. InsertsFirst'
      BY <1>1, <2>2 DEF QueueInv, InsertsFirst
    <2> QED
      BY <1>5, <1>6, <1>9, <1>10, <1>12, <2>9, <2>10 DEF QueueInv
  <1>15. CASE ~(SwapRecv(c, s) /\ Swaps(recvCount, recvSeen[s]))
    <2>1. UNCHANGED recvCount
      BY <1>15, Zenon DEF ServeStep, Accept, RecvTaskFromClient, LookupRecv, SwapRecv
    <2>2. v = "done" => Batch(c, s) = {}
      <3>1. conn'[<<c, s>>] = "done" => RecvTaskFromClient(c, s) /\ Batch(c, s) = {}
        BY <1>15, Zenon DEF ServeStep, Accept, RecvTaskFromClient, LookupRecv, SwapRecv, TypeOK
      <3> QED
        BY <1>3, <3>1
    <2>3. Counted' = Counted
      BY <1>13, <2>2
    <2>4. InsertsFirst' /\ CountExact'
      BY <1>1, <2>1, <2>3 DEF QueueInv, InsertsFirst, CountExact
    <2> QED
      BY <1>5, <1>6, <1>9, <1>10, <1>12, <2>4 DEF QueueInv
  <1> QED
    BY <1>14, <1>15

(* Every step keeps the invariant of the queues. *)
LEMMA QueueNext == TypeOK /\ QueueInv /\ [Next]_vars => QueueInv'
  <1> SUFFICES ASSUME TypeOK, QueueInv, [Next]_vars PROVE QueueInv'
    OBVIOUS
  <1>1. CASE UNCHANGED vars
    <2>1. UNCHANGED <<info, conn, waitQueue, cpc, target, submitMode, recvCount, spc>>
      BY <1>1 DEF vars, main, serving, clients
    <2>2. SentOnce' /\ InfoFirst' /\ BatchQueued' /\ QueuedIsKnown' /\ Counted' = Counted
      BY <2>1, QueueSame DEF QueueInv
    <2> QED
      BY <2>1, <2>2 DEF QueueInv, InsertsFirst, CountExact, StartedWithAllTasks
  <1> QED
    BY <1>1, QueueScheduler, QueueClient, QueueServe DEF Next

(* When a scheduler starts to work all tasks of all clients are queued,    *)
(* though they are counted by concurrent compare_swaps on a counter that   *)
(* is inserted late, and a task that is queued has its record in ZHT.      *)
THEOREM QueuesCorrect == Spec => []QueuesOK
  <1>1. TypeOK /\ QueueInv => QueuesOK
    BY DEF QueueInv, QueuesOK
  <1> QED
    BY <1>1, QueueInit, QueueNext, TypeHolds, PTL DEF Spec
=============================================================================
